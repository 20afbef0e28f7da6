---------------------------- MODULE MCSseEndpoint ----------------------------
(* SseEndpoint for TLC: two requests, two admin calls, channel names with  *)
(* bytes that must be escaped, and queries with other pairs in them.       *)
EXTENDS SseEndpoint, SequencesExt

CONSTANTS r1, r2, a1, a2

Room == <<97, 32, 37>>     \* "a %"
Log == <<98>>              \* "b"

\* The client's side: application/x-www-form-urlencoded.
Hex(d) == IF d < 10 THEN 48 + d ELSE 55 + d

Encode(name, everything) ==
    LET Plain(b) == b \in (48..57) \union (65..90) \union (97..122)
        Byte(b) == IF Plain(b) /\ ~everything THEN <<b>>
                   ELSE IF b = Space /\ ~everything THEN <<Plus>>
                   ELSE <<Percent, Hex(b \div 16), Hex(b % 16)>>
    IN  FlattenSeq([i \in DOMAIN name |-> Byte(name[i])])

Pair(name, everything) == [key |-> "channel", eq |-> TRUE, value |-> Encode(name, everything)]
Other == [key |-> "token", eq |-> TRUE, value |-> Log]
Bare == [key |-> "channel", eq |-> FALSE, value |-> <<>>]
Empty == [key |-> "channel", eq |-> TRUE, value |-> <<>>]
NotText == [key |-> "channel", eq |-> TRUE, value |-> <<Percent, 70, 70>>]
Stray == [key |-> "channel", eq |-> TRUE, value |-> <<Percent, 98>>]

Header(scheme, token) == [scheme |-> scheme, token |-> token]
Subscribe(query, header, meant) == [kind |-> "subscribe", query |-> query, header |-> header, meant |-> meant]
Publish(header, c) == [kind |-> "publish", query |-> <<>>, header |-> header, meant |-> <<c>>]

MCInputs ==
    (r1 :> {Subscribe(<<Pair(Room, TRUE), Other, Pair(Log, FALSE)>>, Header("Bearer", "good"), <<Room, Log>>),
            Subscribe(<<Pair(Room, FALSE)>>, Header("Basic", "good"), <<Room>>),
            Subscribe(<<Pair(Log, FALSE), Pair(Log, TRUE)>>, Header("Bearer", "good"), <<Log, Log>>),
            Subscribe(<<Stray>>, Header("Bearer", "good"), None),
            Subscribe(<<Bare, Empty, NotText>>, Header("Bearer", "good"), <<>>),
            Publish(Header("Bearer", "good"), Log)}) @@
    (r2 :> {Publish(Header("Bearer", "bad"), Room)})

AdminCall(op, token) == [op |-> op, target |-> r1, token |-> token]
MCAdminInputs ==
    (a1 :> {AdminCall("disconnect", "admin"), AdminCall("get", "admin"), AdminCall("list", "admin"),
            AdminCall("metrics", None)}) @@
    (a2 :> {AdminCall("disconnect", "admin")})

Config(anonymous, denied, rejected, hub, auth_token) ==
    [anonymous |-> anonymous, valid |-> {"good"}, denied |-> denied, rejected |-> rejected,
     hub |-> hub, metrics |-> hub, auth_token |-> auth_token]

MCConfigs ==
    {Config(FALSE, {}, {}, TRUE, None),
     Config(FALSE, {Log}, {}, TRUE, "admin"),
     Config(TRUE, {}, {Log}, FALSE, None)}
=============================================================================
