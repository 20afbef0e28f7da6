---------------------------- MODULE MCHubRequests ----------------------------
(* HubRequests for TLC: two sessions, three channels in two namespaces and *)
(* the empty name, and three ways to configure the hub.                     *)
EXTENDS HubRequests, TLC

CONSTANTS s1, s2

Orders == <<"orders", "new">>
Docs == <<"docs">>
MCChannels == {Orders, Docs, EmptyName}

MCTokens ==
    [alice |-> [sub |-> "alice", key |-> "k1", aud |-> "web", iss |-> "idp", exp |-> 190],
     bob   |-> [sub |-> "bob", key |-> "k1", aud |-> None, iss |-> None, exp |-> 40],
     stale |-> [sub |-> "alice", key |-> "k1", aud |-> "web", iss |-> "idp", exp |-> 39]]

Connect(id, token) == [kind |-> "Connect", body |-> [request_id |-> id, token |-> token]]
Subscribe(id, c, since) ==
    [kind |-> "Subscribe", body |-> [request_id |-> id, channel |-> c, since_offset |-> since]]
Unsubscribe(id, c) == [kind |-> "Unsubscribe", body |-> [request_id |-> id, channel |-> c]]
Publish(id, c, data) == [kind |-> "Publish", body |-> [request_id |-> id, channel |-> c, data |-> data]]

\* s1 sends every kind of frame, with default and other values in every
\* field; s2 sends what can meet it on a shared channel.
MCRequests ==
    (s1 :> {Connect(1, "alice"), Connect(0, "bob"), Connect(1, "stale"),
            Subscribe(1, Orders, 0), Subscribe(0, Docs, 1), Subscribe(1, EmptyName, 0),
            Unsubscribe(0, Orders), Unsubscribe(1, Docs), Publish(1, Orders, "json"),
            Publish(1, Orders, ""), Publish(0, Docs, "update"), Publish(1, EmptyName, "json")}) @@
    (s2 :> {Connect(1, "alice"), Subscribe(1, Orders, 0), Unsubscribe(1, Orders)})

Rule(effect, channel, subject, action) ==
    [effect |-> effect, channel |-> channel, subject |-> subject, action |-> action]

Jwt == [allow_anonymous |-> FALSE, secret |-> "k1", audiences |-> {"web"}, issuer |-> "idp", now |-> 100]
AllowAll == [Jwt EXCEPT !.allow_anonymous = TRUE]

\* bob may not subscribe to orders, although a later rule allows everything.
DenyBob == [rules |-> <<Rule("deny", {Orders}, {"bob"}, "subscribe"),
                        Rule("allow", MCChannels, {None}, "any"),
                        Rule("deny", MCChannels, {None}, "any")>>, default_allow |-> FALSE]

\* Nobody but alice publishes; what no rule names is allowed.
AlicePublishes == [rules |-> <<Rule("allow", {Orders, Docs}, {"alice"}, "publish"),
                               Rule("deny", MCChannels, {None}, "publish")>>, default_allow |-> TRUE]

OrdersSchema == [orders |-> {"json"}]
DocsCrdt == [docs |-> "crdt-yjs"]

MCConfigs ==
    {[auth |-> AllowAll, acl |-> AllowAllAcl, schemas |-> <<>>, kinds |-> <<>>],
     [auth |-> Jwt, acl |-> DenyBob, schemas |-> OrdersSchema, kinds |-> <<>>],
     [auth |-> Jwt, acl |-> AlicePublishes, schemas |-> OrdersSchema, kinds |-> DocsCrdt]}

=============================================================================
