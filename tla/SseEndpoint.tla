----------------------------- MODULE SseEndpoint -----------------------------
(***************************************************************************)
(* The SSE transport's two handlers and the admin API, over the hub's      *)
(* session table.  Every HTTP request runs in a task of its own and opens  *)
(* at most one session, which has the request's name here; the hub's       *)
(* methods are cut where another thread can get in: between an await and   *)
(* what follows it, and between a change of the table and the counter that *)
(* reports it.  A client may go away at any await: hyper then drops the    *)
(* handler, or the response stream, with everything they hold.             *)
(***************************************************************************)
EXTENDS SseQuery, Functions

CONSTANTS
    Requests,       \* HTTP requests to the SSE transport
    AdminCalls,     \* HTTP requests to the admin API
    Inputs,         \* what each request may carry: [kind, query, header, meant],
                    \* where meant is None for a query no encoder writes
    AdminInputs,    \* what each call may carry: [op, target, token]
    Configs,        \* [anonymous, valid, denied, rejected, hub, metrics, auth_token]
    NoInput         \* a request that has not arrived

ASSUME EndpointConstants ==
    /\ IsFiniteSet(Requests) /\ IsFiniteSet(AdminCalls)
    /\ None \notin Bytes
    /\ \A r \in Requests : \A i \in Inputs[r] :
         /\ IsFiniteSet(DOMAIN i.query)
         /\ i.kind = "subscribe" => i.meant = None \/ Names(i.query, i.meant)
         /\ i.kind = "publish" => i.meant = <<i.meant[1]>>

VARIABLES
    config,         \* how hub and admin router were built
    input,          \* what each request carries
    channels,       \* the channels its handler has read
    pc,             \* where its handler or its stream is
    next,           \* subscribe_handler: index of the channel in hand
    status,         \* the HTTP status answered, or to be answered
    waiting,        \* the stream awaits shutdown.notified()
    woken,          \* notify_waiters reached it
    registered, claims, subs,
    effect,         \* how far each publication came: the kind stored it, the broker sent it
    opened, closed, kicked,     \* the counters cherenkov_sessions_*_total
    admin           \* the admin calls

hubVars == <<registered, claims, subs, effect>>
counters == <<opened, closed, kicked>>
vars == <<config, input, channels, pc, next, status, waiting, woken, hubVars, counters, admin>>

NoCall == [pc |-> "none", input |-> NoInput, rows |-> {}, reply |-> None, removed |-> FALSE]

Init ==
    /\ config \in Configs
    /\ input = [r \in Requests |-> NoInput]
    /\ channels = [r \in Requests |-> <<>>]
    /\ pc = [r \in Requests |-> "none"]
    /\ next = [r \in Requests |-> 1]
    /\ status = [r \in Requests |-> None]
    /\ waiting = [r \in Requests |-> FALSE] /\ woken = [r \in Requests |-> FALSE]
    /\ registered = {}
    /\ effect = [r \in Requests |-> "none"]
    /\ claims = [r \in Requests |-> None]
    /\ subs = [r \in Requests |-> {}]
    /\ opened = 0 /\ closed = 0 /\ kicked = 0
    /\ admin = [a \in AdminCalls |-> NoCall]

-----------------------------------------------------------------------------
\* Both handlers keep their Arc<Session> until they return.
Handling == {"opened", "connect", "authenticate", "work", "await", "handed", "failed", "count_failed"}

\* Strong references to the Session: the table's, the handler's, a kick's,
\* a listing's until it has read the row.
\* Without one it is dropped, Session::drop aborts the forwarders, and with
\* the last sender of the outbox gone the stream of rx ends.
Alive(r) ==
    \/ r \in registered
    \/ pc[r] \in Handling
    \/ \E a \in AdminCalls :
         \/ admin[a].pc \in {"signal", "deregister", "count"} /\ admin[a].input.target = r
         \/ \E row \in admin[a].rows : row.id = r /\ row.channels = NoInput

\* into_response, for the errors these handlers meet.
into_response(err) ==
    CASE err = "Auth" -> 401
      [] err \in {"Acl", "NotConnected"} -> 403
      [] err = "Schema" -> 422
      [] OTHER -> 500

Goto(r, label) == pc' = [pc EXCEPT ![r] = label]
Fail(r, code) == Goto(r, "failed") /\ status' = [status EXCEPT ![r] = code]

\* open_session registers, and seeds anonymous claims when that is allowed.
Open(r) ==
    /\ Goto(r, "opened")
    /\ registered' = registered \union {r}
    /\ claims' = [claims EXCEPT ![r] = IF config.anonymous THEN "anonymous" ELSE None]
    /\ UNCHANGED status

BadRequest(r) ==
    /\ Goto(r, "answered") /\ status' = [status EXCEPT ![r] = 400]
    /\ UNCHANGED <<registered, claims>>

\* subscribe_handler up to open_session: a query without a channel is refused.
SubscribeArrives(r, i) ==
    /\ pc[r] = "none" /\ i.kind = "subscribe"
    /\ input' = [input EXCEPT ![r] = i]
    /\ channels' = [channels EXCEPT ![r] = channels_from_raw_query(i.query)]
    /\ IF channels_from_raw_query(i.query) = <<>> THEN BadRequest(r) ELSE Open(r)
    /\ UNCHANGED <<config, next, waiting, woken, subs, effect, counters, admin>>

\* publish_handler up to open_session: axum's Query extractor has read the
\* one channel; a body that cannot be read is refused.
PublishArrives(r, i) ==
    /\ pc[r] = "none" /\ i.kind = "publish"
    /\ input' = [input EXCEPT ![r] = i]
    /\ channels' = [channels EXCEPT ![r] = i.meant]
    /\ BadRequest(r) \/ Open(r)
    /\ UNCHANGED <<config, next, waiting, woken, subs, effect, counters, admin>>

\* Mutant: the opened session is not counted.
CountOpenedNot(r) ==
    /\ pc[r] = "opened"
    /\ Goto(r, "connect")
    /\ UNCHANGED <<config, input, channels, next, status, waiting, woken, hubVars, counters, admin>>

\* open_session counts after it has registered.
CountOpened(r) ==
    /\ pc[r] = "opened"
    /\ opened' = opened + 1
    /\ Goto(r, "connect")
    /\ UNCHANGED <<config, input, channels, next, status, waiting, woken, hubVars, closed, kicked, admin>>

\* The header, requires_connect and handle_connect up to its await (a
\* session this young is never AlreadyConnected).
Connect(r) ==
    /\ pc[r] = "connect"
    /\ IF token_from_headers(input[r].header) # None
       THEN IF r \in registered THEN Goto(r, "authenticate") /\ UNCHANGED status
                                ELSE Fail(r, into_response("SessionGone"))
       ELSE IF config.anonymous THEN Goto(r, "work") /\ UNCHANGED status ELSE Fail(r, 401)
    /\ UNCHANGED <<config, input, channels, next, waiting, woken, hubVars, counters, admin>>

\* authenticate, and set_claims on the Session the handler holds.
Authenticate(r) ==
    LET token == token_from_headers(input[r].header)
    IN  /\ pc[r] = "authenticate"
        /\ IF config.anonymous \/ token \in config.valid
           THEN /\ claims' = [claims EXCEPT ![r] = IF config.anonymous THEN "anonymous" ELSE token]
                /\ Goto(r, "work") /\ UNCHANGED status
           ELSE Fail(r, into_response("Auth")) /\ UNCHANGED claims
        /\ UNCHANGED <<config, input, channels, next, waiting, woken, registered, subs, effect, counters, admin>>

\* Mutant: has_subscription is not asked.
LookupTwice(r) ==
    LET c == channels[r][next[r]]
        subscribing == input[r].kind = "subscribe"
    IN  /\ pc[r] = "work" /\ next[r] <= Len(channels[r])
        /\ IF r \notin registered THEN Fail(r, into_response("SessionGone"))
           ELSE IF claims[r] = None THEN Fail(r, into_response("NotConnected"))
           ELSE IF c \in config.denied THEN Fail(r, into_response("Acl"))
           ELSE IF ~subscribing /\ c \in config.rejected THEN Fail(r, into_response("Schema"))
           ELSE Goto(r, "await") /\ UNCHANGED status
        /\ UNCHANGED <<config, input, channels, next, waiting, woken, hubVars, counters, admin>>

\* handle_subscribe or handle_publish up to the kind and the broker: the
\* session is looked up, then claims, ACL, and has_subscription or schema.
Lookup(r) ==
    LET c == channels[r][next[r]]
        subscribing == input[r].kind = "subscribe"
    IN  /\ pc[r] = "work" /\ next[r] <= Len(channels[r])
        /\ IF r \notin registered THEN Fail(r, into_response("SessionGone"))
           ELSE IF claims[r] = None THEN Fail(r, into_response("NotConnected"))
           ELSE IF c \in config.denied THEN Fail(r, into_response("Acl"))
           ELSE IF subscribing /\ c \in subs[r] THEN Fail(r, into_response("AlreadySubscribed"))
           ELSE IF ~subscribing /\ c \in config.rejected THEN Fail(r, into_response("Schema"))
           ELSE Goto(r, "await") /\ UNCHANGED status
        /\ UNCHANGED <<config, input, channels, next, waiting, woken, hubVars, counters, admin>>

\* Kind and broker answer; the subscription goes into the Session held.
Subscribed(r) ==
    /\ pc[r] = "await" /\ input[r].kind = "subscribe"
    /\ \/ /\ subs' = [subs EXCEPT ![r] = @ \union {channels[r][next[r]]}]
          /\ next' = [next EXCEPT ![r] = @ + 1]
          /\ Goto(r, "work") /\ UNCHANGED status
       \/ Fail(r, into_response("Broker")) /\ UNCHANGED <<next, subs>>
    /\ UNCHANGED <<config, input, channels, waiting, woken, registered, claims, effect, counters, admin>>

Reaches(r, stages) == \E e \in stages : effect' = [effect EXCEPT ![r] = e]

\* on_publish puts the publication into the kind's history or document.  It
\* may refuse, a document after some of the update was applied.
KindTakes(r) ==
    /\ pc[r] = "await" /\ input[r].kind = "publish"
    /\ \/ Reaches(r, {"stored"}) /\ Goto(r, "handed") /\ UNCHANGED status
       \/ Reaches(r, {"none", "stored"}) /\ Fail(r, into_response("Channel"))
    /\ UNCHANGED <<config, input, channels, next, waiting, woken, registered, claims, subs, counters, admin>>

\* The broker answers, and nobody takes back what the kind has stored.  A
\* broker that reports an error (a lost connection) may have sent it all the
\* same.  publish_handler closes its session whatever the result.
Published(r) ==
    /\ pc[r] = "handed"
    /\ \/ Reaches(r, {"sent"}) /\ Fail(r, 200)
       \/ Reaches(r, {"stored", "sent"}) /\ Fail(r, into_response("Broker"))
    /\ UNCHANGED <<config, input, channels, next, waiting, woken, registered, claims, subs, counters, admin>>

\* Mutant: the handler answers without closing the session it opened.
CloseFailedNot(r) ==
    /\ pc[r] = "failed"
    /\ Goto(r, "answered")
    /\ UNCHANGED <<config, input, channels, next, status, waiting, woken, hubVars, counters, admin>>

\* close_session in the handler, then the response.
CloseFailed(r) ==
    /\ pc[r] = "failed"
    /\ Goto(r, IF r \in registered THEN "count_failed" ELSE "answered")
    /\ registered' = registered \ {r}
    /\ UNCHANGED <<config, input, channels, next, status, waiting, woken, claims, subs, effect, counters, admin>>

\* subscribe_handler returns the stream; its Arc<Session> is dropped.
StartStream(r) ==
    /\ pc[r] = "work" /\ input[r].kind = "subscribe" /\ next[r] > Len(channels[r])
    /\ status' = [status EXCEPT ![r] = 200]
    /\ Goto(r, "streaming")
    /\ UNCHANGED <<config, input, channels, next, waiting, woken, hubVars, counters, admin>>

\* The first poll of the stream creates the Notified future.
PollStream(r) ==
    /\ pc[r] = "streaming" /\ ~waiting[r]
    /\ waiting' = [waiting EXCEPT ![r] = TRUE]
    /\ UNCHANGED <<config, input, channels, pc, next, status, woken, hubVars, counters, admin>>

\* Mutant: only the notification ends the stream.
EndStreamOnNotify(r) ==
    /\ pc[r] = "streaming" /\ waiting[r]
    /\ woken[r]
    /\ Goto(r, "ended")
    /\ UNCHANGED <<config, input, channels, next, status, waiting, woken, hubVars, counters, admin>>

\* take_until fires, or rx has ended: the chained part of the stream runs.
EndStream(r) ==
    /\ pc[r] = "streaming" /\ waiting[r]
    /\ woken[r] \/ ~Alive(r)
    /\ Goto(r, "ended")
    /\ UNCHANGED <<config, input, channels, next, status, waiting, woken, hubVars, counters, admin>>

\* close_session, then the close event.
CloseStream(r) ==
    /\ pc[r] = "ended"
    /\ Goto(r, IF r \in registered THEN "count_ended" ELSE "answered")
    /\ registered' = registered \ {r}
    /\ UNCHANGED <<config, input, channels, next, status, waiting, woken, claims, subs, effect, counters, admin>>

CountClosed(r) ==
    /\ pc[r] \in {"count_failed", "count_ended"}
    /\ closed' = closed + 1
    /\ Goto(r, "answered")
    /\ UNCHANGED <<config, input, channels, next, status, waiting, woken, hubVars, opened, kicked, admin>>

\* The client goes away while the handler awaits or the stream is open; a
\* publication already handed to the broker may go out or not.
ClientGone(r) ==
    /\ pc[r] \in {"authenticate", "await", "handed", "streaming"}
    /\ Goto(r, "dropped")
    /\ Reaches(r, {effect[r]} \union (IF pc[r] = "handed" THEN {"sent"} ELSE {}))
    /\ UNCHANGED <<config, input, channels, next, status, waiting, woken, registered, claims, subs, counters, admin>>

-----------------------------------------------------------------------------
AtCall(a, label) == admin[a].pc = label
Reply(a, code) == admin' = [admin EXCEPT ![a].pc = "answered", ![a].reply = code]

require_token(i) == config.auth_token \in {None, i.token}

metrics_endpoint == IF config.metrics THEN 200 ELSE 503

\* snapshot of the table for the listing, get for the one asked for.
Found(i) == IF i.op = "list" THEN registered ELSE registered \intersect {i.target}

\* The token, then the route: metrics, a missing hub and a missing session
\* are answered at once.
AdminArrive(a, i) ==
    LET Begin(label, code, rows) ==
            admin' = [admin EXCEPT ![a] = [NoCall EXCEPT !.pc = label, !.input = i, !.reply = code, !.rows = rows]]
    IN  /\ AtCall(a, "none")
        /\ IF ~require_token(i) THEN Begin("answered", 401, {})
           ELSE CASE i.op = "metrics" -> Begin("answered", metrics_endpoint, {})
                  [] i.op = "disconnect" /\ config.hub -> Begin("get", None, {})
                  [] i.op = "disconnect" /\ ~config.hub -> Begin("answered", 404, {})
                  [] i.op = "get" /\ Found(i) = {} -> Begin("answered", 404, {})
                  [] OTHER -> Begin("rows", None, {[id |-> r, subject |-> NoInput, channels |-> NoInput] : r \in Found(i)})
        /\ UNCHANGED <<config, input, channels, pc, next, status, waiting, woken, hubVars, counters>>

\* list_sessions and get_session read each Session's claims, then its
\* subscriptions, through the Arc of the snapshot.
ReadClaims(a) ==
    /\ AtCall(a, "rows")
    /\ \E row \in {w \in admin[a].rows : w.subject = NoInput} :
         admin' = [admin EXCEPT ![a].rows = (@ \ {row}) \union {[row EXCEPT !.subject = claims[row.id]]}]
    /\ UNCHANGED <<config, input, channels, pc, next, status, waiting, woken, hubVars, counters>>

ReadChannels(a) ==
    /\ AtCall(a, "rows")
    /\ \E row \in {w \in admin[a].rows : w.subject # NoInput /\ w.channels = NoInput} :
         admin' = [admin EXCEPT ![a].rows = (@ \ {row}) \union {[row EXCEPT !.channels = subs[row.id]]}]
    /\ UNCHANGED <<config, input, channels, pc, next, status, waiting, woken, hubVars, counters>>

SendRows(a) ==
    /\ AtCall(a, "rows")
    /\ \A row \in admin[a].rows : row.channels # NoInput
    /\ Reply(a, 200)
    /\ UNCHANGED <<config, input, channels, pc, next, status, waiting, woken, hubVars, counters>>

\* kick_session: get, signal_shutdown, deregister, count.
KickGet(a) ==
    /\ AtCall(a, "get")
    /\ IF admin[a].input.target \in registered
       THEN admin' = [admin EXCEPT ![a].pc = "signal"] ELSE Reply(a, 200)
    /\ UNCHANGED <<config, input, channels, pc, next, status, waiting, woken, hubVars, counters>>

KickSignal(a) ==
    LET r == admin[a].input.target
    IN  /\ AtCall(a, "signal")
        /\ woken' = [woken EXCEPT ![r] = @ \/ waiting[r]]
        /\ admin' = [admin EXCEPT ![a].pc = "deregister"]
        /\ UNCHANGED <<config, input, channels, pc, next, status, waiting, hubVars, counters>>

\* Mutant: every kick that found the session reports that it removed it.
KickDeregisterBlind(a) ==
    /\ AtCall(a, "deregister")
    /\ admin' = [admin EXCEPT ![a].pc = "count"]
    /\ registered' = registered \ {admin[a].input.target}
    /\ UNCHANGED <<config, input, channels, pc, next, status, waiting, woken, claims, subs, effect, counters>>

KickDeregister(a) ==
    /\ AtCall(a, "deregister")
    /\ IF admin[a].input.target \in registered
       THEN admin' = [admin EXCEPT ![a].pc = "count"] ELSE Reply(a, 200)
    /\ registered' = registered \ {admin[a].input.target}
    /\ UNCHANGED <<config, input, channels, pc, next, status, waiting, woken, claims, subs, effect, counters>>

KickCount(a) ==
    /\ AtCall(a, "count")
    /\ kicked' = kicked + 1
    /\ admin' = [admin EXCEPT ![a].pc = "answered", ![a].reply = 200, ![a].removed = TRUE]
    /\ UNCHANGED <<config, input, channels, pc, next, status, waiting, woken, hubVars, opened, closed>>

-----------------------------------------------------------------------------
Handler(r) ==
    \/ CountOpened(r) \/ Connect(r) \/ Authenticate(r) \/ Lookup(r)
    \/ Subscribed(r) \/ KindTakes(r) \/ Published(r) \/ CloseFailed(r)
    \/ StartStream(r) \/ PollStream(r) \/ EndStream(r) \/ CloseStream(r) \/ CountClosed(r)

AdminHandler(a) ==
    \/ ReadClaims(a) \/ ReadChannels(a) \/ SendRows(a)
    \/ KickGet(a) \/ KickSignal(a) \/ KickDeregister(a) \/ KickCount(a)

\* The bound on requests: every one has been served.
AllServed ==
    /\ \A r \in Requests : pc[r] \in {"answered", "dropped", "streaming"}
    /\ \A a \in AdminCalls : admin[a].pc = "answered"
    /\ UNCHANGED vars

Next ==
    \/ \E r \in Requests : Handler(r) \/ ClientGone(r) \/ \E i \in Inputs[r] : SubscribeArrives(r, i) \/ PublishArrives(r, i)
    \/ \E a \in AdminCalls : AdminHandler(a) \/ \E i \in AdminInputs[a] : AdminArrive(a, i)
    \/ AllServed

Fairness ==
    /\ \A r \in Requests : WF_vars(Handler(r))
    /\ \A a \in AdminCalls : WF_vars(AdminHandler(a))

\* tokio polls every task that is ready, and hyper the body of a response
\* whose client reads; nothing makes requests arrive or clients leave.
Spec == Init /\ [][Next]_vars /\ Fairness

-----------------------------------------------------------------------------
TypeOK ==
    /\ config \in Configs
    /\ \A r \in Requests : input[r] \in Inputs[r] \union {NoInput}
    /\ pc \in [Requests -> Handling \union {"none", "streaming", "ended", "count_ended", "answered", "dropped"}]
    /\ \A r \in Requests : next[r] \in 1..(Len(channels[r]) + 1)
    /\ status \in [Requests -> {None, 200, 400, 401, 403, 422, 500}]
    /\ registered \subseteq {r \in Requests : pc[r] # "none"}
    /\ effect \in [Requests -> {"none", "stored", "sent"}]
    /\ \A r \in Requests : woken[r] => waiting[r]
    /\ {opened, closed, kicked} \subseteq 0..Cardinality(Requests)

(* What channels_from_raw_query makes of a query is the list of channels   *)
(* the client wrote into it, in order, whichever way it was escaped and    *)
(* whatever other pairs stand between.                                     *)
QueryUnderstood ==
    \A r \in Requests : input[r] # NoInput /\ input[r].meant # None => channels[r] = input[r].meant

(* The three session counters account for the table at every moment: what  *)
(* was opened is registered, closed or kicked, up to the calls that have   *)
(* changed the table and not yet counted.  No session is counted as both.  *)
CountersBalance ==
    opened + Cardinality({r \in Requests : pc[r] = "opened"})
      = Cardinality(registered) + closed + kicked
        + Cardinality({r \in Requests : pc[r] \in {"count_failed", "count_ended"}})
        + Cardinality({a \in AdminCalls : AtCall(a, "count")})

(* A request that was answered, with an error, a publication or the end of *)
(* its stream, leaves no session behind, whatever kicks raced with it.     *)
AnsweredLeavesNothing ==
    \A r \in Requests : pc[r] = "answered" => r \notin registered

(* 200 for a subscribe means that every channel asked for is subscribed,   *)
(* once, and was allowed to claims that exist; 200 for a publish that the  *)
(* publication was stored and went out.  Any 4xx means that nothing of it  *)
(* was stored or sent; 500 leaves that open, since handle_publish does not *)
(* take back what the kind stored when the broker then fails, and a broker *)
(* may fail after it has sent.                                             *)
StatusTellsTheEffect ==
    \A r \in Requests :
      LET asked == Range(channels[r])
      IN  /\ effect[r] # "none" =>
               /\ status[r] \in {None, 200, 500} /\ claims[r] # None
               /\ asked \intersect (config.denied \union config.rejected) = {}
          /\ status[r] = 200 =>
               /\ claims[r] # None
               /\ IF input[r].kind = "publish" THEN effect[r] = "sent"
                  ELSE /\ subs[r] = asked /\ asked \intersect config.denied = {}
                       /\ Len(channels[r]) = Cardinality(asked)

(* Of all the calls that disconnect a session and its own handler, one     *)
(* removes it; and a row of a listing shows a session as it was: its real  *)
(* subject or none yet, and channels it is subscribed to.                  *)
AdminTellsTheTruth ==
    /\ \A r \in Requests :
         Cardinality({a \in AdminCalls : /\ admin[a].input # NoInput /\ admin[a].input.target = r
                                         /\ admin[a].removed \/ AtCall(a, "count")})
           + (IF pc[r] \in {"count_failed", "count_ended"} \/ r \in registered THEN 1 ELSE 0) <= 1
    /\ \A a \in AdminCalls : \A row \in admin[a].rows :
         /\ row.subject \in {NoInput, None, claims[row.id]}
         /\ row.channels # NoInput => row.channels \subseteq subs[row.id]

(* A kick ends the stream, even when notify_waiters fires before the       *)
(* stream was first polled and nobody hears it: the table then held the    *)
(* last reference to the session.  For a client that reads: hyper polls    *)
(* the body only while it can write, and no timeout ends a stream whose    *)
(* client stopped reading.                                                 *)
KickEndsStream ==
    \A r \in Requests :
      pc[r] = "streaming" /\ r \notin registered ~> pc[r] \in {"answered", "dropped"}

(* docs/architecture.md: an active session lives "until disconnect or      *)
(* kick_session".                                                          *)
DisconnectReleasesSession ==
    \A r \in Requests : pc[r] = "dropped" ~> r \notin registered
=============================================================================
