---------------------------- MODULE HubRequests ----------------------------
(***************************************************************************)
(* A request on its way through the hub (cherenkov-core hub.rs): the bytes *)
(* the transport reads, the handler with its claims, ACL, schema, channel  *)
(* kind and broker, and the bytes of the answer.  One action per stretch   *)
(* of a handler between two awaits.  A transport awaits one handler before *)
(* it reads the next frame of the same session; other sessions, kicks and  *)
(* cancellation (axum drops the future of an SSE request whose client is   *)
(* gone) interleave freely.  How the registry stores a subscription is     *)
(* SessionRegistry's subject; here subs is what the Session object holds.  *)
(***************************************************************************)
EXTENDS NamespaceAcl, WireProtocol, FiniteSetsExt

CONSTANTS
    Sessions,       \* session ids
    Channels,       \* channel names
    Payloads,       \* publish payloads
    Updates,        \* the payloads that decode as CRDT updates
    Tokens,         \* token name -> what the JWT holds
    Requests,       \* the frames each session's client may send: a kind and a
                    \* body with the fields of its layout
    Configs,        \* hub configurations: [auth, acl, schemas, kinds]
    MaxHistory      \* bound: publications accepted per channel

ASSUME RequestConstants ==
    /\ IsFiniteSet(Sessions)
    /\ MaxHistory \in Nat
    /\ Updates \subseteq Payloads
    /\ \A s \in Sessions : \A f \in Requests[s] :
         /\ f = [kind |-> f.kind, body |-> f.body]
         /\ f.kind \in DOMAIN ClientLayout
         /\ f.body = [n \in FieldsOf(ClientLayout[f.kind]) |-> f.body[n]]
         /\ f.kind = "Connect" => f.body.token \in DOMAIN Tokens
         /\ f.kind # "Connect" => f.body.channel \in Channels
         /\ f.kind = "Publish" => f.body.data \in Payloads
    /\ \A t \in DOMAIN Tokens : Tokens[t].sub # None /\ Tokens[t].exp \in Nat
    /\ None # "anonymous"
    /\ \A c \in Configs : Len(c.acl.rules) \in Nat /\ DOMAIN c.acl.rules = 1..Len(c.acl.rules)

VARIABLES
    config,         \* the configuration the hub was built with
    link,           \* the transport's side of each session
    registered,     \* keys of SessionRegistry::sessions
    claims,         \* Session::claims
    subs,           \* Session::subscriptions
    balance,        \* on_subscribe calls minus on_unsubscribe calls
    history,        \* what the channel kind accepted, in offset order
    sent,           \* offsets whose Broker::publish returned Ok
    call,           \* the handler running for each session
    told            \* history variable: the channels that a client which goes
                    \* through the answers queued for it counts as subscribed
                    \* (none once its session or its connection is over)

vars == <<config, link, registered, claims, subs, balance, history, sent, call, told>>

NoFrame == DecodeError("none")
Idle == [pc |-> "idle", sent |-> NoFrame, frame |-> NoFrame, claims |-> NoClaims,
         offset |-> None, error |-> None, out |-> Malformed]

-----------------------------------------------------------------------------
\* ws error_code_for, wt deliver_error.
error_code_for(err) ==
    CASE err = "Schema" -> ErrorCode.ValidationFailed
      [] err = "Auth" -> ErrorCode.InvalidToken
      [] err = "Acl" -> ErrorCode.AclDenied
      [] err = "NotConnected" -> ErrorCode.NotConnected
      [] OTHER -> ErrorCode.Internal

Goto(s, label) == call' = [call EXCEPT ![s].pc = label] /\ UNCHANGED told

\* What a client that held known for its subscriptions makes of an answer.
Learn(known, answer) ==
    CASE answer.kind = "SubscribeOk" -> known \union {answer.body.channel}
      [] answer.kind = "UnsubscribeOk" -> known \ {answer.body.channel}
      [] OTHER -> known

\* deliver queues the frame in the session's outbox and returns, so that the
\* transport's loop reads on; the client reads the answer later, or never.
\* Nothing is sent to a session that is no longer registered.
AnswerTo(s, request, kind, body) ==
    LET out == encode_server([kind |-> kind, body |-> body])
    IN  /\ call' = [call EXCEPT ![s] =
                      IF s \in registered THEN [request EXCEPT !.pc = "replied", !.out = out] ELSE Idle]
        /\ told' = [told EXCEPT ![s] =
                      IF s \in registered THEN Learn(@, decode_server(out)) ELSE @]

Answer(s, kind, body) == AnswerTo(s, call[s], kind, body)

\* Mutant: an error answer carries the request id of unsolicited errors.
FailUnsolicited(s, err) ==
    Answer(s, "Error", [request_id |-> 0, code |-> error_code_for(err), message |-> err])

Fail(s, err) ==
    Answer(s, "Error", [request_id |-> call[s].frame.body.request_id,
                        code |-> error_code_for(err), message |-> err])

At(s, label, kind) == call[s].pc = label /\ call[s].frame.kind = kind

Channel(s) == call[s].frame.body.channel

-----------------------------------------------------------------------------
Init ==
    /\ config \in Configs
    /\ link = [s \in Sessions |-> "none"]
    /\ registered = {}
    /\ claims = [s \in Sessions |-> NoClaims]
    /\ subs = [s \in Sessions |-> {}]
    /\ balance = [c \in Channels |-> 0]
    /\ history = [c \in Channels |-> <<>>]
    /\ sent = [c \in Channels |-> {}]
    /\ call = [s \in Sessions |-> Idle]
    /\ told = [s \in Sessions |-> {}]

\* open_session seeds anonymous claims when the authenticator allows it.
OpenSession(s) ==
    /\ link[s] = "none"
    /\ link' = [link EXCEPT ![s] = "open"]
    /\ registered' = registered \union {s}
    /\ claims' = [claims EXCEPT ![s] = IF config.auth.allow_anonymous THEN anonymous ELSE NoClaims]
    /\ UNCHANGED <<config, subs, balance, history, sent, call, told>>

\* The transport's loop is back at its select!: no handler is running.
AtSelect(s) == link[s] = "open" /\ call[s].pc \in {"idle", "replied"}

\* dispatch: decode_client, then handle_frame.  The client may have sent the
\* frame before it has read the answer to the one before.
Receive(s, f) ==
    /\ AtSelect(s)
    /\ call' = [call EXCEPT ![s] = [Idle EXCEPT !.pc = "begin", !.sent = f,
                                               !.frame = decode_client(encode_client(f))]]
    /\ UNCHANGED <<config, link, registered, claims, subs, balance, history, sent, told>>

\* dispatch: a frame that does not decode is answered and ends the connection.
ReceiveUndecodable(s, bytes) ==
    /\ AtSelect(s)
    /\ decode_client(bytes).kind = "DecodeError"
    /\ link' = [link EXCEPT ![s] = "closing"]
    /\ AnswerTo(s, Idle, "Error",
                [request_id |-> 0, code |-> ErrorCode.InvalidFrame, message |-> "invalid frame"])
    /\ UNCHANGED <<config, registered, claims, subs, balance, history, sent>>

\* Mutant: handle_connect replaces the claims of a connected session.
HandleConnectAgain(s) ==
    /\ At(s, "begin", "Connect")
    /\ IF s \notin registered THEN Fail(s, "SessionGone") ELSE Goto(s, "authenticate")
    /\ UNCHANGED <<config, link, registered, claims, subs, balance, history, sent>>

\* handle_connect up to the await of authenticate.
HandleConnect(s) ==
    /\ At(s, "begin", "Connect")
    /\ IF s \notin registered THEN Fail(s, "SessionGone")
       ELSE IF claims[s] # NoClaims /\ ~config.auth.allow_anonymous THEN Fail(s, "AlreadyConnected")
       ELSE Goto(s, "authenticate")
    /\ UNCHANGED <<config, link, registered, claims, subs, balance, history, sent>>

Authenticate(s) ==
    LET got == authenticate(config.auth, Tokens[call[s].frame.body.token])
    IN  /\ At(s, "authenticate", "Connect")
        /\ IF got = NoClaims
           THEN Fail(s, "Auth") /\ UNCHANGED claims
           ELSE /\ claims' = [claims EXCEPT ![s] = got]
                /\ Answer(s, "ConnectOk", [request_id |-> call[s].frame.body.request_id,
                                           subject |-> got.subject, expires_at |-> got.expires_at])
        /\ UNCHANGED <<config, link, registered, subs, balance, history, sent>>

\* handle_subscribe and handle_publish up to the await of the ACL checker:
\* sessions.get, then require_claims, which may seed anonymous claims.
RequireClaims(s) ==
    LET held == IF claims[s] = NoClaims /\ config.auth.allow_anonymous THEN anonymous ELSE claims[s]
    IN  /\ At(s, "begin", "Subscribe") \/ At(s, "begin", "Publish")
        /\ IF s \notin registered THEN Fail(s, "SessionGone") /\ UNCHANGED claims
           ELSE IF held = NoClaims THEN Fail(s, "NotConnected") /\ UNCHANGED claims
           ELSE /\ claims' = [claims EXCEPT ![s] = held]
                /\ call' = [call EXCEPT ![s].pc = "acl", ![s].claims = held]
                /\ UNCHANGED told
        /\ UNCHANGED <<config, link, registered, subs, balance, history, sent>>

Allowed(s, action) == check(config.acl, call[s].claims.subject, action, Channel(s))

\* enforce_acl, then has_subscription.
AclSubscribe(s) ==
    /\ At(s, "acl", "Subscribe")
    /\ IF ~Allowed(s, "subscribe") THEN Fail(s, "Acl")
       ELSE IF Channel(s) \in subs[s] THEN Fail(s, "AlreadySubscribed")
       ELSE Goto(s, "on_subscribe")
    /\ UNCHANGED <<config, link, registered, claims, subs, balance, history, sent>>

\* ChannelKind::on_subscribe: every kind refuses the empty name; the cursor
\* it returns is kept for the SubscribeOk.
OnSubscribe(s) ==
    LET c == Channel(s)
    IN  /\ At(s, "on_subscribe", "Subscribe")
        /\ IF c = EmptyName
           THEN Fail(s, "Channel") /\ UNCHANGED balance
           ELSE /\ balance' = [balance EXCEPT ![c] = @ + 1]
                /\ call' = [call EXCEPT ![s].pc = "broker_subscribe",
                                        ![s].offset = Max({Len(history[c]) - 1, 0})]
                /\ UNCHANGED told
        /\ UNCHANGED <<config, link, registered, claims, subs, history, sent>>

\* An early return of handle_subscribe, before which the kind is unwound.
GiveUp(s, err) == call' = [call EXCEPT ![s].pc = "unwind", ![s].error = err] /\ UNCHANGED told

\* Broker::subscribe, which a remote broker may refuse, and the replay a
\* resuming client asks for, during which the outbox may be found closed.
BrokerSubscribe(s) ==
    /\ At(s, "broker_subscribe", "Subscribe")
    /\ \/ Goto(s, "insert")
       \/ GiveUp(s, "Broker")
       \/ call[s].frame.body.since_offset > 0 /\ GiveUp(s, "SessionGone")
    /\ UNCHANGED <<config, link, registered, claims, subs, balance, history, sent>>

\* Mutant: an early return forgets to unwind the kind.
UnwindForgotten(s) ==
    /\ At(s, "unwind", "Subscribe")
    /\ Fail(s, call[s].error)
    /\ UNCHANGED <<config, link, registered, claims, subs, balance, history, sent>>

Unwind(s) ==
    /\ At(s, "unwind", "Subscribe")
    /\ balance' = [balance EXCEPT ![Channel(s)] = @ - 1]
    /\ Fail(s, call[s].error)
    /\ UNCHANGED <<config, link, registered, claims, subs, history, sent>>

\* insert_subscription, add_subscription and the SubscribeOk.
Insert(s) ==
    LET c == Channel(s)
    IN  /\ At(s, "insert", "Subscribe")
        /\ IF c \in subs[s]
           THEN GiveUp(s, "AlreadySubscribed") /\ UNCHANGED subs
           ELSE /\ subs' = [subs EXCEPT ![s] = @ \union {c}]
                /\ Answer(s, "SubscribeOk", [request_id |-> call[s].frame.body.request_id, channel |-> c,
                                             epoch |-> 1, offset |-> call[s].offset])
        /\ UNCHANGED <<config, link, registered, claims, balance, history, sent>>

\* handle_unsubscribe up to the await of on_unsubscribe.
HandleUnsubscribe(s) ==
    LET c == Channel(s)
    IN  /\ At(s, "begin", "Unsubscribe")
        /\ IF s \notin registered THEN Fail(s, "SessionGone") /\ UNCHANGED subs
           ELSE IF c \notin subs[s] THEN Fail(s, "NotSubscribed") /\ UNCHANGED subs
           ELSE subs' = [subs EXCEPT ![s] = @ \ {c}] /\ Goto(s, "on_unsubscribe")
        /\ UNCHANGED <<config, link, registered, claims, balance, history, sent>>

OnUnsubscribe(s) ==
    /\ At(s, "on_unsubscribe", "Unsubscribe")
    /\ balance' = [balance EXCEPT ![Channel(s)] = @ - 1]
    /\ Answer(s, "UnsubscribeOk", [request_id |-> call[s].frame.body.request_id, channel |-> Channel(s)])
    /\ UNCHANGED <<config, link, registered, claims, subs, history, sent>>

\* enforce_acl, then the schema validator.
AclPublish(s) ==
    /\ At(s, "acl", "Publish")
    /\ IF Allowed(s, "publish") THEN Goto(s, "validate") ELSE Fail(s, "Acl")
    /\ UNCHANGED <<config, link, registered, claims, subs, balance, history, sent>>

\* Mutant: the validator's verdict is not looked at.
ValidateIgnored(s) ==
    /\ At(s, "validate", "Publish")
    /\ Goto(s, "on_publish")
    /\ UNCHANGED <<config, link, registered, claims, subs, balance, history, sent>>

Validate(s) ==
    /\ At(s, "validate", "Publish")
    /\ IF validate(config.schemas, Channel(s), call[s].frame.body.data)
       THEN Goto(s, "on_publish") ELSE Fail(s, "Schema")
    /\ UNCHANGED <<config, link, registered, claims, subs, balance, history, sent>>

\* ChannelKind::on_publish: every kind refuses the empty name, a CRDT kind
\* also a payload that is not an update.
Accepts(c, data) ==
    c # EmptyName /\ (kind_for(config.kinds, c) # "pubsub" => data \in Updates)

OnPublish(s) ==
    LET c == Channel(s)
        data == call[s].frame.body.data
    IN  /\ At(s, "on_publish", "Publish")
        /\ IF Accepts(c, data)
           THEN /\ Len(history[c]) < MaxHistory
                /\ history' = [history EXCEPT ![c] = Append(@, [subject |-> call[s].claims.subject, data |-> data])]
                /\ call' = [call EXCEPT ![s].pc = "broker_publish", ![s].offset = Len(history[c])]
                /\ UNCHANGED told
           ELSE Fail(s, "Channel") /\ UNCHANGED history
        /\ UNCHANGED <<config, link, registered, claims, subs, balance, sent>>

\* Broker::publish; a publish that succeeds is not answered.
BrokerPublish(s) ==
    LET c == Channel(s)
    IN  /\ At(s, "broker_publish", "Publish")
        /\ \/ /\ sent' = [sent EXCEPT ![c] = @ \union {call[s].offset}]
              /\ call' = [call EXCEPT ![s] = Idle]
              /\ UNCHANGED told
           \/ Fail(s, "Broker") /\ UNCHANGED sent
        /\ UNCHANGED <<config, link, registered, claims, subs, balance, history>>

\* kick_session, at any moment of a handler.
Kick(s) ==
    /\ s \in registered
    /\ registered' = registered \ {s}
    /\ told' = [told EXCEPT ![s] = {}]
    /\ UNCHANGED <<config, link, claims, subs, balance, history, sent, call>>

\* The connection task ends with close_session.
Close(s) ==
    /\ link[s] \in {"open", "closing"} /\ call[s].pc \in {"idle", "replied"}
    /\ link' = [link EXCEPT ![s] = "gone"]
    /\ registered' = registered \ {s}
    /\ call' = [call EXCEPT ![s] = Idle]
    /\ told' = [told EXCEPT ![s] = {}]
    /\ UNCHANGED <<config, claims, subs, balance, history, sent>>

\* The handler's future is dropped at an await: nothing after it runs.
Cancel(s) ==
    /\ link[s] = "open" /\ call[s].pc \notin {"idle", "replied"}
    /\ link' = [link EXCEPT ![s] = "gone"]
    /\ call' = [call EXCEPT ![s] = Idle]
    /\ told' = [told EXCEPT ![s] = {}]
    /\ UNCHANGED <<config, registered, claims, subs, balance, history, sent>>

-----------------------------------------------------------------------------
Handle(s) ==
    \/ HandleConnect(s) \/ Authenticate(s)
    \/ RequireClaims(s)
    \/ AclSubscribe(s) \/ OnSubscribe(s) \/ BrokerSubscribe(s) \/ Unwind(s) \/ Insert(s)
    \/ HandleUnsubscribe(s) \/ OnUnsubscribe(s)
    \/ AclPublish(s) \/ Validate(s) \/ OnPublish(s) \/ BrokerPublish(s)

SessionStep(s) ==
      \/ OpenSession(s) \/ Kick(s) \/ Close(s) \/ Cancel(s)
      \/ \E f \in Requests[s] : Receive(s, f)
      \/ \E b \in {Malformed, UnknownVariant} : ReceiveUndecodable(s, b)
      \/ Handle(s)

\* The bound on sessions: every connection is over.
AllGone ==
    /\ \A s \in Sessions : link[s] = "gone"
    /\ UNCHANGED vars

Next == (\E s \in Sessions : SessionStep(s)) \/ AllGone

Spec == Init /\ [][Next]_vars

-----------------------------------------------------------------------------
Subjects == {Tokens[t].sub : t \in DOMAIN Tokens} \union {"anonymous"}
Claims == [subject : Subjects, expires_at : Nat] \union {NoClaims}
Pcs == {"idle", "begin", "authenticate", "acl", "on_subscribe", "broker_subscribe", "insert", "unwind",
        "on_unsubscribe", "validate", "on_publish", "broker_publish", "replied"}

TypeOK ==
    /\ config \in Configs
    /\ link \in [Sessions -> {"none", "open", "closing", "gone"}]
    /\ registered \subseteq Sessions
    /\ claims \in [Sessions -> Claims]
    /\ subs \in [Sessions -> SUBSET Channels]
    /\ balance \in [Channels -> Int]
    /\ \A c \in Channels : /\ Len(history[c]) <= MaxHistory
                           /\ sent[c] \subseteq 0..(Len(history[c]) - 1)
    /\ \A s \in Sessions : call[s].pc \in Pcs /\ call[s].claims \in Claims
    /\ told \in [Sessions -> SUBSET Channels]

(* The handler sees the frame the client sent, field by field: a default   *)
(* value that prost leaves out comes back as that default.                 *)
FramesSurviveTheWire ==
    \A s \in Sessions : call[s].sent.kind # "DecodeError" => call[s].frame = call[s].sent

\* The answer to the frame handled last, between its deliver and the next frame.
AnswerFits(s) ==
    LET q == call[s].sent
        a == decode_server(call[s].out)
    IN  /\ a.kind \in {"ConnectOk", "SubscribeOk", "UnsubscribeOk", "Error"}
        /\ q.kind = "DecodeError" => a.body.request_id = 0 /\ a.body.code = ErrorCode.InvalidFrame
        /\ q.kind # "DecodeError" => a.body.request_id = q.body.request_id
        /\ a.kind = "ConnectOk" =>
             q.kind = "Connect" /\ claims[s] = [subject |-> a.body.subject, expires_at |-> a.body.expires_at]
        /\ a.kind = "SubscribeOk" => q.kind = "Subscribe" /\ a.body.channel = q.body.channel
        /\ a.kind = "UnsubscribeOk" => q.kind = "Unsubscribe" /\ a.body.channel = q.body.channel
        /\ a.kind = "Error" /\ q.kind = "Publish" /\ a.body.code # ErrorCode.Internal =>
             call[s].offset = None

(* The bytes queued for a frame decode to an answer to that frame: a       *)
(* ConnectOk names the claims the session has, and a Publish refused by    *)
(* claims, ACL or schema left nothing in the channel's history.  And the   *)
(* answers tell the subscriptions: a client that goes through them in the  *)
(* order of the queue, however far it has pipelined its requests, knows    *)
(* from the last one queued exactly the channels its session is subscribed *)
(* to (an Unsubscribe still on its way to its answer apart).  No error     *)
(* answer hides a subscription that was made or one that was ended.        *)
AnswersAreTruthful ==
    /\ \A s \in Sessions : call[s].pc = "replied" => AnswerFits(s)
    /\ \A s \in registered :
         link[s] \in {"open", "closing"} =>
           told[s] = subs[s] \union (IF call[s].pc = "on_unsubscribe" THEN {Channel(s)} ELSE {})

(* Whatever a session is subscribed to, the ACL allows for the claims it   *)
(* holds now: claims are checked once, at the subscribe, and neither a     *)
(* later Connect nor any interleaving changes them under a subscription.   *)
SubscriptionsAuthorized ==
    \A s \in Sessions : \A c \in subs[s] :
      claims[s] # NoClaims /\ check(config.acl, claims[s].subject, "subscribe", c)

(* Every publication in a channel's history passed the ACL for publishing, *)
(* the namespace's schema and the channel kind, on every path.             *)
NothingBypassesTheGates ==
    \A c \in Channels : \A i \in DOMAIN history[c] :
      LET h == history[c][i]
      IN  /\ h.subject # None
          /\ check(config.acl, h.subject, "publish", c)
          /\ validate(config.schemas, c, h.data)
          /\ Accepts(c, h.data)

Joining(s, c) ==
    /\ call[s].pc \in {"broker_subscribe", "insert", "unwind", "on_unsubscribe"}
    /\ Channel(s) = c

\* The subscriptions that exist, are being set up, or whose on_unsubscribe is
\* still to come.
Counted(c) ==
    Cardinality({s \in Sessions : c \in subs[s]}) + Cardinality({s \in Sessions : Joining(s, c)})

Gone == {s \in Sessions : link[s] = "gone"}

(* hub.rs: "every early return must call kind.on_unsubscribe(channel) to   *)
(* keep per-channel state in the kind balanced".  A kind that counts its   *)
(* hooks counts exactly the subscriptions there are, a closed or kicked    *)
(* session's among them, but for at most one more per connection that is   *)
(* gone: its handler may have been dropped between two hooks.              *)
KindCountsSubscribers ==
    \A c \in Channels :
      Counted(c) <= balance[c] /\ balance[c] <= Counted(c) + Cardinality(Gone)

(* NamespaceAcl::check agrees with the reference on every request.         *)
AclFirstMatch ==
    \A who \in Subjects, a \in Actions, c \in Channels : FirstMatchDecides(config.acl, who, a, c)
=============================================================================
