-------------------------- MODULE HubRequestsProofs --------------------------
(***************************************************************************)
(* For any number of sessions, channels, tokens and requests, any ACL, any *)
(* set of schemas and any interleaving of handlers, kicks and cancelled    *)
(* futures: a frame survives the wire, a subscription is covered by the    *)
(* claims the session holds now, nothing enters a channel's history past   *)
(* the ACL, the schema or the channel kind, an answer fits its request and *)
(* the answers together tell the subscriptions, a channel kind has been    *)
(* told of the subscribers there are (and at most of one more per          *)
(* connection that is gone), the hub's state is well typed, and check is   *)
(* decided by the first rule that matches, in lists of any length.         *)
(*                                                                         *)
(* The properties are about what handlers read before an await and use     *)
(* after it, so the invariant says what is still true at each program      *)
(* point: the claims a handler copied are the session's claims until it    *)
(* ends, because only handle_connect replaces claims and it does so for a  *)
(* session that has none (or whose claims are the anonymous ones).         *)
(***************************************************************************)
EXTENDS HubRequests, FiniteSetTheorems, WellFoundedInduction, TLAPS

(* A leaf is set theory, and Zenon's, unless it cites another prover.         *)
USE Zenon

Entry == [subject : Subjects, data : Payloads]

CallFields == {"pc", "sent", "frame", "claims", "offset", "error", "out"}

\* A handler's record, and where its frame comes from.
CallOK(s, r) ==
    /\ DOMAIN r = CallFields
    /\ r.pc \in Pcs
    /\ r.claims \in Claims
    /\ r.frame = r.sent
    /\ r.sent \in Requests[s] \union {NoFrame}

Shape ==
    /\ config \in Configs
    /\ link \in [Sessions -> {"none", "open", "closing", "gone"}]
    /\ registered \subseteq Sessions
    /\ claims \in [Sessions -> Claims]
    /\ subs \in [Sessions -> SUBSET Channels]
    /\ history \in [Channels -> Seq(Entry)]
    /\ call = [s \in Sessions |-> call[s]]
    /\ \A s \in Sessions : CallOK(s, call[s])

\* What a handler knows about the session's claims.
ClaimsKnown(s) ==
    /\ link[s] = "none" => subs[s] = {} /\ call[s].pc = "idle"
    /\ config.auth.allow_anonymous => claims[s] \in {NoClaims, anonymous}
    /\ call[s].pc = "authenticate" /\ ~config.auth.allow_anonymous => claims[s] = NoClaims
    /\ call[s].pc \in {"acl", "on_subscribe", "broker_subscribe", "insert", "validate", "on_publish"} =>
         claims[s] # NoClaims /\ call[s].claims = claims[s]

\* What the gates behind a handler have established.
GatesPassed(s) ==
    /\ call[s].pc \in {"on_subscribe", "broker_subscribe", "insert"} => Allowed(s, "subscribe")
    /\ call[s].pc \in {"validate", "on_publish"} => Allowed(s, "publish")
    /\ call[s].pc = "on_publish" => validate(config.schemas, Channel(s), call[s].frame.body.data)

IInv ==
    /\ Shape
    /\ \A s \in Sessions : ClaimsKnown(s) /\ GatesPassed(s)
    /\ SubscriptionsAuthorized
    /\ NothingBypassesTheGates

-----------------------------------------------------------------------------
(* frame.rs: decoding what was encoded gives back every field, because a   *)
(* field that is left out is exactly one that has its default value.       *)
LEMMA NumberOfFinds ==
    ASSUME NEW names, NEW n, n \in FieldsOf(names)
    PROVE  NumberOf(names, n) \in DOMAIN names /\ names[NumberOf(names, n)] = n
BY DEF FieldsOf, NumberOf

LEMMA BodyRoundTrip ==
    ASSUME NEW layout, NEW body, body = [n \in FieldsOf(layout) |-> body[n]]
    PROVE  FromProto(layout, ToProto(layout, body)) = body
<1> DEFINE msg == ToProto(layout, body)
<1>1. ASSUME NEW n \in FieldsOf(layout)
      PROVE  (LET i == NumberOf(layout, n) IN IF i \in DOMAIN msg THEN msg[i] ELSE Default(n)) = body[n]
  <2> DEFINE i == NumberOf(layout, n)
  <2>1. i \in DOMAIN layout /\ layout[i] = n
    BY NumberOfFinds
  <2>2. i \in DOMAIN msg <=> body[n] # Default(n)
    BY <2>1 DEF ToProto
  <2>3. i \in DOMAIN msg => msg[i] = body[n]
    BY <2>1 DEF ToProto
  <2> QED BY <2>2, <2>3
<1>2. FromProto(layout, msg) =
        [n \in FieldsOf(layout) |-> LET i == NumberOf(layout, n) IN IF i \in DOMAIN msg THEN msg[i] ELSE Default(n)]
  BY DEF FromProto
<1>3. FromProto(layout, msg) = [n \in FieldsOf(layout) |-> body[n]]
  BY <1>1, <1>2
<1> QED BY <1>3

LEMMA ClientRoundTrip ==
    ASSUME NEW s \in Sessions, NEW f \in Requests[s]
    PROVE  decode_client(encode_client(f)) = f
<1> DEFINE tag == NumberOf(ClientTags, f.kind)
           msg == ToProto(ClientLayout[f.kind], f.body)
<1>1. /\ f = [kind |-> f.kind, body |-> f.body]
      /\ f.kind \in DOMAIN ClientLayout
      /\ f.body = [n \in FieldsOf(ClientLayout[f.kind]) |-> f.body[n]]
  BY RequestConstants
<1>2. f.kind \in FieldsOf(ClientTags)
  <2>1. f.kind \in {"Subscribe", "Unsubscribe", "Publish", "Connect"}
    BY <1>1 DEF ClientLayout
  <2>2. DOMAIN ClientTags = 1..4
    BY SMT DEF ClientTags
  <2>3. /\ ClientTags[1] = "Subscribe" /\ ClientTags[2] = "Unsubscribe"
        /\ ClientTags[3] = "Publish" /\ ClientTags[4] = "Connect"
    BY DEF ClientTags
  <2> QED BY <2>1, <2>2, <2>3, SMT DEF FieldsOf
<1>3. tag \in DOMAIN ClientTags /\ ClientTags[tag] = f.kind
  BY <1>2, NumberOfFinds
<1>4. FromProto(ClientLayout[f.kind], msg) = f.body
  BY <1>1, BodyRoundTrip
<1>5. encode_client(f) = [wellformed |-> TRUE, tag |-> tag, msg |-> msg]
  BY DEF encode_client, Envelope
<1> HIDE DEF tag, msg
<1>6. decode_client(encode_client(f)) =
        [kind |-> ClientTags[tag], body |-> FromProto(ClientLayout[ClientTags[tag]], msg)]
  BY <1>3, <1>5, SMT DEF decode_client
<1> QED BY <1>1, <1>3, <1>4, <1>6

-----------------------------------------------------------------------------
(* The parts of IInv are about one session each: what a step of session s  *)
(* leaves alone stays true of the others.                                  *)
SameFor(t) ==
    link'[t] = link[t] /\ claims'[t] = claims[t] /\ subs'[t] = subs[t] /\ call'[t] = call[t]

SubsAuthorized(s) ==
    \A c \in subs[s] : claims[s] # NoClaims /\ check(config.acl, claims[s].subject, "subscribe", c)

LEMMA SessionFrame ==
    ASSUME IInv, NEW s \in Sessions, config' = config, Shape',
           \A t \in Sessions \ {s} : SameFor(t),
           ClaimsKnown(s)', GatesPassed(s)', SubsAuthorized(s)', NothingBypassesTheGates'
    PROVE  IInv'
<1>1. ASSUME NEW t \in Sessions PROVE ClaimsKnown(t)' /\ GatesPassed(t)' /\ SubsAuthorized(t)'
  <2>1. CASE t = s
    BY <2>1
  <2>2. CASE t # s
    <3>1. ClaimsKnown(t) /\ GatesPassed(t) /\ SubsAuthorized(t) /\ SameFor(t)
      BY <2>2 DEF IInv, SubscriptionsAuthorized, SubsAuthorized
    <3>2. ClaimsKnown(t)'
      BY <3>1 DEF ClaimsKnown, SameFor
    <3>3. GatesPassed(t)'
      BY <3>1 DEF GatesPassed, SameFor, Allowed, Channel
    <3>4. SubsAuthorized(t)'
      BY <3>1 DEF SubsAuthorized, SameFor
    <3> QED BY <3>2, <3>3, <3>4
  <2> QED BY <2>1, <2>2
<1> QED BY <1>1 DEF IInv, SubscriptionsAuthorized, SubsAuthorized

\* Only the handler of s changed; claims, subscriptions and history did not.
LEMMA HandlerFrame ==
    ASSUME IInv, NEW s \in Sessions, NEW r, CallOK(s, r), call' = [call EXCEPT ![s] = r],
           UNCHANGED <<config, claims, subs, history>>,
           link' \in [Sessions -> {"none", "open", "closing", "gone"}],
           \A t \in Sessions \ {s} : link'[t] = link[t],
           registered' \subseteq Sessions,
           ClaimsKnown(s)', GatesPassed(s)'
    PROVE  IInv'
<1>1. \A t \in Sessions : call'[t] = IF t = s THEN r ELSE call[t]
  BY DEF IInv, Shape
<1>2. call' = [t \in Sessions |-> call'[t]]
  BY DEF IInv, Shape
<1>3. \A t \in Sessions : CallOK(t, call'[t])
  BY <1>1 DEF IInv, Shape
<1>4. Shape'
  BY <1>2, <1>3 DEF IInv, Shape, CallOK
<1>5. \A t \in Sessions \ {s} : SameFor(t)
  BY <1>1 DEF SameFor
<1>6. SubsAuthorized(s)'
  BY DEF IInv, SubscriptionsAuthorized, SubsAuthorized
<1>7. NothingBypassesTheGates'
  BY DEF IInv, NothingBypassesTheGates, Accepts
<1> QED BY <1>4, <1>5, <1>6, <1>7, SessionFrame

\* A handler that ends, with an answer or without one, claims nothing.
LEMMA HandlerEnds ==
    ASSUME IInv, NEW s \in Sessions, NEW r, CallOK(s, r), r.pc \in {"idle", "replied"},
           call' = [call EXCEPT ![s] = r],
           link[s] # "none",
           UNCHANGED <<config, claims, subs, history>>,
           link' \in [Sessions -> {"none", "open", "closing", "gone"}],
           \A t \in Sessions \ {s} : link'[t] = link[t], link'[s] # "none",
           registered' \subseteq Sessions
    PROVE  IInv'
<1>1. call'[s] = r
  BY DEF IInv, Shape
<1>2. ClaimsKnown(s)'
  BY <1>1 DEF IInv, ClaimsKnown
<1>3. GatesPassed(s)'
  BY <1>1 DEF GatesPassed
<1> QED BY <1>2, <1>3, HandlerFrame

LEMMA IdleOK == ASSUME NEW s \in Sessions PROVE CallOK(s, Idle) /\ Idle.pc = "idle"
BY DEF CallOK, Idle, CallFields, Pcs, Claims

LEMMA AnswerToIs ==
    ASSUME Shape, NEW s \in Sessions, NEW q, CallOK(s, q), NEW kind, NEW body, AnswerTo(s, q, kind, body)
    PROVE  \E r : CallOK(s, r) /\ r.pc \in {"idle", "replied"} /\ call' = [call EXCEPT ![s] = r]
<1> DEFINE out == encode_server([kind |-> kind, body |-> body])
           r == IF s \in registered THEN [q EXCEPT !.pc = "replied", !.out = out] ELSE Idle
<1>1. call' = [call EXCEPT ![s] = r]
  BY DEF AnswerTo, Shape
<1>2. CallOK(s, r) /\ r.pc \in {"idle", "replied"}
  <2> HIDE DEF out
  <2>1. CASE s \in registered
    BY <2>1 DEF CallOK, CallFields, Pcs
  <2>2. CASE s \notin registered
    BY <2>2, IdleOK
  <2> QED BY <2>1, <2>2
<1> QED BY <1>1, <1>2

LEMMA AnswerIs ==
    ASSUME Shape, NEW s \in Sessions, NEW kind, NEW body, Answer(s, kind, body)
    PROVE  \E r : CallOK(s, r) /\ r.pc \in {"idle", "replied"} /\ call' = [call EXCEPT ![s] = r]
<1>1. CallOK(s, call[s])
  BY DEF Shape
<1> QED BY <1>1, AnswerToIs DEF Answer

LEMMA AnswerKeeps ==
    ASSUME IInv, NEW s \in Sessions, NEW kind, NEW body, Answer(s, kind, body), link[s] # "none",
           UNCHANGED <<config, claims, subs, history>>,
           link' \in [Sessions -> {"none", "open", "closing", "gone"}],
           \A t \in Sessions \ {s} : link'[t] = link[t], link'[s] # "none",
           registered' \subseteq Sessions
    PROVE  IInv'
<1>1. PICK r : CallOK(s, r) /\ r.pc \in {"idle", "replied"} /\ call' = [call EXCEPT ![s] = r]
  BY AnswerIs DEF IInv
<1> QED BY <1>1, HandlerEnds

-----------------------------------------------------------------------------
(* The handlers, one lemma per action that does more than answer.          *)
LEMMA LinkOpen ==
    ASSUME IInv, NEW s \in Sessions, call[s].pc # "idle"
    PROVE  link[s] # "none" /\ (link' = link => /\ link' \in [Sessions -> {"none", "open", "closing", "gone"}]
                                                /\ link'[s] # "none"
                                                /\ \A t \in Sessions \ {s} : link'[t] = link[t])
BY DEF IInv, ClaimsKnown, Shape

\* A step of the handler to another program point, nothing else changed.
LEMMA GotoIs ==
    ASSUME Shape, NEW s \in Sessions, NEW label \in Pcs, Goto(s, label)
    PROVE  \E r : /\ CallOK(s, r) /\ call' = [call EXCEPT ![s] = r] /\ call'[s] = r
                  /\ r.pc = label /\ r.claims = call[s].claims /\ r.frame = call[s].frame
<1> DEFINE r == [call[s] EXCEPT !.pc = label]
<1>1. call' = [call EXCEPT ![s] = r]
  BY DEF Goto, Shape
<1>2. CallOK(s, call[s])
  BY DEF Shape
<1>3. CallOK(s, r) /\ r.pc = label /\ r.claims = call[s].claims /\ r.frame = call[s].frame
  BY <1>2 DEF CallOK, CallFields
<1>4. call'[s] = r
  BY <1>1 DEF Shape
<1> QED BY <1>1, <1>3, <1>4

LEMMA GotoKeeps ==
    ASSUME IInv, NEW s \in Sessions, NEW label \in Pcs, Goto(s, label), call[s].pc # "idle",
           UNCHANGED <<config, link, registered, claims, subs, history>>,
           label = "authenticate" /\ ~config.auth.allow_anonymous => claims[s] = NoClaims,
           label \in {"acl", "on_subscribe", "broker_subscribe", "insert", "validate", "on_publish"} =>
             claims[s] # NoClaims /\ call[s].claims = claims[s],
           label \in {"on_subscribe", "broker_subscribe", "insert"} => Allowed(s, "subscribe"),
           label \in {"validate", "on_publish"} => Allowed(s, "publish"),
           label = "on_publish" => validate(config.schemas, Channel(s), call[s].frame.body.data)
    PROVE  IInv'
<1>1. PICK r : /\ CallOK(s, r) /\ call' = [call EXCEPT ![s] = r] /\ call'[s] = r
               /\ r.pc = label /\ r.claims = call[s].claims /\ r.frame = call[s].frame
  BY GotoIs DEF IInv
<1>2. link[s] # "none" /\ link' \in [Sessions -> {"none", "open", "closing", "gone"}]
  BY LinkOpen
<1>3. ClaimsKnown(s)'
  BY <1>1, <1>2 DEF IInv, ClaimsKnown
<1>4. GatesPassed(s)'
  BY <1>1 DEF GatesPassed, Allowed, Channel
<1>5. registered' \subseteq Sessions
  BY DEF IInv, Shape
<1> QED BY <1>1, <1>2, <1>3, <1>4, <1>5, HandlerFrame

LEMMA FailKeeps ==
    ASSUME IInv, NEW s \in Sessions, NEW err, Fail(s, err), call[s].pc # "idle",
           UNCHANGED <<config, link, registered, claims, subs, history>>
    PROVE  IInv'
<1>1. registered' \subseteq Sessions
  BY DEF IInv, Shape
<1>2. PICK body : Answer(s, "Error", body)
  BY DEF Fail
<1>3. /\ link[s] # "none" /\ link'[s] # "none"
      /\ link' \in [Sessions -> {"none", "open", "closing", "gone"}]
      /\ \A t \in Sessions \ {s} : link'[t] = link[t]
  BY LinkOpen
<1> QED BY <1>1, <1>2, <1>3, AnswerKeeps

LEMMA HandleConnectKeeps == ASSUME IInv, NEW s \in Sessions, HandleConnect(s) PROVE IInv'
<1>1. call[s].pc # "idle" /\ UNCHANGED <<config, link, registered, claims, subs, history>>
  BY DEF HandleConnect, At
<1>2. CASE \E err : Fail(s, err)
  BY <1>1, <1>2, FailKeeps
<1>3. CASE Goto(s, "authenticate") /\ (claims[s] = NoClaims \/ config.auth.allow_anonymous)
  <2>1. "authenticate" \in Pcs
    BY DEF Pcs
  <2> QED BY <1>1, <1>3, <2>1, GotoKeeps
<1> QED BY <1>2, <1>3 DEF HandleConnect

\* The claims of a session that may still authenticate are the ones it gets.
LEMMA AuthenticateKeeps == ASSUME IInv, NEW s \in Sessions, Authenticate(s) PROVE IInv'
<1> DEFINE f == call[s].frame
           got == authenticate(config.auth, Tokens[f.body.token])
<1>1. At(s, "authenticate", "Connect") /\ UNCHANGED <<config, link, registered, subs, history>>
  BY DEF Authenticate
<1>2. call[s].pc = "authenticate" /\ f.kind = "Connect"
  BY <1>1 DEF At
<1>3. CASE got = NoClaims
  <2>1. Fail(s, "Auth") /\ claims' = claims
    BY <1>3 DEF Authenticate
  <2> QED BY <1>1, <1>2, <2>1, FailKeeps
<1>4. CASE got # NoClaims
  <2>1. claims' = [claims EXCEPT ![s] = got] /\ \E body : Answer(s, "ConnectOk", body)
    BY <1>4 DEF Authenticate
  <2>2. PICK r : CallOK(s, r) /\ r.pc \in {"idle", "replied"} /\ call' = [call EXCEPT ![s] = r]
    BY <2>1, AnswerIs DEF IInv
  <2>3. f \in Requests[s]
    BY <1>2, SMT DEF IInv, Shape, CallOK, NoFrame, DecodeError
  <2>4. f.body.token \in DOMAIN Tokens
    BY <1>2, <2>3, RequestConstants
  <2>5. got \in Claims
    <3> DEFINE tok == Tokens[f.body.token]
    <3>1. tok.sub \in Subjects /\ tok.exp \in Nat
      BY <2>4, RequestConstants DEF Subjects
    <3>2. anonymous \in Claims
      BY DEF anonymous, Claims, Subjects
    <3>3. [subject |-> tok.sub, expires_at |-> tok.exp] \in Claims
      BY <3>1 DEF Claims
    <3>4. NoClaims \in Claims
      BY DEF Claims
    <3> QED BY <3>2, <3>3, <3>4 DEF authenticate
  <2>6. config.auth.allow_anonymous => got = anonymous
    BY DEF authenticate
  <2> HIDE DEF got
  <2>7. \A t \in Sessions : call'[t] = IF t = s THEN r ELSE call[t]
    BY <2>2 DEF IInv, Shape
  <2>8. claims' \in [Sessions -> Claims] /\ claims'[s] = got /\ \A t \in Sessions \ {s} : claims'[t] = claims[t]
    BY <2>1, <2>5 DEF IInv, Shape
  <2>9. Shape'
    <3>1. call' = [t \in Sessions |-> call'[t]]
      BY <2>2 DEF IInv, Shape
    <3>2. \A t \in Sessions : CallOK(t, call'[t])
      BY <2>2, <2>7 DEF IInv, Shape
    <3> QED BY <1>1, <2>8, <3>1, <3>2 DEF IInv, Shape, CallOK
  <2>10. \A t \in Sessions \ {s} : SameFor(t)
    BY <1>1, <2>7, <2>8 DEF SameFor
  <2>11. link[s] # "none"
    BY <1>2, LinkOpen
  <2>12. ClaimsKnown(s)'
    BY <1>1, <2>2, <2>6, <2>7, <2>8, <2>11 DEF ClaimsKnown
  <2>13. GatesPassed(s)'
    BY <2>2, <2>7 DEF GatesPassed
  <2>14. SubsAuthorized(s)'
    <3>1. SubsAuthorized(s) /\ ClaimsKnown(s)
      BY DEF IInv, SubscriptionsAuthorized, SubsAuthorized
    <3>2. CASE config.auth.allow_anonymous
      <4>1. subs[s] # {} => claims[s] = anonymous
        BY <3>1, <3>2 DEF SubsAuthorized, ClaimsKnown
      <4> QED BY <1>1, <2>6, <2>8, <3>1, <3>2, <4>1, <1>4 DEF SubsAuthorized
    <3>3. CASE ~config.auth.allow_anonymous
      BY <1>1, <1>2, <3>1, <3>3 DEF SubsAuthorized, ClaimsKnown
    <3> QED BY <3>2, <3>3
  <2>15. NothingBypassesTheGates'
    BY <1>1 DEF IInv, NothingBypassesTheGates, Accepts
  <2> QED BY <1>1, <2>9, <2>10, <2>12, <2>13, <2>14, <2>15, SessionFrame
<1> QED BY <1>3, <1>4

\* require_claims may seed anonymous claims: only for a session without any.
LEMMA RequireClaimsKeeps == ASSUME IInv, NEW s \in Sessions, RequireClaims(s) PROVE IInv'
<1> DEFINE held == IF claims[s] = NoClaims /\ config.auth.allow_anonymous THEN anonymous ELSE claims[s]
<1>1. call[s].pc = "begin" /\ UNCHANGED <<config, link, registered, subs, history>>
  BY DEF RequireClaims, At
<1>2. CASE (\E err : Fail(s, err)) /\ claims' = claims
  BY <1>1, <1>2, FailKeeps
<1>3. CASE /\ held # NoClaims
           /\ claims' = [claims EXCEPT ![s] = held]
           /\ call' = [call EXCEPT ![s].pc = "acl", ![s].claims = held]
  <2> DEFINE r == [call[s] EXCEPT !.pc = "acl", !.claims = held]
  <2>1. held \in Claims
    BY DEF IInv, Shape, anonymous, Claims, Subjects
  <2>2. config.auth.allow_anonymous => held = anonymous
    BY <1>3 DEF IInv, ClaimsKnown
  <2>3. claims[s] # NoClaims => held = claims[s]
    OBVIOUS
  <2> HIDE DEF held
  <2>4. CallOK(s, r) /\ r.pc = "acl" /\ r.claims = held
    BY <2>1 DEF IInv, Shape, CallOK, CallFields, Pcs
  <2>5. call' = [call EXCEPT ![s] = r]
    BY <1>3 DEF IInv, Shape
  <2> HIDE DEF r
  <2>6. \A t \in Sessions : call'[t] = IF t = s THEN r ELSE call[t]
    BY <2>5 DEF IInv, Shape
  <2>7. claims' \in [Sessions -> Claims] /\ claims'[s] = held /\ \A t \in Sessions \ {s} : claims'[t] = claims[t]
    BY <1>3, <2>1 DEF IInv, Shape
  <2>8. Shape'
    <3>1. call' = [t \in Sessions |-> call'[t]]
      BY <2>5 DEF IInv, Shape
    <3>2. \A t \in Sessions : CallOK(t, call'[t])
      BY <2>4, <2>6 DEF IInv, Shape
    <3> QED BY <1>1, <2>7, <3>1, <3>2 DEF IInv, Shape, CallOK
  <2>9. \A t \in Sessions \ {s} : SameFor(t)
    BY <1>1, <2>6, <2>7 DEF SameFor
  <2>10. link[s] # "none"
    BY <1>1, LinkOpen
  <2>11. ClaimsKnown(s)'
    BY <1>1, <1>3, <2>2, <2>4, <2>6, <2>7, <2>10 DEF ClaimsKnown
  <2>12. GatesPassed(s)'
    BY <2>4, <2>6 DEF GatesPassed
  <2>13. SubsAuthorized(s)'
    BY <1>1, <2>3, <2>7 DEF IInv, SubscriptionsAuthorized, SubsAuthorized
  <2>14. NothingBypassesTheGates'
    BY <1>1 DEF IInv, NothingBypassesTheGates, Accepts
  <2> QED BY <1>1, <2>8, <2>9, <2>11, <2>12, <2>13, <2>14, SessionFrame
<1> QED BY <1>2, <1>3 DEF RequireClaims

LEMMA AclSubscribeKeeps == ASSUME IInv, NEW s \in Sessions, AclSubscribe(s) PROVE IInv'
<1>1. call[s].pc = "acl" /\ UNCHANGED <<config, link, registered, claims, subs, history>>
  BY DEF AclSubscribe, At
<1>2. CASE \E err : Fail(s, err)
  BY <1>1, <1>2, FailKeeps
<1>3. CASE Goto(s, "on_subscribe") /\ Allowed(s, "subscribe")
  <2>1. "on_subscribe" \in Pcs
    BY DEF Pcs
  <2>2. claims[s] # NoClaims /\ call[s].claims = claims[s]
    BY <1>1 DEF IInv, ClaimsKnown
  <2> QED BY <1>1, <1>3, <2>1, <2>2, GotoKeeps
<1> QED BY <1>2, <1>3 DEF AclSubscribe

LEMMA AclPublishKeeps == ASSUME IInv, NEW s \in Sessions, AclPublish(s) PROVE IInv'
<1>1. call[s].pc = "acl" /\ UNCHANGED <<config, link, registered, claims, subs, history>>
  BY DEF AclPublish, At
<1>2. CASE \E err : Fail(s, err)
  BY <1>1, <1>2, FailKeeps
<1>3. CASE Goto(s, "validate") /\ Allowed(s, "publish")
  <2>1. "validate" \in Pcs
    BY DEF Pcs
  <2>2. claims[s] # NoClaims /\ call[s].claims = claims[s]
    BY <1>1 DEF IInv, ClaimsKnown
  <2> QED BY <1>1, <1>3, <2>1, <2>2, GotoKeeps
<1> QED BY <1>2, <1>3 DEF AclPublish

LEMMA ValidateKeeps == ASSUME IInv, NEW s \in Sessions, Validate(s) PROVE IInv'
<1>1. call[s].pc = "validate" /\ UNCHANGED <<config, link, registered, claims, subs, history>>
  BY DEF Validate, At
<1>2. CASE \E err : Fail(s, err)
  BY <1>1, <1>2, FailKeeps
<1>3. CASE Goto(s, "on_publish") /\ validate(config.schemas, Channel(s), call[s].frame.body.data)
  <2>1. "on_publish" \in Pcs
    BY DEF Pcs
  <2>2. claims[s] # NoClaims /\ call[s].claims = claims[s] /\ Allowed(s, "publish")
    BY <1>1 DEF IInv, ClaimsKnown, GatesPassed
  <2> QED BY <1>1, <1>3, <2>1, <2>2, GotoKeeps
<1> QED BY <1>2, <1>3 DEF Validate

\* Between two program points of handle_subscribe the handler's record also
\* gets a cursor or an error; what it knows about claims and ACL it keeps.
LEMMA SubscribeMoves ==
    ASSUME IInv, NEW s \in Sessions, NEW r, CallOK(s, r), call' = [call EXCEPT ![s] = r],
           call[s].pc \in {"on_subscribe", "broker_subscribe", "insert"},
           r.pc \in {"broker_subscribe", "insert", "unwind"},
           r.claims = call[s].claims, r.frame = call[s].frame,
           UNCHANGED <<config, link, registered, claims, subs, history>>
    PROVE  IInv'
<1>1. call'[s] = r
  BY DEF IInv, Shape
<1>2. /\ link[s] # "none" /\ link' \in [Sessions -> {"none", "open", "closing", "gone"}]
      /\ \A t \in Sessions \ {s} : link'[t] = link[t]
  BY LinkOpen
<1>3. ClaimsKnown(s)'
  BY <1>1, <1>2 DEF IInv, ClaimsKnown
<1>4. GatesPassed(s)'
  BY <1>1 DEF IInv, GatesPassed, Allowed, Channel
<1>5. registered' \subseteq Sessions
  BY DEF IInv, Shape
<1> QED BY <1>2, <1>3, <1>4, <1>5, HandlerFrame

LEMMA OnSubscribeKeeps == ASSUME IInv, NEW s \in Sessions, OnSubscribe(s) PROVE IInv'
<1>1. call[s].pc = "on_subscribe" /\ UNCHANGED <<config, link, registered, claims, subs, history>>
  BY DEF OnSubscribe, At
<1>2. CASE \E err : Fail(s, err)
  BY <1>1, <1>2, FailKeeps
<1>3. CASE \E o : call' = [call EXCEPT ![s].pc = "broker_subscribe", ![s].offset = o]
  <2>1. PICK o : call' = [call EXCEPT ![s].pc = "broker_subscribe", ![s].offset = o]
    BY <1>3
  <2> DEFINE r == [call[s] EXCEPT !.pc = "broker_subscribe", !.offset = o]
  <2>2. call' = [call EXCEPT ![s] = r]
    BY <2>1 DEF IInv, Shape
  <2>3. CallOK(s, r) /\ r.pc = "broker_subscribe" /\ r.claims = call[s].claims /\ r.frame = call[s].frame
    BY DEF IInv, Shape, CallOK, CallFields, Pcs
  <2> HIDE DEF r
  <2> QED BY <1>1, <2>2, <2>3, SubscribeMoves
<1> QED BY <1>2, <1>3 DEF OnSubscribe


LEMMA ErrorKeeps ==
    ASSUME IInv, NEW s \in Sessions, NEW err,
           call[s].pc \in {"on_subscribe", "broker_subscribe", "insert"},
           GiveUp(s, err),
           UNCHANGED <<config, link, registered, claims, subs, history>>
    PROVE  IInv'
<1> DEFINE r == [call[s] EXCEPT !.pc = "unwind", !.error = err]
<1>2. call' = [call EXCEPT ![s] = r]
  BY DEF IInv, Shape, GiveUp
<1>3. CallOK(s, r) /\ r.pc = "unwind" /\ r.claims = call[s].claims /\ r.frame = call[s].frame
  BY DEF IInv, Shape, CallOK, CallFields, Pcs
<1> HIDE DEF r
<1> QED BY <1>2, <1>3, SubscribeMoves

LEMMA BrokerSubscribeKeeps == ASSUME IInv, NEW s \in Sessions, BrokerSubscribe(s) PROVE IInv'
<1>1. call[s].pc = "broker_subscribe" /\ UNCHANGED <<config, link, registered, claims, subs, history>>
  BY DEF BrokerSubscribe, At
<1>2. CASE Goto(s, "insert")
  <2>1. "insert" \in Pcs
    BY DEF Pcs
  <2>2. claims[s] # NoClaims /\ call[s].claims = claims[s] /\ Allowed(s, "subscribe")
    BY <1>1 DEF IInv, ClaimsKnown, GatesPassed
  <2> QED BY <1>1, <1>2, <2>1, <2>2, GotoKeeps
<1>3. CASE \E err : GiveUp(s, err)
  <2>1. PICK err : GiveUp(s, err)
    BY <1>3
  <2>2. call[s].pc \in {"on_subscribe", "broker_subscribe", "insert"}
    BY <1>1
  <2> QED BY <1>1, <2>1, <2>2, ErrorKeeps, SMT
<1> QED BY <1>2, <1>3 DEF BrokerSubscribe

LEMMA UnwindKeeps == ASSUME IInv, NEW s \in Sessions, Unwind(s) PROVE IInv'
<1>1. call[s].pc = "unwind" /\ UNCHANGED <<config, link, registered, claims, subs, history>>
  BY DEF Unwind, At
<1>2. Fail(s, call[s].error)
  BY DEF Unwind
<1> QED BY <1>1, <1>2, FailKeeps

\* The frame of a running handler is one its client may send.
LEMMA FrameIsRequest ==
    ASSUME Shape, NEW s \in Sessions, NEW label, NEW kind \in {"Subscribe", "Unsubscribe", "Publish"},
           At(s, label, kind)
    PROVE  /\ Channel(s) \in Channels
           /\ kind = "Publish" => call[s].frame.body.data \in Payloads
<1>1. call[s].frame \in Requests[s]
  BY SMT DEF Shape, CallOK, At, NoFrame, DecodeError
<1> QED BY <1>1, RequestConstants DEF At, Channel

\* A subscription is inserted under the claims that passed the ACL.
LEMMA InsertKeeps == ASSUME IInv, NEW s \in Sessions, Insert(s) PROVE IInv'
<1> DEFINE c == Channel(s)
<1>1. At(s, "insert", "Subscribe") /\ UNCHANGED <<config, link, registered, claims, history>>
  BY DEF Insert
<1>2. call[s].pc = "insert"
  BY <1>1 DEF At
<1>3. CASE c \in subs[s]
  <2>1. GiveUp(s, "AlreadySubscribed") /\ subs' = subs
    BY <1>3 DEF Insert
  <2>2. call[s].pc \in {"on_subscribe", "broker_subscribe", "insert"}
    BY <1>2
  <2> QED BY <1>1, <2>1, <2>2, ErrorKeeps, SMT
<1>4. CASE c \notin subs[s]
  <2>1. subs' = [subs EXCEPT ![s] = @ \union {c}] /\ \E body : Answer(s, "SubscribeOk", body)
    BY <1>4 DEF Insert
  <2>2. PICK r : CallOK(s, r) /\ r.pc \in {"idle", "replied"} /\ call' = [call EXCEPT ![s] = r]
    BY <2>1, AnswerIs DEF IInv
  <2>3. c \in Channels
    BY <1>1, FrameIsRequest DEF IInv
  <2>4. claims[s] # NoClaims /\ check(config.acl, claims[s].subject, "subscribe", c)
    BY <1>2 DEF IInv, ClaimsKnown, GatesPassed, Allowed
  <2> HIDE DEF c
  <2>5. \A t \in Sessions : call'[t] = IF t = s THEN r ELSE call[t]
    BY <2>2 DEF IInv, Shape
  <2>6. /\ subs' \in [Sessions -> SUBSET Channels] /\ subs'[s] = subs[s] \union {c}
        /\ \A t \in Sessions \ {s} : subs'[t] = subs[t]
    BY <2>1, <2>3 DEF IInv, Shape
  <2>7. Shape'
    <3>1. call' = [t \in Sessions |-> call'[t]]
      BY <2>2 DEF IInv, Shape
    <3>2. \A t \in Sessions : CallOK(t, call'[t])
      BY <2>2, <2>5 DEF IInv, Shape
    <3> QED BY <1>1, <2>6, <3>1, <3>2 DEF IInv, Shape, CallOK
  <2>8. \A t \in Sessions \ {s} : SameFor(t)
    BY <1>1, <2>5, <2>6 DEF SameFor
  <2>9. link[s] # "none"
    BY <1>2, LinkOpen
  <2>10. ClaimsKnown(s)'
    BY <1>1, <2>2, <2>5, <2>9 DEF IInv, ClaimsKnown
  <2>11. GatesPassed(s)'
    BY <2>2, <2>5 DEF GatesPassed
  <2>12. SubsAuthorized(s)'
    BY <1>1, <2>4, <2>6 DEF IInv, SubscriptionsAuthorized, SubsAuthorized
  <2>13. NothingBypassesTheGates'
    BY <1>1 DEF IInv, NothingBypassesTheGates, Accepts
  <2> QED BY <1>1, <2>7, <2>8, <2>10, <2>11, <2>12, <2>13, SessionFrame
<1> QED BY <1>3, <1>4

\* A subscription that goes away, and a handler that goes on or ends.
LEMMA HandleUnsubscribeKeeps == ASSUME IInv, NEW s \in Sessions, HandleUnsubscribe(s) PROVE IInv'
<1> DEFINE c == Channel(s)
<1>1. call[s].pc = "begin" /\ UNCHANGED <<config, link, registered, claims, history>>
  BY DEF HandleUnsubscribe, At
<1>2. CASE (\E err : Fail(s, err)) /\ subs' = subs
  BY <1>1, <1>2, FailKeeps
<1>3. CASE subs' = [subs EXCEPT ![s] = @ \ {c}] /\ Goto(s, "on_unsubscribe")
  <2>1. "on_unsubscribe" \in Pcs
    BY DEF Pcs
  <2>2. PICK r : /\ CallOK(s, r) /\ call' = [call EXCEPT ![s] = r] /\ call'[s] = r
                 /\ r.pc = "on_unsubscribe"
    BY <1>3, <2>1, GotoIs, ZenonT(30) DEF IInv
  <2> HIDE DEF c
  <2>3. \A t \in Sessions : call'[t] = IF t = s THEN r ELSE call[t]
    BY <2>2 DEF IInv, Shape
  <2>4. /\ subs' \in [Sessions -> SUBSET Channels] /\ subs'[s] \subseteq subs[s]
        /\ \A t \in Sessions \ {s} : subs'[t] = subs[t]
    BY <1>3 DEF IInv, Shape
  <2>5. Shape'
    <3>1. call' = [t \in Sessions |-> call'[t]]
      BY <2>2 DEF IInv, Shape
    <3>2. \A t \in Sessions : CallOK(t, call'[t])
      BY <2>2, <2>3 DEF IInv, Shape
    <3> QED BY <1>1, <2>4, <3>1, <3>2 DEF IInv, Shape, CallOK
  <2>6. \A t \in Sessions \ {s} : SameFor(t)
    BY <1>1, <2>3, <2>4 DEF SameFor
  <2>7. link[s] # "none"
    BY <1>1, LinkOpen
  <2>8. ClaimsKnown(s)'
    BY <1>1, <2>2, <2>7 DEF IInv, ClaimsKnown
  <2>9. GatesPassed(s)'
    BY <2>2 DEF GatesPassed
  <2>10. SubsAuthorized(s)'
    BY <1>1, <2>4 DEF IInv, SubscriptionsAuthorized, SubsAuthorized
  <2>11. NothingBypassesTheGates'
    BY <1>1 DEF IInv, NothingBypassesTheGates, Accepts
  <2> QED BY <1>1, <2>5, <2>6, <2>8, <2>9, <2>10, <2>11, SessionFrame
<1> QED BY <1>2, <1>3 DEF HandleUnsubscribe

LEMMA OnUnsubscribeKeeps == ASSUME IInv, NEW s \in Sessions, OnUnsubscribe(s) PROVE IInv'
<1>1. call[s].pc = "on_unsubscribe" /\ UNCHANGED <<config, link, registered, claims, subs, history>>
  BY DEF OnUnsubscribe, At
<1>2. PICK body : Answer(s, "UnsubscribeOk", body)
  BY DEF OnUnsubscribe
<1>3. registered' \subseteq Sessions
  BY <1>1 DEF IInv, Shape
<1>4. /\ link[s] # "none" /\ link'[s] # "none"
      /\ link' \in [Sessions -> {"none", "open", "closing", "gone"}]
      /\ \A t \in Sessions \ {s} : link'[t] = link[t]
  BY <1>1, LinkOpen
<1> QED BY <1>1, <1>2, <1>3, <1>4, AnswerKeeps

\* The one step that extends a history comes after all three gates.
LEMMA OnPublishKeeps == ASSUME IInv, NEW s \in Sessions, OnPublish(s) PROVE IInv'
<1> DEFINE c == Channel(s)
           data == call[s].frame.body.data
           e == [subject |-> call[s].claims.subject, data |-> data]
<1>1. At(s, "on_publish", "Publish") /\ UNCHANGED <<config, link, registered, claims, subs>>
  BY DEF OnPublish
<1>2. call[s].pc = "on_publish"
  BY <1>1 DEF At
<1>3. CASE (\E err : Fail(s, err)) /\ history' = history
  BY <1>1, <1>2, <1>3, FailKeeps
<1>4. CASE /\ Accepts(c, data)
           /\ history' = [history EXCEPT ![c] = Append(@, e)]
           /\ \E o : call' = [call EXCEPT ![s].pc = "broker_publish", ![s].offset = o]
  <2>1. PICK o : call' = [call EXCEPT ![s].pc = "broker_publish", ![s].offset = o]
    BY <1>4
  <2> DEFINE r == [call[s] EXCEPT !.pc = "broker_publish", !.offset = o]
  <2>2. call' = [call EXCEPT ![s] = r]
    BY <2>1 DEF IInv, Shape
  <2>3. CallOK(s, r) /\ r.pc = "broker_publish"
    BY DEF IInv, Shape, CallOK, CallFields, Pcs
  <2> HIDE DEF r
  <2>4. c \in Channels /\ data \in Payloads
    BY <1>1, FrameIsRequest DEF IInv
  <2>5. call[s].claims \in Claims /\ call[s].claims # NoClaims
    BY <1>2 DEF IInv, Shape, CallOK, ClaimsKnown
  <2>6. call[s].claims.subject \in Subjects
    BY <2>5 DEF Claims
  <2>7. None \notin Subjects
    BY RequestConstants DEF Subjects
  <2>8. e \in Entry /\ e.subject # None
    BY <2>4, <2>6, <2>7 DEF Entry
  <2>9. /\ check(config.acl, e.subject, "publish", c)
        /\ validate(config.schemas, c, e.data)
        /\ Accepts(c, e.data)
    BY <1>2, <1>4 DEF IInv, GatesPassed, Allowed
  <2> HIDE DEF c, e
  <2>10. history' \in [Channels -> Seq(Entry)]
    BY <1>4, <2>4, <2>8, SMT DEF IInv, Shape
  <2>11. \A t \in Sessions : call'[t] = IF t = s THEN r ELSE call[t]
    BY <2>2 DEF IInv, Shape
  <2>12. Shape'
    <3>1. call' = [t \in Sessions |-> call'[t]]
      BY <2>2 DEF IInv, Shape
    <3>2. \A t \in Sessions : CallOK(t, call'[t])
      BY <2>3, <2>11 DEF IInv, Shape
    <3> QED BY <1>1, <2>10, <3>1, <3>2 DEF IInv, Shape, CallOK
  <2>13. \A t \in Sessions \ {s} : SameFor(t)
    BY <1>1, <2>11 DEF SameFor
  <2>14. link[s] # "none"
    BY <1>2, LinkOpen
  <2>15. ClaimsKnown(s)'
    BY <1>1, <2>3, <2>11, <2>14 DEF IInv, ClaimsKnown
  <2>16. GatesPassed(s)'
    BY <2>3, <2>11 DEF GatesPassed
  <2>17. SubsAuthorized(s)'
    BY <1>1 DEF IInv, SubscriptionsAuthorized, SubsAuthorized
  <2>18. NothingBypassesTheGates'
    <3>1. SUFFICES ASSUME NEW d \in Channels, NEW i \in DOMAIN history'[d]
                   PROVE  /\ history'[d][i].subject # None
                          /\ check(config.acl, history'[d][i].subject, "publish", d)
                          /\ validate(config.schemas, d, history'[d][i].data)
                          /\ Accepts(d, history'[d][i].data)
      BY <1>1 DEF NothingBypassesTheGates, Accepts
    <3>2. CASE d = c /\ i = Len(history[c]) + 1
      <4>1. history'[d][i] = e
        BY <1>4, <2>4, <2>8, <3>2, SMT DEF IInv, Shape
      <4> QED BY <2>8, <2>9, <3>2, <4>1
    <3>3. CASE ~(d = c /\ i = Len(history[c]) + 1)
      <4>1. i \in DOMAIN history[d] /\ history'[d][i] = history[d][i]
        BY <1>4, <2>4, <2>8, <3>3, SMT DEF IInv, Shape
      <4> QED BY <4>1 DEF IInv, NothingBypassesTheGates
    <3> QED BY <3>2, <3>3
  <2> QED BY <1>1, <2>12, <2>13, <2>15, <2>16, <2>17, <2>18, SessionFrame
<1> QED BY <1>3, <1>4 DEF OnPublish

LEMMA IdleKeeps ==
    ASSUME IInv, NEW s \in Sessions, call' = [call EXCEPT ![s] = Idle], link[s] # "none",
           UNCHANGED <<config, claims, subs, history, registered>>,
           link' \in [Sessions -> {"none", "open", "closing", "gone"}],
           \A t \in Sessions \ {s} : link'[t] = link[t], link'[s] # "none"
    PROVE  IInv'
<1>1. CallOK(s, Idle) /\ Idle.pc \in {"idle", "replied"}
  BY IdleOK
<1>2. registered' \subseteq Sessions
  BY DEF IInv, Shape
<1> QED BY <1>1, <1>2, HandlerEnds

LEMMA BrokerPublishKeeps == ASSUME IInv, NEW s \in Sessions, BrokerPublish(s) PROVE IInv'
<1>1. call[s].pc = "broker_publish" /\ UNCHANGED <<config, link, registered, claims, subs, history>>
  BY DEF BrokerPublish, At
<1>2. CASE Fail(s, "Broker")
  BY <1>1, <1>2, FailKeeps
<1>3. CASE call' = [call EXCEPT ![s] = Idle]
  <2>1. /\ link[s] # "none" /\ link'[s] # "none"
        /\ link' \in [Sessions -> {"none", "open", "closing", "gone"}]
        /\ \A t \in Sessions \ {s} : link'[t] = link[t]
    BY <1>1, LinkOpen
  <2> QED BY <1>1, <1>3, <2>1, IdleKeeps
<1> QED BY <1>2, <1>3 DEF BrokerPublish

LEMMA CancelKeeps == ASSUME IInv, NEW s \in Sessions, Cancel(s) PROVE IInv'
<1>1. /\ link[s] = "open" /\ link' = [link EXCEPT ![s] = "gone"]
      /\ UNCHANGED <<config, registered, claims, subs, history>>
      /\ call' = [call EXCEPT ![s] = Idle]
  BY DEF Cancel
<1>2. /\ link[s] # "none" /\ link'[s] # "none"
      /\ link' \in [Sessions -> {"none", "open", "closing", "gone"}]
      /\ \A t \in Sessions \ {s} : link'[t] = link[t]
  BY <1>1 DEF IInv, Shape
<1> QED BY <1>1, <1>2, IdleKeeps

-----------------------------------------------------------------------------
(* The transport's side.                                                   *)
LEMMA LinkFrame ==
    ASSUME IInv, NEW s \in Sessions, UNCHANGED <<config, claims, subs, history, call>>,
           link' \in [Sessions -> {"none", "open", "closing", "gone"}],
           \A t \in Sessions \ {s} : link'[t] = link[t],
           link'[s] = link[s] \/ link'[s] # "none", registered' \subseteq Sessions
    PROVE  IInv'
<1>1. CallOK(s, call[s]) /\ call' = [call EXCEPT ![s] = call[s]]
  BY DEF IInv, Shape
<1>2. ClaimsKnown(s)' /\ GatesPassed(s)'
  BY DEF IInv, ClaimsKnown, GatesPassed, Allowed, Channel
<1> QED BY <1>1, <1>2, HandlerFrame

LEMMA KickKeeps == ASSUME IInv, NEW s \in Sessions, Kick(s) PROVE IInv'
<1>1. /\ UNCHANGED <<config, claims, subs, history, call>> /\ link' = link
      /\ registered' \subseteq Sessions
  BY DEF Kick, IInv, Shape
<1>2. link' \in [Sessions -> {"none", "open", "closing", "gone"}]
  BY <1>1 DEF IInv, Shape
<1> QED BY <1>1, <1>2, LinkFrame

LEMMA CloseKeeps == ASSUME IInv, NEW s \in Sessions, Close(s) PROVE IInv'
<1>1. /\ UNCHANGED <<config, claims, subs, history>> /\ link[s] # "none"
      /\ link' = [link EXCEPT ![s] = "gone"]
      /\ registered' \subseteq Sessions
      /\ call' = [call EXCEPT ![s] = Idle]
  BY DEF Close, IInv, Shape
<1>2. /\ link' \in [Sessions -> {"none", "open", "closing", "gone"}]
      /\ link'[s] # "none" /\ \A t \in Sessions \ {s} : link'[t] = link[t]
  BY <1>1 DEF IInv, Shape
<1>3. CallOK(s, Idle) /\ Idle.pc \in {"idle", "replied"}
  BY IdleOK
<1> QED BY <1>1, <1>2, <1>3, HandlerEnds

\* A session is opened once, before it has subscriptions or a handler.
LEMMA OpenSessionKeeps == ASSUME IInv, NEW s \in Sessions, OpenSession(s) PROVE IInv'
<1> DEFINE seed == IF config.auth.allow_anonymous THEN anonymous ELSE NoClaims
<1>1. /\ link[s] = "none" /\ link' = [link EXCEPT ![s] = "open"]
      /\ registered' = registered \union {s}
      /\ claims' = [claims EXCEPT ![s] = seed]
      /\ UNCHANGED <<config, subs, history, call>>
  BY DEF OpenSession
<1>2. seed \in Claims
  BY DEF anonymous, Claims, Subjects
<1>3. subs[s] = {} /\ call[s].pc = "idle"
  BY <1>1 DEF IInv, ClaimsKnown
<1>4. config.auth.allow_anonymous => seed = anonymous
  OBVIOUS
<1> HIDE DEF seed
<1>5. /\ claims' \in [Sessions -> Claims] /\ claims'[s] = seed
      /\ \A t \in Sessions \ {s} : claims'[t] = claims[t]
  BY <1>1, <1>2 DEF IInv, Shape
<1>6. /\ link' \in [Sessions -> {"none", "open", "closing", "gone"}] /\ link'[s] = "open"
      /\ \A t \in Sessions \ {s} : link'[t] = link[t]
  BY <1>1 DEF IInv, Shape
<1>7. Shape'
  BY <1>1, <1>5, <1>6 DEF IInv, Shape, CallOK
<1>8. \A t \in Sessions \ {s} : SameFor(t)
  BY <1>1, <1>5, <1>6 DEF SameFor
<1>9. ClaimsKnown(s)'
  BY <1>1, <1>3, <1>4, <1>5, <1>6 DEF ClaimsKnown
<1>10. GatesPassed(s)' /\ SubsAuthorized(s)'
  BY <1>1, <1>3 DEF GatesPassed, SubsAuthorized
<1>11. NothingBypassesTheGates'
  BY <1>1 DEF IInv, NothingBypassesTheGates, Accepts
<1> QED BY <1>1, <1>7, <1>8, <1>9, <1>10, <1>11, SessionFrame

\* The handler starts with the frame the client sent.
LEMMA ReceiveKeeps == ASSUME IInv, NEW s \in Sessions, NEW f \in Requests[s], Receive(s, f) PROVE IInv'
<1> DEFINE r == [Idle EXCEPT !.pc = "begin", !.sent = f, !.frame = f]
<1>1. link[s] = "open" /\ UNCHANGED <<config, link, registered, claims, subs, history>>
  BY DEF Receive, AtSelect
<1>2. call' = [call EXCEPT ![s] = r]
  BY ClientRoundTrip DEF Receive
<1>3. CallOK(s, r) /\ r.pc = "begin"
  BY IdleOK DEF Idle, CallOK, CallFields, Pcs
<1> HIDE DEF r
<1>4. call'[s] = r
  BY <1>2 DEF IInv, Shape
<1>5. ClaimsKnown(s)' /\ GatesPassed(s)'
  BY <1>1, <1>3, <1>4 DEF IInv, ClaimsKnown, GatesPassed
<1>6. /\ link' \in [Sessions -> {"none", "open", "closing", "gone"}]
      /\ \A t \in Sessions \ {s} : link'[t] = link[t]
      /\ registered' \subseteq Sessions
  BY <1>1 DEF IInv, Shape
<1> QED BY <1>1, <1>2, <1>3, <1>5, <1>6, HandlerFrame

LEMMA ReceiveUndecodableKeeps ==
    ASSUME IInv, NEW s \in Sessions, NEW b, ReceiveUndecodable(s, b)
    PROVE  IInv'
<1>1. /\ link[s] = "open" /\ link' = [link EXCEPT ![s] = "closing"]
      /\ UNCHANGED <<config, registered, claims, subs, history>>
  BY DEF ReceiveUndecodable, AtSelect
<1>2. PICK body : AnswerTo(s, Idle, "Error", body)
  BY DEF ReceiveUndecodable
<1>3. /\ link' \in [Sessions -> {"none", "open", "closing", "gone"}] /\ link'[s] # "none"
      /\ \A t \in Sessions \ {s} : link'[t] = link[t]
      /\ registered' \subseteq Sessions
  BY <1>1 DEF IInv, Shape
<1>4. PICK r : CallOK(s, r) /\ r.pc \in {"idle", "replied"} /\ call' = [call EXCEPT ![s] = r]
  BY <1>2, IdleOK, AnswerToIs DEF IInv
<1> QED BY <1>1, <1>3, <1>4, HandlerEnds

-----------------------------------------------------------------------------
LEMMA InitIInv == Init => IInv
<1> SUFFICES ASSUME Init PROVE IInv
  OBVIOUS
<1>1. \A s \in Sessions : CallOK(s, call[s]) /\ call[s] = Idle /\ call[s].pc = "idle"
  BY IdleOK DEF Init
<1>2. Shape
  BY <1>1, SMT DEF Init, Shape, Claims
<1>3. \A s \in Sessions : ClaimsKnown(s)
  BY <1>1 DEF Init, ClaimsKnown
<1>4. \A s \in Sessions : GatesPassed(s)
  BY <1>1 DEF GatesPassed
<1>5. SubscriptionsAuthorized /\ NothingBypassesTheGates
  BY SMT DEF Init, SubscriptionsAuthorized, NothingBypassesTheGates
<1> QED BY <1>2, <1>3, <1>4, <1>5 DEF IInv

LEMMA NextIInv == IInv /\ [Next]_vars => IInv'
<1> SUFFICES ASSUME IInv, [Next]_vars PROVE IInv'
  OBVIOUS
<1>1. CASE UNCHANGED vars
  BY <1>1 DEF vars, IInv, Shape, CallOK, ClaimsKnown, GatesPassed, Allowed, Channel,
              SubscriptionsAuthorized, NothingBypassesTheGates, Accepts
<1>2. ASSUME NEW s \in Sessions, Handle(s) PROVE IInv'
  BY <1>2, HandleConnectKeeps, AuthenticateKeeps, RequireClaimsKeeps, AclSubscribeKeeps,
     OnSubscribeKeeps, BrokerSubscribeKeeps, UnwindKeeps, InsertKeeps, HandleUnsubscribeKeeps,
     OnUnsubscribeKeeps, AclPublishKeeps, ValidateKeeps, OnPublishKeeps, BrokerPublishKeeps DEF Handle
<1>3. ASSUME NEW s \in Sessions, SessionStep(s) PROVE IInv'
  BY <1>2, <1>3, OpenSessionKeeps, KickKeeps, CloseKeeps, CancelKeeps, ReceiveKeeps,
     ReceiveUndecodableKeeps DEF SessionStep
<1> QED BY <1>1, <1>3 DEF Next, AllGone

LEMMA SpecIInv == Spec => []IInv
BY InitIInv, NextIInv, PTL DEF Spec

(* A handler only ever works on the frame its client sent: no field is     *)
(* lost or invented between encode_client and decode_client, whatever the  *)
(* values (frame.rs).                                                      *)
THEOREM WireTheorem == Spec => []FramesSurviveTheWire
<1>1. IInv => FramesSurviveTheWire
  BY DEF IInv, Shape, CallOK, FramesSurviveTheWire
<1> QED BY <1>1, SpecIInv, PTL

(* Every subscription is one the ACL allows for the claims the session     *)
(* holds now, for any ACL, any number of sessions and any interleaving of  *)
(* their handlers with kicks and cancellation (hub.rs handle_connect,      *)
(* require_claims, handle_subscribe).                                      *)
THEOREM AuthorizedTheorem == Spec => []SubscriptionsAuthorized
<1>1. IInv => SubscriptionsAuthorized
  BY DEF IInv
<1> QED BY <1>1, SpecIInv, PTL

(* Nothing is in a channel's history that the publisher's claims, the      *)
(* namespace's schema or the channel kind would have refused (hub.rs       *)
(* handle_publish).                                                        *)
THEOREM GatesTheorem == Spec => []NothingBypassesTheGates
<1>1. IInv => NothingBypassesTheGates
  BY DEF IInv
<1> QED BY <1>1, SpecIInv, PTL

-----------------------------------------------------------------------------
(* The answers.  An answer is built at one point of a handler and queued   *)
(* for the client; in between other sessions run, and a kick may come.     *)
(* What it says is true when it is queued because only handlers of the     *)
(* session change the session's claims and subscriptions.                  *)

(* The client decodes what the transport encoded, field by field.          *)
LEMMA ServerRoundTrip ==
    ASSUME NEW kind \in {"SubscribeOk", "UnsubscribeOk", "Error", "ConnectOk"}, NEW body,
           body = [n \in FieldsOf(ServerLayout[kind]) |-> body[n]]
    PROVE  decode_server(encode_server([kind |-> kind, body |-> body])) = [kind |-> kind, body |-> body]
<1> DEFINE f == [kind |-> kind, body |-> body]
           tag == NumberOf(ServerTags, kind)
           msg == ToProto(ServerLayout[kind], body)
<1>1. kind \in FieldsOf(ServerTags)
  <2>1. DOMAIN ServerTags = 1..5
    BY SMT DEF ServerTags
  <2>2. /\ ServerTags[1] = "SubscribeOk" /\ ServerTags[2] = "UnsubscribeOk"
        /\ ServerTags[4] = "Error" /\ ServerTags[5] = "ConnectOk"
    BY DEF ServerTags
  <2> QED BY <2>1, <2>2, SMT DEF FieldsOf
<1>2. tag \in DOMAIN ServerTags /\ ServerTags[tag] = kind
  BY <1>1, NumberOfFinds
<1>3. FromProto(ServerLayout[kind], msg) = body
  BY BodyRoundTrip
<1>4. encode_server(f) = [wellformed |-> TRUE, tag |-> tag, msg |-> msg]
  BY DEF encode_server, Envelope
<1> HIDE DEF tag, msg
<1>5. decode_server(encode_server(f)) =
        [kind |-> ServerTags[tag], body |-> FromProto(ServerLayout[ServerTags[tag]], msg)]
  BY <1>2, <1>4, SMT DEF decode_server
<1> QED BY <1>2, <1>3, <1>5

(* The four answers have the fields of their layouts.                      *)
LEMMA ErrorTrip ==
    ASSUME NEW x, NEW y, NEW z
    PROVE  LET body == [request_id |-> x, code |-> y, message |-> z]
           IN  decode_server(encode_server([kind |-> "Error", body |-> body])) = [kind |-> "Error", body |-> body]
<1> DEFINE body == [request_id |-> x, code |-> y, message |-> z]
<1>1. ServerLayout["Error"] = <<"request_id", "code", "message">>
  BY DEF ServerLayout
<1>2. FieldsOf(ServerLayout["Error"]) = {"request_id", "code", "message"}
  BY <1>1, SMT DEF FieldsOf
<1>3. body = [n \in FieldsOf(ServerLayout["Error"]) |-> body[n]]
  BY <1>2
<1> HIDE DEF body
<1>4. decode_server(encode_server([kind |-> "Error", body |-> body])) = [kind |-> "Error", body |-> body]
  BY <1>3, ServerRoundTrip
<1> QED BY <1>4 DEF body

LEMMA ConnectOkTrip ==
    ASSUME NEW x, NEW y, NEW z
    PROVE  LET body == [request_id |-> x, subject |-> y, expires_at |-> z]
           IN  decode_server(encode_server([kind |-> "ConnectOk", body |-> body])) = [kind |-> "ConnectOk", body |-> body]
<1> DEFINE body == [request_id |-> x, subject |-> y, expires_at |-> z]
<1>1. ServerLayout["ConnectOk"] = <<"request_id", "subject", "expires_at">>
  BY DEF ServerLayout
<1>2. FieldsOf(ServerLayout["ConnectOk"]) = {"request_id", "subject", "expires_at"}
  BY <1>1, SMT DEF FieldsOf
<1>3. body = [n \in FieldsOf(ServerLayout["ConnectOk"]) |-> body[n]]
  BY <1>2
<1> HIDE DEF body
<1>4. decode_server(encode_server([kind |-> "ConnectOk", body |-> body])) = [kind |-> "ConnectOk", body |-> body]
  BY <1>3, ServerRoundTrip
<1> QED BY <1>4 DEF body

LEMMA SubscribeOkTrip ==
    ASSUME NEW x, NEW y, NEW z, NEW w
    PROVE  LET body == [request_id |-> x, channel |-> y, epoch |-> z, offset |-> w]
           IN  decode_server(encode_server([kind |-> "SubscribeOk", body |-> body])) = [kind |-> "SubscribeOk", body |-> body]
<1> DEFINE body == [request_id |-> x, channel |-> y, epoch |-> z, offset |-> w]
<1>1. ServerLayout["SubscribeOk"] = <<"request_id", "channel", "epoch", "offset">>
  BY DEF ServerLayout
<1>2. FieldsOf(ServerLayout["SubscribeOk"]) = {"request_id", "channel", "epoch", "offset"}
  BY <1>1, SMT DEF FieldsOf
<1>3. body = [n \in FieldsOf(ServerLayout["SubscribeOk"]) |-> body[n]]
  BY <1>2
<1> HIDE DEF body
<1>4. decode_server(encode_server([kind |-> "SubscribeOk", body |-> body])) = [kind |-> "SubscribeOk", body |-> body]
  BY <1>3, ServerRoundTrip
<1> QED BY <1>4 DEF body

LEMMA UnsubscribeOkTrip ==
    ASSUME NEW x, NEW y
    PROVE  LET body == [request_id |-> x, channel |-> y]
           IN  decode_server(encode_server([kind |-> "UnsubscribeOk", body |-> body])) = [kind |-> "UnsubscribeOk", body |-> body]
<1> DEFINE body == [request_id |-> x, channel |-> y]
<1>1. ServerLayout["UnsubscribeOk"] = <<"request_id", "channel">>
  BY DEF ServerLayout
<1>2. FieldsOf(ServerLayout["UnsubscribeOk"]) = {"request_id", "channel"}
  BY <1>1, SMT DEF FieldsOf
<1>3. body = [n \in FieldsOf(ServerLayout["UnsubscribeOk"]) |-> body[n]]
  BY <1>2
<1> HIDE DEF body
<1>4. decode_server(encode_server([kind |-> "UnsubscribeOk", body |-> body])) = [kind |-> "UnsubscribeOk", body |-> body]
  BY <1>3, ServerRoundTrip
<1> QED BY <1>4 DEF body

(* What AnswerFits says of one session, as a predicate of its              *)
(* decoded answer a, its request q and its state.                          *)
TrueOf(a, q, cl, offset) ==
    /\ a.kind \in {"ConnectOk", "SubscribeOk", "UnsubscribeOk", "Error"}
    /\ q.kind = "DecodeError" => a.body.request_id = 0 /\ a.body.code = ErrorCode.InvalidFrame
    /\ q.kind # "DecodeError" => a.body.request_id = q.body.request_id
    /\ a.kind = "ConnectOk" =>
         q.kind = "Connect" /\ cl = [subject |-> a.body.subject, expires_at |-> a.body.expires_at]
    /\ a.kind = "SubscribeOk" => q.kind = "Subscribe" /\ a.body.channel = q.body.channel
    /\ a.kind = "UnsubscribeOk" => q.kind = "Unsubscribe" /\ a.body.channel = q.body.channel
    /\ a.kind = "Error" /\ q.kind = "Publish" /\ a.body.code # ErrorCode.Internal => offset = None

(* What a handler's record r has established on the way to its answer.     *)
OnItsWay(r, cl, sb) ==
    /\ r.pc = "idle" => r = Idle
    /\ r.pc \in {"begin", "acl", "validate", "on_publish"} => r.offset = None
    /\ r.pc = "on_unsubscribe" => r.frame.body.channel \notin sb
    /\ r.pc = "replied" => TrueOf(decode_server(r.out), r.sent, cl, r.offset)

AnswersInv == \A s \in Sessions : OnItsWay(call[s], claims[s], subs[s])

LEMMA AnswersFrame ==
    ASSUME AnswersInv, NEW s \in Sessions,
           \A t \in Sessions \ {s} : call'[t] = call[t] /\ claims'[t] = claims[t] /\ subs'[t] = subs[t],
           OnItsWay(call'[s], claims'[s], subs'[s])
    PROVE  AnswersInv'
<1>1. ASSUME NEW t \in Sessions PROVE OnItsWay(call'[t], claims'[t], subs'[t])
  <2>1. CASE t = s
    BY <2>1
  <2>2. CASE t # s
    BY <2>2 DEF AnswersInv
  <2> QED BY <2>1, <2>2
<1> QED BY <1>1 DEF AnswersInv, OnItsWay, TrueOf

\* Only the handler of s moved.
LEMMA HandlerAnswers ==
    ASSUME Shape, AnswersInv, NEW s \in Sessions, NEW r, call' = [call EXCEPT ![s] = r],
           claims' = claims, subs' = subs, OnItsWay(r, claims[s], subs[s])
    PROVE  AnswersInv'
<1>1. call'[s] = r /\ \A t \in Sessions \ {s} : call'[t] = call[t]
  BY DEF Shape
<1> QED BY <1>1, AnswersFrame

LEMMA IdleOnItsWay == ASSUME NEW cl, NEW sb PROVE OnItsWay(Idle, cl, sb)
BY DEF OnItsWay, Idle

\* An answer that is true when it is given.
LEMMA AnswerOnItsWay ==
    ASSUME Shape, NEW s \in Sessions, NEW kind, NEW body, Answer(s, kind, body), NEW cl, NEW sb,
           TrueOf(decode_server(encode_server([kind |-> kind, body |-> body])),
                  call[s].sent, cl, call[s].offset)
    PROVE  OnItsWay(call'[s], cl, sb) /\ \A t \in Sessions \ {s} : call'[t] = call[t]
<1> DEFINE out == encode_server([kind |-> kind, body |-> body])
           r == [call[s] EXCEPT !.pc = "replied", !.out = out]
<1>1. call' = [call EXCEPT ![s] = IF s \in registered THEN r ELSE Idle]
  BY DEF Answer, AnswerTo, Shape
<1>2. TrueOf(decode_server(out), call[s].sent, cl, call[s].offset)
  OBVIOUS
<1> HIDE DEF out
<1>3. r.pc = "replied" /\ r.out = out /\ r.sent = call[s].sent /\ r.offset = call[s].offset
  BY DEF Shape, CallOK, CallFields
<1> HIDE DEF r
<1>4. OnItsWay(r, cl, sb)
  BY <1>2, <1>3 DEF OnItsWay
<1>5. call'[s] \in {r, Idle} /\ \A t \in Sessions \ {s} : call'[t] = call[t]
  BY <1>1 DEF Shape
<1> QED BY <1>4, <1>5, IdleOnItsWay

\* A refusal names its request; one that is not internal left no publication.
LEMMA FailAnswers ==
    ASSUME Shape, AnswersInv, NEW s \in Sessions, NEW err, Fail(s, err),
           claims' = claims, subs' = subs, call[s].frame.kind # "DecodeError",
           call[s].frame.kind = "Publish" => error_code_for(err) = ErrorCode.Internal \/ call[s].offset = None
    PROVE  AnswersInv'
<1> DEFINE id == call[s].frame.body.request_id
           code == error_code_for(err)
           body == [request_id |-> id, code |-> code, message |-> err]
           a == decode_server(encode_server([kind |-> "Error", body |-> body]))
<1>1. Answer(s, "Error", body)
  BY DEF Fail
<1>2. call[s].sent = call[s].frame
  BY DEF Shape, CallOK
<1> HIDE DEF id, code
<1>3. a = [kind |-> "Error", body |-> body]
  BY ErrorTrip
<1>4. a.kind = "Error" /\ a.body.request_id = id /\ a.body.code = code
  BY <1>3, SMT
<1> HIDE DEF a
<1>5. TrueOf(a, call[s].sent, claims[s], call[s].offset)
  BY <1>2, <1>4, SMT DEF TrueOf, id, code
<1> HIDE DEF body
<1>6. OnItsWay(call'[s], claims[s], subs[s]) /\ \A t \in Sessions \ {s} : call'[t] = call[t]
  BY <1>1, <1>5, AnswerOnItsWay DEF a
<1> QED BY <1>6, AnswersFrame

\* A handler that goes on has nothing to show yet, except what the next
\* program point relies on.
LEMMA GotoAnswers ==
    ASSUME Shape, AnswersInv, NEW s \in Sessions, NEW label \in Pcs \ {"idle", "replied", "on_unsubscribe"},
           Goto(s, label), claims' = claims, subs' = subs,
           label \in {"begin", "acl", "validate", "on_publish"} => call[s].offset = None
    PROVE  AnswersInv'
<1> DEFINE r == [call[s] EXCEPT !.pc = label]
<1>1. call' = [call EXCEPT ![s] = r]
  BY DEF Goto, Shape
<1>2. r.pc = label /\ r.offset = call[s].offset
  BY DEF Shape, CallOK, CallFields
<1> HIDE DEF r
<1>3. OnItsWay(r, claims[s], subs[s])
  BY <1>2 DEF OnItsWay
<1> QED BY <1>1, <1>3, HandlerAnswers

LEMMA GiveUpAnswers ==
    ASSUME Shape, AnswersInv, NEW s \in Sessions, NEW err, GiveUp(s, err), claims' = claims, subs' = subs
    PROVE  AnswersInv'
<1> DEFINE r == [call[s] EXCEPT !.pc = "unwind", !.error = err]
<1>1. call' = [call EXCEPT ![s] = r] /\ r.pc = "unwind"
  BY DEF GiveUp, Shape, CallOK, CallFields
<1> HIDE DEF r
<1>2. OnItsWay(r, claims[s], subs[s])
  BY <1>1 DEF OnItsWay
<1> QED BY <1>1, <1>2, HandlerAnswers

LEMMA IdleAnswers ==
    ASSUME Shape, AnswersInv, NEW s \in Sessions, call' = [call EXCEPT ![s] = Idle],
           claims' = claims, subs' = subs
    PROVE  AnswersInv'
BY IdleOnItsWay, HandlerAnswers

\* Every error but four is reported as Internal.
LEMMA InternalErrors ==
    \A err \in {"SessionGone", "Channel", "Broker", "AlreadyConnected", "AlreadySubscribed", "NotSubscribed"} :
      error_code_for(err) = ErrorCode.Internal
BY DEF error_code_for

-----------------------------------------------------------------------------
LEMMA ConnectAnswers ==
    ASSUME Shape, AnswersInv, NEW s \in Sessions, HandleConnect(s) \/ Authenticate(s)
    PROVE  AnswersInv'
<1> DEFINE f == call[s].frame
           got == authenticate(config.auth, Tokens[f.body.token])
<1>1. f.kind = "Connect" /\ subs' = subs
  BY DEF HandleConnect, Authenticate, At
<1>2. CASE (\E err : Fail(s, err)) /\ claims' = claims
  BY <1>1, <1>2, FailAnswers
<1>3. CASE Goto(s, "authenticate") /\ claims' = claims
  BY <1>1, <1>3, GotoAnswers DEF Pcs
<1>4. CASE /\ Authenticate(s) /\ got # NoClaims
           /\ claims' = [claims EXCEPT ![s] = got]
           /\ Answer(s, "ConnectOk", [request_id |-> f.body.request_id,
                                      subject |-> got.subject, expires_at |-> got.expires_at])
  <2> DEFINE id == f.body.request_id
             who == got.subject
             exp == got.expires_at
             body == [request_id |-> id, subject |-> who, expires_at |-> exp]
             a == decode_server(encode_server([kind |-> "ConnectOk", body |-> body]))
  <2>1. got = [subject |-> who, expires_at |-> exp]
    BY <1>4 DEF authenticate, anonymous
  <2>2. call[s].sent = f
    BY DEF Shape, CallOK
  <2>3. Answer(s, "ConnectOk", body)
    BY <1>4
  <2>4. claims'[s] = got /\ \A t \in Sessions \ {s} : claims'[t] = claims[t]
    BY <1>4 DEF Shape
  <2> HIDE DEF id, who, exp, got
  <2>5. a = [kind |-> "ConnectOk", body |-> body]
    BY ConnectOkTrip
  <2>6. a.kind = "ConnectOk" /\ a.body.request_id = id /\ a.body.subject = who /\ a.body.expires_at = exp
    BY <2>5, SMT
  <2> HIDE DEF a
  <2>7. TrueOf(a, call[s].sent, claims'[s], call[s].offset)
    BY <1>1, <2>1, <2>2, <2>4, <2>6 DEF TrueOf, id
  <2> HIDE DEF body
  <2>8. OnItsWay(call'[s], claims'[s], subs[s]) /\ \A t \in Sessions \ {s} : call'[t] = call[t]
    BY <2>3, <2>7, AnswerOnItsWay DEF a
  <2> QED BY <1>1, <2>4, <2>8, AnswersFrame
<1> QED BY <1>2, <1>3, <1>4 DEF HandleConnect, Authenticate

LEMMA RequireClaimsAnswers ==
    ASSUME Shape, AnswersInv, NEW s \in Sessions, RequireClaims(s)
    PROVE  AnswersInv'
<1> DEFINE held == IF claims[s] = NoClaims /\ config.auth.allow_anonymous THEN anonymous ELSE claims[s]
<1>1. call[s].pc = "begin" /\ call[s].frame.kind \in {"Subscribe", "Publish"} /\ subs' = subs
  BY DEF RequireClaims, At
<1>2. call[s].offset = None
  BY <1>1 DEF AnswersInv, OnItsWay
<1>3. CASE (\E err : Fail(s, err)) /\ claims' = claims
  BY <1>1, <1>2, <1>3, FailAnswers
<1>4. CASE /\ claims' = [claims EXCEPT ![s] = held]
           /\ call' = [call EXCEPT ![s].pc = "acl", ![s].claims = held]
  <2> HIDE DEF held
  <2> DEFINE r == [call[s] EXCEPT !.pc = "acl", !.claims = held]
  <2>1. call'[s] = r /\ \A t \in Sessions \ {s} : call'[t] = call[t] /\ claims'[t] = claims[t]
    BY <1>4 DEF Shape
  <2>2. r.pc = "acl" /\ r.offset = None
    BY <1>2 DEF Shape, CallOK, CallFields
  <2> HIDE DEF r
  <2>3. OnItsWay(call'[s], claims'[s], subs[s])
    BY <2>1, <2>2 DEF OnItsWay
  <2> QED BY <1>1, <2>1, <2>3, AnswersFrame
<1> QED BY <1>3, <1>4 DEF RequireClaims

LEMMA SubscribeAnswers ==
    ASSUME Shape, AnswersInv, NEW s \in Sessions, AclSubscribe(s) \/ OnSubscribe(s) \/ BrokerSubscribe(s) \/ Unwind(s)
    PROVE  AnswersInv'
<1>1. call[s].frame.kind = "Subscribe" /\ subs' = subs /\ claims' = claims
  BY DEF AclSubscribe, OnSubscribe, BrokerSubscribe, Unwind, At
<1>2. CASE \E err : Fail(s, err)
  BY <1>1, <1>2, FailAnswers
<1>3. CASE Goto(s, "on_subscribe") \/ Goto(s, "insert")
  BY <1>1, <1>3, GotoAnswers DEF Pcs
<1>4. CASE \E o : call' = [call EXCEPT ![s].pc = "broker_subscribe", ![s].offset = o]
  <2>1. PICK o : call' = [call EXCEPT ![s].pc = "broker_subscribe", ![s].offset = o]
    BY <1>4
  <2> DEFINE r == [call[s] EXCEPT !.pc = "broker_subscribe", !.offset = o]
  <2>2. call' = [call EXCEPT ![s] = r] /\ r.pc = "broker_subscribe"
    BY <2>1 DEF Shape, CallOK, CallFields
  <2> HIDE DEF r
  <2>3. OnItsWay(r, claims[s], subs[s])
    BY <2>2 DEF OnItsWay
  <2> QED BY <1>1, <2>2, <2>3, HandlerAnswers
<1>5. CASE \E err : GiveUp(s, err)
  BY <1>1, <1>5, GiveUpAnswers
<1> QED BY <1>2, <1>3, <1>4, <1>5 DEF AclSubscribe, OnSubscribe, BrokerSubscribe, Unwind

\* A SubscribeOk is given with the subscription.
LEMMA InsertAnswers ==
    ASSUME Shape, AnswersInv, NEW s \in Sessions, Insert(s)
    PROVE  AnswersInv'
<1> DEFINE f == call[s].frame
           c == Channel(s)
           id == f.body.request_id
           offset == call[s].offset
           body == [request_id |-> id, channel |-> c, epoch |-> 1, offset |-> offset]
           a == decode_server(encode_server([kind |-> "SubscribeOk", body |-> body]))
<1>1. f.kind = "Subscribe" /\ claims' = claims /\ c = f.body.channel
  BY DEF Insert, At, Channel
<1>2. CASE c \in subs[s]
  <2>1. GiveUp(s, "AlreadySubscribed") /\ subs' = subs
    BY <1>2 DEF Insert
  <2> QED BY <1>1, <2>1, GiveUpAnswers
<1>3. CASE c \notin subs[s]
  <2>1. Answer(s, "SubscribeOk", body) /\ subs' = [subs EXCEPT ![s] = @ \union {c}]
    BY <1>3 DEF Insert
  <2>2. call[s].sent = f
    BY DEF Shape, CallOK
  <2>3. c \in subs'[s] /\ \A t \in Sessions \ {s} : subs'[t] = subs[t]
    BY <2>1 DEF Shape
  <2> HIDE DEF c, id, offset
  <2>4. a = [kind |-> "SubscribeOk", body |-> body]
    BY SubscribeOkTrip
  <2>5. a.kind = "SubscribeOk" /\ a.body.request_id = id /\ a.body.channel = c
    BY <2>4, SMT
  <2> HIDE DEF a
  <2>6. TrueOf(a, call[s].sent, claims[s], call[s].offset)
    BY <1>1, <2>2, <2>3, <2>5 DEF TrueOf, id
  <2> HIDE DEF body
  <2>7. OnItsWay(call'[s], claims[s], subs'[s]) /\ \A t \in Sessions \ {s} : call'[t] = call[t]
    BY <2>1, <2>6, AnswerOnItsWay DEF a
  <2> QED BY <1>1, <2>3, <2>7, AnswersFrame
<1> QED BY <1>2, <1>3

\* An UnsubscribeOk is given after the subscription went away; in between
\* the kind's hook is awaited, and only this session could subscribe again.
LEMMA UnsubscribeAnswers ==
    ASSUME Shape, AnswersInv, NEW s \in Sessions, HandleUnsubscribe(s)
    PROVE  AnswersInv'
<1> DEFINE c == Channel(s)
<1>1. call[s].frame.kind = "Unsubscribe" /\ claims' = claims /\ c = call[s].frame.body.channel
  BY DEF HandleUnsubscribe, At, Channel
<1>2. CASE (\E err : Fail(s, err)) /\ subs' = subs
  BY <1>1, <1>2, FailAnswers
<1>3. CASE subs' = [subs EXCEPT ![s] = @ \ {c}] /\ Goto(s, "on_unsubscribe")
  <2> DEFINE r == [call[s] EXCEPT !.pc = "on_unsubscribe"]
  <2>1. call'[s] = r /\ \A t \in Sessions \ {s} : call'[t] = call[t]
    BY <1>3 DEF Goto, Shape
  <2>2. r.pc = "on_unsubscribe" /\ r.frame = call[s].frame
    BY DEF Shape, CallOK, CallFields
  <2>3. c \notin subs'[s] /\ \A t \in Sessions \ {s} : subs'[t] = subs[t]
    BY <1>3 DEF Shape
  <2> HIDE DEF r, c
  <2>4. OnItsWay(call'[s], claims'[s], subs'[s])
    BY <1>1, <2>1, <2>2, <2>3 DEF OnItsWay
  <2> QED BY <1>1, <2>1, <2>3, <2>4, AnswersFrame
<1> QED BY <1>2, <1>3 DEF HandleUnsubscribe

LEMMA OnUnsubscribeAnswers ==
    ASSUME Shape, AnswersInv, NEW s \in Sessions, OnUnsubscribe(s)
    PROVE  AnswersInv'
<1> DEFINE f == call[s].frame
           c == Channel(s)
           id == f.body.request_id
           body == [request_id |-> id, channel |-> c]
           a == decode_server(encode_server([kind |-> "UnsubscribeOk", body |-> body]))
<1>1. /\ call[s].pc = "on_unsubscribe" /\ f.kind = "Unsubscribe" /\ c = f.body.channel
      /\ claims' = claims /\ subs' = subs /\ Answer(s, "UnsubscribeOk", body)
  BY DEF OnUnsubscribe, At, Channel
<1>2. call[s].sent = f
  BY DEF Shape, CallOK
<1>3. c \notin subs[s]
  BY <1>1 DEF AnswersInv, OnItsWay
<1> HIDE DEF c, id
<1>4. a = [kind |-> "UnsubscribeOk", body |-> body]
  BY UnsubscribeOkTrip
<1>5. a.kind = "UnsubscribeOk" /\ a.body.request_id = id /\ a.body.channel = c
  BY <1>4, SMT
<1> HIDE DEF a
<1>6. TrueOf(a, call[s].sent, claims[s], call[s].offset)
  BY <1>1, <1>2, <1>3, <1>5 DEF TrueOf, id
<1> HIDE DEF body
<1>7. OnItsWay(call'[s], claims[s], subs[s]) /\ \A t \in Sessions \ {s} : call'[t] = call[t]
  BY <1>1, <1>6, AnswerOnItsWay DEF a
<1> QED BY <1>1, <1>7, AnswersFrame

\* Up to on_publish no offset was assigned; a failure after it is Internal.
LEMMA PublishAnswers ==
    ASSUME Shape, AnswersInv, NEW s \in Sessions, AclPublish(s) \/ Validate(s) \/ OnPublish(s) \/ BrokerPublish(s)
    PROVE  AnswersInv'
<1>1. call[s].frame.kind = "Publish" /\ claims' = claims /\ subs' = subs
  BY DEF AclPublish, Validate, OnPublish, BrokerPublish, At
<1>2. CASE AclPublish(s) \/ Validate(s)
  <2>1. call[s].pc \in {"acl", "validate"}
    BY <1>2 DEF AclPublish, Validate, At
  <2>2. call[s].offset = None
    BY <2>1 DEF AnswersInv, OnItsWay
  <2>3. CASE \E err : Fail(s, err)
    BY <1>1, <2>2, <2>3, FailAnswers
  <2>4. CASE Goto(s, "validate") \/ Goto(s, "on_publish")
    BY <1>1, <2>2, <2>4, GotoAnswers DEF Pcs
  <2> QED BY <1>2, <2>3, <2>4 DEF AclPublish, Validate
<1>3. CASE Fail(s, "Channel") \/ Fail(s, "Broker")
  BY <1>1, <1>3, InternalErrors, FailAnswers
<1>4. CASE \E o : call' = [call EXCEPT ![s].pc = "broker_publish", ![s].offset = o]
  <2>1. PICK o : call' = [call EXCEPT ![s].pc = "broker_publish", ![s].offset = o]
    BY <1>4
  <2> DEFINE r == [call[s] EXCEPT !.pc = "broker_publish", !.offset = o]
  <2>2. call' = [call EXCEPT ![s] = r] /\ r.pc = "broker_publish"
    BY <2>1 DEF Shape, CallOK, CallFields
  <2> HIDE DEF r
  <2>3. OnItsWay(r, claims[s], subs[s])
    BY <2>2 DEF OnItsWay
  <2> QED BY <1>1, <2>2, <2>3, HandlerAnswers
<1>5. CASE call' = [call EXCEPT ![s] = Idle]
  BY <1>1, <1>5, IdleAnswers
<1> QED BY <1>2, <1>3, <1>4, <1>5 DEF OnPublish, BrokerPublish

LEMMA ReceiveAnswers ==
    ASSUME Shape, AnswersInv, NEW s \in Sessions, NEW f \in Requests[s], Receive(s, f)
    PROVE  AnswersInv'
<1> DEFINE g == decode_client(encode_client(f))
           r == [Idle EXCEPT !.pc = "begin", !.sent = f, !.frame = g]
<1> HIDE DEF g
<1>2. call' = [call EXCEPT ![s] = r] /\ claims' = claims /\ subs' = subs
  BY DEF Receive, g
<1>3. r.pc = "begin" /\ r.offset = None
  BY DEF Idle
<1> HIDE DEF r
<1>4. OnItsWay(r, claims[s], subs[s])
  BY <1>3 DEF OnItsWay
<1> QED BY <1>2, <1>4, HandlerAnswers

LEMMA UndecodableAnswers ==
    ASSUME Shape, AnswersInv, NEW s \in Sessions, NEW b, ReceiveUndecodable(s, b)
    PROVE  AnswersInv'
<1> DEFINE zero == 0
           code == ErrorCode.InvalidFrame
           text == "invalid frame"
           body == [request_id |-> zero, code |-> code, message |-> text]
           out == encode_server([kind |-> "Error", body |-> body])
           a == decode_server(out)
           r == [Idle EXCEPT !.pc = "replied", !.out = out]
<1>1. call' = [call EXCEPT ![s] = IF s \in registered THEN r ELSE Idle] /\ claims' = claims /\ subs' = subs
  BY DEF ReceiveUndecodable, AnswerTo
<1> HIDE DEF zero, code, text
<1>2. a = [kind |-> "Error", body |-> body]
  BY ErrorTrip
<1>3. a.kind = "Error" /\ a.body.request_id = zero /\ a.body.code = code
  BY <1>2, SMT
<1> HIDE DEF body, out
<1>4. r.pc = "replied" /\ r.out = out /\ r.sent = NoFrame
  BY DEF Idle
<1>5. NoFrame.kind = "DecodeError"
  BY SMT DEF NoFrame, DecodeError
<1> HIDE DEF r
<1>6. OnItsWay(r, claims[s], subs[s])
  BY <1>3, <1>4, <1>5 DEF OnItsWay, TrueOf, zero, code
<1> QED BY <1>1, <1>6, IdleOnItsWay, HandlerAnswers

\* A session that opens has no handler, so no answer speaks of its claims.
LEMMA OpenAnswers ==
    ASSUME IInv, AnswersInv, NEW s \in Sessions, OpenSession(s)
    PROVE  AnswersInv'
<1>1. call[s] = Idle
  BY DEF OpenSession, IInv, ClaimsKnown, AnswersInv, OnItsWay
<1>2. call' = call /\ subs' = subs /\ \A t \in Sessions \ {s} : claims'[t] = claims[t]
  BY DEF OpenSession, IInv, Shape
<1>3. OnItsWay(call'[s], claims'[s], subs'[s])
  BY <1>1, <1>2, IdleOnItsWay
<1> QED BY <1>2, <1>3, AnswersFrame

LEMMA NextAnswers == IInv /\ AnswersInv /\ [Next]_vars => AnswersInv'
<1> SUFFICES ASSUME IInv, AnswersInv, [Next]_vars PROVE AnswersInv'
  OBVIOUS
<1>1. Shape
  BY DEF IInv
<1>2. ASSUME call' = call, claims' = claims, subs' = subs PROVE AnswersInv'
  BY <1>2, ZenonT(30) DEF AnswersInv, OnItsWay, TrueOf
<1>3. ASSUME NEW s \in Sessions, Handle(s) PROVE AnswersInv'
  BY <1>1, <1>3, ConnectAnswers, RequireClaimsAnswers, SubscribeAnswers, InsertAnswers,
     UnsubscribeAnswers, OnUnsubscribeAnswers, PublishAnswers DEF Handle
<1>4. ASSUME NEW s \in Sessions, Kick(s) PROVE AnswersInv'
  BY <1>2, <1>4 DEF Kick
<1>5. ASSUME NEW s \in Sessions, Cancel(s) \/ Close(s) PROVE AnswersInv'
  BY <1>1, <1>5, IdleAnswers DEF Cancel, Close
<1>6. ASSUME NEW s \in Sessions, SessionStep(s) PROVE AnswersInv'
  BY <1>1, <1>3, <1>4, <1>5, <1>6, OpenAnswers, ReceiveAnswers, UndecodableAnswers DEF SessionStep
<1> QED BY <1>2, <1>6 DEF Next, AllGone, vars

-----------------------------------------------------------------------------
(* The answers, one after the other, tell the subscriptions.               *)

\* What the answers queued so far must add up to.
Known(sb, r) == sb \union (IF r.pc = "on_unsubscribe" THEN {r.frame.body.channel} ELSE {})

Live(s) == s \in registered /\ link[s] \in {"open", "closing"}

ToldOf(s) ==
    /\ link[s] = "none" => told[s] = {}
    /\ Live(s) => told[s] = Known(subs[s], call[s])

ToldInv ==
    /\ told \in [Sessions -> SUBSET Channels]
    /\ \A s \in Sessions : ToldOf(s)

LEMMA ToldFrame ==
    ASSUME ToldInv, NEW s \in Sessions, told' \in [Sessions -> SUBSET Channels], ToldOf(s)',
           \A t \in Sessions \ {s} : /\ told'[t] = told[t] /\ link'[t] = link[t]
                                     /\ subs'[t] = subs[t] /\ call'[t] = call[t]
                                     /\ t \in registered' <=> t \in registered
    PROVE  ToldInv'
<1>1. ASSUME NEW t \in Sessions PROVE ToldOf(t)'
  <2>1. CASE t = s
    BY <2>1
  <2>2. CASE t # s
    BY <2>2 DEF ToldInv, ToldOf, Live
  <2> QED BY <2>1, <2>2
<1> QED BY <1>1 DEF ToldInv

\* A step of the handler that neither makes nor ends a subscription.
LEMMA QuietTold ==
    ASSUME ToldInv, Shape, NEW s \in Sessions, NEW r, call' = [call EXCEPT ![s] = r],
           call[s].pc # "on_unsubscribe", r.pc # "on_unsubscribe",
           UNCHANGED <<told, subs, registered>>,
           link' = link \/ (link[s] = "open" /\ link' = [link EXCEPT ![s] = "closing"])
    PROVE  ToldInv'
<1>1. call'[s] = r /\ \A t \in Sessions \ {s} : call'[t] = call[t]
  BY DEF Shape
<1>2. /\ \A t \in Sessions \ {s} : link'[t] = link[t]
      /\ link'[s] = link[s] \/ (link[s] = "open" /\ link'[s] = "closing")
  BY DEF Shape
<1>3. Known(subs[s], call[s]) = subs[s] /\ Known(subs[s], r) = subs[s]
  BY DEF Known
<1>4. ToldOf(s)'
  BY <1>1, <1>2, <1>3 DEF ToldInv, ToldOf, Live
<1> QED BY <1>1, <1>2, <1>4, ToldFrame DEF ToldInv

LEMMA LearnNothing ==
    ASSUME NEW known, NEW a, a.kind \in {"Error", "ConnectOk"}
    PROVE  Learn(known, a) = known
BY DEF Learn

\* An error, or a ConnectOk, says nothing of subscriptions.
LEMMA AnswerLearnsNothing ==
    ASSUME ToldInv, NEW s \in Sessions, NEW q, NEW kind, NEW body, AnswerTo(s, q, kind, body),
           kind \in {"Error", "ConnectOk"},
           decode_server(encode_server([kind |-> kind, body |-> body])) = [kind |-> kind, body |-> body]
    PROVE  told' = told
<1> DEFINE a == decode_server(encode_server([kind |-> kind, body |-> body]))
<1>1. a.kind \in {"Error", "ConnectOk"}
  BY SMT
<1>2. told' = [told EXCEPT ![s] = IF s \in registered THEN Learn(told[s], a) ELSE told[s]]
  BY DEF AnswerTo, ToldInv
<1> HIDE DEF a
<1>3. Learn(told[s], a) = told[s]
  BY <1>1, LearnNothing, SMT
<1> QED BY <1>2, <1>3 DEF ToldInv

LEMMA FailTold ==
    ASSUME ToldInv, Shape, NEW s \in Sessions, NEW err, Fail(s, err),
           call[s].pc # "on_unsubscribe", UNCHANGED <<subs, registered, link>>
    PROVE  ToldInv'
<1> DEFINE id == call[s].frame.body.request_id
           code == error_code_for(err)
           body == [request_id |-> id, code |-> code, message |-> err]
<1>1. Answer(s, "Error", body)
  BY DEF Fail
<1> HIDE DEF id, code
<1>2. decode_server(encode_server([kind |-> "Error", body |-> body])) = [kind |-> "Error", body |-> body]
  BY ErrorTrip
<1> HIDE DEF body
<1>3. told' = told
  BY <1>1, <1>2, AnswerLearnsNothing DEF Answer
<1>4. PICK r : CallOK(s, r) /\ r.pc \in {"idle", "replied"} /\ call' = [call EXCEPT ![s] = r]
  BY <1>1, AnswerIs
<1> QED BY <1>3, <1>4, QuietTold

LEMMA GotoTold ==
    ASSUME ToldInv, Shape, NEW s \in Sessions, NEW label \in Pcs \ {"on_unsubscribe"}, Goto(s, label),
           call[s].pc # "on_unsubscribe", UNCHANGED <<subs, registered, link>>
    PROVE  ToldInv'
<1>1. PICK r : /\ CallOK(s, r) /\ call' = [call EXCEPT ![s] = r] /\ call'[s] = r
               /\ r.pc = label /\ r.claims = call[s].claims /\ r.frame = call[s].frame
  BY GotoIs
<1>2. told' = told
  BY DEF Goto
<1> QED BY <1>1, <1>2, QuietTold

LEMMA GiveUpTold ==
    ASSUME ToldInv, Shape, NEW s \in Sessions, NEW err, GiveUp(s, err),
           call[s].pc # "on_unsubscribe", UNCHANGED <<subs, registered, link>>
    PROVE  ToldInv'
<1> DEFINE r == [call[s] EXCEPT !.pc = "unwind", !.error = err]
<1>1. call' = [call EXCEPT ![s] = r] /\ r.pc = "unwind" /\ told' = told
  BY DEF GiveUp, Shape, CallOK, CallFields
<1> HIDE DEF r
<1> QED BY <1>1, QuietTold

\* A step that also keeps something in the handler's record.
LEMMA KeepTold ==
    ASSUME ToldInv, Shape, NEW s \in Sessions, NEW label \in Pcs \ {"on_unsubscribe"},
           NEW v, \/ call' = [call EXCEPT ![s].pc = label, ![s].claims = v]
                  \/ call' = [call EXCEPT ![s].pc = label, ![s].offset = v],
           call[s].pc # "on_unsubscribe", UNCHANGED <<subs, registered, link, told>>
    PROVE  ToldInv'
<1>1. CASE call' = [call EXCEPT ![s].pc = label, ![s].claims = v]
  <2> DEFINE r == [call[s] EXCEPT !.pc = label, !.claims = v]
  <2>1. call' = [call EXCEPT ![s] = r] /\ r.pc = label
    BY <1>1 DEF Shape, CallOK, CallFields
  <2> HIDE DEF r
  <2> QED BY <2>1, QuietTold
<1>2. CASE call' = [call EXCEPT ![s].pc = label, ![s].offset = v]
  <2> DEFINE r == [call[s] EXCEPT !.pc = label, !.offset = v]
  <2>1. call' = [call EXCEPT ![s] = r] /\ r.pc = label
    BY <1>2 DEF Shape, CallOK, CallFields
  <2> HIDE DEF r
  <2> QED BY <2>1, QuietTold
<1> QED BY <1>1, <1>2

-----------------------------------------------------------------------------
LEMMA ConnectTold ==
    ASSUME ToldInv, Shape, NEW s \in Sessions, HandleConnect(s) \/ Authenticate(s)
    PROVE  ToldInv'
<1> DEFINE f == call[s].frame
           got == authenticate(config.auth, Tokens[f.body.token])
<1>1. call[s].pc # "on_unsubscribe" /\ UNCHANGED <<subs, registered, link>>
  BY DEF HandleConnect, Authenticate, At
<1>2. CASE \E err : Fail(s, err)
  BY <1>1, <1>2, FailTold
<1>3. CASE Goto(s, "authenticate")
  BY <1>1, <1>3, GotoTold DEF Pcs
<1>4. CASE Answer(s, "ConnectOk", [request_id |-> f.body.request_id,
                                   subject |-> got.subject, expires_at |-> got.expires_at])
  <2> DEFINE id == f.body.request_id
             who == got.subject
             exp == got.expires_at
             body == [request_id |-> id, subject |-> who, expires_at |-> exp]
  <2>1. Answer(s, "ConnectOk", body)
    BY <1>4
  <2> HIDE DEF id, who, exp
  <2>2. decode_server(encode_server([kind |-> "ConnectOk", body |-> body])) = [kind |-> "ConnectOk", body |-> body]
    BY ConnectOkTrip
  <2> HIDE DEF body
  <2>3. told' = told
    BY <2>1, <2>2, AnswerLearnsNothing DEF Answer
  <2>4. PICK r : CallOK(s, r) /\ r.pc \in {"idle", "replied"} /\ call' = [call EXCEPT ![s] = r]
    BY <2>1, AnswerIs
  <2> QED BY <1>1, <2>3, <2>4, QuietTold
<1> QED BY <1>2, <1>3, <1>4 DEF HandleConnect, Authenticate

LEMMA RequestsTold ==
    ASSUME ToldInv, Shape, NEW s \in Sessions,
           \/ RequireClaims(s) \/ AclSubscribe(s) \/ OnSubscribe(s) \/ BrokerSubscribe(s) \/ Unwind(s)
           \/ AclPublish(s) \/ Validate(s) \/ OnPublish(s) \/ BrokerPublish(s)
    PROVE  ToldInv'
<1>1. call[s].pc # "on_unsubscribe" /\ UNCHANGED <<subs, registered, link>>
  BY DEF RequireClaims, AclSubscribe, OnSubscribe, BrokerSubscribe, Unwind, AclPublish, Validate,
         OnPublish, BrokerPublish, At
<1>2. ASSUME NEW err, Fail(s, err) PROVE ToldInv'
  BY <1>1, <1>2, FailTold
<1>3. ASSUME NEW err, GiveUp(s, err) PROVE ToldInv'
  BY <1>1, <1>3, GiveUpTold
<1>4. ASSUME NEW label \in {"on_subscribe", "insert", "validate", "on_publish"}, Goto(s, label) PROVE ToldInv'
  BY <1>1, <1>4, GotoTold DEF Pcs
<1>5. CASE RequireClaims(s)
  <2>1. ASSUME NEW v, call' = [call EXCEPT ![s].pc = "acl", ![s].claims = v], told' = told PROVE ToldInv'
    BY <1>1, <2>1, KeepTold DEF Pcs
  <2> QED BY <1>2, <1>5, <2>1 DEF RequireClaims
<1>6. CASE AclSubscribe(s) \/ AclPublish(s) \/ Validate(s)
  BY <1>2, <1>4, <1>6 DEF AclSubscribe, AclPublish, Validate
<1>7. CASE OnSubscribe(s) \/ OnPublish(s)
  <2>1. ASSUME NEW v, NEW label \in {"broker_subscribe", "broker_publish"}, told' = told,
               call' = [call EXCEPT ![s].pc = label, ![s].offset = v]
        PROVE  ToldInv'
    BY <1>1, <2>1, KeepTold DEF Pcs
  <2> QED BY <1>2, <1>7, <2>1 DEF OnSubscribe, OnPublish
<1>8. CASE BrokerSubscribe(s) \/ Unwind(s)
  BY <1>2, <1>3, <1>4, <1>8 DEF BrokerSubscribe, Unwind
<1>9. CASE BrokerPublish(s)
  <2>1. Idle.pc # "on_unsubscribe"
    BY DEF Idle
  <2> QED BY <1>1, <1>2, <1>9, <2>1, QuietTold DEF BrokerPublish
<1> QED BY <1>5, <1>6, <1>7, <1>8, <1>9

\* The SubscribeOk is queued with the subscription.
LEMMA InsertTold ==
    ASSUME ToldInv, IInv, NEW s \in Sessions, Insert(s)
    PROVE  ToldInv'
<1> DEFINE c == Channel(s)
           id == call[s].frame.body.request_id
           offset == call[s].offset
           body == [request_id |-> id, channel |-> c, epoch |-> 1, offset |-> offset]
           a == decode_server(encode_server([kind |-> "SubscribeOk", body |-> body]))
<1>0. Shape
  BY DEF IInv
<1>1. /\ At(s, "insert", "Subscribe") /\ call[s].pc = "insert"
      /\ UNCHANGED <<registered, link>> /\ c \in Channels /\ link[s] # "none"
  BY <1>0, FrameIsRequest, LinkOpen DEF Insert, At
<1>2. CASE c \in subs[s]
  <2>1. GiveUp(s, "AlreadySubscribed") /\ subs' = subs
    BY <1>2 DEF Insert
  <2> QED BY <1>0, <1>1, <2>1, GiveUpTold
<1>3. CASE c \notin subs[s]
  <2>1. Answer(s, "SubscribeOk", body) /\ subs' = [subs EXCEPT ![s] = @ \union {c}]
    BY <1>3 DEF Insert
  <2> HIDE DEF c, id, offset
  <2>2. a = [kind |-> "SubscribeOk", body |-> body]
    BY SubscribeOkTrip
  <2>3. a.kind = "SubscribeOk" /\ a.body.channel = c
    BY <2>2, SMT
  <2>4. told' = [told EXCEPT ![s] = IF s \in registered THEN Learn(told[s], a) ELSE told[s]]
    BY <2>1 DEF Answer, AnswerTo, ToldInv
  <2> HIDE DEF a
  <2>5. Learn(told[s], a) = told[s] \union {c}
    BY <2>3 DEF Learn
  <2>6. told[s] \subseteq Channels
    BY DEF ToldInv
  <2>7. told' \in [Sessions -> SUBSET Channels] /\ \A t \in Sessions \ {s} : told'[t] = told[t]
    BY <1>1, <2>4, <2>5, <2>6 DEF ToldInv
  <2>8. /\ s \in registered => told'[s] = told[s] \union {c}
        /\ s \notin registered => told'[s] = told[s]
    BY <2>4, <2>5 DEF ToldInv
  <2> HIDE DEF body
  <2>9. PICK r : CallOK(s, r) /\ r.pc \in {"idle", "replied"} /\ call' = [call EXCEPT ![s] = r]
    BY <1>0, <2>1, AnswerIs
  <2>10. /\ call'[s].pc \in {"idle", "replied"} /\ subs'[s] = subs[s] \union {c}
         /\ \A t \in Sessions \ {s} : call'[t] = call[t] /\ subs'[t] = subs[t]
    BY <1>0, <2>1, <2>9 DEF Shape
  <2>11. Known(subs[s], call[s]) = subs[s] /\ Known(subs'[s], call'[s]) = subs'[s]
    BY <1>1, <2>10 DEF Known
  <2>12. ToldOf(s)'
    <3>1. Live(s)' => told'[s] = subs'[s]
      BY <1>1, <2>8, <2>10, <2>11 DEF ToldInv, ToldOf, Live
    <3> QED BY <1>1, <2>11, <3>1 DEF ToldOf
  <2> QED BY <1>1, <2>7, <2>10, <2>12, ToldFrame
<1> QED BY <1>2, <1>3

\* The subscription goes away first; its answer is still to come.
LEMMA HandleUnsubscribeTold ==
    ASSUME ToldInv, IInv, NEW s \in Sessions, HandleUnsubscribe(s)
    PROVE  ToldInv'
<1> DEFINE c == Channel(s)
<1>0. Shape
  BY DEF IInv
<1>1. call[s].pc = "begin" /\ UNCHANGED <<registered, link>> /\ link[s] # "none"
  BY LinkOpen DEF HandleUnsubscribe, At
<1>2. CASE (\E err : Fail(s, err)) /\ subs' = subs
  BY <1>0, <1>1, <1>2, FailTold
<1>3. CASE c \in subs[s] /\ subs' = [subs EXCEPT ![s] = @ \ {c}] /\ Goto(s, "on_unsubscribe")
  <2>1. "on_unsubscribe" \in Pcs
    BY DEF Pcs
  <2>2. PICK r : /\ CallOK(s, r) /\ call' = [call EXCEPT ![s] = r] /\ call'[s] = r
                 /\ r.pc = "on_unsubscribe" /\ r.claims = call[s].claims /\ r.frame = call[s].frame
    BY <1>0, <1>3, <2>1, GotoIs
  <2>3. told' = told
    BY <1>3 DEF Goto
  <2>4. /\ subs'[s] = subs[s] \ {c}
        /\ \A t \in Sessions \ {s} : call'[t] = call[t] /\ subs'[t] = subs[t]
    BY <1>0, <1>3, <2>2 DEF Shape
  <2>5. Known(subs[s], call[s]) = subs[s] /\ Known(subs'[s], call'[s]) = subs[s]
    BY <1>1, <1>3, <2>2, <2>4 DEF Known, Channel
  <2>6. ToldOf(s)'
    BY <1>1, <2>3, <2>5 DEF ToldInv, ToldOf, Live
  <2> QED BY <1>1, <2>3, <2>4, <2>6, ToldFrame DEF ToldInv
<1> QED BY <1>2, <1>3 DEF HandleUnsubscribe

LEMMA OnUnsubscribeTold ==
    ASSUME ToldInv, AnswersInv, IInv, NEW s \in Sessions, OnUnsubscribe(s)
    PROVE  ToldInv'
<1> DEFINE c == Channel(s)
           id == call[s].frame.body.request_id
           body == [request_id |-> id, channel |-> c]
           a == decode_server(encode_server([kind |-> "UnsubscribeOk", body |-> body]))
<1>0. Shape
  BY DEF IInv
<1>1. /\ call[s].pc = "on_unsubscribe" /\ UNCHANGED <<registered, link, subs>> /\ link[s] # "none"
      /\ c = call[s].frame.body.channel /\ Answer(s, "UnsubscribeOk", body)
  BY LinkOpen DEF OnUnsubscribe, At, Channel
<1>2. c \notin subs[s] /\ Known(subs[s], call[s]) = subs[s] \union {c}
  BY <1>1 DEF AnswersInv, OnItsWay, Known
<1> HIDE DEF c, id
<1>3. a = [kind |-> "UnsubscribeOk", body |-> body]
  BY UnsubscribeOkTrip
<1>4. a.kind = "UnsubscribeOk" /\ a.body.channel = c
  BY <1>3, SMT
<1>5. told' = [told EXCEPT ![s] = IF s \in registered THEN Learn(told[s], a) ELSE told[s]]
  BY <1>1 DEF Answer, AnswerTo, ToldInv
<1> HIDE DEF a
<1>6. Learn(told[s], a) = told[s] \ {c}
  BY <1>4 DEF Learn
<1>7. told' \in [Sessions -> SUBSET Channels] /\ \A t \in Sessions \ {s} : told'[t] = told[t]
  BY <1>5, <1>6 DEF ToldInv
<1>8. s \in registered => told'[s] = told[s] \ {c}
  BY <1>5, <1>6 DEF ToldInv
<1> HIDE DEF body
<1>9. PICK r : CallOK(s, r) /\ r.pc \in {"idle", "replied"} /\ call' = [call EXCEPT ![s] = r]
  BY <1>0, <1>1, AnswerIs
<1>10. call'[s].pc \in {"idle", "replied"} /\ \A t \in Sessions \ {s} : call'[t] = call[t]
  BY <1>0, <1>9 DEF Shape
<1>11. Known(subs'[s], call'[s]) = subs[s]
  BY <1>1, <1>10 DEF Known
<1>12. Live(s)' => told'[s] = subs[s]
  <2> SUFFICES ASSUME Live(s)' PROVE told'[s] = subs[s]
    OBVIOUS
  <2>1. Live(s) /\ s \in registered
    BY <1>1 DEF Live
  <2>2. told[s] = subs[s] \union {c}
    BY <1>2, <2>1 DEF ToldInv, ToldOf
  <2> QED BY <1>2, <1>8, <2>1, <2>2
<1>13. ToldOf(s)'
  BY <1>1, <1>11, <1>12 DEF ToldOf
<1> QED BY <1>1, <1>7, <1>10, <1>13, ToldFrame

\* A pipelined frame finds the answers before it queued.
LEMMA ReceiveTold ==
    ASSUME ToldInv, Shape, NEW s \in Sessions,
           (\E f \in Requests[s] : Receive(s, f)) \/ \E b : ReceiveUndecodable(s, b)
    PROVE  ToldInv'
<1>1. /\ call[s].pc # "on_unsubscribe" /\ UNCHANGED <<subs, registered>>
      /\ link' = link \/ (link[s] = "open" /\ link' = [link EXCEPT ![s] = "closing"])
  BY DEF Receive, ReceiveUndecodable, AtSelect
<1>2. ASSUME NEW f \in Requests[s], Receive(s, f) PROVE ToldInv'
  <2> DEFINE g == decode_client(encode_client(f))
             r == [Idle EXCEPT !.pc = "begin", !.sent = f, !.frame = g]
  <2> HIDE DEF g
  <2>1. call' = [call EXCEPT ![s] = r] /\ told' = told
    BY <1>2 DEF Receive, g
  <2>2. r.pc # "on_unsubscribe"
    BY DEF Idle
  <2> HIDE DEF r
  <2> QED BY <1>1, <2>1, <2>2, QuietTold
<1>3. ASSUME NEW b, ReceiveUndecodable(s, b) PROVE ToldInv'
  <2> DEFINE zero == 0
             code == ErrorCode.InvalidFrame
             text == "invalid frame"
             body == [request_id |-> zero, code |-> code, message |-> text]
  <2>1. AnswerTo(s, Idle, "Error", body)
    BY <1>3 DEF ReceiveUndecodable
  <2> HIDE DEF zero, code, text
  <2>2. decode_server(encode_server([kind |-> "Error", body |-> body])) = [kind |-> "Error", body |-> body]
    BY ErrorTrip
  <2> HIDE DEF body
  <2>3. told' = told
    BY <2>1, <2>2, AnswerLearnsNothing
  <2>4. PICK r : CallOK(s, r) /\ r.pc \in {"idle", "replied"} /\ call' = [call EXCEPT ![s] = r]
    BY <2>1, IdleOK, AnswerToIs
  <2> QED BY <1>1, <2>3, <2>4, QuietTold
<1> QED BY <1>2, <1>3

\* Opening, kicking, closing and dropping a session.
LEMMA SessionTold ==
    ASSUME ToldInv, IInv, NEW s \in Sessions, OpenSession(s) \/ Kick(s) \/ Close(s) \/ Cancel(s)
    PROVE  ToldInv'
<1>0. subs' = subs
  BY DEF OpenSession, Kick, Close, Cancel
<1>1. \A t \in Sessions \ {s} : /\ told'[t] = told[t] /\ link'[t] = link[t]
                                /\ subs'[t] = subs[t] /\ call'[t] = call[t]
                                /\ t \in registered' <=> t \in registered
  <2>1. registered' \in {registered, registered \union {s}, registered \ {s}}
    BY DEF OpenSession, Kick, Close, Cancel
  <2>2. /\ link' = link \/ \E v : link' = [link EXCEPT ![s] = v]
        /\ call' = call \/ call' = [call EXCEPT ![s] = Idle]
        /\ told' = told \/ told' = [told EXCEPT ![s] = {}]
    BY DEF OpenSession, Kick, Close, Cancel
  <2> QED BY <1>0, <2>1, <2>2 DEF ToldInv, IInv, Shape
<1>2. told' \in [Sessions -> SUBSET Channels]
  <2>1. told' = told \/ told' = [told EXCEPT ![s] = {}]
    BY DEF OpenSession, Kick, Close, Cancel
  <2> QED BY <2>1 DEF ToldInv
<1>3. CASE OpenSession(s)
  <2>1. link[s] = "none" /\ call' = call /\ told' = told
    BY <1>3 DEF OpenSession
  <2>2. subs[s] = {} /\ call[s].pc = "idle" /\ told[s] = {}
    BY <2>1 DEF IInv, ClaimsKnown, ToldInv, ToldOf
  <2>3. ToldOf(s)'
    BY <1>0, <2>1, <2>2 DEF ToldOf, Known
  <2> QED BY <1>1, <1>2, <2>3, ToldFrame
<1>4. CASE Kick(s)
  <2>1. told'[s] = {} /\ s \notin registered'
    BY <1>4 DEF Kick, ToldInv
  <2>2. ToldOf(s)'
    BY <2>1 DEF ToldOf, Live
  <2> QED BY <1>1, <1>2, <2>2, ToldFrame
<1>5. CASE Close(s) \/ Cancel(s)
  <2>1. link'[s] = "gone"
    BY <1>5 DEF Close, Cancel, IInv, Shape
  <2>2. ToldOf(s)'
    BY <2>1 DEF ToldOf, Live
  <2> QED BY <1>1, <1>2, <2>2, ToldFrame
<1> QED BY <1>3, <1>4, <1>5

LEMMA NextTold == IInv /\ AnswersInv /\ ToldInv /\ [Next]_vars => ToldInv'
<1> SUFFICES ASSUME IInv, AnswersInv, ToldInv, [Next]_vars PROVE ToldInv'
  OBVIOUS
<1>1. Shape
  BY DEF IInv
<1>2. CASE UNCHANGED vars
  BY <1>2 DEF vars, ToldInv, ToldOf, Live
<1>3. ASSUME NEW s \in Sessions, Handle(s) PROVE ToldInv'
  BY <1>1, <1>3, ConnectTold, RequestsTold, InsertTold, HandleUnsubscribeTold, OnUnsubscribeTold DEF Handle
<1>4. ASSUME NEW s \in Sessions, SessionStep(s) PROVE ToldInv'
  BY <1>1, <1>3, <1>4, SessionTold, ReceiveTold DEF SessionStep
<1> QED BY <1>2, <1>4 DEF Next, AllGone

LEMMA SpecTold == Spec => [](AnswersInv /\ ToldInv)
<1>1. Init => AnswersInv
  BY IdleOnItsWay, SMT DEF Init, AnswersInv
<1>2. Init => ToldInv
  BY DEF Init, ToldInv, ToldOf, Live
<1> QED BY <1>1, <1>2, SpecIInv, NextAnswers, NextTold, PTL DEF Spec

(* The bytes queued for a frame decode to an answer to it, and the answers *)
(* of a session, applied in the order in which they are queued, tell its   *)
(* subscriptions, however far the client pipelines its requests and        *)
(* wherever the handlers of other sessions, kicks and cancelled futures    *)
(* fall between the awaits (hub.rs handle_frame, ws deliver and            *)
(* error_code_for, frame.rs).                                              *)
THEOREM AnswersTheorem == Spec => []AnswersAreTruthful
<1>1. AnswersInv => \A s \in Sessions : call[s].pc = "replied" => AnswerFits(s)
  BY DEF AnswersInv, OnItsWay, TrueOf, AnswerFits
<1>2. IInv /\ ToldInv => \A s \in registered : link[s] \in {"open", "closing"} =>
        told[s] = subs[s] \union (IF call[s].pc = "on_unsubscribe" THEN {Channel(s)} ELSE {})
  BY DEF IInv, Shape, ToldInv, ToldOf, Live, Known, Channel
<1>3. IInv /\ AnswersInv /\ ToldInv => AnswersAreTruthful
  BY <1>1, <1>2 DEF AnswersAreTruthful
<1> QED BY <1>3, SpecIInv, SpecTold, PTL

-----------------------------------------------------------------------------
(* Counting.  A step of session s moves only s in or out of the two sets   *)
(* that KindCountsSubscribers counts, so it is enough to compare the       *)
(* step's change of the balance with the change of what s itself           *)
(* contributes (Weight).  They are equal but where s leaves.               *)
One(p) == IF p THEN 1 ELSE 0

Weight(s, c) == One(c \in subs[s]) + One(Joining(s, c))

LEMMA OneMember ==
    ASSUME NEW S, IsFiniteSet(S), NEW A \in SUBSET S, NEW B \in SUBSET S, NEW s \in S, A \ {s} = B \ {s}
    PROVE  /\ Cardinality(A) \in Nat /\ Cardinality(B) \in Nat
           /\ Cardinality(B) - Cardinality(A) = One(s \in B) - One(s \in A)
<1> DEFINE R == A \ {s}
<1>1. IsFiniteSet(A) /\ IsFiniteSet(B) /\ IsFiniteSet(R)
  BY FS_Subset
<1>2. Cardinality(A) \in Nat /\ Cardinality(B) \in Nat /\ Cardinality(R) \in Nat
  BY <1>1, FS_CardinalityType
<1>3. Cardinality(A) = Cardinality(R) + One(s \in A)
  <2>1. CASE s \in A
    BY <1>1, <1>2, <2>1, FS_RemoveElement, SMT DEF One
  <2>2. CASE s \notin A
    <3>1. R = A
      BY <2>2
    <3> QED BY <1>2, <2>2, <3>1, SMT DEF One
  <2> QED BY <2>1, <2>2
<1>4. Cardinality(B) = Cardinality(R) + One(s \in B)
  <2>0. R = B \ {s}
    OBVIOUS
  <2>1. CASE s \in B
    BY <1>1, <1>2, <2>0, <2>1, FS_RemoveElement, SMT DEF One
  <2>2. CASE s \notin B
    <3>1. R = B
      BY <2>0, <2>2
    <3> QED BY <1>2, <2>2, <3>1, SMT DEF One
  <2> QED BY <2>1, <2>2
<1> HIDE DEF R
<1> QED BY <1>2, <1>3, <1>4, SMT DEF One

LEMMA CountedMoves ==
    ASSUME NEW s \in Sessions, NEW c \in Channels,
           \A t \in Sessions \ {s} : subs'[t] = subs[t] /\ call'[t] = call[t]
    PROVE  /\ Counted(c) \in Nat /\ Counted(c)' \in Nat
           /\ Counted(c)' - Counted(c) = Weight(s, c)' - Weight(s, c)
<1> DEFINE A == {t \in Sessions : c \in subs[t]}
           B == {t \in Sessions : c \in subs'[t]}
           J == {t \in Sessions : Joining(t, c)}
           K == {t \in Sessions : Joining(t, c)'}
<1>0. IsFiniteSet(Sessions)
  BY RequestConstants
<1>1. A \ {s} = B \ {s}
  OBVIOUS
<1>2. J \ {s} = K \ {s}
  BY DEF Joining, Channel
<1>3. /\ Cardinality(A) \in Nat /\ Cardinality(B) \in Nat
      /\ Cardinality(B) - Cardinality(A) = One(s \in B) - One(s \in A)
  <2>1. A \in SUBSET Sessions /\ B \in SUBSET Sessions
    OBVIOUS
  <2> HIDE DEF A, B
  <2> QED BY <1>0, <1>1, <2>1, OneMember, ZenonT(30)
<1>4. /\ Cardinality(J) \in Nat /\ Cardinality(K) \in Nat
      /\ Cardinality(K) - Cardinality(J) = One(s \in K) - One(s \in J)
  <2>1. J \in SUBSET Sessions /\ K \in SUBSET Sessions
    OBVIOUS
  <2> HIDE DEF J, K
  <2> QED BY <1>0, <1>2, <2>1, OneMember, ZenonT(30)
<1>5. Counted(c) = Cardinality(A) + Cardinality(J) /\ Counted(c)' = Cardinality(B) + Cardinality(K)
  BY DEF Counted
<1>6. Weight(s, c) = One(s \in A) + One(s \in J)
  BY DEF Weight, One
<1>7. Weight(s, c)' = One(s \in B) + One(s \in K)
  BY DEF Weight, One
<1>8. One(s \in A) \in Int /\ One(s \in B) \in Int /\ One(s \in J) \in Int /\ One(s \in K) \in Int
  BY SMT DEF One
<1> HIDE DEF A, B, J, K
<1> QED BY <1>3, <1>4, <1>5, <1>6, <1>7, <1>8, SMT

LEMMA GoneCounts == Cardinality(Gone) \in Nat
<1>1. Gone \subseteq Sessions /\ IsFiniteSet(Sessions)
  BY RequestConstants DEF Gone
<1> QED BY <1>1, FS_Subset, FS_CardinalityType

LEMMA BalanceFrame ==
    ASSUME NEW s \in Sessions,
           balance \in [Channels -> Int], balance' \in [Channels -> Int],
           \A t \in Sessions \ {s} : subs'[t] = subs[t] /\ call'[t] = call[t],
           \A c \in Channels : balance'[c] - balance[c] = Weight(s, c)' - Weight(s, c),
           Gone' = Gone, KindCountsSubscribers
    PROVE  KindCountsSubscribers'
<1> SUFFICES ASSUME NEW c \in Channels
             PROVE  Counted(c)' <= balance'[c] /\ balance'[c] <= Counted(c)' + Cardinality(Gone')
  BY DEF KindCountsSubscribers
<1>1. /\ Counted(c) \in Nat /\ Counted(c)' \in Nat
      /\ Counted(c)' - Counted(c) = Weight(s, c)' - Weight(s, c)
  BY CountedMoves
<1>2. balance[c] \in Int /\ balance'[c] \in Int /\ Cardinality(Gone) \in Nat
  BY GoneCounts
<1>3. Counted(c) <= balance[c] /\ balance[c] <= Counted(c) + Cardinality(Gone)
  BY DEF KindCountsSubscribers
<1>4. balance'[c] - balance[c] = Counted(c)' - Counted(c)
  BY <1>1
<1> DEFINE n == Counted(c)
           m == Counted(c)'
           g == Cardinality(Gone)
<1>5. Cardinality(Gone') = g
  OBVIOUS
<1> HIDE DEF n, m, g
<1>6. m <= balance'[c] /\ balance'[c] <= m + g
  BY <1>1, <1>2, <1>3, <1>4, SMT DEF n, m, g
<1> QED BY <1>5, <1>6 DEF m

JoinPcs == {"broker_subscribe", "insert", "unwind", "on_unsubscribe"}

\* The counters, and the offset a publisher holds until the broker has it.
Tallied ==
    /\ balance \in [Channels -> Int]
    /\ sent \in [Channels -> SUBSET Int]
    /\ \A c \in Channels : Len(history[c]) <= MaxHistory /\ sent[c] \subseteq 0..(Len(history[c]) - 1)
    /\ \A s \in Sessions : At(s, "broker_publish", "Publish") =>
         call[s].offset \in 0..(Len(history[Channel(s)]) - 1)
    /\ KindCountsSubscribers

LEMMA TalliedFrame ==
    ASSUME IInv, Tallied, NEW s \in Sessions, NEW r, call' = [call EXCEPT ![s] = r],
           r.pc # "broker_publish", UNCHANGED <<sent, history>>,
           balance' \in [Channels -> Int],
           \A t \in Sessions \ {s} : subs'[t] = subs[t], Gone' = Gone,
           \A c \in Channels : balance'[c] - balance[c] = Weight(s, c)' - Weight(s, c)
    PROVE  Tallied'
<1>1. \A t \in Sessions : call'[t] = IF t = s THEN r ELSE call[t]
  BY DEF IInv, Shape
<1>2. \A t \in Sessions \ {s} : subs'[t] = subs[t] /\ call'[t] = call[t]
  BY <1>1
<1>3. KindCountsSubscribers'
  BY <1>2, BalanceFrame DEF Tallied
<1>4. ASSUME NEW t \in Sessions, At(t, "broker_publish", "Publish")'
      PROVE  call'[t].offset \in 0..(Len(history'[Channel(t)']) - 1)
  BY <1>1, <1>4 DEF Tallied, At, Channel
<1> QED BY <1>3, <1>4 DEF Tallied

\* A step to a program point that counts as much as the one before it.
LEMMA Moves ==
    ASSUME IInv, Tallied, NEW s \in Sessions, NEW r, call' = [call EXCEPT ![s] = r],
           r.pc # "broker_publish", UNCHANGED <<sent, history, subs, balance>>, Gone' = Gone,
           r.pc \in JoinPcs <=> call[s].pc \in JoinPcs,
           r.pc \in JoinPcs => r.frame = call[s].frame
    PROVE  Tallied'
<1>1. call'[s] = r
  BY DEF IInv, Shape
<1>2. balance' \in [Channels -> Int]
  BY DEF Tallied
<1>3. ASSUME NEW c \in Channels PROVE balance'[c] - balance[c] = Weight(s, c)' - Weight(s, c)
  <2>1. Joining(s, c)' <=> Joining(s, c)
    BY <1>1 DEF Joining, JoinPcs, Channel
  <2>2. balance[c] \in Int /\ balance'[c] = balance[c]
    BY DEF Tallied
  <2> QED BY <2>1, <2>2, SMT DEF Weight, One
<1> QED BY <1>2, <1>3, TalliedFrame

LEMMA GotoMoves ==
    ASSUME IInv, Tallied, NEW s \in Sessions, NEW label \in Pcs, Goto(s, label),
           label # "broker_publish", UNCHANGED <<sent, history, subs, balance>>, Gone' = Gone,
           label \in JoinPcs <=> call[s].pc \in JoinPcs
    PROVE  Tallied'
<1>1. PICK r : /\ CallOK(s, r) /\ call' = [call EXCEPT ![s] = r] /\ call'[s] = r
               /\ r.pc = label /\ r.claims = call[s].claims /\ r.frame = call[s].frame
  BY GotoIs DEF IInv
<1> QED BY <1>1, Moves

LEMMA AnswerMoves ==
    ASSUME IInv, Tallied, NEW s \in Sessions, NEW kind, NEW body, Answer(s, kind, body),
           UNCHANGED <<sent, history, subs, balance>>, Gone' = Gone, call[s].pc \notin JoinPcs
    PROVE  Tallied'
<1>1. PICK r : CallOK(s, r) /\ r.pc \in {"idle", "replied"} /\ call' = [call EXCEPT ![s] = r]
  BY AnswerIs DEF IInv
<1>2. r.pc # "broker_publish" /\ r.pc \notin JoinPcs
  BY <1>1 DEF JoinPcs
<1> QED BY <1>1, <1>2, Moves

LEMMA FailMoves ==
    ASSUME IInv, Tallied, NEW s \in Sessions, NEW err, Fail(s, err), UNCHANGED <<sent, history, subs, balance>>,
           Gone' = Gone, call[s].pc \notin JoinPcs
    PROVE  Tallied'
<1>1. PICK body : Answer(s, "Error", body)
  BY DEF Fail
<1> QED BY <1>1, AnswerMoves

\* A handler that is dropped, or a connection that is over, may leave its
\* hook uncalled; from then on its session is gone.
LEMMA LeaveTallied == ASSUME IInv, Tallied, NEW s \in Sessions, Cancel(s) \/ Close(s) PROVE Tallied'
<1>1. /\ UNCHANGED <<sent, history, subs, balance>> /\ call' = [call EXCEPT ![s] = Idle]
      /\ link[s] \in {"open", "closing"} /\ link' = [link EXCEPT ![s] = "gone"]
  BY DEF Cancel, Close
<1>2. \A t \in Sessions : call'[t] = IF t = s THEN Idle ELSE call[t]
  BY <1>1 DEF IInv, Shape
<1>3. Idle.pc = "idle"
  BY IdleOK
<1>4. \A t \in Sessions : link'[t] = IF t = s THEN "gone" ELSE link[t]
  BY <1>1 DEF IInv, Shape
<1>5. s \notin Gone /\ Gone' = Gone \union {s}
  BY <1>1, <1>4 DEF Gone
<1>6. Cardinality(Gone') = Cardinality(Gone) + 1 /\ Cardinality(Gone) \in Nat
  <2>1. Gone \subseteq Sessions /\ IsFiniteSet(Sessions)
    BY RequestConstants DEF Gone
  <2>2. IsFiniteSet(Gone)
    BY <2>1, FS_Subset
  <2> QED BY <1>5, <2>2, GoneCounts, FS_AddElement, SMT
<1>7. ASSUME NEW c \in Channels
      PROVE  Counted(c)' <= balance'[c] /\ balance'[c] <= Counted(c)' + Cardinality(Gone')
  <2>1. /\ Counted(c) \in Nat /\ Counted(c)' \in Nat
        /\ Counted(c)' - Counted(c) = Weight(s, c)' - Weight(s, c)
    BY <1>1, <1>2, CountedMoves
  <2>2. ~Joining(s, c)' /\ subs'[s] = subs[s]
    BY <1>1, <1>2, <1>3 DEF Joining
  <2>3. Weight(s, c)' - Weight(s, c) \in {0, -1}
    BY <2>2, SMT DEF Weight, One
  <2>4. balance[c] \in Int /\ balance'[c] = balance[c]
    BY <1>1 DEF Tallied
  <2>5. Counted(c) <= balance[c] /\ balance[c] <= Counted(c) + Cardinality(Gone)
    BY DEF Tallied, KindCountsSubscribers
  <2>6. Counted(c)' - Counted(c) \in {0, -1}
    BY <2>1, <2>3
  <2> DEFINE n == Counted(c)
             m == Counted(c)'
             g == Cardinality(Gone)
             h == Cardinality(Gone')
  <2> HIDE DEF n, m, g, h
  <2>7. m <= balance[c] /\ balance[c] <= m + h
    BY <1>6, <2>1, <2>4, <2>5, <2>6, SMT DEF n, m, g, h
  <2> QED BY <2>4, <2>7 DEF m, h
<1>8. KindCountsSubscribers'
  BY <1>7 DEF KindCountsSubscribers
<1>9. ASSUME NEW t \in Sessions, At(t, "broker_publish", "Publish")'
      PROVE  call'[t].offset \in 0..(Len(history'[Channel(t)']) - 1)
  BY <1>1, <1>2, <1>3, <1>9 DEF Tallied, At, Channel
<1> QED BY <1>1, <1>8, <1>9 DEF Tallied

LEMMA LinkStays == ASSUME link' = link PROVE Gone' = Gone
BY DEF Gone

\* The steps that neither subscribe nor publish, and the early returns.
LEMMA QuietSteps ==
    ASSUME IInv, Tallied, NEW s \in Sessions,
           \/ HandleConnect(s) \/ Authenticate(s) \/ RequireClaims(s) \/ AclSubscribe(s)
           \/ BrokerSubscribe(s) \/ AclPublish(s) \/ Validate(s)
           \/ \E f \in Requests[s] : Receive(s, f)
           \/ \E b : ReceiveUndecodable(s, b)
    PROVE  Tallied'
<1>0. UNCHANGED <<sent, history, subs, balance>>
  BY DEF HandleConnect, Authenticate, RequireClaims, AclSubscribe, BrokerSubscribe, AclPublish, Validate,
         Receive, ReceiveUndecodable
<1>10. Gone' = Gone
  <2>1. CASE link' = link
    BY <2>1, LinkStays
  <2>2. ASSUME NEW b, ReceiveUndecodable(s, b) PROVE Gone' = Gone
    <3>1. link[s] = "open" /\ \A t \in Sessions : link'[t] = IF t = s THEN "closing" ELSE link[t]
      BY <2>2 DEF ReceiveUndecodable, AtSelect, IInv, Shape
    <3> QED BY <3>1 DEF Gone
  <2> QED BY <2>1, <2>2 DEF HandleConnect, Authenticate, RequireClaims, AclSubscribe, BrokerSubscribe,
                            AclPublish, Validate, Receive
<1>1. ASSUME call[s].pc \notin JoinPcs, \E err : Fail(s, err) PROVE Tallied'
  BY <1>0, <1>1, <1>10, FailMoves
<1>2. ASSUME call[s].pc \notin JoinPcs, \E kind, body : Answer(s, kind, body) PROVE Tallied'
  BY <1>0, <1>2, <1>10, AnswerMoves
<1>3. ASSUME call[s].pc \notin JoinPcs,
             \E label \in {"authenticate", "on_subscribe", "validate", "on_publish"} : Goto(s, label)
      PROVE  Tallied'
  <2>1. PICK label \in {"authenticate", "on_subscribe", "validate", "on_publish"} : Goto(s, label)
    BY <1>3
  <2>2. label \in Pcs /\ label # "broker_publish" /\ label \notin JoinPcs
    BY <2>1 DEF Pcs, JoinPcs
  <2> QED BY <1>0, <1>3, <1>10, <2>1, <2>2, GotoMoves
<1>4. HandleConnect(s) \/ Authenticate(s) \/ AclSubscribe(s) \/ AclPublish(s) \/ Validate(s) => Tallied'
  <2>0. HandleConnect(s) \/ Authenticate(s) \/ AclSubscribe(s) \/ AclPublish(s) \/ Validate(s)
          => call[s].pc \notin JoinPcs
    BY DEF HandleConnect, Authenticate, AclSubscribe, AclPublish, Validate, At, JoinPcs
  <2>1. HandleConnect(s) => Tallied'
    BY <1>1, <1>3, <2>0, ZenonT(30) DEF HandleConnect
  <2>2. Authenticate(s) => Tallied'
    BY <1>1, <1>2, <2>0, ZenonT(30) DEF Authenticate
  <2>3. AclSubscribe(s) \/ AclPublish(s) \/ Validate(s) => Tallied'
    BY <1>1, <1>3, <2>0 DEF AclSubscribe, AclPublish, Validate
  <2> QED BY <2>1, <2>2, <2>3
<1>5. RequireClaims(s) => Tallied'
  <2>0. RequireClaims(s) => call[s].pc \notin JoinPcs
    BY DEF RequireClaims, At, JoinPcs
  <2>1. ASSUME call[s].pc \notin JoinPcs, NEW held,
               call' = [call EXCEPT ![s].pc = "acl", ![s].claims = held]
        PROVE  Tallied'
    <3> DEFINE r == [call[s] EXCEPT !.pc = "acl", !.claims = held]
    <3>1. call' = [call EXCEPT ![s] = r]
      BY <2>1 DEF IInv, Shape
    <3>2. r.pc = "acl"
      BY DEF IInv, Shape, CallOK, CallFields
    <3>3. r.pc # "broker_publish" /\ r.pc \notin JoinPcs
      BY <3>2 DEF JoinPcs
    <3> HIDE DEF r
    <3> QED BY <1>0, <1>10, <2>1, <3>1, <3>3, Moves
  <2> QED BY <1>1, <2>0, <2>1 DEF RequireClaims
<1>6. BrokerSubscribe(s) => Tallied'
  <2> SUFFICES ASSUME BrokerSubscribe(s) PROVE Tallied'
    OBVIOUS
  <2>1. call[s].pc \in JoinPcs
    BY DEF BrokerSubscribe, At, JoinPcs
  <2>2. CASE Goto(s, "insert")
    <3>1. "insert" \in Pcs /\ "insert" \in JoinPcs
      BY DEF Pcs, JoinPcs
    <3> QED BY <1>0, <1>10, <2>1, <2>2, <3>1, GotoMoves
  <2>3. ASSUME NEW err, GiveUp(s, err) PROVE Tallied'
    <3> DEFINE r == [call[s] EXCEPT !.pc = "unwind", !.error = err]
    <3>1. call' = [call EXCEPT ![s] = r]
      BY <2>3 DEF IInv, Shape, GiveUp
    <3>2. r.pc = "unwind" /\ r.frame = call[s].frame
      BY DEF IInv, Shape, CallOK, CallFields
    <3> HIDE DEF r
    <3>3. r.pc \in JoinPcs /\ r.pc # "broker_publish"
      BY <3>2 DEF JoinPcs
    <3> QED BY <1>0, <1>10, <2>1, <3>1, <3>2, <3>3, Moves
  <2> QED BY <2>2, <2>3 DEF BrokerSubscribe
<1>7. ASSUME AtSelect(s) PROVE call[s].pc \notin JoinPcs
  BY <1>7 DEF AtSelect, JoinPcs
<1>8. ASSUME NEW f \in Requests[s], Receive(s, f) PROVE Tallied'
  <2> DEFINE g == decode_client(encode_client(f))
             r == [Idle EXCEPT !.pc = "begin", !.sent = f, !.frame = g]
  <2> HIDE DEF g
  <2>1. call' = [call EXCEPT ![s] = r] /\ AtSelect(s)
    BY <1>8 DEF Receive, g
  <2>2. r.pc = "begin"
    BY DEF Idle
  <2>3. r.pc # "broker_publish" /\ r.pc \notin JoinPcs
    BY <2>2 DEF JoinPcs
  <2> HIDE DEF r
  <2> QED BY <1>0, <1>7, <1>10, <2>1, <2>3, Moves, ZenonT(30)
<1>9. ASSUME NEW b, ReceiveUndecodable(s, b) PROVE Tallied'
  <2>1. PICK body : AnswerTo(s, Idle, "Error", body)
    BY <1>9 DEF ReceiveUndecodable
  <2>2. PICK r : CallOK(s, r) /\ r.pc \in {"idle", "replied"} /\ call' = [call EXCEPT ![s] = r]
    BY <2>1, IdleOK, AnswerToIs DEF IInv
  <2>3. r.pc # "broker_publish" /\ r.pc \notin JoinPcs /\ AtSelect(s)
    BY <1>9, <2>2 DEF JoinPcs, ReceiveUndecodable
  <2> QED BY <1>0, <1>7, <1>10, <2>2, <2>3, Moves
<1> QED BY <1>4, <1>5, <1>6, <1>8, <1>9

LEMMA OnSubscribeTallied == ASSUME IInv, Tallied, NEW s \in Sessions, OnSubscribe(s) PROVE Tallied'
<1> DEFINE c == Channel(s)
<1>1. At(s, "on_subscribe", "Subscribe") /\ UNCHANGED <<link, subs, history, sent>>
  BY DEF OnSubscribe
<1>0. Gone' = Gone /\ call[s].pc \notin JoinPcs
  BY <1>1, LinkStays DEF At, JoinPcs
<1>2. CASE Fail(s, "Channel") /\ balance' = balance
  BY <1>0, <1>1, <1>2, FailMoves
<1>3. ASSUME NEW o, balance' = [balance EXCEPT ![c] = @ + 1],
             call' = [call EXCEPT ![s].pc = "broker_subscribe", ![s].offset = o]
      PROVE  Tallied'
  <2> DEFINE r == [call[s] EXCEPT !.pc = "broker_subscribe", !.offset = o]
  <2>1. call' = [call EXCEPT ![s] = r]
    BY <1>3 DEF IInv, Shape
  <2>2. r.pc = "broker_subscribe" /\ r.frame = call[s].frame
    BY DEF IInv, Shape, CallOK, CallFields
  <2> HIDE DEF r
  <2>3. call'[s] = r
    BY <2>1 DEF IInv, Shape
  <2>4. c \in Channels
    BY <1>1, FrameIsRequest DEF IInv
  <2>5. balance' \in [Channels -> Int]
    BY <1>3, <2>4, SMT DEF Tallied
  <2>6. ASSUME NEW d \in Channels PROVE balance'[d] - balance[d] = Weight(s, d)' - Weight(s, d)
    <3>1. balance[d] \in Int /\ balance'[d] = IF d = c THEN balance[d] + 1 ELSE balance[d]
      BY <1>3, <2>4 DEF Tallied
    <3>2. Joining(s, d)' <=> d = c
      BY <2>2, <2>3 DEF Joining, Channel
    <3>3. ~Joining(s, d)
      BY <1>0 DEF Joining, JoinPcs
    <3> QED BY <1>1, <3>1, <3>2, <3>3, SMT DEF Weight, One
  <2> QED BY <1>0, <1>1, <2>1, <2>2, <2>5, <2>6, TalliedFrame
<1> QED BY <1>2, <1>3 DEF OnSubscribe

\* on_unsubscribe runs once for a session that still counts for the channel.
LEMMA HookBalances ==
    ASSUME IInv, Tallied, NEW s \in Sessions, NEW kind, NEW body, Answer(s, kind, body),
           call[s].pc \in JoinPcs, Channel(s) \in Channels,
           balance' = [balance EXCEPT ![Channel(s)] = @ - 1], UNCHANGED <<link, subs, history, sent>>
    PROVE  Tallied'
<1> DEFINE c == Channel(s)
<1>1. PICK r : CallOK(s, r) /\ r.pc \in {"idle", "replied"} /\ call' = [call EXCEPT ![s] = r]
  BY AnswerIs DEF IInv
<1>2. call'[s] = r
  BY <1>1 DEF IInv, Shape
<1>3. balance' \in [Channels -> Int]
  BY SMT DEF Tallied
<1>4. ASSUME NEW d \in Channels PROVE balance'[d] - balance[d] = Weight(s, d)' - Weight(s, d)
  <2>1. balance[d] \in Int /\ balance'[d] = IF d = c THEN balance[d] - 1 ELSE balance[d]
    BY DEF Tallied
  <2>2. ~Joining(s, d)'
    BY <1>1, <1>2 DEF Joining
  <2>3. d = c <=> Joining(s, d)
    BY DEF Joining, JoinPcs
  <2> QED BY <2>1, <2>2, <2>3, SMT DEF Weight, One
<1>5. r.pc # "broker_publish" /\ Gone' = Gone
  BY <1>1, LinkStays
<1> QED BY <1>1, <1>3, <1>4, <1>5, TalliedFrame

LEMMA UnwindTallied == ASSUME IInv, Tallied, NEW s \in Sessions, Unwind(s) PROVE Tallied'
<1>1. /\ At(s, "unwind", "Subscribe") /\ UNCHANGED <<link, subs, history, sent>>
      /\ balance' = [balance EXCEPT ![Channel(s)] = @ - 1]
  BY DEF Unwind
<1>2. PICK body : Answer(s, "Error", body)
  BY DEF Unwind, Fail
<1>3. Channel(s) \in Channels /\ call[s].pc \in JoinPcs
  BY <1>1, FrameIsRequest DEF IInv, At, JoinPcs
<1> QED BY <1>1, <1>2, <1>3, HookBalances

LEMMA OnUnsubscribeTallied == ASSUME IInv, Tallied, NEW s \in Sessions, OnUnsubscribe(s) PROVE Tallied'
<1>1. /\ At(s, "on_unsubscribe", "Unsubscribe") /\ UNCHANGED <<link, subs, history, sent>>
      /\ balance' = [balance EXCEPT ![Channel(s)] = @ - 1]
  BY DEF OnUnsubscribe
<1>2. PICK body : Answer(s, "UnsubscribeOk", body)
  BY DEF OnUnsubscribe
<1>3. Channel(s) \in Channels /\ call[s].pc \in JoinPcs
  BY <1>1, FrameIsRequest DEF IInv, At, JoinPcs
<1> QED BY <1>1, <1>2, <1>3, HookBalances

LEMMA InsertTallied == ASSUME IInv, Tallied, NEW s \in Sessions, Insert(s) PROVE Tallied'
<1> DEFINE c == Channel(s)
<1>1. At(s, "insert", "Subscribe") /\ UNCHANGED <<link, balance, history, sent>>
  BY DEF Insert
<1>2. call[s].pc \in JoinPcs /\ Gone' = Gone
  BY <1>1, LinkStays DEF At, JoinPcs
<1>3. CASE c \in subs[s]
  <2> DEFINE r == [call[s] EXCEPT !.pc = "unwind", !.error = "AlreadySubscribed"]
  <2>1. call' = [call EXCEPT ![s] = r] /\ subs' = subs
    BY <1>3 DEF IInv, Shape, Insert, GiveUp
  <2>2. r.pc = "unwind" /\ r.frame = call[s].frame
    BY DEF IInv, Shape, CallOK, CallFields
  <2> HIDE DEF r
  <2>3. r.pc \in JoinPcs /\ r.pc # "broker_publish"
    BY <2>2 DEF JoinPcs
  <2> QED BY <1>1, <1>2, <2>1, <2>2, <2>3, Moves
<1>4. CASE c \notin subs[s]
  <2>1. subs' = [subs EXCEPT ![s] = @ \union {c}] /\ \E body : Answer(s, "SubscribeOk", body)
    BY <1>4 DEF Insert
  <2>2. PICK r : CallOK(s, r) /\ r.pc \in {"idle", "replied"} /\ call' = [call EXCEPT ![s] = r]
    BY <2>1, AnswerIs DEF IInv
  <2>3. call'[s] = r /\ subs'[s] = subs[s] \union {c} /\ \A t \in Sessions \ {s} : subs'[t] = subs[t]
    BY <2>1, <2>2 DEF IInv, Shape
  <2>4. balance' \in [Channels -> Int]
    BY <1>1 DEF Tallied
  <2>5. ASSUME NEW d \in Channels PROVE balance'[d] - balance[d] = Weight(s, d)' - Weight(s, d)
    <3>1. balance[d] \in Int /\ balance'[d] = balance[d]
      BY <1>1 DEF Tallied
    <3>2. ~Joining(s, d)'
      BY <2>2, <2>3 DEF Joining
    <3>3. d = c <=> Joining(s, d)
      BY <1>2 DEF Joining, JoinPcs
    <3>4. d # c => (d \in subs'[s] <=> d \in subs[s])
      BY <2>3
    <3> QED BY <1>4, <2>3, <3>1, <3>2, <3>3, <3>4, SMT DEF Weight, One
  <2>6. r.pc # "broker_publish"
    BY <2>2
  <2> QED BY <1>1, <1>2, <2>2, <2>3, <2>4, <2>5, <2>6, TalliedFrame
<1> QED BY <1>3, <1>4

LEMMA HandleUnsubscribeTallied == ASSUME IInv, Tallied, NEW s \in Sessions, HandleUnsubscribe(s) PROVE Tallied'
<1> DEFINE c == Channel(s)
<1>1. At(s, "begin", "Unsubscribe") /\ UNCHANGED <<link, balance, history, sent>>
  BY DEF HandleUnsubscribe
<1>0. Gone' = Gone /\ call[s].pc \notin JoinPcs
  BY <1>1, LinkStays DEF At, JoinPcs
<1>2. CASE (\E err : Fail(s, err)) /\ subs' = subs
  BY <1>0, <1>1, <1>2, FailMoves
<1>3. CASE c \in subs[s] /\ subs' = [subs EXCEPT ![s] = @ \ {c}] /\ Goto(s, "on_unsubscribe")
  <2>1. "on_unsubscribe" \in Pcs
    BY DEF Pcs
  <2>2. PICK r : /\ CallOK(s, r) /\ call' = [call EXCEPT ![s] = r] /\ call'[s] = r
                 /\ r.pc = "on_unsubscribe" /\ r.claims = call[s].claims /\ r.frame = call[s].frame
    BY <1>3, <2>1, GotoIs DEF IInv
  <2>3. subs'[s] = subs[s] \ {c} /\ \A t \in Sessions \ {s} : subs'[t] = subs[t]
    BY <1>3 DEF IInv, Shape
  <2>4. balance' \in [Channels -> Int]
    BY <1>1 DEF Tallied
  <2>5. ASSUME NEW d \in Channels PROVE balance'[d] - balance[d] = Weight(s, d)' - Weight(s, d)
    <3>1. balance[d] \in Int /\ balance'[d] = balance[d]
      BY <1>1 DEF Tallied
    <3>2. ~Joining(s, d)
      BY <1>1 DEF At, Joining
    <3>3. Joining(s, d)' <=> d = c
      BY <2>2 DEF Joining, Channel
    <3>4. d \in subs'[s] <=> d \in subs[s] /\ d # c
      BY <2>3
    <3> QED BY <1>3, <3>1, <3>2, <3>3, <3>4, SMT DEF Weight, One
  <2>6. r.pc # "broker_publish"
    BY <2>2
  <2> QED BY <1>0, <1>1, <2>2, <2>3, <2>4, <2>5, <2>6, TalliedFrame
<1> QED BY <1>2, <1>3 DEF HandleUnsubscribe

LEMMA OnPublishTallied == ASSUME IInv, Tallied, NEW s \in Sessions, OnPublish(s) PROVE Tallied'
<1> DEFINE c == Channel(s)
           e == [subject |-> call[s].claims.subject, data |-> call[s].frame.body.data]
<1>1. At(s, "on_publish", "Publish") /\ UNCHANGED <<link, subs, balance, sent>>
  BY DEF OnPublish
<1>0. Gone' = Gone /\ call[s].pc \notin JoinPcs
  BY <1>1, LinkStays DEF At, JoinPcs
<1>2. CASE Fail(s, "Channel") /\ history' = history
  BY <1>0, <1>1, <1>2, FailMoves
<1>3. CASE /\ Len(history[c]) < MaxHistory
           /\ history' = [history EXCEPT ![c] = Append(@, e)]
           /\ call' = [call EXCEPT ![s].pc = "broker_publish", ![s].offset = Len(history[c])]
  <2> DEFINE r == [call[s] EXCEPT !.pc = "broker_publish", !.offset = Len(history[c])]
  <2>1. call' = [call EXCEPT ![s] = r]
    BY <1>3 DEF IInv, Shape
  <2>2. r.pc = "broker_publish" /\ r.frame = call[s].frame /\ r.offset = Len(history[c])
    BY DEF IInv, Shape, CallOK, CallFields
  <2> HIDE DEF r
  <2>3. \A t \in Sessions : call'[t] = IF t = s THEN r ELSE call[t]
    BY <2>1 DEF IInv, Shape
  <2>4. c \in Channels /\ e \in Entry
    <3>1. c \in Channels /\ call[s].frame.body.data \in Payloads
      BY <1>1, FrameIsRequest DEF IInv
    <3>2. call[s].claims \in Claims /\ call[s].claims # NoClaims
      BY <1>1 DEF IInv, Shape, CallOK, ClaimsKnown, At
    <3> QED BY <3>1, <3>2 DEF Claims, Entry
  <2> HIDE DEF e
  <2>5. \A d \in Channels : /\ Len(history[d]) \in Nat
                            /\ Len(history'[d]) = IF d = c THEN Len(history[d]) + 1 ELSE Len(history[d])
    <3>1. \A d \in Channels : history[d] \in Seq(Entry) /\ history'[d] = IF d = c THEN Append(history[d], e) ELSE history[d]
      BY <1>3, <2>4 DEF IInv, Shape
    <3>2. \A d \in Channels : Len(Append(history[d], e)) = Len(history[d]) + 1 /\ Len(history[d]) \in Nat
      BY <2>4, <3>1, SMT
    <3> QED BY <3>1, <3>2
  <2>6. \A d \in Channels : Len(history'[d]) <= MaxHistory /\ sent[d] \subseteq 0..(Len(history'[d]) - 1)
    BY <1>3, <2>4, <2>5, RequestConstants, SMT DEF Tallied
  <2>7. ASSUME NEW t \in Sessions, At(t, "broker_publish", "Publish")'
        PROVE  call'[t].offset \in 0..(Len(history'[Channel(t)']) - 1)
    <3>1. CASE t = s
      <4>1. Channel(t)' = c /\ call'[t].offset = Len(history[c])
        BY <2>2, <2>3, <3>1 DEF Channel
      <4> QED BY <2>4, <2>5, <4>1, SMT
    <3>2. CASE t # s
      <4>1. call'[t] = call[t] /\ At(t, "broker_publish", "Publish") /\ Channel(t)' = Channel(t)
        BY <2>3, <2>7, <3>2 DEF At, Channel
      <4>2. Channel(t) \in Channels
        BY <4>1, FrameIsRequest DEF IInv
      <4>3. call[t].offset \in 0..(Len(history[Channel(t)]) - 1)
        BY <4>1 DEF Tallied
      <4> QED BY <2>5, <4>1, <4>2, <4>3, SMT
    <3> QED BY <3>1, <3>2
  <2>8. \A t \in Sessions \ {s} : subs'[t] = subs[t] /\ call'[t] = call[t]
    BY <1>1, <2>3
  <2>9. balance' \in [Channels -> Int] /\ balance \in [Channels -> Int]
    BY <1>1 DEF Tallied
  <2>10. ASSUME NEW d \in Channels PROVE balance'[d] - balance[d] = Weight(s, d)' - Weight(s, d)
    <3>1. ~Joining(s, d)' /\ ~Joining(s, d)
      BY <1>0, <2>2, <2>3 DEF Joining, JoinPcs
    <3> QED BY <1>1, <2>9, <3>1, SMT DEF Weight, One
  <2>11. KindCountsSubscribers'
    BY <1>0, <2>8, <2>9, <2>10, BalanceFrame DEF Tallied
  <2> QED BY <1>1, <2>6, <2>7, <2>9, <2>11 DEF Tallied
<1> QED BY <1>2, <1>3 DEF OnPublish

LEMMA BrokerPublishTallied == ASSUME IInv, Tallied, NEW s \in Sessions, BrokerPublish(s) PROVE Tallied'
<1> DEFINE c == Channel(s)
<1>1. At(s, "broker_publish", "Publish") /\ UNCHANGED <<link, subs, balance, history>>
  BY DEF BrokerPublish
<1>0. Gone' = Gone /\ call[s].pc \notin JoinPcs
  BY <1>1, LinkStays DEF At, JoinPcs
<1>2. CASE Fail(s, "Broker") /\ sent' = sent
  BY <1>0, <1>1, <1>2, FailMoves
<1>3. CASE sent' = [sent EXCEPT ![c] = @ \union {call[s].offset}] /\ call' = [call EXCEPT ![s] = Idle]
  <2>1. c \in Channels /\ call[s].offset \in 0..(Len(history[c]) - 1)
    BY <1>1, FrameIsRequest DEF IInv, Tallied
  <2>2. sent' \in [Channels -> SUBSET Int]
    BY <1>3, <2>1, SMT DEF Tallied
  <2>3. \A d \in Channels : Len(history'[d]) <= MaxHistory /\ sent'[d] \subseteq 0..(Len(history'[d]) - 1)
    BY <1>1, <1>3, <2>1 DEF Tallied
  <2>4. \A t \in Sessions : call'[t] = IF t = s THEN Idle ELSE call[t]
    BY <1>3 DEF IInv, Shape
  <2>5. Idle.pc = "idle"
    BY IdleOK
  <2>6. ASSUME NEW t \in Sessions, At(t, "broker_publish", "Publish")'
        PROVE  call'[t].offset \in 0..(Len(history'[Channel(t)']) - 1)
    BY <1>1, <2>4, <2>5, <2>6 DEF Tallied, At, Channel
  <2>7. \A t \in Sessions \ {s} : subs'[t] = subs[t] /\ call'[t] = call[t]
    BY <1>1, <2>4
  <2>8. balance' \in [Channels -> Int] /\ balance \in [Channels -> Int]
    BY <1>1 DEF Tallied
  <2>9. ASSUME NEW d \in Channels PROVE balance'[d] - balance[d] = Weight(s, d)' - Weight(s, d)
    <3>1. ~Joining(s, d)' /\ ~Joining(s, d)
      BY <1>0, <2>4, <2>5 DEF Joining, JoinPcs
    <3> QED BY <1>1, <2>8, <3>1, SMT DEF Weight, One
  <2>10. KindCountsSubscribers'
    BY <1>0, <2>7, <2>8, <2>9, BalanceFrame DEF Tallied
  <2> QED BY <2>2, <2>3, <2>6, <2>8, <2>10 DEF Tallied
<1> QED BY <1>2, <1>3 DEF BrokerPublish

LEMMA LinkSteps ==
    ASSUME Tallied, UNCHANGED <<call, subs, balance, history, sent>>, Gone' = Gone
    PROVE  Tallied'
BY DEF Tallied, At, Channel, KindCountsSubscribers, Counted, Joining

LEMMA InitTallied == Init => Tallied
<1> SUFFICES ASSUME Init PROVE Tallied
  OBVIOUS
<1>1. \A s \in Sessions : call[s].pc = "idle"
  BY DEF Init, Idle
<1>2. balance \in [Channels -> Int] /\ sent \in [Channels -> SUBSET Int]
  BY SMT DEF Init
<1>3. \A c \in Channels : Len(history[c]) <= MaxHistory /\ sent[c] \subseteq 0..(Len(history[c]) - 1)
  BY RequestConstants, SMT DEF Init
<1>4. ASSUME NEW c \in Channels
      PROVE  Counted(c) <= balance[c] /\ balance[c] <= Counted(c) + Cardinality(Gone)
  <2> DEFINE A == {s \in Sessions : c \in subs[s]}
             J == {s \in Sessions : Joining(s, c)}
  <2>1. A = {} /\ J = {}
    BY <1>1 DEF Init, Joining
  <2>2. Cardinality({}) = 0 /\ balance[c] = 0
    BY FS_EmptySet DEF Init
  <2> HIDE DEF A, J
  <2>3. Cardinality(A) + Cardinality(J) = 0
    BY <2>1, <2>2, SMT
  <2>4. Counted(c) = 0
    BY <2>3 DEF A, J, Counted
  <2>5. Cardinality(Gone) \in Nat
    BY GoneCounts
  <2> QED BY <2>2, <2>4, <2>5, SMT
<1> QED BY <1>1, <1>2, <1>3, <1>4 DEF Tallied, At, KindCountsSubscribers

LEMMA NextTallied == IInv /\ Tallied /\ [Next]_vars => Tallied'
<1> SUFFICES ASSUME IInv, Tallied, [Next]_vars PROVE Tallied'
  OBVIOUS
<1>1. CASE UNCHANGED vars
  BY <1>1, LinkSteps, LinkStays DEF vars
<1>2. ASSUME NEW s \in Sessions, Handle(s) PROVE Tallied'
  BY <1>2, QuietSteps, OnSubscribeTallied, UnwindTallied, InsertTallied, HandleUnsubscribeTallied,
     OnUnsubscribeTallied, OnPublishTallied, BrokerPublishTallied, ZenonT(30) DEF Handle
<1>3. ASSUME NEW s \in Sessions, OpenSession(s) \/ Kick(s) PROVE Tallied'
  <2>1. UNCHANGED <<call, subs, balance, history, sent>>
    BY <1>3 DEF OpenSession, Kick
  <2>2. Gone' = Gone
    <3>1. CASE OpenSession(s)
      <4>1. link[s] = "none" /\ \A t \in Sessions : link'[t] = IF t = s THEN "open" ELSE link[t]
        BY <3>1 DEF OpenSession, IInv, Shape
      <4> QED BY <4>1 DEF Gone
    <3>2. CASE Kick(s)
      BY <3>2, LinkStays DEF Kick
    <3> QED BY <1>3, <3>1, <3>2
  <2> QED BY <2>1, <2>2, LinkSteps
<1>4. ASSUME NEW s \in Sessions, SessionStep(s) PROVE Tallied'
  BY <1>2, <1>3, <1>4, QuietSteps, LeaveTallied DEF SessionStep
<1> QED BY <1>1, <1>4 DEF Next, AllGone

LEMMA SpecTallied == Spec => []Tallied
BY InitIInv, NextIInv, InitTallied, NextTallied, PTL DEF Spec

(* The hub's state is well typed for any constants; in particular what was *)
(* handed to the broker for a channel is an offset its kind had assigned.  *)
THEOREM TypeCorrect == Spec => []TypeOK
<1>1. IInv /\ Tallied /\ ToldInv => TypeOK
  BY DEF IInv, Shape, CallOK, Tallied, ToldInv, TypeOK
<1> QED BY <1>1, SpecIInv, SpecTallied, SpecTold, PTL

(* hub.rs handle_subscribe and handle_unsubscribe: on every path through   *)
(* their early returns, a channel kind has been told of exactly the        *)
(* subscribers there are, but for at most one more per connection that is  *)
(* gone, wherever its handler's future was dropped.                        *)
THEOREM BalanceTheorem == Spec => []KindCountsSubscribers
<1>1. Tallied => KindCountsSubscribers
  BY DEF Tallied
<1> QED BY <1>1, SpecTallied, PTL

-----------------------------------------------------------------------------
(* The loop of NamespaceAcl::check, for a list of rules of any length.     *)

\* A set of naturals that is not empty has a least member.
LEMMA LeastNat ==
    ASSUME NEW T, T \subseteq Nat, T # {}
    PROVE  \E x \in T : \A y \in T : x <= y
<1> DEFINE R == OpToRel(<, Nat)
<1>1. IsWellFoundedOn(R, Nat)
  BY NatLessThanWellFounded
<1>2. \A x, y \in Nat : <<y, x>> \in R <=> y < x
  BY DEF OpToRel
<1> HIDE DEF R
<1>3. PICK x \in T : \A y \in T : ~(<<y, x>> \in R)
  BY <1>1, WFMin
<1>4. \A y \in T : ~(y < x)
  BY <1>2, <1>3, ZenonT(30)
<1> QED BY <1>4, SMT

\* What the rules from the i-th on decide.
Verdict(acl, subject, action, channel, i) ==
    LET hit == {j \in MatchingRules(acl, subject, action, channel) : j >= i}
    IN  IF hit = {} THEN acl.default_allow
        ELSE \E k \in hit : acl.rules[k].effect = "allow" /\ \A j \in hit : k <= j

\* One turn of the loop: the i-th rule decides, or the rules after it do.
LEMMA VerdictUnfolds ==
    ASSUME NEW acl, NEW subject, NEW action, NEW channel, Len(acl.rules) \in Nat,
           DOMAIN acl.rules = 1..Len(acl.rules), NEW i \in 1..(Len(acl.rules) + 1)
    PROVE  /\ i > Len(acl.rules) => Verdict(acl, subject, action, channel, i) = acl.default_allow
           /\ i <= Len(acl.rules) =>
                Verdict(acl, subject, action, channel, i) =
                  IF matches(acl.rules[i], subject, action, channel) THEN acl.rules[i].effect = "allow"
                  ELSE Verdict(acl, subject, action, channel, i + 1)
<1> DEFINE M == MatchingRules(acl, subject, action, channel)
           H(k) == {j \in M : j >= k}
           n == Len(acl.rules)
<1>1. M = {j \in 1..n : matches(acl.rules[j], subject, action, channel)}
  BY DEF MatchingRules
<1>2. \A k : Verdict(acl, subject, action, channel, k) =
        IF H(k) = {} THEN acl.default_allow
        ELSE \E m \in H(k) : acl.rules[m].effect = "allow" /\ \A j \in H(k) : m <= j
  BY DEF Verdict
<1> HIDE DEF M
<1>3. CASE i > n
  <2>1. H(i) = {}
    BY <1>1, <1>3, SMT
  <2> HIDE DEF H
  <2>2. Verdict(acl, subject, action, channel, i) = acl.default_allow
    BY <1>2, <2>1
  <2> QED BY <1>3, <2>2, SMT
<1>4. CASE i <= n /\ matches(acl.rules[i], subject, action, channel)
  <2>1. i \in H(i) /\ \A j \in H(i) : i <= j /\ (j <= i => j = i)
    BY <1>1, <1>4, SMT
  <2> HIDE DEF H
  <2>2. Verdict(acl, subject, action, channel, i) = (acl.rules[i].effect = "allow")
    BY <1>2, <2>1
  <2> QED BY <1>4, <2>2, SMT
<1>5. CASE i <= n /\ ~matches(acl.rules[i], subject, action, channel)
  <2>1. H(i) = H(i + 1)
    BY <1>1, <1>5, SMT
  <2> HIDE DEF H
  <2>2. Verdict(acl, subject, action, channel, i) = Verdict(acl, subject, action, channel, i + 1)
    BY <1>2, <2>1
  <2> QED BY <1>5, <2>2, SMT
<1> QED BY <1>3, <1>4, <1>5, ZenonT(30)

\* Verdict solves the equation that defines scan, and two solutions differ
\* nowhere: consider the last position at which they would.
LEMMA FirstMatch ==
    ASSUME NEW acl, NEW subject, NEW action, NEW channel, Len(acl.rules) \in Nat,
           DOMAIN acl.rules = 1..Len(acl.rules)
    PROVE  FirstMatchDecides(acl, subject, action, channel)
<1> DEFINE n == Len(acl.rules)
           S == 1..(n + 1)
           Body(f) == [i \in S |->
             CASE i > n -> acl.default_allow
               [] i <= n /\ matches(acl.rules[i], subject, action, channel) ->
                    acl.rules[i].effect = "allow"
               [] OTHER -> f[i + 1]]
           scan == CHOOSE f : f = Body(f)
           v == [i \in S |-> Verdict(acl, subject, action, channel, i)]
<1>1. check(acl, subject, action, channel) = scan[1]
  BY DEF check
<1>2. Body(v) = v
  <2>1. \A i \in S : Body(v)[i] = v[i]
    <3> SUFFICES ASSUME NEW i \in S PROVE Body(v)[i] = v[i]
      OBVIOUS
    <3>1. CASE i > n
      <4>1. v[i] = acl.default_allow
        BY <3>1, VerdictUnfolds
      <4>2. Body(v)[i] = acl.default_allow
        BY <3>1, SMT
      <4> QED BY <4>1, <4>2
    <3>2. CASE i <= n /\ matches(acl.rules[i], subject, action, channel)
      <4>1. v[i] = (acl.rules[i].effect = "allow")
        <5>1. Verdict(acl, subject, action, channel, i) = (acl.rules[i].effect = "allow")
          BY <3>2, VerdictUnfolds
        <5> QED BY <5>1
      <4>2. Body(v)[i] = (acl.rules[i].effect = "allow")
        BY <3>2, SMT
      <4> QED BY <4>1, <4>2
    <3>3. CASE i <= n /\ ~matches(acl.rules[i], subject, action, channel)
      <4>1. i + 1 \in S
        BY <3>3, SMT
      <4>2. v[i] = Verdict(acl, subject, action, channel, i + 1)
        BY <3>3, VerdictUnfolds
      <4>3. Body(v)[i] = v[i + 1]
        BY <3>3, SMT
      <4> QED BY <4>1, <4>2, <4>3
    <3> QED BY <3>1, <3>2, <3>3, SMT
  <2> QED BY <2>1
<1>3. scan = Body(scan)
  <2> HIDE DEF v, Body
  <2> QED BY <1>2
<1>4. ASSUME NEW i \in S PROVE scan[i] = v[i]
  <2> DEFINE T == {d \in 0..n : scan[n + 1 - d] # v[n + 1 - d]}
  <2>1. SUFFICES ASSUME T # {} PROVE FALSE
    <3>1. n + 1 - i \in 0..n /\ n + 1 - (n + 1 - i) = i
      BY SMT
    <3> HIDE DEF scan, v
    <3> QED BY <3>1
  <2>2. PICK d \in T : \A e \in T : d <= e
    <3>1. T \subseteq Nat
      BY SMT
    <3> HIDE DEF T
    <3> QED BY <2>1, <3>1, LeastNat
  <2> DEFINE k == n + 1 - d
  <2>3. d \in 0..n /\ k \in S /\ scan[k] # v[k]
    BY <2>2, SMT
  <2>4. k <= n => scan[k + 1] = v[k + 1]
    <3> SUFFICES ASSUME k <= n PROVE scan[k + 1] = v[k + 1]
      OBVIOUS
    <3>1. d - 1 \in 0..n /\ n + 1 - (d - 1) = k + 1 /\ ~(d <= d - 1)
      BY <2>3, SMT
    <3> HIDE DEF scan, v, k
    <3>2. d - 1 \notin T
      BY <2>2, <3>1
    <3> QED BY <3>1, <3>2
  <2>5. scan[k] = Body(scan)[k] /\ v[k] = Body(v)[k]
    BY <1>2, <1>3
  <2>6. Body(scan)[k] = Body(v)[k]
    <3> HIDE DEF scan, v, k
    <3> QED BY <2>3, <2>4, SMT
  <2> QED BY <2>3, <2>5, <2>6
<1>5. check(acl, subject, action, channel) = Verdict(acl, subject, action, channel, 1)
  <2>1. 1 \in S
    BY SMT
  <2>2. v[1] = Verdict(acl, subject, action, channel, 1)
    BY <2>1
  <2> HIDE DEF scan, v
  <2> QED BY <1>1, <1>4, <2>1, <2>2
<1>6. {j \in MatchingRules(acl, subject, action, channel) : j >= 1} =
        MatchingRules(acl, subject, action, channel)
  BY SMT DEF MatchingRules
<1> QED BY <1>5, <1>6 DEF FirstMatchDecides, Verdict

(* For every list of rules, subject, action and channel the verdict of     *)
(* NamespaceAcl::check is the effect of the earliest rule that matches, or *)
(* default_allow when none does (namespace_acl.rs check).                  *)
THEOREM AclTheorem == Spec => []AclFirstMatch
<1>1. IInv => AclFirstMatch
  <2> SUFFICES ASSUME config \in Configs PROVE AclFirstMatch
    BY DEF IInv, Shape
  <2>1. Len(config.acl.rules) \in Nat /\ DOMAIN config.acl.rules = 1..Len(config.acl.rules)
    BY RequestConstants
  <2> QED BY <2>1, FirstMatch DEF AclFirstMatch
<1> QED BY <1>1, SpecIInv, PTL
=============================================================================
