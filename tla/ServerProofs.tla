---------------------------- MODULE ServerProofs ----------------------------
(***************************************************************************)
(* For any set of configurations and addresses: the state of the process   *)
(* is well typed, the server listens only when everything it was asked to  *)
(* serve is served, and the exit status tells why it stopped.  For any     *)
(* outbox capacity, a connection it accepts answers requests in order.     *)
(*                                                                         *)
(* What the properties say of the end of start-up is not inductive: it     *)
(* rests on what each stage of build_hub and of run has established before *)
(* it hands over to the next.  Stages and Composed state that per stage.   *)
(*                                                                         *)
(* A connection is a pipeline: outbox, the frame being written, the wire.  *)
(* Its steps move frames along it, add one at its end, or lose what is not *)
(* on the wire.  Replies rise in number along it because the task reads a  *)
(* frame only when the reply to the one before is in the pipeline.         *)
(***************************************************************************)
EXTENDS Server, TLAPS

(* A leaf is set theory, and Zenon's, unless it cites another prover.         *)
USE Zenon

Names == {"ws", "sse", "admin"}

Statuses == {"SUCCESS", "RUNTIME_ERROR", "CONFIG_ERROR", "KILLED"}

\* What run has pushed, and where main can be, given what it has done so far.
Stages ==
    /\ pc \in {"load", "broker", "schema", "auth", "acl", "ws"} =>
          joins = <<>> /\ \A l \in Names : tasks[l] = "none"
    /\ pc = "sse" => Range(joins) = Enabled \cap {"ws"}
    /\ pc = "admin" => Range(joins) = Enabled \cap {"ws", "sse"}
    /\ pc \in {"listening", "announced", "waiting"} => Range(joins) = Enabled
    /\ pc = "waiting" => armed
    /\ armed => pc \in {"waiting", "dropping", "exited"}
    /\ exit = None <=> pc \notin {"dropping", "exited"}

\* An accept task is there once its listener's turn to be bound has come.
Spawned ==
    /\ \A l \in Range(joins) : tasks[l] # "none"
    /\ pc = "sse" => tasks["sse"] = "none" /\ tasks["admin"] = "none"
    /\ pc = "admin" => tasks["admin"] = "none"

BrokerBuilt == build_broker(config.broker) /\ hub.broker = config.broker.backend

SchemasBuilt == \A i \in 1..hub.schemas : SchemaCompiles(config.namespaces[i])

AuthBuilt ==
    /\ build_authenticator(config.auth)
    /\ (hub.authenticator = "allow-all") <=> (config.auth = None)

AclBuilt ==
    /\ build_acl(config.acl)
    /\ (hub.acl = "allow-all") <=> (config.acl = None)

\* What build_hub has put together when main is at each of its stages.
Composed ==
    /\ hub = [broker |-> hub.broker, schemas |-> hub.schemas,
              authenticator |-> hub.authenticator, acl |-> hub.acl]
    /\ pc \in {"load", "broker"} => hub.schemas = 0
    /\ pc \notin {"load", "dropping", "exited"} => config.loads
    /\ pc \notin {"load", "broker", "dropping", "exited"} => BrokerBuilt /\ SchemasBuilt
    /\ pc \notin {"load", "broker", "schema", "dropping", "exited"} =>
          hub.schemas = Len(config.namespaces)
    /\ pc \notin {"load", "broker", "schema", "auth", "dropping", "exited"} => AuthBuilt
    /\ pc \notin {"load", "broker", "schema", "auth", "acl", "dropping", "exited"} => AclBuilt
    /\ (\E l \in Names : tasks[l] # "none") =>
          /\ config.loads /\ BrokerBuilt /\ SchemasBuilt /\ AuthBuilt /\ AclBuilt
          /\ hub.schemas = Len(config.namespaces)

\* TypeOK in three parts: the plain variables, the hub and the join handles.
Plain ==
    /\ config \in Configs
    /\ taken \subseteq Addresses
    /\ pc \in {"load", "broker", "schema", "auth", "acl", "ws", "sse", "admin",
              "listening", "announced", "waiting", "dropping", "exited"}
    /\ conns \in 0..Clients
    /\ exit \in Statuses \cup {None}

Accepting ==
    /\ bound \in [Names -> Addresses \cup {None}]
    /\ tasks \in [Names -> {"none", "running", "aborting", "ok", "err", "panic", "cancelled"}]
    /\ \A l \in Names : (tasks[l] \in {"running", "aborting"}) <=> (bound[l] # None)

Counted == hub.schemas \in 0..Len(config.namespaces)

Watched == joins \in Seq(Names) /\ IsInjective(joins) /\ Range(joins) \subseteq Enabled

Flags == armed \in BOOLEAN /\ signalled \in BOOLEAN

IInv ==
    /\ Plain /\ Accepting /\ Counted /\ Watched /\ Flags
    /\ Stages /\ Spawned /\ Composed /\ ExitTellsWhy

-----------------------------------------------------------------------------
(* The three listeners.                                                    *)
LEMMA ListenerNames == Range(Listeners) = Names
BY SMT DEF Range, Listeners, Names

(* An enabled listener has an address.                                     *)
LEMMA EnabledHasAddress ==
    ASSUME config \in Configs, NEW l \in Enabled
    PROVE  Listen(l) \in Addresses
BY ListenerNames, ServerAssumption DEF Enabled, Listen, Names

(* joins.push adds the listener to what wait watches, once.                *)
LEMMA PushJoin ==
    ASSUME joins \in Seq(Names), NEW l \in Names, IsInjective(joins), l \notin Range(joins)
    PROVE  /\ Append(joins, l) \in Seq(Names)
           /\ Range(Append(joins, l)) = Range(joins) \cup {l}
           /\ IsInjective(Append(joins, l))
<1> DEFINE n == Len(joins)
<1> DEFINE a == Append(joins, l)
<1>1. n \in Nat /\ DOMAIN joins = 1..n
  BY SMT
<1>2. a \in Seq(Names) /\ DOMAIN a = 1..(n + 1)
  BY SMT
<1>3. a[n + 1] = l /\ \A i \in 1..n : a[i] = joins[i]
  BY SMT
<1>4. DOMAIN a = (1..n) \cup {n + 1}
  BY <1>1, <1>2, SMT
<1> HIDE DEF a, n
<1>5. Range(a) = Range(joins) \cup {l}
  BY <1>1, <1>3, <1>4, ZenonT(30) DEF Range
<1>6. \A i \in 1..n : joins[i] # l
  BY <1>1 DEF Range
<1>7. IsInjective(a)
  BY <1>1, <1>3, <1>4, <1>6 DEF IsInjective
<1> QED
  BY <1>2, <1>5, <1>7 DEF a

(* The empty vector watches nothing.                                       *)
LEMMA NoJoins == <<>> \in Seq(Names) /\ Range(<<>>) = {} /\ IsInjective(<<>>)
BY SMT DEF Range, IsInjective

-----------------------------------------------------------------------------
(* The parts make up the type invariant.                                   *)
LEMMA IInvTypes == IInv => TypeOK
<1> SUFFICES ASSUME IInv PROVE TypeOK
  OBVIOUS
<1>1. DOMAIN tasks = Names
  BY DEF IInv, Accepting
<1> QED
  BY <1>1, ListenerNames
     DEF IInv, TypeOK, Plain, Accepting, Counted, Watched, Flags, Statuses

(* Initially main is at its first stage.                                   *)
LEMMA InitIInv == Init => IInv
<1> SUFFICES ASSUME Init PROVE IInv
  OBVIOUS
<1> USE ListenerNames, ServerAssumption DEF Init
<1>1. Plain /\ Accepting /\ Flags
  <2>1. Plain
    BY SMT DEF Plain
  <2>2. Accepting
    BY DEF Accepting, Names
  <2>3. Flags
    BY DEF Flags
  <2> QED
    BY <2>1, <2>2, <2>3
<1>2. Counted
  BY SMT DEF Counted, NoHub
<1>3. Watched
  BY NoJoins DEF Watched
<1>4. Stages
  BY DEF Stages, Names
<1>5. Composed
  BY DEF Composed, NoHub, Names
<1>6. ExitTellsWhy
  BY DEF ExitTellsWhy
<1>7. Spawned
  BY NoJoins DEF Spawned
<1> QED
  BY <1>1, <1>2, <1>3, <1>4, <1>5, <1>6, <1>7 DEF IInv

-----------------------------------------------------------------------------
(* One step.                                                               *)

(* Main stays on its course, and the counters in their bounds.             *)
LEMMA StepPlain ==
    ASSUME IInv, [Next]_vars
    PROVE  Plain'
<1> USE ListenerNames, ServerAssumption DEF IInv, Plain, Statuses, Names
<1>1. CASE Load
  BY <1>1 DEF Load, Undisturbed, Return
<1>2. CASE BuildBroker
  BY <1>2 DEF BuildBroker, Undisturbed, Return
<1>3. CASE BuildSchema
  BY <1>3 DEF BuildSchema, Undisturbed, Return
<1>4. CASE BuildAuthenticator
  BY <1>4 DEF BuildAuthenticator, Undisturbed, Return
<1>5. CASE BuildAcl
  BY <1>5 DEF BuildAcl, Undisturbed, Return
<1>6. CASE Announce
  BY <1>6 DEF Announce, Undisturbed
<1>7. CASE EnterSelect
  BY <1>7 DEF EnterSelect
<1>8. CASE Wait
  BY <1>8 DEF Wait, Undisturbed, Return, Outcome
<1>9. CASE ShutdownSignal
  BY <1>9 DEF ShutdownSignal, Undisturbed, Return
<1>10. CASE Exit
  BY <1>10 DEF Exit, Undisturbed
<1>11. CASE DropConnection
  BY <1>11, SMT DEF DropConnection
<1>12. CASE Leave
  BY <1>12, SMT DEF Leave
<1>13. CASE Signal
  BY <1>13, SMT DEF Signal
<1>14. ASSUME NEW l \in Names, Bind(l) PROVE Plain'
  BY <1>14 DEF Bind, Undisturbed, Return, After
<1>15. ASSUME NEW l \in Names, DropTask(l) PROVE Plain'
  BY <1>15 DEF DropTask
<1>16. ASSUME NEW l \in Names, Accept(l) PROVE Plain'
  BY <1>16, SMT DEF Accept
<1>17. ASSUME NEW l \in Names, NEW how \in {"ok", "err", "panic"}, TaskEnds(l, how) PROVE Plain'
  BY <1>17 DEF TaskEnds
<1>18. ASSUME NEW a \in Addresses, Occupy(a) PROVE Plain'
  BY <1>18 DEF Occupy
<1>19. CASE UNCHANGED vars
  BY <1>19 DEF vars
<1> HIDE DEF IInv, Plain, Statuses
<1> QED
  BY <1>1, <1>2, <1>3, <1>4, <1>5, <1>6, <1>7, <1>8, <1>9, <1>10, <1>11, <1>12, <1>13, <1>14, <1>15, <1>16, <1>17, <1>18, <1>19
     DEF Next, Main, Environment, Terminated

(* A listener is bound exactly while its accept task is there.             *)
LEMMA StepAccepting ==
    ASSUME IInv, [Next]_vars
    PROVE  Accepting'
<1> USE ListenerNames, ServerAssumption DEF IInv, Plain, Accepting, Names
<1>1. CASE Load
  BY <1>1 DEF Load, Undisturbed, Return
<1>2. CASE BuildBroker
  BY <1>2 DEF BuildBroker, Undisturbed, Return
<1>3. CASE BuildSchema
  BY <1>3 DEF BuildSchema, Undisturbed, Return
<1>4. CASE BuildAuthenticator
  BY <1>4 DEF BuildAuthenticator, Undisturbed, Return
<1>5. CASE BuildAcl
  BY <1>5 DEF BuildAcl, Undisturbed, Return
<1>6. CASE Announce
  BY <1>6 DEF Announce, Undisturbed
<1>7. CASE EnterSelect
  BY <1>7 DEF EnterSelect
<1>8. CASE Wait
  BY <1>8, ZenonT(30) DEF Wait, Undisturbed, Return
<1>9. CASE ShutdownSignal
  BY <1>9 DEF ShutdownSignal, Undisturbed, Return
<1>10. CASE Exit
  BY <1>10 DEF Exit, Undisturbed
<1>11. CASE DropConnection
  BY <1>11 DEF DropConnection
<1>12. CASE Leave
  BY <1>12 DEF Leave
<1>13. CASE Signal
  <2>1. CASE armed
    BY <1>13, <2>1 DEF Signal
  <2>2. CASE ~armed
    <3>1. /\ bound' = [l \in Names |-> None]
          /\ tasks' = [l \in Names |-> IF tasks[l] \in {"running", "aborting"} THEN "cancelled" ELSE tasks[l]]
      BY <1>13, <2>2 DEF Signal
    <3> QED
      BY <3>1
  <2> QED
    BY <2>1, <2>2
<1>14. ASSUME NEW l \in Names, Bind(l) PROVE Accepting'
  BY <1>14, EnabledHasAddress, SMT DEF Bind, Undisturbed, Return
<1>15. ASSUME NEW l \in Names, DropTask(l) PROVE Accepting'
  BY <1>15 DEF DropTask
<1>16. ASSUME NEW l \in Names, Accept(l) PROVE Accepting'
  BY <1>16 DEF Accept
<1>17. ASSUME NEW l \in Names, NEW how \in {"ok", "err", "panic"}, TaskEnds(l, how) PROVE Accepting'
  BY <1>17 DEF TaskEnds
<1>18. ASSUME NEW a \in Addresses, Occupy(a) PROVE Accepting'
  BY <1>18 DEF Occupy
<1>19. CASE UNCHANGED vars
  BY <1>19 DEF vars
<1> HIDE DEF IInv, Plain, Accepting
<1> QED
  BY <1>1, <1>2, <1>3, <1>4, <1>5, <1>6, <1>7, <1>8, <1>9, <1>10, <1>11, <1>12, <1>13, <1>14, <1>15, <1>16, <1>17, <1>18, <1>19
     DEF Next, Main, Environment, Terminated

(* The loop over the namespaces stays in its range.                        *)
LEMMA StepCounted ==
    ASSUME IInv, [Next]_vars
    PROVE  Counted'
<1> USE ListenerNames, ServerAssumption DEF IInv, Plain, Counted, Composed
<1>1. CASE Load
  BY <1>1 DEF Load, Undisturbed, Return
<1>2. CASE BuildBroker
  BY <1>2 DEF BuildBroker, Undisturbed, Return
<1>3. CASE BuildSchema
  BY <1>3, SMT DEF BuildSchema, Undisturbed, Return
<1>4. CASE BuildAuthenticator
  BY <1>4 DEF BuildAuthenticator, Undisturbed, Return
<1>5. CASE BuildAcl
  BY <1>5 DEF BuildAcl, Undisturbed, Return
<1>6. CASE Announce
  BY <1>6 DEF Announce, Undisturbed
<1>7. CASE EnterSelect
  BY <1>7 DEF EnterSelect
<1>8. CASE Wait
  BY <1>8 DEF Wait, Undisturbed, Return
<1>9. CASE ShutdownSignal
  BY <1>9 DEF ShutdownSignal, Undisturbed, Return
<1>10. CASE Exit
  BY <1>10 DEF Exit, Undisturbed
<1>11. CASE DropConnection
  BY <1>11 DEF DropConnection
<1>12. CASE Leave
  BY <1>12 DEF Leave
<1>13. CASE Signal
  BY <1>13 DEF Signal
<1>14. ASSUME NEW l \in Names, Bind(l) PROVE Counted'
  BY <1>14 DEF Bind, Undisturbed
<1>15. ASSUME NEW l \in Names, DropTask(l) PROVE Counted'
  BY <1>15 DEF DropTask
<1>16. ASSUME NEW l \in Names, Accept(l) PROVE Counted'
  BY <1>16 DEF Accept
<1>17. ASSUME NEW l \in Names, NEW how \in {"ok", "err", "panic"}, TaskEnds(l, how) PROVE Counted'
  BY <1>17 DEF TaskEnds
<1>18. ASSUME NEW a \in Addresses, Occupy(a) PROVE Counted'
  BY <1>18 DEF Occupy
<1>19. CASE UNCHANGED vars
  BY <1>19 DEF vars
<1> HIDE DEF IInv, Plain, Counted, Composed
<1> QED
  BY <1>1, <1>2, <1>3, <1>4, <1>5, <1>6, <1>7, <1>8, <1>9, <1>10, <1>11, <1>12, <1>13, <1>14, <1>15, <1>16, <1>17, <1>18, <1>19
     DEF Next, Main, Environment, Terminated

(* Each accept task is watched at most once.                               *)
LEMMA StepWatched ==
    ASSUME IInv, [Next]_vars
    PROVE  Watched'
<1> USE ListenerNames, ServerAssumption DEF IInv, Plain, Watched, Stages, Enabled, Listen, Names
<1>1. CASE Load
  BY <1>1 DEF Load, Undisturbed, Return
<1>2. CASE BuildBroker
  BY <1>2 DEF BuildBroker, Undisturbed, Return
<1>3. CASE BuildSchema
  BY <1>3 DEF BuildSchema, Undisturbed, Return
<1>4. CASE BuildAuthenticator
  BY <1>4 DEF BuildAuthenticator, Undisturbed, Return
<1>5. CASE BuildAcl
  BY <1>5 DEF BuildAcl, Undisturbed, Return
<1>6. CASE Announce
  BY <1>6 DEF Announce, Undisturbed
<1>7. CASE EnterSelect
  BY <1>7 DEF EnterSelect
<1>8. CASE Wait
  BY <1>8, NoJoins DEF Wait, Undisturbed
<1>9. CASE ShutdownSignal
  BY <1>9, NoJoins DEF ShutdownSignal, Undisturbed
<1>10. CASE Exit
  BY <1>10 DEF Exit, Undisturbed
<1>11. CASE DropConnection
  BY <1>11 DEF DropConnection
<1>12. CASE Leave
  BY <1>12 DEF Leave
<1>13. CASE Signal
  BY <1>13 DEF Signal
<1>14. ASSUME NEW l \in Names, Bind(l) PROVE Watched'
  <2>1. Enabled' = Enabled
    BY <1>14 DEF Bind, Undisturbed
  <2>2. CASE joins' = Append(joins, l) /\ l \in Enabled
    <3>1. l \notin Range(joins)
      BY <1>14, NoJoins DEF Bind
    <3>2. /\ joins' \in Seq(Names)
          /\ Range(joins') = Range(joins) \cup {l}
          /\ IsInjective(joins')
      BY <2>2, <3>1, PushJoin
    <3> HIDE DEF Enabled
    <3> QED
      BY <2>1, <2>2, <3>2
  <2>3. CASE joins' = <<>>
    BY <2>1, <2>3, NoJoins
  <2>4. CASE joins' = joins
    BY <2>1, <2>4
  <2> QED
    BY <1>14, <2>2, <2>3, <2>4 DEF Bind
<1>15. ASSUME NEW l \in Names, DropTask(l) PROVE Watched'
  BY <1>15 DEF DropTask
<1>16. ASSUME NEW l \in Names, Accept(l) PROVE Watched'
  BY <1>16 DEF Accept
<1>17. ASSUME NEW l \in Names, NEW how \in {"ok", "err", "panic"}, TaskEnds(l, how) PROVE Watched'
  BY <1>17 DEF TaskEnds
<1>18. ASSUME NEW a \in Addresses, Occupy(a) PROVE Watched'
  BY <1>18 DEF Occupy
<1>19. CASE UNCHANGED vars
  BY <1>19 DEF vars
<1> HIDE ServerAssumption DEF IInv, Plain, Watched, Stages, Enabled, Listen, Names
<1> HIDE DEF IInv, Plain, Watched, Stages, Enabled, Listen
<1> QED
  BY <1>1, <1>2, <1>3, <1>4, <1>5, <1>6, <1>7, <1>8, <1>9, <1>10, <1>11, <1>12, <1>13, <1>14, <1>15, <1>16, <1>17, <1>18, <1>19
     DEF Next, Main, Environment, Terminated

(* The flags are flags.                                                    *)
LEMMA StepFlags ==
    ASSUME IInv, [Next]_vars
    PROVE  Flags'
<1> USE ListenerNames, ServerAssumption DEF IInv, Flags
<1>1. CASE Load
  BY <1>1 DEF Load, Undisturbed, Return
<1>2. CASE BuildBroker
  BY <1>2 DEF BuildBroker, Undisturbed, Return
<1>3. CASE BuildSchema
  BY <1>3 DEF BuildSchema, Undisturbed, Return
<1>4. CASE BuildAuthenticator
  BY <1>4 DEF BuildAuthenticator, Undisturbed, Return
<1>5. CASE BuildAcl
  BY <1>5 DEF BuildAcl, Undisturbed, Return
<1>6. CASE Announce
  BY <1>6 DEF Announce, Undisturbed
<1>7. CASE EnterSelect
  BY <1>7 DEF EnterSelect
<1>8. CASE Wait
  BY <1>8 DEF Wait, Undisturbed, Return
<1>9. CASE ShutdownSignal
  BY <1>9 DEF ShutdownSignal, Undisturbed, Return
<1>10. CASE Exit
  BY <1>10 DEF Exit, Undisturbed
<1>11. CASE DropConnection
  BY <1>11 DEF DropConnection
<1>12. CASE Leave
  BY <1>12 DEF Leave
<1>13. CASE Signal
  BY <1>13 DEF Signal
<1>14. ASSUME NEW l \in Names, Bind(l) PROVE Flags'
  BY <1>14 DEF Bind, Undisturbed, Return
<1>15. ASSUME NEW l \in Names, DropTask(l) PROVE Flags'
  BY <1>15 DEF DropTask
<1>16. ASSUME NEW l \in Names, Accept(l) PROVE Flags'
  BY <1>16 DEF Accept
<1>17. ASSUME NEW l \in Names, NEW how \in {"ok", "err", "panic"}, TaskEnds(l, how) PROVE Flags'
  BY <1>17 DEF TaskEnds
<1>18. ASSUME NEW a \in Addresses, Occupy(a) PROVE Flags'
  BY <1>18 DEF Occupy
<1>19. CASE UNCHANGED vars
  BY <1>19 DEF vars
<1> HIDE DEF IInv, Flags
<1> QED
  BY <1>1, <1>2, <1>3, <1>4, <1>5, <1>6, <1>7, <1>8, <1>9, <1>10, <1>11, <1>12, <1>13, <1>14, <1>15, <1>16, <1>17, <1>18, <1>19
     DEF Next, Main, Environment, Terminated

(* What the stages of run have established is kept.                        *)
LEMMA StepStages ==
    ASSUME IInv, [Next]_vars
    PROVE  Stages'
<1> USE ListenerNames, ServerAssumption DEF IInv, Plain, Accepting, Watched, Stages, Enabled, Listen, Names
<1>1. CASE Load
  BY <1>1 DEF Load, Undisturbed, Return
<1>2. CASE BuildBroker
  BY <1>2 DEF BuildBroker, Undisturbed, Return
<1>3. CASE BuildSchema
  BY <1>3 DEF BuildSchema, Undisturbed, Return
<1>4. CASE BuildAuthenticator
  BY <1>4 DEF BuildAuthenticator, Undisturbed, Return
<1>5. CASE BuildAcl
  BY <1>5 DEF BuildAcl, Undisturbed, Return
<1>6. CASE Announce
  BY <1>6, ZenonT(30) DEF Announce, Undisturbed
<1>7. CASE EnterSelect
  BY <1>7, ZenonT(30) DEF EnterSelect
<1>8. CASE Wait
  BY <1>8 DEF Wait, Undisturbed, Return, Outcome
<1>9. CASE ShutdownSignal
  BY <1>9 DEF ShutdownSignal, Undisturbed, Return
<1>10. CASE Exit
  BY <1>10 DEF Exit, Undisturbed
<1>11. CASE DropConnection
  BY <1>11 DEF DropConnection
<1>12. CASE Leave
  BY <1>12, SMT DEF Leave
<1>13. CASE Signal
  BY <1>13, SMT DEF Signal
<1>14. ASSUME NEW l \in Names, Bind(l) PROVE Stages'
  <2>1. Enabled' = Enabled /\ armed' = armed /\ pc = l
    BY <1>14, SMT DEF Bind, Undisturbed
  <2>a. Enabled \subseteq Names
    BY SMT
  <2> HIDE DEF Enabled, Accepting
  <2>2. CASE /\ l \in Enabled /\ pc' = After(l)
             /\ joins' = Append(joins, l) /\ exit' = exit
    <3>1. Range(joins') = Range(joins) \cup {l}
      <4>1. l \notin Range(joins)
        BY <2>1, NoJoins
      <4> QED
        BY <2>2, <4>1, PushJoin
    <3>2. CASE l = "ws"
      <4>1. Range(joins) = {}
        BY <2>1, <3>2, NoJoins
      <4> QED
        BY <2>1, <2>a, <2>2, <3>1, <3>2, <4>1, ZenonT(30) DEF After
    <3>3. CASE l = "sse"
      BY <2>1, <2>a, <2>2, <3>1, <3>3, SMT DEF After
    <3>4. CASE l = "admin"
      BY <2>1, <2>a, <2>2, <3>1, <3>4, SMT DEF After
    <3> QED
      BY <3>2, <3>3, <3>4
  <2>3. CASE pc' = "dropping" /\ exit' = "RUNTIME_ERROR"
    BY <2>1, <2>a, <2>3
  <2>4. CASE l \notin Enabled /\ pc' = After(l) /\ UNCHANGED <<joins, exit>>
    <3>1. CASE l = "ws"
      <4>1. Range(joins) = {}
        BY <2>1, <3>1, NoJoins
      <4> QED
        BY <2>1, <2>a, <2>4, <3>1, <4>1 DEF After
    <3>2. CASE l = "sse"
      BY <2>1, <2>a, <2>4, <3>2, ZenonT(30) DEF After
    <3>3. CASE l = "admin"
      <4>1. pc' = "listening" /\ joins' = joins /\ exit' = exit
        BY <2>4, <3>3 DEF After
      <4>2. Range(joins) = Enabled
        <5>1. Range(joins) = Enabled \cap {"ws", "sse"}
          BY <2>1, <3>3
        <5>2. Enabled \subseteq {"ws", "sse"}
          <6> HIDE DEF IInv, Stages, Plain, Watched
          <6> QED BY <2>a, <2>4, <3>3
        <5> QED BY <5>1, <5>2
      <4> QED
        BY <2>1, <2>a, <4>1, <4>2
    <3> QED
      BY <3>1, <3>2, <3>3
  <2> QED
    BY <1>14, <2>2, <2>3, <2>4 DEF Bind, Return
<1>15. ASSUME NEW l \in Names, DropTask(l) PROVE Stages'
  BY <1>15, SMT DEF DropTask
<1>16. ASSUME NEW l \in Names, Accept(l) PROVE Stages'
  BY <1>16, SMT DEF Accept
<1>17. ASSUME NEW l \in Names, NEW how \in {"ok", "err", "panic"}, TaskEnds(l, how) PROVE Stages'
  BY <1>17, SMT DEF TaskEnds
<1>18. ASSUME NEW a \in Addresses, Occupy(a) PROVE Stages'
  BY <1>18, ZenonT(30) DEF Occupy
<1>19. CASE UNCHANGED vars
  BY <1>19, SMT DEF vars
<1> HIDE DEF IInv, Plain, Accepting, Watched, Stages, Enabled, Listen
<1> QED
  BY <1>1, <1>2, <1>3, <1>4, <1>5, <1>6, <1>7, <1>8, <1>9, <1>10, <1>11, <1>12, <1>13, <1>14, <1>15, <1>16, <1>17, <1>18, <1>19
     DEF Next, Main, Environment, Terminated

(* What the hub was composed from is kept.                                 *)
LEMMA StepComposed ==
    ASSUME IInv, [Next]_vars
    PROVE  Composed'
<1> USE ListenerNames, ServerAssumption DEF IInv, Plain, Accepting, Counted, Composed, Stages, BrokerBuilt, SchemasBuilt, AuthBuilt, AclBuilt, Names
<1>1. CASE Load
  BY <1>1 DEF Load, Undisturbed, Return
<1>2. CASE BuildBroker
  BY <1>2, SMT DEF BuildBroker, Undisturbed, Return
<1>3. CASE BuildSchema
  BY <1>3, SMT DEF BuildSchema, Undisturbed, Return
<1>4. CASE BuildAuthenticator
  BY <1>4, ZenonT(30) DEF BuildAuthenticator, Undisturbed, Return
<1>5. CASE BuildAcl
  BY <1>5, ZenonT(30) DEF BuildAcl, Undisturbed, Return
<1>6. CASE Announce
  BY <1>6 DEF Announce, Undisturbed
<1>7. CASE EnterSelect
  BY <1>7 DEF EnterSelect
<1>8. CASE Wait
  BY <1>8 DEF Wait, Undisturbed, Return
<1>9. CASE ShutdownSignal
  BY <1>9 DEF ShutdownSignal, Undisturbed, Return
<1>10. CASE Exit
  BY <1>10 DEF Exit, Undisturbed
<1>11. CASE DropConnection
  BY <1>11 DEF DropConnection
<1>12. CASE Leave
  BY <1>12 DEF Leave
<1>13. CASE Signal
  BY <1>13, ZenonT(30) DEF Signal
<1>14. ASSUME NEW l \in Names, Bind(l) PROVE Composed'
  <2>1. UNCHANGED <<config, hub>> /\ pc = l
    BY <1>14 DEF Bind, Undisturbed
  <2>2. pc' \notin {"load", "broker"}
    BY <1>14 DEF Bind, Return, After
  <2>3. /\ config.loads /\ BrokerBuilt /\ SchemasBuilt /\ AuthBuilt /\ AclBuilt
        /\ hub.schemas = Len(config.namespaces)
    BY <2>1
  <2> QED
    BY <2>1, <2>2, <2>3
<1>15. ASSUME NEW l \in Names, DropTask(l) PROVE Composed'
  BY <1>15 DEF DropTask
<1>16. ASSUME NEW l \in Names, Accept(l) PROVE Composed'
  BY <1>16 DEF Accept
<1>17. ASSUME NEW l \in Names, NEW how \in {"ok", "err", "panic"}, TaskEnds(l, how) PROVE Composed'
  BY <1>17 DEF TaskEnds
<1>18. ASSUME NEW a \in Addresses, Occupy(a) PROVE Composed'
  BY <1>18 DEF Occupy
<1>19. CASE UNCHANGED vars
  BY <1>19 DEF vars
<1> HIDE DEF IInv, Plain, Accepting, Counted, Composed, Stages, BrokerBuilt, SchemasBuilt, AuthBuilt, AclBuilt
<1> QED
  BY <1>1, <1>2, <1>3, <1>4, <1>5, <1>6, <1>7, <1>8, <1>9, <1>10, <1>11, <1>12, <1>13, <1>14, <1>15, <1>16, <1>17, <1>18, <1>19
     DEF Next, Main, Environment, Terminated

(* No step undoes a spawn, or changes what an accept task ended with.      *)
LEMMA StepTasks ==
    ASSUME IInv, [Next]_vars
    PROVE  /\ config' = config
           /\ \A l \in Names : tasks[l] # "none" => tasks'[l] # "none"
           /\ \A l \in Names : tasks[l] \in {"ok", "err", "panic"} => tasks'[l] = tasks[l]
           /\ (\E l \in Names : Bind(l)) \/ \A l \in Names : tasks[l] = "none" => tasks'[l] = "none"
<1> USE ListenerNames DEF IInv, Accepting
<1>1. CASE UNCHANGED <<config, tasks>>
  BY <1>1
<1>2. CASE Wait
  BY <1>2 DEF Wait, Undisturbed
<1>3. CASE Signal
  BY <1>3, ZenonT(30) DEF Signal
<1>4. ASSUME NEW l \in Names, Bind(l)
      PROVE  /\ config' = config
             /\ \A k \in Names : tasks[k] # "none" => tasks'[k] # "none"
             /\ \A k \in Names : tasks[k] \in {"ok", "err", "panic"} => tasks'[k] = tasks[k]
  <2>1. config' = config /\ pc = l
    BY <1>4 DEF Bind, Undisturbed
  <2>2. tasks' = tasks \/ tasks' = [tasks EXCEPT ![l] = "running"]
    BY <1>4 DEF Bind
  <2>3. tasks[l] = "none"
    BY <2>1, SMT DEF Stages, Spawned, Names
  <2> QED
    BY <2>1, <2>2, <2>3
<1>5. ASSUME NEW l \in Names, DropTask(l)
      PROVE  /\ config' = config /\ tasks[l] \in {"running", "aborting"}
             /\ tasks' = [tasks EXCEPT ![l] = "cancelled"]
  BY <1>5 DEF DropTask
<1>6. ASSUME NEW l \in Names, NEW how \in {"ok", "err", "panic"}, TaskEnds(l, how)
      PROVE  config' = config /\ tasks[l] = "running" /\ tasks' = [tasks EXCEPT ![l] = how]
  BY <1>6 DEF TaskEnds
<1> HIDE DEF IInv
<1>7. CASE \E l \in Names : DropTask(l)
  BY <1>5, <1>7 DEF IInv
<1>8. CASE \E l \in Names : \E how \in {"ok", "err", "panic"} : TaskEnds(l, how)
  BY <1>6, <1>8 DEF IInv
<1>9. CASE \/ Load \/ BuildBroker \/ BuildSchema \/ BuildAuthenticator \/ BuildAcl
           \/ Announce \/ EnterSelect \/ ShutdownSignal \/ Exit \/ DropConnection \/ Leave
           \/ (\E l \in Names : Accept(l)) \/ (\E a \in Addresses : Occupy(a)) \/ UNCHANGED vars
  BY <1>1, <1>9 DEF Load, BuildBroker, BuildSchema, BuildAuthenticator, BuildAcl, Announce, EnterSelect,
       ShutdownSignal, Exit, DropConnection, Leave, Accept, Occupy, Undisturbed, vars
<1>10. CASE \E l \in Names : Bind(l)
  BY <1>4, <1>10
<1> HIDE DEF Accepting
<1> QED
  BY <1>2, <1>3, <1>7, <1>8, <1>9, <1>10 DEF Next, Main, Environment, Terminated

(* What has been spawned is kept.                                          *)
LEMMA StepSpawned ==
    ASSUME IInv, [Next]_vars
    PROVE  Spawned'
<1>1. Range(joins) \subseteq Names /\ Range(<<>>) = {}
  BY NoJoins, ListenerNames DEF IInv, Watched, Enabled
<1>2. ASSUME NEW l \in Names, Bind(l)
      PROVE  Spawned'
  <2>1. CASE joins' = joins /\ tasks' = tasks /\ pc' = After(l) /\ pc = l
    BY <2>1 DEF IInv, Stages, Spawned, After, Names
  <2>2. CASE joins' = <<>> /\ pc' = "dropping"
    BY <1>1, <2>2 DEF Spawned
  <2>3. CASE /\ joins' = Append(joins, l) /\ tasks' = [tasks EXCEPT ![l] = "running"]
             /\ pc' = After(l) /\ pc = l
    <3>1. l \notin Range(joins)
      BY <2>3, NoJoins DEF IInv, Stages, Names
    <3>2. Range(joins') = Range(joins) \cup {l}
      BY <2>3, <3>1, PushJoin DEF IInv, Watched
    <3>3. DOMAIN tasks = Names
      BY DEF IInv, Accepting
    <3>4. \A k \in Range(joins') : tasks'[k] # "none"
      BY <1>1, <2>3, <3>2, <3>3 DEF IInv, Spawned
    <3>5. \A k \in Names : k # l => tasks'[k] = tasks[k]
      BY <2>3, <3>3
    <3> QED
      BY <2>3, <3>4, <3>5 DEF IInv, Stages, Spawned, After, Names
  <2> QED
    BY <1>2, <2>1, <2>2, <2>3 DEF Bind, Return
<1>3. ASSUME ~ \E l \in Names : Bind(l)
      PROVE  /\ joins' = joins \/ joins' = <<>>
             /\ pc' \in {"sse", "admin"} => pc' = pc
  <2>1. CASE Load \/ BuildBroker \/ BuildSchema \/ BuildAuthenticator \/ BuildAcl
             \/ Announce \/ EnterSelect \/ Wait \/ ShutdownSignal \/ Exit \/ DropConnection
             \/ Leave \/ Signal \/ (\E a \in Addresses : Occupy(a)) \/ UNCHANGED vars
    BY <2>1 DEF Load, BuildBroker, BuildSchema, BuildAuthenticator, BuildAcl, Announce, EnterSelect,
         Wait, ShutdownSignal, Exit, DropConnection, Leave, Signal, Occupy, Return, vars
  <2>2. CASE \E l \in Names : \/ DropTask(l) \/ Accept(l)
                              \/ \E how \in {"ok", "err", "panic"} : TaskEnds(l, how)
    BY <2>2 DEF DropTask, Accept, TaskEnds
  <2> QED
    BY <1>3, <2>1, <2>2, ListenerNames DEF Next, Main, Environment, Terminated
<1>4. CASE ~ \E l \in Names : Bind(l)
  BY <1>1, <1>3, <1>4, StepTasks DEF IInv, Spawned, Names
<1> QED
  BY <1>2, <1>4

(* A status that is set stays, unless a signal kills the process.          *)
LEMMA StatusStays ==
    ASSUME IInv, [Next]_vars, exit # None
    PROVE  /\ exit' = "KILLED" \/ UNCHANGED exit
           /\ ~ \E l \in Names : Bind(l)
           /\ armed' = armed /\ (signalled => signalled')
<1>1. pc \in {"dropping", "exited"}
  BY DEF IInv, Stages
<1>2. ~ \E l \in Names : Bind(l)
  BY <1>1 DEF Bind, Names
<1>3. CASE Signal
  BY <1>2, <1>3 DEF Signal
<1>4. CASE Exit \/ DropConnection \/ Leave \/ UNCHANGED vars \/ (\E a \in Addresses : Occupy(a))
  <2>1. UNCHANGED <<exit, armed, signalled>>
    BY <1>4 DEF Exit, DropConnection, Leave, Occupy, Undisturbed, vars
  <2> QED
    BY <1>2, <2>1, SMT
<1>5. CASE \E l \in Names : \/ DropTask(l) \/ Accept(l)
                            \/ \E how \in {"ok", "err", "panic"} : TaskEnds(l, how)
  <2>1. UNCHANGED <<exit, armed, signalled>>
    BY <1>5 DEF DropTask, Accept, TaskEnds
  <2> QED
    BY <1>2, <2>1, SMT
<1>6. ~(Load \/ BuildBroker \/ BuildSchema \/ BuildAuthenticator \/ BuildAcl
        \/ Announce \/ EnterSelect \/ Wait \/ ShutdownSignal)
  BY <1>1 DEF Load, BuildBroker, BuildSchema, BuildAuthenticator, BuildAcl, Announce, EnterSelect,
       Wait, ShutdownSignal
<1> QED
  BY <1>2, <1>3, <1>4, <1>5, <1>6, ListenerNames DEF Next, Main, Environment, Terminated

(* How a status comes about.                                               *)
LEMMA StatusIsSet ==
    ASSUME IInv, [Next]_vars, exit = None
    PROVE  \/ exit' \in {None, "KILLED"}
           \/ /\ ~config.loads /\ exit' = "CONFIG_ERROR"
           \/ /\ config.loads /\ tasks' = tasks /\ exit' = "RUNTIME_ERROR"
              /\ pc \in {"load", "broker", "schema", "auth", "acl"}
           \/ /\ config.loads /\ tasks' = tasks /\ exit' = "RUNTIME_ERROR"
              /\ \E l \in Enabled : pc = l
           \/ /\ config.loads /\ Up
              /\ \/ exit' = "SUCCESS" /\ armed /\ signalled /\ UNCHANGED <<armed, signalled>>
                 \/ exit' = "SUCCESS" /\ \E l \in Names : tasks[l] = "ok"
                 \/ exit' = "RUNTIME_ERROR" /\ \E l \in Names : tasks[l] \in {"err", "panic"}
<1>1. pc \notin {"dropping", "exited"}
  BY DEF IInv, Stages
<1>2. pc # "load" => config.loads
  BY <1>1 DEF IInv, Composed
<1>3. CASE Load
  BY <1>3 DEF Load, Return
<1>4. CASE BuildBroker \/ BuildSchema \/ BuildAuthenticator \/ BuildAcl
  BY <1>2, <1>4 DEF BuildBroker, BuildSchema, BuildAuthenticator, BuildAcl, Return
<1>5. ASSUME NEW l \in Names, Bind(l)
      PROVE  \/ exit' = None
             \/ /\ config.loads /\ tasks' = tasks /\ exit' = "RUNTIME_ERROR"
                /\ \E k \in Enabled : pc = k
  BY <1>2, <1>5 DEF Bind, Return, Names
<1>6. pc \in {"announced", "waiting"} => config.loads /\ Up
  BY <1>2 DEF IInv, Stages, Spawned, Up
<1>7. CASE Wait
  <2>1. PICK i \in DOMAIN joins : Ended(joins[i]) /\ exit' = Outcome(joins[i])
    BY <1>7 DEF Wait, Return
  <2>2. joins[i] \in Names
    BY <2>1, SMT DEF IInv, Watched
  <2> QED
    BY <1>6, <1>7, <2>1, <2>2 DEF Wait, Outcome, Ended
<1>8. CASE ShutdownSignal
  BY <1>6, <1>8 DEF ShutdownSignal, Return, Undisturbed, IInv, Stages
<1>9. CASE Signal
  BY <1>9 DEF Signal
<1>10. CASE Announce \/ EnterSelect \/ Exit \/ DropConnection \/ Leave \/ UNCHANGED vars
            \/ (\E a \in Addresses : Occupy(a))
  BY <1>10 DEF Announce, EnterSelect, Exit, DropConnection, Leave, Occupy, Undisturbed, vars
<1>11. CASE \E l \in Names : \/ DropTask(l) \/ Accept(l)
                             \/ \E how \in {"ok", "err", "panic"} : TaskEnds(l, how)
  BY <1>11 DEF DropTask, Accept, TaskEnds
<1> QED
  BY <1>3, <1>4, <1>5, <1>7, <1>8, <1>9, <1>10, <1>11, ListenerNames DEF Next, Main, Environment, Terminated

(* The exit status and its reason stay together.                           *)
LEMMA StepExit ==
    ASSUME IInv, [Next]_vars
    PROVE  ExitTellsWhy'
<1>1. DOMAIN tasks = Names /\ DOMAIN tasks' = Names /\ Enabled \subseteq Names
  BY StepAccepting, ListenerNames DEF IInv, Accepting, Enabled
<1>2. config' = config /\ Enabled' = Enabled /\ Sound(config)' = Sound(config)
  BY StepTasks DEF Enabled, Listen
<1>3. Up => Up'
  BY <1>1, <1>2, StepTasks DEF Up
<1>4. /\ \A l \in Names : tasks[l] \in {"ok", "err", "panic"} => tasks'[l] = tasks[l]
      /\ (\E l \in Names : tasks[l] = "ok") => \E l \in Names : tasks'[l] = "ok"
      /\ (\E l \in Names : tasks[l] \in {"err", "panic"}) => \E l \in Names : tasks'[l] \in {"err", "panic"}
  BY StepTasks
<1>5. pc' = "exited" => exit' # None
  BY StepStages DEF Stages
<1>6. None \notin {"SUCCESS", "RUNTIME_ERROR", "CONFIG_ERROR", "KILLED"}
  BY ServerAssumption
<1>7. CASE exit' \in {None, "KILLED"}
  BY <1>2, <1>5, <1>6, <1>7 DEF ExitTellsWhy
<1>8. CASE exit # None /\ exit' = exit
  <2>1. ~Up => ~Up'
    BY <1>1, <1>2, <1>8, StepTasks, StatusStays DEF Up
  <2>2. ExitTellsWhy /\ armed' = armed /\ (signalled => signalled')
    BY <1>8, StatusStays DEF IInv
  <2> QED
    BY <1>1, <1>2, <1>3, <1>4, <1>5, <1>8, <2>1, <2>2 DEF ExitTellsWhy
<1>9. CASE ~config.loads /\ exit' = "CONFIG_ERROR"
  BY <1>2, <1>5, <1>9 DEF ExitTellsWhy
<1>10. ASSUME config.loads, tasks' = tasks, exit' = "RUNTIME_ERROR",
              pc \in {"load", "broker", "schema", "auth", "acl"} \/ \E l \in Enabled : pc = l
       PROVE  ExitTellsWhy'
  <2>1. \E l \in Enabled : tasks[l] = "none"
    <3>1. CASE pc \in {"load", "broker", "schema", "auth", "acl"}
      <4>1. "ws" \in Enabled
        BY ListenerNames, ServerAssumption DEF IInv, Plain, Enabled, Listen, Names
      <4>2. tasks["ws"] = "none"
        BY <3>1 DEF IInv, Stages, Names
      <4> QED
        BY <4>1, <4>2
    <3>2. CASE \E l \in Enabled : pc = l
      BY <1>1, <3>2 DEF IInv, Stages, Spawned, Names
    <3> QED
      BY <1>10, <3>1, <3>2
  <2>2. ~Up'
    BY <1>2, <1>10, <2>1 DEF Up
  <2> QED
    BY <1>2, <1>5, <1>10, <2>2 DEF ExitTellsWhy
<1>11. ASSUME config.loads, Up,
              \/ exit' = "SUCCESS" /\ armed /\ signalled /\ UNCHANGED <<armed, signalled>>
              \/ exit' = "SUCCESS" /\ \E l \in Names : tasks[l] = "ok"
              \/ exit' = "RUNTIME_ERROR" /\ \E l \in Names : tasks[l] \in {"err", "panic"}
       PROVE  ExitTellsWhy'
  <2>1. config'.loads /\ Up'
    BY <1>2, <1>3, <1>11
  <2>2. CASE exit' = "SUCCESS" /\ armed /\ signalled /\ UNCHANGED <<armed, signalled>>
    <3>1. armed' /\ signalled'
      BY <2>2, SMT
    <3> QED
      BY <1>5, <2>1, <2>2, <3>1 DEF ExitTellsWhy
  <2>3. CASE exit' = "SUCCESS" /\ \E l \in Names : tasks[l] = "ok"
    BY <1>1, <1>4, <1>5, <2>1, <2>3 DEF ExitTellsWhy
  <2>4. CASE exit' = "RUNTIME_ERROR" /\ \E l \in Names : tasks[l] \in {"err", "panic"}
    BY <1>1, <1>4, <1>5, <2>1, <2>4 DEF ExitTellsWhy
  <2> QED
    BY <1>11, <2>2, <2>3, <2>4
<1> QED
  BY <1>7, <1>8, <1>9, <1>10, <1>11, StatusStays, StatusIsSet

-----------------------------------------------------------------------------
(* Every step keeps the inductive invariant.                               *)
LEMMA StepIInv == IInv /\ [Next]_vars => IInv'
BY StepPlain, StepAccepting, StepCounted, StepWatched, StepFlags, StepStages,
   StepSpawned, StepComposed, StepExit DEF IInv

(* The inductive invariant holds throughout.                               *)
LEMMA SpecIInv == Spec => []IInv
BY InitIInv, StepIInv, PTL DEF Spec

(* The state of the process is well typed: a listener is bound exactly     *)
(* while its accept task is there, and wait watches each task at most once *)
(* (app.rs run, ServerRunHandle).                                          *)
THEOREM TypeCorrect == Spec => []TypeOK
BY SpecIInv, IInvTypes, PTL

(* "listening" is logged only when every enabled listener has an accept    *)
(* task that wait watches, and nobody is served by a hub that was composed *)
(* from a broken section of the configuration (app.rs build_hub, run).     *)
THEOREM ListeningTheorem == Spec => []ListeningMeansServing
<1>1. IInv => ListeningMeansServing
  <2> SUFFICES ASSUME IInv PROVE ListeningMeansServing
    OBVIOUS
  <2>1. pc \in {"announced", "waiting"} => Range(joins) = Enabled
    BY DEF IInv, Stages
  <2>2. ASSUME NEW l \in DOMAIN tasks, tasks[l] # "none"
        PROVE  /\ config.loads /\ BrokerBuilt /\ SchemasBuilt /\ AuthBuilt /\ AclBuilt
               /\ hub.schemas = Len(config.namespaces)
    BY <2>2 DEF IInv, Accepting, Composed
  <2>3. DOMAIN config.namespaces = 1..Len(config.namespaces)
    BY ServerAssumption DEF IInv, Plain
  <2> QED
    BY <2>1, <2>2, <2>3
       DEF ListeningMeansServing, Sound, BrokerBuilt, SchemasBuilt, AuthBuilt, AclBuilt
<1> QED
  BY <1>1, SpecIInv, PTL

(* The exit status tells why the process stopped, whatever the order in    *)
(* which binds fail, tasks end and signals arrive (main.rs serve): 0 only  *)
(* from a server that was up, 1 from one that was up only for a task that  *)
(* failed, 3 only for a configuration no server runs with.                 *)
THEOREM ExitTheorem == Spec => []ExitTellsWhy
<1>1. IInv => ExitTellsWhy
  BY DEF IInv
<1> QED
  BY <1>1, SpecIInv, PTL

-----------------------------------------------------------------------------
(* One of the connections the transports accept.                           *)

CONSTANTS
    OutboxCapacity, MaxFrames, MaxPublications

VARIABLES
    transport, loop, frame, frames, registered, notified, kicker, kicked, subscribed, forwarded,
    outbox, writer, inflight, wire, peer

Conn == INSTANCE Connection

\* A frame of the server.
Sent == [kind : {"reply", "invalid_frame", "publication"}, id : Nat]

\* The connection task has read a frame and not yet handed its answer over.
Answering == loop \in {"handle", "replay", "deliver", "sending"}

\* The number of the frame in hand, and what the channel may hold.
ConnShape ==
    /\ frame.id = frames /\ frames \in Nat
    /\ outbox \in Seq(Sent) /\ wire \in Seq(Sent)
    /\ writer \in {"writing", "closing"} => inflight \in Sent

\* Replies rise in number along q.
RepliesRise(q) ==
    \A i, j \in DOMAIN q : i < j /\ q[i].kind = "reply" /\ q[j].kind = "reply" => q[i].id < q[j].id

\* Every reply in q answers a frame before the n-th.
RepliesBefore(q, n) == \A i \in DOMAIN q : q[i].kind = "reply" => q[i].id < n

\* q holds the reply to the n-th frame.
Answered(q, n) == \E i \in DOMAIN q : q[i].kind = "reply" /\ q[i].id = n

\* The request read last must have been answered.
Due ==
    /\ loop \in {"opened", "select", "polling"}
    /\ registered /\ Conn!ReceiverAlive /\ frame.kind = "request"

\* Replies rise, and none answers a frame before it is handled.
ConnInv ==
    /\ ConnShape
    /\ RepliesRise(Conn!Pipeline)
    /\ RepliesBefore(Conn!Pipeline, IF Answering THEN frames ELSE frames + 1)
    /\ Due => Answered(Conn!Pipeline, frames)

\* The pipeline is a sequence of frames.
LEMMA PipelineShape ==
    ASSUME ConnShape
    PROVE  Conn!Pipeline \in Seq(Sent)
<1>1. CASE writer \in {"writing", "closing"}
  <2>1. <<inflight>> \in Seq(Sent)
    BY <1>1, SMT DEF ConnShape
  <2>2. Conn!Pipeline = wire \o <<inflight>> \o outbox
    BY <1>1 DEF Conn!Pipeline
  <2>3. wire \o <<inflight>> \in Seq(Sent)
    BY <2>1, SMT DEF ConnShape
  <2> QED BY <2>2, <2>3, SMT DEF ConnShape
<1>2. CASE writer \notin {"writing", "closing"}
  <2>1. Conn!Pipeline = wire \o <<>> \o outbox
    BY <1>2 DEF Conn!Pipeline
  <2> QED BY <2>1, SMT DEF ConnShape
<1> QED BY <1>1, <1>2

\* A frame at the end of the pipeline keeps the order if it is no reply, or
\* the reply to a frame that none in the pipeline answers or follows.
LEMMA AppendRises ==
    ASSUME NEW q \in Seq(Sent), NEW f \in Sent, NEW n \in Nat, RepliesRise(q), RepliesBefore(q, n),
           f.kind = "reply" => f.id = n
    PROVE  /\ Append(q, f) \in Seq(Sent)
           /\ RepliesRise(Append(q, f))
           /\ RepliesBefore(Append(q, f), n + 1)
           /\ f.kind # "reply" => RepliesBefore(Append(q, f), n)
           /\ f.kind = "reply" => Answered(Append(q, f), n)
           /\ \A k : Answered(q, k) => Answered(Append(q, f), k)
<1> DEFINE r == Append(q, f)
<1>1. /\ r \in Seq(Sent) /\ DOMAIN r = 1..(Len(q) + 1) /\ DOMAIN q = 1..Len(q) /\ Len(q) \in Nat
      /\ r[Len(q) + 1] = f
      /\ \A i \in DOMAIN q : r[i] = q[i]
  BY SMT
<1>2. \A i \in DOMAIN q : q[i].id \in Nat
  <2>1. \A i \in DOMAIN q : q[i] \in Sent
    BY SMT
  <2> QED BY <2>1 DEF Sent
<1> HIDE DEF r
<1>3. RepliesRise(r)
  <2> SUFFICES ASSUME NEW i \in DOMAIN r, NEW j \in DOMAIN r, i < j, r[i].kind = "reply", r[j].kind = "reply"
               PROVE  r[i].id < r[j].id
    BY DEF RepliesRise
  <2>1. i \in DOMAIN q /\ r[i] = q[i]
    BY <1>1, SMT
  <2>2. CASE j \in DOMAIN q
    BY <2>1, <2>2, <1>1 DEF RepliesRise
  <2>3. CASE j \notin DOMAIN q
    <3>1. r[j] = f
      BY <2>3, <1>1, SMT
    <3>2. q[i].id < n
      BY <2>1 DEF RepliesBefore
    <3> QED BY <2>1, <3>1, <3>2
  <2> QED BY <2>2, <2>3
<1>4. RepliesBefore(r, n + 1)
  <2> SUFFICES ASSUME NEW i \in DOMAIN r, r[i].kind = "reply"
               PROVE  r[i].id < n + 1
    BY DEF RepliesBefore
  <2>1. CASE i \in DOMAIN q
    <3>1. q[i].id < n /\ r[i] = q[i] /\ q[i].id \in Nat
      BY <2>1, <1>1, <1>2 DEF RepliesBefore
    <3> QED BY <3>1, SMT
  <2>2. CASE i \notin DOMAIN q
    BY <2>2, <1>1, SMT
  <2> QED BY <2>1, <2>2
<1>5. f.kind # "reply" => RepliesBefore(r, n)
  BY <1>1, SMT DEF RepliesBefore
<1>6. f.kind = "reply" => Answered(r, n)
  <2>1. Len(q) + 1 \in DOMAIN r
    BY <1>1, SMT
  <2> QED BY <2>1, <1>1 DEF Answered
<1>7. \A k : Answered(q, k) => Answered(r, k)
  <2>1. DOMAIN q \subseteq DOMAIN r
    BY <1>1, SMT
  <2> QED BY <2>1, <1>1 DEF Answered
<1> QED BY <1>1, <1>3, <1>4, <1>5, <1>6, <1>7 DEF r

\* A bound on the numbers may be raised.
LEMMA BeforeMore ==
    ASSUME NEW q \in Seq(Sent), NEW n \in Nat, RepliesBefore(q, n)
    PROVE  RepliesBefore(q, n + 1)
<1> SUFFICES ASSUME NEW i \in DOMAIN q, q[i].kind = "reply"
             PROVE  q[i].id < n + 1
  BY DEF RepliesBefore
<1>1. q[i] \in Sent
  BY SMT
<1>2. q[i].id \in Nat /\ q[i].id < n
  BY <1>1 DEF Sent, RepliesBefore
<1> QED BY <1>2, SMT

\* What was written to the socket is the front of the pipeline.
LEMMA WireFirst ==
    ASSUME ConnShape, NEW n \in Nat,
           RepliesRise(Conn!Pipeline), RepliesBefore(Conn!Pipeline, n)
    PROVE  RepliesRise(wire) /\ RepliesBefore(wire, n)
<1> DEFINE p == Conn!Pipeline
<1>1. DOMAIN wire \subseteq DOMAIN p /\ \A i \in DOMAIN wire : p[i] = wire[i]
  <2>1. CASE writer \in {"writing", "closing"}
    <3>1. p = wire \o <<inflight>> \o outbox
      BY <2>1 DEF Conn!Pipeline
    <3>2. <<inflight>> \in Seq(Sent) /\ Len(<<inflight>>) = 1
      BY <2>1, SMT DEF ConnShape
    <3> QED BY <3>1, <3>2, SMT DEF ConnShape
  <2>2. CASE writer \notin {"writing", "closing"}
    <3>1. p = wire \o <<>> \o outbox
      BY <2>2 DEF Conn!Pipeline
    <3> QED BY <3>1, SMT DEF ConnShape
  <2> QED BY <2>1, <2>2
<1> HIDE DEF p
<1>2. RepliesRise(p) /\ RepliesBefore(p, n)
  BY DEF p
<1> QED BY <1>1, <1>2 DEF RepliesRise, RepliesBefore
-----------------------------------------------------------------------------
\* A step that moves frames along the pipeline, or none at all.
LEMMA PipelineKept ==
    ASSUME ConnInv, ConnShape', frames' = frames, Conn!Pipeline' = Conn!Pipeline,
           Answering' => Answering, Due' => Due
    PROVE  ConnInv'
<1>1. Conn!Pipeline \in Seq(Sent)
  BY PipelineShape DEF ConnInv
<1>2. frames \in Nat
  BY DEF ConnInv, ConnShape
<1>3. RepliesBefore(Conn!Pipeline, IF Answering' THEN frames ELSE frames + 1)
  BY <1>1, <1>2, BeforeMore DEF ConnInv
<1>4. RepliesRise(Conn!Pipeline) /\ (Due => Answered(Conn!Pipeline, frames))
  BY DEF ConnInv
<1>5. RepliesBefore(Conn!Pipeline, IF Answering THEN frames ELSE frames + 1)'
  BY <1>3
<1> QED BY <1>4, <1>5 DEF ConnInv

\* A step that hands a publication to the outbox.
LEMMA PipelineGrows ==
    ASSUME ConnInv, ConnShape', frames' = frames, NEW f \in Sent, f.kind # "reply",
           Conn!Pipeline' = Append(Conn!Pipeline, f), Answering' => Answering, Due' => Due
    PROVE  ConnInv'
<1> DEFINE p == Conn!Pipeline
           q == Append(p, f)
<1>1. p \in Seq(Sent)
  BY PipelineShape DEF ConnInv
<1>2. frames \in Nat
  BY DEF ConnInv, ConnShape
<1>3. RepliesBefore(p, IF Answering' THEN frames ELSE frames + 1)
  BY <1>1, <1>2, BeforeMore DEF ConnInv
<1>4. RepliesRise(p) /\ (Due => Answered(p, frames))
  BY DEF ConnInv
<1>5. PICK n \in Nat : n = IF Answering' THEN frames ELSE frames + 1
  BY <1>2, SMT
<1> HIDE DEF p
<1>6. /\ RepliesRise(q) /\ RepliesBefore(q, n)
      /\ Answered(p, frames) => Answered(q, frames)
  BY <1>1, <1>3, <1>4, <1>5, AppendRises
<1>7. Conn!Pipeline' = q
  BY DEF p
<1> HIDE DEF q
<1>8. RepliesBefore(Conn!Pipeline, IF Answering THEN frames ELSE frames + 1)'
  BY <1>5, <1>6, <1>7
<1> QED BY <1>4, <1>6, <1>7, <1>8 DEF ConnInv

\* A step that loses what the writer had not written.
LEMMA PipelineLost ==
    ASSUME ConnInv, ConnShape', frames' = frames, Conn!Pipeline' = wire,
           Answering' => Answering, ~Due'
    PROVE  ConnInv'
<1>1. Conn!Pipeline \in Seq(Sent) /\ ConnShape
  BY PipelineShape DEF ConnInv
<1>2. frames \in Nat
  BY DEF ConnInv, ConnShape
<1>3. RepliesBefore(Conn!Pipeline, IF Answering' THEN frames ELSE frames + 1)
  BY <1>1, <1>2, BeforeMore DEF ConnInv
<1>4. PICK n \in Nat : n = IF Answering' THEN frames ELSE frames + 1
  BY <1>2, SMT
<1>5. RepliesRise(Conn!Pipeline)
  BY DEF ConnInv
<1>6. RepliesRise(wire) /\ RepliesBefore(wire, n)
  BY <1>1, <1>3, <1>4, <1>5, WireFirst
<1>7. RepliesBefore(Conn!Pipeline, IF Answering THEN frames ELSE frames + 1)'
  BY <1>4, <1>6
<1> QED BY <1>6, <1>7 DEF ConnInv

\* What a send to the outbox does to the pipeline.
LEMMA OutboxAppends ==
    ASSUME ConnShape, NEW f \in Sent, outbox' = Append(outbox, f),
           UNCHANGED <<writer, inflight, wire, frame, frames>>
    PROVE  ConnShape' /\ Conn!Pipeline' = Append(Conn!Pipeline, f)
<1>1. ConnShape'
  BY SMT DEF ConnShape
<1>2. CASE writer \in {"writing", "closing"}
  <2>1. <<inflight>> \in Seq(Sent)
    BY <1>2, SMT DEF ConnShape
  <2>5. wire \o <<inflight>> \in Seq(Sent)
    BY <2>1, SMT DEF ConnShape
  <2>2. PICK w \in Seq(Sent) : w = wire \o <<inflight>>
    BY <2>5
  <2>3. Conn!Pipeline = w \o outbox /\ Conn!Pipeline' = w \o Append(outbox, f)
    BY <1>2, <2>2 DEF Conn!Pipeline
  <2>4. outbox \in Seq(Sent)
    BY DEF ConnShape
  <2> QED BY <1>1, <2>3, <2>4, SMT
<1>3. CASE writer \notin {"writing", "closing"}
  <2>1. PICK w \in Seq(Sent) : w = wire \o <<>>
    BY SMT DEF ConnShape
  <2>2. Conn!Pipeline = w \o outbox /\ Conn!Pipeline' = w \o Append(outbox, f)
    BY <1>3, <2>1 DEF Conn!Pipeline
  <2>3. outbox \in Seq(Sent)
    BY DEF ConnShape
  <2> QED BY <1>1, <2>2, <2>3, SMT
<1> QED BY <1>2, <1>3
\* The writer moves frames along the pipeline.
LEMMA MovesAlong ==
    ASSUME ConnShape, Conn!WriterRecv \/ Conn!WriterSend \/ Conn!WriterFails
    PROVE  ConnShape' /\ Conn!Pipeline' = Conn!Pipeline
<1>1. CASE Conn!WriterRecv
  <2>1. /\ outbox \in Seq(Sent) /\ outbox # <<>> /\ wire \in Seq(Sent)
        /\ inflight' = Head(outbox) /\ outbox' = Tail(outbox) /\ wire' = wire
        /\ writer = "recv" /\ writer' = "writing"
    BY <1>1 DEF Conn!WriterRecv, ConnShape
  <2>2. Head(outbox) \in Sent /\ Tail(outbox) \in Seq(Sent)
    BY <2>1, SMT
  <2>3. ConnShape'
    BY <1>1, <2>1, <2>2 DEF Conn!WriterRecv, ConnShape
  <2>4. Conn!Pipeline = wire \o <<>> \o outbox
    BY <2>1 DEF Conn!Pipeline
  <2>5. Conn!Pipeline' = wire \o <<Head(outbox)>> \o Tail(outbox)
    BY <2>1 DEF Conn!Pipeline
  <2>6. wire \o <<>> \o outbox = wire \o <<Head(outbox)>> \o Tail(outbox)
    BY <2>1, <2>2, SMT
  <2> QED BY <2>3, <2>4, <2>5, <2>6
<1>2. CASE Conn!WriterSend
  <2>1. /\ outbox \in Seq(Sent) /\ wire \in Seq(Sent) /\ inflight \in Sent
        /\ wire' = Append(wire, inflight) /\ outbox' = outbox
        /\ writer = "writing" /\ writer' = "recv"
    BY <1>2 DEF Conn!WriterSend, ConnShape
  <2>2. ConnShape'
    BY <1>2, <2>1, SMT DEF Conn!WriterSend, ConnShape
  <2>3. Conn!Pipeline = wire \o <<inflight>> \o outbox
    BY <2>1 DEF Conn!Pipeline
  <2>4. Conn!Pipeline' = Append(wire, inflight) \o <<>> \o outbox
    BY <2>1 DEF Conn!Pipeline
  <2>5. wire \o <<inflight>> \o outbox = Append(wire, inflight) \o <<>> \o outbox
    BY <2>1, SMTT(20)
  <2> QED BY <2>2, <2>3, <2>4, <2>5
<1>3. CASE Conn!WriterFails
  <2>1. /\ UNCHANGED <<frame, frames, outbox, inflight, wire>>
        /\ writer = "writing" /\ writer' = "closing"
    BY <1>3 DEF Conn!WriterFails
  <2> QED BY <2>1 DEF ConnShape, Conn!Pipeline
<1> QED BY <1>1, <1>2, <1>3

\* The reply to the frame read last, behind all others.
LEMMA ReplyHandedOver ==
    ASSUME ConnInv, Conn!DeliverSend
    PROVE  ConnInv'
<1>1. frames \in Nat /\ ConnShape /\ frame.id = frames /\ frames' = frames /\ frame' = frame
  BY DEF ConnInv, ConnShape, Conn!DeliverSend
<1>2. loop = "sending" /\ loop' \in {"abort", "opened"} /\ Answering /\ ~Answering'
  BY DEF Conn!DeliverSend, Conn!Goto, Conn!AfterDelivery, Answering
<1>3. CASE ~Conn!ReceiverAlive
  <2>1. UNCHANGED <<outbox, writer, inflight, wire>>
    BY <1>3 DEF Conn!DeliverSend
  <2>2. Conn!Pipeline' = Conn!Pipeline /\ ConnShape' /\ ~Due'
    BY <1>1, <1>3, <2>1 DEF Conn!Pipeline, ConnShape, Due, Conn!ReceiverAlive
  <2> QED BY <1>1, <1>2, <2>2, PipelineKept
<1>4. CASE Conn!ReceiverAlive
  <2> DEFINE p == Conn!Pipeline
  <2>1. PICK f \in Sent : /\ outbox' = Append(outbox, f)
                          /\ f = IF frame.kind = "undecodable" THEN Conn!InvalidFrame ELSE Conn!Reply(frame.id)
    <3>1. Conn!InvalidFrame \in Sent /\ Conn!Reply(frame.id) \in Sent
      BY <1>1 DEF Conn!InvalidFrame, Conn!Reply, Sent
    <3> QED BY <1>4, <3>1 DEF Conn!DeliverSend
  <2>2. f.kind = "reply" => f.id = frames
    BY <1>1, <2>1 DEF Conn!InvalidFrame, Conn!Reply
  <2>3. frame.kind = "request" => f.kind = "reply"
    BY <2>1 DEF Conn!Reply
  <2>4. UNCHANGED <<writer, inflight, wire, frame, frames>>
    BY DEF Conn!DeliverSend
  <2>5. ConnShape' /\ p' = Append(p, f)
    BY <1>1, <2>1, <2>4, OutboxAppends
  <2>6. p \in Seq(Sent)
    BY <1>1, PipelineShape
  <2>7. RepliesRise(p) /\ RepliesBefore(p, frames)
    BY <1>2 DEF ConnInv
  <2> HIDE DEF p
  <2>8. /\ RepliesRise(Append(p, f)) /\ RepliesBefore(Append(p, f), frames + 1)
        /\ f.kind = "reply" => Answered(Append(p, f), frames)
    BY <1>1, <2>2, <2>6, <2>7, AppendRises
  <2>9. Due' => frame.kind = "request"
    BY <1>1 DEF Due
  <2>10. /\ RepliesRise(p') /\ RepliesBefore(p', frames' + 1)
         /\ Due' => Answered(p', frames')
    BY <1>1, <2>3, <2>5, <2>8, <2>9
  <2> QED BY <1>2, <2>5, <2>10 DEF ConnInv, p
<1> QED BY <1>3, <1>4

\* The next frame has the next number.
LEMMA FrameRead ==
    ASSUME ConnInv, NEW k \in Conn!Kinds, Conn!ReadFrame(k)
    PROVE  ConnInv'
<1>1. /\ frames \in Nat /\ ConnShape /\ loop = "polling"
      /\ frames' = frames + 1 /\ frame' = [kind |-> k, id |-> frames + 1]
      /\ UNCHANGED <<outbox, writer, inflight, wire>>
  BY DEF ConnInv, ConnShape, Conn!ReadFrame
<1>2. ConnShape' /\ Conn!Pipeline' = Conn!Pipeline
  BY <1>1, SMT DEF ConnShape, Conn!Pipeline
<1>3. ~Due' /\ (loop' = "opened" \/ Answering')
  BY <1>1, SMT DEF Conn!ReadFrame, Conn!Kinds, Due, Answering
<1>4. RepliesRise(Conn!Pipeline) /\ RepliesBefore(Conn!Pipeline, frames + 1)
  BY <1>1 DEF ConnInv, Answering
<1>5. Conn!Pipeline \in Seq(Sent) /\ frames + 1 \in Nat
  BY <1>1, PipelineShape, SMT
<1>6. RepliesBefore(Conn!Pipeline, (frames + 1) + 1)
  BY <1>4, <1>5, BeforeMore
<1>7. RepliesBefore(Conn!Pipeline, IF Answering THEN frames ELSE frames + 1)'
  BY <1>1, <1>2, <1>4, <1>6
<1> QED BY <1>2, <1>3, <1>4, <1>7 DEF ConnInv
\* The steps that touch neither the outbox nor the writer.
Elsewhere ==
    \/ Conn!EnterSelect \/ Conn!WriterBranch \/ Conn!ShutdownBranch \/ Conn!PollReader
    \/ Conn!ReaderPending \/ Conn!ReadEnd \/ Conn!Handle \/ Conn!DeliverLookup
    \/ Conn!CloseSession \/ Conn!SignalShutdown \/ Conn!KickDeregister
    \/ Conn!PeerCloses \/ Conn!PeerStopsReading \/ Conn!Finished

LEMMA ElsewhereKeeps ==
    ASSUME ConnInv, Elsewhere
    PROVE  ConnInv'
<1>1. UNCHANGED <<frame, frames, outbox, writer, inflight, wire>>
  BY DEF Elsewhere, Conn!EnterSelect, Conn!WriterBranch, Conn!ShutdownBranch, Conn!PollReader,
         Conn!ReaderPending, Conn!ReadEnd, Conn!Handle, Conn!DeliverLookup, Conn!CloseSession,
         Conn!SignalShutdown, Conn!KickDeregister, Conn!PeerCloses, Conn!PeerStopsReading,
         Conn!Finished, Conn!Rest, Conn!vars
<1>2. ConnShape' /\ Conn!Pipeline' = Conn!Pipeline
  BY <1>1 DEF ConnInv, ConnShape, Conn!Pipeline
<1>3. (Answering' => Answering) /\ (Due' => Due)
  <2>1. CASE loop' = loop /\ (registered' => registered)
    BY <1>1, <2>1 DEF Answering, Due, Conn!ReceiverAlive
  <2>2. CASE Conn!Handle
    BY <1>1, <2>2 DEF Conn!Handle, Conn!Goto, Answering, Due
  <2>3. CASE Conn!DeliverLookup
    BY <1>1, <2>3 DEF Conn!DeliverLookup, Conn!Goto, Conn!AfterDelivery, Conn!Rest, Answering, Due
  <2>4. CASE \/ Conn!EnterSelect \/ Conn!WriterBranch \/ Conn!ShutdownBranch \/ Conn!PollReader
             \/ Conn!ReaderPending \/ Conn!ReadEnd
    BY <1>1, <2>4, SMT DEF Conn!EnterSelect, Conn!WriterBranch, Conn!ShutdownBranch, Conn!PollReader,
         Conn!ReaderPending, Conn!ReadEnd, Conn!Goto, Conn!Rest, Conn!ReceiverAlive, Answering, Due
  <2>5. CASE Conn!CloseSession
    BY <1>1, <2>5 DEF Conn!CloseSession, Conn!Goto, Answering, Due
  <2>6. CASE \/ Conn!SignalShutdown \/ Conn!KickDeregister \/ Conn!PeerCloses
             \/ Conn!PeerStopsReading \/ Conn!Finished
    BY <2>1, <2>6 DEF Conn!SignalShutdown, Conn!KickDeregister, Conn!PeerCloses,
         Conn!PeerStopsReading, Conn!Finished, Conn!vars
  <2> QED BY <2>2, <2>3, <2>4, <2>5, <2>6 DEF Elsewhere
<1> QED BY <1>1, <1>2, <1>3, PipelineKept

LEMMA PublicationKeeps ==
    ASSUME ConnInv, Conn!ReplaySend \/ Conn!ForwarderSends
    PROVE  ConnInv'
<1>1. /\ UNCHANGED <<frame, frames, writer, inflight, wire, registered>>
      /\ ConnShape
  BY DEF Conn!ReplaySend, Conn!ForwarderSends, ConnInv
<1>2. (Answering' => Answering) /\ (Due' => Due)
  BY <1>1 DEF Conn!ReplaySend, Conn!ForwarderSends, Conn!Goto, Conn!ReceiverAlive, Answering, Due
<1>3. CASE outbox' = outbox
  <2>1. ConnShape' /\ Conn!Pipeline' = Conn!Pipeline
    BY <1>1, <1>3 DEF ConnShape, Conn!Pipeline
  <2> QED BY <1>1, <1>2, <2>1, PipelineKept
<1>4. CASE outbox' = Append(outbox, Conn!Publication)
  <2>1. Conn!Publication \in Sent /\ Conn!Publication.kind # "reply"
    BY DEF Conn!Publication, Sent
  <2>2. ConnShape' /\ Conn!Pipeline' = Append(Conn!Pipeline, Conn!Publication)
    BY <1>1, <1>4, <2>1, OutboxAppends
  <2> QED BY <1>1, <1>2, <2>1, <2>2, PipelineGrows
<1> QED BY <1>3, <1>4 DEF Conn!ReplaySend, Conn!ForwarderSends

LEMMA LossKeeps ==
    ASSUME ConnInv, Conn!AbortWriter \/ Conn!WriterCloses
    PROVE  ConnInv'
<1>1. /\ UNCHANGED <<frame, frames, wire>> /\ outbox' = <<>>
      /\ writer' \notin {"writing", "closing"} /\ ~Conn!ReceiverAlive' /\ ConnShape
  BY DEF Conn!AbortWriter, Conn!WriterCloses, Conn!ReceiverAlive, ConnInv
<1>2. ConnShape'
  BY <1>1, SMT DEF ConnShape
<1>3. Conn!Pipeline' = wire \o <<>> \o <<>>
  BY <1>1 DEF Conn!Pipeline
<1>4. Conn!Pipeline' = wire
  BY <1>1, <1>3, SMT DEF ConnShape
<1>5. (Answering' => Answering) /\ ~Due'
  BY <1>1 DEF Conn!AbortWriter, Conn!WriterCloses, Conn!Goto, Answering, Due
<1> QED BY <1>1, <1>2, <1>4, <1>5, PipelineLost

(* Frames keep their order from deliver to the socket, whoever shares the  *)
(* outbox, and a reply answers a frame that was read (handle_socket).      *)
THEOREM ConnectionInvariant == Conn!Spec => []ConnInv
<1>1. Conn!Init => ConnInv
  <2> SUFFICES ASSUME Conn!Init PROVE ConnInv
    OBVIOUS
  <2>1. ConnShape
    BY SMT DEF Conn!Init, Conn!NoFrame, ConnShape
  <2>2. Conn!Pipeline = <<>> \o <<>> \o <<>>
    BY DEF Conn!Init, Conn!Pipeline
  <2>3. Conn!Pipeline = <<>>
    BY <2>2, SMT
  <2>4. ~Due
    BY DEF Conn!Init, Conn!NoFrame, Due
  <2> QED BY <2>1, <2>3, <2>4, SMTT(20) DEF ConnInv, RepliesRise, RepliesBefore
<1>2. ConnInv /\ [Conn!Next]_Conn!vars => ConnInv'
  <2> SUFFICES ASSUME ConnInv, [Conn!Next]_Conn!vars PROVE ConnInv'
    OBVIOUS
  <2>1. CASE Elsewhere
    BY <2>1, ElsewhereKeeps
  <2>2. CASE Conn!ReplaySend \/ Conn!ForwarderSends
    BY <2>2, PublicationKeeps
  <2>3. CASE Conn!DeliverSend
    BY <2>3, ReplyHandedOver
  <2>4. CASE Conn!AbortWriter \/ Conn!WriterCloses
    BY <2>4, LossKeeps
  <2>5. CASE \E k \in Conn!Kinds : Conn!ReadFrame(k)
    BY <2>5, FrameRead
  <2>6. CASE Conn!WriterRecv \/ Conn!WriterSend \/ Conn!WriterFails
    <3>1. ConnShape' /\ Conn!Pipeline' = Conn!Pipeline
      BY <2>6, MovesAlong DEF ConnInv
    <3>2. frames' = frames /\ (Answering' => Answering) /\ (Due' => Due)
      BY <2>6, SMT DEF Conn!WriterRecv, Conn!WriterSend, Conn!WriterFails, Conn!ReceiverAlive, Answering, Due
    <3> QED BY <3>1, <3>2, PipelineKept
  <2>7. CASE UNCHANGED Conn!vars
    <3>1. ConnShape' /\ Conn!Pipeline' = Conn!Pipeline
      BY <2>7 DEF Conn!vars, ConnInv, ConnShape, Conn!Pipeline
    <3>2. frames' = frames /\ (Answering' => Answering) /\ (Due' => Due)
      BY <2>7 DEF Conn!vars, Conn!ReceiverAlive, Answering, Due
    <3> QED BY <3>1, <3>2, PipelineKept
  <2> QED
    BY <2>1, <2>2, <2>3, <2>4, <2>5, <2>6, <2>7 DEF Conn!Next, Conn!LoopStep, Conn!WriterStep, Elsewhere
<1> QED BY <1>1, <1>2, PTL DEF Conn!Spec

(* A client reads its replies in the order of its requests, and unless it  *)
(* is kicked or the writer has failed every request has been answered when *)
(* the next one is read (handle_socket and handle_incoming, deliver).      *)
THEOREM RepliesTheorem == Conn!Spec => []Conn!RepliesFollowRequests
<1>1. ConnInv => Conn!RepliesFollowRequests
  <2> SUFFICES ASSUME ConnInv PROVE Conn!RepliesFollowRequests
    OBVIOUS
  <2> DEFINE p == Conn!Pipeline
  <2>1. /\ p \in Seq(Sent) /\ frames \in Nat /\ frame.id = frames
        /\ RepliesRise(p) /\ (Due => Answered(p, frames))
        /\ RepliesBefore(p, IF Answering THEN frames ELSE frames + 1)
    BY PipelineShape DEF ConnInv, ConnShape
  <2>2. Conn!Replies = {i \in DOMAIN p : p[i].kind = "reply"}
    BY DEF Conn!Replies
  <2> HIDE DEF p
  <2>3. \A i, j \in Conn!Replies : i < j => p[i].id < p[j].id
    BY <2>1, <2>2 DEF RepliesRise
  <2>4. ASSUME loop = "select" /\ registered /\ Conn!ReceiverAlive /\ frame.kind = "request"
        PROVE  \E i \in Conn!Replies : p[i].id = frame.id /\ \A j \in Conn!Replies : j <= i
    <3>1. Due /\ ~Answering
      BY <2>4 DEF Due, Answering
    <3>2. PICK i \in DOMAIN p : p[i].kind = "reply" /\ p[i].id = frames
      BY <2>1, <3>1 DEF Answered
    <3>3. RepliesBefore(p, frames + 1)
      BY <2>1, <3>1
    <3>4. ASSUME NEW j \in Conn!Replies PROVE j <= i
      <4>1. j \in DOMAIN p /\ p[j] \in Sent /\ p[j].kind = "reply" /\ DOMAIN p = 1..Len(p) /\ Len(p) \in Nat
        BY <2>1, <2>2, SMT
      <4>2. p[j].id \in Nat /\ p[j].id < frames + 1
        BY <4>1, <3>3 DEF Sent, RepliesBefore
      <4>3. i < j => frames < p[j].id
        BY <2>1, <2>2, <2>3, <3>2
      <4>4. i \in Nat /\ j \in Nat /\ ~(i < j)
        BY <2>1, <4>1, <4>2, <4>3, SMTT(20)
      <4> QED BY <4>4, SMT
    <3>5. i \in Conn!Replies
      BY <2>2, <3>2
    <3> QED BY <2>1, <3>2, <3>4, <3>5
  <2> QED BY <2>3, <2>4 DEF Conn!RepliesFollowRequests, p
<1> QED BY <1>1, ConnectionInvariant, PTL
=============================================================================
