------------------------ MODULE SessionRegistryProofs ------------------------
(***************************************************************************)
(* For any number of sessions, channels, tasks and forwarders, and whether *)
(* or not a transport runs its handlers one at a time: the registry stays  *)
(* well typed, no forwarder is ever orphaned, and the reverse index names  *)
(* a sequential session only for what it subscribes to.                    *)
(*                                                                         *)
(* NoOrphanForwarder is inductive once the types are known.  The steps     *)
(* that may release a session's last Arc all end in Settle, and what those *)
(* steps have in common is SettleKeeps: a forwarder that survives Settle   *)
(* and is the value of some subscription belongs to a session still held.  *)
(* The reverse index needs an invariant of its own, IndexInv.              *)
(***************************************************************************)
EXTENDS SessionRegistry, TLAPS

(* A leaf is set theory, and Zenon\'s, unless it cites another prover.        *)
USE Zenon

IInv == TypeOK /\ NoOrphanForwarder

\* Every forwarder in run is accounted for by the subscriptions sb or by the
\* private handle of a handle_subscribe in the step's next state.
Accounted(sb, run) ==
    \A f \in run :
      \/ \E s \in SessionIds, c \in Channels : sb[s][c] = f
      \/ \E t \in Tasks : task'[t].pc = "sub_insert" /\ task'[t].handle = f

-----------------------------------------------------------------------------
(* Session::drop in the step that releases the last Arc aborts exactly the *)
(* forwarders nobody could reach any more.                                 *)
LEMMA SettleKeeps ==
    ASSUME NEW sb \in [SessionIds -> [Channels -> Forwarders \union {None}]],
           NEW run \in SUBSET Forwarders,
           Settle(sb, run), Accounted(sb, run)
    PROVE  NoOrphanForwarder'
<1> DEFINE dropped == {s \in SessionIds : ~Held(s)'}
<1>1. subs' = [s \in SessionIds |-> IF s \in dropped THEN NoSubs ELSE sb[s]]
  BY DEF Settle
<1>2. running' = run \ {sb[s][c] : s \in dropped, c \in Channels}
  BY SMT DEF Settle
<1>3. SUFFICES ASSUME NEW f \in running'
               PROVE  \/ \E s \in SessionIds, c \in Channels : subs'[s][c] = f /\ Held(s)'
                      \/ \E t \in Tasks : task'[t].pc = "sub_insert" /\ task'[t].handle = f
  BY DEF NoOrphanForwarder
<1>4. f \in run
  BY <1>2, <1>3, SMT
<1>5. CASE \E s \in SessionIds, c \in Channels : sb[s][c] = f
  <2>1. PICK s \in SessionIds, c \in Channels : sb[s][c] = f
    BY <1>5
  <2>2. s \notin dropped
    BY <2>1, <1>2, <1>3, SMT
  <2>3. Held(s)'
    BY <2>2
  <2>4. subs'[s][c] = f
    BY <2>1, <2>2, <1>1
  <2> QED
    BY <2>3, <2>4
<1>6. CASE \E t \in Tasks : task'[t].pc = "sub_insert" /\ task'[t].handle = f
  BY <1>6
<1> QED
  BY <1>4, <1>5, <1>6 DEF Accounted

(* Settle keeps the types of the subscriptions and the running set.        *)
LEMMA SettleTypes ==
    ASSUME NEW sb \in [SessionIds -> [Channels -> Forwarders \union {None}]],
           NEW run \in SUBSET Forwarders,
           Settle(sb, run)
    PROVE  /\ subs' \in [SessionIds -> [Channels -> Forwarders \union {None}]]
           /\ running' \subseteq Forwarders
<1> DEFINE dropped == {s \in SessionIds : ~Held(s)'}
<1>1. subs' = [s \in SessionIds |-> IF s \in dropped THEN NoSubs ELSE sb[s]]
  BY DEF Settle
<1>2. running' = run \ {sb[s][c] : s \in dropped, c \in Channels}
  BY SMT DEF Settle
<1>3. NoSubs \in [Channels -> Forwarders \union {None}]
  BY DEF NoSubs
<1>4. running' \subseteq Forwarders
  BY <1>2, SMT
<1> HIDE DEF dropped
<1>5. subs' \in [SessionIds -> [Channels -> Forwarders \union {None}]]
  BY <1>1, <1>3
<1> QED
  BY <1>4, <1>5

(* An idle task is a task.                                                 *)
LEMMA IdleTaskType == IdleTask \in Task
BY RegistryConstants, SMT DEF IdleTask, Task, TaskRecord, SessionIds, SubscribePcs, UnsubscribePcs

(* The moves of a task keep it a task.                                     *)
LEMMA TaskMoves ==
    ASSUME TypeOK, NEW t \in Tasks
    PROVE  /\ Return(t) => task' \in [Tasks -> Task]
           /\ task[t].pc \in SubscribePcs \union UnsubscribePcs =>
                \A l \in {"sub_forward", "unsub_retain", "unsub_drop_key"} :
                  Goto(t, l) => task' \in [Tasks -> Task]
           /\ \A l \in {"sub_check", "unsub_remove", "kick_remove", "close_remove"},
                s \in SessionIds, c \in Channels \union {None} :
                Begin(t, l, s, c) /\ (l \in {"kick_remove", "close_remove"} \/ c \in Channels)
                  => task' \in [Tasks -> Task]
<1>1. task \in [Tasks -> Task] /\ task[t] \in Task
  BY DEF TypeOK
<1>2. Return(t) => task' \in [Tasks -> Task]
  BY <1>1, IdleTaskType DEF Return
<1>3. ASSUME task[t].pc \in SubscribePcs \union UnsubscribePcs,
             NEW l \in {"sub_forward", "unsub_retain", "unsub_drop_key"}, Goto(t, l)
      PROVE  task' \in [Tasks -> Task]
  <2>1. [task[t] EXCEPT !.pc = l] \in Task
    BY <1>1, <1>3 DEF Task, TaskRecord, SubscribePcs, UnsubscribePcs
  <2> QED
    BY <1>1, <1>3, <2>1 DEF Goto
<1>4. ASSUME NEW l \in {"sub_check", "unsub_remove", "kick_remove", "close_remove"},
             NEW s \in SessionIds, NEW c \in Channels \union {None}, Begin(t, l, s, c),
             l \in {"kick_remove", "close_remove"} \/ c \in Channels
      PROVE  task' \in [Tasks -> Task]
  <2>1. [IdleTask EXCEPT !.pc = l, !.session = s, !.channel = c] \in Task
    BY <1>4, IdleTaskType DEF IdleTask, Task, TaskRecord, SubscribePcs, UnsubscribePcs, KickPcs, ClosePcs
  <2> QED
    BY <1>1, <1>4, <2>1 DEF Begin
<1> QED
  BY <1>2, <1>3, <1>4

(* A step that changes no subscription and no task's private handle keeps  *)
(* every forwarder accounted for.                                          *)
LEMMA OtherHandlesStay ==
    ASSUME TypeOK, NoOrphanForwarder, NEW t \in Tasks, task[t].pc # "sub_insert",
           \A u \in Tasks \ {t} : task'[u] = task[u]
    PROVE  Accounted(subs, running)
<1> SUFFICES ASSUME NEW f \in running
             PROVE  \/ \E s \in SessionIds, c \in Channels : subs[s][c] = f
                    \/ \E u \in Tasks : task'[u].pc = "sub_insert" /\ task'[u].handle = f
  BY DEF Accounted
<1>1. CASE \E s \in SessionIds, c \in Channels : subs[s][c] = f /\ Held(s)
  BY <1>1
<1>2. CASE \E u \in Tasks : task[u].pc = "sub_insert" /\ task[u].handle = f
  <2>1. PICK u \in Tasks : task[u].pc = "sub_insert" /\ task[u].handle = f
    BY <1>2
  <2>2. task'[u] = task[u]
    BY <2>1
  <2> QED
    BY <2>1, <2>2
<1> QED
  BY <1>1, <1>2 DEF NoOrphanForwarder

(* A task that returns or moves on leaves the other tasks alone.           *)
LEMMA OtherTasksStay ==
    ASSUME TypeOK, NEW t \in Tasks,
           \/ Return(t)
           \/ Goto(t, "sub_forward") \/ Goto(t, "unsub_retain") \/ Goto(t, "unsub_drop_key")
    PROVE  \A u \in Tasks \ {t} : task'[u] = task[u]
BY DEF TypeOK, Return, Goto

-----------------------------------------------------------------------------
(* The handler steps that end in Settle without touching a subscription.   *)
LEMMA QuietStep ==
    ASSUME IInv, NEW t \in Tasks, task[t].pc # "sub_insert",
           \A u \in Tasks \ {t} : task'[u] = task[u],
           Settle(subs, running)
    PROVE  /\ subs' \in [SessionIds -> [Channels -> Forwarders \union {None}]]
           /\ running' \subseteq Forwarders
           /\ NoOrphanForwarder'
<1>1. subs \in [SessionIds -> [Channels -> Forwarders \union {None}]] /\ running \in SUBSET Forwarders
  BY DEF IInv, TypeOK
<1>2. Accounted(subs, running)
  BY OtherHandlesStay DEF IInv
<1> QED
  BY <1>1, <1>2, SettleTypes, SettleKeeps

(* The reverse index keeps its type when one counter changes.              *)
LEMMA IndexTypes ==
    ASSUME TypeOK, NEW s \in SessionIds, NEW c \in Channels
    PROVE  /\ Empty \in [SessionIds -> Nat]
           /\ [channels[c] EXCEPT ![s] = 0] \in [SessionIds -> Nat]
           /\ [channels EXCEPT ![c][s] = @ + 1] \in [Channels -> [SessionIds -> Nat]]
           /\ \A left \in [SessionIds -> Nat] :
                [channels EXCEPT ![c] = left] \in [Channels -> [SessionIds -> Nat]]
<1>1. channels \in [Channels -> [SessionIds -> Nat]] /\ channels[c] \in [SessionIds -> Nat]
  BY DEF TypeOK
<1>2. Empty \in [SessionIds -> Nat]
  BY DEF Empty
<1>3. [channels[c] EXCEPT ![s] = 0] \in [SessionIds -> Nat]
  BY <1>1
<1>4. [channels EXCEPT ![c][s] = @ + 1] \in [Channels -> [SessionIds -> Nat]]
  <2>1. channels[c][s] + 1 \in Nat
    BY <1>1, SMT
  <2>2. [channels[c] EXCEPT ![s] = @ + 1] \in [SessionIds -> Nat]
    BY <1>1, <2>1
  <2> QED
    BY <1>1, <2>2
<1> QED
  BY <1>1, <1>2, <1>3, <1>4

(* A handle_subscribe that is refused or finds the channel subscribed.     *)
LEMMA RefuseSubscribeIInv ==
    ASSUME IInv, NEW t \in Tasks, RefuseSubscribe(t) \/ CheckSubscription(t)
    PROVE  IInv'
<1>1. task[t].pc \in {"sub_check", "sub_forward"} /\ Settle(subs, running)
      /\ (Return(t) \/ Goto(t, "sub_forward"))
      /\ UNCHANGED <<next_id, sessions, owned, keys, channels>>
  BY DEF RefuseSubscribe, CheckSubscription
<1>2. task' \in [Tasks -> Task] /\ \A u \in Tasks \ {t} : task'[u] = task[u]
  <2>1. TypeOK /\ task[t].pc \in SubscribePcs \union UnsubscribePcs
    BY <1>1 DEF IInv, SubscribePcs, UnsubscribePcs
  <2>2. task' \in [Tasks -> Task]
    BY <1>1, <2>1, TaskMoves
  <2>3. \A u \in Tasks \ {t} : task'[u] = task[u]
    BY <1>1, <2>1, OtherTasksStay
  <2> QED
    BY <2>2, <2>3
<1> QED
  BY <1>1, <1>2, QuietStep DEF IInv, TypeOK

(* The reverse index is written without touching any forwarder.            *)
LEMMA AddSubscriptionIInv ==
    ASSUME IInv, NEW t \in Tasks, AddSubscription(t) \/ RetainOthers(t) \/ DropKey(t)
    PROVE  IInv'
<1> DEFINE c == task[t].channel
           s == task[t].session
<1>1. task[t].pc \in {"sub_index", "unsub_retain", "unsub_drop_key"} /\ Settle(subs, running)
      /\ (Return(t) \/ Goto(t, "unsub_drop_key"))
      /\ UNCHANGED <<next_id, sessions, owned>>
  BY DEF AddSubscription, RetainOthers, DropKey
<1>2. task' \in [Tasks -> Task] /\ \A u \in Tasks \ {t} : task'[u] = task[u]
  <2>1. TypeOK /\ task[t].pc \in SubscribePcs \union UnsubscribePcs
    BY <1>1 DEF IInv, SubscribePcs, UnsubscribePcs
  <2>2. task' \in [Tasks -> Task]
    BY <1>1, <2>1, TaskMoves
  <2>3. \A u \in Tasks \ {t} : task'[u] = task[u]
    BY <1>1, <2>1, OtherTasksStay
  <2> QED
    BY <2>2, <2>3
<1>3. s \in SessionIds /\ c \in Channels
  BY <1>1 DEF IInv, TypeOK, Task, TaskRecord, SubscribePcs, UnsubscribePcs
<1>4. channels \in [Channels -> [SessionIds -> Nat]] /\ keys \subseteq Channels
  BY DEF IInv, TypeOK
<1>5. keys' \subseteq Channels /\ channels' \in [Channels -> [SessionIds -> Nat]]
  <2>1. CASE AddSubscription(t)
    BY <1>3, <1>4, <2>1, IndexTypes DEF AddSubscription, IInv
  <2>2. CASE RetainOthers(t)
    BY <1>3, <1>4, <2>2, IndexTypes DEF RetainOthers, IInv
  <2>3. CASE DropKey(t)
    BY <1>3, <1>4, <2>3, IndexTypes DEF DropKey, IInv
  <2> QED
    BY <2>1, <2>2, <2>3
<1> QED
  BY <1>1, <1>2, <1>5, QuietStep DEF IInv, TypeOK

(* The vacant slot takes the handle; an occupied one aborts the stray.     *)
LEMMA InsertSubscriptionIInv ==
    ASSUME IInv, NEW t \in Tasks, InsertSubscription(t)
    PROVE  IInv'
<1> DEFINE s == task[t].session
           c == task[t].channel
           h == task[t].handle
<1>1. TypeOK /\ NoOrphanForwarder /\ task[t].pc = "sub_insert"
      /\ UNCHANGED <<next_id, sessions, owned, keys, channels>>
  BY DEF IInv, InsertSubscription
<1>2. s \in SessionIds /\ c \in Channels /\ h \in Forwarders \union {None} /\ task[t] \in Task
  BY <1>1 DEF TypeOK, Task, TaskRecord, SubscribePcs
<1>3. subs \in [SessionIds -> [Channels -> Forwarders \union {None}]] /\ running \in SUBSET Forwarders
      /\ task \in [Tasks -> Task]
  BY <1>1 DEF TypeOK
<1>4. CASE subs[s][c] = None
  <2> DEFINE sb == [subs EXCEPT ![s][c] = h]
  <2>1. task' = [task EXCEPT ![t].pc = "sub_index", ![t].handle = None] /\ Settle(sb, running)
    BY <1>4 DEF InsertSubscription
  <2>2. sb \in [SessionIds -> [Channels -> Forwarders \union {None}]]
    BY <1>2, <1>3
  <2>3. task' \in [Tasks -> Task] /\ \A u \in Tasks \ {t} : task'[u] = task[u]
    <3>1. [task[t] EXCEPT !.pc = "sub_index", !.handle = None] \in Task
      BY <1>1, <1>2 DEF Task, TaskRecord, SubscribePcs, UnsubscribePcs
    <3> QED
      BY <1>3, <2>1, <3>1
  <2>4. sb[s][c] = h /\ \A r \in SessionIds, d \in Channels : subs[r][d] # None => sb[r][d] = subs[r][d]
    BY <1>2, <1>3, <1>4
  <2>5. Accounted(sb, running)
    <3> SUFFICES ASSUME NEW f \in running
                 PROVE  \/ \E r \in SessionIds, d \in Channels : sb[r][d] = f
                        \/ \E u \in Tasks : task'[u].pc = "sub_insert" /\ task'[u].handle = f
      BY DEF Accounted
    <3>1. f # None
      BY <1>3, RegistryConstants
    <3> HIDE DEF sb
    <3>2. CASE \E r \in SessionIds, d \in Channels : subs[r][d] = f /\ Held(r)
      BY <3>1, <3>2, <2>4
    <3>3. CASE \E u \in Tasks : task[u].pc = "sub_insert" /\ task[u].handle = f
      <4>1. PICK u \in Tasks : task[u].pc = "sub_insert" /\ task[u].handle = f
        BY <3>3
      <4>2. CASE u = t
        BY <4>1, <4>2, <2>4, <1>2
      <4>3. CASE u # t
        BY <4>1, <4>3, <2>3
      <4> QED
        BY <4>2, <4>3
    <3> QED
      BY <1>1, <3>2, <3>3 DEF NoOrphanForwarder
  <2> HIDE DEF sb
  <2> QED
    BY <1>1, <1>3, <2>1, <2>2, <2>3, <2>5, SettleTypes, SettleKeeps DEF IInv, TypeOK
<1>5. CASE subs[s][c] # None
  <2>1. Return(t) /\ Settle(subs, running \ {h})
    BY <1>5 DEF InsertSubscription
  <2>2. task' \in [Tasks -> Task]
    BY <1>1, <2>1, TaskMoves
  <2>3. \A u \in Tasks \ {t} : task'[u] = task[u]
    BY <1>1, <2>1, OtherTasksStay
  <2>4. Accounted(subs, running \ {h})
    <3> SUFFICES ASSUME NEW f \in running, f # h
                 PROVE  \/ \E r \in SessionIds, d \in Channels : subs[r][d] = f
                        \/ \E u \in Tasks : task'[u].pc = "sub_insert" /\ task'[u].handle = f
      BY DEF Accounted
    <3>1. CASE \E u \in Tasks : task[u].pc = "sub_insert" /\ task[u].handle = f
      BY <3>1, <2>3
    <3> QED
      BY <1>1, <3>1 DEF NoOrphanForwarder
  <2>5. running \ {h} \in SUBSET Forwarders
    BY <1>3
  <2> QED
    BY <1>1, <1>3, <2>1, <2>2, <2>4, <2>5, SettleTypes, SettleKeeps DEF IInv, TypeOK
<1> QED
  BY <1>4, <1>5

(* An unsubscribe aborts the handle it takes out of the slot.              *)
LEMMA RemoveSubscriptionIInv ==
    ASSUME IInv, NEW t \in Tasks, RemoveSubscription(t)
    PROVE  IInv'
<1> DEFINE s == task[t].session
           c == task[t].channel
           g == subs[s][c]
           sb == [subs EXCEPT ![s][c] = None]
<1>1. TypeOK /\ NoOrphanForwarder /\ task[t].pc = "unsub_remove"
      /\ (Return(t) \/ Goto(t, "unsub_retain")) /\ Settle(sb, running \ {g})
      /\ UNCHANGED <<next_id, sessions, owned, keys, channels>>
  BY DEF IInv, RemoveSubscription
<1>2. s \in SessionIds /\ c \in Channels
  BY <1>1 DEF TypeOK, Task, TaskRecord, UnsubscribePcs
<1>3. subs \in [SessionIds -> [Channels -> Forwarders \union {None}]] /\ running \in SUBSET Forwarders
  BY <1>1 DEF TypeOK
<1>4. task' \in [Tasks -> Task]
  BY <1>1, TaskMoves DEF UnsubscribePcs
<1>5. \A u \in Tasks \ {t} : task'[u] = task[u]
  BY <1>1, OtherTasksStay
<1>6. sb \in [SessionIds -> [Channels -> Forwarders \union {None}]] /\ running \ {g} \in SUBSET Forwarders
  BY <1>2, <1>3
<1>7. \A r \in SessionIds, d \in Channels : subs[r][d] # g => sb[r][d] = subs[r][d]
  BY <1>2, <1>3
<1> HIDE DEF sb, g
<1>8. Accounted(sb, running \ {g})
  <2> SUFFICES ASSUME NEW f \in running, f # g
               PROVE  \/ \E r \in SessionIds, d \in Channels : sb[r][d] = f
                      \/ \E u \in Tasks : task'[u].pc = "sub_insert" /\ task'[u].handle = f
    BY DEF Accounted
  <2>1. CASE \E r \in SessionIds, d \in Channels : subs[r][d] = f /\ Held(r)
    BY <2>1, <1>7
  <2>2. CASE \E u \in Tasks : task[u].pc = "sub_insert" /\ task[u].handle = f
    BY <2>2, <1>1, <1>5
  <2> QED
    BY <1>1, <2>1, <2>2 DEF NoOrphanForwarder
<1> QED
  BY <1>1, <1>4, <1>6, <1>8, SettleTypes, SettleKeeps DEF IInv, TypeOK

-----------------------------------------------------------------------------
(* A step that releases no Arc, no subscription and no private handle      *)
(* keeps every forwarder it does not start accounted for.                  *)
LEMMA NothingReleased ==
    ASSUME NoOrphanForwarder,
           sessions \subseteq sessions', owned \subseteq owned', subs' = subs,
           \A u \in Tasks : task[u].pc \notin {"idle"} \union ClosePcs =>
             /\ task'[u].pc = task[u].pc
             /\ task'[u].session = task[u].session
             /\ task'[u].handle = task[u].handle,
           NEW f \in running
    PROVE  \/ \E s \in SessionIds, c \in Channels : subs'[s][c] = f /\ Held(s)'
           \/ \E u \in Tasks : task'[u].pc = "sub_insert" /\ task'[u].handle = f
<1>1. \A s \in SessionIds : Held(s) => Held(s)'
  <2> SUFFICES ASSUME NEW s \in SessionIds, Held(s) PROVE Held(s)'
    OBVIOUS
  <2>1. CASE \E u \in Tasks : task[u].pc \notin {"idle"} \union ClosePcs /\ task[u].session = s
    <3>1. PICK u \in Tasks : task[u].pc \notin {"idle"} \union ClosePcs /\ task[u].session = s
      BY <2>1
    <3>2. task'[u].pc \notin {"idle"} \union ClosePcs /\ task'[u].session = s
      BY <3>1 DEF ClosePcs
    <3> QED
      BY <3>2 DEF Held, ClosePcs
  <2>2. CASE s \in sessions \/ s \in owned
    BY <2>2 DEF Held
  <2> QED
    BY <2>1, <2>2 DEF Held
<1>2. CASE \E s \in SessionIds, c \in Channels : subs[s][c] = f /\ Held(s)
  BY <1>1, <1>2
<1>3. CASE \E u \in Tasks : task[u].pc = "sub_insert" /\ task[u].handle = f
  BY <1>3 DEF ClosePcs
<1> QED
  BY <1>2, <1>3 DEF NoOrphanForwarder

(* open_session: a fresh id, no subscription yet.                          *)
LEMMA OpenSessionIInv ==
    ASSUME IInv, OpenSession
    PROVE  IInv'
<1>1. TypeOK /\ NoOrphanForwarder
  BY DEF IInv
<1>2. TypeOK'
  BY <1>1, RegistryConstants, SMT DEF TypeOK, OpenSession, SessionIds
<1>3. NoOrphanForwarder'
  <2> SUFFICES ASSUME NEW f \in running
               PROVE  \/ \E s \in SessionIds, c \in Channels : subs'[s][c] = f /\ Held(s)'
                      \/ \E u \in Tasks : task'[u].pc = "sub_insert" /\ task'[u].handle = f
    BY DEF NoOrphanForwarder, OpenSession
  <2> QED
    BY <1>1, NothingReleased DEF OpenSession
<1> QED
  BY <1>2, <1>3 DEF IInv

(* A handler starts: its task takes a reference, nothing is released.      *)
LEMMA BeginIInv ==
    ASSUME IInv, NEW t \in Tasks, NEW s \in SessionIds, NEW c \in Channels \union {None},
           \/ c \in Channels /\ (BeginSubscribe(t, s, c) \/ BeginUnsubscribe(t, s, c))
           \/ BeginKick(t, s)
           \/ BeginClose(t, s)
    PROVE  IInv'
<1>1. TypeOK /\ NoOrphanForwarder /\ task[t].pc = "idle"
      /\ UNCHANGED <<next_id, sessions, owned, subs, running, keys, channels>>
  BY DEF IInv, BeginSubscribe, BeginUnsubscribe, BeginKick, BeginClose, Begin
<1>2. task' \in [Tasks -> Task]
  BY <1>1, TaskMoves DEF BeginSubscribe, BeginUnsubscribe, BeginKick, BeginClose
<1>3. \A u \in Tasks \ {t} : task'[u] = task[u]
  BY <1>1 DEF TypeOK, BeginSubscribe, BeginUnsubscribe, BeginKick, BeginClose, Begin
<1>4. NoOrphanForwarder'
  <2> SUFFICES ASSUME NEW f \in running
               PROVE  \/ \E r \in SessionIds, d \in Channels : subs'[r][d] = f /\ Held(r)'
                      \/ \E u \in Tasks : task'[u].pc = "sub_insert" /\ task'[u].handle = f
    BY <1>1 DEF NoOrphanForwarder
  <2> QED
    BY <1>1, <1>3, NothingReleased
<1> QED
  BY <1>1, <1>2, <1>4 DEF IInv, TypeOK

(* tokio::spawn: the new forwarder is the private handle of the handler.   *)
LEMMA SpawnForwarderIInv ==
    ASSUME IInv, NEW t \in Tasks, NEW g \in Forwarders, SpawnForwarder(t, g)
    PROVE  IInv'
<1>1. TypeOK /\ NoOrphanForwarder /\ task[t].pc = "sub_forward"
      /\ task' = [task EXCEPT ![t].pc = "sub_insert", ![t].handle = g]
      /\ running' = running \union {g}
      /\ UNCHANGED <<next_id, sessions, owned, subs, keys, channels>>
  BY DEF IInv, SpawnForwarder
<1>2. task \in [Tasks -> Task] /\ task[t] \in Task
  BY <1>1 DEF TypeOK
<1>3. [task[t] EXCEPT !.pc = "sub_insert", !.handle = g] \in Task
  BY <1>1, <1>2 DEF Task, TaskRecord, SubscribePcs, UnsubscribePcs
<1>4. task' \in [Tasks -> Task] /\ \A u \in Tasks \ {t} : task'[u] = task[u]
  BY <1>1, <1>2, <1>3
<1>5. task'[t].pc = "sub_insert" /\ task'[t].handle = g /\ task'[t].session = task[t].session
  BY <1>1, <1>2 DEF Task, TaskRecord
<1>6. \A s \in SessionIds : Held(s) => Held(s)'
  <2> SUFFICES ASSUME NEW s \in SessionIds, Held(s) PROVE Held(s)'
    OBVIOUS
  <2>1. CASE \E u \in Tasks : task[u].pc \notin {"idle"} \union ClosePcs /\ task[u].session = s
    <3>1. PICK u \in Tasks : task[u].pc \notin {"idle"} \union ClosePcs /\ task[u].session = s
      BY <2>1
    <3>2. task'[u].pc \notin {"idle"} \union ClosePcs /\ task'[u].session = s
      BY <3>1, <1>4, <1>5 DEF ClosePcs
    <3> QED
      BY <3>2 DEF Held, ClosePcs
  <2> QED
    BY <1>1, <2>1 DEF Held
<1>7. NoOrphanForwarder'
  <2> SUFFICES ASSUME NEW f \in running \union {g}
               PROVE  \/ \E r \in SessionIds, d \in Channels : subs'[r][d] = f /\ Held(r)'
                      \/ \E u \in Tasks : task'[u].pc = "sub_insert" /\ task'[u].handle = f
    BY <1>1 DEF NoOrphanForwarder
  <2>1. CASE f = g
    BY <2>1, <1>5
  <2>2. CASE \E r \in SessionIds, d \in Channels : subs[r][d] = f /\ Held(r)
    BY <2>2, <1>1, <1>6
  <2>3. CASE \E u \in Tasks : task[u].pc = "sub_insert" /\ task[u].handle = f
    BY <2>3, <1>1, <1>4
  <2> QED
    BY <1>1, <2>1, <2>2, <2>3 DEF NoOrphanForwarder
<1> QED
  BY <1>1, <1>4, <1>7 DEF IInv, TypeOK

(* deregister: whichever of its steps releases the last Arc settles.       *)
LEMMA DeregisterIInv ==
    ASSUME IInv, NEW t \in Tasks, RemoveSession(t) \/ EndScrub(t)
    PROVE  IInv'
<1> DEFINE p == IF task[t].pc = "kick_remove" THEN "kick_scrub" ELSE "close_scrub"
           moved == [task EXCEPT ![t].todo = Channels, ![t].pc = p]
<1>1. TypeOK /\ task[t].pc \in KickPcs \union ClosePcs /\ Settle(subs, running)
      /\ UNCHANGED <<next_id, keys, channels>>
      /\ sessions' \subseteq sessions /\ owned' \subseteq owned
  BY DEF IInv, RemoveSession, EndScrub, EndDeregister, KickPcs, ClosePcs
<1>2. Return(t) \/ task' = moved
  <2>1. CASE EndScrub(t)
    BY <2>1 DEF EndScrub, EndDeregister
  <2>2. CASE RemoveSession(t) /\ task[t].session \notin sessions
    BY <2>2 DEF RemoveSession, EndDeregister
  <2>3. CASE RemoveSession(t) /\ task[t].session \in sessions
    <3>1. task' = [task EXCEPT ![t].todo = Channels,
                               ![t].pc = IF @ = "kick_remove" THEN "kick_scrub" ELSE "close_scrub"]
      BY <2>3 DEF RemoveSession
    <3> QED
      BY <3>1
  <2> QED
    BY <2>1, <2>2, <2>3
<1>3. task' \in [Tasks -> Task] /\ \A u \in Tasks \ {t} : task'[u] = task[u]
  <2>1. CASE Return(t)
    <3>1. task' \in [Tasks -> Task]
      BY <1>1, <2>1, TaskMoves
    <3>2. \A u \in Tasks \ {t} : task'[u] = task[u]
      BY <1>1, <2>1, OtherTasksStay
    <3> QED
      BY <3>1, <3>2
  <2>2. CASE task' = moved
    <3>1. task \in [Tasks -> Task] /\ task[t] \in Task
      BY <1>1 DEF TypeOK
    <3>2. p \in {"kick_scrub", "close_scrub"}
      OBVIOUS
    <3> HIDE DEF p
    <3>3. [task[t] EXCEPT !.todo = Channels, !.pc = p] \in Task
      BY <3>1, <3>2 DEF Task, TaskRecord, KickPcs, ClosePcs, SubscribePcs, UnsubscribePcs
    <3> QED
      BY <2>2, <3>1, <3>3
  <2> QED
    BY <1>2, <2>1, <2>2
<1>4. task[t].pc # "sub_insert"
  BY <1>1 DEF KickPcs, ClosePcs
<1>5. /\ subs' \in [SessionIds -> [Channels -> Forwarders \union {None}]]
      /\ running' \subseteq Forwarders
      /\ NoOrphanForwarder'
  BY <1>1, <1>3, <1>4, QuietStep
<1> QED
  BY <1>1, <1>3, <1>5 DEF IInv, TypeOK

(* deregister scrubs one channel of the index.                             *)
LEMMA ScrubChannelIInv ==
    ASSUME IInv, NEW t \in Tasks, NEW c \in Channels, ScrubChannel(t, c)
    PROVE  IInv'
<1> DEFINE left == [channels[c] EXCEPT ![task[t].session] = 0]
<1>1. TypeOK /\ NoOrphanForwarder /\ task[t].pc \in {"kick_scrub", "close_scrub"}
      /\ task' = [task EXCEPT ![t].todo = @ \ {c}]
      /\ channels' = [channels EXCEPT ![c] = left]
      /\ keys' \subseteq keys
      /\ UNCHANGED <<next_id, sessions, owned, subs, running>>
  BY DEF IInv, ScrubChannel
<1>2. task \in [Tasks -> Task] /\ task[t] \in Task /\ task[t].session \in SessionIds
  BY <1>1 DEF TypeOK, Task, TaskRecord
<1>3. [task[t] EXCEPT !.todo = @ \ {c}] \in Task
  BY <1>1, <1>2 DEF Task, TaskRecord, SubscribePcs, UnsubscribePcs
<1>4. task' \in [Tasks -> Task]
  BY <1>1, <1>2, <1>3
<1>5. channels' \in [Channels -> [SessionIds -> Nat]]
  BY <1>1, <1>2, IndexTypes
<1>6. \A u \in Tasks : task'[u].pc = task[u].pc /\ task'[u].session = task[u].session
                                               /\ task'[u].handle = task[u].handle
  BY <1>1, <1>2 DEF Task, TaskRecord
<1>7. NoOrphanForwarder'
  <2> SUFFICES ASSUME NEW f \in running
               PROVE  \/ \E r \in SessionIds, d \in Channels : subs'[r][d] = f /\ Held(r)'
                      \/ \E u \in Tasks : task'[u].pc = "sub_insert" /\ task'[u].handle = f
    BY <1>1 DEF NoOrphanForwarder
  <2> QED
    BY <1>1, <1>6, NothingReleased
<1> QED
  BY <1>1, <1>4, <1>5, <1>7 DEF IInv, TypeOK

(* A forwarder that ends by itself needs no owner any more.                *)
LEMMA ForwarderEndsIInv ==
    ASSUME IInv, NEW g \in Forwarders, ForwarderEnds(g)
    PROVE  IInv'
<1>1. TypeOK /\ NoOrphanForwarder /\ running' = running \ {g}
      /\ UNCHANGED <<next_id, sessions, owned, subs, keys, channels, task>>
  BY DEF IInv, ForwarderEnds
<1>2. NoOrphanForwarder'
  <2> SUFFICES ASSUME NEW f \in running
               PROVE  \/ \E r \in SessionIds, d \in Channels : subs'[r][d] = f /\ Held(r)'
                      \/ \E u \in Tasks : task'[u].pc = "sub_insert" /\ task'[u].handle = f
    BY <1>1 DEF NoOrphanForwarder
  <2> QED
    BY <1>1, NothingReleased
<1> QED
  BY <1>1, <1>2 DEF IInv, TypeOK

(* Stuttering.                                                             *)
LEMMA UnchangedIInv ==
    ASSUME IInv, UNCHANGED vars
    PROVE  IInv'
<1>1. TypeOK'
  BY DEF IInv, TypeOK, vars
<1>2. NoOrphanForwarder'
  <2> SUFFICES ASSUME NEW f \in running
               PROVE  \/ \E r \in SessionIds, d \in Channels : subs'[r][d] = f /\ Held(r)'
                      \/ \E u \in Tasks : task'[u].pc = "sub_insert" /\ task'[u].handle = f
    BY DEF NoOrphanForwarder, vars
  <2> QED
    BY NothingReleased DEF IInv, vars
<1> QED
  BY <1>1, <1>2 DEF IInv

-----------------------------------------------------------------------------
(* The empty registry.                                                     *)
LEMMA InitIInv == Init => IInv
<1> SUFFICES ASSUME Init PROVE IInv
  OBVIOUS
<1>1. TypeOK
  BY IdleTaskType, RegistryConstants, SMT DEF Init, TypeOK, SessionIds, NoSubs, Empty
<1>2. NoOrphanForwarder
  BY DEF Init, NoOrphanForwarder
<1> QED
  BY <1>1, <1>2 DEF IInv

(* One await-to-await step of a running handler.                           *)
LEMMA StepIInv ==
    ASSUME IInv, NEW t \in Tasks, Step(t)
    PROVE  IInv'
BY RefuseSubscribeIInv, SpawnForwarderIInv, InsertSubscriptionIInv, AddSubscriptionIInv,
   RemoveSubscriptionIInv, DeregisterIInv, ScrubChannelIInv DEF Step

(* IInv is inductive.                                                      *)
LEMMA NextIInv == IInv /\ [Next]_vars => IInv'
<1> SUFFICES ASSUME IInv, [Next]_vars PROVE IInv'
  OBVIOUS
<1>1. CASE OpenSession
  BY <1>1, OpenSessionIInv
<1>2. ASSUME NEW t \in Tasks, NEW s \in SessionIds, NEW c \in Channels,
             BeginSubscribe(t, s, c) \/ BeginUnsubscribe(t, s, c)
      PROVE  IInv'
  BY <1>2, BeginIInv
<1>3. ASSUME NEW t \in Tasks, NEW s \in SessionIds, BeginKick(t, s) \/ BeginClose(t, s)
      PROVE  IInv'
  <2>1. None \in Channels \union {None}
    OBVIOUS
  <2> QED
    BY <1>3, <2>1, BeginIInv
<1>4. ASSUME NEW t \in Tasks, Step(t) PROVE IInv'
  BY <1>4, StepIInv
<1>5. ASSUME NEW f \in Forwarders, ForwarderEnds(f) PROVE IInv'
  BY <1>5, ForwarderEndsIInv
<1>6. CASE UNCHANGED vars
  BY <1>6, UnchangedIInv
<1> QED
  BY <1>1, <1>2, <1>3, <1>4, <1>5, <1>6 DEF Next, AllClosed

(* The registry, the sessions' subscriptions and the handlers are well     *)
(* typed in every reachable state.                                         *)
THEOREM TypeCorrect == Spec => []TypeOK
<1>1. IInv => TypeOK
  BY DEF IInv
<1> QED
  BY <1>1, InitIInv, NextIInv, PTL DEF Spec

(* No interleaving of handle_subscribe, handle_unsubscribe, kick_session   *)
(* and close_session leaves a forwarder running that no subscription of a  *)
(* live session and no handler accounts for.                               *)
THEOREM NoOrphanTheorem == Spec => []NoOrphanForwarder
<1>1. IInv => NoOrphanForwarder
  BY DEF IInv
<1> QED
  BY <1>1, InitIInv, NextIInv, PTL DEF Spec

-----------------------------------------------------------------------------
(* The reverse index.  Why IndexNamesSubscribers holds: an id is fresh     *)
(* when it is registered, a sequential transport has one handler at a time *)
(* in the registry, and between the two inserts of handle_subscribe the    *)
(* session's slot is taken and its place in the index is free.             *)
Known ==
    /\ \A s \in sessions \union owned : s < next_id
    /\ \A t \in Tasks : task[t].pc # "idle" => task[t].session < next_id
    /\ \A c \in Channels, s \in SessionIds : ~(s < next_id) => channels[c][s] = 0
    /\ \A t \in Tasks : task[t].pc = "sub_insert" => task[t].handle # None

Handles(t, s) == task[t].session = s /\ task[t].pc \notin {"idle"} \union KickPcs

OneHandler == \A s \in Sequential : \A t, u \in Tasks : Handles(t, s) /\ Handles(u, s) => t = u

Indexing ==
    \A t \in Tasks :
      task[t].pc = "sub_index" /\ task[t].session \in sessions \intersect Sequential =>
        /\ subs[task[t].session][task[t].channel] # None
        /\ channels[task[t].channel][task[t].session] = 0

IndexInv == Known /\ OneHandler /\ Indexing /\ IndexNamesSubscribers

(* What a running handler may do to its own task.                          *)
MovesOn(t) ==
    /\ \A u \in Tasks \ {t} : task'[u] = task[u]
    /\ \/ task'[t].pc = "idle"
       \/ /\ task[t].pc # "idle" /\ task'[t].session = task[t].session
          /\ task'[t].pc \in KickPcs <=> task[t].pc \in KickPcs
          /\ task'[t].pc = "sub_insert" => task'[t].handle # None

(* No handler adds itself to another session, so a sequential session      *)
(* keeps its one handler, and ids not handed out yet stay out of the index. *)
LEMMA HandlersMove ==
    ASSUME TypeOK, Known, OneHandler, NEW t \in Tasks, MovesOn(t),
           next_id' = next_id, sessions' \subseteq sessions, owned' \subseteq owned,
           \A c \in Channels, s \in SessionIds : s < next_id \/ channels'[c][s] \in {channels[c][s], 0}
    PROVE  Known' /\ OneHandler'
<1>1. Known'
  <2>1. \A s \in sessions' \union owned' : s < next_id'
    BY DEF Known
  <2>2. \A u \in Tasks : task'[u].pc # "idle" => task'[u].session < next_id'
    BY DEF Known, MovesOn
  <2>3. \A c \in Channels, s \in SessionIds : ~(s < next_id') => channels'[c][s] = 0
    BY DEF Known
  <2>4. \A u \in Tasks : task'[u].pc = "sub_insert" => task'[u].handle # None
    BY DEF Known, MovesOn
  <2> QED BY <2>1, <2>2, <2>3, <2>4 DEF Known
<1>2. \A s \in Sequential : \A u \in Tasks : Handles(u, s)' => Handles(u, s)
  <2> SUFFICES ASSUME NEW s \in Sequential, NEW u \in Tasks, Handles(u, s)'
               PROVE  Handles(u, s)
    OBVIOUS
  <2>1. CASE u = t
    BY <2>1 DEF MovesOn, Handles
  <2>2. CASE u # t
    BY <2>2 DEF MovesOn, Handles
  <2> QED BY <2>1, <2>2
<1>3. OneHandler'
  BY <1>2 DEF OneHandler
<1> QED BY <1>1, <1>3

(* Session::drop leaves the subscriptions of a registered session alone.   *)
LEMMA RegisteredKeepsSubs ==
    ASSUME NEW sb, NEW run, Settle(sb, run), NEW s \in SessionIds, s \in sessions'
    PROVE  subs'[s] = sb[s]
<1>1. Held(s)'
  BY DEF Held
<1> QED BY <1>1 DEF Settle

(* A step that touches no registered session's subscriptions, puts nobody  *)
(* into the index and takes nobody past the first insert of a subscribe.   *)
LEMMA QuietIndex ==
    ASSUME TypeOK, Indexing, IndexNamesSubscribers, sessions' \subseteq sessions,
           \A s \in sessions' : subs'[s] = subs[s],
           \A c \in Channels, s \in SessionIds : channels'[c][s] \in {channels[c][s], 0},
           \A u \in Tasks : task'[u].pc = "sub_index" => task'[u] = task[u],
           \A u \in Tasks : task[u].pc = "unsub_retain" =>
             task'[u] = task[u] \/ channels'[task[u].channel][task[u].session] = 0
    PROVE  Indexing' /\ IndexNamesSubscribers'
<1>1. sessions \subseteq SessionIds /\ task \in [Tasks -> Task] /\ channels \in [Channels -> [SessionIds -> Nat]]
  BY DEF TypeOK
<1>2. Indexing'
  <2> SUFFICES ASSUME NEW u \in Tasks, task'[u].pc = "sub_index",
                      task'[u].session \in sessions' \intersect Sequential
               PROVE  /\ subs'[task'[u].session][task'[u].channel] # None
                      /\ channels'[task'[u].channel][task'[u].session] = 0
    BY DEF Indexing
  <2>1. task'[u] = task[u] /\ task[u].channel \in Channels /\ task[u].session \in SessionIds
    BY <1>1 DEF Task, TaskRecord, SubscribePcs
  <2> QED BY <2>1, SMT DEF Indexing
<1>3. IndexNamesSubscribers'
  <2> SUFFICES ASSUME NEW s \in sessions' \intersect Sequential, NEW c \in Channels
               PROVE  /\ channels'[c][s] <= 1
                      /\ channels'[c][s] = 1 =>
                           \/ subs'[s][c] # None
                           \/ \E u \in Tasks : task'[u].pc = "unsub_retain" /\ task'[u].session = s
                                                                          /\ task'[u].channel = c
    BY DEF IndexNamesSubscribers
  <2>1. /\ channels[c][s] <= 1
        /\ channels[c][s] = 1 =>
             \/ subs[s][c] # None
             \/ \E u \in Tasks : task[u].pc = "unsub_retain" /\ task[u].session = s
                                                           /\ task[u].channel = c
    BY SMT DEF IndexNamesSubscribers
  <2>2. s \in SessionIds /\ channels'[c][s] \in {channels[c][s], 0} /\ subs'[s] = subs[s]
    BY <1>1
  <2>3. channels'[c][s] <= 1
    BY <2>1, <2>2, SMT
  <2>4. ASSUME channels'[c][s] = 1, subs'[s][c] = None
        PROVE  \E u \in Tasks : task'[u].pc = "unsub_retain" /\ task'[u].session = s /\ task'[u].channel = c
    <3>1. channels[c][s] = 1 /\ subs[s][c] = None
      BY <2>2, <2>4, SMT
    <3>2. PICK u \in Tasks : task[u].pc = "unsub_retain" /\ task[u].session = s /\ task[u].channel = c
      BY <2>1, <3>1
    <3>3. task'[u] = task[u]
      BY <2>4, <3>2, SMT
    <3> QED BY <3>2, <3>3
  <2> QED BY <2>3, <2>4
<1> QED BY <1>2, <1>3

(* Returning and moving to the next label are moves.                       *)
LEMMA ReturnMoves ==
    ASSUME TypeOK, NEW t \in Tasks, Return(t)
    PROVE  MovesOn(t) /\ task'[t].pc = "idle"
<1>1. task' = [task EXCEPT ![t] = IdleTask] /\ task \in [Tasks -> Task]
  BY DEF Return, TypeOK
<1>2. task'[t] = IdleTask /\ \A u \in Tasks \ {t} : task'[u] = task[u]
  BY <1>1
<1> QED BY <1>2, SMT DEF MovesOn, IdleTask

LEMMA GotoMoves ==
    ASSUME TypeOK, NEW t \in Tasks, task[t].pc \in SubscribePcs \union UnsubscribePcs,
           NEW l \in {"sub_forward", "unsub_retain", "unsub_drop_key"}, Goto(t, l)
    PROVE  /\ MovesOn(t) /\ task'[t].pc = l
           /\ task'[t].session = task[t].session /\ task'[t].channel = task[t].channel
<1>1. task' = [task EXCEPT ![t].pc = l] /\ task \in [Tasks -> Task] /\ task[t] \in Task
  BY DEF Goto, TypeOK
<1>2. \A u \in Tasks \ {t} : task'[u] = task[u]
  BY <1>1
<1>3. task'[t].pc = l /\ task'[t].session = task[t].session /\ task'[t].channel = task[t].channel
  BY <1>1 DEF Task, TaskRecord
<1> QED BY <1>2, <1>3 DEF MovesOn, SubscribePcs, UnsubscribePcs, KickPcs

(* The steps of a handler that leave the subscriptions of registered       *)
(* sessions alone and only take ids out of the index.                      *)
LEMMA QuietHandler ==
    ASSUME IInv, IndexInv, NEW t \in Tasks, MovesOn(t), next_id' = next_id,
           sessions' \subseteq sessions, owned' \subseteq owned,
           subs' = subs \/ \E run \in SUBSET Forwarders : Settle(subs, run),
           \A c \in Channels, s \in SessionIds : channels'[c][s] \in {channels[c][s], 0},
           task'[t].pc # "sub_index",
           task[t].pc # "unsub_retain" \/ channels'[task[t].channel][task[t].session] = 0
    PROVE  IndexInv'
<1>1. TypeOK /\ Known /\ OneHandler /\ Indexing /\ IndexNamesSubscribers /\ sessions' \subseteq SessionIds
  BY DEF IInv, IndexInv, TypeOK
<1>2. \A s \in sessions' : subs'[s] = subs[s]
  BY <1>1, RegisteredKeepsSubs
<1>3. Known' /\ OneHandler'
  BY <1>1, HandlersMove
<1>4. \A u \in Tasks : task'[u].pc = "sub_index" => task'[u] = task[u]
  BY DEF MovesOn
<1>5. \A u \in Tasks : task[u].pc = "unsub_retain" =>
        task'[u] = task[u] \/ channels'[task[u].channel][task[u].session] = 0
  BY DEF MovesOn
<1>6. Indexing' /\ IndexNamesSubscribers'
  BY <1>1, <1>2, <1>4, <1>5, QuietIndex
<1> QED BY <1>3, <1>6 DEF IndexInv

(* A subscribe that is refused, finds its slot taken or spawns.            *)
LEMMA SubscribeIndex ==
    ASSUME IInv, IndexInv, NEW t \in Tasks,
           RefuseSubscribe(t) \/ CheckSubscription(t) \/ (\E f \in Forwarders : SpawnForwarder(t, f))
    PROVE  IndexInv'
<1>1. /\ UNCHANGED <<next_id, sessions, owned, channels>>
      /\ task[t].pc \in {"sub_check", "sub_forward"}
  BY DEF RefuseSubscribe, CheckSubscription, SpawnForwarder
<1>2. subs' = subs \/ \E run \in SUBSET Forwarders : Settle(subs, run)
  <2>1. running \in SUBSET Forwarders
    BY DEF IInv, TypeOK
  <2> QED BY <2>1 DEF RefuseSubscribe, CheckSubscription, SpawnForwarder
<1>3. MovesOn(t) /\ task'[t].pc # "sub_index"
  <2>1. CASE Return(t)
    BY <2>1, ReturnMoves DEF IInv
  <2>2. CASE Goto(t, "sub_forward")
    BY <1>1, <2>2, GotoMoves DEF IInv, SubscribePcs
  <2>3. ASSUME NEW f \in Forwarders, SpawnForwarder(t, f) PROVE MovesOn(t) /\ task'[t].pc = "sub_insert"
    <3>1. task' = [task EXCEPT ![t].pc = "sub_insert", ![t].handle = f]
      BY <2>3 DEF SpawnForwarder
    <3>2. task \in [Tasks -> Task] /\ task[t] \in Task
      BY DEF IInv, TypeOK
    <3>3. \A u \in Tasks \ {t} : task'[u] = task[u]
      BY <3>1, <3>2
    <3>4. task'[t].pc = "sub_insert" /\ task'[t].handle = f /\ task'[t].session = task[t].session
      BY <3>1, <3>2 DEF Task, TaskRecord
    <3>5. f # None
      BY RegistryConstants
    <3> QED BY <1>1, <3>3, <3>4, <3>5 DEF MovesOn, KickPcs
  <2> QED BY <2>1, <2>2, <2>3 DEF RefuseSubscribe, CheckSubscription
<1> QED BY <1>1, <1>2, <1>3, QuietHandler

(* deregister takes ids out of the registry and the index only.            *)
LEMMA DeregisterIndex ==
    ASSUME IInv, IndexInv, NEW t \in Tasks,
           RemoveSession(t) \/ EndScrub(t) \/ (\E c \in Channels : ScrubChannel(t, c))
    PROVE  IndexInv'
<1>1. /\ next_id' = next_id /\ sessions' \subseteq sessions /\ owned' \subseteq owned
      /\ task[t].pc \in {"kick_remove", "close_remove", "kick_scrub", "close_scrub"}
  BY DEF RemoveSession, EndScrub, ScrubChannel, EndDeregister
<1>2. subs' = subs \/ \E run \in SUBSET Forwarders : Settle(subs, run)
  <2>1. running \in SUBSET Forwarders
    BY DEF IInv, TypeOK
  <2> QED BY <2>1 DEF RemoveSession, EndScrub, ScrubChannel
<1>3. task \in [Tasks -> Task] /\ task[t] \in Task /\ channels \in [Channels -> [SessionIds -> Nat]]
  BY DEF IInv, TypeOK
<1>4. \A c \in Channels, s \in SessionIds : channels'[c][s] \in {channels[c][s], 0}
  <2>1. CASE \E d \in Channels : ScrubChannel(t, d)
    <3>1. PICK d \in Channels : channels' = [channels EXCEPT ![d] = [channels[d] EXCEPT ![task[t].session] = 0]]
      BY <2>1, ZenonT(30) DEF ScrubChannel
    <3> QED BY <1>3, <3>1
  <2>2. CASE channels' = channels
    BY <2>2
  <2> QED BY <2>1, <2>2 DEF RemoveSession, EndScrub
<1>5. MovesOn(t) /\ task'[t].pc # "sub_index"
  <2>1. CASE Return(t)
    BY <2>1, ReturnMoves DEF IInv
  <2>2. ASSUME NEW c \in Channels, ScrubChannel(t, c) PROVE MovesOn(t) /\ task'[t].pc # "sub_index"
    <3>1. task' = [task EXCEPT ![t].todo = task[t].todo \ {c}]
      BY <2>2 DEF ScrubChannel
    <3>2. task'[t].pc = task[t].pc /\ task'[t].session = task[t].session /\ \A u \in Tasks \ {t} : task'[u] = task[u]
      BY <1>3, <3>1 DEF Task, TaskRecord
    <3> QED BY <1>1, <3>2 DEF MovesOn
  <2>3. CASE RemoveSession(t) /\ task[t].session \in sessions
    <3> DEFINE p == IF task[t].pc = "kick_remove" THEN "kick_scrub" ELSE "close_scrub"
    <3>1. task' = [task EXCEPT ![t].todo = Channels, ![t].pc = p] /\ task[t].pc \in {"kick_remove", "close_remove"}
      <4>1. task' = [task EXCEPT ![t].todo = Channels,
                                 ![t].pc = IF @ = "kick_remove" THEN "kick_scrub" ELSE "close_scrub"]
        BY <2>3 DEF RemoveSession
      <4> QED BY <2>3, <4>1 DEF RemoveSession
    <3>2. /\ p \in {"kick_scrub", "close_scrub"} /\ p # "sub_index" /\ p # "sub_insert"
          /\ p \in KickPcs <=> task[t].pc \in KickPcs
      BY <3>1 DEF KickPcs
    <3> HIDE DEF p
    <3>3. task'[t].pc = p /\ task'[t].session = task[t].session /\ \A u \in Tasks \ {t} : task'[u] = task[u]
      BY <1>3, <3>1 DEF Task, TaskRecord
    <3> QED BY <1>1, <3>2, <3>3 DEF MovesOn
  <2> QED BY <2>1, <2>2, <2>3 DEF RemoveSession, EndScrub, EndDeregister
<1>6. task[t].pc # "unsub_retain"
  BY <1>1
<1> QED BY <1>1, <1>2, <1>4, <1>5, <1>6, QuietHandler

(* registry.remove_subscription takes the id out before it returns.        *)
LEMMA RetainIndex ==
    ASSUME IInv, IndexInv, NEW t \in Tasks, RetainOthers(t) \/ DropKey(t)
    PROVE  IndexInv'
<1> DEFINE c == task[t].channel
           s == task[t].session
<1>1. /\ UNCHANGED <<next_id, sessions, owned>> /\ Settle(subs, running)
      /\ task[t].pc \in {"unsub_retain", "unsub_drop_key"}
      /\ Return(t) \/ Goto(t, "unsub_drop_key")
  BY DEF RetainOthers, DropKey
<1>2. /\ running \in SUBSET Forwarders /\ channels \in [Channels -> [SessionIds -> Nat]]
      /\ s \in SessionIds /\ c \in Channels /\ TypeOK
  BY <1>1 DEF IInv, TypeOK, Task, TaskRecord, UnsubscribePcs
<1>3. /\ \A d \in Channels, r \in SessionIds : channels'[d][r] \in {channels[d][r], 0}
      /\ channels'[c][s] = 0
  <2>1. CASE RetainOthers(t)
    <3>1. channels' = [channels EXCEPT ![c] = [channels[c] EXCEPT ![s] = 0]]
      BY <2>1 DEF RetainOthers
    <3> QED BY <1>2, <3>1
  <2>2. CASE DropKey(t)
    <3>1. channels' = [channels EXCEPT ![c] = Empty]
      BY <2>2 DEF DropKey
    <3> QED BY <1>2, <3>1 DEF Empty
  <2> QED BY <2>1, <2>2
<1>4. MovesOn(t) /\ task'[t].pc # "sub_index"
  <2>1. CASE Return(t)
    BY <1>2, <2>1, ReturnMoves
  <2>2. CASE Goto(t, "unsub_drop_key")
    BY <1>1, <1>2, <2>2, GotoMoves DEF UnsubscribePcs
  <2> QED BY <1>1, <2>1, <2>2
<1> QED BY <1>1, <1>2, <1>3, <1>4, QuietHandler

(* insert_subscription: the slot was free, so nobody is in the index for   *)
(* it unless an unsubscribe is under way, and that would be a second       *)
(* handler of the session.                                                 *)
LEMMA InsertIndex ==
    ASSUME IInv, IndexInv, NEW t \in Tasks, InsertSubscription(t)
    PROVE  IndexInv'
<1> DEFINE c == task[t].channel
           s == task[t].session
           h == task[t].handle
<1>1. /\ UNCHANGED <<next_id, sessions, owned, channels>> /\ task[t].pc = "sub_insert" /\ TypeOK
      /\ Known /\ OneHandler /\ Indexing /\ IndexNamesSubscribers
  BY DEF InsertSubscription, IInv, IndexInv
<1>2. /\ running \in SUBSET Forwarders /\ channels \in [Channels -> [SessionIds -> Nat]]
      /\ s \in SessionIds /\ c \in Channels /\ h # None /\ task \in [Tasks -> Task] /\ task[t] \in Task
      /\ subs \in [SessionIds -> [Channels -> Forwarders \union {None}]] /\ sessions \subseteq SessionIds
  BY <1>1 DEF TypeOK, Task, TaskRecord, SubscribePcs, Known
<1>3. CASE subs[s][c] # None
  <2>1. Return(t) /\ Settle(subs, running \ {h}) /\ running \ {h} \in SUBSET Forwarders
    BY <1>2, <1>3 DEF InsertSubscription
  <2>2. MovesOn(t) /\ task'[t].pc = "idle"
    BY <1>1, <2>1, ReturnMoves
  <2> QED BY <1>1, <2>1, <2>2, QuietHandler
<1>4. CASE subs[s][c] = None
  <2> DEFINE sb == [subs EXCEPT ![s][c] = h]
  <2>1. task' = [task EXCEPT ![t].pc = "sub_index", ![t].handle = None] /\ Settle(sb, running)
    BY <1>4 DEF InsertSubscription
  <2>2. /\ task'[t].pc = "sub_index" /\ task'[t].session = s /\ task'[t].channel = c
        /\ \A u \in Tasks \ {t} : task'[u] = task[u]
    BY <1>2, <2>1 DEF Task, TaskRecord
  <2>3. sb[s][c] = h /\ \A r \in SessionIds, d \in Channels : sb[r][d] # None \/ sb[r][d] = subs[r][d]
    BY <1>2
  <2>4. \A r \in SessionIds, d \in Channels : subs[r][d] # None => sb[r][d] # None
    BY <1>2
  <2> HIDE DEF sb
  <2>5. \A r \in sessions' : subs'[r] = sb[r]
    BY <1>1, <1>2, <2>1, RegisteredKeepsSubs
  <2>6. MovesOn(t)
    BY <1>1, <2>2 DEF MovesOn, KickPcs
  <2>7. Known' /\ OneHandler'
    BY <1>1, <2>6, HandlersMove
  <2>8. ASSUME s \in sessions \intersect Sequential
        PROVE  channels[c][s] = 0
    <3>1. Handles(t, s)
      BY <1>1 DEF Handles, KickPcs
    <3>2. ASSUME NEW u \in Tasks, task[u].pc = "unsub_retain", task[u].session = s PROVE FALSE
      <4>1. Handles(u, s)
        BY <3>2 DEF Handles, KickPcs
      <4>2. u = t
        BY <1>1, <2>8, <3>1, <4>1 DEF OneHandler
      <4> QED BY <1>1, <3>2, <4>2
    <3>3. /\ channels[c][s] <= 1
          /\ channels[c][s] = 1 =>
               \/ subs[s][c] # None
               \/ \E u \in Tasks : task[u].pc = "unsub_retain" /\ task[u].session = s /\ task[u].channel = c
      <4>1. c \in Channels /\ IndexNamesSubscribers
        BY <1>1, <1>2
      <4> HIDE DEF c, s
      <4> QED BY <2>8, <4>1 DEF IndexNamesSubscribers
    <3>4. channels[c][s] # 1
      BY <1>4, <3>2, <3>3
    <3>5. channels[c][s] \in Nat
      BY <1>2
    <3> HIDE DEF c, s
    <3> QED BY <3>3, <3>4, <3>5, SMT
  <2>9. Indexing'
    <3> SUFFICES ASSUME NEW u \in Tasks, task'[u].pc = "sub_index",
                        task'[u].session \in sessions' \intersect Sequential
                 PROVE  /\ subs'[task'[u].session][task'[u].channel] # None
                        /\ channels'[task'[u].channel][task'[u].session] = 0
      BY DEF Indexing
    <3>1. CASE u = t
      BY <1>1, <1>2, <2>2, <2>3, <2>5, <2>8, <3>1, ZenonT(30)
    <3>2. CASE u # t
      <4>1. task'[u] = task[u] /\ task[u].channel \in Channels /\ task[u].session \in SessionIds
        BY <1>2, <2>2, <3>2 DEF Task, TaskRecord, SubscribePcs
      <4>2. subs[task[u].session][task[u].channel] # None /\ channels[task[u].channel][task[u].session] = 0
        BY <1>1, <4>1 DEF Indexing
      <4> QED BY <1>1, <2>4, <2>5, <4>1, <4>2
    <3> QED BY <3>1, <3>2
  <2>10. IndexNamesSubscribers'
    <3> SUFFICES ASSUME NEW r \in sessions' \intersect Sequential, NEW d \in Channels
                 PROVE  /\ channels'[d][r] <= 1
                        /\ channels'[d][r] = 1 =>
                             \/ subs'[r][d] # None
                             \/ \E u \in Tasks : task'[u].pc = "unsub_retain" /\ task'[u].session = r
                                                                            /\ task'[u].channel = d
      BY DEF IndexNamesSubscribers
    <3>1. /\ channels[d][r] <= 1
          /\ channels[d][r] = 1 =>
               \/ subs[r][d] # None
               \/ \E u \in Tasks : task[u].pc = "unsub_retain" /\ task[u].session = r /\ task[u].channel = d
      BY <1>1, SMT DEF IndexNamesSubscribers
    <3>2. \A u \in Tasks : task[u].pc = "unsub_retain" => task'[u] = task[u]
      BY <1>1, <2>2
    <3>3. r \in SessionIds /\ subs'[r] = sb[r]
      BY <1>1, <1>2, <2>5
    <3> QED BY <1>1, <2>4, <3>1, <3>2, <3>3
  <2> QED BY <2>7, <2>9, <2>10 DEF IndexInv
<1> QED BY <1>3, <1>4

(* registry.add_subscription: the place in the index is free.              *)
LEMMA AddIndex ==
    ASSUME IInv, IndexInv, NEW t \in Tasks, AddSubscription(t)
    PROVE  IndexInv'
<1> DEFINE c == task[t].channel
           s == task[t].session
<1>1. /\ UNCHANGED <<next_id, sessions, owned>> /\ task[t].pc = "sub_index" /\ TypeOK
      /\ Settle(subs, running) /\ Return(t)
      /\ channels' = [channels EXCEPT ![c][s] = channels[c][s] + 1]
      /\ Known /\ OneHandler /\ Indexing /\ IndexNamesSubscribers
  BY DEF AddSubscription, IInv, IndexInv
<1>2. /\ channels \in [Channels -> [SessionIds -> Nat]] /\ sessions \subseteq SessionIds
      /\ s \in SessionIds /\ c \in Channels /\ task \in [Tasks -> Task]
  BY <1>1 DEF TypeOK, Task, TaskRecord, SubscribePcs
<1>3. \A d \in Channels, r \in SessionIds :
        channels'[d][r] = IF d = c /\ r = s THEN channels[c][s] + 1 ELSE channels[d][r]
  BY <1>1, <1>2
<1>4. MovesOn(t) /\ task'[t].pc = "idle"
  BY <1>1, ReturnMoves
<1>5. s < next_id
  BY <1>1 DEF Known
<1>6. Known' /\ OneHandler'
  <2>1. \A d \in Channels, r \in SessionIds : r < next_id \/ channels'[d][r] \in {channels[d][r], 0}
    BY <1>3, <1>5
  <2> QED BY <1>1, <1>4, <2>1, HandlersMove
<1>7. \A r \in sessions' : subs'[r] = subs[r]
  BY <1>1, <1>2, RegisteredKeepsSubs
<1>8. \A u \in Tasks : task'[u].pc = "sub_index" \/ task[u].pc = "unsub_retain" => u # t /\ task'[u] = task[u]
  BY <1>1, <1>4 DEF MovesOn
<1>9. ASSUME s \in sessions \intersect Sequential
      PROVE  /\ subs[s][c] # None /\ channels[c][s] = 0
             /\ \A u \in Tasks : task'[u].pc = "sub_index" => task[u].session # s
  <2>1. subs[s][c] # None /\ channels[c][s] = 0
    BY <1>1, <1>9 DEF Indexing
  <2>2. ASSUME NEW u \in Tasks, task'[u].pc = "sub_index", task[u].session = s PROVE FALSE
    <3>1. Handles(u, s) /\ Handles(t, s) /\ u # t
      BY <1>1, <1>8, <2>2 DEF Handles, KickPcs
    <3> QED BY <1>1, <1>9, <3>1 DEF OneHandler
  <2> QED BY <2>1, <2>2
<1>10. Indexing'
  <2> SUFFICES ASSUME NEW u \in Tasks, task'[u].pc = "sub_index",
                      task'[u].session \in sessions' \intersect Sequential
               PROVE  /\ subs'[task'[u].session][task'[u].channel] # None
                      /\ channels'[task'[u].channel][task'[u].session] = 0
    BY DEF Indexing
  <2>1. task'[u] = task[u] /\ task[u].channel \in Channels /\ task[u].session \in SessionIds
    BY <1>2, <1>8 DEF Task, TaskRecord, SubscribePcs
  <2>2. subs[task[u].session][task[u].channel] # None /\ channels[task[u].channel][task[u].session] = 0
    BY <1>1, <2>1 DEF Indexing
  <2>3. task[u].session # s
    BY <1>1, <1>9, <2>1
  <2> QED BY <1>1, <1>3, <1>7, <2>1, <2>2, <2>3, SMT
<1>11. IndexNamesSubscribers'
  <2> SUFFICES ASSUME NEW r \in sessions' \intersect Sequential, NEW d \in Channels
               PROVE  /\ channels'[d][r] <= 1
                      /\ channels'[d][r] = 1 =>
                           \/ subs'[r][d] # None
                           \/ \E u \in Tasks : task'[u].pc = "unsub_retain" /\ task'[u].session = r
                                                                          /\ task'[u].channel = d
    BY DEF IndexNamesSubscribers
  <2>1. CASE d = c /\ r = s
    BY <1>1, <1>2, <1>3, <1>7, <1>9, <2>1, SMT
  <2>2. CASE ~(d = c /\ r = s)
    <3>1. /\ channels[d][r] <= 1
          /\ channels[d][r] = 1 =>
               \/ subs[r][d] # None
               \/ \E u \in Tasks : task[u].pc = "unsub_retain" /\ task[u].session = r /\ task[u].channel = d
      BY <1>1, SMT DEF IndexNamesSubscribers
    <3>2. r \in SessionIds /\ channels'[d][r] = channels[d][r] /\ subs'[r] = subs[r]
      BY <1>1, <1>2, <1>3, <1>7, <2>2, ZenonT(30)
    <3> QED BY <1>8, <3>1, <3>2
  <2> QED BY <2>1, <2>2
<1> QED BY <1>6, <1>10, <1>11 DEF IndexInv

(* session.remove_subscription: the slot is emptied, and the index is next *)
(* unless it was empty already.                                            *)
LEMMA RemoveIndex ==
    ASSUME IInv, IndexInv, NEW t \in Tasks, RemoveSubscription(t)
    PROVE  IndexInv'
<1> DEFINE c == task[t].channel
           s == task[t].session
           sb == [subs EXCEPT ![s][c] = None]
<1>1. /\ UNCHANGED <<next_id, sessions, owned, channels>> /\ task[t].pc = "unsub_remove" /\ TypeOK
      /\ \E run \in SUBSET Forwarders : Settle(sb, run)
      /\ IF subs[s][c] = None THEN Return(t) ELSE Goto(t, "unsub_retain")
      /\ Known /\ OneHandler /\ Indexing /\ IndexNamesSubscribers
  BY DEF RemoveSubscription, IInv, IndexInv, TypeOK
<1>2. /\ channels \in [Channels -> [SessionIds -> Nat]] /\ sessions \subseteq SessionIds
      /\ s \in SessionIds /\ c \in Channels /\ task \in [Tasks -> Task]
      /\ subs \in [SessionIds -> [Channels -> Forwarders \union {None}]]
  BY <1>1 DEF TypeOK, Task, TaskRecord, UnsubscribePcs
<1>3. \A r \in SessionIds, d \in Channels : sb[r][d] = IF r = s /\ d = c THEN None ELSE subs[r][d]
  BY <1>2
<1> HIDE DEF sb
<1>4. \A r \in sessions' : subs'[r] = sb[r]
  BY <1>1, <1>2, RegisteredKeepsSubs
<1>5. /\ MovesOn(t) /\ task'[t].pc # "sub_index"
      /\ subs[s][c] # None => task'[t].pc = "unsub_retain" /\ task'[t].session = s /\ task'[t].channel = c
  <2>1. CASE Return(t) /\ subs[s][c] = None
    BY <1>1, <2>1, ReturnMoves
  <2>2. CASE Goto(t, "unsub_retain")
    BY <1>1, <2>2, GotoMoves DEF UnsubscribePcs
  <2> QED BY <1>1, <2>1, <2>2
<1>6. Known' /\ OneHandler'
  BY <1>1, <1>5, HandlersMove
<1>7. \A u \in Tasks : task'[u].pc = "sub_index" \/ task[u].pc = "unsub_retain" => u # t /\ task'[u] = task[u]
  BY <1>1, <1>5 DEF MovesOn
<1>8. Indexing'
  <2> SUFFICES ASSUME NEW u \in Tasks, task'[u].pc = "sub_index",
                      task'[u].session \in sessions' \intersect Sequential
               PROVE  /\ subs'[task'[u].session][task'[u].channel] # None
                      /\ channels'[task'[u].channel][task'[u].session] = 0
    BY DEF Indexing
  <2>1. u # t /\ task'[u] = task[u] /\ task[u].channel \in Channels /\ task[u].session \in SessionIds
    BY <1>2, <1>7 DEF Task, TaskRecord, SubscribePcs
  <2>2. subs[task[u].session][task[u].channel] # None /\ channels[task[u].channel][task[u].session] = 0
    BY <1>1, <2>1 DEF Indexing
  <2>3. task[u].session # s
    <3> SUFFICES ASSUME task[u].session = s PROVE FALSE
      OBVIOUS
    <3>1. Handles(u, s) /\ Handles(t, s) /\ s \in Sequential
      BY <1>1, <2>1 DEF Handles, KickPcs
    <3> QED BY <1>1, <2>1, <3>1 DEF OneHandler
  <2> QED BY <1>1, <1>3, <1>4, <2>1, <2>2, <2>3, SMT
<1>9. IndexNamesSubscribers'
  <2> SUFFICES ASSUME NEW r \in sessions' \intersect Sequential, NEW d \in Channels
               PROVE  /\ channels'[d][r] <= 1
                      /\ channels'[d][r] = 1 =>
                           \/ subs'[r][d] # None
                           \/ \E u \in Tasks : task'[u].pc = "unsub_retain" /\ task'[u].session = r
                                                                          /\ task'[u].channel = d
    BY DEF IndexNamesSubscribers
  <2>1. /\ channels[d][r] <= 1
        /\ channels[d][r] = 1 =>
             \/ subs[r][d] # None
             \/ \E u \in Tasks : task[u].pc = "unsub_retain" /\ task[u].session = r /\ task[u].channel = d
    BY <1>1, SMT DEF IndexNamesSubscribers
  <2>2. r \in SessionIds /\ channels'[d][r] = channels[d][r] /\ subs'[r] = sb[r]
    BY <1>1, <1>2, <1>4
  <2>3. CASE r = s /\ d = c /\ subs[s][c] # None
    BY <1>5, <2>1, <2>2, <2>3
  <2>4. CASE ~(r = s /\ d = c /\ subs[s][c] # None)
    <3>1. sb[r][d] = subs[r][d]
      BY <1>3, <2>2, <2>4
    <3> QED BY <1>7, <2>1, <2>2, <3>1
  <2> QED BY <2>3, <2>4
<1> QED BY <1>6, <1>8, <1>9 DEF IndexInv

(* open_session registers an id that is nowhere in the index.              *)
LEMMA OpenIndex ==
    ASSUME IInv, IndexInv, OpenSession
    PROVE  IndexInv'
<1>1. /\ next_id \in Nat /\ next_id' = next_id + 1 /\ next_id \in SessionIds
      /\ sessions' = sessions \union {next_id} /\ owned' = owned \union {next_id}
      /\ UNCHANGED <<subs, channels, task>>
      /\ sessions \subseteq Nat /\ owned \subseteq Nat
      /\ \A t \in Tasks : task[t].session \in Nat
      /\ Known /\ OneHandler /\ Indexing /\ IndexNamesSubscribers
  BY RegistryConstants, SMT DEF OpenSession, IInv, IndexInv, TypeOK, SessionIds, Task, TaskRecord
<1>2. \A n \in Nat : n < next_id => n < next_id + 1 /\ n # next_id
  BY <1>1, SMT
<1>3. Known'
  <2>1. \A s \in sessions' \union owned' : s < next_id'
    BY <1>1, <1>2, SMT DEF Known
  <2>2. \A t \in Tasks : task'[t].pc # "idle" => task'[t].session < next_id'
    BY <1>1, <1>2 DEF Known
  <2>3. \A c \in Channels, s \in SessionIds : ~(s < next_id') => channels'[c][s] = 0
    BY <1>1, <1>2, SMT DEF Known, SessionIds
  <2>4. \A t \in Tasks : task'[t].pc = "sub_insert" => task'[t].handle # None
    BY <1>1 DEF Known
  <2> QED BY <2>1, <2>2, <2>3, <2>4 DEF Known
<1>4. OneHandler'
  BY <1>1 DEF OneHandler, Handles
<1>5. Indexing'
  BY <1>1, <1>2 DEF Indexing, Known
<1>6. IndexNamesSubscribers'
  <2>1. \A c \in Channels : channels[c][next_id] = 0
    BY <1>1, SMT DEF Known
  <2> QED BY <1>1, <2>1, SMT DEF IndexNamesSubscribers
<1> QED BY <1>3, <1>4, <1>5, <1>6 DEF IndexInv

(* A handler starts on a session that is known, and on a sequential one    *)
(* only if it has no other.                                                *)
LEMMA BeginIndex ==
    ASSUME IInv, IndexInv, NEW t \in Tasks, NEW s \in SessionIds, NEW c \in Channels \union {None},
           \/ BeginSubscribe(t, s, c) \/ BeginUnsubscribe(t, s, c)
           \/ BeginKick(t, s) \/ BeginClose(t, s)
    PROVE  IndexInv'
<1>1. /\ UNCHANGED <<next_id, sessions, owned, subs, channels>> /\ task[t].pc = "idle"
      /\ s \in sessions \union owned /\ task \in [Tasks -> Task]
      /\ TypeOK /\ Known /\ OneHandler /\ Indexing /\ IndexNamesSubscribers
  BY DEF BeginSubscribe, BeginUnsubscribe, BeginKick, BeginClose, Begin, IInv, IndexInv, TypeOK
<1>2. /\ \A u \in Tasks \ {t} : task'[u] = task[u]
      /\ task'[t].session = s
      /\ task'[t].pc \in {"sub_check", "unsub_remove", "kick_remove", "close_remove"}
      /\ task'[t].pc \in KickPcs \/ MayCall(s)
  <2>1. PICK l \in {"sub_check", "unsub_remove", "kick_remove", "close_remove"}, d \in Channels \union {None} :
          /\ task' = [task EXCEPT ![t] = [IdleTask EXCEPT !.pc = l, !.session = s, !.channel = d]]
          /\ l \in KickPcs \/ MayCall(s)
    BY DEF BeginSubscribe, BeginUnsubscribe, BeginKick, BeginClose, Begin, KickPcs
  <2>2. task'[t] = [IdleTask EXCEPT !.pc = l, !.session = s, !.channel = d] /\ \A u \in Tasks \ {t} : task'[u] = task[u]
    BY <1>1, <2>1
  <2>3. task'[t].pc = l /\ task'[t].session = s
    BY <2>2 DEF IdleTask
  <2> QED BY <2>1, <2>2, <2>3
<1>3. Known'
  BY <1>1, <1>2 DEF Known
<1>4. OneHandler'
  <2> SUFFICES ASSUME NEW r \in Sequential, NEW v \in Tasks, NEW u \in Tasks,
                      Handles(v, r)', Handles(u, r)'
               PROVE  v = u
    BY DEF OneHandler
  <2>1. \A w \in Tasks : w # t /\ Handles(w, r)' => Handles(w, r)
    BY <1>2 DEF Handles
  <2>2. ASSUME Handles(t, r)', NEW w \in Tasks, w # t, Handles(w, r)' PROVE FALSE
    <3>1. r = s /\ MayCall(s)
      BY <1>2, <2>2 DEF Handles
    <3> QED BY <2>1, <2>2, <3>1 DEF MayCall, Handles
  <2> QED BY <1>1, <2>1, <2>2 DEF OneHandler
<1>5. Indexing' /\ IndexNamesSubscribers'
  <2>1. \A u \in Tasks : task'[u].pc = "sub_index" => task'[u] = task[u]
    BY <1>2
  <2>2. \A u \in Tasks : task[u].pc = "unsub_retain" => task'[u] = task[u]
    BY <1>1, <1>2
  <2> QED BY <1>1, <2>1, <2>2, QuietIndex
<1> QED BY <1>3, <1>4, <1>5 DEF IndexInv

(* IndexInv is inductive relative to the types.                            *)
LEMMA NextIndex == IInv /\ IndexInv /\ [Next]_vars => IndexInv'
<1> SUFFICES ASSUME IInv, IndexInv, [Next]_vars PROVE IndexInv'
  OBVIOUS
<1>1. CASE OpenSession
  BY <1>1, OpenIndex
<1>2. ASSUME NEW t \in Tasks, NEW s \in SessionIds, NEW c \in Channels,
             BeginSubscribe(t, s, c) \/ BeginUnsubscribe(t, s, c)
      PROVE  IndexInv'
  BY <1>2, BeginIndex
<1>3. ASSUME NEW t \in Tasks, NEW s \in SessionIds, BeginKick(t, s) \/ BeginClose(t, s)
      PROVE  IndexInv'
  <2>1. None \in Channels \union {None}
    OBVIOUS
  <2> QED BY <1>3, <2>1, BeginIndex
<1>4. ASSUME NEW t \in Tasks, Step(t) PROVE IndexInv'
  BY <1>4, SubscribeIndex, InsertIndex, AddIndex, RemoveIndex, RetainIndex, DeregisterIndex DEF Step
<1>5. CASE UNCHANGED <<next_id, sessions, owned, subs, channels, task>>
  BY <1>5, SMT DEF IndexInv, Known, OneHandler, Handles, Indexing, IndexNamesSubscribers
<1>6. ASSUME NEW f \in Forwarders, ForwarderEnds(f) PROVE IndexInv'
  BY <1>5, <1>6 DEF ForwarderEnds
<1>7. CASE UNCHANGED vars
  BY <1>5, <1>7 DEF vars
<1> QED BY <1>1, <1>2, <1>3, <1>4, <1>6, <1>7 DEF Next, AllClosed

(* While a session with a sequential transport is registered, the reverse  *)
(* index names it at most once per channel and for no subscription it does *)
(* not have, however the handlers of other sessions and kick interleave.   *)
THEOREM IndexTheorem == Spec => []IndexNamesSubscribers
<1>1. Init => IndexInv
  BY SMT DEF Init, IndexInv, Known, OneHandler, Handles, Indexing, IndexNamesSubscribers, IdleTask, Empty
<1>2. IndexInv => IndexNamesSubscribers
  BY DEF IndexInv
<1> QED BY <1>1, <1>2, InitIInv, NextIInv, NextIndex, PTL DEF Spec
=============================================================================
