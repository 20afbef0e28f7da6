--------------------------- MODULE SessionRegistry ---------------------------
(***************************************************************************)
(* Session and SessionRegistry (cherenkov-core session.rs) under the Hub   *)
(* handlers that change them (hub.rs): open, subscribe, unsubscribe, kick  *)
(* and close.  A DashMap call is atomic; two calls of one handler are not, *)
(* so every handler is the sequence of its calls and any other task may    *)
(* run in between (the server uses the multi-threaded runtime).            *)
(*                                                                         *)
(* A Session object lives as long as something holds its Arc: the          *)
(* registry, the transport task that opened it, or a running handler.      *)
(* The step that releases the last reference runs Session::drop.           *)
(***************************************************************************)
EXTENDS Integers, FiniteSets

CONSTANTS
    Channels,       \* channel names
    Tasks,          \* tokio tasks calling into the hub
    Forwarders,     \* forwarder task handles
    MaxSessions,    \* bound: sessions opened
    Sequential,     \* sessions whose transport runs one handler at a time; the others
                    \* have several at once, which the hub's API allows
    None            \* no forwarder, no channel

ASSUME RegistryConstants ==
    /\ MaxSessions \in Nat \ {0}
    /\ Sequential \subseteq Nat
    /\ None \notin Forwarders \union Channels

SessionIds == 0..(MaxSessions - 1)

VARIABLES
    next_id,        \* SessionRegistry::next_id
    sessions,       \* keys of SessionRegistry::sessions
    owned,          \* sessions whose transport task still holds their Arc
    subs,           \* Session::subscriptions of every session
    running,        \* forwarders that are neither aborted nor finished
    keys,           \* keys of SessionRegistry::channels
    channels,       \* its values: how often an id occurs in a Vec<SessionId>
    task            \* what each task is doing

vars == <<next_id, sessions, owned, subs, running, keys, channels, task>>

SubscribePcs == {"sub_check", "sub_forward", "sub_insert", "sub_index"}
UnsubscribePcs == {"unsub_remove", "unsub_retain", "unsub_drop_key"}
KickPcs == {"kick_remove", "kick_scrub"}
ClosePcs == {"close_remove", "close_scrub"}

TaskRecord ==
    [pc : {"idle"} \union SubscribePcs \union UnsubscribePcs \union KickPcs \union ClosePcs,
     session : SessionIds, channel : Channels \union {None},
     handle : Forwarders \union {None}, todo : SUBSET Channels]

Task == {r \in TaskRecord : r.pc \in SubscribePcs \union UnsubscribePcs => r.channel \in Channels}

IdleTask == [pc |-> "idle", session |-> 0, channel |-> None, handle |-> None, todo |-> {}]

NoSubs == [c \in Channels |-> None]

Empty == [s \in SessionIds |-> 0]

-----------------------------------------------------------------------------
\* Something holds the Arc of session s.  (The closing task is the owner.)
Held(s) ==
    \/ s \in sessions
    \/ s \in owned
    \/ \E t \in Tasks : task[t].pc \notin {"idle"} \union ClosePcs /\ task[t].session = s

\* Mutant: Session has no Drop impl; dropping a JoinHandle detaches its task.
SettleWithoutDrop(sb, run) ==
    /\ subs' = sb
    /\ running' = run

\* Session::drop: the step that released the last Arc also aborts whatever
\* subscriptions sb the session still had; run are the forwarders running.
Settle(sb, run) ==
    LET dropped == {s \in SessionIds : ~Held(s)'}
    IN  /\ subs' = [s \in SessionIds |-> IF s \in dropped THEN NoSubs ELSE sb[s]]
        /\ running' = run \ {sb[s][c] : s \in dropped, c \in Channels}

Goto(t, label) == task' = [task EXCEPT ![t].pc = label]

Return(t) == task' = [task EXCEPT ![t] = IdleTask]

\* The transports await one handler before they read the next frame.
MayCall(s) ==
    s \in Sequential =>
      /\ s \in owned
      /\ \A t \in Tasks : task[t].session = s => task[t].pc \in {"idle"} \union KickPcs

Begin(t, label, s, c) ==
    /\ task[t].pc = "idle"
    /\ task' = [task EXCEPT ![t] = [IdleTask EXCEPT !.pc = label, !.session = s, !.channel = c]]

-----------------------------------------------------------------------------
Init ==
    /\ next_id = 0
    /\ sessions = {}
    /\ owned = {}
    /\ subs = [s \in SessionIds |-> NoSubs]
    /\ running = {}
    /\ keys = {}
    /\ channels = [c \in Channels |-> Empty]
    /\ task = [t \in Tasks |-> IdleTask]

\* open_session: fetch_add, then register (no other task knows the id yet).
OpenSession ==
    /\ next_id < MaxSessions
    /\ next_id' = next_id + 1
    /\ sessions' = sessions \union {next_id}
    /\ owned' = owned \union {next_id}
    /\ UNCHANGED <<subs, running, keys, channels, task>>

\* handle_subscribe and handle_unsubscribe start with sessions.get(id); on
\* an unregistered id they return SessionGone and change nothing.
BeginSubscribe(t, s, c) ==
    /\ s \in sessions /\ MayCall(s)
    /\ Begin(t, "sub_check", s, c)
    /\ UNCHANGED <<next_id, sessions, owned, subs, running, keys, channels>>

\* The claims, the ACL, the channel kind or the broker may refuse, at any
\* await before the forwarder is spawned; so may the outbox during replay.
RefuseSubscribe(t) ==
    /\ task[t].pc \in {"sub_check", "sub_forward"}
    /\ Return(t)
    /\ UNCHANGED <<next_id, sessions, owned, keys, channels>>
    /\ Settle(subs, running)

CheckSubscription(t) ==
    LET r == task[t]
    IN  /\ r.pc = "sub_check"
        /\ IF subs[r.session][r.channel] # None THEN Return(t) ELSE Goto(t, "sub_forward")
        /\ UNCHANGED <<next_id, sessions, owned, keys, channels>>
        /\ Settle(subs, running)

\* tokio::spawn of the forwarder; the handle is still private to the handler.
SpawnForwarder(t, f) ==
    /\ task[t].pc = "sub_forward"
    /\ f \notin running
    /\ \A s \in SessionIds, c \in Channels : subs[s][c] # f
    /\ \A u \in Tasks : task[u].handle # f
    /\ task' = [task EXCEPT ![t].pc = "sub_insert", ![t].handle = f]
    /\ running' = running \union {f}
    /\ UNCHANGED <<next_id, sessions, owned, subs, keys, channels>>

\* Mutant: contains_key was false earlier, insert replaces what is there now.
InsertSubscriptionReplaces(t) ==
    LET r == task[t]
    IN  /\ r.pc = "sub_insert"
        /\ UNCHANGED <<next_id, sessions, owned, keys, channels>>
        /\ task' = [task EXCEPT ![t].pc = "sub_index", ![t].handle = None]
        /\ Settle([subs EXCEPT ![r.session][r.channel] = r.handle], running)

\* insert_subscription under one shard lock; an occupied slot aborts the stray.
InsertSubscription(t) ==
    LET r == task[t]
    IN  /\ r.pc = "sub_insert"
        /\ UNCHANGED <<next_id, sessions, owned, keys, channels>>
        /\ IF subs[r.session][r.channel] = None
           THEN /\ task' = [task EXCEPT ![t].pc = "sub_index", ![t].handle = None]
                /\ Settle([subs EXCEPT ![r.session][r.channel] = r.handle], running)
           ELSE /\ Return(t)
                /\ Settle(subs, running \ {r.handle})

\* registry.add_subscription pushes the id, registered or not.
AddSubscription(t) ==
    LET r == task[t]
    IN  /\ r.pc = "sub_index"
        /\ keys' = keys \union {r.channel}
        /\ channels' = [channels EXCEPT ![r.channel][r.session] = @ + 1]
        /\ Return(t)
        /\ UNCHANGED <<next_id, sessions, owned>>
        /\ Settle(subs, running)

BeginUnsubscribe(t, s, c) ==
    /\ s \in sessions /\ MayCall(s)
    /\ Begin(t, "unsub_remove", s, c)
    /\ UNCHANGED <<next_id, sessions, owned, subs, running, keys, channels>>

\* session.remove_subscription, then abort of the handle it returned.
RemoveSubscription(t) ==
    LET r == task[t]
        f == subs[r.session][r.channel]
    IN  /\ r.pc = "unsub_remove"
        /\ IF f = None THEN Return(t) ELSE Goto(t, "unsub_retain")
        /\ UNCHANGED <<next_id, sessions, owned, keys, channels>>
        /\ Settle([subs EXCEPT ![r.session][r.channel] = None], running \ {f})

\* Mutant: handle_unsubscribe leaves the reverse index alone.
RetainEveryone(t) ==
    /\ task[t].pc = "unsub_retain"
    /\ Return(t)
    /\ UNCHANGED <<next_id, sessions, owned, keys, channels>>
    /\ Settle(subs, running)

\* Mutant: one occurrence of the id is taken out, taken for granted that
\* add_subscription has already pushed it.
RetainTakesOne(t) ==
    LET r == task[t]
        left == [channels[r.channel] EXCEPT ![r.session] = @ - 1]
    IN  /\ r.pc = "unsub_retain"
        /\ channels' = [channels EXCEPT ![r.channel] = left]
        /\ IF r.channel \in keys /\ left = Empty THEN Goto(t, "unsub_drop_key") ELSE Return(t)
        /\ UNCHANGED <<next_id, sessions, owned, keys>>
        /\ Settle(subs, running)

\* registry.remove_subscription, first half: retain and is_empty under the lock.
RetainOthers(t) ==
    LET r == task[t]
        left == [channels[r.channel] EXCEPT ![r.session] = 0]
    IN  /\ r.pc = "unsub_retain"
        /\ channels' = [channels EXCEPT ![r.channel] = left]
        /\ IF r.channel \in keys /\ left = Empty THEN Goto(t, "unsub_drop_key") ELSE Return(t)
        /\ UNCHANGED <<next_id, sessions, owned, keys>>
        /\ Settle(subs, running)

\* Second half, after the lock was released: remove the whole key.
DropKey(t) ==
    LET r == task[t]
    IN  /\ r.pc = "unsub_drop_key"
        /\ keys' = keys \ {r.channel}
        /\ channels' = [channels EXCEPT ![r.channel] = Empty]
        /\ Return(t)
        /\ UNCHANGED <<next_id, sessions, owned>>
        /\ Settle(subs, running)

\* kick_session: get, signal_shutdown (see Connection), then deregister.
BeginKick(t, s) ==
    /\ s \in sessions
    /\ Begin(t, "kick_remove", s, None)
    /\ UNCHANGED <<next_id, sessions, owned, subs, running, keys, channels>>

\* The transport's task ends: close_session, then its own Arc is dropped.
BeginClose(t, s) ==
    /\ s \in owned /\ MayCall(s)
    /\ \A u \in Tasks : task[u].session = s => task[u].pc \notin ClosePcs
    /\ Begin(t, "close_remove", s, None)
    /\ UNCHANGED <<next_id, sessions, owned, subs, running, keys, channels>>

EndDeregister(t) ==
    /\ Return(t)
    /\ owned' = IF task[t].pc \in ClosePcs THEN owned \ {task[t].session} ELSE owned

\* deregister: remove the session; only if it was there, scrub the index.
RemoveSession(t) ==
    LET r == task[t]
    IN  /\ r.pc \in {"kick_remove", "close_remove"}
        /\ sessions' = sessions \ {r.session}
        /\ IF r.session \in sessions
           THEN /\ task' = [task EXCEPT ![t].todo = Channels,
                                        ![t].pc = IF @ = "kick_remove" THEN "kick_scrub" ELSE "close_scrub"]
                /\ UNCHANGED owned
           ELSE EndDeregister(t)
        /\ UNCHANGED <<next_id, keys, channels>>
        /\ Settle(subs, running)

\* channels.retain visits the map one shard at a time.
ScrubChannel(t, c) ==
    LET r == task[t]
        left == [channels[c] EXCEPT ![r.session] = 0]
    IN  /\ r.pc \in {"kick_scrub", "close_scrub"}
        /\ c \in r.todo
        /\ channels' = [channels EXCEPT ![c] = left]
        /\ keys' = IF left = Empty THEN keys \ {c} ELSE keys
        /\ task' = [task EXCEPT ![t].todo = @ \ {c}]
        /\ UNCHANGED <<next_id, sessions, owned, subs, running>>

EndScrub(t) ==
    /\ task[t].pc \in {"kick_scrub", "close_scrub"}
    /\ task[t].todo = {}
    /\ EndDeregister(t)
    /\ UNCHANGED <<next_id, sessions, keys, channels>>
    /\ Settle(subs, running)

\* A forwarder ends by itself: its stream ended or the outbox was closed.
ForwarderEnds(f) ==
    /\ f \in running
    /\ running' = running \ {f}
    /\ UNCHANGED <<next_id, sessions, owned, subs, keys, channels, task>>

\* The bound on sessions: all ids were used and every connection is gone.
AllClosed ==
    /\ next_id = MaxSessions /\ owned = {} /\ sessions = {}
    /\ \A t \in Tasks : task[t].pc = "idle"
    /\ UNCHANGED vars

-----------------------------------------------------------------------------
Step(t) ==
    \/ RefuseSubscribe(t)
    \/ CheckSubscription(t)
    \/ \E f \in Forwarders : SpawnForwarder(t, f)
    \/ InsertSubscription(t)
    \/ AddSubscription(t)
    \/ RemoveSubscription(t)
    \/ RetainOthers(t)
    \/ DropKey(t)
    \/ RemoveSession(t)
    \/ \E c \in Channels : ScrubChannel(t, c)
    \/ EndScrub(t)

Next ==
    \/ OpenSession
    \/ \E t \in Tasks, s \in SessionIds, c \in Channels :
         BeginSubscribe(t, s, c) \/ BeginUnsubscribe(t, s, c)
    \/ \E t \in Tasks, s \in SessionIds : BeginKick(t, s) \/ BeginClose(t, s)
    \/ \E t \in Tasks : Step(t)
    \/ \E f \in Forwarders : ForwarderEnds(f)
    \/ AllClosed

Spec == Init /\ [][Next]_vars

\* tokio keeps polling a task that can make progress.
FairSpec == Spec /\ \A t \in Tasks : WF_vars(Step(t))

-----------------------------------------------------------------------------
TypeOK ==
    /\ next_id \in 0..MaxSessions
    /\ sessions \subseteq SessionIds
    /\ owned \subseteq SessionIds
    /\ subs \in [SessionIds -> [Channels -> Forwarders \union {None}]]
    /\ running \subseteq Forwarders
    /\ keys \subseteq Channels
    /\ channels \in [Channels -> [SessionIds -> Nat]]
    /\ task \in [Tasks -> Task]

(* No forwarder is ever orphaned: one that still runs is the value of a    *)
(* subscription of a session something still holds, so an unsubscribe, a   *)
(* lost insert race or Session::drop can reach it, or it is the private    *)
(* handle of a handle_subscribe that has not inserted it yet.              *)
NoOrphanForwarder ==
    \A f \in running :
      \/ \E s \in SessionIds, c \in Channels : subs[s][c] = f /\ Held(s)
      \/ \E t \in Tasks : task[t].pc = "sub_insert" /\ task[t].handle = f

(* While a session is registered and its transport runs one handler at a   *)
(* time, the reverse index names it at most once per channel and only for  *)
(* a subscription it has, or one an unsubscribe is just taking away.       *)
IndexNamesSubscribers ==
    \A s \in sessions \intersect Sequential, c \in Channels :
      /\ channels[c][s] <= 1
      /\ channels[c][s] = 1 =>
           \/ subs[s][c] # None
           \/ \E t \in Tasks : task[t].pc = "unsub_retain" /\ task[t].session = s
                                                        /\ task[t].channel = c

(* Once the transport's task has returned, every reference to the session  *)
(* is eventually released and with the last one its forwarders are gone.   *)
ClosedSessionsDrain ==
    \A s \in SessionIds :
      (s < next_id /\ s \notin owned) ~> (~Held(s) /\ subs[s] = NoSubs)

-----------------------------------------------------------------------------
Quiescent == \A t \in Tasks : task[t].pc = "idle"

(* openspec hub-core: the reverse index returns exactly the subscribed     *)
(* session ids and no others, even under concurrent traffic.               *)
IndexIsExact ==
    Quiescent => \A s \in sessions \intersect Sequential, c \in Channels :
                   channels[c][s] = IF subs[s][c] # None THEN 1 ELSE 0
=============================================================================
