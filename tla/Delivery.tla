------------------------------- MODULE Delivery -------------------------------
(***************************************************************************)
(* The path of a publication through the hub, for one channel: the steps   *)
(* of handle_publish, handle_subscribe and handle_unsubscribe (hub.rs) and *)
(* of the forwarder tasks, composed from the pub/sub channel kind and the  *)
(* in-process broker.  The handlers hold no lock across their awaits, so   *)
(* the channel kind and the broker see their calls in any interleaving.    *)
(*                                                                         *)
(* A subscriber is one session's subscription to the channel; its outbox   *)
(* is what handle_subscribe and the forwarder sent since the subscribe     *)
(* began.  The transport's writer drains it in this order.  The clock      *)
(* stands still: history is lost by size only (PubSubChannel has both).    *)
(***************************************************************************)
EXTENDS Integers, Sequences, FiniteSets

CONSTANTS
    Publishers, Subscribers, None,
    Publications,                                  \* offsets: 0 .. n - 1
    RingSize, MaxSenders,                          \* see MemoryBroker
    HistorySize, U64Max                            \* see PubSubChannel

ASSUME DeliveryConstants ==
    /\ RingSize \in Nat \ {0} /\ MaxSenders \in Nat /\ HistorySize \in Nat \ {0} /\ U64Max \in Nat
    /\ Cardinality(Publications) \in Nat \ {0}
    /\ Publications = 0..(Cardinality(Publications) - 1)
    /\ Cardinality(Publications) < U64Max          \* the offset counter does not saturate
    /\ None \notin Publications

VARIABLES
    clock, calls, epoch, next_offset, entries, accepted,        \* PubSubChannel
    created, topic, sent, published, pub, sub, got, dropped,    \* MemoryBroker
    hub,            \* publisher -> offset between on_publish and broker.publish
    req,            \* subscriber -> its handle_subscribe
    fwd,            \* subscriber -> its forwarder task
    outbox          \* subscriber -> frames sent to the session's outbox

Payload == "payload"

Channel == INSTANCE PubSubChannel
             WITH Payloads <- {Payload}, MaxAccepted <- Cardinality(Publications),
                  HistoryTtl <- 0, MaxTime <- 0
Broker == INSTANCE MemoryBroker

channel_vars == <<clock, calls, epoch, next_offset, entries, accepted>>
broker_vars == <<created, topic, sent, published, pub, sub, got, dropped>>
hub_vars == <<hub, req, fwd, outbox>>
vars == <<channel_vars, broker_vars, hub_vars>>

NoRequest == [pc |-> "none", since |-> 0, cursor |-> 0, replayed |-> 0, floor |-> 0]

Publication(o) == [kind |-> "publication", offset |-> o]
SubscribeOk(o) == [kind |-> "subscribe_ok", offset |-> o]

\* The stream has something for the forwarder: a value, a lag or its end.
Ready(s) ==
    LET g == sub[s].sender
    IN  sub[s].pos < Len(sent[g]) \/ ~Broker!SenderAlive(g)

-----------------------------------------------------------------------------
Init ==
    /\ Channel!Init
    /\ Broker!Init
    /\ hub = [p \in Publishers |-> None]
    /\ req = [s \in Subscribers |-> NoRequest]
    /\ fwd = [s \in Subscribers |-> "none"]
    /\ outbox = [s \in Subscribers |-> <<>>]

\* handle_publish, once ACL and schema let it pass: kind.on_publish ...
HandlePublish(p) ==
    /\ hub[p] = None /\ pub[p].pc = "idle"
    /\ Channel!ReadClock(p, Payload)
    /\ UNCHANGED <<broker_vars, hub_vars>>

OnPublish(p) ==
    /\ Channel!OnPublish(p)
    /\ hub' = [hub EXCEPT ![p] = next_offset]
    /\ UNCHANGED <<broker_vars, req, fwd, outbox>>

\* ... then broker.publish with the offset that was assigned.
BrokerPublish(p) ==
    /\ hub[p] # None
    /\ Broker!BeginPublish(p, hub[p])
    /\ hub' = [hub EXCEPT ![p] = None]
    /\ UNCHANGED <<channel_vars, req, fwd, outbox>>

BrokerSend(p) ==
    /\ Broker!Send(p) \/ Broker!Reap(p)
    /\ UNCHANGED <<channel_vars, hub_vars>>

\* handle_subscribe: kind.on_subscribe returns the cursor.  A client resumes
\* after any offset it may have seen; 0 asks for no replay.
OnSubscribe(s, since) ==
    /\ req[s].pc = "none" /\ fwd[s] = "none"
    /\ since = 0 \/ since < next_offset
    /\ req' = [req EXCEPT ![s] = [NoRequest EXCEPT !.pc = "sender", !.since = since,
                                                   !.cursor = Channel!Cursor.offset]]
    /\ outbox' = [outbox EXCEPT ![s] = <<>>]
    /\ UNCHANGED <<channel_vars, broker_vars, hub, fwd>>

\* Mutant: history is replayed before the broker stream is opened.
BrokerSubscribeAfterReplay(s) ==
    LET replay == Channel!ReplaySince(req[s].since)
        kept == Channel!EvictExpired(entries, clock)
    IN  /\ \/ /\ req[s].pc = "sender" /\ Broker!SenderFor(s)
              /\ req' = [req EXCEPT ![s].pc = "attach", ![s].replayed = Len(replay),
                                    ![s].floor = IF kept = <<>> THEN next_offset ELSE kept[1].offset]
              /\ outbox' = [outbox EXCEPT ![s] = [i \in 1..Len(replay) |-> Publication(replay[i].offset)]]
           \/ /\ req[s].pc = "attach" /\ Broker!Attach(s)
              /\ req' = [req EXCEPT ![s].pc = "spawn"]
              /\ UNCHANGED outbox
        /\ UNCHANGED <<channel_vars, hub, fwd>>

\* broker.subscribe is two steps of the broker.
BrokerSubscribe(s) ==
    /\ \/ /\ req[s].pc = "sender" /\ Broker!SenderFor(s)
          /\ req' = [req EXCEPT ![s].pc = "attach"]
       \/ /\ req[s].pc = "attach" /\ Broker!Attach(s)
          /\ req' = [req EXCEPT ![s].pc = "replay"]
    /\ UNCHANGED <<channel_vars, hub, fwd, outbox>>

\* since_offset > 0: replay_since, then its publications into the outbox.
\* (floor is the oldest offset the channel still had.)
Replay(s) ==
    LET kept == Channel!EvictExpired(entries, clock)
        replay == Channel!ReplaySince(req[s].since)
    IN  /\ req[s].pc = "replay"
        /\ IF req[s].since > 0
           THEN /\ Channel!OnReplay
                /\ outbox' = [outbox EXCEPT ![s] = [i \in 1..Len(replay) |-> Publication(replay[i].offset)]]
                /\ req' = [req EXCEPT ![s].pc = "spawn", ![s].replayed = Len(replay),
                                      ![s].floor = IF kept = <<>> THEN next_offset ELSE kept[1].offset]
           ELSE /\ req' = [req EXCEPT ![s].pc = "spawn"]
                /\ UNCHANGED <<channel_vars, outbox>>
        /\ UNCHANGED <<broker_vars, hub, fwd>>

\* The forwarder is spawned (and entered in the session, see SessionRegistry);
\* only then does the transport deliver SubscribeOk.
SpawnForwarder(s) ==
    /\ req[s].pc = "spawn"
    /\ fwd' = [fwd EXCEPT ![s] = "parked"]
    /\ req' = [req EXCEPT ![s].pc = "ack"]
    /\ UNCHANGED <<channel_vars, broker_vars, hub, outbox>>

\* Mutant: SubscribeOk carries the publication count.
DeliverSubscribeOkCount(s) ==
    /\ req[s].pc = "ack"
    /\ outbox' = [outbox EXCEPT ![s] = Append(@, SubscribeOk(req[s].cursor + 1))]
    /\ req' = [req EXCEPT ![s].pc = "subscribed"]
    /\ UNCHANGED <<channel_vars, broker_vars, hub, fwd>>

DeliverSubscribeOk(s) ==
    /\ req[s].pc = "ack"
    /\ outbox' = [outbox EXCEPT ![s] = Append(@, SubscribeOk(req[s].cursor))]
    /\ req' = [req EXCEPT ![s].pc = "subscribed"]
    /\ UNCHANGED <<channel_vars, broker_vars, hub, fwd>>

\* A worker thread polls the forwarder; it loops until the stream is pending.
Wake(s) ==
    /\ fwd[s] = "parked" /\ Ready(s)
    /\ fwd' = [fwd EXCEPT ![s] = "polling"]
    /\ UNCHANGED <<channel_vars, broker_vars, hub, req, outbox>>

\* Mutant: the forwarder's frame is sent again when the poll is repeated.
ForwardTwice(s) ==
    /\ fwd[s] \in {"polling", "aborted"}
    /\ \/ /\ Broker!Recv(s)
          /\ outbox' = [outbox EXCEPT ![s] = @ \o [i \in 1..2 |-> Publication(got'[s][Len(got'[s])])]]
       \/ Broker!Lag(s) /\ UNCHANGED outbox
    /\ UNCHANGED <<channel_vars, hub, req, fwd>>

Forward(s) ==
    /\ fwd[s] \in {"polling", "aborted"}
    /\ \/ /\ Broker!Recv(s)
          /\ outbox' = [outbox EXCEPT ![s] = Append(@, Publication(got'[s][Len(got'[s])]))]
       \/ Broker!Lag(s) /\ UNCHANGED outbox
    /\ UNCHANGED <<channel_vars, hub, req, fwd>>

\* The poll returns: the stream ended, or is pending; an abort that came
\* during the poll now drops the task and its stream.
EndPoll(s) ==
    /\ fwd[s] \in {"polling", "aborted"}
    /\ \/ /\ Broker!StreamEnds(s)
          /\ fwd' = [fwd EXCEPT ![s] = IF @ = "aborted" THEN "none" ELSE "finished"]
       \/ /\ ~Ready(s) /\ fwd[s] = "polling"
          /\ fwd' = [fwd EXCEPT ![s] = "parked"]
          /\ UNCHANGED broker_vars
       \/ /\ fwd[s] = "aborted" /\ Broker!DropStream(s)
          /\ fwd' = [fwd EXCEPT ![s] = "none"]
    /\ UNCHANGED <<channel_vars, hub, req, outbox>>

\* handle_unsubscribe (or the end of the session): remove the handle and
\* abort.  A parked task is dropped, one inside poll runs on to its end.
Unsubscribe(s) ==
    /\ req[s].pc = "subscribed"
    /\ req' = [req EXCEPT ![s].pc = "none"]
    /\ IF fwd[s] = "parked"
       THEN Broker!DropStream(s) /\ fwd' = [fwd EXCEPT ![s] = "none"]
       ELSE fwd' = [fwd EXCEPT ![s] = IF @ = "finished" THEN "none" ELSE "aborted"] /\ UNCHANGED broker_vars
    /\ UNCHANGED <<channel_vars, hub, outbox>>

-----------------------------------------------------------------------------
Next ==
    \/ \E p \in Publishers : HandlePublish(p) \/ OnPublish(p) \/ BrokerPublish(p) \/ BrokerSend(p)
    \/ \E s \in Subscribers :
         \/ \E since \in Publications : OnSubscribe(s, since)
         \/ BrokerSubscribe(s) \/ Replay(s) \/ SpawnForwarder(s) \/ DeliverSubscribeOk(s)
         \/ Wake(s) \/ Forward(s) \/ EndPoll(s) \/ Unsubscribe(s)

Spec == Init /\ [][Next]_vars

-----------------------------------------------------------------------------
Offsets == Publications \union {Cardinality(Publications)}

Frame == [kind : {"publication", "subscribe_ok"}, offset : Publications]

TypeOK ==
    /\ Channel!TypeOK
    /\ Broker!TypeOK
    /\ hub \in [Publishers -> Publications \union {None}]
    /\ req \in [Subscribers ->
                 [pc : {"none", "sender", "attach", "replay", "spawn", "ack", "subscribed"},
                  since : Publications, cursor : Publications, replayed : Nat, floor : Offsets]]
    /\ fwd \in [Subscribers -> {"none", "parked", "polling", "finished", "aborted"}]
    /\ outbox \in [Subscribers -> Seq(Frame)]

\* Every handler has returned (no publication is on its way, no other
\* broker.subscribe still holds a sender the map has dropped) and the
\* forwarder has nothing to do: its stream is drained, or has ended.
Settled(s) ==
    /\ \A p \in Publishers : calls[p] = Channel!Idle /\ hub[p] = None /\ pub[p].pc = "idle"
    /\ \A t \in Subscribers : req[t].pc # "attach"
    /\ req[s].pc = "subscribed"
    /\ (fwd[s] = "parked" /\ ~Ready(s)) \/ fwd[s] = "finished"

(* Resuming after an offset loses nothing the history still held, however  *)
(* publishers interleaved with handle_subscribe, because it opens the      *)
(* stream before it replays: once everything has settled, every later      *)
(* offset reached the outbox.  The two exceptions are the broker's: the    *)
(* stream lagged and counted it, or it ended, because subscribe cloned a   *)
(* sender that publish then reaped.  Even then only what is newer than the *)
(* whole replay and than the offset of SubscribeOk can be missing.         *)
ResumeHasNoHole ==
    \A s \in Subscribers : Settled(s) /\ req[s].since > 0 =>
      \A o \in Publications : o > req[s].since /\ o >= req[s].floor /\ o < next_offset =>
        \/ \E i \in DOMAIN outbox[s] : outbox[s][i] = Publication(o)
        \/ /\ dropped[s] > 0 \/ fwd[s] = "finished"
           /\ o > req[s].cursor
           /\ \A i \in 1..req[s].replayed : outbox[s][i].offset < o

(* Neither path repeats itself: the replayed frames come first, with       *)
(* rising offsets above since_offset, and after them the forwarder sends   *)
(* each offset at most once.  (An offset can come once from each: replay   *)
(* and stream overlap.)                                                    *)
NoRepeatWithinPath ==
    \A s \in Subscribers :
      LET q == outbox[s]
          n == req[s].replayed
      IN  /\ n <= Len(q)
          /\ \A i \in 1..n : q[i].kind = "publication" /\ q[i].offset > req[s].since
          /\ \A i, j \in 1..n : i < j => q[i].offset < q[j].offset
          /\ \A i, j \in (n + 1)..Len(q) : i # j /\ q[i].kind = "publication" => q[i] # q[j]

(* What a session may miss is bounded by its acknowledgement: the offset   *)
(* in a resumed subscription's SubscribeOk was sent to the session before  *)
(* it, unless the history had dropped it or the client had it already.     *)
AckCoversReplay ==
    \A s \in Subscribers : \A i \in DOMAIN outbox[s] :
      LET f == outbox[s][i]
      IN  f.kind = "subscribe_ok" /\ req[s].since > 0 /\ f.offset > req[s].since /\ f.offset >= req[s].floor
            => \E j \in 1..i : outbox[s][j] = Publication(f.offset)
===============================================================================
