----------------------------- MODULE MemoryBroker -----------------------------
(***************************************************************************)
(* MemoryBroker (cherenkov-broker lib.rs) for one topic: the DashMap slot  *)
(* that holds the topic's broadcast::Sender, and the calls of publish and  *)
(* subscribe, which work on a clone of that sender after the map's lock is *)
(* released.  Topics share nothing but the map, whose calls are atomic.    *)
(*                                                                         *)
(* tokio::sync::broadcast is external: a ring of the last RingSize values; *)
(* a receiver starts at the tail, one that fell behind is told how many    *)
(* values it lost and continues at the oldest, send fails only without     *)
(* receivers, and a stream ends when it is drained and no sender is left.  *)
(***************************************************************************)
EXTENDS Integers, Sequences, FiniteSets

CONSTANTS
    Publishers,     \* tasks inside Broker::publish
    Subscribers,    \* tasks that subscribe and then read their stream
    RingSize,       \* capacity of a broadcast channel
    Publications,   \* bound: what is published
    MaxSenders,     \* bound: broadcast channels created
    None            \* no publication

ASSUME BrokerConstants == RingSize \in Nat \ {0} /\ MaxSenders \in Nat

Senders == 1..MaxSenders
Absent == 0

VARIABLES
    created,        \* broadcast channels created so far
    topic,          \* the sender Inner::topics holds, or Absent
    sent,           \* everything sent on each channel (the ring is its end)
    published,      \* publications handed to publish so far
    pub,            \* each publisher: pc, its sender clone and publication
    sub,            \* each subscriber: pc, its channel, start and next position
    got,            \* what its stream has yielded
    dropped         \* its share of cherenkov_broker_dropped_total

vars == <<created, topic, sent, published, pub, sub, got, dropped>>

NoStream == [pc |-> "closed", sender |-> Absent, start |-> 0, pos |-> 0]
NoCall == [pc |-> "idle", sender |-> Absent, publication |-> None]

Open(s) == sub[s].pc = "open"

\* Receivers of a broadcast channel (Sender::receiver_count).
Receivers(g) == {s \in Subscribers : Open(s) /\ sub[s].sender = g}

\* Mutant: the stream's closure keeps the sender it was created from.
SenderHeldByStream(g) ==
    \/ topic = g
    \/ \E s \in Subscribers : sub[s].pc \in {"cloned", "open"} /\ sub[s].sender = g

\* A sender clone of channel g is alive: in the map or in a call.
SenderAlive(g) ==
    \/ topic = g
    \/ \E p \in Publishers : pub[p].pc # "idle" /\ pub[p].sender = g
    \/ \E s \in Subscribers : sub[s].pc = "cloned" /\ sub[s].sender = g

Oldest(g) == IF Len(sent[g]) > RingSize THEN Len(sent[g]) - RingSize ELSE 0

-----------------------------------------------------------------------------
Init ==
    /\ created = 0
    /\ topic = Absent
    /\ sent = [g \in Senders |-> <<>>]
    /\ published = {}
    /\ pub = [p \in Publishers |-> NoCall]
    /\ sub = [s \in Subscribers |-> NoStream]
    /\ got = [s \in Subscribers |-> <<>>]
    /\ dropped = [s \in Subscribers |-> 0]

\* subscribe, sender_for: whichever of get and entry finds or creates the
\* sender, the clone is taken in one locked step.
SenderFor(s) ==
    /\ sub[s].pc = "closed"
    /\ IF topic # Absent
       THEN UNCHANGED <<created, topic>>
       ELSE created < MaxSenders /\ created' = created + 1 /\ topic' = created'
    /\ sub' = [sub EXCEPT ![s] = [NoStream EXCEPT !.pc = "cloned", !.sender = topic']]
    /\ got' = [got EXCEPT ![s] = <<>>]
    /\ dropped' = [dropped EXCEPT ![s] = 0]
    /\ UNCHANGED <<sent, published, pub>>

\* subscribe, sender.subscribe(): a receiver at the tail; the clone is dropped.
Attach(s) ==
    /\ sub[s].pc = "cloned"
    /\ sub' = [sub EXCEPT ![s].pc = "open",
                          ![s].start = Len(sent[sub[s].sender]), ![s].pos = Len(sent[sub[s].sender])]
    /\ UNCHANGED <<created, topic, sent, published, pub, got, dropped>>

\* publish, topics.get: without a topic there is nobody to tell.
BeginPublish(p, m) ==
    /\ pub[p].pc = "idle"
    /\ m \in Publications \ published
    /\ published' = published \union {m}
    /\ pub' = IF topic = Absent THEN pub
              ELSE [pub EXCEPT ![p] = [pc |-> "send", sender |-> topic, publication |-> m]]
    /\ UNCHANGED <<created, topic, sent, sub, got, dropped>>

\* publish, sender.send: fails exactly when the channel has no receiver.
Send(p) ==
    LET g == pub[p].sender
    IN  /\ pub[p].pc = "send"
        /\ IF Receivers(g) = {}
           THEN pub' = [pub EXCEPT ![p].pc = "reap"] /\ UNCHANGED sent
           ELSE /\ sent' = [sent EXCEPT ![g] = Append(@, pub[p].publication)]
                /\ pub' = [pub EXCEPT ![p] = NoCall]
        /\ UNCHANGED <<created, topic, published, sub, got, dropped>>

\* Mutant: remove instead of remove_if.
ReapAlways(p) ==
    /\ pub[p].pc = "reap"
    /\ topic' = Absent
    /\ pub' = [pub EXCEPT ![p] = NoCall]
    /\ UNCHANGED <<created, sent, published, sub, got, dropped>>

\* publish, remove_if: looks at the sender the map holds now, which another
\* subscriber may have joined or replaced since the send failed.
Reap(p) ==
    /\ pub[p].pc = "reap"
    /\ topic' = IF topic # Absent /\ Receivers(topic) = {} THEN Absent ELSE topic
    /\ pub' = [pub EXCEPT ![p] = NoCall]
    /\ UNCHANGED <<created, sent, published, sub, got, dropped>>

\* Mutant: the Lagged arm forgets the counter.
LagUncounted(s) ==
    LET g == sub[s].sender
    IN  /\ Open(s) /\ sub[s].pos < Oldest(g)
        /\ sub' = [sub EXCEPT ![s].pos = Oldest(g)]
        /\ UNCHANGED <<created, topic, sent, published, pub, got, dropped>>

\* The stream is polled: Lagged values are counted and filtered out.
Lag(s) ==
    LET g == sub[s].sender
    IN  /\ Open(s) /\ sub[s].pos < Oldest(g)
        /\ sub' = [sub EXCEPT ![s].pos = Oldest(g)]
        /\ dropped' = [dropped EXCEPT ![s] = @ + (Oldest(g) - sub[s].pos)]
        /\ UNCHANGED <<created, topic, sent, published, pub, got>>

\* Mutant: a value is yielded without advancing the receiver.
RecvAgain(s) ==
    LET g == sub[s].sender
    IN  /\ Open(s) /\ sub[s].pos >= Oldest(g) /\ sub[s].pos < Len(sent[g])
        /\ got' = [got EXCEPT ![s] = Append(@, sent[g][sub[s].pos + 1])]
        /\ Len(got[s]) < Cardinality(Publications)
        /\ UNCHANGED <<created, topic, sent, published, pub, sub, dropped>>

Recv(s) ==
    LET g == sub[s].sender
    IN  /\ Open(s) /\ sub[s].pos >= Oldest(g) /\ sub[s].pos < Len(sent[g])
        /\ sub' = [sub EXCEPT ![s].pos = @ + 1]
        /\ got' = [got EXCEPT ![s] = Append(@, sent[g][sub[s].pos + 1])]
        /\ UNCHANGED <<created, topic, sent, published, pub, dropped>>

StreamEnds(s) ==
    LET g == sub[s].sender
    IN  /\ Open(s) /\ sub[s].pos = Len(sent[g]) /\ ~SenderAlive(g)
        /\ sub' = [sub EXCEPT ![s] = NoStream]
        /\ UNCHANGED <<created, topic, sent, published, pub, got, dropped>>

\* The forwarder is aborted and its stream dropped with it.
DropStream(s) ==
    /\ Open(s)
    /\ sub' = [sub EXCEPT ![s] = NoStream]
    /\ UNCHANGED <<created, topic, sent, published, pub, got, dropped>>

\* The bound on publications: all were published and nothing is in flight.
Drained ==
    /\ published = Publications
    /\ \A p \in Publishers : pub[p].pc = "idle"
    /\ \A s \in Subscribers : ~Open(s)
    /\ UNCHANGED vars

-----------------------------------------------------------------------------
Poll(s) == Lag(s) \/ Recv(s) \/ StreamEnds(s)

Next ==
    \/ \E p \in Publishers : Send(p) \/ Reap(p) \/ \E m \in Publications : BeginPublish(p, m)
    \/ \E s \in Subscribers : SenderFor(s) \/ Attach(s) \/ Poll(s) \/ DropStream(s)
    \/ Drained

Spec == Init /\ [][Next]_vars

\* A call that was started is finished and a stream is polled while it is
\* ready; nothing forces anyone to publish, subscribe or unsubscribe.
FairSpec ==
    /\ Spec
    /\ \A p \in Publishers : WF_vars(Send(p) \/ Reap(p))
    /\ \A s \in Subscribers : WF_vars(Attach(s)) /\ WF_vars(Poll(s))

-----------------------------------------------------------------------------
TypeOK ==
    /\ created \in 0..MaxSenders
    /\ topic \in 0..created
    /\ sent \in [Senders -> Seq(Publications)]
    /\ published \subseteq Publications
    /\ pub \in [Publishers -> [pc : {"idle", "send", "reap"}, sender : 0..created,
                              publication : Publications \union {None}]]
    /\ sub \in [Subscribers -> [pc : {"closed", "cloned", "open"}, sender : 0..created,
                               start : Nat, pos : Nat]]
    /\ \A s \in Subscribers : Open(s) => sub[s].pos <= Len(sent[sub[s].sender])
    /\ got \in [Subscribers -> Seq(Publications)]
    /\ dropped \in [Subscribers -> Nat]

(* The metric accounts for every publication a stream did not yield: since *)
(* it was opened, whatever its channel carried up to its position was      *)
(* yielded or counted in cherenkov_broker_dropped_total, and a stream that *)
(* never lagged yielded all of it, in the order it was sent.               *)
LossIsCounted ==
    \A s \in Subscribers : Open(s) =>
      /\ sub[s].pos = sub[s].start + Len(got[s]) + dropped[s]
      /\ dropped[s] = 0 => got[s] = SubSeq(sent[sub[s].sender], sub[s].start + 1, sub[s].pos)

(* Reaping a topic never takes the sender away from a stream that is open  *)
(* on it, although publish decides to reap before it locks the map again.  *)
ReapSparesOpenStreams ==
    [][\A s \in Subscribers : Open(s) /\ sub[s].sender = topic /\ Open(s)' => topic' = topic]_vars

(* The streams that were opened and read here yield what the Broker trait  *)
(* allows: published, at most once, in one order common to all streams.    *)
Contract == INSTANCE BroadcastContract WITH stream <- got, Line <- [m \in Publications |-> "memory"]
ImplementsContract == Contract!Spec

(* A stream whose sender the map no longer holds does not hang: it ends,   *)
(* and with it the forwarder that reads it. The fairness is that of a      *)
(* reader that polls its stream again and again; a forwarder that waits    *)
(* for room in a full outbox (hub.rs:400) polls it only once it has room.  *)
OrphanedStreamEnds ==
    \A s \in Subscribers : (Open(s) /\ sub[s].sender # topic) ~> ~Open(s)
===============================================================================
