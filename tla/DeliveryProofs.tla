---------------------------- MODULE DeliveryProofs ----------------------------
(***************************************************************************)
(* Theorems about Delivery for any number of publishers, subscribers and   *)
(* publications and every capacity of the history and of the broker's      *)
(* ring.                                                                   *)
(*                                                                         *)
(* The first part is about the hub: what it relies on of the channel kind  *)
(* and of the broker (ChannelRely, BrokerRely), and that it keeps its own  *)
(* invariant, HubInv, as long as they hold.  The second part shows that    *)
(* they do: the hub's calls are steps of the components, whose invariants  *)
(* PubSubChannelProofs and MemoryBrokerProofs prove, and these imply what  *)
(* the hub relies on.                                                      *)
(***************************************************************************)
EXTENDS Delivery, TLAPS

(* A leaf is set theory, and Zenon\'s, unless it cites another prover.        *)
USE Zenon

-----------------------------------------------------------------------------
(* Where handle_subscribe is, what its forwarder does and what its stream  *)
(* is go together; a forwarder that was aborted inside poll outlives them. *)
Stage(r, f, st) ==
    /\ f = "none" => \/ r.pc \in {"none", "sender"} /\ st.pc = "closed"
                     \/ r.pc = "attach" /\ st.pc = "cloned"
                     \/ r.pc \in {"replay", "spawn"} /\ st.pc = "open"
    /\ f \in {"parked", "polling"} => st.pc = "open" /\ r.pc \in {"ack", "subscribed"}
    /\ f = "aborted" => st.pc = "open" /\ r.pc = "none"
    /\ f = "finished" => st.pc = "closed" /\ r.pc \in {"ack", "subscribed"}

BeforeReplay == {"sender", "attach", "replay"}

(* The cursor was the latest offset, since_offset is not in the future;    *)
(* SubscribeOk carries the cursor, and nothing is sent before the replay.  *)
Answer(r, q, n) ==
    /\ r.since > 0 => r.cursor < n /\ r.since < n
    /\ r.pc \in BeforeReplay => q = <<>> /\ r.replayed = 0
    /\ \A i \in 1..Len(q) : q[i].kind = "subscribe_ok" => q[i].offset = r.cursor

(* The first frames are the replay, with rising offsets above since.       *)
Replayed(r, q) ==
    /\ r.replayed <= Len(q)
    /\ \A i \in 1..r.replayed : q[i].kind = "publication" /\ q[i].offset > r.since
    /\ \A i, j \in 1..r.replayed : i < j => q[i].offset < q[j].offset

(* The other publications are the forwarder's: different ones, which it    *)
(* read from the log of its stream, behind the stream's position.          *)
Forwarded(r, q, st, logs) ==
    /\ \A i, j \in (r.replayed + 1)..Len(q) : i # j /\ q[i].kind = "publication" => q[i] # q[j]
    /\ st.pc = "open" =>
         \A i \in (r.replayed + 1)..Len(q) : q[i].kind = "publication" =>
           \E k \in 1..st.pos : logs[st.sender][k] = q[i].offset

(* The replay held every offset from floor on, above since and below e,    *)
(* and none from e on.                                                     *)
ReplayedTo(r, q, e) ==
    /\ r.cursor < e
    /\ \A i \in 1..r.replayed : q[i].offset < e
    /\ \A o \in Publications : r.since < o /\ r.floor <= o /\ o < e =>
         \E i \in 1..r.replayed : q[i] = Publication(o)

(* An accepted publication is not lost to an open stream: its publisher is *)
(* about to hand it to the broker or to send it on the stream's channel,   *)
(* or it is in the channel's log, and in the outbox once the stream passed *)
(* it, unless the stream lagged.                                           *)
Accounted(o, h, calling, st, logs, d, q) ==
    \/ \E p \in Publishers : h[p] = o
    \/ \E p \in Publishers : /\ calling[p].pc = "send" /\ calling[p].publication = o
                             /\ calling[p].sender = st.sender
    \/ \E k \in 1..Len(logs[st.sender]) :
         /\ logs[st.sender][k] = o
         /\ k <= st.pos /\ d = 0 => \E i \in 1..Len(q) : q[i] = Publication(o)

(* A resumed subscription has all of the history up to some offset, and    *)
(* all the later ones are accounted for while its stream's sender is the   *)
(* one the map holds.                                                      *)
Whole(r, q, h, calling, st, logs, d, t, n) ==
    r.since > 0 /\ r.pc \notin BeforeReplay =>
      \E e \in 0..n :
        /\ ReplayedTo(r, q, e)
        /\ st.pc = "open" /\ st.sender = t =>
             \A o \in Publications : e <= o /\ o < n => Accounted(o, h, calling, st, logs, d, q)

Kept(s) ==
    /\ Stage(req[s], fwd[s], sub[s])
    /\ Answer(req[s], outbox[s], next_offset)
    /\ Replayed(req[s], outbox[s])
    /\ Forwarded(req[s], outbox[s], sub[s], sent)
    /\ Whole(req[s], outbox[s], hub, pub, sub[s], sent, dropped[s], topic, next_offset)

(* A publisher inside on_publish has no offset yet, and the bound on       *)
(* publications keeps the offsets from saturating.                         *)
OneAtATime ==
    /\ \A p \in Publishers : calls[p] # Channel!Idle => hub[p] = None
    /\ next_offset <= Cardinality(Publications)

(* The hub's own variables; the types of the others are the components'.   *)
HubTypes ==
    /\ hub \in [Publishers -> Publications \union {None}]
    /\ req \in [Subscribers ->
                 [pc : {"none", "sender", "attach", "replay", "spawn", "ack", "subscribed"},
                  since : Publications, cursor : Publications, replayed : Nat, floor : Offsets]]
    /\ fwd \in [Subscribers -> {"none", "parked", "polling", "finished", "aborted"}]
    /\ outbox \in [Subscribers -> Seq(Frame)]

(* The oldest offset the channel still has.                                *)
Floor == LET kept == Channel!EvictExpired(entries, clock)
         IN  IF kept = <<>> THEN next_offset ELSE kept[1].offset

(* replay_since returns every offset above since that the channel still    *)
(* has, rising, and none that is not assigned yet.                         *)
ReplayCovers(since) ==
    LET out == Channel!ReplaySince(since)
    IN  /\ Len(out) \in Nat /\ Floor \in Offsets
        /\ \A i \in 1..Len(out) : /\ out[i].offset \in Publications /\ out[i].offset > since
                                 /\ out[i].offset < next_offset
        /\ \A i, j \in 1..Len(out) : i < j => out[i].offset < out[j].offset
        /\ \A o \in Publications : since < o /\ Floor <= o /\ o < next_offset =>
             \E i \in 1..Len(out) : out[i].offset = o

(* What the hub relies on of the channel kind ...                          *)
ChannelRely ==
    /\ next_offset \in 0..U64Max /\ clock \in Nat
    /\ calls \in [Publishers -> Channel!Call \union {Channel!Idle}]
    /\ next_offset < U64Max => Len(accepted) = next_offset
    /\ next_offset <= Cardinality(Publications) =>
         \A since \in Publications : since < next_offset => ReplayCovers(since)

(* ... and of the broker: a stream's channel exists, its position is in    *)
(* the channel's log, and nothing is sent twice.                           *)
BrokerRely ==
    /\ created \in Nat /\ topic \in 0..created /\ MaxSenders \in Nat
    /\ sent \in [1..MaxSenders -> Seq(Publications)]
    /\ pub \in [Publishers -> [pc : {"idle", "send", "reap"}, sender : 0..created,
                               publication : Publications \union {None}]]
    /\ sub \in [Subscribers -> [pc : {"closed", "cloned", "open"}, sender : 0..created,
                                start : Nat, pos : Nat]]
    /\ got \in [Subscribers -> Seq(Publications)]
    /\ dropped \in [Subscribers -> Nat]
    /\ \A s \in Subscribers : sub[s].pc # "closed" => sub[s].sender \in 1..MaxSenders
    /\ \A s \in Subscribers : sub[s].pc = "open" => sub[s].pos <= Len(sent[sub[s].sender])
    /\ \A p \in Publishers : pub[p].pc # "idle" => pub[p].sender \in 1..MaxSenders
    /\ \A g \in 1..MaxSenders : \A k, l \in 1..Len(sent[g]) : sent[g][k] = sent[g][l] => k = l

HubInv ==
    /\ ChannelRely
    /\ BrokerRely
    /\ HubTypes
    /\ OneAtATime
    /\ \A s \in Subscribers : Kept(s)

-----------------------------------------------------------------------------
(* Offsets are naturals below the number of publications.                  *)
LEMMA OffsetFacts ==
    /\ Publications \subseteq Nat /\ Cardinality(Publications) \in Nat
    /\ Cardinality(Publications) < U64Max /\ U64Max \in Nat
    /\ \A o \in Nat : o \in Publications <=> o < Cardinality(Publications)
<1> DEFINE n == Cardinality(Publications)
<1>1. n \in Nat /\ n < U64Max /\ U64Max \in Nat /\ Publications = 0..(n - 1)
  BY DeliveryConstants
<1> HIDE DEF n
<1>2. Publications \subseteq Nat /\ \A o \in Nat : o \in Publications <=> o < n
  BY <1>1, SMT
<1> QED BY <1>1, <1>2 DEF n

LEMMA ChannelFacts ==
    ASSUME ChannelRely, OneAtATime
    PROVE  /\ next_offset \in Nat /\ next_offset < U64Max /\ Len(accepted) = next_offset
           /\ clock \in Nat /\ calls \in [Publishers -> Channel!Call \union {Channel!Idle}]
           /\ Publications \subseteq Nat /\ Cardinality(Publications) \in Nat
           /\ \A o \in Nat : o \in Publications <=> o < Cardinality(Publications)
<1>1. next_offset \in Nat /\ next_offset < U64Max
  BY OffsetFacts, SMT DEF ChannelRely, OneAtATime
<1> QED BY <1>1, OffsetFacts DEF ChannelRely

-----------------------------------------------------------------------------
(* r2 is the subscription r at another point of its handler.               *)
SameRequest(r2, r) ==
    r2.since = r.since /\ r2.cursor = r.cursor /\ r2.replayed = r.replayed /\ r2.floor = r.floor

(* Whole is kept by a step that leaves the replayed frames alone, accounts *)
(* for what it accepts and loses track of nothing.                         *)
LEMMA WholeMoves ==
    ASSUME NEW r, NEW r2, NEW q, NEW q2, NEW h, NEW h2, NEW c, NEW c2, NEW st, NEW st2,
           NEW logs, NEW logs2, NEW d, NEW d2, NEW t, NEW t2, NEW n \in Nat, NEW n2 \in Nat, n <= n2,
           Publications \subseteq Nat,
           Whole(r, q, h, c, st, logs, d, t, n),
           SameRequest(r2, r), r2.pc \notin BeforeReplay => r.pc \notin BeforeReplay,
           \A i \in 1..r.replayed : q2[i] = q[i],
           st2.pc = "open" /\ st2.sender = t2 =>
             /\ st.pc = "open" /\ st.sender = t
             /\ \A o \in Publications : o < n /\ Accounted(o, h, c, st, logs, d, q)
                  => Accounted(o, h2, c2, st2, logs2, d2, q2)
             /\ \A o \in Publications : n <= o /\ o < n2 => Accounted(o, h2, c2, st2, logs2, d2, q2)
    PROVE  Whole(r2, q2, h2, c2, st2, logs2, d2, t2, n2)
<1> SUFFICES ASSUME r2.since > 0, r2.pc \notin BeforeReplay
             PROVE  \E e \in 0..n2 :
                      /\ ReplayedTo(r2, q2, e)
                      /\ st2.pc = "open" /\ st2.sender = t2 =>
                           \A o \in Publications : e <= o /\ o < n2 =>
                             Accounted(o, h2, c2, st2, logs2, d2, q2)
  BY DEF Whole
<1>1. PICK e \in 0..n :
        /\ ReplayedTo(r, q, e)
        /\ st.pc = "open" /\ st.sender = t =>
             \A o \in Publications : e <= o /\ o < n => Accounted(o, h, c, st, logs, d, q)
  BY DEF Whole, SameRequest
<1>2. e \in 0..n2
  BY SMT
<1>3. ReplayedTo(r2, q2, e)
  BY <1>1 DEF ReplayedTo, SameRequest
<1>4. ASSUME st2.pc = "open", st2.sender = t2, NEW o \in Publications, e <= o, o < n2
      PROVE  Accounted(o, h2, c2, st2, logs2, d2, q2)
  <2>1. o \in Nat
    OBVIOUS
  <2>2. CASE o < n
    BY <1>1, <1>4, <2>2
  <2>3. CASE n <= o
    BY <1>4, <2>3
  <2> QED BY <2>1, <2>2, <2>3, SMT
<1> QED BY <1>2, <1>3, <1>4

(* ... and by a step that accepts nothing and touches one stream.          *)
LEMMA WholeStays ==
    ASSUME NEW r, NEW r2, NEW q, NEW q2, NEW h, NEW c, NEW st, NEW st2, NEW logs, NEW d, NEW d2, NEW t, NEW n,
           Whole(r, q, h, c, st, logs, d, t, n),
           SameRequest(r2, r), r.pc \notin BeforeReplay,
           \A i \in 1..r.replayed : q2[i] = q[i],
           st2.pc = "open" => st.pc = "open" /\ st2.sender = st.sender,
           \A o \in Publications : Accounted(o, h, c, st, logs, d, q) => Accounted(o, h, c, st2, logs, d2, q2)
    PROVE  Whole(r2, q2, h, c, st2, logs, d2, t, n)
<1>1. \A e : ReplayedTo(r, q, e) => ReplayedTo(r2, q2, e)
  BY DEF ReplayedTo, SameRequest
<1>2. r2.since = r.since
  BY DEF SameRequest
<1> QED BY <1>1, <1>2 DEF Whole

(* A step of the publishers leaves every subscription as it is; its logs   *)
(* only grow.                                                              *)
LEMMA PublisherFrame ==
    ASSUME HubInv, NEW s \in Subscribers, UNCHANGED <<req, fwd, outbox, sub, dropped>>,
           next_offset' \in Nat, next_offset <= next_offset',
           sub[s].pc = "open" => \A k \in 1..sub[s].pos : sent'[sub[s].sender][k] = sent[sub[s].sender][k],
           sub[s].pc = "open" /\ sub[s].sender = topic' =>
             /\ sub[s].sender = topic
             /\ \A o \in Publications :
                  Accounted(o, hub, pub, sub[s], sent, dropped[s], outbox[s])
                    => Accounted(o, hub', pub', sub[s], sent', dropped[s], outbox[s])
             /\ \A o \in Publications : next_offset <= o /\ o < next_offset'
                    => Accounted(o, hub', pub', sub[s], sent', dropped[s], outbox[s])
    PROVE  Kept(s)'
<1>1. Kept(s) /\ next_offset \in Nat /\ Publications \subseteq Nat
  BY ChannelFacts DEF HubInv
<1>2. Stage(req[s], fwd[s], sub[s])' /\ Replayed(req[s], outbox[s])'
  BY <1>1 DEF Kept
<1>3. Answer(req[s], outbox[s], next_offset)'
  <2>1. Answer(req[s], outbox[s], next_offset) /\ req[s].cursor \in Nat /\ req[s].since \in Nat
    BY <1>1 DEF Kept, HubInv, HubTypes
  <2>2. Answer(req[s], outbox[s], next_offset')
    BY <1>1, <2>1, SMT DEF Answer
  <2> QED BY <2>2
<1>4. Forwarded(req[s], outbox[s], sub[s], sent)'
  <2>1. Forwarded(req[s], outbox[s], sub[s], sent)
    BY <1>1 DEF Kept
  <2>2. Forwarded(req[s], outbox[s], sub[s], sent')
    BY <2>1 DEF Forwarded
  <2> QED BY <2>2
<1>5. Whole(req[s], outbox[s], hub, pub, sub[s], sent, dropped[s], topic, next_offset)'
  <2>1. Whole(req[s], outbox[s], hub, pub, sub[s], sent, dropped[s], topic, next_offset)
    BY <1>1 DEF Kept
  <2>2. SameRequest(req[s], req[s])
    BY DEF SameRequest
  <2>3. Whole(req[s], outbox[s], hub', pub', sub[s], sent', dropped[s], topic', next_offset')
    BY <1>1, <2>1, <2>2, WholeMoves
  <2> QED BY <2>3
<1> QED BY <1>2, <1>3, <1>4, <1>5 DEF Kept

(* A step of one subscriber is not seen by the others, unless it changes   *)
(* the sender of the map, which is then a new one.                         *)
LEMMA SubscriberFrame ==
    ASSUME HubInv, NEW s \in Subscribers, UNCHANGED <<hub, pub, sent, next_offset>>,
           req'[s] = req[s], fwd'[s] = fwd[s], outbox'[s] = outbox[s], sub'[s] = sub[s], dropped'[s] = dropped[s],
           sub[s].pc = "open" /\ sub[s].sender = topic' => sub[s].sender = topic
    PROVE  Kept(s)'
<1>1. Kept(s) /\ next_offset \in Nat /\ Publications \subseteq Nat
  BY ChannelFacts DEF HubInv
<1>2. /\ Stage(req[s], fwd[s], sub[s])' /\ Replayed(req[s], outbox[s])'
      /\ Answer(req[s], outbox[s], next_offset)' /\ Forwarded(req[s], outbox[s], sub[s], sent)'
  BY <1>1 DEF Kept
<1>3. Whole(req[s], outbox[s], hub, pub, sub[s], sent, dropped[s], topic, next_offset)'
  <2>1. Whole(req[s], outbox[s], hub, pub, sub[s], sent, dropped[s], topic, next_offset)
    BY <1>1 DEF Kept
  <2>2. Whole(req[s], outbox[s], hub, pub, sub[s], sent, dropped[s], topic', next_offset)
    BY <2>1 DEF Whole
  <2> QED BY <2>2
<1> QED BY <1>2, <1>3 DEF Kept

-----------------------------------------------------------------------------
(* handle_publish enters on_publish: nothing is accepted yet.              *)
LEMMA HandlePublishStep ==
    ASSUME HubInv, ChannelRely', BrokerRely', NEW p \in Publishers, HandlePublish(p)
    PROVE  HubInv'
<1>1. /\ UNCHANGED <<created, topic, sent, published, pub, sub, got, dropped>>
      /\ UNCHANGED <<hub, req, fwd, outbox, next_offset>> /\ hub[p] = None
      /\ \A o \in Publishers : o # p => calls'[o] = calls[o]
  BY ChannelFacts DEF HandlePublish, broker_vars, hub_vars, Channel!ReadClock, HubInv
<1>2. HubTypes' /\ OneAtATime'
  BY <1>1 DEF HubInv, HubTypes, OneAtATime
<1>3. ASSUME NEW s \in Subscribers PROVE Kept(s)'
  BY <1>1, SubscriberFrame
<1> QED BY <1>2, <1>3 DEF HubInv

(* on_publish: the next offset is assigned, and its publisher has it.      *)
LEMMA OnPublishStep ==
    ASSUME HubInv, ChannelRely', BrokerRely', NEW p \in Publishers, OnPublish(p)
    PROVE  HubInv'
<1>1. /\ UNCHANGED <<created, topic, sent, published, pub, sub, got, dropped>>
      /\ UNCHANGED <<req, fwd, outbox>>
      /\ hub' = [hub EXCEPT ![p] = next_offset] /\ calls' = [calls EXCEPT ![p] = Channel!Idle]
      /\ calls[p] # Channel!Idle /\ Len(accepted) < Cardinality(Publications)
      /\ next_offset' = Channel!SaturatingSucc(next_offset)
  BY DEF OnPublish, broker_vars, Channel!OnPublish
<1>2. /\ next_offset \in Nat /\ next_offset < U64Max /\ Len(accepted) = next_offset /\ U64Max \in Nat
      /\ calls \in [Publishers -> Channel!Call \union {Channel!Idle}]
      /\ Publications \subseteq Nat /\ Cardinality(Publications) \in Nat
      /\ next_offset \in Publications
  BY <1>1, ChannelFacts, OffsetFacts DEF HubInv
<1>3. next_offset' = next_offset + 1 /\ next_offset' \in Nat /\ next_offset' <= Cardinality(Publications)
  BY <1>1, <1>2, SMT DEF Channel!SaturatingSucc
<1>4. hub[p] = None /\ \A o \in Publications : o # None
  BY <1>1, DeliveryConstants DEF HubInv, OneAtATime
<1>5. /\ hub' \in [Publishers -> Publications \union {None}] /\ hub'[p] = next_offset
      /\ \A o \in Publishers : o # p => hub'[o] = hub[o] /\ calls'[o] = calls[o]
      /\ calls'[p] = Channel!Idle
  BY <1>1, <1>2 DEF HubInv, HubTypes
<1>6. HubTypes' /\ OneAtATime'
  BY <1>1, <1>3, <1>5 DEF HubInv, HubTypes, OneAtATime
<1>7. ASSUME NEW s \in Subscribers PROVE Kept(s)'
  <2> DEFINE A(o) == Accounted(o, hub, pub, sub[s], sent, dropped[s], outbox[s])
             B(o) == Accounted(o, hub', pub, sub[s], sent, dropped[s], outbox[s])
  <2>1. ASSUME NEW o \in Publications, A(o) PROVE B(o)
    BY <1>4, <1>5, <2>1 DEF Accounted
  <2>2. ASSUME NEW o \in Publications, next_offset <= o, o < next_offset' PROVE B(o)
    <3>1. hub'[p] = o
      BY <1>2, <1>3, <1>5, <2>2, SMT
    <3> QED BY <3>1 DEF Accounted
  <2> HIDE DEF A, B
  <2>3. \A o \in Publications : A(o) => B(o)
    BY <2>1
  <2>4. \A o \in Publications : next_offset <= o /\ o < next_offset' => B(o)
    BY <2>2
  <2>5. next_offset <= next_offset'
    BY <1>2, <1>3, SMT
  <2> QED BY <1>1, <1>3, <2>3, <2>4, <2>5, PublisherFrame DEF A, B
<1> QED BY <1>6, <1>7 DEF HubInv

(* broker.publish, topics.get: the publisher takes the sender of the map,  *)
(* which is the one of every open stream that is accounted for.            *)
LEMMA BrokerPublishStep ==
    ASSUME HubInv, ChannelRely', BrokerRely', NEW p \in Publishers, BrokerPublish(p)
    PROVE  HubInv'
<1>1. /\ UNCHANGED <<calls, next_offset, req, fwd, outbox, created, topic, sent, sub, got, dropped>>
      /\ hub' = [hub EXCEPT ![p] = None] /\ pub[p].pc = "idle"
      /\ topic # 0 => pub' = [pub EXCEPT ![p] = [pc |-> "send", sender |-> topic, publication |-> hub[p]]]
  BY DEF BrokerPublish, Broker!BeginPublish, Broker!Absent, channel_vars
<1>2. /\ hub' \in [Publishers -> Publications \union {None}] /\ hub'[p] = None
      /\ \A o \in Publishers : o # p => hub'[o] = hub[o]
  BY <1>1 DEF HubInv, HubTypes
<1>3. HubTypes' /\ OneAtATime'
  BY <1>1, <1>2 DEF HubInv, HubTypes, OneAtATime
<1>4. ASSUME NEW s \in Subscribers PROVE Kept(s)'
  <2> DEFINE A(o) == Accounted(o, hub, pub, sub[s], sent, dropped[s], outbox[s])
             B(o) == Accounted(o, hub', pub', sub[s], sent, dropped[s], outbox[s])
  <2>1. ASSUME sub[s].pc = "open", sub[s].sender = topic, NEW o \in Publications, A(o) PROVE B(o)
    <3>0. /\ MaxSenders \in Nat /\ (sub[s].pc # "closed" => sub[s].sender \in 1..MaxSenders)
          /\ pub \in [Publishers -> [pc : {"idle", "send", "reap"}, sender : 0..created,
                                     publication : Publications \union {None}]]
      BY DEF HubInv, BrokerRely
    <3>1. topic # 0
      BY <2>1, <3>0, SMT
    <3>2. /\ pub'[p].pc = "send" /\ pub'[p].sender = topic /\ pub'[p].publication = hub[p]
          /\ \A x \in Publishers : x # p => pub'[x] = pub[x]
      BY <1>1, <3>0, <3>1, SMT
    <3> QED BY <1>1, <1>2, <2>1, <3>2, SMT DEF Accounted
  <2> HIDE DEF A, B
  <2>2. sub[s].pc = "open" /\ sub[s].sender = topic => \A o \in Publications : A(o) => B(o)
    BY <2>1
  <2>3. next_offset \in Nat /\ next_offset <= next_offset
        /\ \A o \in Publications : ~(next_offset <= o /\ o < next_offset)
    BY ChannelFacts, SMT DEF HubInv
  <2> QED BY <1>1, <2>2, <2>3, PublisherFrame DEF A, B
<1> QED BY <1>3, <1>4 DEF HubInv

(* broker.publish, send: an open stream is a receiver, so the value goes   *)
(* to the log of its channel, behind its position.                         *)
LEMMA SendStep ==
    ASSUME HubInv, ChannelRely', BrokerRely', NEW p \in Publishers, BrokerSend(p), Broker!Send(p)
    PROVE  HubInv'
<1> DEFINE g == pub[p].sender
           v == pub[p].publication
<1>1. /\ UNCHANGED <<calls, next_offset, hub, req, fwd, outbox, created, topic, sub, got, dropped>>
      /\ pub[p].pc = "send"
      /\ \/ Broker!Receivers(g) = {} /\ sent' = sent /\ pub' = [pub EXCEPT ![p].pc = "reap"]
         \/ sent' = [sent EXCEPT ![g] = Append(@, v)] /\ pub' = [pub EXCEPT ![p] = Broker!NoCall]
  BY DEF BrokerSend, Broker!Send, channel_vars, hub_vars
<1>2. /\ pub \in [Publishers -> [pc : {"idle", "send", "reap"}, sender : 0..created,
                                 publication : Publications \union {None}]]
      /\ sent \in [1..MaxSenders -> Seq(Publications)] /\ g \in 1..MaxSenders
      /\ \A x \in Publishers : x # p => pub'[x] = pub[x]
  BY <1>1 DEF HubInv, BrokerRely
<1>3. HubTypes' /\ OneAtATime'
  BY <1>1 DEF HubInv, HubTypes, OneAtATime
<1>4. ASSUME NEW s \in Subscribers PROVE Kept(s)'
  <2> DEFINE f == sub[s].sender
             A(o) == Accounted(o, hub, pub, sub[s], sent, dropped[s], outbox[s])
             B(o) == Accounted(o, hub, pub', sub[s], sent', dropped[s], outbox[s])
  <2>1. sub[s].pc = "open" => f \in 1..MaxSenders /\ sub[s].pos \in Nat /\ sub[s].pos <= Len(sent[f])
    BY DEF HubInv, BrokerRely
  <2>2. /\ Len(sent[f]) \in Nat
        /\ Len(sent'[f]) \in Nat /\ Len(sent[f]) <= Len(sent'[f])
        /\ \A k \in 1..Len(sent[f]) : sent'[f][k] = sent[f][k]
     \/ sub[s].pc # "open"
    <3> SUFFICES ASSUME sub[s].pc = "open"
                 PROVE  /\ Len(sent[f]) \in Nat
                        /\ Len(sent'[f]) \in Nat /\ Len(sent[f]) <= Len(sent'[f])
                        /\ \A k \in 1..Len(sent[f]) : sent'[f][k] = sent[f][k]
      OBVIOUS
    <3>1. sent[f] \in Seq(Publications)
      BY <1>2, <2>1
    <3>2. CASE sent'[f] = sent[f]
      BY <3>1, <3>2, SMT
    <3>3. CASE sent'[f] = Append(sent[f], v)
      BY <3>1, <3>3, SMT
    <3> QED BY <1>1, <1>2, <2>1, <3>2, <3>3, ZenonT(30)
  <2>3. ASSUME sub[s].pc = "open", NEW o \in Publications, A(o) PROVE B(o)
    <3>1. CASE \E x \in Publishers : hub[x] = o
      BY <3>1 DEF Accounted
    <3>2. CASE \E k \in 1..Len(sent[f]) :
                 /\ sent[f][k] = o
                 /\ k <= sub[s].pos /\ dropped[s] = 0 => \E i \in 1..Len(outbox[s]) : outbox[s][i] = Publication(o)
      <4>1. \A k \in 1..Len(sent[f]) : k \in 1..Len(sent'[f]) /\ sent'[f][k] = sent[f][k]
        BY <2>2, <2>3, SMT
      <4> HIDE DEF f
      <4>2. \E k \in 1..Len(sent'[f]) :
                 /\ sent'[f][k] = o
                 /\ k <= sub[s].pos /\ dropped[s] = 0 => \E i \in 1..Len(outbox[s]) : outbox[s][i] = Publication(o)
        BY <3>2, <4>1
      <4> QED BY <4>2 DEF Accounted, f
    <3>3. ASSUME NEW x \in Publishers, pub[x].pc = "send", pub[x].publication = o, pub[x].sender = f
          PROVE  B(o)
      <4>1. CASE x # p
        BY <1>2, <3>3, <4>1 DEF Accounted
      <4>2. CASE x = p
        <5>1. s \in Broker!Receivers(g)
          BY <2>3, <3>3, <4>2 DEF Broker!Receivers, Broker!Open
        <5>2. sent'[f] = Append(sent[f], o) /\ sent[f] \in Seq(Publications)
          BY <1>1, <1>2, <2>1, <2>3, <3>3, <4>2, <5>1
        <5> DEFINE n == Len(sent[f]) + 1
        <5>3. n \in 1..Len(sent'[f]) /\ sent'[f][n] = o /\ ~(n <= sub[s].pos)
          BY <2>1, <2>3, <5>2, SMT
        <5> HIDE DEF n, f
        <5>4. \E k \in 1..Len(sent'[f]) : sent'[f][k] = o /\ ~(k <= sub[s].pos)
          BY <5>3
        <5> QED BY <5>4 DEF Accounted, f
      <4> QED BY <4>1, <4>2
    <3> QED BY <2>3, <3>1, <3>2, <3>3 DEF Accounted
  <2>4. sub[s].pc = "open" => \A k \in 1..sub[s].pos : sent'[f][k] = sent[f][k]
    BY <2>1, <2>2, SMT
  <2> HIDE DEF A, B
  <2>5. sub[s].pc = "open" => \A o \in Publications : A(o) => B(o)
    BY <2>3
  <2>6. next_offset \in Nat /\ next_offset <= next_offset
        /\ \A o \in Publications : ~(next_offset <= o /\ o < next_offset)
    BY ChannelFacts, SMT DEF HubInv
  <2> QED BY <1>1, <2>4, <2>5, <2>6, PublisherFrame DEF A, B
<1> QED BY <1>3, <1>4 DEF HubInv

(* broker.publish, remove_if: the publisher has nothing in flight any more. *)
LEMMA ReapStep ==
    ASSUME HubInv, ChannelRely', BrokerRely', NEW p \in Publishers, BrokerSend(p), Broker!Reap(p)
    PROVE  HubInv'
<1>1. /\ UNCHANGED <<calls, next_offset, hub, req, fwd, outbox, created, sent, sub, got, dropped>>
      /\ pub[p].pc = "reap" /\ pub' = [pub EXCEPT ![p] = Broker!NoCall]
      /\ topic' = topic \/ topic' = 0
  BY DEF BrokerSend, Broker!Reap, Broker!Absent, channel_vars, hub_vars
<1>2. \A x \in Publishers : x # p => pub'[x] = pub[x]
  BY <1>1 DEF HubInv, BrokerRely
<1>3. HubTypes' /\ OneAtATime'
  BY <1>1 DEF HubInv, HubTypes, OneAtATime
<1>4. ASSUME NEW s \in Subscribers PROVE Kept(s)'
  <2> DEFINE A(o) == Accounted(o, hub, pub, sub[s], sent, dropped[s], outbox[s])
             B(o) == Accounted(o, hub, pub', sub[s], sent, dropped[s], outbox[s])
  <2>1. ASSUME NEW o \in Publications, A(o) PROVE B(o)
    BY <1>1, <1>2, <2>1 DEF Accounted
  <2>2. sub[s].pc = "open" /\ sub[s].sender = topic' => sub[s].sender = topic
    <3>1. MaxSenders \in Nat /\ (sub[s].pc # "closed" => sub[s].sender \in 1..MaxSenders)
      BY DEF HubInv, BrokerRely
    <3> QED BY <1>1, <3>1, SMT
  <2> HIDE DEF A, B
  <2>3. \A o \in Publications : A(o) => B(o)
    BY <2>1
  <2>4. next_offset \in Nat /\ next_offset <= next_offset
        /\ \A o \in Publications : ~(next_offset <= o /\ o < next_offset)
    BY ChannelFacts, SMT DEF HubInv
  <2> QED BY <1>1, <2>2, <2>3, <2>4, PublisherFrame DEF A, B
<1> QED BY <1>3, <1>4 DEF HubInv

-----------------------------------------------------------------------------
(* A step of one subscriber: it is enough to look at that subscriber.      *)
LEMMA OneSubscriber ==
    ASSUME HubInv, NEW s \in Subscribers, ChannelRely', BrokerRely', HubTypes',
           UNCHANGED <<calls, hub, pub, sent, next_offset>>,
           \A t \in Subscribers : t # s =>
             /\ req'[t] = req[t] /\ fwd'[t] = fwd[t] /\ outbox'[t] = outbox[t]
             /\ sub'[t] = sub[t] /\ dropped'[t] = dropped[t],
           topic' = topic \/ topic' \notin 0..created,
           Kept(s)'
    PROVE  HubInv'
<1>1. OneAtATime'
  BY DEF HubInv, OneAtATime
<1>2. ASSUME NEW t \in Subscribers PROVE Kept(t)'
  <2>1. CASE t = s
    BY <2>1
  <2>2. CASE t # s
    <3>1. sub[t].sender \in 0..created
      BY DEF HubInv, BrokerRely
    <3> QED BY <2>2, <3>1, SubscriberFrame
  <2> QED BY <2>1, <2>2
<1> QED BY <1>1, <1>2 DEF HubInv

(* The fields of a request when its handler moves on.                      *)
LEMMA RequestMoves ==
    ASSUME HubTypes, NEW s \in Subscribers,
           NEW c \in {"none", "sender", "attach", "replay", "spawn", "ack", "subscribed"},
           req' = [req EXCEPT ![s].pc = c]
    PROVE  /\ req' \in [Subscribers ->
                 [pc : {"none", "sender", "attach", "replay", "spawn", "ack", "subscribed"},
                  since : Publications, cursor : Publications, replayed : Nat, floor : Offsets]]
           /\ req'[s].pc = c /\ SameRequest(req'[s], req[s])
           /\ \A t \in Subscribers : t # s => req'[t] = req[t]
<1> DEFINE R == [pc : {"none", "sender", "attach", "replay", "spawn", "ack", "subscribed"},
                 since : Publications, cursor : Publications, replayed : Nat, floor : Offsets]
           r == [req[s] EXCEPT !.pc = c]
<1>1. req \in [Subscribers -> R] /\ req[s] \in R
  BY DEF HubTypes
<1>2. r \in R /\ r.pc = c /\ SameRequest(r, req[s])
  BY <1>1 DEF SameRequest
<1>3. req' = [req EXCEPT ![s] = r]
  BY <1>1
<1> HIDE DEF R, r
<1>4. req' \in [Subscribers -> R] /\ req'[s] = r /\ \A t \in Subscribers : t # s => req'[t] = req[t]
  BY <1>1, <1>2, <1>3
<1> QED BY <1>2, <1>4 DEF R

(* on_subscribe: a new subscription with an empty outbox.                  *)
LEMMA OnSubscribeStep ==
    ASSUME HubInv, ChannelRely', BrokerRely', NEW s \in Subscribers, NEW since \in Publications, OnSubscribe(s, since)
    PROVE  HubInv'
<1> DEFINE cursor == Channel!Cursor.offset
           R == [pc : {"none", "sender", "attach", "replay", "spawn", "ack", "subscribed"},
                 since : Publications, cursor : Publications, replayed : Nat, floor : Offsets]
           r == [NoRequest EXCEPT !.pc = "sender", !.since = since, !.cursor = cursor]
<1>1. /\ UNCHANGED <<calls, next_offset, hub, fwd, topic, sent, pub, sub, dropped>>
      /\ req[s].pc = "none" /\ fwd[s] = "none" /\ (since = 0 \/ since < next_offset)
      /\ outbox' = [outbox EXCEPT ![s] = <<>>]
      /\ req' = [req EXCEPT ![s] = r]
  BY DEF OnSubscribe, channel_vars, broker_vars
<1>2. /\ next_offset \in Nat /\ next_offset <= Cardinality(Publications) /\ Publications \subseteq Nat
      /\ Cardinality(Publications) \in Nat \ {0}
      /\ \A o \in Nat : o \in Publications <=> o < Cardinality(Publications)
  BY ChannelFacts, DeliveryConstants DEF HubInv, OneAtATime
<1>3. cursor \in Publications /\ (next_offset > 0 => cursor < next_offset)
  <2>1. cursor = IF next_offset = 0 THEN 0 ELSE next_offset - 1
    BY DEF Channel!Cursor
  <2> HIDE DEF cursor
  <2> QED BY <1>2, <2>1, SMT
<1> HIDE DEF cursor
<1>4. /\ r \in R /\ r.pc = "sender" /\ r.since = since /\ r.cursor = cursor /\ r.replayed = 0
  <2>1. 0 \in Publications /\ 0 \in Offsets
    BY <1>2, SMT DEF Offsets
  <2> QED BY <1>3, <2>1 DEF NoRequest
<1> HIDE DEF r
<1>5. /\ req' \in [Subscribers -> R] /\ req'[s] = r /\ \A t \in Subscribers : t # s => req'[t] = req[t]
      /\ outbox' \in [Subscribers -> Seq(Frame)] /\ outbox'[s] = <<>>
      /\ \A t \in Subscribers : t # s => outbox'[t] = outbox[t]
  <2> HIDE DEF R
  <2>1. req \in [Subscribers -> R] /\ outbox \in [Subscribers -> Seq(Frame)]
    BY DEF HubInv, HubTypes, R
  <2> QED BY <1>1, <1>4, <2>1, SMT
<1>6. HubTypes'
  BY <1>1, <1>5 DEF HubInv, HubTypes
<1>7. Kept(s)'
  <2>1. sub[s].pc = "closed"
    BY <1>1 DEF HubInv, Kept, Stage
  <2>2. Stage(req[s], fwd[s], sub[s])'
    <3>1. Stage(r, "none", sub[s])
      BY <1>4, <2>1 DEF Stage
    <3> QED BY <1>1, <1>5, <3>1
  <2>3. Answer(r, <<>>, next_offset)
    BY <1>1, <1>2, <1>3, <1>4, SMT DEF Answer, BeforeReplay
  <2>4. Replayed(r, <<>>)
    BY <1>4, SMT DEF Replayed
  <2>5. Forwarded(r, <<>>, sub[s], sent)
    BY <1>4, <2>1, SMT DEF Forwarded
  <2>6. Whole(req'[s], outbox'[s], hub', pub', sub'[s], sent', dropped'[s], topic', next_offset')
    BY <1>4, <1>5 DEF Whole, BeforeReplay
  <2> QED BY <1>1, <1>5, <2>2, <2>3, <2>4, <2>5, <2>6 DEF Kept
<1> QED BY <1>1, <1>5, <1>6, <1>7, OneSubscriber

(* broker.subscribe, sender_for: the stream is not open yet; a sender that *)
(* is created is nobody else's.                                            *)
LEMMA SenderForStep ==
    ASSUME HubInv, ChannelRely', BrokerRely', NEW s \in Subscribers, BrokerSubscribe(s), req[s].pc = "sender"
    PROVE  HubInv'
<1>1. /\ Broker!SenderFor(s) /\ req' = [req EXCEPT ![s].pc = "attach"]
      /\ UNCHANGED <<channel_vars, hub, fwd, outbox>>
  BY DEF BrokerSubscribe
<1>2. /\ UNCHANGED <<calls, next_offset, hub, fwd, outbox, sent, pub>>
      /\ topic' = topic \/ topic' = created + 1
      /\ sub'[s].pc = "cloned"
      /\ \A t \in Subscribers : t # s => sub'[t] = sub[t] /\ dropped'[t] = dropped[t]
  BY <1>1 DEF HubInv, BrokerRely, Broker!SenderFor, Broker!NoStream, Broker!Absent, channel_vars
<1>3. topic' = topic \/ topic' \notin 0..created
  BY <1>2, SMT DEF HubInv, BrokerRely
<1>4. /\ HubTypes' /\ req'[s].pc = "attach" /\ SameRequest(req'[s], req[s])
      /\ \A t \in Subscribers : t # s => req'[t] = req[t]
  BY <1>1, <1>2, RequestMoves DEF HubInv, HubTypes
<1>5. Kept(s) /\ outbox[s] = <<>> /\ req[s].replayed = 0
  BY DEF HubInv, Kept, Answer, BeforeReplay
<1>6. fwd[s] = "none"
  BY <1>5 DEF HubInv, HubTypes, Kept, Stage
<1>7. Kept(s)'
  <2>1. Stage(req[s], fwd[s], sub[s])'
    BY <1>2, <1>4, <1>6 DEF Stage
  <2>2. Answer(req[s], outbox[s], next_offset)'
    BY <1>2, <1>4, <1>5 DEF Kept, Answer, SameRequest
  <2>3. Replayed(req[s], outbox[s])'
    BY <1>2, <1>4, <1>5, SMT DEF Replayed, SameRequest
  <2>4. Forwarded(req[s], outbox[s], sub[s], sent)'
    BY <1>2, <1>4, <1>5, SMT DEF Forwarded, SameRequest
  <2>5. Whole(req[s], outbox[s], hub, pub, sub[s], sent, dropped[s], topic, next_offset)'
    BY <1>4 DEF Whole, BeforeReplay
  <2> QED BY <2>1, <2>2, <2>3, <2>4, <2>5 DEF Kept
<1> QED BY <1>2, <1>3, <1>4, <1>7, OneSubscriber

(* broker.subscribe, the receiver: the stream is open, nothing was sent.   *)
LEMMA AttachStep ==
    ASSUME HubInv, ChannelRely', BrokerRely', NEW s \in Subscribers, BrokerSubscribe(s), req[s].pc = "attach"
    PROVE  HubInv'
<1>1. /\ Broker!Attach(s) /\ req' = [req EXCEPT ![s].pc = "replay"]
      /\ UNCHANGED <<channel_vars, hub, fwd, outbox>>
  BY DEF BrokerSubscribe
<1>2. /\ UNCHANGED <<calls, next_offset, hub, fwd, outbox, sent, pub, topic, dropped>>
      /\ sub'[s].pc = "open"
      /\ \A t \in Subscribers : t # s => sub'[t] = sub[t]
  BY <1>1 DEF HubInv, BrokerRely, Broker!Attach, channel_vars
<1>3. /\ HubTypes' /\ req'[s].pc = "replay" /\ SameRequest(req'[s], req[s])
      /\ \A t \in Subscribers : t # s => req'[t] = req[t]
  BY <1>1, <1>2, RequestMoves DEF HubInv, HubTypes
<1>4. Kept(s) /\ outbox[s] = <<>> /\ req[s].replayed = 0
  BY DEF HubInv, Kept, Answer, BeforeReplay
<1>5. fwd[s] = "none"
  BY <1>4 DEF HubInv, HubTypes, Kept, Stage
<1>6. Kept(s)'
  <2>1. Stage(req[s], fwd[s], sub[s])'
    BY <1>2, <1>3, <1>5 DEF Stage
  <2>2. Answer(req[s], outbox[s], next_offset)'
    BY <1>2, <1>3, <1>4 DEF Kept, Answer, SameRequest
  <2>3. Replayed(req[s], outbox[s])'
    BY <1>2, <1>3, <1>4, SMT DEF Replayed, SameRequest
  <2>4. Forwarded(req[s], outbox[s], sub[s], sent)'
    BY <1>2, <1>3, <1>4, SMT DEF Forwarded, SameRequest
  <2>5. Whole(req[s], outbox[s], hub, pub, sub[s], sent, dropped[s], topic, next_offset)'
    BY <1>3 DEF Whole, BeforeReplay
  <2> QED BY <2>1, <2>2, <2>3, <2>4, <2>5 DEF Kept
<1> QED BY <1>2, <1>3, <1>6, OneSubscriber

-----------------------------------------------------------------------------
(* The replay: what it returned goes to the outbox first, and everything   *)
(* below next_offset that the channel still had is in it.                  *)
LEMMA ReplayStep ==
    ASSUME HubInv, ChannelRely', BrokerRely', NEW s \in Subscribers, Replay(s)
    PROVE  HubInv'
<1> DEFINE out == Channel!ReplaySince(req[s].since)
           m == Len(out)
           frames == [i \in 1..m |-> Publication(out[i].offset)]
           R == [pc : {"none", "sender", "attach", "replay", "spawn", "ack", "subscribed"},
                 since : Publications, cursor : Publications, replayed : Nat, floor : Offsets]
           r == [req[s] EXCEPT !.pc = "spawn", !.replayed = m, !.floor = Floor]
<1>1. /\ req[s].pc = "replay" /\ UNCHANGED <<broker_vars, hub, fwd>>
      /\ UNCHANGED <<calls, next_offset, topic, sent, pub, sub, dropped>>
      /\ Channel!OnReplay \/ UNCHANGED channel_vars
  BY DEF Replay, Channel!OnReplay, channel_vars, broker_vars
<1>2. Kept(s) /\ outbox[s] = <<>> /\ req[s].replayed = 0
  BY <1>1 DEF HubInv, Kept, Answer, BeforeReplay
<1>3. fwd[s] = "none" /\ sub[s].pc = "open"
  BY <1>1, <1>2 DEF HubInv, HubTypes, Kept, Stage
<1>4. /\ req \in [Subscribers -> R] /\ req[s] \in R /\ outbox \in [Subscribers -> Seq(Frame)]
      /\ next_offset \in Nat /\ Publications \subseteq Nat /\ req[s].since \in Nat /\ req[s].cursor \in Nat
      /\ req[s].since > 0 => req[s].cursor < next_offset /\ req[s].since < next_offset
  BY <1>2, ChannelFacts DEF HubInv, HubTypes, Kept, Answer
<1>5. CASE ~(req[s].since > 0)
  <2>1. outbox' = outbox /\ req' = [req EXCEPT ![s].pc = "spawn"]
    BY <1>5 DEF Replay
  <2>2. /\ HubTypes' /\ req'[s].pc = "spawn" /\ SameRequest(req'[s], req[s])
        /\ \A t \in Subscribers : t # s => req'[t] = req[t]
    BY <1>1, <2>1, RequestMoves DEF HubInv, HubTypes
  <2>3. Stage(req[s], fwd[s], sub[s])'
    BY <1>1, <1>3, <2>2 DEF Stage
  <2>4. Answer(req[s], outbox[s], next_offset)'
    BY <1>1, <1>2, <1>5, <2>1, <2>2, SMT DEF Answer, SameRequest, BeforeReplay
  <2>5. Replayed(req[s], outbox[s])'
    BY <1>2, <2>1, <2>2, SMT DEF Replayed, SameRequest
  <2>6. Forwarded(req[s], outbox[s], sub[s], sent)'
    BY <1>2, <2>1, <2>2, SMT DEF Forwarded, SameRequest
  <2>7. Whole(req[s], outbox[s], hub, pub, sub[s], sent, dropped[s], topic, next_offset)'
    BY <1>5, <2>2 DEF Whole, SameRequest
  <2>8. Kept(s)'
    BY <2>3, <2>4, <2>5, <2>6, <2>7 DEF Kept
  <2> QED BY <1>1, <2>1, <2>2, <2>8, OneSubscriber
<1>6. CASE req[s].since > 0
  <2>1. /\ m \in Nat /\ Floor \in Offsets
        /\ \A i \in 1..m : /\ out[i].offset \in Publications /\ out[i].offset > req[s].since
                          /\ out[i].offset < next_offset
        /\ \A i, j \in 1..m : i < j => out[i].offset < out[j].offset
        /\ \A o \in Publications : req[s].since < o /\ Floor <= o /\ o < next_offset =>
             \E i \in 1..m : out[i].offset = o
    BY <1>4, <1>6 DEF HubInv, ChannelRely, OneAtATime, ReplayCovers
  <2>2. outbox' = [outbox EXCEPT ![s] = frames] /\ req' = [req EXCEPT ![s] = r]
    BY <1>4, <1>6 DEF Replay, Floor
  <2> HIDE DEF out, m
  <2>3. /\ r \in R /\ r.pc = "spawn" /\ r.since = req[s].since /\ r.cursor = req[s].cursor
        /\ r.replayed = m /\ r.floor = Floor
    BY <1>4, <2>1
  <2>4. /\ frames \in Seq(Frame) /\ Len(frames) = m
        /\ \A i \in 1..m : /\ frames[i] = Publication(out[i].offset)
                           /\ frames[i].kind = "publication" /\ frames[i].offset = out[i].offset
    <3>1. \A i \in 1..m : /\ Publication(out[i].offset) \in Frame
                          /\ Publication(out[i].offset).kind = "publication"
                          /\ Publication(out[i].offset).offset = out[i].offset
      BY <2>1 DEF Publication, Frame
    <3> QED BY <2>1, <3>1, SMT
  <2> HIDE DEF frames, r
  <2>5. /\ req' \in [Subscribers -> R] /\ req'[s] = r /\ \A t \in Subscribers : t # s => req'[t] = req[t]
        /\ outbox' \in [Subscribers -> Seq(Frame)] /\ outbox'[s] = frames
        /\ \A t \in Subscribers : t # s => outbox'[t] = outbox[t]
    <3> HIDE DEF R
    <3> QED BY <1>4, <2>2, <2>3, <2>4
  <2>6. HubTypes'
    BY <1>1, <2>5 DEF HubInv, HubTypes
  <2>7. Stage(r, fwd[s], sub[s])
    BY <1>3, <2>3 DEF Stage
  <2>8. Answer(r, frames, next_offset)
    BY <1>4, <2>3, <2>4 DEF Answer, BeforeReplay
  <2>9. Replayed(r, frames)
    BY <2>1, <2>3, <2>4, SMT DEF Replayed
  <2>10. Forwarded(r, frames, sub[s], sent)
    <3>1. (r.replayed + 1)..Len(frames) = {}
      BY <2>1, <2>3, <2>4, SMT
    <3> QED BY <3>1 DEF Forwarded
  <2>11. Whole(r, frames, hub, pub, sub[s], sent, dropped[s], topic, next_offset)
    <3>1. next_offset \in 0..next_offset /\ \A o \in Publications : ~(next_offset <= o /\ o < next_offset)
      BY <1>4, SMT
    <3>2. ReplayedTo(r, frames, next_offset)
      <4>1. r.cursor < next_offset
        BY <1>4, <1>6, <2>3
      <4>2. ASSUME NEW o \in Publications, r.since < o, r.floor <= o, o < next_offset
            PROVE  \E i \in 1..r.replayed : frames[i] = Publication(o)
        BY <2>1, <2>3, <2>4, <4>2, SMT
      <4>3. \A i \in 1..r.replayed : frames[i].offset < next_offset
        BY <2>1, <2>3, <2>4
      <4> QED BY <4>1, <4>2, <4>3 DEF ReplayedTo
    <3> QED BY <3>1, <3>2 DEF Whole
  <2>12. Kept(s)'
    BY <1>1, <2>5, <2>7, <2>8, <2>9, <2>10, <2>11 DEF Kept
  <2> QED BY <1>1, <2>5, <2>6, <2>12, OneSubscriber
<1> QED BY <1>5, <1>6

-----------------------------------------------------------------------------
(* A step after the replay that sends nothing: the handler or the          *)
(* forwarder moves on, and the stream stays as it is or closes.            *)
LEMMA QuietStep ==
    ASSUME HubInv, NEW s \in Subscribers, UNCHANGED <<hub, pub, sent, topic, next_offset>>,
           outbox'[s] = outbox[s], dropped'[s] = dropped[s],
           SameRequest(req'[s], req[s]), req[s].pc \notin BeforeReplay, req'[s].pc \notin BeforeReplay,
           sub'[s].pc = "open" => sub'[s] = sub[s],
           Stage(req'[s], fwd'[s], sub'[s])
    PROVE  Kept(s)'
<1>1. Kept(s) /\ next_offset \in Nat /\ Publications \subseteq Nat
  BY ChannelFacts DEF HubInv
<1>2. Answer(req[s], outbox[s], next_offset)'
  BY <1>1 DEF Kept, Answer, SameRequest
<1>3. Replayed(req[s], outbox[s])'
  BY <1>1 DEF Kept, Replayed, SameRequest
<1>4. Forwarded(req[s], outbox[s], sub[s], sent)'
  BY <1>1, ZenonT(30) DEF Kept, Forwarded, SameRequest
<1>5. Whole(req[s], outbox[s], hub, pub, sub[s], sent, dropped[s], topic, next_offset)'
  <2>1. Whole(req[s], outbox[s], hub, pub, sub[s], sent, dropped[s], topic, next_offset)
    BY <1>1 DEF Kept
  <2>2. \A e : ReplayedTo(req[s], outbox[s], e) => ReplayedTo(req'[s], outbox[s], e)
    BY DEF ReplayedTo, SameRequest
  <2>3. Whole(req'[s], outbox[s], hub, pub, sub'[s], sent, dropped[s], topic, next_offset)
    BY <2>1, <2>2 DEF Whole, SameRequest
  <2> QED BY <2>3
<1> QED BY <1>2, <1>3, <1>4, <1>5 DEF Kept

(* The forwarder is spawned.                                               *)
LEMMA SpawnForwarderStep ==
    ASSUME HubInv, ChannelRely', BrokerRely', NEW s \in Subscribers, SpawnForwarder(s)
    PROVE  HubInv'
<1>1. /\ UNCHANGED <<channel_vars, broker_vars>>
      /\ UNCHANGED <<calls, next_offset, hub, topic, sent, pub, sub, dropped, outbox>>
      /\ req[s].pc = "spawn" /\ fwd' = [fwd EXCEPT ![s] = "parked"] /\ req' = [req EXCEPT ![s].pc = "ack"]
  BY DEF SpawnForwarder, channel_vars, broker_vars
<1>2. /\ HubTypes' /\ req'[s].pc = "ack" /\ SameRequest(req'[s], req[s]) /\ fwd'[s] = "parked"
      /\ \A t \in Subscribers : t # s => req'[t] = req[t] /\ fwd'[t] = fwd[t]
  <2>1. /\ req'[s].pc = "ack" /\ SameRequest(req'[s], req[s])
        /\ \A t \in Subscribers : t # s => req'[t] = req[t]
        /\ req' \in [Subscribers ->
                 [pc : {"none", "sender", "attach", "replay", "spawn", "ack", "subscribed"},
                  since : Publications, cursor : Publications, replayed : Nat, floor : Offsets]]
    BY <1>1, RequestMoves DEF HubInv
  <2>2. /\ fwd' \in [Subscribers -> {"none", "parked", "polling", "finished", "aborted"}]
        /\ fwd'[s] = "parked" /\ \A t \in Subscribers : t # s => fwd'[t] = fwd[t]
    BY <1>1 DEF HubInv, HubTypes
  <2> QED BY <1>1, <2>1, <2>2 DEF HubInv, HubTypes
<1>3. sub[s].pc = "open"
  BY <1>1 DEF HubInv, HubTypes, Kept, Stage
<1>4. Stage(req'[s], fwd'[s], sub'[s])
  BY <1>1, <1>2, <1>3 DEF Stage
<1>5. Kept(s)'
  BY <1>1, <1>2, <1>4, QuietStep DEF BeforeReplay
<1> QED BY <1>1, <1>2, <1>5, OneSubscriber

(* The forwarder wakes up, or its poll returns.                            *)
LEMMA PollStep ==
    ASSUME HubInv, ChannelRely', BrokerRely', NEW s \in Subscribers, Wake(s) \/ EndPoll(s)
    PROVE  HubInv'
<1>1. /\ UNCHANGED channel_vars /\ UNCHANGED <<calls, next_offset, hub, topic, sent, pub, dropped, outbox, req>>
      /\ UNCHANGED broker_vars \/ Broker!StreamEnds(s) \/ Broker!DropStream(s)
  BY DEF Wake, EndPoll, channel_vars, broker_vars, Broker!StreamEnds, Broker!DropStream
<1>2. /\ sub'[s] = sub[s] \/ sub'[s] = Broker!NoStream
      /\ UNCHANGED broker_vars => sub'[s] = sub[s]
      /\ ~UNCHANGED broker_vars => sub'[s].pc = "closed"
      /\ \A t \in Subscribers : t # s => sub'[t] = sub[t]
  <2>1. CASE UNCHANGED broker_vars
    BY <2>1 DEF broker_vars
  <2>2. CASE sub' = [sub EXCEPT ![s] = Broker!NoStream]
    <3>1. sub'[s] = Broker!NoStream /\ \A t \in Subscribers : t # s => sub'[t] = sub[t]
      BY <2>2 DEF HubInv, BrokerRely
    <3>2. UNCHANGED broker_vars => sub'[s] = sub[s]
      BY DEF broker_vars
    <3>3. sub'[s].pc = "closed"
      BY <3>1, SMT DEF Broker!NoStream
    <3> QED BY <3>1, <3>2, <3>3
  <2> QED BY <1>1, <2>1, <2>2 DEF Broker!StreamEnds, Broker!DropStream
<1>3. /\ HubTypes'
      /\ \A t \in Subscribers : t # s => fwd'[t] = fwd[t]
  BY <1>1 DEF HubInv, HubTypes, Wake, EndPoll
<1>4. SameRequest(req'[s], req[s]) /\ req'[s] = req[s] /\ (sub'[s].pc = "open" => sub'[s] = sub[s])
  BY <1>1, <1>2 DEF SameRequest, Broker!NoStream
<1>5. Stage(req[s], fwd[s], sub[s]) /\ fwd \in [Subscribers -> {"none", "parked", "polling", "finished", "aborted"}]
  BY DEF HubInv, Kept, HubTypes
<1>6. /\ req[s].pc \notin BeforeReplay
      /\ Stage(req[s], fwd'[s], sub'[s])
  <2>1. CASE Wake(s)
    BY <1>2, <1>5, <2>1 DEF Wake, Stage, BeforeReplay
  <2>2. CASE EndPoll(s) /\ Broker!StreamEnds(s) /\ fwd' = [fwd EXCEPT ![s] = IF @ = "aborted" THEN "none" ELSE "finished"]
    BY <1>5, <2>2 DEF HubInv, BrokerRely, EndPoll, Broker!StreamEnds, Broker!NoStream, Stage, BeforeReplay
  <2>3. CASE EndPoll(s) /\ fwd[s] = "polling" /\ fwd' = [fwd EXCEPT ![s] = "parked"] /\ UNCHANGED broker_vars
    BY <1>2, <1>5, <2>3 DEF Stage, BeforeReplay
  <2>4. CASE EndPoll(s) /\ fwd[s] = "aborted" /\ Broker!DropStream(s) /\ fwd' = [fwd EXCEPT ![s] = "none"]
    BY <1>5, <2>4 DEF HubInv, BrokerRely, Broker!DropStream, Broker!NoStream, Stage, BeforeReplay
  <2> QED BY <2>1, <2>2, <2>3, <2>4 DEF EndPoll
<1>7. Kept(s)'
  BY <1>1, <1>4, <1>6, QuietStep
<1> QED BY <1>1, <1>2, <1>3, <1>7, OneSubscriber

(* handle_unsubscribe: the forwarder is aborted, at once or when its poll  *)
(* returns.                                                                *)
LEMMA UnsubscribeStep ==
    ASSUME HubInv, ChannelRely', BrokerRely', NEW s \in Subscribers, Unsubscribe(s)
    PROVE  HubInv'
<1>1. /\ UNCHANGED channel_vars /\ UNCHANGED <<calls, next_offset, hub, topic, sent, pub, dropped, outbox>>
      /\ req[s].pc = "subscribed" /\ req' = [req EXCEPT ![s].pc = "none"]
      /\ \/ fwd[s] = "parked" /\ Broker!DropStream(s) /\ fwd' = [fwd EXCEPT ![s] = "none"]
         \/ /\ fwd[s] # "parked" /\ UNCHANGED broker_vars
            /\ fwd' = [fwd EXCEPT ![s] = IF @ = "finished" THEN "none" ELSE "aborted"]
  BY DEF Unsubscribe, channel_vars, broker_vars, Broker!DropStream
<1>2. /\ HubTypes' /\ req'[s].pc = "none" /\ SameRequest(req'[s], req[s])
      /\ \A t \in Subscribers : t # s => req'[t] = req[t] /\ fwd'[t] = fwd[t]
  <2>1. /\ fwd' \in [Subscribers -> {"none", "parked", "polling", "finished", "aborted"}]
        /\ \A t \in Subscribers : t # s => fwd'[t] = fwd[t]
    BY <1>1 DEF HubInv, HubTypes
  <2>2. "none" \in {"none", "sender", "attach", "replay", "spawn", "ack", "subscribed"}
    OBVIOUS
  <2> QED BY <1>1, <2>1, <2>2, RequestMoves DEF HubInv, HubTypes
<1>3. Stage(req[s], fwd[s], sub[s]) /\ fwd \in [Subscribers -> {"none", "parked", "polling", "finished", "aborted"}]
  BY DEF HubInv, Kept, HubTypes
<1>4. /\ \A t \in Subscribers : t # s => sub'[t] = sub[t]
      /\ sub'[s].pc = "open" => sub'[s] = sub[s]
      /\ Stage(req'[s], fwd'[s], sub'[s])
  <2>1. CASE fwd[s] = "parked" /\ Broker!DropStream(s) /\ fwd' = [fwd EXCEPT ![s] = "none"]
    BY <1>2, <1>3, <2>1 DEF HubInv, BrokerRely, Broker!DropStream, Broker!NoStream, Stage
  <2>2. CASE /\ fwd[s] # "parked" /\ UNCHANGED broker_vars
             /\ fwd' = [fwd EXCEPT ![s] = IF @ = "finished" THEN "none" ELSE "aborted"]
    BY <1>1, <1>2, <1>3, <2>2 DEF broker_vars, Stage
  <2> QED BY <1>1, <2>1, <2>2
<1>5. Kept(s)'
  BY <1>1, <1>2, <1>4, QuietStep DEF BeforeReplay
<1> QED BY <1>1, <1>2, <1>4, <1>5, OneSubscriber

(* A frame is appended to the outbox: SubscribeOk with the cursor, or a    *)
(* publication that the forwarder did not send before.                     *)
Appended(r, r2, q, f, n) ==
    /\ Append(q, f) \in Seq(Frame)
    /\ Answer(r2, Append(q, f), n)
    /\ Replayed(r2, Append(q, f))
    /\ \A i \in 1..r.replayed : Append(q, f)[i] = q[i]
    /\ Len(Append(q, f)) = Len(q) + 1 /\ Len(q) \in Nat /\ r.replayed <= Len(q)
    /\ Append(q, f)[Len(q) + 1] = f
    /\ \A i \in 1..Len(q) : Append(q, f)[i] = q[i]

LEMMA AppendFrame ==
    ASSUME NEW r, NEW r2, NEW q \in Seq(Frame), NEW f \in Frame, NEW n, r.replayed \in Nat,
           SameRequest(r2, r), r2.pc \notin BeforeReplay, Answer(r, q, n), Replayed(r, q),
           f.kind = "subscribe_ok" => f.offset = r.cursor
    PROVE  Appended(r, r2, q, f, n)
<1> DEFINE w == Append(q, f)
           m == Len(q)
<1>1. w \in Seq(Frame) /\ Len(w) = m + 1 /\ m \in Nat /\ w[m + 1] = f /\ \A i \in 1..m : w[i] = q[i]
  BY SMT
<1>2. r.replayed <= m
  BY DEF Replayed
<1>3. \A i \in 1..r.replayed : w[i] = q[i]
  BY <1>1, <1>2, SMT
<1>4. \A i \in 1..Len(w) : i \in 1..m \/ i = m + 1
  BY <1>1, SMT
<1> HIDE DEF w
<1>5. Replayed(r2, w)
  BY <1>1, <1>2, <1>3, SMT DEF Replayed, SameRequest
<1>6. Answer(r2, w, n)
  BY <1>1, <1>4 DEF Answer, SameRequest
<1> QED BY <1>1, <1>2, <1>3, <1>5, <1>6 DEF w, Appended

LEMMA OneLonger ==
    ASSUME NEW a \in Nat, NEW m \in Nat, a <= m
    PROVE  \A i \in (a + 1)..(m + 1) :
             i \in 1..(m + 1) /\ ((i \in (a + 1)..m /\ i \in 1..m) \/ i = m + 1)
  BY SMT

(* SubscribeOk: sent after the replay, with the cursor.                    *)
LEMMA DeliverSubscribeOkStep ==
    ASSUME HubInv, ChannelRely', BrokerRely', NEW s \in Subscribers, DeliverSubscribeOk(s)
    PROVE  HubInv'
<1> DEFINE f == SubscribeOk(req[s].cursor)
           q == outbox[s]
<1>1. /\ UNCHANGED <<channel_vars, broker_vars>>
      /\ UNCHANGED <<calls, next_offset, hub, topic, sent, pub, sub, dropped, fwd>>
      /\ req[s].pc = "ack" /\ outbox' = [outbox EXCEPT ![s] = Append(@, f)]
      /\ req' = [req EXCEPT ![s].pc = "subscribed"]
  BY DEF DeliverSubscribeOk, channel_vars, broker_vars
<1>2. /\ HubTypes /\ Kept(s) /\ req[s].cursor \in Publications /\ req[s].replayed \in Nat
      /\ q \in Seq(Frame) /\ outbox \in [Subscribers -> Seq(Frame)]
      /\ next_offset \in Nat /\ Publications \subseteq Nat
  BY ChannelFacts DEF HubInv, HubTypes
<1>3. f \in Frame /\ f.kind = "subscribe_ok" /\ f.offset = req[s].cursor
  BY <1>2 DEF SubscribeOk, Frame
<1>4. /\ req'[s].pc = "subscribed" /\ SameRequest(req'[s], req[s])
      /\ \A t \in Subscribers : t # s => req'[t] = req[t]
  BY <1>1, <1>2, RequestMoves
<1> DEFINE w == Append(q, f)
           m == Len(q)
<1>5. /\ w \in Seq(Frame)
      /\ Answer(req'[s], w, next_offset) /\ Replayed(req'[s], w)
      /\ \A i \in 1..req[s].replayed : w[i] = q[i]
      /\ Len(w) = m + 1 /\ m \in Nat /\ req[s].replayed <= m
      /\ w[m + 1] = f /\ \A i \in 1..m : w[i] = q[i]
  <2>1. Answer(req[s], q, next_offset) /\ Replayed(req[s], q)
    BY <1>2 DEF Kept
  <2>2. req'[s].pc \notin BeforeReplay
    BY <1>4 DEF BeforeReplay
  <2> HIDE DEF f, q
  <2>3. Appended(req[s], req'[s], q, f, next_offset)
    BY <1>2, <1>3, <1>4, <2>1, <2>2, AppendFrame
  <2> QED BY <2>3 DEF Appended
<1> HIDE DEF w, f
<1>6. /\ outbox' \in [Subscribers -> Seq(Frame)] /\ outbox'[s] = w
      /\ \A t \in Subscribers : t # s => outbox'[t] = outbox[t]
  BY <1>1, <1>2, <1>5 DEF w
<1>7. HubTypes'
  BY <1>1, <1>2, <1>6, RequestMoves DEF HubTypes
<1>8. Stage(req'[s], fwd[s], sub[s])
  BY <1>1, <1>2, <1>4 DEF Kept, Stage
<1>9. Forwarded(req'[s], w, sub[s], sent)
  <2> HIDE DEF m, q
  <2>2. \A j \in (req[s].replayed + 1)..Len(w) :
          \/ j \in (req[s].replayed + 1)..m /\ w[j] = q[j]
          \/ w[j].kind # "publication"
    <3>1. f.kind # "publication"
      BY <1>3
    <3> QED BY <1>2, <1>5, <3>1, OneLonger
  <2>1. \A i \in (req[s].replayed + 1)..Len(w) : w[i].kind = "publication" =>
          i \in (req[s].replayed + 1)..m /\ w[i] = q[i]
    BY <2>2
  <2> USE DEF m, q
  <2>3. Forwarded(req[s], q, sub[s], sent)
    BY <1>2 DEF Kept
  <2> HIDE DEF m, q
  <2>4. \A i, j \in (req[s].replayed + 1)..Len(w) : i # j /\ w[i].kind = "publication" => w[i] # w[j]
    BY <2>1, <2>2, <2>3 DEF Forwarded, m
  <2>5. sub[s].pc = "open" =>
         \A i \in (req[s].replayed + 1)..Len(w) : w[i].kind = "publication" =>
           \E k \in 1..sub[s].pos : sent[sub[s].sender][k] = w[i].offset
    BY <2>1, <2>3 DEF Forwarded, m
  <2> QED BY <1>4, <2>4, <2>5 DEF Forwarded, SameRequest
<1>10. Whole(req'[s], w, hub, pub, sub[s], sent, dropped[s], topic, next_offset)
  <2> DEFINE A(o) == Accounted(o, hub, pub, sub[s], sent, dropped[s], q)
             B(o) == Accounted(o, hub, pub, sub[s], sent, dropped[s], w)
  <2>1. Whole(req[s], q, hub, pub, sub[s], sent, dropped[s], topic, next_offset)
    BY <1>2 DEF Kept
  <2>2. \A i \in 1..m : i \in 1..Len(w) /\ w[i] = q[i]
    BY <1>5, SMT
  <2>3. ASSUME NEW o \in Publications, A(o) PROVE B(o)
    BY <2>2, <2>3 DEF Accounted
  <2>4. req[s].pc \notin BeforeReplay
    BY <1>1 DEF BeforeReplay
  <2> HIDE DEF A, B
  <2>5. \A o \in Publications : A(o) => B(o)
    BY <2>3
  <2> QED BY <1>4, <1>5, <2>1, <2>4, <2>5, WholeStays DEF A, B
<1>11. Kept(s)'
  BY <1>1, <1>5, <1>6, <1>8, <1>9, <1>10 DEF Kept
<1> QED BY <1>1, <1>4, <1>6, <1>7, <1>11, OneSubscriber

(* The stream lagged: from now on it may miss what was sent.               *)
LEMMA LagStep ==
    ASSUME HubInv, ChannelRely', BrokerRely', NEW s \in Subscribers, Forward(s), Broker!Lag(s), outbox' = outbox
    PROVE  HubInv'
<1> DEFINE g == sub[s].sender
           x == Broker!Oldest(g)
<1>1. /\ UNCHANGED channel_vars /\ fwd[s] \in {"polling", "aborted"}
      /\ UNCHANGED <<calls, next_offset, hub, topic, sent, pub, fwd, req, outbox>>
      /\ sub[s].pos < x /\ sub' = [sub EXCEPT ![s].pos = x]
      /\ dropped' = [dropped EXCEPT ![s] = @ + (x - sub[s].pos)]
  BY DEF Forward, channel_vars, Broker!Lag
<1>2. HubTypes'
  BY <1>1 DEF HubInv, HubTypes
<1>3. /\ Kept(s) /\ sub[s].pc = "open" /\ req[s].pc \notin BeforeReplay
  BY <1>1 DEF HubInv, Kept, Stage, BeforeReplay
<1>4. /\ sub \in [Subscribers -> [pc : {"closed", "cloned", "open"}, sender : 0..created, start : Nat, pos : Nat]]
      /\ dropped \in [Subscribers -> Nat] /\ g \in 1..MaxSenders /\ sent \in [1..MaxSenders -> Seq(Publications)]
  BY <1>3 DEF HubInv, BrokerRely
<1>5. x \in Nat
  <2>1. Len(sent[g]) \in Nat /\ RingSize \in Nat
    BY <1>4, DeliveryConstants, SMT
  <2> HIDE DEF g
  <2> QED BY <2>1, SMT DEF Broker!Oldest
<1> HIDE DEF x
<1>6. /\ sub'[s].pc = "open" /\ sub'[s].sender = g /\ sub'[s].pos = x /\ sub[s].pos \in Nat
      /\ dropped'[s] # 0
      /\ \A t \in Subscribers : t # s => sub'[t] = sub[t] /\ dropped'[t] = dropped[t]
  <2>1. sub[s] \in [pc : {"closed", "cloned", "open"}, sender : 0..created, start : Nat, pos : Nat]
    BY <1>4
  <2>2. sub[s].pos \in Nat
    BY <2>1
  <2>3. sub'[s] = [sub[s] EXCEPT !.pos = x] /\ \A t \in Subscribers : t # s => sub'[t] = sub[t]
    BY <1>1, <1>4
  <2>4. sub'[s].pc = "open" /\ sub'[s].sender = g /\ sub'[s].pos = x
    BY <1>3, <2>1, <2>3
  <2>5. dropped'[s] = dropped[s] + (x - sub[s].pos) /\ \A t \in Subscribers : t # s => dropped'[t] = dropped[t]
    BY <1>1, <1>4
  <2>6. dropped[s] \in Nat
    BY <1>4
  <2>7. dropped'[s] # 0
    BY <1>1, <1>5, <2>2, <2>5, <2>6, SMT
  <2> QED BY <2>2, <2>3, <2>4, <2>5, <2>7
<1>7. Stage(req[s], fwd[s], sub'[s])
  BY <1>3, <1>6 DEF Kept, Stage
<1>8. Forwarded(req[s], outbox[s], sub'[s], sent)
  <2>1. \A k \in 1..sub[s].pos : k \in 1..x
    BY <1>1, <1>5, <1>6, SMT
  <2>2. Forwarded(req[s], outbox[s], sub[s], sent)
    BY <1>3 DEF Kept
  <2>3. ASSUME NEW i \in (req[s].replayed + 1)..Len(outbox[s]), outbox[s][i].kind = "publication"
        PROVE  \E k \in 1..sub'[s].pos : sent[sub'[s].sender][k] = outbox[s][i].offset
    <3>1. PICK k \in 1..sub[s].pos : sent[sub[s].sender][k] = outbox[s][i].offset
      BY <1>3, <2>2, <2>3 DEF Forwarded
    <3>2. k \in 1..sub'[s].pos /\ sent[sub'[s].sender][k] = outbox[s][i].offset
      BY <1>6, <2>1, <3>1
    <3> QED BY <3>2
  <2> QED BY <2>2, <2>3 DEF Forwarded
<1>9. Whole(req[s], outbox[s], hub, pub, sub'[s], sent, dropped'[s], topic, next_offset)
  <2>1. \A o \in Publications :
          Accounted(o, hub, pub, sub[s], sent, dropped[s], outbox[s])
            => Accounted(o, hub, pub, sub'[s], sent, dropped'[s], outbox[s])
    BY <1>6 DEF Accounted
  <2>2. SameRequest(req[s], req[s])
    BY DEF SameRequest
  <2> QED BY <1>3, <1>6, <2>1, <2>2, WholeStays DEF Kept
<1>10. Kept(s)'
  BY <1>1, <1>3, <1>7, <1>8, <1>9 DEF Kept
<1> QED BY <1>1, <1>2, <1>6, <1>10, OneSubscriber

(* The forwarder sends what its stream yields: the next value of the log,  *)
(* which it has not sent before.                                           *)
LEMMA RecvStep ==
    ASSUME HubInv, ChannelRely', BrokerRely', NEW s \in Subscribers, Forward(s), Broker!Recv(s),
           outbox' = [outbox EXCEPT ![s] = Append(@, Publication(got'[s][Len(got'[s])]))]
    PROVE  HubInv'
<1> DEFINE g == sub[s].sender
           n == sub[s].pos + 1
           v == sent[g][n]
           f == Publication(v)
           q == outbox[s]
           r == req[s]
<1>1. /\ UNCHANGED channel_vars /\ fwd[s] \in {"polling", "aborted"}
      /\ UNCHANGED <<calls, next_offset, hub, topic, sent, pub, fwd, req, dropped>>
      /\ sub[s].pos < Len(sent[g]) /\ sub' = [sub EXCEPT ![s].pos = @ + 1]
      /\ got' = [got EXCEPT ![s] = Append(@, v)]
  BY DEF Forward, channel_vars, Broker!Recv
<1>2. /\ HubTypes /\ Kept(s) /\ sub[s].pc = "open" /\ r.pc \notin BeforeReplay /\ r.replayed \in Nat
      /\ q \in Seq(Frame) /\ outbox \in [Subscribers -> Seq(Frame)]
  BY <1>1 DEF HubInv, HubTypes, Kept, Stage, BeforeReplay
<1>3. /\ sub \in [Subscribers -> [pc : {"closed", "cloned", "open"}, sender : 0..created, start : Nat, pos : Nat]]
      /\ got \in [Subscribers -> Seq(Publications)]
      /\ g \in 1..MaxSenders /\ sent \in [1..MaxSenders -> Seq(Publications)]
      /\ \A k, l \in 1..Len(sent[g]) : sent[g][k] = sent[g][l] => k = l
  BY <1>2 DEF HubInv, BrokerRely
<1>4. n \in 1..Len(sent[g]) /\ v \in Publications /\ sub[s].pos \in Nat /\ sent[g] \in Seq(Publications)
  BY <1>1, <1>3, SMT
<1>5. /\ sub'[s].pc = "open" /\ sub'[s].sender = g /\ sub'[s].pos = n
      /\ \A t \in Subscribers : t # s => sub'[t] = sub[t]
  BY <1>1, <1>2, <1>3, SMT
<1>6. got'[s][Len(got'[s])] = v
  <2> HIDE DEF v
  <2> QED BY <1>1, <1>3, <1>4, SMT
<1>7. f \in Frame /\ f.kind = "publication" /\ f.offset = v
  BY <1>4 DEF Publication, Frame
<1>8. SameRequest(r, r)
  BY DEF SameRequest
<1> DEFINE w == Append(q, f)
           m == Len(q)
<1>9. /\ w \in Seq(Frame)
      /\ Answer(r, w, next_offset) /\ Replayed(r, w)
      /\ \A i \in 1..r.replayed : w[i] = q[i]
      /\ Len(w) = m + 1 /\ m \in Nat /\ r.replayed <= m
      /\ w[m + 1] = f /\ \A i \in 1..m : w[i] = q[i]
  <2>1. f.kind = "subscribe_ok" => f.offset = r.cursor
    BY <1>7
  <2> HIDE DEF f
  <2>2. Answer(r, q, next_offset) /\ Replayed(r, q)
    BY <1>2 DEF Kept
  <2> HIDE DEF q, r
  <2>3. Appended(r, r, q, f, next_offset)
    BY <1>2, <1>7, <1>8, <2>1, <2>2, AppendFrame
  <2> QED BY <2>3 DEF Appended
<1>10. /\ outbox' \in [Subscribers -> Seq(Frame)] /\ outbox'[s] = w
       /\ \A t \in Subscribers : t # s => outbox'[t] = outbox[t]
  <2>1. outbox' = [outbox EXCEPT ![s] = w]
    BY <1>2, <1>6
  <2> HIDE DEF w
  <2> QED BY <1>2, <1>9, <2>1
<1>11. HubTypes'
  BY <1>1, <1>2, <1>10 DEF HubTypes
<1>12. Stage(r, fwd[s], sub'[s])
  BY <1>2, <1>5 DEF Kept, Stage
<1> HIDE DEF w, f, v, n
<1>13. Forwarded(r, w, sub'[s], sent)
  <2> DEFINE I == (r.replayed + 1)..m
             J == (r.replayed + 1)..Len(w)
  <2>1. \A i \in J : (i \in I /\ w[i] = q[i]) \/ (i = m + 1 /\ w[i] = f)
    <3> HIDE DEF m, q, r
    <3> QED BY <1>2, <1>9, OneLonger
  <2>2. Forwarded(r, q, sub[s], sent)
    BY <1>2 DEF Kept
  <2>3. ASSUME NEW i \in I, q[i].kind = "publication"
        PROVE  \E k \in 1..sub[s].pos : sent[g][k] = q[i].offset
    BY <1>2, <2>2, <2>3 DEF Forwarded
  <2>4. ASSUME NEW i \in I PROVE q[i] # f
    <3>1. ASSUME NEW k \in 1..sub[s].pos PROVE sent[g][k] # v
      <4>1. k \in 1..Len(sent[g]) /\ k # n
        BY <1>4, SMT DEF n
      <4> QED BY <1>3, <1>4, <4>1 DEF v
    <3>2. q[i].kind = "publication" => q[i].offset # v
      BY <2>3, <3>1
    <3> QED BY <1>7, <3>2
  <2>5. \A i, j \in I : i # j /\ q[i].kind = "publication" => q[i] # q[j]
    BY <2>2 DEF Forwarded
  <2> HIDE DEF I
  <2>6. \A i, j \in J : i # j /\ w[i].kind = "publication" => w[i] # w[j]
    BY <2>1, <2>4, <2>5
  <2>7. ASSUME NEW i \in J, w[i].kind = "publication"
        PROVE  \E k \in 1..n : sent[g][k] = w[i].offset
    <3>1. \A k \in 1..sub[s].pos : k \in 1..n
      BY <1>4, SMT DEF n
    <3>2. n \in 1..n /\ sent[g][n] = v
      BY <1>4, SMT DEF n, v
    <3> QED BY <1>7, <2>1, <2>3, <2>7, <3>1, <3>2
  <2> QED BY <1>5, <2>6, <2>7 DEF Forwarded
<1>14. Whole(r, w, hub, pub, sub'[s], sent, dropped[s], topic, next_offset)
  <2>1. ASSUME NEW o \in Publications, Accounted(o, hub, pub, sub[s], sent, dropped[s], q)
        PROVE  Accounted(o, hub, pub, sub'[s], sent, dropped[s], w)
    <3> HIDE DEF m, q
    <3>1. \A i \in 1..m : i \in 1..Len(w) /\ w[i] = q[i]
      BY <1>9, SMT
    <3>2. m + 1 \in 1..Len(w) /\ w[m + 1] = f
      BY <1>9, SMT
    <3> USE DEF m, q
    <3>3. ASSUME NEW k \in 1..Len(sent[g]), sent[g][k] = o,
                 k <= sub[s].pos /\ dropped[s] = 0 => \E i \in 1..m : q[i] = Publication(o)
          PROVE  k <= n /\ dropped[s] = 0 => \E i \in 1..Len(w) : w[i] = Publication(o)
      <4>1. k <= n => k <= sub[s].pos \/ k = n
        BY <1>4, SMT DEF n
      <4>2. k = n => f = Publication(o)
        BY <3>3 DEF f, v
      <4> HIDE DEF m, q
      <4> QED BY <3>1, <3>2, <3>3, <4>1, <4>2
    <3> QED BY <1>5, <2>1, <3>3 DEF Accounted
  <2> QED BY <1>2, <1>5, <1>8, <1>9, <2>1, WholeStays DEF Kept
<1>15. Kept(s)'
  BY <1>1, <1>9, <1>10, <1>12, <1>13, <1>14 DEF Kept
<1> QED BY <1>1, <1>5, <1>10, <1>11, <1>15, OneSubscriber

-----------------------------------------------------------------------------
LEMMA HubInit ==
    ASSUME ChannelRely, BrokerRely, Init
    PROVE  HubInv
<1>1. /\ next_offset = 0 /\ calls = [p \in Publishers |-> Channel!Idle]
      /\ sub = [s \in Subscribers |-> Broker!NoStream]
      /\ hub = [p \in Publishers |-> None] /\ req = [s \in Subscribers |-> NoRequest]
      /\ fwd = [s \in Subscribers |-> "none"] /\ outbox = [s \in Subscribers |-> <<>>]
  BY DEF Init, Channel!Init, Broker!Init
<1>2. 0 \in Publications
  BY DeliveryConstants, SMT
<1>3. HubTypes
  <2>1. 0 \in Offsets /\ <<>> \in Seq(Frame)
    BY <1>2, SMT DEF Offsets
  <2> QED BY <1>1, <1>2, <2>1 DEF HubTypes, NoRequest
<1>4. OneAtATime
  BY <1>1, DeliveryConstants, SMT DEF OneAtATime
<1>5. ASSUME NEW s \in Subscribers PROVE Kept(s)
  <2>1. /\ req[s] = NoRequest /\ outbox[s] = <<>> /\ fwd[s] = "none" /\ sub[s].pc = "closed"
    BY <1>1 DEF Broker!NoStream
  <2>2. NoRequest.pc = "none" /\ NoRequest.since = 0 /\ NoRequest.replayed = 0
    BY DEF NoRequest
  <2>3. Stage(req[s], fwd[s], sub[s]) /\ Answer(req[s], outbox[s], next_offset)
    BY <2>1, <2>2, SMT DEF Stage, Answer, BeforeReplay
  <2>4. Replayed(req[s], outbox[s]) /\ Forwarded(req[s], outbox[s], sub[s], sent)
    BY <2>1, <2>2, SMT DEF Replayed, Forwarded
  <2>5. Whole(req[s], outbox[s], hub, pub, sub[s], sent, dropped[s], topic, next_offset)
    BY <2>1, <2>2, SMT DEF Whole
  <2> QED BY <2>3, <2>4, <2>5 DEF Kept
<1> QED BY <1>3, <1>4, <1>5 DEF HubInv

LEMMA Stutter ==
    ASSUME HubInv, ChannelRely', BrokerRely', UNCHANGED vars
    PROVE  HubInv'
<1>1. UNCHANGED <<calls, next_offset, topic, sent, pub, sub, dropped, hub, req, fwd, outbox>>
  BY DEF vars, channel_vars, broker_vars, hub_vars
<1>2. HubTypes' /\ OneAtATime'
  BY <1>1 DEF HubInv, HubTypes, OneAtATime
<1>3. \A s \in Subscribers : Kept(s)'
  BY <1>1 DEF HubInv, Kept
<1> QED BY <1>2, <1>3 DEF HubInv

(* The hub keeps its invariant while its components keep to theirs.        *)
LEMMA HubNext ==
    ASSUME HubInv, ChannelRely', BrokerRely', [Next]_vars
    PROVE  HubInv'
<1>1. ASSUME NEW p \in Publishers, HandlePublish(p) \/ OnPublish(p) \/ BrokerPublish(p)
      PROVE  HubInv'
  BY <1>1, HandlePublishStep, OnPublishStep, BrokerPublishStep
<1>2. ASSUME NEW p \in Publishers, BrokerSend(p) PROVE HubInv'
  BY <1>2, SendStep, ReapStep DEF BrokerSend
<1>3. ASSUME NEW s \in Subscribers, NEW since \in Publications, OnSubscribe(s, since) PROVE HubInv'
  BY <1>3, OnSubscribeStep
<1>4. ASSUME NEW s \in Subscribers, BrokerSubscribe(s) PROVE HubInv'
  BY <1>4, SenderForStep, AttachStep DEF BrokerSubscribe
<1>5. ASSUME NEW s \in Subscribers, Replay(s) \/ SpawnForwarder(s) \/ DeliverSubscribeOk(s)
      PROVE  HubInv'
  BY <1>5, ReplayStep, SpawnForwarderStep, DeliverSubscribeOkStep
<1>6. ASSUME NEW s \in Subscribers, Forward(s) PROVE HubInv'
  BY <1>6, LagStep, RecvStep DEF Forward
<1>7. ASSUME NEW s \in Subscribers, Wake(s) \/ EndPoll(s) \/ Unsubscribe(s) PROVE HubInv'
  BY <1>7, PollStep, UnsubscribeStep
<1>8. CASE UNCHANGED vars
  BY <1>8, Stutter
<1> QED BY <1>1, <1>2, <1>3, <1>4, <1>5, <1>6, <1>7, <1>8 DEF Next

-----------------------------------------------------------------------------
(* A stream whose forwarder is parked with nothing to read, while nobody   *)
(* is inside a call, reads from the sender the map holds, to its end.      *)
LEMMA SettledStream ==
    ASSUME HubInv, NEW s \in Subscribers, Settled(s), fwd[s] # "finished"
    PROVE  /\ sub[s].pc = "open" /\ sub[s].sender = topic
           /\ \A k \in 1..Len(sent[sub[s].sender]) : k <= sub[s].pos
<1> DEFINE g == sub[s].sender
<1>1. fwd[s] = "parked" /\ ~Ready(s) /\ \A p \in Publishers : pub[p].pc = "idle"
  BY DEF Settled
<1>2. sub[s].pc = "open"
  BY <1>1 DEF HubInv, Kept, Stage
<1>3. ASSUME NEW t \in Subscribers PROVE sub[t].pc # "cloned"
  BY <1>3 DEF HubInv, Kept, Stage, HubTypes, Settled
<1>4. g = topic
  BY <1>1, <1>3 DEF Ready, Broker!SenderAlive
<1>5. sub[s].pos \in Nat /\ Len(sent[g]) \in Nat
  <2>1. g \in 1..MaxSenders
    BY <1>2 DEF HubInv, BrokerRely
  <2> QED BY <2>1, SMT DEF HubInv, BrokerRely
<1>6. ~(sub[s].pos < Len(sent[g]))
  BY <1>1 DEF Ready
<1>7. \A k \in 1..Len(sent[g]) : k <= sub[s].pos
  <2> HIDE DEF g
  <2> QED BY <1>5, <1>6, SMT
<1> QED BY <1>2, <1>4, <1>7

(* What was replayed below e and what was accounted for from e on is all;  *)
(* what is missing is not below e.                                         *)
LEMMA InvResume == HubInv => ResumeHasNoHole
<1> SUFFICES ASSUME HubInv, NEW s \in Subscribers, Settled(s), req[s].since > 0,
                    NEW o \in Publications, o > req[s].since, o >= req[s].floor, o < next_offset,
                    ~ \E i \in DOMAIN outbox[s] : outbox[s][i] = Publication(o)
             PROVE  /\ dropped[s] > 0 \/ fwd[s] = "finished"
                    /\ o > req[s].cursor
                    /\ \A i \in 1..req[s].replayed : outbox[s][i].offset < o
  BY DEF ResumeHasNoHole
<1>1. /\ outbox[s] \in Seq(Frame) /\ req[s].replayed \in Nat /\ Kept(s)
      /\ req[s].since \in Nat /\ req[s].floor \in Nat /\ req[s].cursor \in Nat
  BY ChannelFacts DEF HubInv, HubTypes, Offsets
<1>2. o \in Nat /\ next_offset \in Nat /\ dropped[s] \in Nat /\ Publications \subseteq Nat
  BY ChannelFacts DEF HubInv, BrokerRely
<1>3. req[s].pc \notin BeforeReplay
  BY DEF Settled, BeforeReplay
<1>4. PICK e \in 0..next_offset :
        /\ ReplayedTo(req[s], outbox[s], e)
        /\ sub[s].pc = "open" /\ sub[s].sender = topic =>
             \A x \in Publications : e <= x /\ x < next_offset =>
               Accounted(x, hub, pub, sub[s], sent, dropped[s], outbox[s])
  BY <1>1, <1>3 DEF Kept, Whole
<1>5. ~(o < e)
  <2> SUFFICES ASSUME o < e PROVE FALSE
    OBVIOUS
  <2>1. \E i \in 1..req[s].replayed : outbox[s][i] = Publication(o)
    BY <1>1, <1>2, <1>4 DEF ReplayedTo
  <2>2. req[s].replayed <= Len(outbox[s])
    BY <1>1 DEF Kept, Replayed
  <2> QED BY <1>1, <2>1, <2>2, SMT
<1>6. e <= o
  BY <1>2, <1>5, SMT
<1>7. o > req[s].cursor /\ \A i \in 1..req[s].replayed : outbox[s][i].offset < o
  <2>1. req[s].cursor < e /\ \A i \in 1..req[s].replayed : outbox[s][i].offset < e
    BY <1>4 DEF ReplayedTo
  <2>2. req[s].replayed <= Len(outbox[s])
    BY <1>1 DEF Kept, Replayed
  <2>3. \A i \in 1..req[s].replayed : outbox[s][i] \in Frame
    <3> DEFINE q == outbox[s]
               n == req[s].replayed
    <3>1. q \in Seq(Frame) /\ n \in Nat /\ n <= Len(q)
      BY <1>1, <2>2
    <3> HIDE DEF q, n
    <3>2. \A i \in 1..n : q[i] \in Frame
      BY <3>1, SMT
    <3> QED BY <3>2 DEF q, n
  <2>4. \A i \in 1..req[s].replayed : outbox[s][i].offset \in Nat
    BY <1>2, <2>3 DEF Frame
  <2> QED BY <1>1, <1>2, <1>6, <2>1, <2>4, SMT
<1>8. ASSUME ~(dropped[s] > 0), fwd[s] # "finished" PROVE FALSE
  <2>1. Accounted(o, hub, pub, sub[s], sent, dropped[s], outbox[s])
    BY <1>4, <1>6, <1>8, SettledStream
  <2>2. \A p \in Publishers : hub[p] # o /\ pub[p].pc # "send"
    BY DeliveryConstants DEF Settled
  <2>3. dropped[s] = 0
    BY <1>2, <1>8, SMT
  <2>4. \E i \in 1..Len(outbox[s]) : outbox[s][i] = Publication(o)
    BY <1>8, <2>1, <2>2, <2>3, SettledStream DEF Accounted
  <2> QED BY <1>1, <2>4, SMT
<1> QED BY <1>7, <1>8

(* SubscribeOk's offset is the cursor, which the replay reached.           *)
LEMMA InvAck == HubInv => AckCoversReplay
<1> SUFFICES ASSUME HubInv, NEW s \in Subscribers, NEW i \in DOMAIN outbox[s],
                    outbox[s][i].kind = "subscribe_ok", req[s].since > 0,
                    outbox[s][i].offset > req[s].since, outbox[s][i].offset >= req[s].floor
             PROVE  \E j \in 1..i : outbox[s][j] = Publication(outbox[s][i].offset)
  BY DEF AckCoversReplay
<1> DEFINE q == outbox[s]
           c == req[s].cursor
<1>1. /\ q \in Seq(Frame) /\ req[s].replayed \in Nat /\ c \in Publications /\ Kept(s)
      /\ req[s].since \in Nat /\ req[s].floor \in Nat /\ c \in Nat
  BY ChannelFacts DEF HubInv, HubTypes, Offsets
<1>2. i \in 1..Len(q)
  BY <1>1, SMT
<1>3. q[i].offset = c
  BY <1>1, <1>2 DEF Kept, Answer
<1>4. req[s].pc \notin BeforeReplay
  <2>1. q # <<>>
    BY <1>1, <1>2, SMT
  <2> QED BY <1>1, <2>1 DEF Kept, Answer
<1>5. PICK e \in 0..next_offset : ReplayedTo(req[s], q, e)
  BY <1>1, <1>4 DEF Kept, Whole
<1>6. PICK j \in 1..req[s].replayed : q[j] = Publication(c)
  BY <1>1, <1>3, <1>5 DEF ReplayedTo
<1>7. ~(i \in 1..req[s].replayed)
  BY <1>1 DEF Kept, Replayed
<1>8. j \in 1..i
  BY <1>1, <1>2, <1>6, <1>7, SMT
<1> QED BY <1>3, <1>6, <1>8

LEMMA InvNoRepeat == HubInv => NoRepeatWithinPath
  BY DEF HubInv, Kept, Replayed, Forwarded, NoRepeatWithinPath

-----------------------------------------------------------------------------
(* What the hub does to its components.                                    *)
ChannelCall ==
    \/ \E p \in Publishers : Channel!ReadClock(p, Payload) \/ Channel!OnPublish(p)
    \/ Channel!OnReplay

BrokerCall ==
    \/ \E p \in Publishers : \/ Broker!Send(p) \/ Broker!Reap(p)
                             \/ \E m \in Publications : Broker!BeginPublish(p, m)
    \/ \E s \in Subscribers : \/ Broker!SenderFor(s) \/ Broker!Attach(s) \/ Broker!Lag(s)
                              \/ Broker!Recv(s) \/ Broker!StreamEnds(s) \/ Broker!DropStream(s)

LEMMA HubCalls == [Next]_vars => [ChannelCall]_channel_vars /\ [BrokerCall]_broker_vars
<1> SUFFICES ASSUME [Next]_vars PROVE [ChannelCall]_channel_vars /\ [BrokerCall]_broker_vars
  OBVIOUS
<1>1. ASSUME NEW p \in Publishers, HandlePublish(p) \/ OnPublish(p)
      PROVE  ChannelCall /\ UNCHANGED broker_vars
  BY <1>1 DEF HandlePublish, OnPublish, ChannelCall
<1>2. ASSUME NEW p \in Publishers, BrokerPublish(p) \/ BrokerSend(p)
      PROVE  UNCHANGED channel_vars /\ BrokerCall
  BY <1>2 DEF BrokerPublish, BrokerSend, BrokerCall, Broker!BeginPublish
<1>3. ASSUME NEW s \in Subscribers,
             \/ \E since \in Publications : OnSubscribe(s, since)
             \/ Replay(s) \/ SpawnForwarder(s) \/ DeliverSubscribeOk(s) \/ Wake(s)
      PROVE  (UNCHANGED channel_vars \/ ChannelCall) /\ UNCHANGED broker_vars
  BY <1>3 DEF OnSubscribe, Replay, SpawnForwarder, DeliverSubscribeOk, Wake, ChannelCall
<1>4. ASSUME NEW s \in Subscribers, BrokerSubscribe(s) \/ Forward(s) \/ EndPoll(s) \/ Unsubscribe(s)
      PROVE  UNCHANGED channel_vars /\ (UNCHANGED broker_vars \/ BrokerCall)
  BY <1>4 DEF BrokerSubscribe, Forward, EndPoll, Unsubscribe, BrokerCall
<1>5. CASE UNCHANGED vars
  BY <1>5 DEF vars
<1> QED BY <1>1, <1>2, <1>3, <1>4, <1>5 DEF Next

-----------------------------------------------------------------------------
(* A replay that ends the log as the live ring does, and stops short of    *)
(* since only where the ring does, has every offset above since that the   *)
(* channel still has.                                                      *)
EndsTheLog(out, ring, since) ==
    /\ \A i \in 1..Len(out) : out[i].offset = next_offset - Len(out) + i - 1 /\ out[i].offset > since
    /\ since + 1 + Len(out) < next_offset => Len(out) = Len(ring)
    /\ Len(ring) <= next_offset
    /\ \A i \in 1..Len(ring) : ring[i].offset = next_offset - Len(ring) + i - 1

LEMMA AnsweredInRange ==
    ASSUME next_offset \in 0..U64Max, next_offset <= Cardinality(Publications),
           NEW since \in Publications, since < next_offset
    PROVE  next_offset \in Nat /\ next_offset < U64Max /\ since \in 0..next_offset
  BY OffsetFacts, SMT

LEMMA SuffixCovers ==
    ASSUME next_offset \in Nat, next_offset <= Cardinality(Publications),
           NEW since \in Publications, since < next_offset, NEW E,
           Channel!ReplaySince(since) \in Seq(E), Channel!EvictExpired(entries, clock) \in Seq(E),
           EndsTheLog(Channel!ReplaySince(since), Channel!EvictExpired(entries, clock), since)
    PROVE  ReplayCovers(since)
<1> DEFINE out == Channel!ReplaySince(since)
           ring == Channel!EvictExpired(entries, clock)
           m == Len(out)
           l == Len(ring)
           n == next_offset
           f == Floor
           P == Cardinality(Publications)
<1>1. /\ n \in Nat /\ n <= P /\ P \in Nat /\ Publications \subseteq Nat /\ since \in Nat
      /\ \A o \in Nat : o \in Publications <=> o < P
  BY OffsetFacts
<1>2. /\ \A i \in 1..m : out[i].offset = n - m + i - 1 /\ out[i].offset > since
      /\ since + 1 + m < n => m = l
      /\ l <= n
      /\ \A i \in 1..l : ring[i].offset = n - l + i - 1
  BY DEF EndsTheLog
<1>3. out \in Seq(E) /\ ring \in Seq(E)
  OBVIOUS
<1>4. f = IF ring = <<>> THEN n ELSE ring[1].offset
  BY DEF Floor
<1> HIDE DEF out, ring, n, f, P
<1>5. m \in Nat /\ l \in Nat /\ (ring = <<>> <=> l = 0)
  BY <1>3, SMT
<1> HIDE DEF m, l
<1>6. l > 0 => ring[1].offset = n - l
  BY <1>1, <1>2, <1>5, SMT
<1>7. f = n - l
  BY <1>1, <1>4, <1>5, <1>6, SMT
<1>8. f \in Offsets
  <2>1. f \in Nat /\ f <= P
    BY <1>1, <1>2, <1>5, <1>7, SMT
  <2>2. f \in Publications \/ f = P
    BY <1>1, <2>1, SMT
  <2> QED BY <2>2 DEF Offsets, P
<1>9. ASSUME NEW i \in 1..m PROVE out[i].offset \in Publications /\ out[i].offset < n
  <2> DEFINE o == out[i].offset
  <2>1. o = n - m + i - 1 /\ o > since
    BY <1>2
  <2> HIDE DEF o
  <2>2. o \in Nat /\ o < P /\ o < n
    BY <1>1, <1>5, <2>1, SMT
  <2> QED BY <1>1, <2>2 DEF o
<1>10. ASSUME NEW i \in 1..m, NEW j \in 1..m, i < j PROVE out[i].offset < out[j].offset
  <2>1. out[i].offset = n - m + i - 1 /\ out[j].offset = n - m + j - 1
    BY <1>2
  <2> QED BY <1>1, <1>5, <1>10, <2>1, SMT
<1>11. ASSUME NEW o \in Publications, since < o, f <= o, o < n
       PROVE  \E i \in 1..m : out[i].offset = o
  <2> DEFINE i == o - n + m + 1
  <2>1. n - m <= o
    BY <1>1, <1>2, <1>5, <1>7, <1>11, SMT
  <2>2. i \in 1..m /\ n - m + i - 1 = o
    BY <1>1, <1>5, <1>11, <2>1, SMT
  <2> HIDE DEF i
  <2> QED BY <1>2, <2>2
<1> QED BY <1>2, <1>5, <1>8, <1>9, <1>10, <1>11 DEF ReplayCovers, out, m, f, n

-----------------------------------------------------------------------------
(* The components' own invariants.                                         *)
ChannelKept == INSTANCE PubSubChannelProofs
                 WITH Payloads <- {Payload}, MaxAccepted <- Cardinality(Publications),
                      HistoryTtl <- 0, MaxTime <- 0
BrokerKept == INSTANCE MemoryBrokerProofs

IInv == ChannelKept!IInv /\ BrokerKept!IInv /\ HubInv

(* The constants of the components are within their modules' assumptions.  *)
LEMMA ComponentConstants ==
    /\ HistorySize \in Nat \ {0} /\ 0 \in Nat /\ U64Max \in Nat /\ Cardinality(Publications) \in Nat
    /\ RingSize \in Nat \ {0} /\ MaxSenders \in Nat
  BY DeliveryConstants

(* The two instances of the channel kind evict alike.                      *)
LEMMA SameEviction ==
    ASSUME NEW es, NEW now
    PROVE  Channel!EvictExpired(es, now) = ChannelKept!EvictExpired(es, now)
<1>1. Channel!ExpiredPrefix(es, now) = ChannelKept!ExpiredPrefix(es, now)
  <2>1. \A e : Channel!Expired(e, now) <=> ChannelKept!Expired(e, now)
    BY DEF Channel!Expired, ChannelKept!Expired
  <2> QED BY <2>1 DEF Channel!ExpiredPrefix, ChannelKept!ExpiredPrefix
<1>2. \A S : Channel!Cardinality(S) = ChannelKept!Cardinality(S)
  BY DEF Channel!Cardinality, ChannelKept!Cardinality
<1> QED BY <1>1, <1>2 DEF Channel!EvictExpired, ChannelKept!EvictExpired

(* What the hub does to a component is a step of the component.            *)
LEMMA ChannelStep ==
    ASSUME ChannelKept!IInv, [ChannelCall]_channel_vars
    PROVE  ChannelKept!IInv'
<1>1. \A p : Channel!ReadClock(p, Payload) => ChannelKept!ReadClock(p, Payload)
  BY DEF Channel!ReadClock, Channel!Idle, ChannelKept!ReadClock, ChannelKept!Idle
<1>2. \A p : Channel!OnPublish(p) => ChannelKept!OnPublish(p)
  BY SameEviction DEF Channel!OnPublish, Channel!Idle, Channel!TrimToSize, Channel!SaturatingSucc,
         ChannelKept!OnPublish, ChannelKept!Idle, ChannelKept!TrimToSize, ChannelKept!SaturatingSucc
<1>3. Channel!OnReplay => ChannelKept!OnReplay
  BY SameEviction DEF Channel!OnReplay, ChannelKept!OnReplay
<1>4. UNCHANGED channel_vars => UNCHANGED ChannelKept!vars
  BY DEF channel_vars, ChannelKept!vars
<1>5. [ChannelKept!Next]_(ChannelKept!vars)
  <2> Payload \in {Payload}
    OBVIOUS
  <2> QED BY <1>1, <1>2, <1>3, <1>4 DEF ChannelKept!Next, ChannelCall
<1> QED BY <1>5, ComponentConstants, ChannelKept!NextIInv

LEMMA BrokerStep ==
    ASSUME BrokerKept!IInv, [BrokerCall]_broker_vars
    PROVE  BrokerKept!IInv'
<1>1. ASSUME NEW p \in Publishers
      PROVE  /\ Broker!Send(p) => BrokerKept!Send(p)
             /\ Broker!Reap(p) => BrokerKept!Reap(p)
             /\ \A m : Broker!BeginPublish(p, m) => BrokerKept!BeginPublish(p, m)
  BY DEF Broker!Send, Broker!Reap, Broker!BeginPublish, Broker!Receivers, Broker!Open, Broker!NoCall,
         Broker!Absent, BrokerKept!Send, BrokerKept!Reap, BrokerKept!BeginPublish,
         BrokerKept!Receivers, BrokerKept!Open, BrokerKept!NoCall, BrokerKept!Absent
<1>2. ASSUME NEW s \in Subscribers
      PROVE  /\ Broker!SenderFor(s) => BrokerKept!SenderFor(s)
             /\ Broker!Attach(s) => BrokerKept!Attach(s)
             /\ Broker!DropStream(s) => BrokerKept!DropStream(s)
  BY DEF Broker!SenderFor, Broker!Attach, Broker!DropStream, Broker!Open, Broker!NoStream,
         Broker!Absent, BrokerKept!SenderFor, BrokerKept!Attach, BrokerKept!DropStream,
         BrokerKept!Open, BrokerKept!NoStream, BrokerKept!Absent
<1>3. ASSUME NEW s \in Subscribers
      PROVE  /\ Broker!Lag(s) => BrokerKept!Lag(s)
             /\ Broker!Recv(s) => BrokerKept!Recv(s)
             /\ Broker!StreamEnds(s) => BrokerKept!StreamEnds(s)
  BY DEF Broker!Lag, Broker!Recv, Broker!StreamEnds, Broker!Open, Broker!Oldest, Broker!NoStream,
         Broker!Absent, Broker!SenderAlive, BrokerKept!Lag, BrokerKept!Recv, BrokerKept!StreamEnds,
         BrokerKept!Open, BrokerKept!Oldest, BrokerKept!NoStream, BrokerKept!Absent,
         BrokerKept!SenderAlive
<1>4. UNCHANGED broker_vars => UNCHANGED BrokerKept!vars
  BY DEF broker_vars, BrokerKept!vars
<1>5. [BrokerKept!Next]_(BrokerKept!vars)
  BY <1>1, <1>2, <1>3, <1>4 DEF BrokerKept!Next, BrokerKept!Poll, BrokerCall
<1> QED BY <1>5, ComponentConstants, BrokerKept!NextIInv

(* What the hub relies on is part of the broker's invariant ...             *)
LEMMA BrokerReliable == BrokerKept!IInv => BrokerRely
<1> SUFFICES ASSUME BrokerKept!IInv PROVE BrokerRely
  OBVIOUS
<1> USE ComponentConstants DEF BrokerKept!IInv, BrokerKept!Senders, BrokerKept!Open
<1>1. /\ created \in Nat /\ topic \in 0..created /\ MaxSenders \in Nat
      /\ sent \in [1..MaxSenders -> Seq(Publications)]
      /\ got \in [Subscribers -> Seq(Publications)]
      /\ dropped \in [Subscribers -> Nat]
  BY SMT DEF BrokerKept!TypeOK
<1>2. /\ pub \in [Publishers -> [pc : {"idle", "send", "reap"}, sender : 0..created,
                                 publication : Publications \union {None}]]
      /\ sub \in [Subscribers -> [pc : {"closed", "cloned", "open"}, sender : 0..created,
                                  start : Nat, pos : Nat]]
      /\ \A s \in Subscribers : sub[s].pc = "open" => sub[s].pos <= Len(sent[sub[s].sender])
  BY DEF BrokerKept!TypeOK
<1>3. /\ \A s \in Subscribers : sub[s].pc # "closed" => sub[s].sender \in 1..MaxSenders
      /\ \A p \in Publishers : pub[p].pc # "idle" => pub[p].sender \in 1..MaxSenders
  BY DEF BrokerKept!Attached
<1>4. \A g \in 1..MaxSenders : \A k, l \in 1..Len(sent[g]) : sent[g][k] = sent[g][l] => k = l
  BY DEF BrokerKept!SentOnce
<1> QED BY <1>1, <1>2, <1>3, <1>4 DEF BrokerRely

(* The two instances of the channel kind replay alike.                     *)
LEMMA SameReplay ==
    ASSUME NEW since
    PROVE  Channel!ReplaySince(since) = ChannelKept!ReplaySince(since)
  BY DEF Channel!ReplaySince, ChannelKept!ReplaySince, Channel!EvictExpired, ChannelKept!EvictExpired,
         Channel!ExpiredPrefix, ChannelKept!ExpiredPrefix, Channel!Expired, ChannelKept!Expired,
         Channel!Kth, ChannelKept!Kth, Channel!Cardinality, ChannelKept!Cardinality

(* ... and follows from the channel kind's.                                *)
LEMMA ReplayReliable ==
    ASSUME ChannelKept!IInv, next_offset <= Cardinality(Publications),
           NEW since \in Publications, since < next_offset
    PROVE  ReplayCovers(since)
<1> DEFINE out == Channel!ReplaySince(since)
           ring == Channel!EvictExpired(entries, clock)
           Entry == ChannelKept!Entry
<1>1. next_offset \in 0..U64Max
  BY DEF ChannelKept!IInv, ChannelKept!TypeOK
<1>2. next_offset \in Nat /\ next_offset < U64Max /\ since \in 0..next_offset
  BY <1>1, AnsweredInRange
<1>3. out = ChannelKept!ReplaySince(since) /\ ring = ChannelKept!EvictExpired(entries, clock)
  BY SameReplay, SameEviction
<1> HIDE DEF out, ring, Entry
<1>4. ring \in Seq(Entry) /\ ChannelKept!Latest(ring, next_offset, accepted)
  <2>1. /\ ChannelKept!EvictExpired(entries, clock) \in Seq(ChannelKept!Entry)
        /\ ChannelKept!Latest(ChannelKept!EvictExpired(entries, clock), next_offset, accepted)
    BY <1>2, ComponentConstants, ChannelKept!LiveRingIsLatest
  <2> QED BY <1>3, <2>1 DEF Entry
<1>5. out \in Seq(Entry)
  <2>1. PICK a \in 0..Len(ChannelKept!EvictExpired(entries, clock)) :
          ChannelKept!SuffixOf(ChannelKept!ReplaySince(since), ChannelKept!EvictExpired(entries, clock), a)
    BY <1>2, ComponentConstants, ChannelKept!ReplayIsSuffix
  <2>2. ChannelKept!ReplaySince(since) \in Seq(ChannelKept!Entry)
    BY <2>1 DEF ChannelKept!SuffixOf
  <2> QED BY <1>3, <2>2 DEF Entry
<1>6. /\ \A i \in 1..Len(out) : out[i].offset = next_offset - Len(out) + i - 1 /\ out[i].offset > since
      /\ since + 1 + Len(out) < next_offset => Len(out) = Len(ring)
  <2>1. ChannelKept!ReplayIsRetainedTail
    BY ComponentConstants, ChannelKept!ReplayTail
  <2> QED BY <1>2, <1>3, <2>1 DEF ChannelKept!ReplayIsRetainedTail
<1>7. /\ Len(ring) <= next_offset
      /\ \A i \in 1..Len(ring) : ring[i].offset = next_offset - Len(ring) + i - 1
  BY <1>4 DEF ChannelKept!Latest
<1>8. EndsTheLog(out, ring, since)
  BY <1>6, <1>7 DEF EndsTheLog
<1> QED BY <1>2, <1>4, <1>5, <1>8, SuffixCovers DEF out, ring

LEMMA ChannelReliable == ChannelKept!IInv => ChannelRely
<1> SUFFICES ASSUME ChannelKept!IInv PROVE ChannelRely
  OBVIOUS
<1>1. /\ next_offset \in 0..U64Max /\ clock \in Nat
      /\ calls \in [Publishers -> Channel!Call \union {Channel!Idle}]
  BY DEF ChannelKept!IInv, ChannelKept!TypeOK, ChannelKept!Idle, ChannelKept!Call, Channel!Idle, Channel!Call
<1>2. next_offset < U64Max => Len(accepted) = next_offset
  BY DEF ChannelKept!IInv, ChannelKept!HistoryIsLatest
<1> QED BY <1>1, <1>2, ReplayReliable DEF ChannelRely

-----------------------------------------------------------------------------
LEMMA InitIInv == Init => IInv
<1> SUFFICES ASSUME Init PROVE IInv
  OBVIOUS
<1>1. ChannelKept!IInv
  <2>1. ChannelKept!Init
    BY DEF Init, Channel!Init, Channel!Idle, ChannelKept!Init, ChannelKept!Idle
  <2> QED BY <2>1, ComponentConstants, ChannelKept!InitIInv
<1>2. BrokerKept!IInv
  <2>1. BrokerKept!Init
    BY DEF Init, Broker!Init, Broker!Senders, Broker!NoCall, Broker!NoStream, Broker!Absent,
           BrokerKept!Init, BrokerKept!Senders, BrokerKept!NoCall, BrokerKept!NoStream, BrokerKept!Absent
  <2> QED BY <2>1, ComponentConstants, BrokerKept!InitIInv
<1> QED BY <1>1, <1>2, ChannelReliable, BrokerReliable, HubInit DEF IInv

LEMMA NextIInv == IInv /\ [Next]_vars => IInv'
<1> SUFFICES ASSUME IInv, [Next]_vars PROVE IInv'
  OBVIOUS
<1>1. ChannelKept!IInv' /\ BrokerKept!IInv'
  BY HubCalls, ChannelStep, BrokerStep DEF IInv
<1>2. ChannelRely' /\ BrokerRely'
  BY <1>1, ChannelReliable, BrokerReliable, PTL
<1> QED BY <1>1, <1>2, HubNext DEF IInv

(* The hub, the channel kind and the broker keep the invariant together.   *)
THEOREM DeliveryInvariant == Spec => []IInv
  BY InitIInv, NextIInv, PTL DEF Spec

(* handle_subscribe opens the broker's stream before it replays, so no     *)
(* publication falls between the two: a resumed subscription has every     *)
(* offset the history still held and every later one, whatever publishers  *)
(* and other subscribers did in between, unless its stream lagged or was   *)
(* orphaned by a reap and ended; even then it has the whole replay.        *)
THEOREM ResumeTheorem == Spec => []ResumeHasNoHole
  BY DeliveryInvariant, InvResume, PTL DEF IInv

(* The frames of the replay come first and rise from since_offset on, and  *)
(* the forwarder sends an offset once: only where replay and stream        *)
(* overlap does a session see an offset again.                             *)
THEOREM NoRepeatTheorem == Spec => []NoRepeatWithinPath
  BY DeliveryInvariant, InvNoRepeat, PTL DEF IInv

(* The cursor that handle_subscribe took before it opened the stream, and  *)
(* returns in SubscribeOk, is in the replay that went out before it,       *)
(* unless the history had dropped it or the client had it already.         *)
THEOREM AckTheorem == Spec => []AckCoversReplay
  BY DeliveryInvariant, InvAck, PTL DEF IInv
===============================================================================
