-------------------------- MODULE MemoryBrokerProofs --------------------------
(***************************************************************************)
(* Theorems about MemoryBroker for any number of publishers, subscribers,  *)
(* publications and broadcast channels and every ring capacity: streams    *)
(* account for what they lose, reaping spares open streams, and together   *)
(* they implement the contract of the Broker trait.                        *)
(***************************************************************************)
EXTENDS MemoryBroker, TLAPS

(* Calls and streams name channels that exist; a subscribe that has not    *)
(* attached its receiver yet has yielded and lost nothing.                 *)
Attached ==
    /\ \A p \in Publishers : pub[p].pc # "idle" => pub[p].sender \in Senders
    /\ \A s \in Subscribers :
         /\ sub[s].pc # "closed" => sub[s].sender \in Senders
         /\ sub[s].pc = "cloned" => got[s] = <<>> /\ dropped[s] = 0

(* A publication is sent once, on one channel: no publisher holds one that *)
(* was sent, and no two hold the same.                                     *)
SentOnce ==
    /\ \A g, h \in Senders : \A k \in 1..Len(sent[g]), l \in 1..Len(sent[h]) :
         sent[g][k] = sent[h][l] => g = h /\ k = l
    /\ \A g \in Senders : \A k \in 1..Len(sent[g]) : sent[g][k] \in published
    /\ \A p \in Publishers : pub[p].pc = "send" =>
         /\ pub[p].publication \in published
         /\ \A g \in Senders : \A k \in 1..Len(sent[g]) : sent[g][k] # pub[p].publication
    /\ \A p, q \in Publishers : p # q /\ pub[p].pc = "send" /\ pub[q].pc = "send"
         => pub[p].publication # pub[q].publication

(* Every value of q is among the first n of log.                           *)
Behind(q, log, n) == \A i \in 1..Len(q) : \E k \in 1..n : log[k] = q[i]

(* Any two values of q come from one of the logs, in its order.            *)
FromOneLog(q, logs) ==
    \A i, j \in 1..Len(q) : i < j =>
      \E g \in Senders : \E k, l \in 1..Len(logs[g]) :
        k < l /\ logs[g][k] = q[i] /\ logs[g][l] = q[j]

(* What a stream yielded comes from one channel in its order and lies      *)
(* behind its receiver's position while it is open.                        *)
InOrder(s) ==
    /\ Open(s) => Behind(got[s], sent[sub[s].sender], sub[s].pos)
    /\ FromOneLog(got[s], sent)

YieldedInOrder == \A s \in Subscribers : InOrder(s)

IInv == TypeOK /\ Attached /\ LossIsCounted /\ SentOnce /\ YieldedInOrder

(* No channel exists, nothing was sent and every stream is closed.         *)
LEMMA InitIInv == Init => IInv
<1> SUFFICES ASSUME Init PROVE IInv
  OBVIOUS
<1> USE BrokerConstants DEF Init, NoStream, NoCall, Absent, Open
<1>1. TypeOK
  BY DEF TypeOK
<1>2. Attached /\ LossIsCounted
  BY DEF Attached, LossIsCounted
<1>3. SentOnce
  BY DEF SentOnce
<1>4. YieldedInOrder
  BY DEF YieldedInOrder, InOrder, FromOneLog
<1> QED BY <1>1, <1>2, <1>3, <1>4 DEF IInv

(* SenderFor: the subscriber starts afresh on the channel of the map, which *)
(* it creates if there is none.                                            *)
LEMMA SenderForIInv ==
    ASSUME IInv, NEW s \in Subscribers, SenderFor(s)
    PROVE  IInv'
<1> USE BrokerConstants DEF IInv
<1>1. /\ created' \in 0..MaxSenders /\ created <= created'
      /\ topic' \in 1..created'
  BY DEF SenderFor, TypeOK, Absent
<1>2. /\ got' = [got EXCEPT ![s] = <<>>] /\ dropped' = [dropped EXCEPT ![s] = 0]
      /\ UNCHANGED <<sent, published, pub>>
  BY DEF SenderFor
<1>3. \A t \in Subscribers : t # s => sub'[t] = sub[t] /\ got'[t] = got[t] /\ dropped'[t] = dropped[t]
  BY DEF SenderFor, TypeOK
<1>4. /\ sub'[s].pc = "cloned" /\ sub'[s].sender = topic' /\ got'[s] = <<>> /\ dropped'[s] = 0
  BY DEF SenderFor, TypeOK, NoStream
<1>5. TypeOK'
  <2>1. created \in Nat /\ created' \in Nat /\ created <= created' /\ 0..created \subseteq 0..created'
    BY <1>1 DEF TypeOK
  <2>2. pub' \in [Publishers -> [pc : {"idle", "send", "reap"}, sender : 0..created',
                              publication : Publications \union {None}]]
    BY <1>2, <2>1 DEF TypeOK
  <2>3. sub' \in [Subscribers -> [pc : {"closed", "cloned", "open"}, sender : 0..created',
                               start : Nat, pos : Nat]]
    <3> DEFINE R == [pc : {"closed", "cloned", "open"}, sender : 0..created', start : Nat, pos : Nat]
    <3>1. \A t \in Subscribers : sub[t] \in R
      BY <2>1 DEF TypeOK
    <3>2. [NoStream EXCEPT !.pc = "cloned", !.sender = topic'] \in R
      <4>1. NoStream \in R /\ topic' \in 0..created'
        BY <1>1, <2>1 DEF NoStream, Absent
      <4> QED BY <4>1, Zenon
    <3> HIDE DEF R
    <3>3. sub' \in [Subscribers -> R]
      BY <3>1, <3>2 DEF SenderFor, TypeOK
    <3> QED BY <3>3 DEF R
  <2>4. \A t \in Subscribers : Open(t)' => sub'[t].pos <= Len(sent'[sub'[t].sender])
    BY <1>2, <1>3, <1>4, Zenon DEF TypeOK, Open
  <2>5. got' \in [Subscribers -> Seq(Publications)] /\ dropped' \in [Subscribers -> Nat]
    BY <1>2 DEF TypeOK
  <2> QED BY <1>1, <1>2, <2>2, <2>3, <2>4, <2>5, SMTT(20) DEF TypeOK
<1>6. Attached'
  <2>1. topic' \in Senders
    BY <1>1 DEF Senders
  <2> QED BY <1>2, <1>3, <1>4, <2>1 DEF Attached
<1>7. LossIsCounted'
  BY <1>2, <1>3, <1>4 DEF LossIsCounted, Open
<1>8. SentOnce'
  BY <1>2 DEF SentOnce
<1>9. YieldedInOrder'
  <2>1. InOrder(s)'
    BY <1>4 DEF InOrder, Open, FromOneLog
  <2>2. ASSUME NEW t \in Subscribers, t # s PROVE InOrder(t)'
    BY <1>2, <1>3, <2>2 DEF YieldedInOrder, InOrder, Open
  <2> QED BY <2>1, <2>2 DEF YieldedInOrder
<1> QED BY <1>5, <1>6, <1>7, <1>8, <1>9

(* What every subscriber must keep: the conjuncts of the invariant that    *)
(* speak of its stream.                                                    *)
StreamOK(s) ==
    /\ Open(s) => sub[s].pos <= Len(sent[sub[s].sender])
    /\ sub[s].pc # "closed" => sub[s].sender \in Senders
    /\ sub[s].pc = "cloned" => got[s] = <<>> /\ dropped[s] = 0
    /\ Open(s) =>
         /\ sub[s].pos = sub[s].start + Len(got[s]) + dropped[s]
         /\ dropped[s] = 0 => got[s] = SubSeq(sent[sub[s].sender], sub[s].start + 1, sub[s].pos)
    /\ InOrder(s)

(* A poll, an attach or a drop moves one subscriber and no channel: it is  *)
(* enough to look at that subscriber.                                      *)
LEMMA SubscriberStep ==
    ASSUME IInv, NEW s \in Subscribers, UNCHANGED <<created, topic, sent, published, pub>>,
           sub' \in [Subscribers -> [pc : {"closed", "cloned", "open"}, sender : 0..created,
                                     start : Nat, pos : Nat]],
           got' \in [Subscribers -> Seq(Publications)], dropped' \in [Subscribers -> Nat],
           \A t \in Subscribers : t # s => sub'[t] = sub[t] /\ got'[t] = got[t] /\ dropped'[t] = dropped[t],
           StreamOK(s)'
    PROVE  IInv'
<1> USE DEF IInv
<1>1. ASSUME NEW t \in Subscribers PROVE StreamOK(t)'
  <2>1. CASE t = s
    BY <2>1
  <2>2. CASE t # s
    <3>1. StreamOK(t)
      BY Zenon DEF StreamOK, TypeOK, Attached, LossIsCounted, YieldedInOrder
    <3> QED BY <2>2, <3>1, Zenon DEF StreamOK, InOrder, Open
  <2> QED BY <2>1, <2>2
<1>2. TypeOK'
  BY <1>1 DEF TypeOK, StreamOK
<1>3. Attached'
  BY <1>1 DEF Attached, StreamOK
<1>4. LossIsCounted'
  BY <1>1 DEF LossIsCounted, StreamOK
<1>5. SentOnce'
  BY DEF SentOnce
<1>6. YieldedInOrder'
  BY <1>1 DEF YieldedInOrder, StreamOK
<1> QED BY <1>2, <1>3, <1>4, <1>5, <1>6

(* Attach: the receiver starts at the tail, with nothing yielded or lost.  *)
LEMMA AttachIInv ==
    ASSUME IInv, NEW s \in Subscribers, Attach(s)
    PROVE  IInv'
<1> USE DEF IInv
<1> DEFINE g == sub[s].sender
           n == Len(sent[g])
<1>1. g \in Senders /\ n \in Nat /\ got[s] = <<>> /\ dropped[s] = 0
  BY DEF Attach, Attached, TypeOK
<1>2. /\ sub'[s].pc = "open" /\ sub'[s].sender = g /\ sub'[s].start = n /\ sub'[s].pos = n
      /\ \A t \in Subscribers : t # s => sub'[t] = sub[t]
  BY DEF Attach, TypeOK
<1>3. sub' \in [Subscribers -> [pc : {"closed", "cloned", "open"}, sender : 0..created,
                                start : Nat, pos : Nat]]
  <2> DEFINE R == [pc : {"closed", "cloned", "open"}, sender : 0..created, start : Nat, pos : Nat]
             r == [sub[s] EXCEPT !.pc = "open", !.start = n, !.pos = n]
  <2>1. sub \in [Subscribers -> R]
    BY DEF TypeOK
  <2>2. sub[s] \in R
    BY <2>1
  <2> HIDE DEF n
  <2>3. r \in R
    BY <1>1, <2>2, Zenon
  <2>4. sub' = [sub EXCEPT ![s] = r]
    BY <2>1, Zenon DEF Attach, n
  <2> HIDE DEF R, r
  <2>5. sub' \in [Subscribers -> R]
    BY <2>1, <2>3, <2>4
  <2> QED BY <2>5 DEF R
<1>4. UNCHANGED <<created, topic, sent, published, pub, got, dropped>>
  BY DEF Attach
<1>5. StreamOK(s)'
  <2>1. SubSeq(sent[g], n + 1, n) = <<>> /\ Len(<<>>) = 0
    BY <1>1 DEF TypeOK
  <2>2. InOrder(s)'
    BY <1>1, <1>4 DEF InOrder, Behind, FromOneLog
  <2> HIDE DEF n, g
  <2>3. n <= Len(sent[g]) /\ n = n + 0 + 0
    BY <1>1 DEF n
  <2> QED BY <1>1, <1>2, <1>4, <2>1, <2>2, <2>3, Zenon DEF StreamOK, Open
<1> HIDE DEF IInv, g, n
<1>6. got' \in [Subscribers -> Seq(Publications)] /\ dropped' \in [Subscribers -> Nat]
  BY <1>4 DEF IInv, TypeOK
<1> QED BY <1>2, <1>3, <1>4, <1>5, <1>6, SubscriberStep, Zenon

(* Dropping a stream, or its end, leaves what it yielded where it is.      *)
LEMMA CloseIInv ==
    ASSUME IInv, NEW s \in Subscribers, StreamEnds(s) \/ DropStream(s)
    PROVE  IInv'
<1>1. sub' = [sub EXCEPT ![s] = NoStream] /\ UNCHANGED <<created, topic, sent, published, pub, got, dropped>>
  BY DEF StreamEnds, DropStream
<1>2. NoStream \in [pc : {"closed", "cloned", "open"}, sender : 0..created, start : Nat, pos : Nat]
  BY BrokerConstants DEF NoStream, Absent, IInv, TypeOK
<1>3. sub' \in [Subscribers -> [pc : {"closed", "cloned", "open"}, sender : 0..created,
                                start : Nat, pos : Nat]]
  BY <1>1, <1>2 DEF IInv, TypeOK
<1>4. sub'[s].pc = "closed" /\ \A t \in Subscribers : t # s => sub'[t] = sub[t]
  BY <1>1 DEF IInv, TypeOK, NoStream
<1>5. InOrder(s)'
  BY <1>1, <1>4 DEF IInv, YieldedInOrder, InOrder, Open
<1>6. StreamOK(s)'
  BY <1>4, <1>5 DEF StreamOK, Open
<1>7. got' \in [Subscribers -> Seq(Publications)] /\ dropped' \in [Subscribers -> Nat]
  BY <1>1 DEF IInv, TypeOK
<1> QED BY <1>1, <1>3, <1>4, <1>6, <1>7, SubscriberStep, SMTT(20)

(* Lagged: the position jumps to the oldest value of the ring and the jump *)
(* is counted.                                                             *)
LEMMA LagIInv ==
    ASSUME IInv, NEW s \in Subscribers, Lag(s)
    PROVE  IInv'
<1> DEFINE g == sub[s].sender
           o == Oldest(g)
           pos == sub[s].pos
           R == [pc : {"closed", "cloned", "open"}, sender : 0..created, start : Nat, pos : Nat]
<1>1. Open(s) /\ pos < o /\ sub' = [sub EXCEPT ![s].pos = o]
  BY DEF Lag
<1>2. /\ UNCHANGED <<created, topic, sent, published, pub, got>>
      /\ dropped' = [dropped EXCEPT ![s] = @ + (o - pos)]
  BY DEF Lag
<1>3. sub \in [Subscribers -> R] /\ got \in [Subscribers -> Seq(Publications)]
      /\ dropped \in [Subscribers -> Nat]
  BY DEF IInv, TypeOK
<1>4. g \in Senders /\ Len(sent[g]) \in Nat /\ pos \in Nat /\ sub[s].start \in Nat
      /\ dropped[s] \in Nat /\ Len(got[s]) \in Nat
  BY <1>1, <1>3 DEF IInv, TypeOK, Attached, Open
<1>5. o \in Nat /\ o <= Len(sent[g])
  BY <1>4, BrokerConstants DEF Oldest
<1>6. pos = sub[s].start + Len(got[s]) + dropped[s] /\ InOrder(s)
  BY <1>1 DEF IInv, LossIsCounted, YieldedInOrder
<1> HIDE DEF o
<1>7. sub' \in [Subscribers -> R]
  BY <1>1, <1>3, <1>5, Zenon
<1>8. /\ sub'[s].pc = "open" /\ sub'[s].sender = g /\ sub'[s].start = sub[s].start /\ sub'[s].pos = o
      /\ \A t \in Subscribers : t # s => sub'[t] = sub[t] /\ dropped'[t] = dropped[t]
      /\ dropped'[s] = dropped[s] + (o - pos)
  BY <1>1, <1>2, <1>3 DEF Open
<1> HIDE DEF R
<1>9. dropped' \in [Subscribers -> Nat] /\ dropped'[s] # 0
      /\ o = sub[s].start + Len(got[s]) + dropped'[s]
  <2> DEFINE st == sub[s].start
             n == Len(got[s])
             d == dropped[s]
  <2>1. pos = st + n + d /\ dropped'[s] = d + (o - pos) /\ {st, n, d, pos, o} \subseteq Nat /\ pos < o
    BY <1>1, <1>4, <1>5, <1>6, <1>8
  <2> HIDE DEF st, n, d, pos
  <2>2. d + (o - pos) \in Nat /\ d + (o - pos) # 0 /\ o = st + n + (d + (o - pos))
    BY <2>1
  <2>3. dropped' \in [Subscribers -> Nat]
    BY <1>2, <1>3, <2>2 DEF d
  <2> QED BY <2>1, <2>2, <2>3 DEF st, n
<1>10. StreamOK(s)'
  <2>1. Behind(got[s], sent[g], pos) /\ FromOneLog(got[s], sent)
    BY <1>1, <1>6 DEF InOrder
  <2>2. 1..pos \subseteq 1..o
    BY <1>1, <1>4, <1>5
  <2>3. Behind(got[s], sent[g], o)
    BY <2>1, <2>2 DEF Behind
  <2> QED BY <1>2, <1>4, <1>5, <1>8, <1>9, <2>1, <2>3 DEF StreamOK, Open, InOrder
<1> HIDE DEF g, pos
<1> QED BY <1>2, <1>3, <1>7, <1>8, <1>9, <1>10, SubscriberStep, Zenon DEF R

(* One more value of a log extends the piece of it that was yielded.       *)
LEMMA YieldNext ==
    ASSUME NEW log \in Seq(Publications), NEW q \in Seq(Publications),
           NEW a \in Nat, NEW n \in Nat, a <= n, n < Len(log), q = SubSeq(log, a + 1, n)
    PROVE  Append(q, log[n + 1]) = SubSeq(log, a + 1, n + 1)
<1>1. a + 1 \in 1..(Len(log) + 1) /\ a + 1 \in 1..Len(log) /\ n + 1 \in (a + 1)..Len(log)
  OBVIOUS
<1>2. SubSeq(log, a + 1, n + 1) = Append(SubSeq(log, a + 1, (n + 1) - 1), log[n + 1])
  BY <1>1
<1>3. (n + 1) - 1 = n
  OBVIOUS
<1> QED BY <1>2, <1>3

(* Recv: the next value of the channel is yielded.                         *)
LEMMA RecvIInv ==
    ASSUME IInv, NEW s \in Subscribers, Recv(s)
    PROVE  IInv'
<1> DEFINE g == sub[s].sender
           log == sent[g]
           q == got[s]
           pos == sub[s].pos
           R == [pc : {"closed", "cloned", "open"}, sender : 0..created, start : Nat, pos : Nat]
<1>1. Open(s) /\ pos < Len(log) /\ sub' = [sub EXCEPT ![s].pos = pos + 1]
  BY DEF Recv
<1>2. /\ UNCHANGED <<created, topic, sent, published, pub, dropped>>
      /\ got' = [got EXCEPT ![s] = Append(q, log[pos + 1])]
  BY DEF Recv
<1>3. /\ sub \in [Subscribers -> R] /\ got \in [Subscribers -> Seq(Publications)]
      /\ dropped \in [Subscribers -> Nat] /\ sent \in [Senders -> Seq(Publications)]
  BY DEF IInv, TypeOK
<1>4. /\ g \in Senders /\ log \in Seq(Publications) /\ Len(log) \in Nat /\ pos \in Nat
      /\ sub[s].start \in Nat /\ dropped[s] \in Nat /\ q \in Seq(Publications) /\ Len(q) \in Nat
  BY <1>1, <1>3 DEF IInv, Attached, Open
<1>5. /\ pos = sub[s].start + Len(q) + dropped[s]
      /\ dropped[s] = 0 => q = SubSeq(log, sub[s].start + 1, pos)
      /\ Behind(q, log, pos) /\ FromOneLog(q, sent)
  BY <1>1 DEF IInv, LossIsCounted, YieldedInOrder, InOrder
<1>6. pos + 1 \in 1..Len(log) /\ log[pos + 1] \in Publications
  BY <1>1, <1>4
<1>7. sub' \in [Subscribers -> R] /\ got' \in [Subscribers -> Seq(Publications)]
  <2>1. pos + 1 \in Nat
    BY <1>4
  <2>2. sub' \in [Subscribers -> R]
    BY <1>1, <1>3, <2>1, Zenon
  <2>3. Append(q, log[pos + 1]) \in Seq(Publications)
    BY <1>4, <1>6
  <2> QED BY <1>2, <1>3, <2>2, <2>3
<1>8. /\ sub'[s].pc = "open" /\ sub'[s].sender = g /\ sub'[s].start = sub[s].start /\ sub'[s].pos = pos + 1
      /\ \A t \in Subscribers : t # s => sub'[t] = sub[t] /\ got'[t] = got[t]
      /\ got'[s] = Append(q, log[pos + 1])
  BY <1>1, <1>2, <1>3 DEF Open
<1>9. /\ Len(got'[s]) = Len(q) + 1 /\ got'[s][Len(q) + 1] = log[pos + 1]
      /\ \A i \in 1..Len(q) : got'[s][i] = q[i]
  BY <1>4, <1>6, <1>8
<1>10. dropped[s] = 0 => got'[s] = SubSeq(log, sub[s].start + 1, pos + 1)
  <2> DEFINE a == sub[s].start
  <2>1. a <= pos
    BY <1>4, <1>5
  <2> HIDE DEF a, log, q, pos
  <2>2. a \in Nat
    BY <1>4 DEF a
  <2>3. ASSUME dropped[s] = 0
        PROVE  Append(q, log[pos + 1]) = SubSeq(log, a + 1, pos + 1)
    <3>1. q = SubSeq(log, a + 1, pos)
      BY <1>5, <2>3 DEF a
    <3>2. log \in Seq(Publications) /\ q \in Seq(Publications) /\ pos \in Nat /\ pos < Len(log)
      BY <1>1, <1>4
    <3> QED BY <2>1, <2>2, <3>1, <3>2, YieldNext
  <2> QED BY <1>8, <2>3, Zenon DEF a
<1>11. Behind(got'[s], log, pos + 1)
  <2> HIDE DEF log, q, pos
  <2> SUFFICES ASSUME NEW i \in 1..Len(got'[s]) PROVE \E k \in 1..(pos + 1) : log[k] = got'[s][i]
    BY DEF Behind
  <2>1. CASE i \in 1..Len(q)
    <3>1. PICK k \in 1..pos : log[k] = q[i]
      BY <1>5, <2>1 DEF Behind
    <3>2. k \in 1..(pos + 1)
      BY <1>4, <3>1
    <3> QED BY <1>9, <2>1, <3>1, <3>2
  <2>2. CASE i = Len(q) + 1
    <3>1. pos + 1 \in 1..(pos + 1)
      BY <1>4
    <3> QED BY <1>9, <2>2, <3>1
  <2> QED BY <1>4, <1>9, <2>1, <2>2
<1>12. FromOneLog(got'[s], sent)
  <2> HIDE DEF log, q, pos
  <2> SUFFICES ASSUME NEW i \in 1..Len(got'[s]), NEW j \in 1..Len(got'[s]), i < j
               PROVE  \E h \in Senders : \E k, l \in 1..Len(sent[h]) :
                        k < l /\ sent[h][k] = got'[s][i] /\ sent[h][l] = got'[s][j]
    BY DEF FromOneLog
  <2>1. i \in 1..Len(q)
    BY <1>4, <1>9
  <2>2. CASE j \in 1..Len(q)
    BY <1>5, <1>9, <2>1, <2>2 DEF FromOneLog
  <2>3. CASE j = Len(q) + 1
    <3>1. PICK k \in 1..pos : log[k] = q[i]
      BY <1>5, <2>1 DEF Behind
    <3>2. k \in 1..Len(log) /\ pos + 1 \in 1..Len(log) /\ k < pos + 1
      BY <1>1, <1>4, <3>1
    <3>3. log[k] = got'[s][i] /\ log[pos + 1] = got'[s][j]
      BY <1>9, <2>1, <2>3, <3>1
    <3> QED BY <1>4, <3>2, <3>3 DEF log
  <2> QED BY <1>4, <1>9, <2>2, <2>3
<1>13. pos + 1 = sub[s].start + Len(got'[s]) + dropped[s] /\ pos + 1 <= Len(log)
  <2> DEFINE st == sub[s].start
             n == Len(q)
             d == dropped[s]
             m == Len(log)
  <2>1. pos = st + n + d /\ {st, n, d, pos, m} \subseteq Nat /\ pos < m /\ Len(got'[s]) = n + 1
    BY <1>1, <1>4, <1>5, <1>9
  <2> HIDE DEF st, n, d, pos, m
  <2>2. pos + 1 = st + (n + 1) + d /\ pos + 1 <= m
    BY <2>1
  <2> QED BY <2>1, <2>2 DEF st, d, m
<1>14. StreamOK(s)'
  BY <1>2, <1>4, <1>8, <1>10, <1>11, <1>12, <1>13, Zenon DEF StreamOK, Open, InOrder
<1> HIDE DEF g, log, q, pos
<1> QED BY <1>2, <1>3, <1>7, <1>8, <1>14, SubscriberStep, Zenon DEF R

(* BeginPublish: a new publication, held by no other publisher.            *)
LEMMA BeginPublishIInv ==
    ASSUME IInv, NEW p \in Publishers, NEW m \in Publications, BeginPublish(p, m)
    PROVE  IInv'
<1> DEFINE r == [pc |-> "send", sender |-> topic, publication |-> m]
<1>1. /\ UNCHANGED <<created, topic, sent, sub, got, dropped>>
      /\ published' = published \union {m} /\ m \notin published
      /\ pub' = pub \/ (topic # Absent /\ pub' = [pub EXCEPT ![p] = r])
  BY DEF BeginPublish
<1>2. /\ pub \in [Publishers -> [pc : {"idle", "send", "reap"}, sender : 0..created,
                                  publication : Publications \union {None}]]
      /\ topic \in 0..created /\ created \in 0..MaxSenders /\ published \subseteq Publications
  BY DEF IInv, TypeOK
<1>3. TypeOK'
  <2>1. r \in [pc : {"idle", "send", "reap"}, sender : 0..created, publication : Publications \union {None}]
    BY <1>2
  <2> HIDE DEF r
  <2>2. pub' \in [Publishers -> [pc : {"idle", "send", "reap"}, sender : 0..created',
                                 publication : Publications \union {None}]]
    BY <1>1, <1>2, <2>1
  <2> QED BY <1>1, <1>2, <2>2 DEF IInv, TypeOK, Open
<1>4. \A q \in Publishers : pub'[q] = pub[q] \/ (q = p /\ topic # Absent /\ pub'[q] = r)
  BY <1>1, <1>2
<1>5. Attached'
  <2>1. topic # Absent => topic \in Senders
    BY <1>2, BrokerConstants DEF Absent, Senders
  <2> QED BY <1>1, <1>4, <2>1 DEF IInv, Attached
<1>6. LossIsCounted' /\ YieldedInOrder'
  BY <1>1 DEF IInv, LossIsCounted, YieldedInOrder, InOrder, Open
<1>7. SentOnce'
  <2>1. \A g \in Senders : \A k \in 1..Len(sent[g]) : sent[g][k] \in published
    BY DEF IInv, SentOnce
  <2>2. \A q \in Publishers : pub[q].pc = "send" => pub[q].publication \in published
    BY DEF IInv, SentOnce
  <2>3. \A g, h \in Senders : \A k \in 1..Len(sent'[g]), l \in 1..Len(sent'[h]) :
          sent'[g][k] = sent'[h][l] => g = h /\ k = l
    BY <1>1 DEF IInv, SentOnce
  <2>4. ASSUME NEW q \in Publishers, pub'[q].pc = "send"
        PROVE  /\ pub'[q].publication \in published'
               /\ \A g \in Senders : \A k \in 1..Len(sent'[g]) : sent'[g][k] # pub'[q].publication
    <3>1. CASE pub'[q] = pub[q]
      BY <1>1, <2>4, <3>1 DEF IInv, SentOnce
    <3>2. CASE pub'[q] = r
      BY <1>1, <2>1, <3>2
    <3> QED BY <1>4, <3>1, <3>2
  <2>5. ASSUME NEW q \in Publishers, NEW u \in Publishers, q # u, pub'[q].pc = "send", pub'[u].pc = "send"
        PROVE  pub'[q].publication # pub'[u].publication
    <3>1. CASE pub'[q] = pub[q] /\ pub'[u] = pub[u]
      BY <2>5, <3>1 DEF IInv, SentOnce
    <3>2. CASE pub'[q] = r /\ pub'[u] = pub[u]
      BY <1>1, <2>2, <2>5, <3>2
    <3>3. CASE pub'[q] = pub[q] /\ pub'[u] = r
      BY <1>1, <2>2, <2>5, <3>3
    <3> QED BY <1>4, <2>5, <3>1, <3>2, <3>3
  <2>6. \A g \in Senders : \A k \in 1..Len(sent'[g]) : sent'[g][k] \in published'
    BY <1>1, <2>1
  <2> HIDE DEF r
  <2> QED BY <2>3, <2>4, <2>5, <2>6 DEF SentOnce
<1> QED BY <1>3, <1>5, <1>6, <1>7 DEF IInv

(* A publisher that gives up its publication, or moves on to reap, leaves  *)
(* the channels and the streams alone.                                     *)
LEMMA PublisherMovesOn ==
    ASSUME IInv, NEW p \in Publishers, UNCHANGED <<created, sent, published, sub, got, dropped>>,
           topic' \in {topic, Absent},
           pub' = [pub EXCEPT ![p] = NoCall] \/ (pub' = [pub EXCEPT ![p].pc = "reap"] /\ pub[p].pc # "idle")
    PROVE  IInv'
<1>1. pub \in [Publishers -> [pc : {"idle", "send", "reap"}, sender : 0..created,
                              publication : Publications \union {None}]]
  BY DEF IInv, TypeOK
<1>2. created \in Nat /\ topic' \in 0..created
  BY DEF IInv, TypeOK, Absent
<1>3. NoCall \in [pc : {"idle", "send", "reap"}, sender : 0..created, publication : Publications \union {None}]
  BY <1>2 DEF NoCall, Absent
<1>4. pub' \in [Publishers -> [pc : {"idle", "send", "reap"}, sender : 0..created,
                               publication : Publications \union {None}]]
  BY <1>1, <1>3
<1>5. TypeOK'
  BY <1>2, <1>4 DEF IInv, TypeOK, Open
<1>6. \A q \in Publishers : pub'[q].pc # "idle" => pub[q].pc # "idle" /\ pub'[q].sender = pub[q].sender
  BY <1>1 DEF NoCall
<1>7. \A q \in Publishers : pub'[q].pc = "send" => pub'[q] = pub[q]
  BY <1>1 DEF NoCall
<1>8. Attached'
  BY <1>6 DEF IInv, Attached
<1>9. LossIsCounted' /\ YieldedInOrder'
  BY DEF IInv, LossIsCounted, YieldedInOrder, InOrder, Open
<1>10. SentOnce'
  BY <1>7 DEF IInv, SentOnce
<1> QED BY <1>5, <1>8, <1>9, <1>10 DEF IInv

(* A send does not change the piece of the log that was there before.      *)
LEMMA AppendKeepsPiece ==
    ASSUME NEW log \in Seq(Publications), NEW m \in Publications, NEW a \in Nat, NEW n \in Nat,
           a <= n, n <= Len(log)
    PROVE  SubSeq(Append(log, m), a + 1, n) = SubSeq(log, a + 1, n)
<1> DEFINE new == Append(log, m)
<1>1. new \in Seq(Publications) /\ Len(new) = Len(log) + 1 /\ \A i \in 1..Len(log) : new[i] = log[i]
  OBVIOUS
<1>2. \A i \in (a + 1)..n : i \in 1..Len(log)
  OBVIOUS
<1> HIDE DEF new
<1>3. \A i \in (a + 1)..n : new[i] = log[i] /\ new[i] \in Publications /\ log[i] \in Publications
  BY <1>1, <1>2
<1>4. SubSeq(new, a + 1, n) = [i \in 1..(1 + n - (a + 1)) |-> new[(a + 1) + i - 1]]
  BY <1>1, SMTT(20)
<1>5. SubSeq(log, a + 1, n) = [i \in 1..(1 + n - (a + 1)) |-> log[(a + 1) + i - 1]]
  BY <1>1
<1>6. \A i \in 1..(1 + n - (a + 1)) : (a + 1) + i - 1 \in (a + 1)..n
  OBVIOUS
<1> QED BY <1>3, <1>4, <1>5, <1>6 DEF new

(* Send: the channel grows by the publication of p, which p then forgets.  *)
LEMMA SendIInv ==
    ASSUME IInv, NEW p \in Publishers, Send(p)
    PROVE  IInv'
<1> DEFINE g == pub[p].sender
           m == pub[p].publication
<1>0. pub[p].pc = "send" /\ UNCHANGED <<created, topic, published, sub, got, dropped>>
  BY DEF Send
<1>1. CASE Receivers(g) = {}
  <2>1. pub' = [pub EXCEPT ![p].pc = "reap"] /\ sent' = sent
    BY <1>1 DEF Send
  <2> QED BY <1>0, <2>1, PublisherMovesOn, Zenon
<1>2. CASE Receivers(g) # {}
  <2>1. sent' = [sent EXCEPT ![g] = Append(sent[g], m)] /\ pub' = [pub EXCEPT ![p] = NoCall]
    BY <1>2 DEF Send
  <2>2. /\ g \in Senders /\ m \in published /\ m \in Publications
        /\ \A h \in Senders : \A k \in 1..Len(sent[h]) : sent[h][k] # m
    BY <1>0 DEF IInv, Attached, SentOnce, TypeOK
  <2>3. /\ sent \in [Senders -> Seq(Publications)]
        /\ pub \in [Publishers -> [pc : {"idle", "send", "reap"}, sender : 0..created,
                                    publication : Publications \union {None}]]
        /\ created \in 0..MaxSenders /\ topic \in 0..created
        /\ sub \in [Subscribers -> [pc : {"closed", "cloned", "open"}, sender : 0..created,
                                     start : Nat, pos : Nat]]
        /\ got \in [Subscribers -> Seq(Publications)] /\ dropped \in [Subscribers -> Nat]
    BY DEF IInv, TypeOK
  <2>4. \A q \in Publishers : IF q = p THEN pub'[q] = NoCall ELSE pub'[q] = pub[q]
    BY <2>1, <2>3
  <2>5. \A h \in Senders : sent'[h] = IF h = g THEN Append(sent[g], m) ELSE sent[h]
    BY <2>1, <2>3
  <2>6. ASSUME NEW h \in Senders
        PROVE  /\ Len(sent[h]) \in Nat /\ Len(sent'[h]) \in Nat /\ Len(sent[h]) <= Len(sent'[h])
               /\ \A k \in 1..Len(sent[h]) : k \in 1..Len(sent'[h]) /\ sent'[h][k] = sent[h][k]
               /\ \A k \in 1..Len(sent'[h]) :
                    k \in 1..Len(sent[h]) \/ (h = g /\ k = Len(sent[g]) + 1 /\ sent'[h][k] = m)
    <3>1. sent[h] \in Seq(Publications)
      BY <2>3
    <3> HIDE DEF m
    <3>2. CASE h = g
      <4> DEFINE log == sent[h]
                 new == sent'[h]
      <4>1. new = Append(log, m) /\ log \in Seq(Publications) /\ m \in Publications
        BY <2>2, <2>5, <3>1, <3>2, Zenon
      <4> HIDE DEF log, new
      <4>2. /\ Len(log) \in Nat /\ Len(new) = Len(log) + 1 /\ new[Len(log) + 1] = m
            /\ \A k \in 1..Len(log) : new[k] = log[k]
        BY <4>1
      <4>3. \A k \in 1..Len(new) : k \in 1..Len(log) \/ k = Len(log) + 1
        BY <4>2
      <4>4. \A k \in 1..Len(log) : k \in 1..Len(new)
        BY <4>2
      <4> QED BY <3>2, <4>2, <4>3, <4>4 DEF log, new
    <3>3. CASE h # g
      BY <2>5, <3>1, <3>3
    <3> QED BY <3>2, <3>3
  <2> HIDE DEF m, g
  <2>7. sent' \in [Senders -> Seq(Publications)]
    BY <2>1, <2>2, <2>3
  <2>8. SentOnce'
    <3>1. ASSUME NEW h \in Senders, NEW j \in Senders,
                 NEW k \in 1..Len(sent'[h]), NEW l \in 1..Len(sent'[j]), sent'[h][k] = sent'[j][l]
          PROVE  h = j /\ k = l
      <4>1. CASE k \in 1..Len(sent[h]) /\ l \in 1..Len(sent[j])
        BY <2>6, <3>1, <4>1 DEF IInv, SentOnce
      <4>2. CASE k \in 1..Len(sent[h]) /\ l \notin 1..Len(sent[j])
        BY <2>2, <2>6, <3>1, <4>2
      <4>3. CASE k \notin 1..Len(sent[h]) /\ l \in 1..Len(sent[j])
        BY <2>2, <2>6, <3>1, <4>3
      <4>4. CASE k \notin 1..Len(sent[h]) /\ l \notin 1..Len(sent[j])
        BY <2>6, <3>1, <4>4
      <4> QED BY <4>1, <4>2, <4>3, <4>4
    <3>2. ASSUME NEW h \in Senders, NEW k \in 1..Len(sent'[h])
          PROVE  sent'[h][k] \in published'
      BY <1>0, <2>2, <2>6 DEF IInv, SentOnce
    <3>3. ASSUME NEW q \in Publishers, pub'[q].pc = "send"
          PROVE  /\ pub[q].pc = "send" /\ pub'[q] = pub[q] /\ q # p
                 /\ pub'[q].publication \in published'
                 /\ pub'[q].publication # m
      <4>1. q # p /\ pub'[q] = pub[q]
        BY <2>4, <3>3 DEF NoCall
      <4> QED BY <1>0, <3>3, <4>1 DEF IInv, SentOnce, m
    <3>4. ASSUME NEW q \in Publishers, pub'[q].pc = "send", NEW h \in Senders, NEW k \in 1..Len(sent'[h])
          PROVE  sent'[h][k] # pub'[q].publication
      BY <2>6, <3>3, <3>4 DEF IInv, SentOnce
    <3>5. ASSUME NEW q \in Publishers, NEW u \in Publishers, q # u, pub'[q].pc = "send", pub'[u].pc = "send"
          PROVE  pub'[q].publication # pub'[u].publication
      BY <3>3, <3>5 DEF IInv, SentOnce
    <3> QED BY <3>1, <3>2, <3>3, <3>4, <3>5 DEF SentOnce
  <2>9. ASSUME NEW t \in Subscribers PROVE StreamOK(t)'
    <3>1. StreamOK(t)
      BY DEF IInv, StreamOK, TypeOK, Attached, LossIsCounted, YieldedInOrder
    <3>2. FromOneLog(got'[t], sent')
      <4>1. FromOneLog(got[t], sent)
        BY <3>1 DEF StreamOK, InOrder
      <4>2. ASSUME NEW i \in 1..Len(got[t]), NEW j \in 1..Len(got[t]), i < j
            PROVE  \E h \in Senders : \E k, l \in 1..Len(sent'[h]) :
                     k < l /\ sent'[h][k] = got[t][i] /\ sent'[h][l] = got[t][j]
        <5>1. \E h \in Senders : \E k, l \in 1..Len(sent[h]) :
                k < l /\ sent[h][k] = got[t][i] /\ sent[h][l] = got[t][j]
          BY <4>1, <4>2 DEF FromOneLog
        <5> QED BY <2>6, <5>1
      <4>3. FromOneLog(got[t], sent')
        BY <4>2 DEF FromOneLog
      <4> QED BY <1>0, <4>3
    <3>3. ASSUME Open(t)
          PROVE  /\ sub[t].sender \in Senders /\ sub[t].pos <= Len(sent'[sub[t].sender])
                 /\ dropped[t] = 0 => got[t] = SubSeq(sent'[sub[t].sender], sub[t].start + 1, sub[t].pos)
                 /\ Behind(got[t], sent'[sub[t].sender], sub[t].pos)
      <4> DEFINE h == sub[t].sender
                 a == sub[t].start
                 n == sub[t].pos
      <4>1. h \in Senders /\ a \in Nat /\ n \in Nat /\ Len(sent[h]) \in Nat /\ Len(sent'[h]) \in Nat
        BY <2>3, <2>6, <3>1, <3>3 DEF StreamOK, Open
      <4>2. n <= Len(sent[h]) /\ a <= n
        BY <2>3, <3>1, <3>3, <4>1 DEF StreamOK
      <4>3. SubSeq(sent'[h], a + 1, n) = SubSeq(sent[h], a + 1, n)
        <5> HIDE DEF h, a, n
        <5>1. sent[h] \in Seq(Publications)
          BY <2>3, <4>1
        <5>2. SubSeq(Append(sent[h], m), a + 1, n) = SubSeq(sent[h], a + 1, n)
          BY <2>2, <4>1, <4>2, <5>1, AppendKeepsPiece
        <5> QED BY <2>5, <4>1, <5>2, Zenon
      <4>4. \A k \in 1..n : sent'[h][k] = sent[h][k]
        BY <2>6, <4>1, <4>2
      <4>5. Behind(got[t], sent[h], n) /\ (dropped[t] = 0 => got[t] = SubSeq(sent[h], a + 1, n))
        BY <3>1, <3>3 DEF StreamOK, InOrder
      <4>6. Behind(got[t], sent'[h], n)
        BY <4>4, <4>5 DEF Behind
      <4>7. n <= Len(sent'[h])
        BY <2>6, <4>1, <4>2
      <4> HIDE DEF h, a, n
      <4>8. dropped[t] = 0 => got[t] = SubSeq(sent'[h], a + 1, n)
        BY <4>3, <4>5, Zenon
      <4> QED BY <4>1, <4>6, <4>7, <4>8 DEF h, a, n
    <3> QED BY <1>0, <3>1, <3>2, <3>3 DEF StreamOK, InOrder, Open
  <2>10. pub' \in [Publishers -> [pc : {"idle", "send", "reap"}, sender : 0..created,
                                  publication : Publications \union {None}]]
    <3>1. NoCall \in [pc : {"idle", "send", "reap"}, sender : 0..created, publication : Publications \union {None}]
      BY <2>3 DEF NoCall, Absent
    <3> QED BY <2>1, <2>3, <3>1
  <2>11. TypeOK'
    BY <1>0, <2>3, <2>7, <2>9, <2>10 DEF IInv, TypeOK, StreamOK
  <2>12. Attached'
    BY <1>0, <2>4, <2>9 DEF IInv, Attached, StreamOK, NoCall
  <2>13. LossIsCounted' /\ YieldedInOrder'
    BY <2>9 DEF StreamOK, LossIsCounted, YieldedInOrder
  <2> QED BY <2>8, <2>11, <2>12, <2>13 DEF IInv
<1> QED BY <1>1, <1>2

(* Reap: the topic is given up or not; nothing else is.                    *)
LEMMA ReapIInv ==
    ASSUME IInv, NEW p \in Publishers, Reap(p)
    PROVE  IInv'
<1>1. topic' \in {topic, Absent} /\ pub' = [pub EXCEPT ![p] = NoCall]
  BY DEF Reap
<1>2. UNCHANGED <<created, sent, published, sub, got, dropped>>
  BY DEF Reap
<1> QED BY <1>1, <1>2, PublisherMovesOn, Zenon

(* Every step of the broker, its publishers and its streams.               *)
LEMMA NextIInv == IInv /\ [Next]_vars => IInv'
<1> SUFFICES ASSUME IInv, [Next]_vars PROVE IInv'
  OBVIOUS
<1>1. CASE UNCHANGED vars
  BY <1>1 DEF vars, IInv, TypeOK, Attached, LossIsCounted, SentOnce, YieldedInOrder, InOrder, Open
<1>2. ASSUME NEW p \in Publishers, NEW m \in Publications, BeginPublish(p, m) PROVE IInv'
  BY <1>2, BeginPublishIInv
<1>3. ASSUME NEW p \in Publishers, Send(p) \/ Reap(p) PROVE IInv'
  BY <1>3, SendIInv, ReapIInv
<1>4. ASSUME NEW s \in Subscribers, SenderFor(s) \/ Attach(s) PROVE IInv'
  BY <1>4, SenderForIInv, AttachIInv
<1>5. ASSUME NEW s \in Subscribers, Poll(s) \/ DropStream(s) PROVE IInv'
  BY <1>5, LagIInv, RecvIInv, CloseIInv DEF Poll
<1>6. CASE Drained
  BY <1>1, <1>6 DEF Drained
<1> QED BY <1>1, <1>2, <1>3, <1>4, <1>5, <1>6 DEF Next

-----------------------------------------------------------------------------
(* Recv yields what the Broker trait lets a stream yield next: a value that *)
(* was published, that this stream has not had, and that no stream has had *)
(* before one that this stream already had.                                *)
LEMMA RecvIsYield ==
    ASSUME IInv, NEW s \in Subscribers, Recv(s)
    PROVE  \E m \in published : Contract!Yield(s, m)
<1> DEFINE h == sub[s].sender
           n == sub[s].pos
           m == sent[h][n + 1]
<1>1. Open(s) /\ n < Len(sent[h]) /\ got' = [got EXCEPT ![s] = Append(@, m)] /\ published' = published
  BY DEF Recv
<1>2. /\ h \in Senders /\ n \in Nat /\ sent[h] \in Seq(Publications)
      /\ \A r \in Subscribers : got[r] \in Seq(Publications)
  BY <1>1 DEF IInv, TypeOK, Attached, Open
<1>3. /\ \A k \in 1..n : k \in 1..Len(sent[h]) /\ k # n + 1 /\ ~(n + 1 < k)
      /\ n + 1 \in 1..Len(sent[h])
  <2>1. Len(sent[h]) \in Nat
    BY <1>2
  <2> HIDE DEF h, n
  <2> QED BY <1>1, <1>2, <2>1
<1>4. Behind(got[s], sent[h], n) /\ \A r \in Subscribers : FromOneLog(got[r], sent)
  BY <1>1 DEF IInv, YieldedInOrder, InOrder
<1>5. \A f, g \in Senders : \A k \in 1..Len(sent[f]), l \in 1..Len(sent[g]) :
        sent[f][k] = sent[g][l] => f = g /\ k = l
  BY DEF IInv, SentOnce
<1>6. m \in published /\ m \in Publications
  BY <1>2, <1>3 DEF IInv, SentOnce, TypeOK
<1> HIDE DEF h, n
<1>7. ASSUME NEW i \in DOMAIN got[s]
      PROVE  got[s][i] # m /\ \A r \in Subscribers : ~Contract!Before(got[r], m, got[s][i])
  <2>1. i \in 1..Len(got[s])
    BY <1>2
  <2>2. PICK k \in 1..n : sent[h][k] = got[s][i]
    BY <1>4, <2>1 DEF Behind
  <2>3. got[s][i] # m
    BY <1>2, <1>3, <1>5, <2>2
  <2>4. ASSUME NEW r \in Subscribers, Contract!Before(got[r], m, got[s][i])
        PROVE  FALSE
    <3>1. DOMAIN got[r] = 1..Len(got[r])
      BY <1>2
    <3>2. PICK a \in 1..Len(got[r]), b \in 1..Len(got[r]) :
            a < b /\ got[r][a] = m /\ got[r][b] = got[s][i]
      BY <2>4, <3>1 DEF Contract!Before
    <3>3. \E g \in Senders : \E x, y \in 1..Len(sent[g]) :
            x < y /\ sent[g][x] = got[r][a] /\ sent[g][y] = got[r][b]
      BY <1>4, <3>2 DEF FromOneLog
    <3>4. PICK g \in Senders : \E x, y \in 1..Len(sent[g]) :
            x < y /\ sent[g][x] = m /\ sent[g][y] = sent[h][k]
      BY <2>2, <3>2, <3>3
    <3>5. PICK x \in 1..Len(sent[g]), y \in 1..Len(sent[g]) :
            x < y /\ sent[g][x] = m /\ sent[g][y] = sent[h][k]
      BY <3>4
    <3>6. x = n + 1
      BY <1>2, <1>3, <1>5, <3>5
    <3>7. y = k
      BY <1>2, <1>3, <1>5, <3>5
    <3> QED BY <1>3, <3>5, <3>6, <3>7
  <2> QED BY <2>3, <2>4
<1> HIDE DEF m
<1>8. Contract!Yield(s, m)
  BY <1>1, <1>6, <1>7 DEF Contract!Yield
<1> QED BY <1>6, <1>8

(* Every step of the broker is a step of the contract or leaves what was   *)
(* published and yielded alone.                                            *)
LEMMA StepImplements ==
    IInv /\ [Next]_vars => [Contract!Next]_<<published, got>>
<1> SUFFICES ASSUME IInv, [Next]_vars PROVE [Contract!Next]_<<published, got>>
  OBVIOUS
<1>1. CASE UNCHANGED vars \/ Drained
  BY <1>1 DEF vars, Drained
<1>2. ASSUME NEW p \in Publishers, NEW m \in Publications, BeginPublish(p, m)
      PROVE  Contract!Next
  <2>1. m \in Publications \ published /\ Contract!Publish(m)
    BY <1>2 DEF BeginPublish, Contract!Publish
  <2> QED BY <2>1 DEF Contract!Next
<1>3. ASSUME NEW p \in Publishers, Send(p) \/ Reap(p)
      PROVE  UNCHANGED <<published, got>>
  BY <1>3 DEF Send, Reap
<1>4. ASSUME NEW s \in Subscribers, SenderFor(s)
      PROVE  Contract!Next
  <2>1. Contract!Reopen(s)
    BY <1>4 DEF SenderFor, Contract!Reopen
  <2> QED BY <2>1 DEF Contract!Next
<1>5. ASSUME NEW s \in Subscribers, Attach(s) \/ Lag(s) \/ StreamEnds(s) \/ DropStream(s)
      PROVE  UNCHANGED <<published, got>>
  BY <1>5 DEF Attach, Lag, StreamEnds, DropStream
<1>6. ASSUME NEW s \in Subscribers, Recv(s)
      PROVE  Contract!Next
  BY <1>6, RecvIsYield DEF Contract!Next
<1> QED BY <1>1, <1>2, <1>3, <1>4, <1>5, <1>6 DEF Next, Poll

(* An open stream reads a channel that exists, so a subscriber creates no  *)
(* other while the map names it, and remove_if looks at its receivers.     *)
LEMMA StepSparesOpenStreams ==
    IInv /\ [Next]_vars =>
      \A s \in Subscribers : Open(s) /\ sub[s].sender = topic /\ Open(s)' => topic' = topic
<1> SUFFICES ASSUME IInv, [Next]_vars, NEW s \in Subscribers, Open(s), sub[s].sender = topic
             PROVE  topic' = topic
  OBVIOUS
<1>1. topic # Absent
  BY BrokerConstants DEF IInv, Attached, Open, Senders, Absent
<1>2. s \in Receivers(topic)
  BY DEF Receivers
<1>3. ASSUME NEW p \in Publishers, Reap(p) PROVE topic' = topic
  BY <1>2, <1>3 DEF Reap
<1>4. ASSUME NEW p \in Publishers, Send(p) \/ \E m \in Publications : BeginPublish(p, m)
      PROVE  topic' = topic
  BY <1>4 DEF Send, BeginPublish
<1>5. ASSUME NEW t \in Subscribers, SenderFor(t) PROVE topic' = topic
  BY <1>1, <1>5 DEF SenderFor
<1>6. ASSUME NEW t \in Subscribers, Attach(t) \/ Poll(t) \/ DropStream(t) PROVE topic' = topic
  BY <1>6 DEF Attach, Poll, Lag, Recv, StreamEnds, DropStream
<1>7. CASE UNCHANGED vars \/ Drained
  BY <1>7 DEF vars, Drained
<1> QED BY <1>3, <1>4, <1>5, <1>6, <1>7 DEF Next

-----------------------------------------------------------------------------
(* The inductive invariant holds throughout: in particular no receiver     *)
(* overtakes its channel and no channel carries a publication twice.       *)
THEOREM BrokerInvariant == Spec => []IInv
BY InitIInv, NextIInv, PTL DEF Spec

(* cherenkov_broker_dropped_total accounts for every publication a stream  *)
(* of MemoryBroker did not yield, and a stream that never lagged yielded   *)
(* its channel without a gap, for any ring and any number of streams.      *)
THEOREM LossTheorem == Spec => []LossIsCounted
<1>1. IInv => LossIsCounted
  BY DEF IInv
<1> QED BY <1>1, BrokerInvariant, PTL

(* publish never removes the topic under a stream that is open on it, in   *)
(* whatever order its send, its remove_if and the subscribers run.         *)
THEOREM ReapTheorem == Spec => ReapSparesOpenStreams
<1>1. IInv /\ [Next]_vars =>
        [\A s \in Subscribers : Open(s) /\ sub[s].sender = topic /\ Open(s)' => topic' = topic]_vars
  BY StepSparesOpenStreams
<1> QED BY <1>1, BrokerInvariant, PTL DEF Spec, ReapSparesOpenStreams

(* MemoryBroker implements the Broker trait's promise: published, at most  *)
(* once per stream, and in one order that is common to all streams.        *)
THEOREM ContractTheorem == Spec => ImplementsContract
<1>1. Init => Contract!Init
  BY DEF Init, Contract!Init
<1> QED BY <1>1, StepImplements, BrokerInvariant, PTL DEF Spec, ImplementsContract, Contract!Spec
===============================================================================
