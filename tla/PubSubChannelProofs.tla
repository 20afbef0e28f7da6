------------------------- MODULE PubSubChannelProofs -------------------------
(***************************************************************************)
(* Theorems about PubSubChannel for every history size, TTL, number of     *)
(* publishers and set of payloads.                                         *)
(***************************************************************************)
EXTENDS PubSubChannel, FiniteSetTheorems, TLAPS

(* t is es without its k oldest entries.                                   *)
SuffixOf(t, es, k) ==
    /\ t \in Seq(Entry)
    /\ Len(t) = Len(es) - k
    /\ \A i \in 1..Len(t) : t[i] = es[k + i]

(* evict_expired pops exactly the longest expired prefix: there are at     *)
(* most Len(es) expired fronts, and the first survivor is not expired.     *)
LEMMA ExpiredPrefixLength ==
    ASSUME NEW es \in Seq(Entry), NEW now \in Nat
    PROVE  /\ Cardinality(ExpiredPrefix(es, now)) \in 0..Len(es)
           /\ Cardinality(ExpiredPrefix(es, now)) < Len(es)
                => ~Expired(es[Cardinality(ExpiredPrefix(es, now)) + 1], now)
<1> DEFINE n == Len(es)
           P == ExpiredPrefix(es, now)
           k == Cardinality(P)
<1>1. n \in Nat
  OBVIOUS
<1>2. P \subseteq 1..n
  BY DEF ExpiredPrefix
<1>3. \A a \in Nat : IsFiniteSet(1..a) /\ Cardinality(1..a) = a
  BY FS_Interval
<1>4. IsFiniteSet(P) /\ k \in Nat /\ k <= n
  BY <1>1, <1>2, <1>3, FS_Subset, FS_CardinalityType
<1>5. \A i \in P : \A j \in 1..i : j \in P
  BY <1>1 DEF ExpiredPrefix
<1>6. 1..k \subseteq P
  <2> SUFFICES ASSUME NEW m \in 1..k, m \notin P PROVE FALSE
    OBVIOUS
  <2>1. P \subseteq 1..(m-1)
    BY <1>1, <1>2, <1>4, <1>5
  <2>2. k <= m - 1
    BY <2>1, <1>3, <1>4, FS_Subset
  <2> QED
    BY <2>2, <1>4
<1>7. ASSUME k < n, Expired(es[k+1], now)
      PROVE  FALSE
  <2>1. k + 1 \in P
    <3>1. \A j \in P : Expired(es[j], now)
      BY <1>1, <1>2 DEF ExpiredPrefix
    <3>2. \A j \in 1..(k+1) : Expired(es[j], now)
      BY <3>1, <1>4, <1>6, <1>7
    <3>3. k + 1 \in 1..n
      BY <1>1, <1>4, <1>7
    <3> QED
      BY <3>2, <3>3 DEF ExpiredPrefix
  <2>2. 1..(k+1) \subseteq P
    BY <2>1, <1>5
  <2>3. k + 1 <= k
    BY <2>2, <1>3, <1>4, FS_Subset
  <2> QED
    BY <2>3, <1>4
<1> QED
  BY <1>1, <1>4, <1>7

(* What is left after evict_expired is a suffix of the ring whose front,   *)
(* if there is one, is not expired.                                        *)
LEMMA EvictExpiredIsSuffix ==
    ASSUME NEW es \in Seq(Entry), NEW now \in Nat
    PROVE  \E k \in 0..Len(es) :
             /\ SuffixOf(EvictExpired(es, now), es, k)
             /\ k < Len(es) => ~Expired(es[k + 1], now)
<1> DEFINE k == Cardinality(ExpiredPrefix(es, now))
<1>1. k \in 0..Len(es) /\ (k < Len(es) => ~Expired(es[k + 1], now))
  BY ExpiredPrefixLength
<1>2. Len(es) \in Nat /\ \A i \in (k + 1)..Len(es) : es[i] \in Entry
  BY <1>1
<1> HIDE DEF k
<1>3. /\ SubSeq(es, k + 1, Len(es)) \in Seq(Entry)
      /\ Len(SubSeq(es, k + 1, Len(es))) = Len(es) - k
      /\ \A i \in 1..(Len(es) - k) : SubSeq(es, k + 1, Len(es))[i] = es[k + i]
  BY <1>1, <1>2
<1>4. EvictExpired(es, now) = SubSeq(es, k + 1, Len(es))
  BY DEF k, EvictExpired
<1> QED
  BY <1>1, <1>3, <1>4 DEF SuffixOf

(* The trailing trim of on_publish keeps the newest history_size entries.  *)
LEMMA TrimToSizeIsSuffix ==
    ASSUME NEW es \in Seq(Entry)
    PROVE  \E k \in 0..Len(es) :
             /\ SuffixOf(TrimToSize(es), es, k)
             /\ Len(TrimToSize(es)) <= HistorySize
<1>1. CASE Len(es) > HistorySize
  <2> DEFINE k == Len(es) - HistorySize
  <2>1. k \in 0..Len(es)
    BY <1>1, ChannelConstants
  <2>2. /\ SubSeq(es, k + 1, Len(es)) \in Seq(Entry)
        /\ Len(SubSeq(es, k + 1, Len(es))) = Len(es) - k
        /\ \A i \in 1..(Len(es) - k) : SubSeq(es, k + 1, Len(es))[i] = es[k + i]
    BY <2>1
  <2>3. Len(es) - k <= HistorySize
    BY <1>1, ChannelConstants
  <2> QED
    BY <1>1, <2>1, <2>2, <2>3, Zenon DEF TrimToSize, SuffixOf
<1>2. CASE ~(Len(es) > HistorySize)
  <2> WITNESS 0 \in 0..Len(es)
  <2> QED
    BY <1>2, ChannelConstants DEF TrimToSize, SuffixOf
<1> QED
  BY <1>1, <1>2

-----------------------------------------------------------------------------
(* The two halves of the invariant, as predicates of a ring es.            *)
Latest(es, n, acc) ==
    /\ Len(es) <= n
    /\ \A i \in 1..Len(es) :
         /\ es[i].offset = n - Len(es) + i - 1
         /\ es[i].data = acc[n - Len(es) + i]

InOrder(es, n, now) ==
    /\ \A i \in 1..Len(es) :
         /\ es[i].inserted_at <= es[i].entered_at
         /\ es[i].entered_at <= now
         /\ es[i].offset <= n
    /\ \A i, j \in 1..Len(es) : i < j =>
         /\ es[i].entered_at <= es[j].entered_at
         /\ es[i].offset <= es[j].offset

(* The payload of a ring entry is the one accepted under its offset.       *)
LEMMA DataUnderOffset ==
    ASSUME NEW es, NEW n \in Nat, NEW acc, Len(es) \in Nat, Latest(es, n, acc), NEW i \in 1..Len(es)
    PROVE  es[i].data = acc[es[i].offset + 1]
<1> DEFINE l == Len(es)
           o == es[i].offset
<1>1. o = n - l + i - 1 /\ es[i].data = acc[n - l + i]
  BY DEF Latest
<1>2. l \in Nat /\ i \in Nat
  OBVIOUS
<1> HIDE DEF l, o
<1>3. o + 1 = n - l + i
  BY <1>1, <1>2
<1>4. es[i].data = acc[o + 1]
  BY <1>1, <1>3
<1> QED
  BY <1>4 DEF o

(* Latest, in the words of HistoryIsLatest.                                *)
LEMMA LatestHistory ==
    ASSUME NEW es, NEW n \in Nat, NEW acc, Len(es) \in Nat, Latest(es, n, acc)
    PROVE  /\ Len(es) <= n
           /\ \A i \in 1..Len(es) :
                /\ es[i].offset = n - Len(es) + i - 1
                /\ es[i].data = acc[es[i].offset + 1]
<1>1. \A i \in 1..Len(es) : es[i].data = acc[es[i].offset + 1]
  BY DataUnderOffset
<1> QED
  BY <1>1 DEF Latest

(* Both evictions leave a suffix, and a suffix of a good ring is good.     *)
LEMMA SuffixKeeps ==
    ASSUME NEW es \in Seq(Entry), NEW t, NEW k \in 0..Len(es), SuffixOf(t, es, k),
           NEW n \in Nat, NEW acc, NEW now \in Nat
    PROVE  /\ Latest(es, n, acc) => Latest(t, n, acc)
           /\ InOrder(es, n, now) => InOrder(t, n, now)
<1>1. /\ Len(es) \in Nat /\ k \in Nat /\ k <= Len(es) /\ Len(t) = Len(es) - k
      /\ \A i \in 1..Len(t) : k + i \in 1..Len(es) /\ t[i] = es[k + i]
  BY DEF SuffixOf
<1>2. ASSUME Latest(es, n, acc)
      PROVE  Latest(t, n, acc)
  <2>1. ASSUME NEW i \in 1..Len(t)
        PROVE  t[i].offset = n - Len(t) + i - 1 /\ t[i].data = acc[n - Len(t) + i]
    <3>1. /\ t[i] = es[k + i]
          /\ es[k + i].offset = n - Len(es) + (k + i) - 1
          /\ es[k + i].data = acc[n - Len(es) + (k + i)]
      BY <1>1, <1>2 DEF Latest
    <3> DEFINE x == n - Len(es) + (k + i)
               y == n - Len(t) + i
    <3>2. x = y
      BY <1>1
    <3>3. t[i].offset = x - 1 /\ t[i].data = acc[x]
      BY <3>1
    <3> HIDE DEF x, y
    <3>4. t[i].offset = y - 1 /\ t[i].data = acc[y]
      BY <3>2, <3>3
    <3> QED
      BY <3>4 DEF y
  <2> QED
    BY <1>1, <1>2, <2>1 DEF Latest
<1>3. ASSUME InOrder(es, n, now)
      PROVE  InOrder(t, n, now)
  <2>1. \A i \in 1..Len(t) : \A j \in 1..Len(t) : i < j => k + i < k + j
    BY <1>1
  <2>2. \A i \in 1..Len(t) : k + i \in 1..Len(es)
    BY <1>1
  <2>3. ASSUME NEW i \in 1..Len(t), NEW j \in 1..Len(t), i < j
        PROVE  t[i].entered_at <= t[j].entered_at /\ t[i].offset <= t[j].offset
    BY <1>1, <1>3, <2>1, <2>2, <2>3, Zenon DEF InOrder
  <2>4. ASSUME NEW i \in 1..Len(t)
        PROVE  t[i].inserted_at <= t[i].entered_at /\ t[i].entered_at <= now /\ t[i].offset <= n
    BY <1>1, <1>3, <2>2 DEF InOrder
  <2> QED
    BY <2>3, <2>4 DEF InOrder
<1> QED
  BY <1>2, <1>3

(* Appending the next offset to a good ring keeps it good.                 *)
LEMMA AppendKeeps ==
    ASSUME NEW es \in Seq(Entry), NEW e \in Entry, NEW n \in Nat, NEW m \in Nat,
           NEW acc \in Seq(Payloads), NEW now \in Nat,
           e.offset = n, e.inserted_at <= now, e.entered_at = now
    PROVE  /\ Latest(es, n, acc) /\ n = Len(acc)
                => Latest(Append(es, e), n + 1, Append(acc, e.data))
           /\ InOrder(es, n, now) /\ n <= m => InOrder(Append(es, e), m, now)
<1> DEFINE t == Append(es, e)
           acc2 == Append(acc, e.data)
           L == Len(es)
<1>1. /\ L \in Nat /\ t \in Seq(Entry) /\ Len(t) = L + 1
      /\ \A i \in 1..L : t[i] = es[i] /\ es[i] \in Entry
      /\ t[L + 1] = e
  OBVIOUS
<1>2. \A i \in 1..Len(t) : i \in 1..L \/ i = L + 1
  BY <1>1
<1>3. ASSUME Latest(es, n, acc), n = Len(acc)
      PROVE  Latest(t, n + 1, acc2)
  <2>1. /\ \A j \in 1..n : acc2[j] = acc[j]
        /\ acc2[n + 1] = e.data
    BY <1>3 DEF Entry
  <2>2. L <= n /\ \A i \in 1..L : es[i].offset = n - L + i - 1 /\ es[i].data = acc[n - L + i]
    BY <1>3 DEF Latest
  <2> HIDE DEF t, acc2, L
  <2>3. ASSUME NEW i \in 1..Len(t)
        PROVE  /\ t[i].offset = (n + 1) - Len(t) + i - 1
               /\ t[i].data = acc2[(n + 1) - Len(t) + i]
    <3>1. (n + 1) - Len(t) + i = n - L + i /\ i \in Nat
      BY <1>1
    <3>2. CASE i \in 1..L
      <4>1. n - L + i \in 1..n
        BY <1>1, <2>2, <3>2
      <4>2. t[i].offset = n - L + i - 1 /\ t[i].data = acc2[n - L + i]
        BY <1>1, <2>1, <2>2, <3>2, <4>1, Zenon
      <4> QED
        BY <1>1, <3>1, <4>2
    <3>3. CASE i = L + 1
      <4>1. (n + 1) - Len(t) + i = n + 1 /\ (n + 1) - Len(t) + i - 1 = n
        BY <1>1, <3>3
      <4>2. t[i].offset = n /\ t[i].data = acc2[n + 1]
        BY <1>1, <2>1, <3>3
      <4> QED
        BY <4>1, <4>2
    <3> QED
      BY <1>2, <3>2, <3>3
  <2>4. Len(t) <= n + 1
    BY <1>1, <2>2
  <2> QED
    BY <2>3, <2>4 DEF Latest
<1>4. ASSUME InOrder(es, n, now), n <= m
      PROVE  InOrder(t, m, now)
  <2> HIDE DEF t
  <2>1. ASSUME NEW i \in 1..Len(t)
        PROVE  t[i].inserted_at <= t[i].entered_at /\ t[i].entered_at <= now /\ t[i].offset <= m
    <3>1. CASE i \in 1..L
      <4>1. /\ es[i].inserted_at <= es[i].entered_at /\ es[i].entered_at <= now
            /\ es[i].offset <= n /\ es[i].offset \in Nat
        BY <1>1, <1>4, <3>1, Zenon DEF InOrder, Entry
      <4> QED
        BY <1>1, <1>4, <3>1, <4>1
    <3>2. CASE i = L + 1
      BY <1>1, <1>4, <3>2
    <3> QED
      BY <1>2, <3>1, <3>2
  <2>2. ASSUME NEW i \in 1..Len(t), NEW j \in 1..Len(t), i < j
        PROVE  t[i].entered_at <= t[j].entered_at /\ t[i].offset <= t[j].offset
    <3>1. i \in 1..L
      BY <1>1, <2>2
    <3>2. CASE j \in 1..L
      BY <1>1, <1>4, <2>2, <3>1, <3>2 DEF InOrder
    <3>3. CASE j = L + 1
      BY <1>1, <1>4, <3>1, <3>3 DEF InOrder
    <3> QED
      BY <1>2, <3>2, <3>3
  <2> QED
    BY <2>1, <2>2 DEF InOrder
<1> QED
  BY <1>3, <1>4

-----------------------------------------------------------------------------
IInv == TypeOK /\ HistoryIsLatest /\ RingInOrder

(* The invariant in terms of the predicates of a ring.                     *)
LEMMA IInvOfRing ==
    ASSUME TypeOK
    PROVE  /\ HistoryIsLatest <=>
                 /\ Len(entries) <= HistorySize
                 /\ next_offset < U64Max =>
                      next_offset = Len(accepted) /\ Latest(entries, next_offset, accepted)
           /\ RingInOrder <=>
                 /\ \A p \in Publishers : calls[p] # Idle => calls[p].now <= clock
                 /\ InOrder(entries, next_offset, clock)
<1>1. next_offset \in Nat /\ Len(entries) \in Nat
  BY ChannelConstants DEF TypeOK
<1>2. \A i \in 1..Len(entries) :
        next_offset - Len(entries) + i - 1 + 1 = next_offset - Len(entries) + i
  BY <1>1
<1>3. Latest(entries, next_offset, accepted) <=>
        /\ Len(entries) <= next_offset
        /\ \A i \in 1..Len(entries) :
             /\ entries[i].offset = next_offset - Len(entries) + i - 1
             /\ entries[i].data = accepted[entries[i].offset + 1]
  BY <1>1, <1>2 DEF Latest
<1>4. QED
  BY <1>3 DEF HistoryIsLatest, RingInOrder, InOrder

(* A freshly built channel has an empty ring.                              *)
LEMMA InitIInv == Init => IInv
  BY ChannelConstants DEF Init, IInv, TypeOK, HistoryIsLatest, RingInOrder, Idle

(* replay_since changes the ring by eviction only.                         *)
LEMMA OnReplayIInv == IInv /\ OnReplay => IInv'
<1> SUFFICES ASSUME IInv, OnReplay PROVE IInv'
  OBVIOUS
<1> USE DEF IInv
<1>1. entries \in Seq(Entry) /\ clock \in Nat /\ next_offset \in Nat
  BY ChannelConstants DEF TypeOK
<1>2. PICK k \in 0..Len(entries) : SuffixOf(entries', entries, k)
  BY <1>1, EvictExpiredIsSuffix DEF OnReplay
<1>3. TypeOK'
  BY <1>2 DEF TypeOK, OnReplay, SuffixOf
<1>4. Len(entries') <= Len(entries)
  BY <1>1, <1>2 DEF SuffixOf
<1>5. /\ Latest(entries, next_offset, accepted) => Latest(entries', next_offset, accepted)
      /\ InOrder(entries, next_offset, clock) => InOrder(entries', next_offset, clock)
  BY <1>1, <1>2, SuffixKeeps
<1>6. /\ clock' = clock /\ calls' = calls /\ next_offset' = next_offset
      /\ accepted' = accepted
  BY DEF OnReplay
<1>7. Len(entries') <= HistorySize
  BY <1>1, <1>3, <1>4, ChannelConstants DEF HistoryIsLatest, TypeOK
<1>8. HistoryIsLatest'
  <2>1. next_offset' < U64Max =>
          next_offset' = Len(accepted') /\ Latest(entries', next_offset', accepted')
    BY <1>5, <1>6, IInvOfRing
  <2>2. Len(entries') \in Nat /\ next_offset' \in Nat
    BY <1>1, <1>3, <1>6 DEF TypeOK
  <2>3. ASSUME next_offset' < U64Max
        PROVE  /\ Len(entries') <= next_offset'
               /\ \A i \in 1..Len(entries') :
                    /\ entries'[i].offset = next_offset' - Len(entries') + i - 1
                    /\ entries'[i].data = accepted'[entries'[i].offset + 1]
    BY <2>1, <2>2, <2>3, LatestHistory
  <2> HIDE DEF IInv
  <2> QED
    BY <1>7, <2>1, <2>3, Zenon DEF HistoryIsLatest
<1>9. RingInOrder'
  BY <1>5, <1>6, IInvOfRing DEF RingInOrder, InOrder
<1> QED
  BY <1>3, <1>8, <1>9

(* on_publish preserves the invariant: evict, append, trim.                *)
LEMMA OnPublishIInv ==
    ASSUME IInv, NEW p \in Publishers, OnPublish(p)
    PROVE  IInv'
<1> USE DEF IInv
<1> DEFINE e == [offset |-> next_offset, inserted_at |-> calls[p].now,
                 entered_at |-> clock, data |-> calls[p].data]
           mid == EvictExpired(entries, calls[p].now)
<1>1. calls[p] \in Call /\ calls[p].now <= clock
  BY DEF OnPublish, TypeOK, RingInOrder
<1>2. /\ clock \in Nat /\ entries \in Seq(Entry) /\ accepted \in Seq(Payloads)
      /\ next_offset \in Nat /\ next_offset <= U64Max /\ U64Max \in Nat
      /\ calls[p].now \in Nat /\ calls[p].data \in Payloads
  BY <1>1, ChannelConstants DEF TypeOK, Call
<1>3. /\ e \in Entry /\ e.offset = next_offset /\ e.inserted_at <= clock
      /\ e.entered_at = clock /\ e.data = calls[p].data
  BY <1>1, <1>2 DEF Entry
<1>4. /\ clock' = clock /\ epoch' = epoch
      /\ entries' = TrimToSize(Append(mid, e))
      /\ next_offset' = SaturatingSucc(next_offset)
      /\ accepted' = Append(accepted, e.data)
      /\ calls' = [calls EXCEPT ![p] = Idle]
  BY <1>3 DEF OnPublish
<1>5. PICK k \in 0..Len(entries) : SuffixOf(mid, entries, k)
  BY <1>2, EvictExpiredIsSuffix, Zenon
<1> HIDE DEF mid, e
<1>6. mid \in Seq(Entry) /\ Append(mid, e) \in Seq(Entry)
  BY <1>3, <1>5 DEF SuffixOf
<1>7. PICK m \in 0..Len(Append(mid, e)) :
        /\ SuffixOf(entries', Append(mid, e), m)
        /\ Len(entries') <= HistorySize
  BY <1>4, <1>6, TrimToSizeIsSuffix, Zenon
<1>8. /\ next_offset' \in Nat /\ next_offset' <= U64Max /\ next_offset <= next_offset'
      /\ next_offset' < U64Max => next_offset < U64Max /\ next_offset' = next_offset + 1
  BY <1>2, <1>4 DEF SaturatingSucc
<1>9. TypeOK'
  <2>1. entries' \in Seq(Entry) /\ accepted' \in Seq(Payloads)
    BY <1>2, <1>3, <1>4, <1>7 DEF SuffixOf, Entry
  <2>2. calls' \in [Publishers -> Call \union {Idle}]
    BY <1>4 DEF TypeOK
  <2> QED
    BY <1>2, <1>4, <1>8, <2>1, <2>2 DEF TypeOK
<1>10. ASSUME next_offset' < U64Max
       PROVE  next_offset' = Len(accepted') /\ Latest(entries', next_offset', accepted')
  <2>1. next_offset = Len(accepted) /\ Latest(entries, next_offset, accepted)
    BY <1>8, <1>10, IInvOfRing
  <2>2. Latest(mid, next_offset, accepted)
    BY <1>2, <1>5, <2>1, SuffixKeeps
  <2>3. Latest(Append(mid, e), next_offset + 1, accepted')
    BY <1>2, <1>3, <1>4, <1>6, <2>1, <2>2, AppendKeeps
  <2>4. Latest(entries', next_offset + 1, accepted')
    <3> DEFINE n == next_offset + 1
               app == Append(mid, e)
    <3>1. n \in Nat /\ Latest(app, n, accepted') /\ app \in Seq(Entry)
      BY <1>2, <1>6, <2>3
    <3>2. m \in 0..Len(app) /\ SuffixOf(entries', app, m)
      BY <1>7
    <3> HIDE DEF n, app
    <3>3. Latest(entries', n, accepted')
      BY <1>2, <3>1, <3>2, SuffixKeeps, Zenon
    <3> QED
      BY <3>3 DEF n
  <2>5. Len(accepted') = next_offset + 1
    BY <1>2, <1>3, <1>4, <2>1 DEF Entry
  <2> QED
    BY <1>8, <1>10, <2>4, <2>5
<1>11. InOrder(entries', next_offset', clock')
  <2>1. InOrder(entries, next_offset, clock)
    BY IInvOfRing
  <2>2. InOrder(mid, next_offset, clock)
    BY <1>2, <1>5, <2>1, SuffixKeeps, Zenon
  <2>3. InOrder(Append(mid, e), next_offset', clock)
    BY <1>2, <1>3, <1>6, <1>8, <2>2, AppendKeeps
  <2> QED
    BY <1>2, <1>4, <1>6, <1>7, <1>8, <2>3, SuffixKeeps, Zenon
<1>12. \A q \in Publishers : calls'[q] # Idle => calls'[q].now <= clock'
  BY <1>4 DEF RingInOrder, TypeOK
<1>13. HistoryIsLatest'
  <2>1. next_offset' < U64Max =>
          next_offset' = Len(accepted') /\ Latest(entries', next_offset', accepted')
    BY <1>10
  <2>2. Len(entries') \in Nat
    BY <1>9 DEF TypeOK
  <2>3. ASSUME next_offset' < U64Max
        PROVE  /\ Len(entries') <= next_offset'
               /\ \A i \in 1..Len(entries') :
                    /\ entries'[i].offset = next_offset' - Len(entries') + i - 1
                    /\ entries'[i].data = accepted'[entries'[i].offset + 1]
    BY <1>8, <2>1, <2>2, <2>3, LatestHistory, Zenon
  <2> HIDE DEF IInv
  <2> QED
    BY <1>7, <2>1, <2>3, Zenon DEF HistoryIsLatest
<1>14. RingInOrder'
  BY <1>11, <1>12 DEF RingInOrder, InOrder
<1> QED
  BY <1>9, <1>13, <1>14

(* Every step of every publisher, replayer and restart keeps the invariant. *)
LEMMA NextIInv == IInv /\ [Next]_vars => IInv'
<1> SUFFICES ASSUME IInv, [Next]_vars PROVE IInv'
  OBVIOUS
<1> USE DEF IInv
<1>1. CASE Tick
  <2>1. TypeOK' /\ HistoryIsLatest'
    BY <1>1 DEF Tick, TypeOK, HistoryIsLatest
  <2>2. \A i \in 1..Len(entries) : entries[i] \in Entry
    BY DEF TypeOK
  <2>3. /\ clock \in Nat /\ clock' = clock + 1 /\ calls' = calls
        /\ entries' = entries /\ next_offset' = next_offset
    BY <1>1 DEF Tick, TypeOK
  <2>4. \A p \in Publishers : calls[p] # Idle => calls[p].now \in Nat
    BY Zenon DEF TypeOK, Call
  <2>5. \A p \in Publishers : calls'[p] # Idle => calls'[p].now <= clock'
    BY <2>3, <2>4 DEF RingInOrder
  <2>6. \A i \in 1..Len(entries) : entries[i].entered_at \in Nat
    BY <2>2 DEF Entry
  <2>7. \A i \in 1..Len(entries) : entries[i].entered_at <= clock'
    BY <2>3, <2>6 DEF RingInOrder
  <2>8. RingInOrder'
    BY <2>3, <2>5, <2>7 DEF RingInOrder
  <2> QED
    BY <2>1, <2>8
<1>2. CASE \E p \in Publishers, d \in Payloads : ReadClock(p, d)
  <2> PICK p \in Publishers, d \in Payloads : ReadClock(p, d)
    BY <1>2
  <2>1. TypeOK'
    BY Zenon DEF ReadClock, TypeOK, Call
  <2>2. HistoryIsLatest'
    BY DEF ReadClock, HistoryIsLatest
  <2>3. RingInOrder'
    BY DEF ReadClock, TypeOK, RingInOrder
  <2> QED
    BY <2>1, <2>2, <2>3
<1>3. CASE \E p \in Publishers : OnPublish(p)
  BY <1>3, OnPublishIInv
<1>4. CASE OnReplay
  BY <1>4, OnReplayIInv
<1>5. CASE Restart
  BY <1>5, ChannelConstants DEF Restart, TypeOK, HistoryIsLatest, RingInOrder, Idle
<1>6. CASE UNCHANGED vars
  BY <1>6 DEF vars, TypeOK, HistoryIsLatest, RingInOrder
<1> QED
  BY <1>1, <1>2, <1>3, <1>4, <1>5, <1>6 DEF Next

-----------------------------------------------------------------------------
(* The variables keep their types in every reachable state.                *)
THEOREM TypeCorrect == Spec => []TypeOK
<1>1. IInv => TypeOK
  BY DEF IInv
<1> QED
  BY <1>1, InitIInv, NextIInv, PTL DEF Spec

(* The ring is always the run of the latest publications, with consecutive *)
(* offsets, the payload accepted under each, and at most history_size.     *)
THEOREM HistoryTheorem == Spec => []HistoryIsLatest
<1>1. IInv => HistoryIsLatest
  BY DEF IInv
<1> QED
  BY <1>1, InitIInv, NextIInv, PTL DEF Spec

(* A replay never scans an entry that entered the ring more than           *)
(* history_ttl ago: the front of the evicted ring is live, and the entries *)
(* behind it entered later.                                                *)
THEOREM ReplayTtlTheorem == Spec => []ReplayWithinTtl
<1>1. IInv => ReplayWithinTtl
  <2> SUFFICES ASSUME IInv PROVE ReplayWithinTtl
    OBVIOUS
  <2> USE DEF IInv
  <2> DEFINE ring == EvictExpired(entries, clock)
  <2>1. entries \in Seq(Entry) /\ clock \in Nat /\ HistoryTtl \in Nat
    BY ChannelConstants DEF TypeOK
  <2>2. PICK k \in 0..Len(entries) :
          SuffixOf(ring, entries, k) /\ (k < Len(entries) => ~Expired(entries[k + 1], clock))
    BY <2>1, EvictExpiredIsSuffix
  <2> HIDE DEF ring
  <2>3. ASSUME NEW i \in 1..Len(ring)
        PROVE  clock - ring[i].entered_at <= HistoryTtl
    <3>1. /\ k + i \in 1..Len(entries) /\ k + 1 \in 1..Len(entries) /\ k < Len(entries)
          /\ ring[i] = entries[k + i] /\ k + 1 <= k + i
      BY <2>1, <2>2 DEF SuffixOf
    <3>2. entries[k + 1] \in Entry /\ entries[k + i] \in Entry
      BY <2>1, <3>1
    <3>3. clock - entries[k + 1].inserted_at <= HistoryTtl
      <4> DEFINE a == entries[k + 1].inserted_at
      <4>1. ~(clock - a > HistoryTtl)
        BY <2>2, <3>1 DEF Expired
      <4>2. a \in Nat
        BY <3>2 DEF Entry
      <4> HIDE DEF a
      <4>3. clock - a <= HistoryTtl
        BY <2>1, <4>1, <4>2
      <4> QED
        BY <4>3 DEF a
    <3>4. entries[k + 1].inserted_at <= entries[k + 1].entered_at
      BY <3>1 DEF RingInOrder
    <3>5. entries[k + 1].entered_at <= entries[k + i].entered_at
      <4>1. CASE i = 1
        BY <4>1, <3>2 DEF Entry
      <4>2. CASE i # 1
        <5>1. k + 1 < k + i
          BY <4>2, <2>1, <2>2 DEF SuffixOf
        <5> QED
          BY <5>1, <3>1 DEF RingInOrder
      <4> QED
        BY <4>1, <4>2
    <3>6. /\ entries[k + 1].inserted_at \in Nat /\ entries[k + 1].entered_at \in Nat
          /\ entries[k + i].entered_at \in Nat
      BY <3>2 DEF Entry
    <3>7. clock - entries[k + i].entered_at <= HistoryTtl
      <4> DEFINE a == entries[k + 1].inserted_at
                 b == entries[k + 1].entered_at
                 c == entries[k + i].entered_at
      <4>1. a \in Nat /\ b \in Nat /\ c \in Nat /\ a <= b /\ b <= c /\ clock - a <= HistoryTtl
        BY <3>3, <3>4, <3>5, <3>6
      <4> HIDE DEF a, b, c
      <4>2. clock - c <= HistoryTtl
        BY <2>1, <4>1
      <4> QED
        BY <4>2 DEF c
    <3> QED
      BY <3>1, <3>7
  <2> QED
    BY <2>3 DEF ReplayWithinTtl, ring
<1> QED
  BY <1>1, InitIInv, NextIInv, PTL DEF Spec

(* The ring is in the order in which publishers held the lock, whatever    *)
(* their stamps say, also where offsets saturate.                          *)
THEOREM RingOrderTheorem == Spec => []RingInOrder
<1>1. IInv => RingInOrder
  BY DEF IInv
<1> QED
  BY <1>1, InitIInv, NextIInv, PTL DEF Spec

-----------------------------------------------------------------------------
(* Picking the k-th member of an interval picks its k-th number.           *)
LEMMA KthOfInterval ==
    ASSUME NEW a \in Nat, NEW l \in Nat, a <= l, NEW k \in 1..(l - a)
    PROVE  Kth((a + 1)..l, k) = a + k
<1>1. ASSUME NEW i \in (a + 1)..l
      PROVE  Cardinality({j \in (a + 1)..l : j <= i}) = i - a
  <2>1. {j \in (a + 1)..l : j <= i} = (a + 1)..i
    OBVIOUS
  <2>2. Cardinality((a + 1)..i) = i - (a + 1) + 1
    <3>1. a + 1 \in Int /\ i \in Int /\ ~(a + 1 > i)
      OBVIOUS
    <3> QED BY <3>1, FS_Interval
  <2>3. i - (a + 1) + 1 = i - a
    OBVIOUS
  <2> QED BY <2>1, <2>2, <2>3, Zenon
<1>2. a + k \in (a + 1)..l /\ (a + k) - a = k
  OBVIOUS
<1>3. \A i \in (a + 1)..l : i - a = k => i = a + k
  OBVIOUS
<1> DEFINE P(i) == Cardinality({j \in (a + 1)..l : j <= i}) = k
<1>4. P(a + k) /\ \A i \in (a + 1)..l : P(i) => i = a + k
  BY <1>1, <1>2, <1>3
<1> HIDE DEF P
<1>5. (CHOOSE i \in (a + 1)..l : P(i)) = a + k
  BY <1>2, <1>4
<1> QED BY <1>5 DEF P, Kth

(* What replay_since scans is a run of the latest publications, like the   *)
(* ring it is a suffix of.                                                 *)
LEMMA LiveRingIsLatest ==
    ASSUME IInv, next_offset < U64Max
    PROVE  /\ EvictExpired(entries, clock) \in Seq(Entry)
           /\ Latest(EvictExpired(entries, clock), next_offset, accepted)
<1> DEFINE ring == EvictExpired(entries, clock)
<1>1. next_offset \in Nat /\ entries \in Seq(Entry) /\ clock \in Nat
  BY ChannelConstants DEF IInv, TypeOK
<1>2. PICK k \in 0..Len(entries) : SuffixOf(ring, entries, k)
  BY <1>1, EvictExpiredIsSuffix
<1>3. Latest(entries, next_offset, accepted)
  BY IInvOfRing DEF IInv
<1> HIDE DEF ring
<1>4. ring \in Seq(Entry) /\ Latest(ring, next_offset, accepted)
  BY <1>1, <1>2, <1>3, SuffixKeeps, Zenon DEF SuffixOf
<1> QED BY <1>4 DEF ring

(* replay_since returns a suffix of the live ring: its filter lets through *)
(* the offsets above since, and offsets grow along the ring by one.        *)
LEMMA ReplayIsSuffix ==
    ASSUME IInv, next_offset < U64Max, NEW since \in 0..next_offset
    PROVE  \E a \in 0..Len(EvictExpired(entries, clock)) :
             /\ SuffixOf(ReplaySince(since), EvictExpired(entries, clock), a)
             /\ \A i \in 1..Len(ReplaySince(since)) : ReplaySince(since)[i].offset > since
             /\ a # 0 => since + 1 + Len(ReplaySince(since)) >= next_offset
<1> DEFINE ring == EvictExpired(entries, clock)
           l == Len(ring)
           n == next_offset
           newer == {i \in 1..l : ring[i].offset > since}
           c == since + 1 - n + l
           a == IF c < 0 THEN 0 ELSE IF c > l THEN l ELSE c
           out == ReplaySince(since)
<1>1. n \in Nat /\ entries \in Seq(Entry) /\ clock \in Nat /\ since \in Nat /\ since <= n
  BY ChannelConstants DEF IInv, TypeOK
<1>2. ring \in Seq(Entry) /\ Latest(ring, n, accepted)
  BY LiveRingIsLatest
<1>3. out = [k \in 1..Cardinality(newer) |-> ring[Kth(newer, k)]]
  BY DEF ReplaySince
<1>4. /\ l \in Nat /\ l <= n
      /\ \A i \in 1..l : ring[i] \in Entry /\ ring[i].offset = n - l + i - 1
  BY <1>2 DEF Latest
<1> HIDE DEF ring, l, n, out
<1>5. c \in Int /\ a \in 0..l
  BY <1>1, <1>4
<1>6. newer = (a + 1)..l
  <2>1. ASSUME NEW i \in 1..l PROVE ring[i].offset > since <=> i > a
    <3> DEFINE o == ring[i].offset
    <3>1. o = n - l + i - 1
      BY <1>4
    <3> HIDE DEF o
    <3>2. o > since <=> i > a
      BY <1>1, <1>4, <3>1
    <3> QED BY <3>2 DEF o
  <2>2. \A i \in 1..l : i > a <=> i \in (a + 1)..l
    BY <1>4, <1>5
  <2>3. \A i \in (a + 1)..l : i \in 1..l
    BY <1>4, <1>5
  <2> HIDE DEF a
  <2> QED BY <2>1, <2>2, <2>3
<1>7. a # 0 => since + 1 + (l - a) >= n
  BY <1>1, <1>4, <1>5
<1>8. \A i \in (a + 1)..l : ring[i].offset > since
  <2> HIDE DEF a
  <2> QED BY <1>6
<1> HIDE DEF newer, a, c
<1>9. Cardinality(newer) = l - a
  <2>1. a + 1 \in Int /\ l \in Int /\ (IF a + 1 > l THEN 0 ELSE l - (a + 1) + 1) = l - a
    BY <1>4, <1>5
  <2> QED BY <1>6, <2>1, FS_Interval
<1>10. out = [k \in 1..(l - a) |-> ring[a + k]]
  <2>1. \A k \in 1..(l - a) : Kth(newer, k) = a + k
    BY <1>4, <1>5, <1>6, KthOfInterval
  <2> QED BY <1>3, <1>9, <2>1
<1>11. \A k \in 1..(l - a) : a + k \in 1..l /\ a + k \in (a + 1)..l
  BY <1>4, <1>5
<1>12. l - a \in Nat
  BY <1>4, <1>5
<1>13. out \in Seq(Entry) /\ Len(out) = l - a /\ \A k \in 1..(l - a) : out[k] = ring[a + k]
  <2> DEFINE b == l - a
  <2>1. b \in Nat /\ out = [k \in 1..b |-> ring[a + k]] /\ \A k \in 1..b : ring[a + k] \in Entry
    BY <1>4, <1>10, <1>11, <1>12
  <2> HIDE DEF b
  <2>2. out \in Seq(Entry) /\ Len(out) = b /\ \A k \in 1..b : out[k] = ring[a + k]
    BY <2>1
  <2> QED BY <2>2 DEF b
<1>14. SuffixOf(out, ring, a)
  BY <1>13 DEF SuffixOf, l
<1>15. \A i \in 1..Len(out) : out[i].offset > since
  BY <1>8, <1>11, <1>13
<1>16. a # 0 => since + 1 + Len(out) >= n
  BY <1>7, <1>13
<1> QED BY <1>5, <1>14, <1>15, <1>16 DEF l, ring, out, n

(* What the code returns whether or not since is still retained: the       *)
(* entries above since, short of since + 1 only where the live ring is.    *)
ReplayIsRetainedTail ==
    next_offset < U64Max =>
      \A since \in 0..next_offset :
        LET out == ReplaySince(since)
            ring == EvictExpired(entries, clock)
        IN  /\ \A i \in 1..Len(out) :
                 /\ out[i].offset = next_offset - Len(out) + i - 1
                 /\ out[i].offset > since
                 /\ out[i].data = accepted[out[i].offset + 1]
            /\ since + 1 + Len(out) < next_offset => Len(out) = Len(ring)

(* The invariant has every replay be the retained tail.                    *)
LEMMA ReplayTail == IInv => ReplayIsRetainedTail
<1> SUFFICES ASSUME IInv, next_offset < U64Max, NEW since \in 0..next_offset
             PROVE  LET out == ReplaySince(since)
                        ring == EvictExpired(entries, clock)
                    IN  /\ \A i \in 1..Len(out) :
                             /\ out[i].offset = next_offset - Len(out) + i - 1
                             /\ out[i].offset > since
                             /\ out[i].data = accepted[out[i].offset + 1]
                        /\ since + 1 + Len(out) < next_offset => Len(out) = Len(ring)
  BY DEF ReplayIsRetainedTail
<1> DEFINE out == ReplaySince(since)
           ring == EvictExpired(entries, clock)
<1>1. PICK a \in 0..Len(ring) :
        /\ SuffixOf(out, ring, a)
        /\ \A i \in 1..Len(out) : out[i].offset > since
        /\ a # 0 => since + 1 + Len(out) >= next_offset
  BY ReplayIsSuffix
<1>2. next_offset \in Nat /\ clock \in Nat
  BY ChannelConstants DEF IInv, TypeOK
<1>3. ring \in Seq(Entry) /\ Latest(ring, next_offset, accepted)
  BY LiveRingIsLatest
<1> HIDE DEF out, ring
<1>4. Latest(out, next_offset, accepted) /\ Len(out) \in Nat
  <2>1. out \in Seq(Entry) /\ Len(out) \in Nat
    BY <1>1 DEF SuffixOf
  <2>2. Latest(out, next_offset, accepted)
    BY <1>1, <1>2, <1>3, SuffixKeeps
  <2> QED BY <2>1, <2>2
<1>5. \A i \in 1..Len(out) :
        out[i].offset = next_offset - Len(out) + i - 1 /\ out[i].data = accepted[out[i].offset + 1]
  BY <1>2, <1>4, LatestHistory
<1>6. since + 1 + Len(out) < next_offset => Len(out) = Len(ring)
  <2>1. Len(out) = Len(ring) - a /\ Len(ring) \in Nat
    BY <1>1, <1>3 DEF SuffixOf
  <2> QED BY <1>1, <1>2, <1>4, <2>1
<1> QED BY <1>1, <1>5, <1>6 DEF out, ring

(* A retained tail has no hole, and is whole while since is retained.      *)
LEMMA ReplayWhole == IInv => ReplayHasNoHole
<1> SUFFICES ASSUME IInv, next_offset < U64Max, NEW since \in 0..next_offset
             PROVE  LET out == ReplaySince(since)
                        ring == EvictExpired(entries, clock)
                    IN  /\ \A i \in 1..Len(out) :
                             /\ out[i].offset = next_offset - Len(out) + i - 1
                             /\ out[i].offset > since
                             /\ out[i].data = accepted[out[i].offset + 1]
                        /\ next_offset - Len(ring) <= since => since + 1 + Len(out) >= next_offset
  BY DEF ReplayHasNoHole
<1> DEFINE out == ReplaySince(since)
           ring == EvictExpired(entries, clock)
<1>1. /\ \A i \in 1..Len(out) :
            /\ out[i].offset = next_offset - Len(out) + i - 1
            /\ out[i].offset > since
            /\ out[i].data = accepted[out[i].offset + 1]
      /\ since + 1 + Len(out) < next_offset => Len(out) = Len(ring)
  BY ReplayTail DEF ReplayIsRetainedTail
<1>2. next_offset \in Nat
  BY ChannelConstants DEF IInv, TypeOK
<1>3. ring \in Seq(Entry)
  BY LiveRingIsLatest
<1>4. out \in Seq(Entry)
  BY ReplayIsSuffix DEF SuffixOf
<1> HIDE DEF out, ring
<1>5. Len(ring) \in Nat /\ Len(out) \in Nat
  BY <1>3, <1>4
<1>6. next_offset - Len(ring) <= since => since + 1 + Len(out) >= next_offset
  BY <1>1, <1>2, <1>5
<1> QED BY <1>1, <1>6 DEF out, ring

(* A resuming subscriber is never handed a history with a hole in it: the  *)
(* replay is consecutive, ends at the latest publication, carries what was *)
(* accepted under each offset, and is whole while since is retained.       *)
THEOREM ReplayTheorem == Spec => []ReplayHasNoHole
  BY ReplayWhole, InitIInv, NextIInv, PTL DEF Spec
=============================================================================
