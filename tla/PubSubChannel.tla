---------------------------- MODULE PubSubChannel ----------------------------
(***************************************************************************)
(* The pub/sub channel kind (cherenkov-channel-pubsub): a ring of recent   *)
(* publications with a size cap and a TTL, offsets assigned under the      *)
(* channel's lock, replay for resuming subscribers.                        *)
(*                                                                         *)
(* The module is about ONE channel: the entries of PubSubChannel::state    *)
(* are independent of each other.  Concurrency is that of the callers of   *)
(* on_publish: each reads Instant::now() before it takes the lock, so two  *)
(* publishers may enter the history in the opposite order of their stamps. *)
(***************************************************************************)
EXTENDS Integers, Sequences, FiniteSets

CONSTANTS
    Publishers,     \* concurrent callers of on_publish
    Payloads,       \* what they publish
    HistorySize,    \* history_size, after with_bounds clamped it to >= 1
    HistoryTtl,     \* history_ttl, in clock ticks
    U64Max,         \* the value at which saturating_add stops
    MaxTime,        \* bound: the clock stops here
    MaxAccepted     \* bound: publications accepted between two restarts

ASSUME ChannelConstants ==
    /\ HistorySize \in Nat \ {0}
    /\ HistoryTtl \in Nat
    /\ U64Max \in Nat
    /\ MaxTime \in Nat
    /\ MaxAccepted \in Nat

VARIABLES
    clock,          \* Instant::now()
    calls,          \* publisher -> its running on_publish, or Idle
    epoch,          \* PubSubChannel::epoch
    next_offset,    \* ChannelState::next_offset
    entries,        \* ChannelState::entries, oldest first
    accepted        \* history variable: every payload accepted since start

vars == <<clock, calls, epoch, next_offset, entries, accepted>>

Idle == [running |-> FALSE]
Call == [running : {TRUE}, now : Nat, data : Payloads]

\* A HistoryEntry, with the instant at which it really entered the ring
\* (entered_at is a history field: the code keeps only inserted_at).
Entry == [offset : Nat, inserted_at : Nat, entered_at : Nat, data : Payloads]

-----------------------------------------------------------------------------
\* Variants after a definition's name plus a suffix are the slips in the code
\* that the runs must notice; no specification uses them.
ExpiredOneLate(e, now) == now - e.inserted_at > HistoryTtl + 1

Expired(e, now) == now - e.inserted_at > HistoryTtl

\* Popping expired fronts removes the longest expired prefix: a live front
\* shields whatever is behind it.
ExpiredPrefix(es, now) == {i \in 1..Len(es) : \A j \in 1..i : Expired(es[j], now)}

EvictExpiredAnywhere(es, now) == SelectSeq(es, LAMBDA e : ~Expired(e, now))

EvictExpired(es, now) == SubSeq(es, Cardinality(ExpiredPrefix(es, now)) + 1, Len(es))

TrimToSizeFromBack(es) == IF Len(es) > HistorySize THEN SubSeq(es, 1, HistorySize) ELSE es

TrimToSize(es) ==
    IF Len(es) > HistorySize THEN SubSeq(es, Len(es) - HistorySize + 1, Len(es)) ELSE es

SaturatingSuccUnchecked(n) == n + 1
SaturatingSuccWrapping(n) == IF n < U64Max THEN n + 1 ELSE 0

SaturatingSucc(n) == IF n < U64Max THEN n + 1 ELSE n

Cursor == [epoch |-> epoch, offset |-> IF next_offset = 0 THEN 0 ELSE next_offset - 1]

\* The k-th smallest of a set of numbers.
Kth(S, k) == CHOOSE i \in S : Cardinality({j \in S : j <= i}) = k

\* The live entries newer than since, in the order of the ring.
ReplaySince(since) ==
    LET ring == EvictExpired(entries, clock)
        newer == {i \in 1..Len(ring) : ring[i].offset > since}
    IN  [k \in 1..Cardinality(newer) |-> ring[Kth(newer, k)]]

-----------------------------------------------------------------------------
Init ==
    /\ clock = 0
    /\ calls = [p \in Publishers |-> Idle]
    /\ epoch = 1
    /\ next_offset = 0
    /\ entries = <<>>
    /\ accepted = <<>>

Tick ==
    /\ clock < MaxTime
    /\ clock' = clock + 1
    /\ UNCHANGED <<calls, epoch, next_offset, entries, accepted>>

\* on_publish up to `let now = Instant::now()`.
ReadClock(p, d) ==
    /\ calls[p] = Idle
    /\ calls' = [calls EXCEPT ![p] = [running |-> TRUE, now |-> clock, data |-> d]]
    /\ UNCHANGED <<clock, epoch, next_offset, entries, accepted>>

\* The rest of on_publish, under the shard and the channel lock.
OnPublish(p) ==
    /\ calls[p] # Idle
    /\ Len(accepted) < MaxAccepted
    /\ LET e == [offset |-> next_offset, inserted_at |-> calls[p].now,
                 entered_at |-> clock, data |-> calls[p].data]
       IN  entries' = TrimToSize(Append(EvictExpired(entries, calls[p].now), e))
    /\ next_offset' = SaturatingSucc(next_offset)
    /\ accepted' = Append(accepted, calls[p].data)
    /\ calls' = [calls EXCEPT ![p] = Idle]
    /\ UNCHANGED <<clock, epoch>>

\* replay_since evicts before it scans; its answer is ReplaySince.
OnReplay ==
    /\ entries' = EvictExpired(entries, clock)
    /\ UNCHANGED <<clock, calls, epoch, next_offset, accepted>>

\* The process restarts: a new PubSubChannel is built by with_bounds.
Restart ==
    /\ calls' = [p \in Publishers |-> Idle]
    /\ epoch' = 1
    /\ next_offset' = 0
    /\ entries' = <<>>
    /\ accepted' = <<>>
    /\ UNCHANGED clock

Next ==
    \/ Tick
    \/ \E p \in Publishers, d \in Payloads : ReadClock(p, d)
    \/ \E p \in Publishers : OnPublish(p)
    \/ OnReplay
    \/ Restart

Spec == Init /\ [][Next]_vars

-----------------------------------------------------------------------------
TypeOK ==
    /\ clock \in Nat
    /\ calls \in [Publishers -> Call \union {Idle}]
    /\ epoch \in Nat
    /\ next_offset \in 0..U64Max
    /\ entries \in Seq(Entry)
    /\ accepted \in Seq(Payloads)

(* on_publish keeps the ring, under both evictions and every order of two  *)
(* publishers, equal to the latest publications: consecutive offsets that  *)
(* end just below next_offset, each with the payload accepted under it,    *)
(* and never more than history_size.  (Until the offset counter saturates.) *)
HistoryIsLatest ==
    /\ Len(entries) <= HistorySize
    /\ next_offset < U64Max =>
         /\ next_offset = Len(accepted)
         /\ Len(entries) <= next_offset
         /\ \A i \in 1..Len(entries) :
              /\ entries[i].offset = next_offset - Len(entries) + i - 1
              /\ entries[i].data = accepted[entries[i].offset + 1]

(* The ring is ordered by the instant its entries really entered it, no    *)
(* entry is stamped later than that, and offsets never run backwards, not  *)
(* even where the counter saturates and publications share the last one.   *)
RingInOrder ==
    /\ \A p \in Publishers : calls[p] # Idle => calls[p].now <= clock
    /\ \A i \in 1..Len(entries) :
         /\ entries[i].inserted_at <= entries[i].entered_at
         /\ entries[i].entered_at <= clock
         /\ entries[i].offset <= next_offset
    /\ \A i, j \in 1..Len(entries) : i < j =>
         /\ entries[i].entered_at <= entries[j].entered_at
         /\ entries[i].offset <= entries[j].offset

(* replay_since(since) leaves no hole: what it returns is a run of         *)
(* consecutive offsets above since that ends at the latest publication,    *)
(* each with the payload accepted under it; and as long as since itself is *)
(* retained, it is everything after since.  (For a since that was evicted  *)
(* the code returns the retained tail and channel.rs promises an empty     *)
(* Vec; the property holds of both.)                                       *)
ReplayHasNoHole ==
    next_offset < U64Max =>
      \A since \in 0..next_offset :
        LET out == ReplaySince(since)
            ring == EvictExpired(entries, clock)
        IN  /\ \A i \in 1..Len(out) :
                 /\ out[i].offset = next_offset - Len(out) + i - 1
                 /\ out[i].offset > since
                 /\ out[i].data = accepted[out[i].offset + 1]
            /\ next_offset - Len(ring) <= since => since + 1 + Len(out) >= next_offset

(* Whatever replay_since scans entered the ring at most history_ttl ago,   *)
(* although publishers stamp their entries before they hold the lock.      *)
ReplayWithinTtl ==
    LET ring == EvictExpired(entries, clock)
    IN  \A i \in 1..Len(ring) : clock - ring[i].entered_at <= HistoryTtl
=============================================================================
