--------------------------- MODULE SseEndpointProofs ---------------------------
(***************************************************************************)
(* For any number of HTTP requests, admin calls, queries and ways to build *)
(* the hub, and any interleaving of the handlers, of streams, kicks and    *)
(* clients that go away: the session counters account for the table, an    *)
(* answered request leaves no session behind, a status tells what was      *)
(* done, the admin API reports each removal once and rows that were true,  *)
(* and a query of any length is read as the channels it names.             *)
(*                                                                         *)
(* The state splits by request and by call, and so does the invariant:     *)
(* Journey is what one handler has achieved when it is at a program point, *)
(* Removers are the calls that took one session out of the table, and      *)
(* RowsTrue is about the rows of one call.  What a row says stays true     *)
(* because claims and subscriptions of a session only ever grow.           *)
(*                                                                         *)
(* The decoder is a loop.  That it computes anything at all, and what it   *)
(* computes from each place where the client began to write a byte, both   *)
(* follow from the least member of a set of numbers: the distance from the *)
(* end at which the claim would first fail.                                *)
(***************************************************************************)
EXTENDS SseEndpoint, FiniteSetTheorems, SequenceTheorems, WellFoundedInduction, TLAPS

(* A leaf is set theory, and Zenon\'s, unless it cites another prover.        *)
USE Zenon

Pcs == Handling \union {"none", "streaming", "ended", "count_ended", "answered", "dropped"}
Counts == {"count_failed", "count_ended"}
CallFields == {"pc", "input", "rows", "reply", "removed"}
RowFields == {"id", "subject", "channels"}

Shape ==
    /\ input = [r \in Requests |-> input[r]] /\ channels = [r \in Requests |-> channels[r]]
    /\ pc \in [Requests -> Pcs]
    /\ next = [r \in Requests |-> next[r]] /\ status = [r \in Requests |-> status[r]]
    /\ claims = [r \in Requests |-> claims[r]] /\ subs = [r \in Requests |-> subs[r]]
    /\ effect = [r \in Requests |-> effect[r]]
    /\ registered \subseteq Requests
    /\ opened \in Nat /\ closed \in Nat /\ kicked \in Nat
    /\ admin = [a \in AdminCalls |-> admin[a]]
    /\ \A a \in AdminCalls : DOMAIN admin[a] = CallFields

\* A handler that has not opened its session, or has closed it, is not in
\* the table.
Unlisted == \A r \in Requests : pc[r] \in {"none", "answered"} \union Counts => r \notin registered

\* The calls that took r out of the table.
Removers(r) ==
    {a \in AdminCalls : /\ admin[a].input # NoInput /\ admin[a].input.target = r
                        /\ admin[a].removed \/ AtCall(a, "count")}

RemovedOnce ==
    \A r \in Requests :
      /\ pc[r] \in {"none"} \union Counts \/ r \in registered => Removers(r) = {}
      /\ \A a, b \in Removers(r) : a = b

RowTrue(row) ==
    /\ DOMAIN row = RowFields /\ row.id \in Requests /\ pc[row.id] # "none"
    /\ row.subject \in {NoInput, None, claims[row.id]}
    /\ row.channels # NoInput => row.channels \subseteq subs[row.id]

RowsTrue == \A a \in AdminCalls : \A row \in admin[a].rows : RowTrue(row)

\* What StatusTellsTheEffect says of one request.
Told(cfg, in, ch, st, cl, sb, ef) ==
    LET asked == Range(ch)
    IN  /\ ef # "none" =>
             /\ st \in {None, 200, 500} /\ cl # None
             /\ asked \intersect (cfg.denied \union cfg.rejected) = {}
        /\ st = 200 =>
             /\ cl # None
             /\ IF in.kind = "publish" THEN ef = "sent"
                ELSE /\ sb = asked /\ asked \intersect cfg.denied = {}
                     /\ Len(ch) = Cardinality(asked)

\* The channels before the one in hand are subscribed, each once.
Joined(cfg, ch, n, sb) ==
    /\ sb = {ch[i] : i \in 1..(n - 1)}
    /\ \A i \in 1..(n - 1) : ch[i] \notin cfg.denied
    /\ \A i, j \in 1..(n - 1) : ch[i] = ch[j] => i = j

Asks(in, ch) ==
    /\ IsSeq(ch) /\ Len(ch) > 0
    /\ in.kind \in {"subscribe", "publish"}
    /\ in.kind = "publish" => Len(ch) = 1

\* One request: what its handler holds, p is where it is.
Journey(cfg, in, ch, p, n, st, cl, sb, ef) ==
    /\ p \in {"none", "opened", "connect", "authenticate", "work", "await"} => ef = "none"
    /\ p \in {"none", "opened", "connect", "authenticate", "work", "await", "handed"} => st = None /\ st # 200
    /\ p \in {"none", "opened", "connect", "authenticate"} => n = 1 /\ sb = {}
    /\ p \in {"opened", "connect", "authenticate"} => cl = IF cfg.anonymous THEN "anonymous" ELSE None
    /\ p \in {"opened", "connect", "authenticate", "work", "await", "handed"} => Asks(in, ch)
    /\ p \in {"work", "await"} =>
         /\ n \in 1..(Len(ch) + 1)
         /\ n > 1 => cl # None
         /\ in.kind = "publish" => n = 1
         /\ in.kind = "subscribe" => Joined(cfg, ch, n, sb)
    /\ p = "await" =>
         /\ n <= Len(ch) /\ cl # None /\ ch[n] \notin cfg.denied
         /\ in.kind = "subscribe" => ch[n] \notin sb
         /\ in.kind = "publish" => ch[n] \notin cfg.rejected
    /\ p = "handed" =>
         /\ in.kind = "publish" /\ cl # None
         /\ Range(ch) \intersect (cfg.denied \union cfg.rejected) = {}
    /\ Told(cfg, in, ch, st, cl, sb, ef)

Journeys ==
    \A r \in Requests : Journey(config, input[r], channels[r], pc[r], next[r], status[r], claims[r], subs[r],
                                effect[r])

IInv == Shape /\ Unlisted /\ CountersBalance /\ RemovedOnce /\ RowsTrue /\ Journeys

-----------------------------------------------------------------------------
(* The table and its counters.                                             *)
Opening == {r \in Requests : pc[r] = "opened"}
Counting == {r \in Requests : pc[r] \in Counts}
Kicking == {a \in AdminCalls : AtCall(a, "count")}

Table == Unlisted /\ CountersBalance /\ RemovedOnce

LEMMA Sizes ==
    ASSUME Shape
    PROVE  /\ IsFiniteSet(Opening) /\ IsFiniteSet(Counting) /\ IsFiniteSet(Kicking) /\ IsFiniteSet(registered)
           /\ Cardinality(Opening) \in Nat /\ Cardinality(Counting) \in Nat
           /\ Cardinality(Kicking) \in Nat /\ Cardinality(registered) \in Nat
<1>1. IsFiniteSet(Requests) /\ IsFiniteSet(AdminCalls)
  BY EndpointConstants
<1>2. /\ Opening \in SUBSET Requests /\ Counting \in SUBSET Requests
      /\ Kicking \in SUBSET AdminCalls /\ registered \in SUBSET Requests
  BY DEF Opening, Counting, Kicking, Shape
<1>3. IsFiniteSet(Opening) /\ IsFiniteSet(Counting) /\ IsFiniteSet(Kicking) /\ IsFiniteSet(registered)
  BY <1>1, <1>2, FS_Subset
<1> QED BY <1>3, FS_CardinalityType

LEMMA BalanceIs ==
    CountersBalance <=>
      opened + Cardinality(Opening)
        = Cardinality(registered) + closed + kicked + Cardinality(Counting) + Cardinality(Kicking)
BY DEF CountersBalance, Opening, Counting, Kicking, Counts

LEMMA MoveSets ==
    ASSUME Shape, NEW r \in Requests, NEW l, Goto(r, l)
    PROVE  /\ pc'[r] = l /\ \A t \in Requests \ {r} : pc'[t] = pc[t]
           /\ Opening' = IF l = "opened" THEN Opening \union {r} ELSE Opening \ {r}
           /\ Counting' = IF l \in Counts THEN Counting \union {r} ELSE Counting \ {r}
<1>1. pc'[r] = l /\ \A t \in Requests \ {r} : pc'[t] = pc[t]
  BY DEF Shape, Goto
<1> QED BY <1>1, SMT DEF Opening, Counting

\* The shape of a step that neither opens nor closes: r goes on to l.
LEMMA QuietMove ==
    ASSUME IInv, NEW r \in Requests, NEW l \in Pcs \ ({"none", "opened"} \union Counts), Goto(r, l),
           pc[r] \notin {"opened"} \union Counts, l = "answered" => r \notin registered,
           UNCHANGED <<registered, counters, admin>>
    PROVE  Table'
<1>1. /\ pc'[r] = l /\ \A t \in Requests \ {r} : pc'[t] = pc[t]
      /\ Opening' = Opening \ {r} /\ Counting' = Counting \ {r}
  BY MoveSets DEF IInv
<1>2. Opening' = Opening /\ Counting' = Counting
  BY <1>1 DEF Opening, Counting
<1>3. Unlisted'
  BY <1>1 DEF IInv, Unlisted, Counts
<1>4. CountersBalance'
  <2>1. Kicking' = Kicking
    BY DEF Kicking, AtCall
  <2> QED BY <1>2, <2>1, BalanceIs DEF IInv, counters, CountersBalance, Opening, Counting, Kicking, Counts
<1>5. RemovedOnce'
  BY <1>1, SMT DEF IInv, RemovedOnce, Removers, AtCall, Counts
<1> QED BY <1>3, <1>4, <1>5 DEF Table

LEMMA OpenMove ==
    ASSUME IInv, NEW r \in Requests, Goto(r, "opened"), pc[r] = "none",
           registered' = registered \union {r}, UNCHANGED <<counters, admin>>
    PROVE  Table'
<1>1. /\ pc'[r] = "opened" /\ \A t \in Requests \ {r} : pc'[t] = pc[t]
      /\ Opening' = Opening \union {r} /\ Counting' = Counting \ {r}
  BY MoveSets DEF IInv, Counts
<1>2. r \notin Opening /\ r \notin Counting /\ r \notin registered
  BY DEF IInv, Unlisted, Opening, Counting, Counts
<1>3. Counting' = Counting /\ Kicking' = Kicking
  BY <1>1, <1>2 DEF Kicking, AtCall
<1>4. /\ Cardinality(Opening') = Cardinality(Opening) + 1
      /\ Cardinality(registered') = Cardinality(registered) + 1
  BY <1>1, <1>2, Sizes, FS_AddElement DEF IInv
<1>5. Unlisted'
  BY <1>1 DEF IInv, Unlisted, Counts
<1>6. CountersBalance'
  <2>1. opened + Cardinality(Opening)
          = Cardinality(registered) + closed + kicked + Cardinality(Counting) + Cardinality(Kicking)
    BY BalanceIs DEF IInv
  <2>2. opened' + Cardinality(Opening')
          = Cardinality(registered') + closed' + kicked' + Cardinality(Counting') + Cardinality(Kicking')
    BY <1>3, <1>4, <2>1, Sizes, SMT DEF counters, IInv, Shape
  <2> QED BY <2>2 DEF CountersBalance, Opening, Counting, Kicking, Counts
<1>7. RemovedOnce'
  BY <1>1, SMT DEF IInv, RemovedOnce, Removers, AtCall, Counts
<1> QED BY <1>5, <1>6, <1>7 DEF Table

LEMMA CountOpenedMove ==
    ASSUME IInv, NEW r \in Requests, CountOpened(r)
    PROVE  Table'
<1>1. /\ Goto(r, "connect") /\ pc[r] = "opened" /\ opened' = opened + 1
      /\ UNCHANGED <<registered, closed, kicked, admin>>
  BY DEF CountOpened, hubVars
<1>2. /\ pc'[r] = "connect" /\ \A t \in Requests \ {r} : pc'[t] = pc[t]
      /\ Opening' = Opening \ {r} /\ Counting' = Counting \ {r}
  BY <1>1, MoveSets, ZenonT(30) DEF IInv, Counts
<1>3. r \in Opening /\ r \notin Counting
  BY <1>1 DEF Opening, Counting, Counts
<1>4. Counting' = Counting /\ Kicking' = Kicking
  BY <1>1, <1>2, <1>3 DEF Kicking, AtCall
<1>5. Cardinality(Opening') = Cardinality(Opening) - 1
  BY <1>2, <1>3, Sizes, FS_RemoveElement DEF IInv
<1>6. Unlisted'
  BY <1>1, <1>2 DEF IInv, Unlisted, Counts
<1>7. CountersBalance'
  <2>1. opened + Cardinality(Opening)
          = Cardinality(registered) + closed + kicked + Cardinality(Counting) + Cardinality(Kicking)
    BY BalanceIs DEF IInv
  <2>2. opened' + Cardinality(Opening')
          = Cardinality(registered') + closed' + kicked' + Cardinality(Counting') + Cardinality(Kicking')
    BY <1>1, <1>4, <1>5, <2>1, Sizes, SMT DEF IInv, Shape
  <2> QED BY <2>2 DEF CountersBalance, Opening, Counting, Kicking, Counts
<1>8. RemovedOnce'
  BY <1>1, <1>2, SMT DEF IInv, RemovedOnce, Removers, AtCall, Counts
<1> QED BY <1>6, <1>7, <1>8 DEF Table

\* close_session finds the session, or a kick was faster.
LEMMA CloseMove ==
    ASSUME IInv, NEW r \in Requests, NEW l \in Counts,
           pc[r] \in {"failed", "ended"}, Goto(r, IF r \in registered THEN l ELSE "answered"),
           registered' = registered \ {r}, UNCHANGED <<counters, admin>>
    PROVE  Table'
<1>1. CASE r \notin registered
  <2>1. registered' = registered /\ Goto(r, "answered") /\ "answered" \in Pcs
    BY <1>1 DEF Pcs
  <2> QED BY <1>1, <2>1, QuietMove DEF Counts
<1>2. CASE r \in registered
  <2>1. /\ pc'[r] = l /\ \A t \in Requests \ {r} : pc'[t] = pc[t]
        /\ Opening' = Opening \ {r} /\ Counting' = Counting \union {r}
    BY <1>2, MoveSets DEF IInv, Counts
  <2>2. r \notin Opening /\ r \notin Counting
    BY DEF Opening, Counting, Counts
  <2>3. Opening' = Opening /\ Kicking' = Kicking
    BY <2>1, <2>2 DEF Kicking, AtCall
  <2>4. /\ Cardinality(Counting') = Cardinality(Counting) + 1
        /\ Cardinality(registered') = Cardinality(registered) - 1
    BY <1>2, <2>1, <2>2, Sizes, FS_AddElement, FS_RemoveElement DEF IInv
  <2>5. Unlisted'
    BY <2>1 DEF IInv, Unlisted, Counts
  <2>6. CountersBalance'
    <3>1. opened + Cardinality(Opening)
            = Cardinality(registered) + closed + kicked + Cardinality(Counting) + Cardinality(Kicking)
      BY BalanceIs DEF IInv
    <3>2. opened' + Cardinality(Opening')
            = Cardinality(registered') + closed' + kicked' + Cardinality(Counting') + Cardinality(Kicking')
      BY <2>3, <2>4, <3>1, Sizes, SMT DEF counters, IInv, Shape
    <3> QED BY <3>2 DEF CountersBalance, Opening, Counting, Kicking, Counts
  <2>7. RemovedOnce'
    BY <1>2, <2>1, SMT DEF IInv, RemovedOnce, Removers, AtCall, Counts
  <2> QED BY <2>5, <2>6, <2>7 DEF Table
<1> QED BY <1>1, <1>2

LEMMA CountClosedMove ==
    ASSUME IInv, NEW r \in Requests, CountClosed(r)
    PROVE  Table'
<1>1. /\ Goto(r, "answered") /\ pc[r] \in Counts /\ closed' = closed + 1
      /\ UNCHANGED <<registered, opened, kicked, admin>>
  BY DEF CountClosed, hubVars, Counts
<1>2. /\ pc'[r] = "answered" /\ \A t \in Requests \ {r} : pc'[t] = pc[t]
      /\ Opening' = Opening \ {r} /\ Counting' = Counting \ {r}
  BY <1>1, MoveSets DEF IInv, Counts
<1>3. r \notin Opening /\ r \in Counting
  BY <1>1 DEF Opening, Counting, Counts
<1>4. Opening' = Opening /\ Kicking' = Kicking
  BY <1>1, <1>2, <1>3 DEF Kicking, AtCall
<1>5. Cardinality(Counting') = Cardinality(Counting) - 1
  BY <1>2, <1>3, Sizes, FS_RemoveElement DEF IInv
<1>6. Unlisted'
  BY <1>1, <1>2 DEF IInv, Unlisted, Counts
<1>7. CountersBalance'
  <2>1. opened + Cardinality(Opening)
          = Cardinality(registered) + closed + kicked + Cardinality(Counting) + Cardinality(Kicking)
    BY BalanceIs DEF IInv
  <2>2. opened' + Cardinality(Opening')
          = Cardinality(registered') + closed' + kicked' + Cardinality(Counting') + Cardinality(Kicking')
    BY <1>1, <1>4, <1>5, <2>1, Sizes, SMT DEF IInv, Shape
  <2> QED BY <2>2 DEF CountersBalance, Opening, Counting, Kicking, Counts
<1>8. RemovedOnce'
  BY <1>1, <1>2, SMT DEF IInv, RemovedOnce, Removers, AtCall, Counts
<1> QED BY <1>6, <1>7, <1>8 DEF Table

-----------------------------------------------------------------------------
(* The admin calls and the table.  A call's record becomes c.              *)
LEMMA CallSets ==
    ASSUME Shape, NEW a \in AdminCalls, NEW c, admin' = [admin EXCEPT ![a] = c]
    PROVE  /\ admin'[a] = c /\ \A b \in AdminCalls \ {a} : admin'[b] = admin[b]
           /\ Kicking' = IF c.pc = "count" THEN Kicking \union {a} ELSE Kicking \ {a}
<1>1. admin'[a] = c /\ \A b \in AdminCalls \ {a} : admin'[b] = admin[b]
  BY DEF Shape
<1> QED BY <1>1 DEF Kicking, AtCall

\* A step of a call that removes no session: a call that has none still has
\* none, and the one that has is done with it.
LEMMA QuietCall ==
    ASSUME IInv, NEW a \in AdminCalls, NEW c, admin' = [admin EXCEPT ![a] = c],
           ~AtCall(a, "count"), c.pc # "count",
           c.removed => admin[a].removed /\ c.input = admin[a].input,
           UNCHANGED <<pc, registered, counters>>
    PROVE  Table'
<1>1. /\ admin'[a] = c /\ \A b \in AdminCalls \ {a} : admin'[b] = admin[b]
      /\ Kicking' = Kicking \ {a}
  BY CallSets DEF IInv
<1>2. Kicking' = Kicking /\ Opening' = Opening /\ Counting' = Counting
  BY <1>1 DEF Kicking, Opening, Counting
<1>3. Unlisted'
  BY DEF IInv, Unlisted
<1>4. CountersBalance'
  <2>1. opened + Cardinality(Opening)
          = Cardinality(registered) + closed + kicked + Cardinality(Counting) + Cardinality(Kicking)
    BY BalanceIs DEF IInv
  <2>2. opened' + Cardinality(Opening')
          = Cardinality(registered') + closed' + kicked' + Cardinality(Counting') + Cardinality(Kicking')
    BY <1>2, <2>1, Sizes DEF counters, IInv, Shape
  <2> QED BY <2>2 DEF CountersBalance, Opening, Counting, Kicking, Counts
<1>5. RemovedOnce'
  <2>1. \A r \in Requests : Removers(r)' \subseteq Removers(r)
    BY <1>1 DEF Removers, AtCall
  <2> QED BY <2>1 DEF IInv, RemovedOnce
<1> QED BY <1>3, <1>4, <1>5 DEF Table

\* Of several calls and the handler, the one that finds r in the table.
LEMMA RemovalCall ==
    ASSUME IInv, NEW a \in AdminCalls, NEW c, admin' = [admin EXCEPT ![a] = c],
           AtCall(a, "deregister"), c.pc = "count", c.removed = admin[a].removed, c.input = admin[a].input,
           c.input.target \in registered,
           registered' = registered \ {c.input.target}, UNCHANGED <<pc, counters>>
    PROVE  Table'
<1> DEFINE t == c.input.target
<1>1. /\ admin'[a] = c /\ \A b \in AdminCalls \ {a} : admin'[b] = admin[b]
      /\ Kicking' = Kicking \union {a}
  BY CallSets DEF IInv
<1>2. a \notin Kicking
  BY DEF Kicking, AtCall
<1>3. Opening' = Opening /\ Counting' = Counting
  BY DEF Opening, Counting
<1>4. /\ Cardinality(Kicking') = Cardinality(Kicking) + 1
      /\ Cardinality(registered') = Cardinality(registered) - 1
  BY <1>1, <1>2, Sizes, FS_AddElement, FS_RemoveElement DEF IInv
<1>5. Unlisted'
  BY DEF IInv, Unlisted
<1>6. CountersBalance'
  <2>1. opened + Cardinality(Opening)
          = Cardinality(registered) + closed + kicked + Cardinality(Counting) + Cardinality(Kicking)
    BY BalanceIs DEF IInv
  <2>2. opened' + Cardinality(Opening')
          = Cardinality(registered') + closed' + kicked' + Cardinality(Counting') + Cardinality(Kicking')
    BY <1>3, <1>4, <2>1, Sizes, SMT DEF counters, IInv, Shape
  <2> QED BY <2>2 DEF CountersBalance, Opening, Counting, Kicking, Counts
<1>7. RemovedOnce'
  <2>1. t \in Requests /\ pc[t] \notin {"none"} \union Counts /\ Removers(t) = {}
    BY DEF IInv, Shape, Unlisted, RemovedOnce
  <2>2. Removers(t)' \subseteq {a}
    BY <1>1, <2>1, ZenonT(30) DEF Removers, AtCall
  <2>3. \A r \in Requests \ {t} : Removers(r)' \subseteq Removers(r)
    BY <1>1 DEF Removers, AtCall
  <2> HIDE DEF t
  <2>4. registered' = registered \ {t}
    BY DEF t
  <2> QED BY <2>1, <2>2, <2>3, <2>4, SMT DEF IInv, RemovedOnce
<1> QED BY <1>5, <1>6, <1>7 DEF Table

LEMMA CountCall ==
    ASSUME IInv, NEW a \in AdminCalls, NEW c, admin' = [admin EXCEPT ![a] = c],
           AtCall(a, "count"), c.pc # "count", c.input = admin[a].input,
           kicked' = kicked + 1, UNCHANGED <<pc, registered, opened, closed>>
    PROVE  Table'
<1>1. /\ admin'[a] = c /\ \A b \in AdminCalls \ {a} : admin'[b] = admin[b]
      /\ Kicking' = Kicking \ {a}
  BY CallSets DEF IInv
<1>2. a \in Kicking
  BY DEF Kicking
<1>3. Opening' = Opening /\ Counting' = Counting
  BY DEF Opening, Counting
<1>4. Cardinality(Kicking') = Cardinality(Kicking) - 1
  BY <1>1, <1>2, Sizes, FS_RemoveElement DEF IInv
<1>5. Unlisted'
  BY DEF IInv, Unlisted
<1>6. CountersBalance'
  <2>1. opened + Cardinality(Opening)
          = Cardinality(registered) + closed + kicked + Cardinality(Counting) + Cardinality(Kicking)
    BY BalanceIs DEF IInv
  <2>2. opened' + Cardinality(Opening')
          = Cardinality(registered') + closed' + kicked' + Cardinality(Counting') + Cardinality(Kicking')
    BY <1>3, <1>4, <2>1, Sizes, SMT DEF IInv, Shape
  <2> QED BY <2>2 DEF CountersBalance, Opening, Counting, Kicking, Counts
<1>7. RemovedOnce'
  <2>1. \A r \in Requests : Removers(r)' \subseteq Removers(r)
    BY <1>1 DEF Removers, AtCall
  <2> QED BY <2>1 DEF IInv, RemovedOnce
<1> QED BY <1>5, <1>6, <1>7 DEF Table

-----------------------------------------------------------------------------
(* One request moves, and the rows of the admin calls stay true.           *)
JourneyOf(r) ==
    Journey(config, input[r], channels[r], pc[r], next[r], status[r], claims[r], subs[r], effect[r])

SameFor(t) ==
    /\ input'[t] = input[t] /\ channels'[t] = channels[t] /\ pc'[t] = pc[t] /\ next'[t] = next[t]
    /\ status'[t] = status[t] /\ claims'[t] = claims[t] /\ subs'[t] = subs[t]
    /\ effect'[t] = effect[t]

LEMMA RequestKeeps ==
    ASSUME IInv, NEW r \in Requests, config' = config, admin' = admin, Shape', Table',
           \A t \in Requests \ {r} : SameFor(t),
           pc'[r] # "none",
           pc[r] # "none" => claims[r] \in {None, claims'[r]} /\ subs[r] \subseteq subs'[r],
           JourneyOf(r)'
    PROVE  IInv'
<1>1. RowsTrue'
  <2>1. SUFFICES ASSUME NEW a \in AdminCalls, NEW row \in admin[a].rows PROVE RowTrue(row)'
    BY DEF RowsTrue
  <2>2. RowTrue(row)
    BY DEF IInv, RowsTrue
  <2>3. CASE row.id = r
    BY <2>2, <2>3 DEF RowTrue
  <2>4. CASE row.id # r
    <3>1. row.id \in Requests \ {r}
      BY <2>2, <2>4 DEF RowTrue
    <3>2. pc'[row.id] = pc[row.id] /\ claims'[row.id] = claims[row.id] /\ subs'[row.id] = subs[row.id]
      BY <3>1 DEF SameFor
    <3> QED BY <2>2, <3>2 DEF RowTrue
  <2> QED BY <2>3, <2>4
<1>2. ASSUME NEW t \in Requests PROVE JourneyOf(t)'
  <2>1. CASE t = r
    BY <2>1
  <2>2. CASE t # r
    <3>1. JourneyOf(t) /\ SameFor(t)
      BY <2>2 DEF IInv, Journeys, JourneyOf
    <3> QED BY <3>1 DEF JourneyOf, SameFor
  <2> QED BY <2>1, <2>2
<1>3. Journeys'
  BY <1>2 DEF Journeys, JourneyOf
<1> QED BY <1>1, <1>3 DEF IInv, Table

\* A step of an admin call: the requests are as before.
LEMMA CallKeeps ==
    ASSUME IInv, NEW a \in AdminCalls, NEW c, admin' = [admin EXCEPT ![a] = c], DOMAIN c = CallFields,
           \A row \in c.rows : RowTrue(row),
           UNCHANGED <<config, input, channels, pc, next, status, claims, subs, effect>>,
           registered' \subseteq registered, kicked' \in Nat, UNCHANGED <<opened, closed>>, Table'
    PROVE  IInv'
<1>1. admin'[a] = c /\ \A b \in AdminCalls \ {a} : admin'[b] = admin[b]
  BY DEF IInv, Shape
<1>2. Shape'
  <2>1. admin' = [b \in AdminCalls |-> admin'[b]] /\ \A b \in AdminCalls : DOMAIN admin'[b] = CallFields
    BY <1>1 DEF IInv, Shape
  <2> QED BY <2>1 DEF IInv, Shape
<1>3. RowsTrue'
  <2>1. SUFFICES ASSUME NEW b \in AdminCalls, NEW row \in admin'[b].rows PROVE RowTrue(row)'
    BY DEF RowsTrue
  <2>2. RowTrue(row)
    BY <1>1 DEF IInv, RowsTrue
  <2> QED BY <2>2 DEF RowTrue
<1>4. Journeys'
  BY DEF IInv, Journeys
<1> QED BY <1>2, <1>3, <1>4 DEF IInv, Table

-----------------------------------------------------------------------------
(* The handlers.                                                           *)
\* Only the program point and the status to be answered change.
LEMMA PlainMove ==
    ASSUME IInv, NEW r \in Requests, NEW l \in Pcs \ ({"none", "opened"} \union Counts), NEW st,
           Goto(r, l), status' = [status EXCEPT ![r] = st],
           pc[r] \notin {"none", "opened"} \union Counts, l = "answered" => r \notin registered,
           UNCHANGED <<config, input, channels, next, hubVars, counters, admin>>,
           Journey(config, input[r], channels[r], l, next[r], st, claims[r], subs[r], effect[r])
    PROVE  IInv'
<1>1. Table'
  BY QuietMove DEF hubVars
<1>2. pc' \in [Requests -> Pcs] /\ status' = [t \in Requests |-> status'[t]]
  BY DEF IInv, Shape, Goto
<1>3. Shape'
  BY <1>2 DEF IInv, Shape, hubVars, counters
<1>4. /\ pc'[r] = l /\ status'[r] = st
      /\ \A t \in Requests \ {r} : pc'[t] = pc[t] /\ status'[t] = status[t]
  BY DEF IInv, Shape, Goto
<1>5. \A t \in Requests \ {r} : SameFor(t)
  BY <1>4 DEF SameFor, hubVars
<1>6. JourneyOf(r)'
  BY <1>4 DEF JourneyOf, hubVars
<1> QED BY <1>1, <1>3, <1>4, <1>5, <1>6, RequestKeeps DEF hubVars

\* An error before anything was achieved.
LEMMA FailMove ==
    ASSUME IInv, NEW r \in Requests, NEW code, code # 200, Fail(r, code),
           pc[r] \in {"connect", "authenticate", "work", "await"},
           UNCHANGED <<config, input, channels, next, hubVars, counters, admin>>
    PROVE  IInv'
<1>1. "failed" \in Pcs \ ({"none", "opened"} \union Counts)
  BY DEF Pcs, Handling, Counts
<1>2. effect[r] = "none"
  BY DEF IInv, Journeys, Journey
<1>3. Journey(config, input[r], channels[r], "failed", next[r], code, claims[r], subs[r], effect[r])
  BY <1>2 DEF Journey, Told
<1>4. pc[r] \notin {"none", "opened"} \union Counts
  BY DEF Counts
<1> QED BY <1>1, <1>3, <1>4, PlainMove DEF Fail

LEMMA ErrorCodes == \A err : into_response(err) # 200
BY SMT DEF into_response

\* A step to l that leaves the status alone.
LEMMA GoOn ==
    ASSUME IInv, NEW r \in Requests, NEW l \in Pcs \ ({"none", "opened", "answered"} \union Counts), Goto(r, l),
           pc[r] \notin {"none", "opened"} \union Counts,
           UNCHANGED <<config, input, channels, next, status, hubVars, counters, admin>>,
           Journey(config, input[r], channels[r], l, next[r], status[r], claims[r], subs[r], effect[r])
    PROVE  IInv'
<1>1. status' = [status EXCEPT ![r] = status[r]]
  BY DEF IInv, Shape
<1> QED BY <1>1, PlainMove

LEMMA QueryIsSeq ==
    ASSUME NEW query, IsFiniteSet(DOMAIN query)
    PROVE  LET ch == channels_from_raw_query(query)
           IN  IsSeq(ch) /\ (ch # <<>> => Len(ch) > 0)
<1> DEFINE Wanted(p) == p.eq /\ p.key = "channel" /\ urlencoding_decode(p.value) \notin {None, <<>>}
           wanted == {i \in DOMAIN query : Wanted(query[i])}
           n == Cardinality(wanted)
           Name(k) == urlencoding_decode(query[Kth(wanted, k)].value)
           ch == channels_from_raw_query(query)
<1>1. wanted \in SUBSET DOMAIN query
  OBVIOUS
<1>2. IsFiniteSet(wanted)
  BY <1>1, FS_Subset
<1>3. n \in Nat
  BY <1>2, FS_CardinalityType
<1>4. ch = [k \in 1..n |-> Name(k)]
  BY DEF channels_from_raw_query
<1> HIDE DEF Name, n, wanted, ch
<1>5. Len(ch) = n /\ ch = [k \in 1..n |-> ch[k]]
  BY <1>3, <1>4, SMT
<1>6. n = 0 => ch = <<>>
  BY <1>4, SMT
<1>7. IsSeq(ch) /\ (ch # <<>> => Len(ch) > 0)
  BY <1>3, <1>5, <1>6, SMT DEF IsSeq
<1> QED BY <1>7 DEF ch

\* open_session, and what the handler that called it has to do.
LEMMA OpenStep ==
    ASSUME IInv, NEW r \in Requests, NEW i, NEW ch, Asks(i, ch), pc[r] = "none", Open(r),
           input' = [input EXCEPT ![r] = i], channels' = [channels EXCEPT ![r] = ch],
           UNCHANGED <<config, next, subs, effect, counters, admin>>
    PROVE  IInv'
<1> DEFINE seed == IF config.anonymous THEN "anonymous" ELSE None
<1>1. /\ Goto(r, "opened") /\ registered' = registered \union {r}
      /\ claims' = [claims EXCEPT ![r] = seed] /\ status' = status
  BY DEF Open
<1>2. Table'
  BY <1>1, OpenMove
<1>3. JourneyOf(r)
  BY DEF IInv, Journeys, JourneyOf
<1>4. next[r] = 1 /\ subs[r] = {} /\ status[r] = None /\ status[r] # 200 /\ effect[r] = "none"
  BY <1>3 DEF JourneyOf, Journey
<1>5. Journey(config, i, ch, "opened", next[r], status[r], seed, subs[r], effect[r])
  BY <1>4 DEF Journey, Told
<1> HIDE DEF seed
<1>6. "opened" \in Pcs
  BY DEF Pcs, Handling
<1>7. /\ pc' \in [Requests -> Pcs] /\ registered' \subseteq Requests
      /\ input' = [t \in Requests |-> input'[t]] /\ channels' = [t \in Requests |-> channels'[t]]
      /\ claims' = [t \in Requests |-> claims'[t]]
  BY <1>1, <1>6 DEF IInv, Shape, Goto
<1>8. Shape'
  BY <1>1, <1>7 DEF IInv, Shape, counters
<1>9. /\ pc'[r] = "opened" /\ input'[r] = i /\ channels'[r] = ch /\ claims'[r] = seed
      /\ \A t \in Requests \ {r} : /\ pc'[t] = pc[t] /\ input'[t] = input[t]
                                  /\ channels'[t] = channels[t] /\ claims'[t] = claims[t]
  BY <1>1 DEF IInv, Shape, Goto
<1>10. \A t \in Requests \ {r} : SameFor(t)
  BY <1>1, <1>9 DEF SameFor
<1>11. JourneyOf(r)'
  BY <1>1, <1>5, <1>9 DEF JourneyOf
<1> QED BY <1>2, <1>8, <1>9, <1>10, <1>11, RequestKeeps

LEMMA RefuseStep ==
    ASSUME IInv, NEW r \in Requests, NEW i, NEW ch, pc[r] = "none", BadRequest(r),
           input' = [input EXCEPT ![r] = i], channels' = [channels EXCEPT ![r] = ch],
           UNCHANGED <<config, next, subs, effect, counters, admin>>
    PROVE  IInv'
<1>1. /\ Goto(r, "answered") /\ status' = [status EXCEPT ![r] = 400]
      /\ UNCHANGED <<registered, claims>>
  BY DEF BadRequest
<1>2. "answered" \in Pcs /\ r \notin registered
  BY DEF Pcs, IInv, Unlisted
<1>3. Table'
  BY <1>1, <1>2, QuietMove DEF Counts
<1>4. effect[r] = "none"
  BY DEF IInv, Journeys, Journey
<1>5. Journey(config, i, ch, "answered", next[r], 400, claims[r], subs[r], effect[r])
  BY <1>4, SMT DEF Journey, Told
<1>6. /\ pc' \in [Requests -> Pcs]
      /\ input' = [t \in Requests |-> input'[t]] /\ channels' = [t \in Requests |-> channels'[t]]
      /\ status' = [t \in Requests |-> status'[t]]
  BY <1>1, <1>2 DEF IInv, Shape, Goto
<1>7. Shape'
  BY <1>1, <1>6, ZenonT(30) DEF IInv, Shape, counters
<1>8. /\ pc'[r] = "answered" /\ input'[r] = i /\ channels'[r] = ch /\ status'[r] = 400
      /\ \A t \in Requests \ {r} : /\ pc'[t] = pc[t] /\ input'[t] = input[t]
                                  /\ channels'[t] = channels[t] /\ status'[t] = status[t]
  BY <1>1 DEF IInv, Shape, Goto
<1>9. \A t \in Requests \ {r} : SameFor(t)
  BY <1>1, <1>8, ZenonT(30) DEF SameFor
<1>10. JourneyOf(r)'
  BY <1>1, <1>5, <1>8 DEF JourneyOf
<1> QED BY <1>3, <1>7, <1>8, <1>9, <1>10, RequestKeeps

LEMMA SubscribeArrivesKeeps ==
    ASSUME IInv, NEW r \in Requests, NEW i \in Inputs[r], SubscribeArrives(r, i)
    PROVE  IInv'
<1> DEFINE ch == channels_from_raw_query(i.query)
<1>1. /\ pc[r] = "none" /\ i.kind = "subscribe"
      /\ input' = [input EXCEPT ![r] = i] /\ channels' = [channels EXCEPT ![r] = ch]
      /\ UNCHANGED <<config, next, subs, effect, counters, admin>>
  BY DEF SubscribeArrives
<1>2. CASE ch = <<>>
  BY <1>1, <1>2, RefuseStep DEF SubscribeArrives
<1>3. CASE ch # <<>>
  <2>1. IsFiniteSet(DOMAIN i.query)
    BY EndpointConstants
  <2>2. IsSeq(ch) /\ Len(ch) > 0
    BY <1>3, <2>1, QueryIsSeq
  <2> HIDE DEF ch
  <2>3. Asks(i, ch)
    BY <1>1, <2>2 DEF Asks
  <2>4. Open(r)
    BY <1>3 DEF SubscribeArrives, ch
  <2> QED BY <1>1, <2>3, <2>4, OpenStep
<1> QED BY <1>2, <1>3

LEMMA PublishArrivesKeeps ==
    ASSUME IInv, NEW r \in Requests, NEW i \in Inputs[r], PublishArrives(r, i)
    PROVE  IInv'
<1>1. /\ pc[r] = "none" /\ i.kind = "publish"
      /\ input' = [input EXCEPT ![r] = i] /\ channels' = [channels EXCEPT ![r] = i.meant]
      /\ UNCHANGED <<config, next, subs, effect, counters, admin>>
  BY DEF PublishArrives
<1>2. CASE BadRequest(r)
  BY <1>1, <1>2, RefuseStep
<1>3. CASE Open(r)
  <2>1. i.meant = <<i.meant[1]>>
    BY <1>1, EndpointConstants
  <2>2. Len(i.meant) = 1 /\ i.meant = [k \in 1..1 |-> i.meant[k]]
    BY <2>1, SMT
  <2>3. Asks(i, i.meant)
    BY <1>1, <2>2, SMT DEF Asks, IsSeq
  <2> QED BY <1>1, <1>3, <2>3, OpenStep
<1> QED BY <1>2, <1>3 DEF PublishArrives

\* A step of r to l that changes the table or a counter and nothing else.
LEMMA TableStep ==
    ASSUME IInv, NEW r \in Requests, NEW l \in Pcs \ {"none"}, Goto(r, l), Table',
           UNCHANGED <<config, input, channels, next, status, claims, subs, effect, admin>>,
           registered' \subseteq Requests, opened' \in Nat, closed' \in Nat, kicked' \in Nat,
           Journey(config, input[r], channels[r], l, next[r], status[r], claims[r], subs[r], effect[r])
    PROVE  IInv'
<1>1. pc' \in [Requests -> Pcs]
  BY DEF IInv, Shape, Goto
<1>2. Shape'
  BY <1>1 DEF IInv, Shape
<1>3. pc'[r] = l /\ \A t \in Requests \ {r} : pc'[t] = pc[t]
  BY DEF IInv, Shape, Goto
<1>4. \A t \in Requests \ {r} : SameFor(t)
  BY <1>3 DEF SameFor
<1>5. JourneyOf(r)'
  BY <1>3 DEF JourneyOf
<1> QED BY <1>2, <1>3, <1>4, <1>5, RequestKeeps

\* Past its work a handler only closes: what was told stays.
Late == {"failed", "streaming", "ended", "count_failed", "count_ended", "answered", "dropped"}

LEMMA LateJourney ==
    ASSUME IInv, NEW r \in Requests, NEW l \in Late
    PROVE  Journey(config, input[r], channels[r], l, next[r], status[r], claims[r], subs[r], effect[r])
<1>1. JourneyOf(r)
  BY DEF IInv, Journeys, JourneyOf
<1> QED BY <1>1 DEF JourneyOf, Journey, Late

LEMMA CountOpenedKeeps == ASSUME IInv, NEW r \in Requests, CountOpened(r) PROVE IInv'
<1>1. /\ Goto(r, "connect") /\ pc[r] = "opened" /\ opened' = opened + 1
      /\ UNCHANGED <<config, input, channels, next, status, registered, claims, subs, effect, admin, closed, kicked>>
  BY DEF CountOpened, hubVars
<1>2. /\ registered' \subseteq Requests /\ opened' \in Nat /\ closed' \in Nat /\ kicked' \in Nat
      /\ "connect" \in Pcs \ {"none"}
  BY <1>1, SMT DEF IInv, Shape, Pcs, Handling
<1>3. JourneyOf(r)
  BY DEF IInv, Journeys, JourneyOf
<1>4. Journey(config, input[r], channels[r], "connect", next[r], status[r], claims[r], subs[r], effect[r])
  BY <1>1, <1>3 DEF JourneyOf, Journey
<1> QED BY <1>1, <1>2, <1>4, CountOpenedMove, TableStep

LEMMA CountClosedKeeps == ASSUME IInv, NEW r \in Requests, CountClosed(r) PROVE IInv'
<1>1. /\ Goto(r, "answered") /\ closed' = closed + 1
      /\ UNCHANGED <<config, input, channels, next, status, registered, claims, subs, effect, admin, opened, kicked>>
  BY DEF CountClosed, hubVars
<1>2. /\ registered' \subseteq Requests /\ opened' \in Nat /\ closed' \in Nat /\ kicked' \in Nat
      /\ "answered" \in Pcs \ {"none"} /\ "answered" \in Late
  BY <1>1, SMT DEF IInv, Shape, Pcs, Late
<1> QED BY <1>1, <1>2, LateJourney, CountClosedMove, TableStep

LEMMA CloseKeeps == ASSUME IInv, NEW r \in Requests, CloseFailed(r) \/ CloseStream(r) PROVE IInv'
<1>1. PICK l \in Counts : /\ Goto(r, IF r \in registered THEN l ELSE "answered")
                          /\ pc[r] \in {"failed", "ended"}
  BY DEF CloseFailed, CloseStream, Counts
<1> DEFINE m == IF r \in registered THEN l ELSE "answered"
<1>2. /\ registered' = registered \ {r}
      /\ UNCHANGED <<config, input, channels, next, status, claims, subs, effect, counters, admin>>
  BY DEF CloseFailed, CloseStream
<1>3. /\ registered' \subseteq Requests /\ opened' \in Nat /\ closed' \in Nat /\ kicked' \in Nat
  BY <1>2 DEF IInv, Shape, counters
<1>4. m \in Pcs \ {"none"} /\ m \in Late
  BY DEF Pcs, Handling, Late, Counts
<1>5. Table'
  BY <1>1, <1>2, CloseMove
<1> HIDE DEF m
<1>6. Goto(r, m)
  BY <1>1 DEF m
<1> QED BY <1>2, <1>3, <1>4, <1>5, <1>6, LateJourney, TableStep

LEMMA WorkBegins ==
    ASSUME NEW cfg, NEW in, NEW ch, NEW st, st = None, st # 200, NEW cl, NEW ef, ef = "none", Asks(in, ch)
    PROVE  Journey(cfg, in, ch, "work", 1, st, cl, {}, ef)
<1>1. 1 \in 1..(Len(ch) + 1)
  BY SMT DEF Asks, IsSeq
<1>2. Joined(cfg, ch, 1, {})
  BY SMT DEF Joined
<1>3. Told(cfg, in, ch, st, cl, {}, ef)
  BY DEF Told
<1> HIDE DEF Asks, Joined, Told
<1> QED BY <1>1, <1>2, <1>3, SMT DEF Journey

LEMMA ConnectKeeps == ASSUME IInv, NEW r \in Requests, Connect(r) PROVE IInv'
<1>1. pc[r] = "connect" /\ UNCHANGED <<config, input, channels, next, hubVars, counters, admin>>
  BY DEF Connect
<1>2. JourneyOf(r)
  BY DEF IInv, Journeys, JourneyOf
<1>3. CASE \E code : code # 200 /\ Fail(r, code)
  BY <1>1, <1>3, FailMove
<1>4. CASE Goto(r, "authenticate") /\ UNCHANGED status
  <2>1. "authenticate" \in Pcs \ ({"none", "opened", "answered"} \union Counts)
    BY DEF Pcs, Handling, Counts
  <2>2. Journey(config, input[r], channels[r], "authenticate", next[r], status[r], claims[r], subs[r], effect[r])
    BY <1>1, <1>2 DEF JourneyOf, Journey
  <2> QED BY <1>1, <1>4, <2>1, <2>2, GoOn DEF Counts
<1>5. CASE Goto(r, "work") /\ UNCHANGED status
  <2>1. "work" \in Pcs \ ({"none", "opened", "answered"} \union Counts)
    BY DEF Pcs, Handling, Counts
  <2>2. /\ next[r] = 1 /\ subs[r] = {} /\ Asks(input[r], channels[r])
        /\ status[r] = None /\ status[r] # 200 /\ effect[r] = "none"
    BY <1>1, <1>2, ZenonT(30) DEF JourneyOf, Journey
  <2>4. Journey(config, input[r], channels[r], "work", next[r], status[r], claims[r], subs[r], effect[r])
    BY <2>2, WorkBegins
  <2> QED BY <1>1, <1>5, <2>1, <2>4, GoOn DEF Counts
<1> QED BY <1>3, <1>4, <1>5, ErrorCodes, SMT DEF Connect

\* The claims of a session were none, or already the anonymous ones.
LEMMA AuthenticateKeeps == ASSUME IInv, NEW r \in Requests, Authenticate(r) PROVE IInv'
<1> DEFINE who == IF config.anonymous THEN "anonymous" ELSE token_from_headers(input[r].header)
<1>1. /\ pc[r] = "authenticate"
      /\ UNCHANGED <<config, input, channels, next, registered, subs, effect, counters, admin>>
  BY DEF Authenticate
<1>2. JourneyOf(r)
  BY DEF IInv, Journeys, JourneyOf
<1>3. CASE (\E code : code # 200 /\ Fail(r, code)) /\ UNCHANGED claims
  BY <1>1, <1>3, FailMove DEF hubVars
<1>4. CASE claims' = [claims EXCEPT ![r] = who] /\ Goto(r, "work") /\ UNCHANGED status
  <2>1. "work" \in Pcs \ ({"none", "opened", "answered"} \union Counts)
    BY DEF Pcs, Handling, Counts
  <2>2. Table'
    BY <1>1, <1>4, <2>1, QuietMove DEF Counts
  <2>3. next[r] = 1 /\ subs[r] = {} /\ Asks(input[r], channels[r]) /\ claims[r] \in {None, who}
    BY <1>1, <1>2, ZenonT(30) DEF JourneyOf, Journey
  <2> HIDE DEF who
  <2>5. next[r] = 1 /\ subs[r] = {} /\ Asks(input[r], channels[r]) /\ status[r] = None /\ status[r] # 200 /\ effect[r] = "none"
    <3>1. status[r] = None /\ status[r] # 200 /\ effect[r] = "none"
      BY <1>1, <1>2, ZenonT(30) DEF JourneyOf, Journey
    <3> QED BY <2>3, <3>1
  <2>6. Journey(config, input[r], channels[r], "work", next[r], status[r], who, subs[r], effect[r])
    <3>1. Journey(config, input[r], channels[r], "work", 1, status[r], who, {}, effect[r])
      BY <2>5, WorkBegins
    <3> QED BY <2>5, <3>1
  <2>7. /\ pc'[r] = "work" /\ claims'[r] = who
        /\ \A t \in Requests \ {r} : pc'[t] = pc[t] /\ claims'[t] = claims[t]
    BY <1>4 DEF IInv, Shape, Goto
  <2>8. pc' \in [Requests -> Pcs] /\ claims' = [t \in Requests |-> claims'[t]]
    BY <1>4, <2>1 DEF IInv, Shape, Goto
  <2>9. Shape'
    BY <1>1, <1>4, <2>8 DEF IInv, Shape, counters
  <2>10. \A t \in Requests \ {r} : SameFor(t)
    BY <1>1, <1>4, <2>7 DEF SameFor
  <2>11. JourneyOf(r)'
    BY <1>1, <1>4, <2>6, <2>7 DEF JourneyOf
  <2> QED BY <1>1, <2>2, <2>3, <2>7, <2>9, <2>10, <2>11, RequestKeeps
<1>5. CASE config.anonymous \/ token_from_headers(input[r].header) \in config.valid
  <2>1. claims' = [claims EXCEPT ![r] = who] /\ Goto(r, "work") /\ UNCHANGED status
    BY <1>5 DEF Authenticate
  <2> QED BY <1>4, <2>1
<1>6. CASE ~(config.anonymous \/ token_from_headers(input[r].header) \in config.valid)
  <2>1. Fail(r, into_response("Auth")) /\ UNCHANGED claims
    BY <1>6 DEF Authenticate
  <2> QED BY <1>3, <2>1, ErrorCodes
<1> QED BY <1>5, <1>6

\* The four gates before kind and broker are asked.
LEMMA LookupKeeps == ASSUME IInv, NEW r \in Requests, Lookup(r) PROVE IInv'
<1> DEFINE c == channels[r][next[r]]
<1>1. /\ pc[r] = "work" /\ next[r] <= Len(channels[r])
      /\ UNCHANGED <<config, input, channels, next, hubVars, counters, admin>>
  BY DEF Lookup
<1>2. JourneyOf(r)
  BY DEF IInv, Journeys, JourneyOf
<1>3. CASE \E code : code # 200 /\ Fail(r, code)
  BY <1>1, <1>3, FailMove
<1>4. CASE /\ claims[r] # None /\ c \notin config.denied
           /\ ~(input[r].kind = "subscribe" /\ c \in subs[r])
           /\ ~(input[r].kind # "subscribe" /\ c \in config.rejected)
           /\ Goto(r, "await") /\ UNCHANGED status
  <2>1. "await" \in Pcs \ ({"none", "opened", "answered"} \union Counts)
    BY DEF Pcs, Handling, Counts
  <2>2. Journey(config, input[r], channels[r], "await", next[r], status[r], claims[r], subs[r], effect[r])
    BY <1>1, <1>2, <1>4 DEF JourneyOf, Journey
  <2> QED BY <1>1, <1>4, <2>1, <2>2, GoOn DEF Counts
<1> QED BY <1>3, <1>4, ErrorCodes, SMT DEF Lookup

\* Another channel is subscribed, and not one of the earlier ones.
LEMMA JoinedGrows ==
    ASSUME NEW cfg, NEW ch, NEW n \in Nat \ {0}, NEW sb, Joined(cfg, ch, n, sb),
           ch[n] \notin cfg.denied, ch[n] \notin sb
    PROVE  Joined(cfg, ch, n + 1, sb \union {ch[n]})
<1>1. 1..((n + 1) - 1) = (1..(n - 1)) \union {n}
  BY SMT
<1>2. sb = {ch[i] : i \in 1..(n - 1)}
  BY DEF Joined
<1>3. sb \union {ch[n]} = {ch[i] : i \in 1..((n + 1) - 1)}
  BY <1>1, <1>2
<1>4. \A i \in 1..((n + 1) - 1) : ch[i] \notin cfg.denied
  BY <1>1 DEF Joined
<1>5. \A i, j \in 1..((n + 1) - 1) : ch[i] = ch[j] => i = j
  BY <1>1, <1>2 DEF Joined
<1> QED BY <1>3, <1>4, <1>5 DEF Joined

LEMMA SubscribedKeeps == ASSUME IInv, NEW r \in Requests, Subscribed(r) PROVE IInv'
<1> DEFINE ch == channels[r]
           n == next[r]
           sb == subs[r]
           more == sb \union {ch[n]}
<1>1. /\ pc[r] = "await" /\ input[r].kind = "subscribe"
      /\ UNCHANGED <<config, input, channels, registered, claims, effect, counters, admin>>
  BY DEF Subscribed
<1>2. Journey(config, input[r], ch, pc[r], n, status[r], claims[r], sb, effect[r])
  BY DEF IInv, Journeys
<1>3. CASE Fail(r, into_response("Broker")) /\ UNCHANGED <<next, subs>>
  BY <1>1, <1>3, ErrorCodes, FailMove DEF hubVars
<1>4. CASE /\ subs' = [subs EXCEPT ![r] = @ \union {channels[r][next[r]]}]
           /\ next' = [next EXCEPT ![r] = @ + 1]
           /\ Goto(r, "work") /\ UNCHANGED status
  <2>1. "work" \in Pcs \ ({"none", "opened", "answered"} \union Counts)
    BY DEF Pcs, Handling, Counts
  <2>2. Table'
    BY <1>1, <1>4, <2>1, QuietMove DEF Counts
  <2>3. /\ pc'[r] = "work" /\ subs'[r] = more /\ next'[r] = n + 1
        /\ \A t \in Requests \ {r} : pc'[t] = pc[t] /\ subs'[t] = subs[t] /\ next'[t] = next[t]
    BY <1>4 DEF IInv, Shape, Goto
  <2>4. /\ pc' \in [Requests -> Pcs] /\ subs' = [t \in Requests |-> subs'[t]]
        /\ next' = [t \in Requests |-> next'[t]]
    BY <1>4, <2>1 DEF IInv, Shape, Goto
  <2>5. Shape'
    BY <1>1, <1>4, <2>4 DEF IInv, Shape, counters
  <2>6. \A t \in Requests \ {r} : SameFor(t)
    BY <1>1, <1>4, <2>3, ZenonT(30) DEF SameFor
  <2> HIDE DEF ch, n, sb
  <2>7. /\ status[r] = None /\ status[r] # 200 /\ effect[r] = "none" /\ Asks(input[r], ch) /\ claims[r] # None
        /\ n \in 1..(Len(ch) + 1) /\ n <= Len(ch) /\ Joined(config, ch, n, sb)
        /\ ch[n] \notin config.denied /\ ch[n] \notin sb
    BY <1>1, <1>2 DEF Journey
  <2>8. Len(ch) \in Nat
    BY <2>7 DEF Asks, IsSeq
  <2>9. n \in Nat \ {0} /\ n + 1 \in 1..(Len(ch) + 1)
    BY <2>7, <2>8, SMT
  <2>10. Joined(config, ch, n + 1, more)
    BY <2>7, <2>9, JoinedGrows, ZenonT(30)
  <2> HIDE DEF more
  <2>11. Journey(config, input[r], ch, "work", n + 1, status[r], claims[r], more, effect[r])
    BY <1>1, <2>7, <2>9, <2>10 DEF Journey, Told
  <2>12. JourneyOf(r)'
    BY <1>1, <1>4, <2>3, <2>11, ZenonT(30) DEF JourneyOf, ch
  <2>13. subs[r] \subseteq subs'[r]
    BY <2>3 DEF more, sb
  <2> QED BY <1>1, <2>2, <2>3, <2>5, <2>6, <2>12, <2>13, RequestKeeps
<1> QED BY <1>3, <1>4 DEF Subscribed

\* A step of r to l that leaves the table alone, whatever became of the
\* publication.
LEMMA EffectMove ==
    ASSUME IInv, NEW r \in Requests, NEW l \in Pcs \ ({"none", "opened", "answered"} \union Counts), NEW st, NEW ef,
           Goto(r, l), status' = [status EXCEPT ![r] = st], effect' = [effect EXCEPT ![r] = ef],
           pc[r] \notin {"none", "opened"} \union Counts,
           UNCHANGED <<config, input, channels, next, registered, claims, subs, counters, admin>>,
           Journey(config, input[r], channels[r], l, next[r], st, claims[r], subs[r], ef)
    PROVE  IInv'
<1>1. Table'
  BY QuietMove
<1>2. /\ pc' \in [Requests -> Pcs] /\ status' = [t \in Requests |-> status'[t]]
      /\ effect' = [t \in Requests |-> effect'[t]]
  BY DEF IInv, Shape, Goto
<1>3. Shape'
  BY <1>2 DEF IInv, Shape, counters
<1>4. /\ pc'[r] = l /\ status'[r] = st /\ effect'[r] = ef
      /\ \A t \in Requests \ {r} : pc'[t] = pc[t] /\ status'[t] = status[t] /\ effect'[t] = effect[t]
  BY DEF IInv, Shape, Goto
<1>5. \A t \in Requests \ {r} : SameFor(t)
  BY <1>4 DEF SameFor
<1>6. JourneyOf(r)'
  BY <1>4 DEF JourneyOf
<1> QED BY <1>1, <1>3, <1>4, <1>5, <1>6, RequestKeeps

\* The one channel of a publication in hand was allowed and accepted.
LEMMA PublishAllowed ==
    ASSUME IInv, NEW r \in Requests, pc[r] = "await", input[r].kind = "publish"
    PROVE  /\ Asks(input[r], channels[r]) /\ claims[r] # None
           /\ Range(channels[r]) \intersect (config.denied \union config.rejected) = {}
<1> DEFINE ch == channels[r]
<1>1. Journey(config, input[r], ch, pc[r], next[r], status[r], claims[r], subs[r], effect[r])
  BY DEF IInv, Journeys
<1> HIDE DEF ch
<1>2. /\ Asks(input[r], ch) /\ IsSeq(ch) /\ Len(ch) = 1 /\ next[r] = 1 /\ claims[r] # None
      /\ ch[1] \notin config.denied /\ ch[1] \notin config.rejected
  BY <1>1 DEF Journey, Asks
<1>3. Range(ch) = {ch[1]}
  BY <1>2, SMT DEF IsSeq, Range
<1> QED BY <1>2, <1>3 DEF ch

\* The handler ends with a result that tells the effect.
LEMMA EffectFails ==
    ASSUME IInv, NEW r \in Requests, NEW code, NEW ef, Fail(r, code), effect' = [effect EXCEPT ![r] = ef],
           pc[r] \in {"await", "handed"}, input[r].kind = "publish", claims[r] # None,
           Range(channels[r]) \intersect (config.denied \union config.rejected) = {},
           code = 500 \/ (code = 200 /\ ef = "sent"),
           UNCHANGED <<config, input, channels, next, registered, claims, subs, counters, admin>>
    PROVE  IInv'
<1>1. "failed" \in Pcs \ ({"none", "opened", "answered"} \union Counts)
  BY DEF Pcs, Handling, Counts
<1>2. Goto(r, "failed") /\ status' = [status EXCEPT ![r] = code]
  BY DEF Fail
<1>3. Told(config, input[r], channels[r], code, claims[r], subs[r], ef)
  <2>1. code = 200 => ef = "sent"
    BY SMT
  <2> QED BY <2>1 DEF Told
<1>4. Journey(config, input[r], channels[r], "failed", next[r], code, claims[r], subs[r], ef)
  BY <1>3 DEF Journey
<1>5. pc[r] \notin {"none", "opened"} \union Counts
  BY DEF Counts
<1> QED BY <1>1, <1>2, <1>4, <1>5, EffectMove

LEMMA ErrorIs500 == into_response("Channel") = 500 /\ into_response("Broker") = 500
BY SMT DEF into_response

LEMMA KindTakesKeeps == ASSUME IInv, NEW r \in Requests, KindTakes(r) PROVE IInv'
<1>1. /\ pc[r] = "await" /\ input[r].kind = "publish"
      /\ UNCHANGED <<config, input, channels, next, registered, claims, subs, counters, admin>>
  BY DEF KindTakes
<1>2. /\ Asks(input[r], channels[r]) /\ claims[r] # None
      /\ Range(channels[r]) \intersect (config.denied \union config.rejected) = {}
  BY <1>1, PublishAllowed
<1>3. CASE Reaches(r, {"none", "stored"}) /\ Fail(r, into_response("Channel"))
  <2>1. PICK ef \in {"none", "stored"} : effect' = [effect EXCEPT ![r] = ef]
    BY <1>3 DEF Reaches
  <2>2. Fail(r, 500)
    BY <1>3, ErrorIs500
  <2>3. pc[r] \in {"await", "handed"}
    BY <1>1
  <2> QED BY <1>1, <1>2, <2>1, <2>2, <2>3, EffectFails, ZenonT(30)
<1>4. CASE Reaches(r, {"stored"}) /\ Goto(r, "handed") /\ UNCHANGED status
  <2>1. effect' = [effect EXCEPT ![r] = "stored"] /\ Goto(r, "handed")
    BY <1>4 DEF Reaches
  <2>2. status' = [status EXCEPT ![r] = status[r]]
    BY <1>4 DEF IInv, Shape
  <2>3. status[r] = None /\ status[r] # 200
    BY <1>1 DEF IInv, Journeys, Journey
  <2>4. Told(config, input[r], channels[r], status[r], claims[r], subs[r], "stored")
    BY <1>2, <2>3 DEF Told
  <2>5. Journey(config, input[r], channels[r], "handed", next[r], status[r], claims[r], subs[r], "stored")
    BY <1>1, <1>2, <2>3, <2>4 DEF Journey
  <2>6. "handed" \in Pcs \ ({"none", "opened", "answered"} \union Counts)
    BY DEF Pcs, Handling, Counts
  <2> QED BY <1>1, <2>1, <2>2, <2>5, <2>6, EffectMove DEF Counts
<1> QED BY <1>3, <1>4 DEF KindTakes

LEMMA PublishedKeeps == ASSUME IInv, NEW r \in Requests, Published(r) PROVE IInv'
<1>1. /\ pc[r] = "handed"
      /\ UNCHANGED <<config, input, channels, next, registered, claims, subs, counters, admin>>
  BY DEF Published
<1>2. /\ input[r].kind = "publish" /\ claims[r] # None
      /\ Range(channels[r]) \intersect (config.denied \union config.rejected) = {}
  BY <1>1 DEF IInv, Journeys, Journey
<1>3. PICK ef \in {"stored", "sent"}, code \in {200, 500} :
        /\ effect' = [effect EXCEPT ![r] = ef] /\ Fail(r, code)
        /\ code = 500 \/ (code = 200 /\ ef = "sent")
  <2>1. CASE Reaches(r, {"sent"}) /\ Fail(r, 200)
    BY <2>1, ZenonT(40) DEF Reaches
  <2>2. CASE Reaches(r, {"stored", "sent"}) /\ Fail(r, into_response("Broker"))
    <3>1. PICK ef \in {"stored", "sent"} : effect' = [effect EXCEPT ![r] = ef]
      BY <2>2 DEF Reaches
    <3>2. Fail(r, 500)
      BY <2>2, ErrorIs500
    <3> QED BY <3>1, <3>2
  <2> QED BY <2>1, <2>2 DEF Published
<1>4. pc[r] \in {"await", "handed"}
  BY <1>1
<1> QED BY <1>1, <1>2, <1>3, <1>4, EffectFails, ZenonT(30)

\* A sequence without repetitions has as many elements as places.
LEMMA DistinctElements ==
    ASSUME NEW s, IsSeq(s), \A i, j \in 1..Len(s) : s[i] = s[j] => i = j
    PROVE  Cardinality(Range(s)) = Len(s)
<1>1. s \in [1..Len(s) -> Range(s)] /\ DOMAIN s = 1..Len(s)
  BY DEF IsSeq, Range
<1>2. IsInjective(s)
  BY <1>1 DEF IsInjective
<1>3. \A e \in Range(s) : \E i \in 1..Len(s) : s[i] = e
  BY <1>1 DEF Range
<1>4. s \in Bijection(1..Len(s), Range(s))
  BY <1>1, <1>2, <1>3 DEF Bijection, Injection, Surjection
<1>5. ExistsBijection(1..Len(s), Range(s))
  BY <1>4 DEF ExistsBijection
<1> QED BY <1>5, FS_CountingElements DEF IsSeq

\* 200 for a stream: every channel was reached, so every one is subscribed.
LEMMA StartStreamKeeps == ASSUME IInv, NEW r \in Requests, StartStream(r) PROVE IInv'
<1> DEFINE ch == channels[r]
           n == next[r]
           sb == subs[r]
<1>1. /\ pc[r] = "work" /\ input[r].kind = "subscribe" /\ n > Len(ch)
      /\ Goto(r, "streaming") /\ status' = [status EXCEPT ![r] = 200]
      /\ UNCHANGED <<config, input, channels, next, hubVars, counters, admin>>
  BY DEF StartStream
<1>2. Journey(config, input[r], ch, pc[r], n, status[r], claims[r], sb, effect[r])
  BY DEF IInv, Journeys
<1> HIDE DEF ch, n, sb
<1>3. /\ effect[r] = "none" /\ IsSeq(ch) /\ Len(ch) > 0 /\ n \in 1..(Len(ch) + 1)
      /\ n > 1 => claims[r] # None
      /\ Joined(config, ch, n, sb)
  BY <1>1, <1>2 DEF Journey, Asks
<1>4. Len(ch) \in Nat
  BY <1>3 DEF IsSeq
<1>5. n > 1 /\ 1..(n - 1) = 1..Len(ch)
  BY <1>1, <1>3, <1>4, SMT
<1>6. Range(ch) = {ch[i] : i \in 1..Len(ch)}
  BY <1>3, <1>4 DEF IsSeq, Range
<1>7. sb = Range(ch) /\ Range(ch) \intersect config.denied = {}
  BY <1>3, <1>5, <1>6, SMT DEF Joined
<1>8. Len(ch) = Cardinality(Range(ch))
  BY <1>3, <1>5, DistinctElements DEF Joined
<1>9. Journey(config, input[r], ch, "streaming", n, 200, claims[r], sb, effect[r])
  BY <1>1, <1>3, <1>5, <1>7, <1>8 DEF Journey, Told
<1>10. "streaming" \in Pcs \ ({"none", "opened"} \union Counts)
  BY DEF Pcs, Counts
<1> QED BY <1>1, <1>9, <1>10, PlainMove DEF Counts, ch, n, sb

LEMMA PollStreamKeeps == ASSUME IInv, NEW r \in Requests, PollStream(r) PROVE IInv'
<1>1. UNCHANGED <<config, input, channels, pc, next, status, hubVars, counters, admin>>
  BY DEF PollStream
<1>2. Shape' /\ Unlisted'
  BY <1>1 DEF hubVars, counters, IInv, Shape, Unlisted
<1>3. CountersBalance' /\ RemovedOnce'
  BY <1>1, ZenonT(30) DEF hubVars, counters, IInv, CountersBalance, RemovedOnce, Removers, AtCall
<1>4. RowsTrue'
  BY <1>1 DEF hubVars, IInv, RowsTrue, RowTrue
<1>5. Journeys'
  BY <1>1, ZenonT(30) DEF hubVars, IInv, Journeys
<1> QED BY <1>2, <1>3, <1>4, <1>5 DEF IInv

LEMMA EndStreamKeeps == ASSUME IInv, NEW r \in Requests, EndStream(r) PROVE IInv'
<1>1. /\ pc[r] = "streaming" /\ Goto(r, "ended")
      /\ UNCHANGED <<config, input, channels, next, status, hubVars, counters, admin>>
  BY DEF EndStream
<1>2. "ended" \in Pcs \ ({"none", "opened", "answered"} \union Counts) /\ "ended" \in Late
  BY DEF Pcs, Counts, Late
<1> QED BY <1>1, <1>2, LateJourney, GoOn DEF Counts

\* A client that leaves was told nothing yet, or 200 for its stream.
LEMMA ClientGoneKeeps == ASSUME IInv, NEW r \in Requests, ClientGone(r) PROVE IInv'
<1>1. /\ pc[r] \in {"authenticate", "await", "handed", "streaming"} /\ Goto(r, "dropped")
      /\ UNCHANGED <<config, input, channels, next, status, registered, claims, subs, counters, admin>>
  BY DEF ClientGone
<1>2. PICK ef : effect' = [effect EXCEPT ![r] = ef] /\ (ef = effect[r] \/ pc[r] = "handed")
  BY DEF ClientGone, Reaches
<1>3. status' = [status EXCEPT ![r] = status[r]]
  BY <1>1 DEF IInv, Shape
<1>4. Journey(config, input[r], channels[r], pc[r], next[r], status[r], claims[r], subs[r], effect[r])
  BY DEF IInv, Journeys
<1>5. Told(config, input[r], channels[r], status[r], claims[r], subs[r], ef)
  <2>1. CASE ef = effect[r]
    BY <1>4, <2>1 DEF Journey
  <2>2. CASE pc[r] = "handed"
    <3>1. /\ status[r] = None /\ status[r] # 200 /\ claims[r] # None
          /\ Range(channels[r]) \intersect (config.denied \union config.rejected) = {}
      BY <1>4, <2>2 DEF Journey
    <3> QED BY <3>1 DEF Told
  <2> QED BY <1>2, <2>1, <2>2
<1>6. Journey(config, input[r], channels[r], "dropped", next[r], status[r], claims[r], subs[r], ef)
  BY <1>5 DEF Journey
<1>7. "dropped" \in Pcs \ ({"none", "opened", "answered"} \union Counts)
  BY DEF Pcs, Counts
<1> QED BY <1>1, <1>2, <1>3, <1>6, <1>7, EffectMove DEF Counts

-----------------------------------------------------------------------------
(* The admin calls.                                                        *)
LEMMA AdminArriveKeeps ==
    ASSUME IInv, NEW a \in AdminCalls, NEW i, AdminArrive(a, i)
    PROVE  IInv'
<1> DEFINE fresh == {[id |-> r, subject |-> NoInput, channels |-> NoInput] : r \in Found(i)}
           C(label, code, rows) ==
             [NoCall EXCEPT !.pc = label, !.input = i, !.reply = code, !.rows = rows]
<1>1. /\ AtCall(a, "none")
      /\ UNCHANGED <<config, input, channels, pc, next, status, hubVars, counters>>
  BY DEF AdminArrive
<1> DEFINE Begin(label, code, rows) == admin' = [admin EXCEPT ![a] = C(label, code, rows)]
<1>2. \A row \in fresh : RowTrue(row)
  <2>1. SUFFICES ASSUME NEW row \in fresh PROVE RowTrue(row)
    OBVIOUS
  <2>2. PICK r \in Found(i) : row = [id |-> r, subject |-> NoInput, channels |-> NoInput]
    OBVIOUS
  <2>3. r \in Requests /\ pc[r] # "none"
    BY <2>2 DEF Found, IInv, Shape, Unlisted
  <2> QED BY <2>2, <2>3 DEF RowTrue, RowFields
<1>3. ASSUME NEW label, label # "count", NEW code, NEW rows, \A row \in rows : RowTrue(row),
             Begin(label, code, rows)
      PROVE  IInv'
  <2> DEFINE c == C(label, code, rows)
  <2>1. DOMAIN c = CallFields /\ c.pc = label /\ c.rows = rows /\ c.removed = FALSE
    BY DEF NoCall, CallFields
  <2>2. admin' = [admin EXCEPT ![a] = c]
    BY <1>3
  <2> HIDE DEF c
  <2>3. Table'
    BY <1>1, <1>3, <2>1, <2>2, QuietCall DEF AtCall, hubVars
  <2>4. registered' \subseteq registered /\ kicked' \in Nat /\ UNCHANGED <<opened, closed>>
    BY <1>1 DEF hubVars, counters, IInv, Shape
  <2> QED BY <1>1, <1>3, <2>1, <2>2, <2>3, <2>4, CallKeeps DEF hubVars
<1>4. \/ Begin("answered", 401, {}) \/ Begin("answered", metrics_endpoint, {}) \/ Begin("get", None, {})
      \/ Begin("answered", 404, {}) \/ Begin("rows", None, fresh)
  BY DEF AdminArrive
<1> HIDE DEF Begin, fresh
<1> QED BY <1>2, <1>3, <1>4, SMT

\* A row is read through the session it names.
LEMMA ReadRowKeeps == ASSUME IInv, NEW a \in AdminCalls, ReadClaims(a) \/ ReadChannels(a) PROVE IInv'
<1>1. AtCall(a, "rows") /\ UNCHANGED <<config, input, channels, pc, next, status, hubVars, counters>>
  BY DEF ReadClaims, ReadChannels
<1>2. PICK row \in admin[a].rows : \E new \in {[row EXCEPT !.subject = claims[row.id]],
                                                [row EXCEPT !.channels = subs[row.id]]} :
        admin' = [admin EXCEPT ![a].rows = (@ \ {row}) \union {new}]
  BY DEF ReadClaims, ReadChannels
<1>3. PICK new \in {[row EXCEPT !.subject = claims[row.id]], [row EXCEPT !.channels = subs[row.id]]} :
        admin' = [admin EXCEPT ![a].rows = (@ \ {row}) \union {new}]
  BY <1>2
<1>4. \A w \in admin[a].rows : RowTrue(w)
  BY DEF IInv, RowsTrue
<1>5. RowTrue(new)
  BY <1>3, <1>4 DEF RowTrue, RowFields
<1> DEFINE rows == (admin[a].rows \ {row}) \union {new}
           c == [admin[a] EXCEPT !.rows = rows]
<1>6. \A w \in rows : RowTrue(w)
  BY <1>4, <1>5
<1>7. admin' = [admin EXCEPT ![a] = c]
  BY <1>3 DEF IInv, Shape
<1> HIDE DEF rows
<1>8. /\ DOMAIN c = CallFields /\ c.pc = admin[a].pc /\ c.rows = rows
      /\ c.removed = admin[a].removed /\ c.input = admin[a].input
  BY DEF IInv, Shape, CallFields
<1> HIDE DEF c
<1>9. Table'
  BY <1>1, <1>7, <1>8, QuietCall DEF AtCall, hubVars
<1>10. registered' \subseteq registered /\ kicked' \in Nat /\ UNCHANGED <<opened, closed>>
  BY <1>1 DEF hubVars, counters, IInv, Shape
<1> QED BY <1>1, <1>6, <1>7, <1>8, <1>9, <1>10, CallKeeps DEF hubVars

\* A call goes on to l, or answers, with the rows it has.
LEMMA CallMoves ==
    ASSUME IInv, NEW a \in AdminCalls, NEW l \in {"signal", "deregister", "answered"}, ~AtCall(a, "count"),
           admin' = [admin EXCEPT ![a].pc = l] \/ \E code : admin' = [admin EXCEPT ![a].pc = l, ![a].reply = code],
           UNCHANGED <<config, input, channels, pc, next, status, hubVars, counters>>
    PROVE  IInv'
<1>1. \E code : admin' = [admin EXCEPT ![a] = [@ EXCEPT !.pc = l, !.reply = code]]
  <2>1. CASE admin' = [admin EXCEPT ![a].pc = l]
    <3> DEFINE code == admin[a].reply
    <3>1. [admin[a] EXCEPT !.pc = l] = [admin[a] EXCEPT !.pc = l, !.reply = code]
      BY DEF IInv, Shape, CallFields
    <3> QED BY <2>1, <3>1
  <2>2. CASE \E code : admin' = [admin EXCEPT ![a].pc = l, ![a].reply = code]
    BY <2>2
  <2> QED BY <2>1, <2>2
<1>2. PICK code : admin' = [admin EXCEPT ![a] = [@ EXCEPT !.pc = l, !.reply = code]]
  BY <1>1
<1> DEFINE c == [admin[a] EXCEPT !.pc = l, !.reply = code]
<1>3. admin' = [admin EXCEPT ![a] = c]
  BY <1>2 DEF IInv, Shape
<1>4. /\ DOMAIN c = CallFields /\ c.pc = l /\ c.rows = admin[a].rows
      /\ c.removed = admin[a].removed /\ c.input = admin[a].input
  BY DEF IInv, Shape, CallFields
<1> HIDE DEF c
<1>5. \A w \in c.rows : RowTrue(w)
  BY <1>4 DEF IInv, RowsTrue
<1>6. Table'
  BY <1>3, <1>4, QuietCall DEF hubVars
<1>7. registered' \subseteq registered /\ kicked' \in Nat /\ UNCHANGED <<opened, closed>>
  BY DEF hubVars, counters, IInv, Shape
<1> QED BY <1>3, <1>4, <1>5, <1>6, <1>7, CallKeeps DEF hubVars

LEMMA KickDeregisterKeeps == ASSUME IInv, NEW a \in AdminCalls, KickDeregister(a) PROVE IInv'
<1> DEFINE t == admin[a].input.target
<1>1. /\ AtCall(a, "deregister") /\ registered' = registered \ {t}
      /\ UNCHANGED <<config, input, channels, pc, next, status, claims, subs, effect, counters>>
  BY DEF KickDeregister
<1>2. CASE t \notin registered
  <2>1. registered' = registered /\ Reply(a, 200)
    BY <1>1, <1>2 DEF KickDeregister
  <2>2. UNCHANGED hubVars
    BY <1>1, <2>1 DEF hubVars
  <2> QED BY <1>1, <2>1, <2>2, CallMoves DEF Reply, AtCall
<1>3. CASE t \in registered
  <2> DEFINE c == [admin[a] EXCEPT !.pc = "count"]
  <2>1. admin' = [admin EXCEPT ![a] = c]
    BY <1>3 DEF KickDeregister, IInv, Shape
  <2>2. /\ DOMAIN c = CallFields /\ c.pc = "count" /\ c.rows = admin[a].rows
        /\ c.removed = admin[a].removed /\ c.input = admin[a].input
    BY DEF IInv, Shape, CallFields
  <2> HIDE DEF c
  <2>3. \A w \in c.rows : RowTrue(w)
    BY <2>2 DEF IInv, RowsTrue
  <2>4. Table'
    BY <1>1, <1>3, <2>1, <2>2, RemovalCall
  <2>5. registered' \subseteq registered /\ kicked' \in Nat /\ UNCHANGED <<opened, closed>>
    BY <1>1 DEF counters, IInv, Shape
  <2> QED BY <1>1, <2>1, <2>2, <2>3, <2>4, <2>5, CallKeeps
<1> QED BY <1>2, <1>3

LEMMA KickCountKeeps == ASSUME IInv, NEW a \in AdminCalls, KickCount(a) PROVE IInv'
<1> DEFINE c == [admin[a] EXCEPT !.pc = "answered", !.reply = 200, !.removed = TRUE]
<1>1. /\ AtCall(a, "count") /\ kicked' = kicked + 1
      /\ UNCHANGED <<config, input, channels, pc, next, status, hubVars, opened, closed>>
  BY DEF KickCount
<1>2. admin' = [admin EXCEPT ![a] = c]
  BY ZenonT(40) DEF KickCount, IInv, Shape
<1>3. DOMAIN c = CallFields /\ c.pc = "answered" /\ c.rows = admin[a].rows /\ c.input = admin[a].input
  BY ZenonT(30) DEF IInv, Shape, CallFields
<1> HIDE DEF c
<1>4. \A w \in c.rows : RowTrue(w)
  BY <1>3 DEF IInv, RowsTrue
<1>5. Table'
  BY <1>1, <1>2, <1>3, CountCall DEF hubVars
<1>6. registered' \subseteq registered /\ kicked' \in Nat /\ UNCHANGED <<opened, closed>>
  BY <1>1, SMT DEF hubVars, IInv, Shape
<1> QED BY <1>1, <1>2, <1>3, <1>4, <1>5, <1>6, CallKeeps DEF hubVars

LEMMA CallStepKeeps == ASSUME IInv, NEW a \in AdminCalls, SendRows(a) \/ KickGet(a) \/ KickSignal(a) PROVE IInv'
<1>1. /\ ~AtCall(a, "count")
      /\ UNCHANGED <<config, input, channels, pc, next, status, hubVars, counters>>
  BY DEF SendRows, KickGet, KickSignal, AtCall
<1>2. \/ Reply(a, 200)
      \/ admin' = [admin EXCEPT ![a].pc = "signal"] \/ admin' = [admin EXCEPT ![a].pc = "deregister"]
  BY DEF SendRows, KickGet, KickSignal
<1> QED BY <1>1, <1>2, CallMoves DEF Reply

-----------------------------------------------------------------------------
LEMMA InitIInv == Init => IInv
<1> SUFFICES ASSUME Init PROVE IInv
  OBVIOUS
<1>1. DOMAIN NoCall = CallFields /\ NoCall.pc = "none" /\ NoCall.rows = {} /\ NoCall.removed = FALSE
  BY DEF NoCall, CallFields
<1>2. "none" \in Pcs
  BY DEF Pcs
<1>3. Shape
  BY <1>1, <1>2 DEF Init, Shape
<1>4. \A a \in AdminCalls : admin[a].pc = "none" /\ admin[a].rows = {} /\ admin[a].removed = FALSE
  BY <1>1 DEF Init
<1>5. Unlisted /\ RowsTrue
  BY <1>4 DEF Init, Unlisted, RowsTrue
<1>6. RemovedOnce
  BY <1>4 DEF RemovedOnce, Removers, AtCall
<1>7. CountersBalance
  <2>1. Opening = {} /\ Counting = {} /\ Kicking = {} /\ registered = {}
    BY <1>4 DEF Init, Opening, Counting, Kicking, AtCall, Counts
  <2>2. opened = 0 /\ closed = 0 /\ kicked = 0
    BY DEF Init
  <2> QED BY <2>1, <2>2, BalanceIs, FS_EmptySet, SMT
<1>8. ASSUME NEW r \in Requests
      PROVE  Journey(config, input[r], channels[r], pc[r], next[r], status[r], claims[r], subs[r], effect[r])
  <2>1. pc[r] = "none" /\ next[r] = 1 /\ status[r] = None /\ status[r] # 200 /\ subs[r] = {} /\ effect[r] = "none"
    BY EndpointConstants, SMT DEF Init, Bytes
  <2> QED BY <2>1 DEF Journey, Told
<1> QED BY <1>3, <1>5, <1>6, <1>7, <1>8 DEF IInv, Journeys

LEMMA NextIInv == IInv /\ [Next]_vars => IInv'
<1> SUFFICES ASSUME IInv, [Next]_vars PROVE IInv'
  OBVIOUS
<1>1. CASE UNCHANGED vars
  <2>1. UNCHANGED <<config, input, channels, pc, next, status, hubVars, counters, admin>>
    BY <1>1 DEF vars
  <2>2. Shape' /\ Unlisted'
    BY <2>1 DEF hubVars, counters, IInv, Shape, Unlisted
  <2>3. CountersBalance' /\ RemovedOnce'
    BY <2>1 DEF hubVars, counters, IInv, CountersBalance, RemovedOnce, Removers, AtCall
  <2>4. RowsTrue'
    BY <2>1, ZenonT(30) DEF hubVars, IInv, RowsTrue, RowTrue
  <2>5. Journeys'
    BY <2>1 DEF hubVars, IInv, Journeys
  <2> QED BY <2>2, <2>3, <2>4, <2>5 DEF IInv
<1>2. ASSUME NEW r \in Requests, Handler(r) \/ ClientGone(r) PROVE IInv'
  BY <1>2, CountOpenedKeeps, ConnectKeeps, AuthenticateKeeps, LookupKeeps, SubscribedKeeps, KindTakesKeeps, PublishedKeeps,
     CloseKeeps, StartStreamKeeps, PollStreamKeeps, EndStreamKeeps, ClientGoneKeeps, CountClosedKeeps DEF Handler
<1>3. ASSUME NEW r \in Requests, NEW i \in Inputs[r], SubscribeArrives(r, i) \/ PublishArrives(r, i) PROVE IInv'
  BY <1>3, SubscribeArrivesKeeps, PublishArrivesKeeps
<1>4. ASSUME NEW a \in AdminCalls, AdminHandler(a) PROVE IInv'
  BY <1>4, ReadRowKeeps, CallStepKeeps, KickDeregisterKeeps, KickCountKeeps DEF AdminHandler
<1>5. ASSUME NEW a \in AdminCalls, NEW i \in AdminInputs[a], AdminArrive(a, i) PROVE IInv'
  BY <1>5, AdminArriveKeeps
<1> QED BY <1>1, <1>2, <1>3, <1>4, <1>5 DEF Next, AllServed

LEMMA SpecIInv == Spec => []IInv
BY InitIInv, NextIInv, PTL DEF Spec

(* The counters of opened, closed and kicked sessions account for the      *)
(* session table at every moment, up to the calls between the table and    *)
(* their counter (session.rs deregister, hub.rs open_session,              *)
(* close_session and kick_session).                                        *)
THEOREM CountersTheorem == Spec => []CountersBalance
<1>1. IInv => CountersBalance
  BY DEF IInv
<1> QED BY <1>1, SpecIInv, PTL

(* No request that was answered leaves its session in the table, whatever  *)
(* kicks raced with its handler (sse lib.rs subscribe_handler,             *)
(* publish_handler).                                                       *)
THEOREM AnsweredTheorem == Spec => []AnsweredLeavesNothing
<1>1. IInv => AnsweredLeavesNothing
  BY DEF IInv, Unlisted, AnsweredLeavesNothing
<1> QED BY <1>1, SpecIInv, PTL

(* The HTTP status tells what the request did: 200 for a subscribe that    *)
(* every channel asked for is subscribed once, 200 for a publish that it   *)
(* was stored and sent, a 4xx that nothing of it was; only 500 leaves it   *)
(* open (sse lib.rs into_response over hub.rs handle_publish, which keeps  *)
(* what the kind stored when the broker fails).                            *)
THEOREM StatusTheorem == Spec => []StatusTellsTheEffect
<1>1. IInv => StatusTellsTheEffect
  BY DEF IInv, Journeys, Journey, Told, StatusTellsTheEffect
<1> QED BY <1>1, SpecIInv, PTL

(* Of all the calls that disconnect a session and its own handler one      *)
(* removes it, and the rows of a listing are true although claims and      *)
(* channels are read at different moments (admin lib.rs list_sessions,     *)
(* hub.rs kick_session).                                                   *)
THEOREM AdminTheorem == Spec => []AdminTellsTheTruth
<1>1. ASSUME IInv PROVE AdminTellsTheTruth
  <2>1. ASSUME NEW r \in Requests
        PROVE  Cardinality(Removers(r)) + (IF pc[r] \in Counts \/ r \in registered THEN 1 ELSE 0) <= 1
    <3>1. CASE Removers(r) = {}
      BY <3>1, FS_EmptySet, SMT
    <3>2. CASE Removers(r) # {}
      <4>1. PICK a \in Removers(r) : Removers(r) = {a}
        BY <1>1, <3>2, SMT DEF IInv, RemovedOnce
      <4>2. Cardinality(Removers(r)) = 1
        BY <4>1, FS_Singleton
      <4>3. ~(pc[r] \in Counts \/ r \in registered)
        BY <1>1, <3>2 DEF IInv, RemovedOnce
      <4> QED BY <4>2, <4>3, SMT
    <3> QED BY <3>1, <3>2
  <2>2. \A a \in AdminCalls : \A row \in admin[a].rows :
          /\ row.subject \in {NoInput, None, claims[row.id]}
          /\ row.channels # NoInput => row.channels \subseteq subs[row.id]
    BY <1>1 DEF IInv, RowsTrue, RowTrue
  <2> QED BY <2>1, <2>2 DEF AdminTellsTheTruth, Removers, Counts
<1> QED BY <1>1, SpecIInv, PTL

-----------------------------------------------------------------------------
(* What urlencoding_decode and channels_from_raw_query compute, for values *)
(* and queries of any length.                                              *)

\* A set of naturals that is not empty has a least member.
LEMMA LeastNat ==
    ASSUME NEW T, T \subseteq Nat, T # {}
    PROVE  \E x \in T : \A y \in T : x <= y
<1> DEFINE R == OpToRel(<, Nat)
<1>1. IsWellFoundedOn(R, Nat)
  BY NatLessThanWellFounded
<1>2. \A x, y \in Nat : <<y, x>> \in R <=> y < x
  BY DEF OpToRel
<1> HIDE DEF R
<1>3. PICK x \in T : \A y \in T : ~(<<y, x>> \in R)
  BY <1>1, WFMin
<1>4. \A y \in T : ~(y < x)
  BY <1>2, <1>3
<1> QED BY <1>4, SMT

\* The while loop: from place i the byte B[i] is read and the loop goes on at
\* X[i], until i is past the end.
Reads(f, a, N, len, B, X) == f = [i \in a..N |-> IF i > len THEN <<>> ELSE <<B[i]>> \o f[X[i]]]

\* A loop that only goes forward computes something.
LEMMA LoopDefined ==
    ASSUME NEW N \in Nat \ {0}, NEW len \in Nat, len < N, NEW B, NEW X,
           \A i \in 1..len : X[i] \in (i + 1)..N
    PROVE  \E f : Reads(f, 1, N, len, B, X)
<1> DEFINE T == {d \in 0..(N - 1) : ~\E f : Reads(f, N - d, N, len, B, X)}
<1>1. SUFFICES ASSUME T # {} PROVE FALSE
  <2>1. N - 1 \in 0..(N - 1) /\ N - (N - 1) = 1
    BY SMT
  <2> QED BY <2>1
<1>2. PICK d \in T : \A e \in T : d <= e
  <2>1. T \subseteq Nat
    BY SMT
  <2> HIDE DEF T
  <2> QED BY <1>1, <2>1, LeastNat
<1>3. d \in 0..(N - 1) /\ ~\E f : Reads(f, N - d, N, len, B, X)
  BY <1>2
<1>4. CASE d = 0
  <2> DEFINE g == [i \in N..N |-> <<>>]
  <2>1. g = [i \in N..N |-> IF i > len THEN <<>> ELSE <<B[i]>> \o g[X[i]]]
    BY SMT
  <2>2. Reads(g, N, N, len, B, X)
    BY <2>1 DEF Reads
  <2>3. N - d = N
    BY <1>4, SMT
  <2> HIDE DEF g
  <2> QED BY <1>3, <2>2, <2>3
<1>5. CASE d # 0
  <2> DEFINE a == N - d
  <2>1. a \in 1..(N - 1) /\ N - (d - 1) = a + 1 /\ d - 1 \in 0..(N - 1) /\ ~(d <= d - 1)
    BY <1>3, <1>5, SMT
  <2>2. d - 1 \notin T
    BY <1>2, <2>1
  <2>3. PICK f : Reads(f, a + 1, N, len, B, X)
    BY <2>1, <2>2
  <2>4. f = [i \in (a + 1)..N |-> IF i > len THEN <<>> ELSE <<B[i]>> \o f[X[i]]]
    BY <2>3 DEF Reads
  <2> DEFINE g == [i \in a..N |-> IF i > len THEN <<>> ELSE <<B[i]>> \o f[X[i]]]
  <2> HIDE DEF a
  <2>5. \A i \in (a + 1)..N : i \in a..N /\ g[i] = f[i]
    <3> SUFFICES ASSUME NEW i \in (a + 1)..N PROVE i \in a..N /\ g[i] = f[i]
      OBVIOUS
    <3>1. i \in a..N
      BY <2>1, SMT
    <3>2. f[i] = IF i > len THEN <<>> ELSE <<B[i]>> \o f[X[i]]
      BY <2>4
    <3>3. g[i] = IF i > len THEN <<>> ELSE <<B[i]>> \o f[X[i]]
      BY <3>1
    <3> QED BY <3>1, <3>2, <3>3
  <2>6. \A i \in a..N : i <= len => X[i] \in (a + 1)..N
    BY <2>1, SMT
  <2>7. \A i \in a..N : g[i] = IF i > len THEN <<>> ELSE <<B[i]>> \o g[X[i]]
    <3> SUFFICES ASSUME NEW i \in a..N
                 PROVE  g[i] = IF i > len THEN <<>> ELSE <<B[i]>> \o g[X[i]]
      OBVIOUS
    <3>1. CASE i > len
      BY <3>1
    <3>2. CASE ~(i > len)
      <4>1. g[X[i]] = f[X[i]]
        <5>1. X[i] \in (a + 1)..N
          BY <2>1, <2>6, <3>2, SMT
        <5> HIDE DEF g
        <5> QED BY <2>5, <5>1
      <4>2. g[i] = <<B[i]>> \o f[X[i]]
        BY <3>2
      <4> HIDE DEF g
      <4> QED BY <3>2, <4>1, <4>2
    <3> QED BY <3>1, <3>2
  <2>8. Reads(g, a, N, len, B, X)
    <3>1. g = [i \in a..N |-> g[i]]
      OBVIOUS
    <3>2. [i \in a..N |-> g[i]] = [i \in a..N |-> IF i > len THEN <<>> ELSE <<B[i]>> \o g[X[i]]]
      <4> HIDE DEF g
      <4> QED BY <2>7
    <3> HIDE DEF g
    <3> QED BY <3>1, <3>2 DEF Reads
  <2>9. \E h : Reads(h, a, N, len, B, X)
    <3> HIDE DEF g
    <3> QED BY <2>8
  <2> QED BY <1>3, <2>9 DEF a
<1> QED BY <1>4, <1>5

-----------------------------------------------------------------------------
\* urlencoding_decode at one place: the byte it reads and where it goes on.
EscapedAt(s, i) == IF s[i] = Percent /\ i + 2 <= Len(s) THEN from_str_radix(s[i + 1], s[i + 2]) ELSE None
ByteAt(s, i) == IF s[i] = Plus THEN Space ELSE IF EscapedAt(s, i) # None THEN EscapedAt(s, i) ELSE s[i]
NextAt(s, i) == IF EscapedAt(s, i) # None THEN i + 3 ELSE i + 1

\* What the recursion of urlencoding_decode computes satisfies its equation.
LEMMA DecodeReads ==
    ASSUME NEW s, Len(s) \in Nat
    PROVE  \E f : /\ \A i \in 1..(Len(s) + 3) :
                       f[i] = IF i > Len(s) THEN <<>> ELSE <<ByteAt(s, i)>> \o f[NextAt(s, i)]
                  /\ urlencoding_decode(s) = IF IsUtf8(f[1]) THEN f[1] ELSE None
<1> DEFINE N == Len(s) + 3
           Body(f) == [i \in 1..N |-> IF i > Len(s) THEN <<>> ELSE <<ByteAt(s, i)>> \o f[NextAt(s, i)]]
           rest == CHOOSE f : f = Body(f)
           B == [i \in 1..N |-> ByteAt(s, i)]
           X == [i \in 1..N |-> NextAt(s, i)]
<1>1. urlencoding_decode(s) = IF IsUtf8(rest[1]) THEN rest[1] ELSE None
  BY DEF urlencoding_decode, ByteAt, NextAt, EscapedAt
<1>2. N \in Nat \ {0} /\ Len(s) < N /\ \A i \in 1..Len(s) : X[i] \in (i + 1)..N
  BY SMT DEF NextAt
<1>3. PICK f : Reads(f, 1, N, Len(s), B, X)
  <2> HIDE DEF N, B, X
  <2> QED BY <1>2, LoopDefined
<1>4. f = [i \in 1..N |-> IF i > Len(s) THEN <<>> ELSE <<B[i]>> \o f[X[i]]]
  BY <1>3 DEF Reads
<1>5. f = Body(f)
  BY <1>4
<1>6. rest = Body(rest)
  <2> HIDE DEF Body
  <2> QED BY <1>5
<1>7. \A i \in 1..N : rest[i] = Body(rest)[i]
  <2> HIDE DEF rest, Body
  <2> QED BY <1>6
<1>8. \A i \in 1..N : rest[i] = IF i > Len(s) THEN <<>> ELSE <<ByteAt(s, i)>> \o rest[NextAt(s, i)]
  <2> HIDE DEF rest
  <2> QED BY <1>7
<1> HIDE DEF rest
<1> QED BY <1>1, <1>8

\* A part that writes b is read as b, as a whole.
LEMMA PieceRead ==
    ASSUME NEW s, Len(s) \in Nat, None \notin Bytes, NEW i \in 1..(Len(s) + 1), NEW j \in 1..(Len(s) + 1),
           NEW b \in Bytes, Piece(s, i, j, b)
    PROVE  i \in 1..Len(s) /\ i < j /\ ByteAt(s, i) = b /\ NextAt(s, i) = j
<1>1. i \in 1..Len(s) /\ i < j
  BY SMT DEF Piece
<1>2. CASE j = i + 1 /\ s[i] = b /\ b \notin {Plus, Percent}
  BY <1>1, <1>2 DEF ByteAt, NextAt, EscapedAt
<1>3. CASE j = i + 1 /\ s[i] = Plus /\ b = Space
  <2>1. EscapedAt(s, i) = None
    BY <1>3, SMT DEF EscapedAt, Plus, Percent
  <2> QED BY <1>1, <1>3, <2>1 DEF ByteAt, NextAt
<1>4. CASE /\ j = i + 3 /\ s[i] = Percent /\ IsHex(s[i + 1]) /\ IsHex(s[i + 2])
           /\ b = HexValue[s[i + 1]] * 16 + HexValue[s[i + 2]]
  <2>1. EscapedAt(s, i) = b
    <3>1. i + 2 <= Len(s)
      BY <1>4, SMT
    <3> QED BY <1>4, <3>1 DEF EscapedAt, from_str_radix
  <2>2. b # None /\ Percent # Plus
    BY SMT DEF Percent, Plus
  <2> QED BY <1>1, <1>4, <2>1, <2>2 DEF ByteAt, NextAt
<1> QED BY <1>2, <1>3, <1>4 DEF Piece

\* The end of a name, from its k-th byte.
From(name, k) == [j \in 1..(Len(name) + 1 - k) |-> name[k + j - 1]]

LEMMA ShiftedIndex ==
    ASSUME NEW l \in Nat, NEW m \in 1..l
    PROVE  m + 1 \in 2..(l + 1) /\ (m + 1) - 1 = m /\ m + 1 \in 1..(l + 1)
  BY SMT

\* A member in front of a sequence.
LEMMA OneMore ==
    ASSUME NEW S, NEW b \in S, NEW t \in Seq(S)
    PROVE  /\ <<b>> \o t \in Seq(S) /\ Len(<<b>> \o t) = Len(t) + 1
           /\ (<<b>> \o t)[1] = b
           /\ \A j \in 2..(Len(t) + 1) : (<<b>> \o t)[j] = t[j - 1]
<1>1. <<b>> \in Seq(S) /\ Len(<<b>>) = 1 /\ <<b>>[1] = b /\ Len(t) \in Nat
  BY SMT
<1> DEFINE h == <<b>>
           u == h \o t
<1>2. h \in Seq(S) /\ Len(h) = 1 /\ h[1] = b
  BY <1>1
<1> HIDE DEF h
<1>3. /\ u \in Seq(S) /\ Len(u) = Len(h) + Len(t)
      /\ \A i \in 1..(Len(h) + Len(t)) : u[i] = IF i <= Len(h) THEN h[i] ELSE t[i - Len(h)]
  BY <1>2, ConcatProperties
<1> HIDE DEF u
<1>4. /\ u \in Seq(S) /\ Len(u) = Len(t) + 1
      /\ u[1] = b
      /\ \A j \in 2..(Len(t) + 1) : u[j] = t[j - 1]
  BY <1>1, <1>2, <1>3, SMT
<1> QED BY <1>4 DEF u, h

\* A byte and the name after it.
LEMMA FromStep ==
    ASSUME NEW name \in Seq(Bytes), NEW k \in 1..Len(name)
    PROVE  <<name[k]>> \o From(name, k + 1) = From(name, k)
<1> DEFINE t == From(name, k + 1)
           n == Len(name)
<1>1. n \in Nat /\ \A j \in 1..n : name[j] \in Bytes
  BY SMT
<1>2. t \in Seq(Bytes) /\ Len(t) = n - k /\ \A j \in 1..(n - k) : t[j] = name[k + j]
  <2>1. t = [j \in 1..(n - k) |-> name[k + j]]
    BY <1>1, SMT DEF From
  <2>2. n - k \in Nat /\ \A j \in 1..(n - k) : name[k + j] \in Bytes
    BY <1>1, SMT
  <2> HIDE DEF t, n
  <2> QED BY <2>1, <2>2, SMT
<1> HIDE DEF t
<1> DEFINE u == <<name[k]>> \o t
<1>3. name[k] \in Bytes /\ t \in Seq(Bytes)
  BY <1>1, <1>2
<1>4. /\ u \in Seq(Bytes) /\ Len(u) = Len(t) + 1
      /\ u[1] = name[k]
      /\ \A j \in 2..(Len(t) + 1) : u[j] = t[j - 1]
  <2>1. ASSUME NEW c \in Bytes, NEW w \in Seq(Bytes)
        PROVE  /\ <<c>> \o w \in Seq(Bytes) /\ Len(<<c>> \o w) = Len(w) + 1
               /\ (<<c>> \o w)[1] = c
               /\ \A j \in 2..(Len(w) + 1) : (<<c>> \o w)[j] = w[j - 1]
    BY OneMore, SMT
  <2> QED BY <1>3, <2>1
<1> HIDE DEF u
<1>5. u \in Seq(Bytes) /\ Len(u) = n + 1 - k
  BY <1>1, <1>2, <1>4, SMT
<1>6. ASSUME NEW j \in 1..(n + 1 - k) PROVE u[j] = name[k + j - 1]
  <2>1. CASE j = 1
    BY <1>1, <1>2, <1>4, <2>1, SMT
  <2>2. CASE j # 1
    <3>1. j \in 2..(Len(t) + 1)
      BY <1>1, <1>2, <2>2, SMT
    <3>3. u[j] = t[j - 1]
      BY <1>4, <3>1
    <3>2. j - 1 \in 1..(n - k) /\ k + (j - 1) = k + j - 1
      BY <1>1, <2>2, SMT
    <3> QED BY <1>2, <3>2, <3>3
  <2> QED BY <2>1, <2>2
<1>7. u = [j \in 1..(n + 1 - k) |-> u[j]]
  BY <1>1, <1>5, SMT
<1>8. u = [j \in 1..(n + 1 - k) |-> name[k + j - 1]]
  BY <1>6, <1>7
<1> QED BY <1>8 DEF From, u, t

\* The whole name and its end.
LEMMA FromEnds ==
    ASSUME NEW name \in Seq(Bytes)
    PROVE  From(name, 1) = name /\ From(name, Len(name) + 1) = <<>>
<1>1. Len(name) \in Nat /\ name = [j \in 1..Len(name) |-> name[j]]
  BY SMT
<1>2. From(name, 1) = [j \in 1..Len(name) |-> name[j]]
  BY <1>1, SMT DEF From
<1>3. From(name, Len(name) + 1) = [j \in {} |-> name[Len(name) + 1 + j - 1]]
  BY <1>1, SMT DEF From
<1>4. From(name, Len(name) + 1) = <<>>
  BY <1>3, SMT
<1> QED BY <1>1, <1>2, <1>4

\* What is written as a name is read as that name, an error if it is no text.
LEMMA DecodeWrites ==
    ASSUME NEW s, Len(s) \in Nat, None \notin Bytes, NEW name \in Seq(Bytes), Writes(s, name)
    PROVE  urlencoding_decode(s) = IF IsUtf8(name) THEN name ELSE None
<1> DEFINE n == Len(name)
           N == Len(s) + 3
<1>1. PICK f : /\ \A i \in 1..N : f[i] = IF i > Len(s) THEN <<>> ELSE <<ByteAt(s, i)>> \o f[NextAt(s, i)]
               /\ urlencoding_decode(s) = IF IsUtf8(f[1]) THEN f[1] ELSE None
  BY DecodeReads
<1>2. PICK at \in Cuts(s, n) : \A k \in DOMAIN name : Piece(s, at[k], at[k + 1], name[k])
  BY DEF Writes
<1>3. /\ n \in Nat /\ DOMAIN name = 1..n /\ at \in [1..(n + 1) -> 1..(Len(s) + 1)]
      /\ at[1] = 1 /\ at[n + 1] = Len(s) + 1
  BY SMT DEF Cuts
<1>4. ASSUME NEW k \in 1..n
      PROVE  f[at[k]] = <<name[k]>> \o f[at[k + 1]]
  <2>1. k \in 1..(n + 1) /\ k + 1 \in 1..(n + 1) /\ name[k] \in Bytes
    BY <1>3, SMT
  <2>2. at[k] \in 1..(Len(s) + 1) /\ at[k + 1] \in 1..(Len(s) + 1) /\ Piece(s, at[k], at[k + 1], name[k])
    BY <1>2, <1>3, <2>1
  <2>3. at[k] \in 1..Len(s) /\ ByteAt(s, at[k]) = name[k] /\ NextAt(s, at[k]) = at[k + 1]
    BY <2>1, <2>2, PieceRead
  <2>4. at[k] \in 1..N /\ ~(at[k] > Len(s))
    BY <2>3, SMT
  <2> QED BY <1>1, <2>3, <2>4
<1>5. ASSUME NEW k \in 1..(n + 1)
      PROVE  f[at[k]] = From(name, k)
  <2> DEFINE T == {d \in 0..n : f[at[n + 1 - d]] # From(name, n + 1 - d)}
  <2>1. SUFFICES ASSUME T # {} PROVE FALSE
    <3>1. n + 1 - k \in 0..n /\ n + 1 - (n + 1 - k) = k
      BY <1>3, SMT
    <3> QED BY <3>1
  <2>2. PICK d \in T : \A e \in T : d <= e
    <3>1. T \subseteq Nat
      BY SMT
    <3> HIDE DEF T
    <3> QED BY <2>1, <3>1, LeastNat
  <2>3. d \in 0..n /\ f[at[n + 1 - d]] # From(name, n + 1 - d)
    BY <2>2
  <2>4. CASE d = 0
    <3>1. n + 1 - d = n + 1 /\ Len(s) + 1 \in 1..N /\ Len(s) + 1 > Len(s)
      BY <1>3, <2>4, SMT
    <3>2. f[Len(s) + 1] = <<>>
      BY <1>1, <3>1
    <3>3. f[at[n + 1]] = <<>>
      BY <1>3, <3>2
    <3>4. From(name, n + 1) = <<>>
      BY FromEnds
    <3> QED BY <2>3, <3>1, <3>3, <3>4
  <2>5. CASE d # 0
    <3> DEFINE m == n + 1 - d
    <3>1. m \in 1..n /\ n + 1 - (d - 1) = m + 1 /\ d - 1 \in 0..n /\ ~(d <= d - 1)
      BY <1>3, <2>3, <2>5, SMT
    <3>2. d - 1 \notin T
      BY <2>2, <3>1
    <3>3. f[at[m + 1]] = From(name, m + 1)
      BY <3>1, <3>2
    <3> HIDE DEF m
    <3>4. f[at[m]] = <<name[m]>> \o From(name, m + 1)
      BY <1>4, <3>1, <3>3
    <3>5. f[at[m]] = From(name, m)
      BY <3>1, <3>4, FromStep
    <3> QED BY <2>3, <3>5 DEF m
  <2> QED BY <2>4, <2>5
<1>6. f[1] = name
  <2>1. 1 \in 1..(n + 1)
    BY <1>3, SMT
  <2> QED BY <1>3, <1>5, <2>1, FromEnds
<1> QED BY <1>1, <1>6

\* Bytes that are not text are an error.
LEMMA DecodeNoText ==
    ASSUME NEW s, Len(s) \in Nat, None \notin Bytes, WritesNoText(s)
    PROVE  urlencoding_decode(s) = None
<1> DEFINE N == Len(s) + 3
           Z == Len(s) + 1
<1>1. PICK f : /\ \A i \in 1..N : f[i] = IF i > Len(s) THEN <<>> ELSE <<ByteAt(s, i)>> \o f[NextAt(s, i)]
               /\ urlencoding_decode(s) = IF IsUtf8(f[1]) THEN f[1] ELSE None
  BY DecodeReads
<1>2. PICK C \in SUBSET (1..Z) :
        /\ 1 \in C
        /\ \A i \in C : i = Z \/ \E j \in C, b \in Bytes : Piece(s, i, j, b) /\ C \cap (i + 1)..(j - 1) = {}
        /\ \E i, j \in C, b \in Bytes : b >= 128 /\ Piece(s, i, j, b)
  BY DEF WritesNoText
<1>3. PICK c \in C, e \in C, x \in Bytes : x >= 128 /\ Piece(s, c, e, x)
  BY <1>2
<1>4. c \in 1..Len(s) /\ ByteAt(s, c) = x
  BY <1>2, <1>3, PieceRead
<1> DEFINE Bad(i) == \E m \in DOMAIN f[i] : f[i][m] >= 128
           P(i) == f[i] \in Seq(Bytes) /\ (i <= c => Bad(i))
           T == {d \in 0..Len(s) : Z - d \in C /\ ~P(Z - d)}
<1>5. ASSUME NEW i \in C PROVE P(i)
  <2>1. SUFFICES ASSUME T # {} PROVE FALSE
    <3>1. Z - i \in 0..Len(s) /\ Z - (Z - i) = i
      BY <1>2, SMT
    <3> HIDE DEF P
    <3> QED BY <3>1, ZenonT(30)
  <2>2. PICK d \in T : \A g \in T : d <= g
    <3>1. T \subseteq Nat
      BY SMT
    <3> HIDE DEF T
    <3> QED BY <2>1, <3>1, LeastNat
  <2> DEFINE k == Z - d
  <2>3. d \in 0..Len(s) /\ k \in C /\ k \in 1..Z /\ ~P(k)
    BY <1>2, <2>2
  <2>4. \A j \in C : k < j => P(j)
    <3> SUFFICES ASSUME NEW j \in C, k < j PROVE P(j)
      OBVIOUS
    <3>1. Z - j \in 0..Len(s) /\ Z - (Z - j) = j /\ ~(d <= Z - j)
      BY <1>2, <2>3, SMT
    <3> HIDE DEF P, k
    <3>2. Z - j \notin T
      BY <2>2, <3>1
    <3> QED BY <3>1, <3>2
  <2> HIDE DEF k, T
  <2>5. CASE k = Z
    <3>1. f[k] = <<>>
      <4>1. k \in 1..N /\ k > Len(s)
        BY <2>5, SMT
      <4> QED BY <1>1, <4>1
    <3>2. ~(k <= c)
      BY <1>4, <2>5, SMT
    <3> QED BY <2>3, <3>1, <3>2, SMT
  <2>6. CASE k # Z
    <3>1. PICK j \in C, b \in Bytes : Piece(s, k, j, b) /\ C \cap (k + 1)..(j - 1) = {}
      BY <1>2, <2>3, <2>6
    <3>2. k \in 1..Len(s) /\ k < j /\ ByteAt(s, k) = b /\ NextAt(s, k) = j
      <4>1. j \in 1..Z
        BY <1>2
      <4> QED BY <2>3, <3>1, <4>1, PieceRead
    <3>3. f[k] = <<b>> \o f[j]
      <4>1. k \in 1..N /\ ~(k > Len(s))
        BY <3>2, SMT
      <4> QED BY <1>1, <3>2, <4>1
    <3>4. P(j)
      BY <2>4, <3>2
    <3>5. f[j] \in Seq(Bytes)
      BY <3>4
    <3>6. /\ f[k] \in Seq(Bytes) /\ Len(f[k]) = Len(f[j]) + 1
          /\ f[k][1] = b
          /\ \A m \in 2..(Len(f[j]) + 1) : f[k][m] = f[j][m - 1]
      BY <3>3, <3>5, OneMore, SMT
    <3>7. Len(f[j]) \in Nat /\ DOMAIN f[j] = 1..Len(f[j]) /\ DOMAIN f[k] = 1..(Len(f[j]) + 1)
      BY <3>5, <3>6, SMT
    <3>8. CASE k = c
      <4>1. b >= 128
        BY <1>3, <1>4, <3>2, <3>8
      <4>2. 1 \in DOMAIN f[k]
        BY <3>7, SMT
      <4> QED BY <2>3, <3>6, <4>1, <4>2
    <3>9. CASE k < c
      <4>1. j <= c
        <5>1. c \notin (k + 1)..(j - 1)
          BY <3>1
        <5> QED BY <1>2, <1>4, <3>2, <3>9, <5>1, SMT
      <4>2. PICK m \in DOMAIN f[j] : f[j][m] >= 128
        BY <3>4, <4>1
      <4>3. m + 1 \in 2..(Len(f[j]) + 1) /\ (m + 1) - 1 = m /\ m + 1 \in DOMAIN f[k]
        BY <3>7, <4>2, ShiftedIndex
      <4>4. f[k][m + 1] >= 128
        BY <3>6, <4>2, <4>3
      <4> QED BY <2>3, <3>6, <4>3, <4>4
    <3>10. CASE ~(k <= c)
      BY <2>3, <3>6, <3>10
    <3> QED BY <1>4, <3>2, <3>8, <3>9, <3>10, SMT
  <2> QED BY <2>5, <2>6
<1>6. PICK m \in DOMAIN f[1] : f[1][m] >= 128
  <2>1. 1 <= c
    BY <1>4, SMT
  <2> QED BY <1>2, <1>5, <2>1
<1>7. f[1] \in Seq(Bytes)
  BY <1>2, <1>5
<1>8. f[1][m] \in Bytes
  BY <1>6, <1>7, SMT
<1>9. ~(f[1][m] < 128)
  <2>1. \A y \in Bytes : y >= 128 => ~(y < 128)
    BY SMT DEF Bytes
  <2> QED BY <1>6, <1>8, <2>1
<1>10. ~IsUtf8(f[1])
  BY <1>6, <1>9 DEF IsUtf8
<1> QED BY <1>1, <1>10

\* An empty value is an empty name.
LEMMA DecodeEmpty == None \notin Bytes => urlencoding_decode(<<>>) = <<>>
<1> SUFFICES ASSUME None \notin Bytes PROVE urlencoding_decode(<<>>) = <<>>
  OBVIOUS
<1> DEFINE e == <<>>
<1>1. Len(e) = 0 /\ e \in Seq(Bytes) /\ DOMAIN e = {}
  BY SMT
<1>2. PICK f : /\ \A i \in 1..(Len(e) + 3) :
                    f[i] = IF i > Len(e) THEN <<>> ELSE <<ByteAt(e, i)>> \o f[NextAt(e, i)]
               /\ urlencoding_decode(e) = IF IsUtf8(f[1]) THEN f[1] ELSE None
  BY <1>1, DecodeReads
<1>3. 1 \in 1..(Len(e) + 3) /\ 1 > Len(e)
  BY <1>1, SMT
<1>4. f[1] = <<>>
  BY <1>2, <1>3
<1>5. IsUtf8(<<>>)
  BY SMT DEF IsUtf8
<1> QED BY <1>2, <1>4, <1>5

-----------------------------------------------------------------------------
\* The first l members of a set that at lists in rising order.
LEMMA FirstOnes ==
    ASSUME NEW n \in Nat, NEW D \in SUBSET Nat, NEW at \in [1..n -> D],
           \A k, l \in 1..n : k < l => at[k] < at[l], NEW l \in 1..n
    PROVE  Cardinality({j \in {at[k] : k \in 1..n} : j <= at[l]}) = l
<1> DEFINE W == {at[k] : k \in 1..n}
           L == {j \in W : j <= at[l]}
           g == [k \in 1..l |-> at[k]]
<1>1. \A k \in 1..n : at[k] \in Nat
  OBVIOUS
<1>2. L = {at[k] : k \in 1..l}
  <2>1. \A k \in 1..n : at[k] <= at[l] <=> k <= l
    <3> SUFFICES ASSUME NEW k \in 1..n PROVE at[k] <= at[l] <=> k <= l
      OBVIOUS
    <3>1. CASE k < l
      <4>1. at[k] < at[l]
        BY <3>1
      <4> QED BY <1>1, <3>1, <4>1, SMT
    <3>2. CASE k = l
      BY <1>1, <3>2, SMT
    <3>3. CASE l < k
      <4>1. at[l] < at[k]
        BY <3>3
      <4> QED BY <1>1, <3>3, <4>1, SMT
    <3> QED BY <3>1, <3>2, <3>3, SMT
  <2>2. \A k \in 1..l : k \in 1..n /\ k <= l
    BY SMT
  <2>3. \A k \in 1..n : k <= l => k \in 1..l
    BY SMT
  <2> QED BY <2>1, <2>2, <2>3
<1>3. g \in Bijection(1..l, L)
  <2>1. \A j, k \in 1..l : g[j] = g[k] => j = k
    <3> SUFFICES ASSUME NEW j \in 1..l, NEW k \in 1..l, j # k PROVE g[j] # g[k]
      OBVIOUS
    <3>1. g[j] = at[j] /\ g[k] = at[k] /\ j \in 1..n /\ k \in 1..n
      BY SMT
    <3>2. j < k \/ k < j
      BY SMT
    <3>3. at[j] < at[k] \/ at[k] < at[j]
      BY <3>1, <3>2
    <3> QED BY <1>1, <3>1, <3>3, SMT
  <2>2. g \in [1..l -> L]
    BY <1>2
  <2>3. \A y \in L : \E k \in 1..l : g[k] = y
    BY <1>2
  <2> HIDE DEF g, L
  <2> QED BY <2>1, <2>2, <2>3 DEF Bijection, Injection, Surjection, IsInjective
<1>4. IsFiniteSet(1..l) /\ Cardinality(1..l) = l
  BY FS_Interval, SMT
<1>5. ExistsBijection(1..l, L)
  BY <1>3 DEF ExistsBijection
<1>6. Cardinality(L) = l
  <2> HIDE DEF L
  <2> QED BY <1>4, <1>5, FS_Bijection
<1> QED BY <1>6

\* So the k-th smallest member is at[k].
LEMMA KthListed ==
    ASSUME NEW n \in Nat, NEW D \in SUBSET Nat, NEW at \in [1..n -> D],
           \A k, l \in 1..n : k < l => at[k] < at[l], NEW k \in 1..n
    PROVE  Kth({at[i] : i \in 1..n}, k) = at[k]
<1> DEFINE W == {at[i] : i \in 1..n}
           Q(i) == Cardinality({j \in W : j <= i}) = k
<1>1. \A l \in 1..n : Cardinality({j \in W : j <= at[l]}) = l
  BY FirstOnes
<1>2. at[k] \in W /\ Q(at[k])
  BY <1>1
<1>3. ASSUME NEW i \in W, Q(i) PROVE i = at[k]
  <2>1. PICK l \in 1..n : i = at[l]
    OBVIOUS
  <2>2. Cardinality({j \in W : j <= i}) = l
    BY <1>1, <2>1
  <2> QED BY <1>3, <2>1, <2>2
<1>4. Kth(W, k) = CHOOSE i \in W : Q(i)
  BY DEF Kth
<1> HIDE DEF W, Q
<1> QED BY <1>2, <1>3, <1>4 DEF W

\* The channels read from a query are the ones it names.
LEMMA QueryRead ==
    ASSUME None \notin Bytes, NEW query, NEW meant, Names(query, meant)
    PROVE  channels_from_raw_query(query) = meant
<1> DEFINE n == Len(meant)
           D == DOMAIN query
           Decoded(i) == urlencoding_decode(query[i].value)
           Wanted(p) == p.eq /\ p.key = "channel" /\ urlencoding_decode(p.value) \notin {None, <<>>}
           wanted == {i \in D : Wanted(query[i])}
           Plain(i) == /\ query[i].eq /\ query[i].key = "channel"
                       /\ query[i].value # <<>> /\ ~WritesNoText(query[i].value)
<1>1. n \in Nat /\ meant = [k \in 1..n |-> meant[k]] /\ DOMAIN meant = 1..n
  BY DEF Names, IsSeq
<1>2. D \in SUBSET Nat
  <2>1. Len(query) \in Nat /\ query = [i \in 1..Len(query) |-> query[i]]
    BY DEF Names, IsSeq
  <2>2. D = 1..Len(query)
    BY <2>1, ZenonT(30)
  <2> QED BY <2>1, <2>2, SMT
<1>3. PICK at \in [1..n -> D] :
        /\ \A k, l \in 1..n : k < l => at[k] < at[l]
        /\ \A i \in D : IF Plain(i)
                        THEN \E k \in 1..n : at[k] = i /\ Writes(query[i].value, meant[k])
                        ELSE \A k \in 1..n : at[k] # i
  BY <1>1 DEF Names
<1>4. \A k \in 1..n : meant[k] \in Seq(Bytes) /\ meant[k] \notin {None, <<>>} /\ IsUtf8(meant[k])
  BY <1>1 DEF Names
<1>5. \A i \in D : query[i].eq => Len(query[i].value) \in Nat
  BY DEF Names, IsSeq
<1>6. ASSUME NEW k \in 1..n
      PROVE  at[k] \in wanted /\ Decoded(at[k]) = meant[k]
  <2>1. at[k] \in D /\ Plain(at[k])
    BY <1>3
  <2>2. PICK l \in 1..n : at[l] = at[k] /\ Writes(query[at[k]].value, meant[l])
    BY <1>3, <2>1
  <2>3. l = k
    <3>1. ~(k < l) /\ ~(l < k)
      <4>1. at[k] \in Nat /\ at[l] \in Nat
        BY <1>2
      <4>2. k < l => at[k] < at[l]
        BY <1>3
      <4>3. l < k => at[l] < at[k]
        BY <1>3
      <4> QED BY <2>2, <4>1, <4>2, <4>3, SMT
    <3> QED BY <1>1, <3>1, SMT
  <2>4. Len(query[at[k]].value) \in Nat
    BY <1>5, <2>1
  <2>5. meant[k] \in Seq(Bytes) /\ IsUtf8(meant[k]) /\ meant[k] \notin {None, <<>>}
    BY <1>4
  <2>6. Writes(query[at[k]].value, meant[k])
    BY <2>2, <2>3
  <2>7. Decoded(at[k]) = meant[k]
    BY <2>4, <2>5, <2>6, DecodeWrites
  <2> QED BY <2>1, <2>5, <2>7
<1>7. ASSUME NEW i \in wanted
      PROVE  \E k \in 1..n : at[k] = i
  <2>1. i \in D /\ query[i].eq /\ query[i].key = "channel" /\ Decoded(i) \notin {None, <<>>}
    OBVIOUS
  <2>2. query[i].value # <<>>
    BY <2>1, DecodeEmpty
  <2>3. ~WritesNoText(query[i].value)
    <3>1. Len(query[i].value) \in Nat
      BY <1>5, <2>1
    <3> QED BY <2>1, <3>1, DecodeNoText
  <2> QED BY <1>3, <2>1, <2>2, <2>3
<1>8. wanted = {at[k] : k \in 1..n}
  <2> HIDE DEF wanted
  <2> QED BY <1>6, <1>7
<1>9. \A k, l \in 1..n : k < l => at[k] < at[l]
  BY <1>3
<1>10. n \in Nat
  BY <1>1
<1>11. Cardinality(wanted) = n
  <2>1. CASE n = 0
    <3>1. wanted = {}
      BY <1>8, <2>1, SMT
    <3> QED BY <2>1, <3>1, FS_EmptySet, ZenonT(30)
  <2>2. CASE n # 0
    <3>1. n \in 1..n
      BY <1>1, <2>2, SMT
    <3>2. Cardinality({j \in {at[k] : k \in 1..n} : j <= at[n]}) = n
      <4> HIDE DEF n, D
      <4>1. \A l \in 1..n : Cardinality({j \in {at[k] : k \in 1..n} : j <= at[l]}) = l
        BY <1>2, <1>9, <1>10, FirstOnes, ZenonT(30)
      <4> QED BY <3>1, <4>1
    <3>3. \A k \in 1..n : at[k] <= at[n]
      <4> SUFFICES ASSUME NEW k \in 1..n PROVE at[k] <= at[n]
        OBVIOUS
      <4>1. at[k] \in Nat /\ at[n] \in Nat
        BY <1>2, <3>1
      <4>2. k = n \/ k < n
        BY <1>1, SMT
      <4>3. k < n => at[k] < at[n]
        BY <1>3, <3>1
      <4> QED BY <4>1, <4>2, <4>3, SMT
    <3>4. {j \in {at[k] : k \in 1..n} : j <= at[n]} = {at[k] : k \in 1..n}
      BY <3>3
    <3> QED BY <1>8, <3>2, <3>4
  <2> QED BY <2>1, <2>2
<1>12. \A k \in 1..n : Kth(wanted, k) = at[k]
  <2> HIDE DEF n, D, wanted
  <2>1. \A k \in 1..n : Kth({at[i] : i \in 1..n}, k) = at[k]
    BY <1>2, <1>9, <1>10, KthListed, ZenonT(30)
  <2> QED BY <1>8, <2>1
<1>13. channels_from_raw_query(query) = [k \in 1..Cardinality(wanted) |-> Decoded(Kth(wanted, k))]
  BY DEF channels_from_raw_query
<1> HIDE DEF wanted, Decoded, n
<1>14. channels_from_raw_query(query) = [k \in 1..n |-> Decoded(Kth(wanted, k))]
  BY <1>11, <1>13
<1>15. \A k \in 1..n : Decoded(Kth(wanted, k)) = meant[k]
  BY <1>6, <1>12
<1>16. [k \in 1..n |-> Decoded(Kth(wanted, k))] = [k \in 1..n |-> meant[k]]
  BY <1>15, ZenonT(30)
<1> QED BY <1>1, <1>14, <1>16, ZenonT(30)

\* The channels of a request are set when it arrives, together with its input.
LEMMA QueryKept == IInv /\ QueryUnderstood /\ [Next]_vars => QueryUnderstood'
<1> SUFFICES ASSUME IInv, QueryUnderstood, [Next]_vars PROVE QueryUnderstood'
  OBVIOUS
<1>1. CASE UNCHANGED <<input, channels>>
  BY <1>1 DEF QueryUnderstood
<1>2. ASSUME NEW r \in Requests, NEW i \in Inputs[r], NEW ch,
             i.meant # None => ch = i.meant,
             input' = [input EXCEPT ![r] = i], channels' = [channels EXCEPT ![r] = ch]
      PROVE  QueryUnderstood'
  <2>1. /\ input'[r] = i /\ channels'[r] = ch
        /\ \A t \in Requests \ {r} : input'[t] = input[t] /\ channels'[t] = channels[t]
    BY <1>2 DEF IInv, Shape
  <2> QED BY <1>2, <2>1 DEF QueryUnderstood
<1>3. ASSUME NEW r \in Requests, NEW i \in Inputs[r], SubscribeArrives(r, i)
      PROVE  QueryUnderstood'
  <2>1. /\ input' = [input EXCEPT ![r] = i] /\ i.kind = "subscribe"
        /\ channels' = [channels EXCEPT ![r] = channels_from_raw_query(i.query)]
    BY <1>3 DEF SubscribeArrives
  <2>2. None \notin Bytes /\ (i.meant = None \/ Names(i.query, i.meant))
    BY <2>1, EndpointConstants
  <2>3. i.meant # None => channels_from_raw_query(i.query) = i.meant
    BY <2>2, QueryRead
  <2> QED BY <1>2, <2>1, <2>3, ZenonT(30)
<1>4. ASSUME NEW r \in Requests, NEW i \in Inputs[r], PublishArrives(r, i)
      PROVE  QueryUnderstood'
  <2>1. input' = [input EXCEPT ![r] = i] /\ channels' = [channels EXCEPT ![r] = i.meant]
    BY <1>4 DEF PublishArrives
  <2> QED BY <1>2, <2>1
<1>5. ASSUME NEW r \in Requests, Handler(r) \/ ClientGone(r)
      PROVE  UNCHANGED <<input, channels>>
  <2>1. CASE CountOpened(r) \/ Connect(r) \/ Authenticate(r) \/ Lookup(r) \/ CloseFailed(r)
    BY <2>1 DEF CountOpened, Connect, Authenticate, Lookup, CloseFailed
  <2>2. CASE Subscribed(r) \/ KindTakes(r) \/ Published(r) \/ ClientGone(r)
    BY <2>2 DEF Subscribed, KindTakes, Published, ClientGone
  <2>3. CASE StartStream(r) \/ PollStream(r) \/ EndStream(r) \/ CloseStream(r) \/ CountClosed(r)
    BY <2>3 DEF StartStream, PollStream, EndStream, CloseStream, CountClosed
  <2> QED BY <1>5, <2>1, <2>2, <2>3 DEF Handler
<1>6. ASSUME NEW a \in AdminCalls, AdminHandler(a) \/ \E i \in AdminInputs[a] : AdminArrive(a, i)
      PROVE  UNCHANGED <<input, channels>>
  BY <1>6 DEF AdminHandler, ReadClaims, ReadChannels, SendRows, KickGet, KickSignal, KickDeregister,
              KickCount, AdminArrive
<1>7. CASE UNCHANGED vars
  BY <1>1, <1>7 DEF vars
<1> QED BY <1>1, <1>3, <1>4, <1>5, <1>6, <1>7 DEF Next, AllServed

(* Whatever names a client writes into a query, and whichever bytes it     *)
(* escapes, subscribe_handler works on these names in their order: pairs   *)
(* of other keys, without '=', empty or no text are skipped (lib.rs        *)
(* channels_from_raw_query, urlencoding_decode).                           *)
THEOREM QueryTheorem == Spec => []QueryUnderstood
<1>1. ASSUME Init PROVE QueryUnderstood
  <2>1. \A r \in Requests : input[r] = NoInput
    BY <1>1 DEF Init
  <2> QED BY <2>1 DEF QueryUnderstood
<1> QED BY <1>1, QueryKept, SpecIInv, PTL DEF Spec
===============================================================================
