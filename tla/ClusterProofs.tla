---------------------------- MODULE ClusterProofs ----------------------------
(***************************************************************************)
(* Proofs about Cluster, for any number of nodes, streams, publishers and  *)
(* faults, receivers of any capacity, any bytes of other clients and both  *)
(* brokers: a document is the merge of what its node accepted; what a      *)
(* stream yields is a publication some node accepted on a topic that the   *)
(* stream's own covers, or what foreign bytes decode to; and the streams   *)
(* of all nodes together keep BroadcastContract.                           *)
(*                                                                         *)
(* The last needs an order that the state does not hold: the one in which  *)
(* the server handled the publications.  Ordered says that there is such a *)
(* rank, and that for every stream and every line what came along the line *)
(* rises in it through the stream's pipeline: what it has yielded, then    *)
(* what its receiver holds, then what is still to be read from the line.   *)
(* Across lines nothing rises: a receiver interleaves them as it reads.    *)
(* Only the server extends a pipeline, with a publication no one has       *)
(* ranked; every other step moves or loses messages.                       *)
(***************************************************************************)
EXTENDS Cluster, FiniteSetTheorems, TLAPS

(* A leaf is set theory, and Zenon\'s, unless it cites another prover.        *)
USE Zenon

Publication == [channel : Topics, offset : Nat, data : Updates]
Payload == {encode_publication(p) : p \in Publication} \union {o[2] : o \in Foreigns}
Messages == [kind : {"msg"}, topic : Topics, id : Nat, bytes : Payload]
Subs == {Sub(s) : s \in Streams}
Yields == [id : Nat, publication : {decode_publication(b) : b \in Payload}]
Aliens == {decode_publication(o[2]) : o \in {f \in Foreigns : f[2] # Garbage}}
Pcs == {"closed", "asking", "subscribed", "open", "dropped"}
Slots == [applied : {None} \union SUBSET Updates, next_offset : Nat]

Shape ==
    /\ docs \in [Nodes -> [Topics -> Slots]]
    /\ task \in [Tasks -> {NoTask} \union [pc : {"publish"}, topic : Topics, id : Nat]]
    /\ accepted \in Seq([node : Nodes, publication : Publication]) /\ Len(accepted) <= MaxAccepted
    /\ up \in [Nodes -> Seq(Messages \union Subs)]
    /\ down \in [Feeds -> Seq(Messages)]
    /\ stream \in [Streams -> [pc : Pcs, inbox : Seq(Messages)]]
    /\ got \in [Streams -> Seq(Yields)]
    /\ alien \in [Streams -> SUBSET Aliens]

-----------------------------------------------------------------------------
(* Documents.                                                              *)
Data(S) == {accepted[i].publication.data : i \in S}

DocAgrees(n, c) ==
    LET here == AcceptedAt(n, c)
    IN  /\ \/ docs[n][c] = NoSlot /\ here = {}
           \/ docs[n][c] = [applied |-> Data(here), next_offset |-> Cardinality(here)]
        /\ \A i \in here : accepted[i].publication.offset = Cardinality({j \in here : j < i})

DocsAgree == \A n \in Nodes, c \in Topics : DocAgrees(n, c)

-----------------------------------------------------------------------------
(* Bytes.  A message is foreign, or carries an accepted publication on the *)
(* topic it was accepted for.                                              *)
Genuine(m) ==
    \/ m.id = 0 /\ m.bytes \in {o[2] : o \in Foreigns}
    \/ /\ m.id \in DOMAIN accepted
       /\ m.topic = accepted[m.id].publication.channel
       /\ m.bytes = encode_publication(accepted[m.id].publication)

\* A message that the receiver of s may be handed.
Heard(m, s) == Genuine(m) /\ (Redis \/ Matches(Topic[s], m.topic))

\* A message on the feed f: it came along the line of f.
Travels(m, f) ==
    /\ Genuine(m) /\ (Redis \/ Matches(Topic[f[2]], m.topic))
    /\ m.id # 0 => LineOf(accepted[m.id].node) = f[1]

TasksGenuine ==
    \A t \in Tasks : task[t].pc = "publish" =>
      /\ task[t].id \in DOMAIN accepted /\ task[t].topic = accepted[task[t].id].publication.channel
      /\ accepted[task[t].id].node = Home[t]

UpGenuine ==
    \A n \in Nodes : \A i \in DOMAIN up[n] : up[n][i].kind = "msg" =>
      up[n][i].id # 0 /\ Genuine(up[n][i]) /\ accepted[up[n][i].id].node = n

InterestGenuine == Redis \/ \A s \in Streams, c \in Topics : <<s, c>> \in interest => c = Topic[s]

DownGenuine == \A f \in Feeds : \A i \in DOMAIN down[f] : Travels(down[f][i], f)

InboxGenuine == \A s \in Streams : \A i \in DOMAIN stream[s].inbox : Heard(stream[s].inbox[i], s)

GotGenuine ==
    \A s \in Streams : \A i \in DOMAIN got[s] :
      /\ got[s][i].id \in DOMAIN accepted
      /\ got[s][i].publication = accepted[got[s][i].id].publication
      /\ Covers(Topic[s], got[s][i].publication.channel)

Carried == TasksGenuine /\ UpGenuine /\ InterestGenuine /\ DownGenuine /\ InboxGenuine /\ GotGenuine

-----------------------------------------------------------------------------
(* Order, of the publications in K.                                        *)
Ranked(K, q, rank) == \A i \in DOMAIN q : q[i].id \in K => rank[q[i].id] # 0

Rising(K, q, rank) ==
    \A i, j \in DOMAIN q : i < j /\ q[i].id \in K /\ q[j].id \in K => rank[q[i].id] < rank[q[j].id]

Follows(K, p, q, rank) ==
    \A i \in DOMAIN p, j \in DOMAIN q : p[i].id \in K /\ q[j].id \in K => rank[p[i].id] < rank[q[j].id]

\* A stream has yielded p, its receiver holds q, and d is to be read.
Pipe(K, p, q, d, rank) ==
    /\ Ranked(K, p, rank) /\ Ranked(K, q, rank) /\ Ranked(K, d, rank)
    /\ Rising(K, p, rank) /\ Rising(K, q, rank) /\ Rising(K, d, rank)
    /\ Follows(K, p, q, rank) /\ Follows(K, p, d, rank) /\ Follows(K, q, d, rank)

\* The publications of one line.
OnLine(l) == {a \in DOMAIN accepted : LineOf(accepted[a].node) = l}

Pipes(rank) ==
    \A s \in Streams, f \in Feeds :
      f[2] = Receiver(s) => Pipe(OnLine(f[1]), got[s], stream[s].inbox, down[f], rank)

\* The server has handled n publications, all of them accepted ones.
RanksUpTo(rank, n) == \A a \in Nat : rank[a] # 0 => a \in DOMAIN accepted /\ rank[a] <= n

TasksUnranked(rank) == \A t \in Tasks : task[t].pc = "publish" => rank[task[t].id] = 0

UpUnranked(rank) ==
    \A n \in Nodes : \A i \in DOMAIN up[n] : up[n][i].kind = "msg" => rank[up[n][i].id] = 0

Ordered ==
    \E n \in Nat : \E rank \in [Nat -> Nat] :
      RanksUpTo(rank, n) /\ TasksUnranked(rank) /\ UpUnranked(rank) /\ Pipes(rank)

\* No publication is twice on its way to the server.
TasksOnce ==
    \A t, v \in Tasks :
      task[t].pc = "publish" /\ task[v].pc = "publish" /\ task[t].id = task[v].id => t = v

UpOnce ==
    \A n, m \in Nodes : \A i \in DOMAIN up[n], j \in DOMAIN up[m] :
      up[n][i].kind = "msg" /\ up[m][j].kind = "msg" /\ up[n][i].id = up[m][j].id => n = m /\ i = j

TasksNotUp ==
    \A t \in Tasks, n \in Nodes : \A i \in DOMAIN up[n] :
      task[t].pc = "publish" /\ up[n][i].kind = "msg" => up[n][i].id # task[t].id

Once == TasksOnce /\ UpOnce /\ TasksNotUp

IInv == Shape /\ DocsAgree /\ Carried /\ Ordered /\ Once

-----------------------------------------------------------------------------
(* What is left of a queue that messages were taken out of.                *)
Thins(p, q) ==
    \E h \in [DOMAIN p -> DOMAIN q] :
      \A i \in DOMAIN p : p[i] = q[h[i]] /\ \A j \in DOMAIN p : i < j => h[i] < h[j]

LEMMA ThinsSelf == ASSUME NEW S, NEW q \in Seq(S) PROVE Thins(q, q)
<1> DEFINE h == [i \in DOMAIN q |-> i]
<1>1. h \in [DOMAIN q -> DOMAIN q]
  OBVIOUS
<1>2. \A i \in DOMAIN q : q[i] = q[h[i]] /\ \A j \in DOMAIN q : i < j => h[i] < h[j]
  OBVIOUS
<1> HIDE DEF h
<1> QED BY <1>1, <1>2 DEF Thins

LEMMA ThinsTail == ASSUME NEW S, NEW q \in Seq(S), q # <<>> PROVE Tail(q) \in Seq(S) /\ Thins(Tail(q), q)
<1> DEFINE h == [i \in DOMAIN Tail(q) |-> i + 1]
<1>1. /\ Tail(q) \in Seq(S) /\ DOMAIN Tail(q) = 1..(Len(q) - 1)
      /\ DOMAIN q = 1..Len(q) /\ Len(q) \in Nat
      /\ \A i \in DOMAIN Tail(q) : Tail(q)[i] = q[i + 1]
  BY SMT
<1>2. h \in [DOMAIN Tail(q) -> DOMAIN q]
  BY <1>1, SMT
<1>3. \A i \in DOMAIN Tail(q) : Tail(q)[i] = q[h[i]] /\ \A j \in DOMAIN Tail(q) : i < j => h[i] < h[j]
  BY <1>1, SMT
<1> HIDE DEF h
<1> QED BY <1>1, <1>2, <1>3 DEF Thins

LEMMA ThinsEmpty == ASSUME NEW S, NEW q \in Seq(S) PROVE <<>> \in Seq(S) /\ Thins(<<>>, q)
<1> DEFINE e == <<>>
           h == [i \in {} |-> 1]
<1>1. e \in Seq(S) /\ DOMAIN e = {}
  BY SMT
<1>2. h \in [{} -> DOMAIN q]
  OBVIOUS
<1> HIDE DEF e, h
<1>3. h \in [DOMAIN e -> DOMAIN q]
  BY <1>1, <1>2
<1>4. Thins(e, q)
  BY <1>1, <1>3 DEF Thins
<1> QED BY <1>1, <1>4 DEF e

LEMMA ThinsKept ==
    ASSUME NEW S, NEW q \in Seq(S), NEW K \in SUBSET DOMAIN q, NEW f \in InOrder(K)
    PROVE  /\ [i \in DOMAIN f |-> q[f[i]]] \in Seq(S)
           /\ Thins([i \in DOMAIN f |-> q[f[i]]], q)
           /\ \A i \in DOMAIN [k \in DOMAIN f |-> q[f[k]]] : \E j \in K : [k \in DOMAIN f |-> q[f[k]]][i] = q[j]
<1> DEFINE p == [i \in DOMAIN f |-> q[f[i]]]
<1>1. IsFiniteSet(K)
  <2>1. DOMAIN q = 1..Len(q) /\ Len(q) \in Nat
    BY SMT
  <2>2. IsFiniteSet(1..Len(q))
    BY <2>1, FS_Interval, SMT
  <2> QED BY <2>1, <2>2, FS_Subset
<1>2. Cardinality(K) \in Nat
  BY <1>1, FS_CardinalityType
<1>3. /\ f \in [1..Cardinality(K) -> K] /\ DOMAIN f = 1..Cardinality(K)
      /\ \A i, j \in DOMAIN f : i < j => f[i] < f[j]
  BY DEF InOrder
<1>4. p \in [1..Cardinality(K) -> S]
  BY <1>3, SMT
<1>5. p \in Seq(S)
  BY <1>2, <1>4, SMT
<1>6. DOMAIN p = DOMAIN f /\ f \in [DOMAIN p -> DOMAIN q] /\ \A i \in DOMAIN p : p[i] = q[f[i]] /\ f[i] \in K
  BY <1>3
<1> HIDE DEF p
<1>7. Thins(p, q)
  BY <1>3, <1>6 DEF Thins
<1> QED BY <1>5, <1>6, <1>7 DEF p

LEMMA ElementsOf == ASSUME NEW S, NEW q \in Seq(S) PROVE \A i \in DOMAIN q : q[i] \in S
BY SMT

LEMMA EndOf ==
    ASSUME NEW S, NEW q \in Seq(S), NEW e \in S
    PROVE  /\ Append(q, e) \in Seq(S)
           /\ \A i \in DOMAIN Append(q, e) :
                \/ i \in DOMAIN q /\ Append(q, e)[i] = q[i]
                \/ i \notin DOMAIN q /\ Append(q, e)[i] = e /\ \A j \in DOMAIN q : j < i
           /\ \A i, j \in DOMAIN Append(q, e) : i < j => i \in DOMAIN q
           /\ \A i, j \in DOMAIN Append(q, e) : i \notin DOMAIN q /\ j \notin DOMAIN q => i = j
BY SMT

LEMMA HeadOf ==
    ASSUME NEW S, NEW q \in Seq(S), q # <<>>
    PROVE  /\ Head(q) \in S /\ Tail(q) \in Seq(S)
           /\ 1 \in DOMAIN q /\ q[1] = Head(q)
           /\ \A i \in DOMAIN Tail(q) : i + 1 \in DOMAIN q /\ 1 < i + 1 /\ Tail(q)[i] = q[i + 1]
BY SMT

-----------------------------------------------------------------------------
(* How the steps change a pipeline.                                        *)
LEMMA PipeThins ==
    ASSUME NEW K, NEW p, NEW q, NEW d, NEW rank, Pipe(K, p, q, d, rank),
           NEW q2, NEW d2, Thins(q2, q), Thins(d2, d)
    PROVE  Pipe(K, p, q2, d2, rank)
<1>1. PICK g \in [DOMAIN q2 -> DOMAIN q] :
        \A i \in DOMAIN q2 : q2[i] = q[g[i]] /\ \A j \in DOMAIN q2 : i < j => g[i] < g[j]
  BY DEF Thins
<1>2. PICK h \in [DOMAIN d2 -> DOMAIN d] :
        \A i \in DOMAIN d2 : d2[i] = d[h[i]] /\ \A j \in DOMAIN d2 : i < j => h[i] < h[j]
  BY DEF Thins
<1>3. Ranked(K, q2, rank) /\ Rising(K, q2, rank)
  BY <1>1, SMT DEF Pipe, Ranked, Rising
<1>4. Ranked(K, d2, rank) /\ Rising(K, d2, rank)
  BY <1>2, SMT DEF Pipe, Ranked, Rising
<1>5. Follows(K, p, q2, rank)
  BY <1>1, SMT DEF Pipe, Follows
<1>6. Follows(K, p, d2, rank)
  BY <1>2, SMT DEF Pipe, Follows
<1>7. Follows(K, q2, d2, rank)
  BY <1>1, <1>2, SMT DEF Pipe, Follows
<1> QED BY <1>3, <1>4, <1>5, <1>6, <1>7 DEF Pipe

LEMMA PipeDispatches ==
    ASSUME NEW K, NEW p, NEW q \in Seq(Messages), NEW d \in Seq(Messages), d # <<>>, NEW rank, Pipe(K, p, q, d, rank)
    PROVE  Pipe(K, p, Append(q, Head(d)), Tail(d), rank)
<1> DEFINE q2 == Append(q, Head(d))
           d2 == Tail(d)
<1>1. /\ Head(d) \in Messages
      /\ 1 \in DOMAIN d /\ d[1] = Head(d)
      /\ \A i \in DOMAIN d2 : i + 1 \in DOMAIN d /\ 1 < i + 1 /\ d2[i] = d[i + 1]
  BY HeadOf
<1>2. /\ \A i \in DOMAIN q2 : (i \in DOMAIN q /\ q2[i] = q[i]) \/ (i \notin DOMAIN q /\ q2[i] = d[1])
      /\ \A i, j \in DOMAIN q2 : i < j => i \in DOMAIN q
  BY <1>1, EndOf
<1>3. Thins(d2, d)
  BY ThinsTail
<1>4. Thins(q, q)
  BY ThinsSelf
<1> HIDE DEF q2, d2
<1>5. Pipe(K, p, q, d2, rank)
  BY <1>3, <1>4, PipeThins
<1>6. Ranked(K, q2, rank) /\ Rising(K, q2, rank)
  BY <1>1, <1>2, SMT DEF Pipe, Ranked, Rising, Follows
<1>7. Follows(K, p, q2, rank)
  BY <1>1, <1>2, SMT DEF Pipe, Follows
<1>8. Follows(K, q2, d2, rank)
  <2> SUFFICES ASSUME NEW i \in DOMAIN q2, NEW j \in DOMAIN d2, q2[i].id \in K, d2[j].id \in K
               PROVE  rank[q2[i].id] < rank[d2[j].id]
    BY DEF Follows
  <2>1. CASE i \in DOMAIN q /\ q2[i] = q[i]
    BY <1>5, <2>1 DEF Pipe, Follows
  <2>2. CASE i \notin DOMAIN q /\ q2[i] = d[1]
    BY <1>1, <2>2 DEF Pipe, Rising
  <2> QED BY <1>2, <2>1, <2>2
<1>9. Pipe(K, p, q2, d2, rank)
  BY <1>5, <1>6, <1>7, <1>8 DEF Pipe
<1> QED BY <1>9 DEF q2, d2

LEMMA PipeYields ==
    ASSUME NEW K, NEW p \in Seq(Yields), NEW q \in Seq(Messages), q # <<>>, NEW d \in Seq(Messages), NEW rank,
           Pipe(K, p, q, d, rank), NEW e \in Yields, e.id = Head(q).id
    PROVE  Pipe(K, Append(p, e), Tail(q), d, rank)
<1> DEFINE p2 == Append(p, e)
           q2 == Tail(q)
<1>1. /\ 1 \in DOMAIN q /\ e.id = q[1].id
      /\ \A i \in DOMAIN q2 : i + 1 \in DOMAIN q /\ 1 < i + 1 /\ q2[i] = q[i + 1]
  BY HeadOf
<1>2. /\ \A i \in DOMAIN p2 : (i \in DOMAIN p /\ p2[i] = p[i]) \/ (i \notin DOMAIN p /\ p2[i] = e)
      /\ \A i, j \in DOMAIN p2 : i < j => i \in DOMAIN p
  BY EndOf
<1>3. Thins(q2, q)
  BY ThinsTail
<1>4. Thins(d, d)
  BY ThinsSelf
<1> HIDE DEF p2, q2
<1>5. Pipe(K, p, q2, d, rank)
  BY <1>3, <1>4, PipeThins
<1>6. Ranked(K, p2, rank) /\ Rising(K, p2, rank)
  BY <1>1, <1>2, SMTT(20) DEF Pipe, Ranked, Rising, Follows
<1>7. Follows(K, p2, q2, rank)
  <2> SUFFICES ASSUME NEW i \in DOMAIN p2, NEW j \in DOMAIN q2, p2[i].id \in K, q2[j].id \in K
               PROVE  rank[p2[i].id] < rank[q2[j].id]
    BY DEF Follows
  <2>1. CASE i \in DOMAIN p /\ p2[i] = p[i]
    BY <1>5, <2>1 DEF Pipe, Follows
  <2>2. CASE i \notin DOMAIN p /\ p2[i] = e
    BY <1>1, <2>2 DEF Pipe, Rising
  <2> QED BY <1>2, <2>1, <2>2
<1>8. Follows(K, p2, d, rank)
  BY <1>1, <1>2, SMT DEF Pipe, Follows
<1>9. Pipe(K, p2, q2, d, rank)
  BY <1>5, <1>6, <1>7, <1>8 DEF Pipe
<1> QED BY <1>9 DEF p2, q2

Under(K, q, rank, b) == \A i \in DOMAIN q : q[i].id \in K => rank[q[i].id] < b

LEMMA PipeGrows ==
    ASSUME NEW K, NEW rank, NEW p, NEW q, NEW d \in Seq(Messages), Pipe(K, p, q, d, rank), NEW m \in Messages,
           m.id \in K => /\ rank[m.id] # 0
                       /\ Under(K, p, rank, rank[m.id]) /\ Under(K, q, rank, rank[m.id]) /\ Under(K, d, rank, rank[m.id])
    PROVE  Pipe(K, p, q, Append(d, m), rank)
<1> DEFINE d2 == Append(d, m)
<1>1. /\ \A i \in DOMAIN d2 : (i \in DOMAIN d /\ d2[i] = d[i]) \/ (i \notin DOMAIN d /\ d2[i] = m)
      /\ \A i, j \in DOMAIN d2 : i < j => i \in DOMAIN d
  BY EndOf
<1> HIDE DEF d2
<1>2. Ranked(K, d2, rank) /\ Rising(K, d2, rank)
  BY <1>1, ZenonT(30) DEF Pipe, Ranked, Rising, Under
<1>3. Follows(K, p, d2, rank) /\ Follows(K, q, d2, rank)
  BY <1>1 DEF Pipe, Follows, Under
<1>4. Pipe(K, p, q, d2, rank)
  BY <1>2, <1>3 DEF Pipe
<1> QED BY <1>4 DEF d2

\* rank2 ranks a, which had no rank, after all that have one.
RanksNext(rank, rank2, a) ==
    rank2[a] # 0 /\ \A b \in Nat : rank[b] # 0 => rank2[b] = rank[b] /\ rank[b] < rank2[a]

LEMMA PipeServes ==
    ASSUME NEW K, NEW rank, NEW rank2, NEW a, RanksNext(rank, rank2, a),
           NEW p \in Seq(Yields), NEW q \in Seq(Messages), NEW d \in Seq(Messages), Pipe(K, p, q, d, rank),
           NEW m \in Messages, m.id = a
    PROVE  Pipe(K, p, q, d, rank2) /\ Pipe(K, p, q, Append(d, m), rank2)
<1>1. rank2[a] # 0 /\ \A b \in Nat : rank[b] # 0 => rank2[b] = rank[b] /\ rank[b] < rank2[a]
  BY DEF RanksNext
<1>2. /\ \A i \in DOMAIN p : p[i].id \in Nat
      /\ \A i \in DOMAIN q : q[i].id \in Nat
      /\ \A i \in DOMAIN d : d[i].id \in Nat
  <2>1. /\ \A i \in DOMAIN p : p[i] \in Yields
        /\ \A i \in DOMAIN q : q[i] \in Messages
        /\ \A i \in DOMAIN d : d[i] \in Messages
    BY ElementsOf
  <2>2. (\A e \in Yields : e.id \in Nat) /\ (\A e \in Messages : e.id \in Nat)
    BY DEF Yields, Messages
  <2> QED BY <2>1, <2>2
<1>3. /\ \A i \in DOMAIN p : p[i].id \in K => rank2[p[i].id] = rank[p[i].id] /\ rank[p[i].id] < rank2[a]
      /\ \A i \in DOMAIN q : q[i].id \in K => rank2[q[i].id] = rank[q[i].id] /\ rank[q[i].id] < rank2[a]
      /\ \A i \in DOMAIN d : d[i].id \in K => rank2[d[i].id] = rank[d[i].id] /\ rank[d[i].id] < rank2[a]
  BY <1>1, <1>2 DEF Pipe, Ranked
<1>4. Ranked(K, p, rank2) /\ Ranked(K, q, rank2) /\ Ranked(K, d, rank2)
  BY <1>3 DEF Pipe, Ranked
<1>5. Rising(K, p, rank2) /\ Rising(K, q, rank2) /\ Rising(K, d, rank2)
  BY <1>3 DEF Pipe, Rising
<1>6. Follows(K, p, q, rank2) /\ Follows(K, p, d, rank2) /\ Follows(K, q, d, rank2)
  BY <1>3 DEF Pipe, Follows
<1>7. Pipe(K, p, q, d, rank2)
  BY <1>4, <1>5, <1>6 DEF Pipe
<1>8. Under(K, p, rank2, rank2[a]) /\ Under(K, q, rank2, rank2[a]) /\ Under(K, d, rank2, rank2[a])
  BY <1>3 DEF Under
<1> QED BY <1>1, <1>7, <1>8, PipeGrows

\* A receiver is handed a message of another line.
LEMMA PipeMixes ==
    ASSUME NEW K, NEW p, NEW q \in Seq(Messages), NEW d, NEW rank, Pipe(K, p, q, d, rank),
           NEW m \in Messages, m.id \notin K
    PROVE  Pipe(K, p, Append(q, m), d, rank)
<1> DEFINE q2 == Append(q, m)
<1>1. \A i \in DOMAIN q2 : (i \in DOMAIN q /\ q2[i] = q[i]) \/ q2[i] = m
  BY EndOf
<1>2. \A i \in DOMAIN q2 : q2[i].id \in K => i \in DOMAIN q /\ q2[i] = q[i]
  BY <1>1
<1> HIDE DEF q2
<1>3. Ranked(K, q2, rank) /\ Rising(K, q2, rank)
  BY <1>2 DEF Pipe, Ranked, Rising
<1>4. Follows(K, p, q2, rank) /\ Follows(K, q2, d, rank)
  BY <1>2 DEF Pipe, Follows
<1>5. Pipe(K, p, q2, d, rank)
  BY <1>3, <1>4 DEF Pipe
<1> QED BY <1>5 DEF q2

\* The line gets a publication that is nowhere in the pipeline.
LEMMA PipeWidens ==
    ASSUME NEW K, NEW L, NEW p, NEW q, NEW d, NEW rank, Pipe(K, p, q, d, rank),
           \A i \in DOMAIN p : p[i].id \in L => p[i].id \in K,
           \A i \in DOMAIN q : q[i].id \in L => q[i].id \in K,
           \A i \in DOMAIN d : d[i].id \in L => d[i].id \in K
    PROVE  Pipe(L, p, q, d, rank)
<1>1. Ranked(L, p, rank) /\ Ranked(L, q, rank) /\ Ranked(L, d, rank)
  BY DEF Pipe, Ranked
<1>2. Rising(L, p, rank) /\ Rising(L, q, rank) /\ Rising(L, d, rank)
  BY DEF Pipe, Rising
<1>3. Follows(L, p, q, rank) /\ Follows(L, p, d, rank) /\ Follows(L, q, d, rank)
  BY DEF Pipe, Follows
<1> QED BY <1>1, <1>2, <1>3 DEF Pipe

-----------------------------------------------------------------------------
(* The protobuf round trip of a publication: a field with its default      *)
(* value is not sent and reads as its default.                             *)
LEMMA PublicationRoundTrip ==
    ASSUME NEW p \in Publication
    PROVE  decode_publication(encode_publication(p)) = p
<1> DEFINE layout == ServerLayout["Publication"]
           msg == ToProto(layout, p)
<1>1. layout = <<"channel", "offset", "data">>
  BY DEF ServerLayout
<1>2. /\ DOMAIN layout = 1..3
      /\ layout[1] = "channel" /\ layout[2] = "offset" /\ layout[3] = "data"
  BY <1>1, SMT
<1> HIDE DEF layout
<1>3. FieldsOf(layout) = {"channel", "offset", "data"}
  BY <1>2, SMT DEF FieldsOf
<1>4. p = [n \in FieldsOf(layout) |-> p[n]]
  BY <1>3 DEF Publication
<1>5. ASSUME NEW n \in FieldsOf(layout)
      PROVE  (LET i == NumberOf(layout, n) IN IF i \in DOMAIN msg THEN msg[i] ELSE Default(n)) = p[n]
  <2> DEFINE i == NumberOf(layout, n)
  <2>1. i \in DOMAIN layout /\ layout[i] = n
    BY DEF FieldsOf, NumberOf
  <2> HIDE DEF i
  <2>2. i \in DOMAIN msg <=> p[n] # Default(n)
    BY <2>1 DEF ToProto
  <2>3. i \in DOMAIN msg => msg[i] = p[n]
    BY <2>1 DEF ToProto
  <2>4. (IF i \in DOMAIN msg THEN msg[i] ELSE Default(n)) = p[n]
    BY <2>2, <2>3
  <2> QED BY <2>4 DEF i
<1>6. decode_publication(encode_publication(p)) =
        [n \in FieldsOf(layout) |-> LET i == NumberOf(layout, n) IN IF i \in DOMAIN msg THEN msg[i] ELSE Default(n)]
  BY DEF decode_publication, encode_publication, FromProto, layout
<1>7. decode_publication(encode_publication(p)) = [n \in FieldsOf(layout) |-> p[n]]
  BY <1>5, <1>6
<1> QED BY <1>4, <1>7

-----------------------------------------------------------------------------
(* The parts of the invariant under what steps do to tasks, connections    *)
(* and receivers.                                                          *)
TasksShrink == \A t \in Tasks : task'[t] = task[t] \/ task'[t].pc # "publish"
UpThins == \A n \in Nodes : Thins(up'[n], up[n])
DownThins == \A f \in Feeds : Thins(down'[f], down[f])
InboxThins == \A s \in Streams : Thins(stream'[s].inbox, stream[s].inbox)

LEMMA MessageOrSub ==
    ASSUME NEW m \in Messages \union Subs
    PROVE  /\ m.kind = "msg" \/ m.kind # "sub" => m \in Messages /\ m.kind = "msg"
           /\ m.kind = "sub" => \E s \in Streams : m.id = s /\ m.topic = Topic[s]
<1>1. ASSUME m \in Messages PROVE m.kind = "msg"
  BY <1>1 DEF Messages
<1>2. ASSUME m \in Subs PROVE m.kind = "sub" /\ \E s \in Streams : m.id = s /\ m.topic = Topic[s]
  BY <1>2, SMT DEF Subs, Sub
<1>3. "msg" # "sub"
  OBVIOUS
<1> QED BY <1>1, <1>2, <1>3

LEMMA FeedIs == \A f \in Feeds : f = <<f[1], f[2]>>
BY SMT DEF Feeds

\* The broker is the same throughout.
LEMMA SetupStays ==
    ASSUME UNCHANGED setup
    PROVE  /\ Redis' <=> Redis
           /\ Feeds' = Feeds
           /\ \A s : Receiver(s)' = Receiver(s)
           /\ \A n : LineOf(n)' = LineOf(n)
           /\ \A c, b : Covers(c, b)' <=> Covers(c, b)
BY DEF Redis, Feeds, Receiver, LineOf, Covers

LEMMA LinesStay ==
    ASSUME UNCHANGED <<setup, accepted>>
    PROVE  \A l : OnLine(l)' = OnLine(l)
BY DEF OnLine, LineOf, Redis

LEMMA TasksKept ==
    ASSUME TasksGenuine, TasksOnce, TasksShrink, UNCHANGED accepted
    PROVE  TasksGenuine' /\ TasksOnce'
<1>1. TasksGenuine'
  BY DEF TasksGenuine, TasksShrink
<1>2. TasksOnce'
  BY DEF TasksOnce, TasksShrink
<1> QED BY <1>1, <1>2

LEMMA TasksStayUnranked ==
    ASSUME NEW rank, TasksUnranked(rank), TasksShrink
    PROVE  TasksUnranked(rank)'
BY DEF TasksUnranked, TasksShrink

LEMMA UpKept ==
    ASSUME Shape, Shape', UpGenuine, UpOnce, TasksNotUp, UpThins, TasksShrink, UNCHANGED accepted
    PROVE  UpGenuine' /\ UpOnce' /\ TasksNotUp'
<1>1. ASSUME NEW n \in Nodes
      PROVE  \E h \in [DOMAIN up'[n] -> DOMAIN up[n]] :
               \A i \in DOMAIN up'[n] :
                 up'[n][i] = up[n][h[i]] /\ \A j \in DOMAIN up'[n] : i < j => h[i] < h[j]
  BY DEF UpThins, Thins
<1>2. UpGenuine'
  <2> SUFFICES ASSUME NEW n \in Nodes, NEW i \in DOMAIN up'[n], up'[n][i].kind = "msg"
               PROVE  up'[n][i].id # 0 /\ Genuine(up[n][i])' /\ accepted[up'[n][i].id].node = n
    BY DEF UpGenuine
  <2>1. PICK j \in DOMAIN up[n] : up'[n][i] = up[n][j]
    BY <1>1
  <2>2. up[n][j].id # 0 /\ Genuine(up[n][j]) /\ accepted[up[n][j].id].node = n
    BY <2>1 DEF UpGenuine
  <2> QED BY <2>1, <2>2 DEF Genuine
<1>3. TasksNotUp'
  <2> SUFFICES ASSUME NEW t \in Tasks, NEW n \in Nodes, NEW i \in DOMAIN up'[n],
                      task'[t].pc = "publish", up'[n][i].kind = "msg"
               PROVE  up'[n][i].id # task'[t].id
    BY DEF TasksNotUp
  <2>1. PICK j \in DOMAIN up[n] : up'[n][i] = up[n][j]
    BY <1>1
  <2>2. task'[t] = task[t]
    BY DEF TasksShrink
  <2> QED BY <2>1, <2>2 DEF TasksNotUp
<1>4. UpOnce'
  <2> SUFFICES ASSUME NEW n \in Nodes, NEW m \in Nodes, NEW i \in DOMAIN up'[n], NEW j \in DOMAIN up'[m],
                      up'[n][i].kind = "msg", up'[m][j].kind = "msg", up'[n][i].id = up'[m][j].id
               PROVE  n = m /\ i = j
    BY SMT DEF UpOnce
  <2>1. PICK h \in [DOMAIN up'[n] -> DOMAIN up[n]] :
          \A k \in DOMAIN up'[n] : up'[n][k] = up[n][h[k]] /\ \A l \in DOMAIN up'[n] : k < l => h[k] < h[l]
    BY <1>1
  <2>2. PICK g \in [DOMAIN up'[m] -> DOMAIN up[m]] : \A k \in DOMAIN up'[m] : up'[m][k] = up[m][g[k]]
    BY <1>1
  <2>3. n = m /\ h[i] = g[j]
    BY <2>1, <2>2, SMT DEF UpOnce
  <2>4. h[i] = h[j]
    BY <2>1, <2>2, <2>3, SMT DEF UpOnce
  <2>5. DOMAIN up'[n] = 1..Len(up'[n]) /\ DOMAIN up[n] = 1..Len(up[n])
    BY SMT DEF Shape
  <2>6. i \in Int /\ j \in Int /\ h[i] \in Int
    BY <2>1, <2>3, <2>5, SMT
  <2>7. ~(i < j) /\ ~(j < i)
    BY <2>1, <2>3, <2>4, <2>6, SMT
  <2> QED BY <2>3, <2>6, <2>7, SMT
<1> QED BY <1>2, <1>3, <1>4

LEMMA UpStaysUnranked ==
    ASSUME NEW rank, UpUnranked(rank), UpThins
    PROVE  UpUnranked(rank)'
BY SMT DEF UpUnranked, UpThins, Thins

LEMMA ReceiversKept ==
    ASSUME DownGenuine, InboxGenuine, GotGenuine, DownThins, InboxThins, UNCHANGED <<setup, accepted, got>>
    PROVE  DownGenuine' /\ InboxGenuine' /\ GotGenuine'
<1>1. DownGenuine'
  <2> SUFFICES ASSUME NEW f \in Feeds, NEW i \in DOMAIN down'[f] PROVE Travels(down[f][i], f)'
    BY SetupStays DEF DownGenuine
  <2>1. PICK j \in DOMAIN down[f] : down'[f][i] = down[f][j]
    BY SMT DEF DownThins, Thins
  <2>2. Travels(down[f][j], f)
    BY DEF DownGenuine
  <2> QED BY <2>1, <2>2 DEF Travels, Genuine, Redis, LineOf
<1>2. InboxGenuine'
  <2> SUFFICES ASSUME NEW s \in Streams, NEW i \in DOMAIN stream'[s].inbox
               PROVE  Heard(stream[s].inbox[i], s)'
    BY DEF InboxGenuine
  <2>1. PICK j \in DOMAIN stream[s].inbox : stream'[s].inbox[i] = stream[s].inbox[j]
    BY DEF InboxThins, Thins
  <2> QED BY <2>1 DEF InboxGenuine, Heard, Genuine, Redis
<1>3. GotGenuine'
  BY DEF GotGenuine, Covers, Redis
<1> QED BY <1>1, <1>2, <1>3

LEMMA PipesKept ==
    ASSUME NEW rank, Pipes(rank), DownThins, InboxThins, UNCHANGED <<setup, accepted, got>>
    PROVE  Pipes(rank)'
<1> SUFFICES ASSUME NEW s \in Streams, NEW f \in Feeds, f[2] = Receiver(s)
             PROVE  Pipe(OnLine(f[1]), got[s], stream'[s].inbox, down'[f], rank)
  BY SetupStays, LinesStay DEF Pipes
<1>1. Pipe(OnLine(f[1]), got[s], stream[s].inbox, down[f], rank)
  BY DEF Pipes
<1>2. Thins(stream'[s].inbox, stream[s].inbox) /\ Thins(down'[f], down[f])
  BY DEF DownThins, InboxThins
<1> QED BY <1>1, <1>2, PipeThins

(* A step that only loses messages: every part but the documents.          *)
LEMMA LossKeeps ==
    ASSUME IInv, Shape', InterestGenuine', UNCHANGED <<setup, accepted, got>>,
           TasksShrink, UpThins, DownThins, InboxThins
    PROVE  Carried' /\ Ordered' /\ Once'
<1>1. Carried'
  BY TasksKept, UpKept, ReceiversKept DEF IInv, Carried, Once
<1>2. Once'
  BY TasksKept, UpKept DEF IInv, Carried, Once
<1>3. PICK n \in Nat, rank \in [Nat -> Nat] :
        RanksUpTo(rank, n) /\ TasksUnranked(rank) /\ UpUnranked(rank) /\ Pipes(rank)
  BY DEF IInv, Ordered
<1>4. RanksUpTo(rank, n)'
  BY <1>3 DEF RanksUpTo
<1>5. TasksUnranked(rank)' /\ UpUnranked(rank)' /\ Pipes(rank)'
  BY <1>3, TasksStayUnranked, UpStaysUnranked, PipesKept
<1> QED BY <1>1, <1>2, <1>4, <1>5 DEF Ordered

LEMMA DocsKept == ASSUME DocsAgree, UNCHANGED <<docs, accepted>> PROVE DocsAgree'
BY SMT DEF DocsAgree, DocAgrees, AcceptedAt, Data

LEMMA InterestKept ==
    ASSUME InterestGenuine, interest' \subseteq interest, UNCHANGED setup
    PROVE  InterestGenuine'
BY DEF InterestGenuine, Redis

LEMMA SameThins ==
    ASSUME Shape
    PROVE  /\ up' = up => UpThins
           /\ down' = down => DownThins
           /\ (\A s \in Streams : stream'[s].inbox = stream[s].inbox) => InboxThins
           /\ task' = task => TasksShrink
<1>1. ASSUME up' = up PROVE UpThins
  <2> SUFFICES ASSUME NEW n \in Nodes PROVE Thins(up[n], up[n])
    BY <1>1 DEF UpThins
  <2>1. up[n] \in Seq(Messages \union Subs)
    BY DEF Shape
  <2> QED BY <2>1, ThinsSelf
<1>2. ASSUME down' = down PROVE DownThins
  <2> SUFFICES ASSUME NEW f \in Feeds PROVE Thins(down[f], down[f])
    BY <1>2 DEF DownThins
  <2>1. down[f] \in Seq(Messages)
    BY DEF Shape
  <2> QED BY <2>1, ThinsSelf
<1>3. ASSUME \A s \in Streams : stream'[s].inbox = stream[s].inbox PROVE InboxThins
  <2> SUFFICES ASSUME NEW s \in Streams PROVE Thins(stream[s].inbox, stream[s].inbox)
    BY <1>3 DEF InboxThins
  <2>1. stream[s].inbox \in Seq(Messages)
    BY DEF Shape
  <2> QED BY <2>1, ThinsSelf
<1> QED BY <1>1, <1>2, <1>3 DEF TasksShrink

-----------------------------------------------------------------------------
(* The steps that only lose messages, one lemma each.                      *)
LEMMA StutterKeeps == ASSUME IInv, UNCHANGED vars PROVE IInv'
<1>1. Shape'
  BY SetupStays DEF IInv, Shape, vars
<1>2. InterestGenuine'
  BY InterestKept DEF IInv, Carried, vars
<1>4. Carried' /\ Ordered' /\ Once'
  BY <1>1, <1>2, SameThins, LossKeeps DEF IInv, vars
<1>3. DocsAgree'
  BY DocsKept DEF IInv, vars
<1> QED BY <1>1, <1>3, <1>4 DEF IInv

LEMMA HereFinite ==
    ASSUME Shape, NEW n, NEW c
    PROVE  /\ IsFiniteSet(AcceptedAt(n, c)) /\ Cardinality(AcceptedAt(n, c)) \in Nat
           /\ Cardinality(AcceptedAt(n, c)) = 0 <=> AcceptedAt(n, c) = {}
<1>1. DOMAIN accepted = 1..Len(accepted) /\ Len(accepted) \in Nat
  BY SMT DEF Shape
<1>2. IsFiniteSet(1..Len(accepted))
  BY <1>1, FS_Interval, SMT
<1>3. AcceptedAt(n, c) \subseteq 1..Len(accepted)
  BY <1>1 DEF AcceptedAt
<1>4. IsFiniteSet(AcceptedAt(n, c))
  BY <1>2, <1>3, FS_Subset
<1> QED BY <1>4, FS_CardinalityType, FS_EmptySet

LEMMA SlotIsThere ==
    ASSUME IInv, NEW n \in Nodes, NEW c \in Topics
    PROVE  /\ Slot(n, c) = [applied |-> Data(AcceptedAt(n, c)), next_offset |-> Cardinality(AcceptedAt(n, c))]
           /\ Slot(n, c) \in Slots /\ Slot(n, c).applied \in SUBSET Updates
<1>1. DocAgrees(n, c)
  BY DEF IInv, DocsAgree
<1>2. Data({}) = {} /\ Cardinality({}) = 0
  BY FS_EmptySet DEF Data
<1>3. Slot(n, c) = [applied |-> Data(AcceptedAt(n, c)), next_offset |-> Cardinality(AcceptedAt(n, c))]
  <2> DEFINE here == AcceptedAt(n, c)
  <2>1. Cardinality(here) = 0 <=> here = {}
    BY HereFinite DEF IInv
  <2>2. CASE docs[n][c] = NoSlot
    <3>1. here = {}
      BY <1>1, <2>1, <2>2, SMT DEF DocAgrees, NoSlot
    <3>2. Slot(n, c) = [applied |-> {}, next_offset |-> 0]
      BY <2>2 DEF Slot, NewSlot
    <3> QED BY <1>2, <3>1, <3>2
  <2>3. CASE docs[n][c] # NoSlot
    BY <1>1, <2>3 DEF DocAgrees, Slot
  <2> QED BY <2>2, <2>3
<1>4. Slot(n, c) \in Slots
  BY SMT DEF IInv, Shape, Slot, NewSlot, Slots
<1>5. Data(AcceptedAt(n, c)) \in SUBSET Updates
  <2>1. accepted \in Seq([node : Nodes, publication : Publication])
    BY DEF IInv, Shape
  <2>2. \A i \in DOMAIN accepted : accepted[i] \in [node : Nodes, publication : Publication]
    BY <2>1, ElementsOf
  <2> QED BY <2>2 DEF Data, AcceptedAt, Publication
<1> QED BY <1>3, <1>4, <1>5, SMT

\* or_insert_with on a slot that is there, or that nothing was applied to.
LEMMA SlotTouched ==
    ASSUME IInv, NEW n \in Nodes, NEW c \in Topics, UNCHANGED accepted,
           NEW x \in {docs[n][c], Slot(n, c)}, docs' = [docs EXCEPT ![n][c] = x]
    PROVE  docs' \in [Nodes -> [Topics -> Slots]] /\ DocsAgree'
<1>1. docs \in [Nodes -> [Topics -> Slots]] /\ x \in Slots
  BY SlotIsThere, SMT DEF IInv, Shape
<1>2. docs' \in [Nodes -> [Topics -> Slots]]
  BY <1>1
<1>3. docs'[n][c] = x /\ \A m \in Nodes, b \in Topics : m # n \/ b # c => docs'[m][b] = docs[m][b]
  BY <1>1
<1>4. ASSUME NEW m \in Nodes, NEW b \in Topics PROVE DocAgrees(m, b)'
  <2>1. DocAgrees(m, b)
    BY DEF IInv, DocsAgree
  <2>2. CASE docs'[m][b] = docs[m][b]
    BY <2>1, <2>2 DEF DocAgrees, AcceptedAt, Data
  <2>3. CASE m = n /\ b = c /\ x = Slot(n, c)
    <3>1. docs'[m][b] = [applied |-> Data(AcceptedAt(m, b)), next_offset |-> Cardinality(AcceptedAt(m, b))]
      BY <1>3, <2>3, SlotIsThere
    <3> QED BY <2>1, <3>1 DEF DocAgrees, AcceptedAt, Data
  <2> QED BY <1>3, <2>2, <2>3
<1> QED BY <1>2, <1>4 DEF DocsAgree

LEMMA PcStep ==
    ASSUME Shape, NEW s \in Streams, NEW pc \in Pcs, stream' = [stream EXCEPT ![s].pc = pc]
    PROVE  /\ stream' \in [Streams -> [pc : Pcs, inbox : Seq(Messages)]]
           /\ \A r \in Streams : stream'[r].inbox = stream[r].inbox
<1>1. stream \in [Streams -> [pc : Pcs, inbox : Seq(Messages)]]
  BY DEF Shape
<1> QED BY <1>1

LEMMA OnSubscribeKeeps == ASSUME IInv, NEW s \in Streams, OnSubscribe(s) PROVE IInv'
<1> DEFINE n == Home[s]
           c == Topic[s]
<1>1. n \in Nodes /\ c \in Topics
  BY ClusterConstants
<1>2. /\ docs' = [docs EXCEPT ![n][c] = Slot(n, c)]
      /\ stream' = [stream EXCEPT ![s].pc = "asking"]
      /\ UNCHANGED <<setup, task, accepted, up, interest, down, got, alien>>
  BY DEF OnSubscribe
<1> HIDE DEF n, c
<1>4. Shape'
  <2>1. docs' \in [Nodes -> [Topics -> Slots]]
    BY <1>1, <1>2, SlotTouched
  <2>2. stream' \in [Streams -> [pc : Pcs, inbox : Seq(Messages)]]
    <3>1. "asking" \in Pcs
      BY DEF Pcs
    <3> QED BY <1>2, <3>1, PcStep DEF IInv
  <2> QED BY <1>2, <2>1, <2>2, SetupStays DEF IInv, Shape
<1>5. \A r \in Streams : stream'[r].inbox = stream[r].inbox
  BY <1>2, PcStep, SMT DEF IInv
<1>3. InterestGenuine'
  BY <1>2, InterestKept DEF IInv, Carried
<1>6. Carried' /\ Ordered' /\ Once'
  BY <1>2, <1>3, <1>4, <1>5, SameThins, LossKeeps DEF IInv
<1>7. DocsAgree'
  BY <1>1, <1>2, SlotTouched
<1> QED BY <1>4, <1>6, <1>7 DEF IInv

LEMMA OpenKeeps == ASSUME IInv, NEW s \in Streams, RedisSubscribe(s) \/ MessageRx(s) PROVE IInv'
<1> USE DEF RedisSubscribe, Refused, MessageRx
<1>1. UNCHANGED <<setup, docs, task, accepted, up, down, got, alien>>
  OBVIOUS
<1>7. Redis \/ UNCHANGED interest
  OBVIOUS
<1>2. \/ stream' = [stream EXCEPT ![s].pc = "subscribed"]
      \/ stream' = [stream EXCEPT ![s].pc = "dropped"]
      \/ stream' = [stream EXCEPT ![s].pc = "open"]
  OBVIOUS
<1>3. /\ stream' \in [Streams -> [pc : Pcs, inbox : Seq(Messages)]]
      /\ \A r \in Streams : stream'[r].inbox = stream[r].inbox
  <2>1. "subscribed" \in Pcs /\ "dropped" \in Pcs /\ "open" \in Pcs
    BY DEF Pcs
  <2> QED BY <1>2, <2>1, PcStep DEF IInv
<1>6. Shape'
  BY <1>1, <1>3, SetupStays DEF IInv, Shape
<1>8. InterestGenuine'
  BY <1>1, <1>7 DEF IInv, Carried, InterestGenuine, Redis
<1>4. Carried' /\ Ordered' /\ Once'
  BY <1>1, <1>3, <1>6, <1>8, SameThins, LossKeeps DEF IInv
<1>5. DocsAgree'
  BY <1>1, DocsKept DEF IInv
<1> QED BY <1>4, <1>5, <1>6 DEF IInv

LEMMA KeepingThins ==
    ASSUME Shape, NEW n \in Nodes, NEW K \in SUBSET DOMAIN up[n], Keeping(n, K)
    PROVE  up' \in [Nodes -> Seq(Messages \union Subs)] /\ UpThins
<1>1. PICK f \in InOrder(K) : up' = [up EXCEPT ![n] = [i \in DOMAIN f |-> up[n][f[i]]]]
  BY DEF Keeping
<1> DEFINE q == [i \in DOMAIN f |-> up[n][f[i]]]
<1>2. \A m \in Nodes : up[m] \in Seq(Messages \union Subs)
  BY DEF Shape
<1>3. q \in Seq(Messages \union Subs) /\ Thins(q, up[n])
  BY <1>2, ThinsKept, SMT
<1> HIDE DEF q
<1>4. up' = [up EXCEPT ![n] = q]
  BY <1>1 DEF q
<1>5. UpThins
  <2> SUFFICES ASSUME NEW m \in Nodes PROVE Thins(up'[m], up[m])
    BY DEF UpThins
  <2>1. Thins(up[m], up[m])
    BY <1>2, ThinsSelf
  <2> QED BY <1>3, <1>4, <2>1 DEF Shape
<1> QED BY <1>3, <1>4, <1>5 DEF Shape

LEMMA DropStreamKeeps == ASSUME IInv, NEW s \in Streams, DropStream(s) PROVE IInv'
<1> DEFINE n == Home[s]
           K == {i \in DOMAIN up[n] : up[n][i] # Sub(s)}
<1>1. /\ stream' = [stream EXCEPT ![s] = [Closed EXCEPT !.pc = "dropped"]]
      /\ Keeping(n, K) /\ interest' \subseteq interest
      /\ UNCHANGED <<setup, docs, task, accepted, down, got, alien>>
  BY DEF DropStream
<1>2. n \in Nodes /\ K \in SUBSET DOMAIN up[n]
  BY ClusterConstants
<1> HIDE DEF n, K
<1>3. up' \in [Nodes -> Seq(Messages \union Subs)] /\ UpThins
  BY <1>1, <1>2, KeepingThins DEF IInv
<1>4. /\ stream' \in [Streams -> [pc : Pcs, inbox : Seq(Messages)]]
      /\ \A r \in Streams : stream'[r].inbox \in {stream[r].inbox, <<>>}
  <2> DEFINE e == [Closed EXCEPT !.pc = "dropped"]
  <2>1. e \in [pc : Pcs, inbox : Seq(Messages)] /\ e.inbox = <<>>
    <3>1. e = [pc |-> "dropped", inbox |-> <<>>]
      BY SMT DEF Closed
    <3>2. <<>> \in Seq(Messages) /\ "dropped" \in Pcs
      BY SMT DEF Pcs
    <3> HIDE DEF e
    <3> QED BY <3>1, <3>2
  <2>2. stream \in [Streams -> [pc : Pcs, inbox : Seq(Messages)]] /\ stream' = [stream EXCEPT ![s] = e]
    BY <1>1 DEF IInv, Shape
  <2> HIDE DEF e
  <2> QED BY <2>1, <2>2
<1>5. Shape'
  BY <1>1, <1>3, <1>4, SetupStays DEF IInv, Shape
<1>6. InboxThins
  <2> SUFFICES ASSUME NEW r \in Streams PROVE Thins(stream'[r].inbox, stream[r].inbox)
    BY DEF InboxThins
  <2>1. stream[r].inbox \in Seq(Messages)
    BY DEF IInv, Shape
  <2> QED BY <1>4, <2>1, ThinsSelf, ThinsEmpty
<1>9. InterestGenuine'
  BY <1>1, InterestKept DEF IInv, Carried
<1>7. Carried' /\ Ordered' /\ Once'
  BY <1>1, <1>3, <1>5, <1>6, <1>9, SameThins, LossKeeps DEF IInv
<1>8. DocsAgree'
  BY <1>1, DocsKept DEF IInv
<1> QED BY <1>5, <1>7, <1>8 DEF IInv

LEMMA ConnectionLostKeeps == ASSUME IInv, NEW n \in Nodes, ConnectionLost(n) PROVE IInv'
<1> DEFINE K == {i \in DOMAIN up[n] : up[n][i].kind = "sub"}
<1>1. /\ down' = [f \in Feeds |-> IF f[2] \in At(n) THEN <<>> ELSE down[f]]
      /\ up' = up \/ Keeping(n, K)
      /\ interest' \subseteq interest
      /\ UNCHANGED <<setup, docs, task, accepted, stream, got, alien>>
  BY DEF ConnectionLost
<1>2. K \in SUBSET DOMAIN up[n]
  OBVIOUS
<1> HIDE DEF K
<1>3. up' \in [Nodes -> Seq(Messages \union Subs)] /\ UpThins
  <2>1. CASE up' = up
    BY <2>1, SameThins DEF IInv, Shape
  <2>2. CASE Keeping(n, K)
    BY <1>2, <2>2, KeepingThins DEF IInv
  <2> QED BY <1>1, <2>1, <2>2
<1>4. down' \in [Feeds -> Seq(Messages)] /\ \A f \in Feeds : down'[f] \in {down[f], <<>>}
  <2>1. down \in [Feeds -> Seq(Messages)] /\ <<>> \in Seq(Messages)
    BY SMT DEF IInv, Shape
  <2> QED BY <1>1, <2>1
<1>5. Shape'
  BY <1>1, <1>3, <1>4, SetupStays DEF IInv, Shape
<1>6. DownThins
  <2> SUFFICES ASSUME NEW f \in Feeds PROVE Thins(down'[f], down[f])
    BY DEF DownThins
  <2>1. down[f] \in Seq(Messages)
    BY DEF IInv, Shape
  <2> QED BY <1>4, <2>1, ThinsSelf, ThinsEmpty
<1>9. InterestGenuine'
  BY <1>1, InterestKept DEF IInv, Carried
<1>7. Carried' /\ Ordered' /\ Once'
  BY <1>1, <1>3, <1>5, <1>6, <1>9, SameThins, LossKeeps DEF IInv
<1>8. DocsAgree'
  BY <1>1, DocsKept DEF IInv
<1> QED BY <1>5, <1>7, <1>8 DEF IInv

-----------------------------------------------------------------------------
(* A command is added to a connection.                                     *)
Joins(n, m) == up' = [up EXCEPT ![n] = Append(@, m)]

LEMMA JoinedUp ==
    ASSUME Shape, NEW n \in Nodes, NEW m \in Messages \union Subs, Joins(n, m)
    PROVE  /\ up' \in [Nodes -> Seq(Messages \union Subs)]
           /\ \A k \in Nodes : \A i \in DOMAIN up'[k] :
                \/ i \in DOMAIN up[k] /\ up'[k][i] = up[k][i]
                \/ i \notin DOMAIN up[k] /\ k = n /\ up'[k][i] = m
           /\ \A i, j \in DOMAIN up'[n] : i \notin DOMAIN up[n] /\ j \notin DOMAIN up[n] => i = j
<1>1. \A k \in Nodes : up[k] \in Seq(Messages \union Subs)
  BY DEF Shape
<1>2. /\ Append(up[n], m) \in Seq(Messages \union Subs)
      /\ \A i \in DOMAIN Append(up[n], m) :
           \/ i \in DOMAIN up[n] /\ Append(up[n], m)[i] = up[n][i]
           \/ i \notin DOMAIN up[n] /\ Append(up[n], m)[i] = m
      /\ \A i, j \in DOMAIN Append(up[n], m) : i \notin DOMAIN up[n] /\ j \notin DOMAIN up[n] => i = j
  BY <1>1, EndOf, ZenonT(30)
<1> DEFINE q == Append(up[n], m)
<1> HIDE DEF q
<1>3. up' = [up EXCEPT ![n] = q] /\ up \in [Nodes -> Seq(Messages \union Subs)]
  BY DEF Joins, Shape, q
<1>4. up'[n] = q /\ \A k \in Nodes : k # n => up'[k] = up[k]
  BY <1>3
<1>5. up' \in [Nodes -> Seq(Messages \union Subs)]
  BY <1>2, <1>3 DEF q
<1> QED BY <1>2, <1>4, <1>5 DEF q

LEMMA JoinKeeps ==
    ASSUME IInv, Shape', NEW n \in Nodes, NEW m \in Messages \union Subs, Joins(n, m), TasksShrink,
           UNCHANGED <<setup, docs, accepted, interest, down, got>>,
           \A s \in Streams : stream'[s].inbox = stream[s].inbox,
           m.kind = "msg" =>
             /\ m.id # 0 /\ Genuine(m) /\ accepted[m.id].node = n
             /\ \A t \in Tasks : task'[t].pc = "publish" => task'[t].id # m.id
             /\ \A k \in Nodes : \A i \in DOMAIN up[k] : up[k][i].kind = "msg" => up[k][i].id # m.id,
           \A rank : TasksUnranked(rank) /\ m.kind = "msg" => rank[m.id] = 0
    PROVE  IInv'
<1>1. /\ \A k \in Nodes : \A i \in DOMAIN up'[k] :
           \/ i \in DOMAIN up[k] /\ up'[k][i] = up[k][i]
           \/ i \notin DOMAIN up[k] /\ k = n /\ up'[k][i] = m
      /\ \A i, j \in DOMAIN up'[n] : i \notin DOMAIN up[n] /\ j \notin DOMAIN up[n] => i = j
  BY JoinedUp DEF IInv
<1>2. TasksGenuine' /\ TasksOnce'
  BY TasksKept DEF IInv, Carried, Once
<1>3. DownThins /\ InboxThins
  BY SameThins DEF IInv
<1>4. DownGenuine' /\ InboxGenuine' /\ GotGenuine' /\ InterestGenuine'
  BY <1>3, ReceiversKept, InterestKept DEF IInv, Carried
<1>5. UpGenuine'
  <2> SUFFICES ASSUME NEW k \in Nodes, NEW i \in DOMAIN up'[k], up'[k][i].kind = "msg"
               PROVE  up'[k][i].id # 0 /\ Genuine(up[k][i])' /\ accepted[up'[k][i].id].node = k
    BY ZenonT(30) DEF UpGenuine
  <2>1. CASE i \in DOMAIN up[k] /\ up'[k][i] = up[k][i]
    <3>1. up[k][i].id # 0 /\ Genuine(up[k][i]) /\ accepted[up[k][i].id].node = k
      BY <2>1 DEF IInv, Carried, UpGenuine
    <3> QED BY <2>1, <3>1 DEF Genuine
  <2>2. CASE k = n /\ up'[k][i] = m
    BY <2>2 DEF Genuine
  <2> QED BY <1>1, <2>1, <2>2
<1>6. UpOnce'
  <2> SUFFICES ASSUME NEW k \in Nodes, NEW l \in Nodes, NEW i \in DOMAIN up'[k], NEW j \in DOMAIN up'[l],
                      up'[k][i].kind = "msg", up'[l][j].kind = "msg", up'[k][i].id = up'[l][j].id
               PROVE  k = l /\ i = j
    BY SMT DEF UpOnce
  <2>1. CASE i \in DOMAIN up[k] /\ up'[k][i] = up[k][i] /\ j \in DOMAIN up[l] /\ up'[l][j] = up[l][j]
    BY <2>1, SMT DEF IInv, Once, UpOnce
  <2>2. CASE i \notin DOMAIN up[k] /\ k = n /\ j \notin DOMAIN up[l] /\ l = n
    BY <1>1, <2>2
  <2>3. CASE i \in DOMAIN up[k] /\ up'[k][i] = up[k][i] /\ up'[l][j] = m
    BY <2>3
  <2>4. CASE j \in DOMAIN up[l] /\ up'[l][j] = up[l][j] /\ up'[k][i] = m
    BY <2>4
  <2> QED BY <1>1, <2>1, <2>2, <2>3, <2>4, ZenonT(30)
<1>7. TasksNotUp'
  <2> SUFFICES ASSUME NEW t \in Tasks, NEW k \in Nodes, NEW i \in DOMAIN up'[k],
                      task'[t].pc = "publish", up'[k][i].kind = "msg"
               PROVE  up'[k][i].id # task'[t].id
    BY DEF TasksNotUp
  <2>1. CASE i \in DOMAIN up[k] /\ up'[k][i] = up[k][i]
    BY <2>1 DEF IInv, Once, TasksNotUp, TasksShrink
  <2>2. CASE up'[k][i] = m
    BY <2>2
  <2> QED BY <1>1, <2>1, <2>2
<1>8. PICK o \in Nat, rank \in [Nat -> Nat] :
        RanksUpTo(rank, o) /\ TasksUnranked(rank) /\ UpUnranked(rank) /\ Pipes(rank)
  BY DEF IInv, Ordered
<1>9. RanksUpTo(rank, o)'
  BY <1>8 DEF RanksUpTo
<1>10. UpUnranked(rank)'
  BY <1>1, <1>8, SMT DEF UpUnranked
<1>11. TasksUnranked(rank)' /\ Pipes(rank)'
  BY <1>3, <1>8, TasksStayUnranked, PipesKept
<1>12. Ordered'
  BY <1>9, <1>10, <1>11 DEF Ordered
<1>13. DocsAgree'
  BY DocsKept DEF IInv
<1> QED BY <1>2, <1>4, <1>5, <1>6, <1>7, <1>12, <1>13 DEF IInv, Carried, Once

LEMMA NatsSubscribeKeeps == ASSUME IInv, NEW s \in Streams, NatsSubscribe(s) PROVE IInv'
<1> DEFINE n == Home[s]
<1>1. n \in Nodes /\ Topic[s] \in Topics
  BY ClusterConstants
<1>2. Sub(s) \in Subs /\ Sub(s).kind = "sub"
  BY DEF Sub, Subs
<1>3. UNCHANGED <<setup, docs, task, accepted, interest, down, got, alien>>
  BY DEF NatsSubscribe
<1>4. \/ Joins(n, Sub(s)) /\ stream' = [stream EXCEPT ![s].pc = "open"]
      \/ UNCHANGED up /\ stream' = [stream EXCEPT ![s].pc = "dropped"]
  BY DEF NatsSubscribe, Refused, Joins
<1> HIDE DEF n
<1>5. /\ stream' \in [Streams -> [pc : Pcs, inbox : Seq(Messages)]]
      /\ \A r \in Streams : stream'[r].inbox = stream[r].inbox
  <2>1. "dropped" \in Pcs /\ "open" \in Pcs
    BY DEF Pcs
  <2> QED BY <1>4, <2>1, PcStep DEF IInv
<1>6. up' \in [Nodes -> Seq(Messages \union Subs)]
  BY <1>1, <1>2, <1>4, JoinedUp DEF IInv, Shape
<1>7. Shape'
  BY <1>3, <1>5, <1>6, SetupStays DEF IInv, Shape
<1>11. InterestGenuine'
  BY <1>3, InterestKept DEF IInv, Carried
<1>8. TasksShrink
  BY <1>3 DEF TasksShrink
<1>9. CASE Joins(n, Sub(s))
  BY <1>1, <1>2, <1>3, <1>5, <1>7, <1>8, <1>9, JoinKeeps
<1>10. CASE UNCHANGED up
  <2>1. Carried' /\ Ordered' /\ Once'
    BY <1>3, <1>5, <1>7, <1>8, <1>10, <1>11, SameThins, LossKeeps DEF IInv
  <2> QED BY <1>3, <1>7, <2>1, DocsKept DEF IInv
<1> QED BY <1>4, <1>9, <1>10

LEMMA PublishKeeps == ASSUME IInv, NEW t \in Tasks, RedisPublish(t) \/ NatsPublish(t) PROVE IInv'
<1> DEFINE n == Home[t]
           m == Bytes(task[t].topic, task[t].id)
<1>1. /\ task[t].pc = "publish" /\ task' = [task EXCEPT ![t] = NoTask]
      /\ up' = up \/ Joins(n, m)
      /\ UNCHANGED <<setup, docs, accepted, interest, down, stream, got, alien>>
  BY DEF RedisPublish, NatsPublish, Handed, Joins
<1>2. n \in Nodes
  BY ClusterConstants
<1>3. /\ task[t].id \in DOMAIN accepted
      /\ task[t].topic = accepted[task[t].id].publication.channel
      /\ accepted[task[t].id].node = n
  BY <1>1 DEF IInv, Carried, TasksGenuine
<1>4. task[t] \in [pc : {"publish"}, topic : Topics, id : Nat]
  <2>1. task[t] \in {NoTask} \union [pc : {"publish"}, topic : Topics, id : Nat]
    BY DEF IInv, Shape
  <2> QED BY <1>1, <2>1, SMT DEF NoTask
<1>5. task[t].topic \in Topics /\ task[t].id \in Nat
  BY <1>4
<1>6. task[t].id # 0 /\ accepted[task[t].id].publication \in Publication
  <2>1. accepted \in Seq([node : Nodes, publication : Publication])
    BY DEF IInv, Shape
  <2>2. 0 \notin DOMAIN accepted
    BY <2>1, SMT
  <2>3. accepted[task[t].id] \in [node : Nodes, publication : Publication]
    BY <1>3, <2>1, ElementsOf, ZenonT(30)
  <2> QED BY <1>3, <2>2, <2>3
<1>7. m \in Messages /\ m.kind = "msg" /\ m.id = task[t].id
  BY <1>5, <1>6 DEF Bytes, Messages, Payload
<1>8. Genuine(m)
  BY <1>3 DEF Bytes, Genuine
<1>9. TasksShrink /\ task'[t].pc # "publish" /\ \A v \in Tasks : v # t => task'[v] = task[v]
  BY <1>1 DEF IInv, Shape, NoTask, TasksShrink
<1>10. task' \in [Tasks -> {NoTask} \union [pc : {"publish"}, topic : Topics, id : Nat]]
  BY <1>1 DEF IInv, Shape
<1> HIDE DEF n, m
<1>11. up' \in [Nodes -> Seq(Messages \union Subs)]
  BY <1>1, <1>2, <1>7, JoinedUp, ZenonT(30) DEF IInv, Shape
<1>12. Shape'
  BY <1>1, <1>10, <1>11, SetupStays DEF IInv, Shape
<1>15. InterestGenuine'
  BY <1>1, InterestKept DEF IInv, Carried
<1>13. CASE Joins(n, m)
  <2>1. \A v \in Tasks : task'[v].pc = "publish" => task'[v].id # m.id
    BY <1>1, <1>7, <1>9 DEF IInv, Once, TasksOnce
  <2>2. \A k \in Nodes : \A i \in DOMAIN up[k] : up[k][i].kind = "msg" => up[k][i].id # m.id
    BY <1>1, <1>7 DEF IInv, Once, TasksNotUp
  <2>3. \A rank : TasksUnranked(rank) => rank[m.id] = 0
    BY <1>1, <1>7 DEF TasksUnranked
  <2>4. accepted[m.id].node = n
    BY <1>3, <1>7
  <2> QED BY <1>1, <1>2, <1>6, <1>7, <1>8, <1>9, <1>12, <1>13, <2>1, <2>2, <2>3, <2>4, JoinKeeps, ZenonT(30)
<1>14. CASE up' = up
  <2>1. Carried' /\ Ordered' /\ Once'
    BY <1>1, <1>9, <1>12, <1>14, <1>15, SameThins, LossKeeps DEF IInv
  <2> QED BY <1>1, <1>12, <2>1, DocsKept DEF IInv
<1> QED BY <1>1, <1>13, <1>14

-----------------------------------------------------------------------------
(* A publication is accepted.                                              *)
LEMMA RefusedKeeps ==
    ASSUME IInv, NEW t \in Tasks, NEW o \in Offers[t], OnPublish(t, o[1], o[2]), o[2] \notin Updates
    PROVE  IInv'
<1> DEFINE n == Home[t]
           c == o[1]
           x == IF setup.engine = "yjs" THEN YjsSlot(n, c, o[2]) ELSE AutomergeSlot(n, c, o[2])
<1>1. n \in Nodes /\ c \in Topics
  BY ClusterConstants
<1>2. /\ docs' = [docs EXCEPT ![n][c] = x]
      /\ UNCHANGED <<setup, task, accepted, up, interest, down, stream, got, alien>>
  BY DEF OnPublish
<1>3. x \in {docs[n][c], Slot(n, c)}
  BY DEF YjsSlot, AutomergeSlot
<1> HIDE DEF n, c, x
<1>4. docs' \in [Nodes -> [Topics -> Slots]] /\ DocsAgree'
  BY <1>1, <1>2, <1>3, SlotTouched
<1>5. Shape'
  BY <1>2, <1>4, SetupStays DEF IInv, Shape
<1>7. InterestGenuine'
  BY <1>2, InterestKept DEF IInv, Carried
<1>6. Carried' /\ Ordered' /\ Once'
  BY <1>2, <1>5, <1>7, SameThins, LossKeeps DEF IInv
<1> QED BY <1>4, <1>5, <1>6 DEF IInv

\* on_publish gives the next offset of the node's document.
Accepts(t, c, data) ==
    LET n == Home[t]
    IN  /\ task[t] = NoTask /\ Len(accepted) < MaxAccepted
        /\ docs' = [docs EXCEPT ![n][c] = Applied(Slot(n, c), data)]
        /\ accepted' = Append(accepted,
             [node |-> n, publication |-> [channel |-> c, offset |-> Slot(n, c).next_offset, data |-> data]])
        /\ task' = [task EXCEPT ![t] = [pc |-> "publish", topic |-> c, id |-> Len(accepted) + 1]]
        /\ UNCHANGED <<setup, up, interest, down, stream, got, alien>>

LEMMA AcceptedGrows ==
    ASSUME IInv, NEW t \in Tasks, NEW c \in Topics, NEW data \in Updates, Accepts(t, c, data)
    PROVE  /\ Len(accepted) \in Nat /\ Len(accepted) + 1 \in Nat /\ DOMAIN accepted = 1..Len(accepted)
           /\ DOMAIN accepted' = DOMAIN accepted \union {Len(accepted) + 1}
           /\ Len(accepted) + 1 \notin DOMAIN accepted
           /\ \A i \in DOMAIN accepted : accepted'[i] = accepted[i] /\ i < Len(accepted) + 1 /\ i \in Nat
           /\ accepted'[Len(accepted) + 1] =
                [node |-> Home[t],
                 publication |-> [channel |-> c, offset |-> Slot(Home[t], c).next_offset, data |-> data]]
           /\ accepted' \in Seq([node : Nodes, publication : Publication])
<1> DEFINE e == [node |-> Home[t],
                 publication |-> [channel |-> c, offset |-> Slot(Home[t], c).next_offset, data |-> data]]
           E == [node : Nodes, publication : Publication]
<1>1. Home[t] \in Nodes
  BY ClusterConstants
<1>2. Slot(Home[t], c) \in Slots
  BY <1>1, SlotIsThere
<1>3. e \in E
  BY <1>1, <1>2 DEF Publication, Slots
<1>4. accepted \in Seq(E) /\ accepted' = Append(accepted, e)
  BY DEF IInv, Shape, Accepts
<1> HIDE DEF e, E
<1>5. /\ Len(accepted) \in Nat /\ DOMAIN accepted = 1..Len(accepted)
      /\ DOMAIN accepted' = 1..(Len(accepted) + 1)
      /\ \A i \in 1..Len(accepted) : accepted'[i] = accepted[i]
      /\ accepted'[Len(accepted) + 1] = e
      /\ accepted' \in Seq(E)
  BY <1>3, <1>4, SMT
<1> QED BY <1>5, SMT DEF e, E

LEMMA AcceptsShape ==
    ASSUME IInv, NEW t \in Tasks, NEW c \in Topics, NEW data \in Updates, Accepts(t, c, data)
    PROVE  Shape'
<1>1. Home[t] \in Nodes
  BY ClusterConstants
<1>2. Applied(Slot(Home[t], c), data) \in Slots
  <2>1. /\ Slot(Home[t], c).applied \in SUBSET Updates /\ Slot(Home[t], c).next_offset \in Nat
    BY <1>1, SlotIsThere DEF Slots
  <2> QED BY <2>1, SMT DEF Applied, Slots
<1>3. docs' \in [Nodes -> [Topics -> Slots]]
  BY <1>1, <1>2 DEF IInv, Shape, Accepts
<1>4. accepted' \in Seq([node : Nodes, publication : Publication]) /\ Len(accepted) \in Nat
  BY AcceptedGrows, ZenonT(30)
<1>5. task' \in [Tasks -> {NoTask} \union [pc : {"publish"}, topic : Topics, id : Nat]]
  BY <1>4, SMT DEF IInv, Shape, Accepts
<1>6. Len(accepted') <= MaxAccepted
  <2>1. DOMAIN accepted' = 1..Len(accepted') /\ Len(accepted') \in Nat
    BY <1>4, SMT
  <2>2. DOMAIN accepted' = DOMAIN accepted \union {Len(accepted) + 1} /\ DOMAIN accepted = 1..Len(accepted)
    BY AcceptedGrows
  <2> DEFINE l == Len(accepted')
             k == Len(accepted)
  <2>3. l \in Nat /\ k \in Nat /\ 1..l = 1..k \union {k + 1}
    BY <1>4, <2>1, <2>2
  <2> HIDE DEF l, k
  <2>4. l # 0 => l \in 1..k \union {k + 1}
    BY <2>3, SMT
  <2>5. l <= k + 1
    BY <2>3, <2>4, SMT
  <2> QED BY <2>3, <2>5, ClusterConstants, SMT DEF Accepts, k, l
<1>7. UNCHANGED <<setup, up, down, stream, got, alien>> /\ Feeds' = Feeds
  BY SetupStays DEF Accepts
<1> QED BY <1>3, <1>4, <1>5, <1>6, <1>7 DEF IInv, Shape

LEMMA EntryFields ==
    ASSUME NEW n, NEW c, NEW o, NEW data, NEW entry,
           entry = [node |-> n, publication |-> [channel |-> c, offset |-> o, data |-> data]]
    PROVE  /\ entry.node = n
           /\ entry.publication.channel = c /\ entry.publication.offset = o /\ entry.publication.data = data
OBVIOUS

LEMMA AcceptsDocs ==
    ASSUME IInv, NEW t \in Tasks, NEW c \in Topics, NEW data \in Updates, Accepts(t, c, data)
    PROVE  DocsAgree'
<1> DEFINE n == Home[t]
           k == Len(accepted) + 1
           here == AcceptedAt(n, c)
<1>1. n \in Nodes
  BY ClusterConstants
<1>2. /\ DOMAIN accepted' = DOMAIN accepted \union {k} /\ k \notin DOMAIN accepted
      /\ \A i \in DOMAIN accepted : accepted'[i] = accepted[i] /\ i < k /\ i \in Nat
      /\ accepted'[k] = [node |-> n, publication |-> [channel |-> c, offset |-> Slot(n, c).next_offset, data |-> data]]
      /\ k \in Nat
  BY AcceptedGrows
<1>3. docs' = [docs EXCEPT ![n][c] = Applied(Slot(n, c), data)]
  BY DEF Accepts
<1>4. /\ Slot(n, c) = [applied |-> Data(here), next_offset |-> Cardinality(here)]
      /\ IsFiniteSet(here) /\ Cardinality(here) \in Nat
  BY <1>1, SlotIsThere, HereFinite DEF IInv
<1> HIDE DEF n, k, here
<1>5. /\ accepted'[k].node = n
      /\ accepted'[k].publication.channel = c
      /\ accepted'[k].publication.offset = Slot(n, c).next_offset
      /\ accepted'[k].publication.data = data
  <2>1. accepted'[k] = [node |-> n, publication |-> [channel |-> c, offset |-> Slot(n, c).next_offset, data |-> data]]
    BY <1>2
  <2>2. \A entry :
          entry = [node |-> n, publication |-> [channel |-> c, offset |-> Slot(n, c).next_offset, data |-> data]] =>
            /\ entry.node = n
            /\ entry.publication.channel = c
            /\ entry.publication.offset = Slot(n, c).next_offset
            /\ entry.publication.data = data
    BY EntryFields, SMT
  <2> QED BY <2>1, <2>2
<1>6. ASSUME NEW m \in Nodes, NEW b \in Topics, ~(m = n /\ b = c) PROVE DocAgrees(m, b)'
  <2>1. docs'[m][b] = docs[m][b]
    BY <1>1, <1>3, <1>6 DEF IInv, Shape
  <2>2. AcceptedAt(m, b)' = AcceptedAt(m, b)
    <3>2. ~(accepted'[k].node = m /\ accepted'[k].publication.channel = b)
      BY <1>5, <1>6
    <3>3. DOMAIN accepted' = DOMAIN accepted \union {k} /\ \A i \in DOMAIN accepted : accepted'[i] = accepted[i]
      BY <1>2
    <3>4. ASSUME NEW i \in AcceptedAt(m, b)' PROVE i \in AcceptedAt(m, b)
      <4>1. i \in DOMAIN accepted' /\ accepted'[i].node = m /\ accepted'[i].publication.channel = b
        BY <3>4 DEF AcceptedAt
      <4>2. i \in DOMAIN accepted
        BY <3>2, <3>3, <4>1
      <4>3. accepted'[i] = accepted[i]
        BY <3>3, <4>2
      <4> QED BY <4>1, <4>2, <4>3 DEF AcceptedAt
    <3>5. ASSUME NEW i \in AcceptedAt(m, b) PROVE i \in AcceptedAt(m, b)'
      <4>1. i \in DOMAIN accepted /\ accepted[i].node = m /\ accepted[i].publication.channel = b
        BY <3>5 DEF AcceptedAt
      <4>2. i \in DOMAIN accepted' /\ accepted'[i] = accepted[i]
        BY <3>3, <4>1, ZenonT(30)
      <4> QED BY <4>1, <4>2 DEF AcceptedAt
    <3> QED BY <3>4, <3>5, ZenonT(30)
  <2>3. \A i \in AcceptedAt(m, b) : accepted'[i] = accepted[i]
    BY <1>2 DEF AcceptedAt
  <2>4. Data(AcceptedAt(m, b))' = Data(AcceptedAt(m, b))
    BY <2>2, <2>3 DEF Data
  <2>5. DocAgrees(m, b)
    BY DEF IInv, DocsAgree
  <2> QED BY <2>1, <2>2, <2>3, <2>4, <2>5 DEF DocAgrees
<1>7. DocAgrees(n, c)'
  <2>1. AcceptedAt(n, c)' = here \union {k} /\ k \notin here
    <3>1. here \subseteq DOMAIN accepted
      BY DEF AcceptedAt, here
    <3>2. ASSUME NEW i PROVE i \in AcceptedAt(n, c)' <=> i \in here \union {k}
      <4>1. CASE i = k
        BY <1>2, <1>5, <4>1 DEF AcceptedAt
      <4>2. CASE i # k /\ i \in DOMAIN accepted
        <5>1. accepted'[i] = accepted[i] /\ i \in DOMAIN accepted'
          BY <1>2, <4>2
        <5> QED BY <4>2, <5>1 DEF AcceptedAt, here
      <4>3. CASE i # k /\ i \notin DOMAIN accepted
        BY <1>2, <3>1, <4>3 DEF AcceptedAt
      <4> QED BY <4>1, <4>2, <4>3
    <3> QED BY <1>2, <3>1, <3>2
  <2>2. \A i \in here : accepted'[i] = accepted[i] /\ i < k /\ i \in Nat
    BY <1>2 DEF AcceptedAt, here
  <2>3. Data(AcceptedAt(n, c))' = Data(here) \union {data}
    <3>1. Data(AcceptedAt(n, c))' = {accepted'[i].publication.data : i \in here \union {k}}
      BY <2>1 DEF Data
    <3>2. Data(here) = {accepted[i].publication.data : i \in here}
      BY DEF Data
    <3>3. \A i \in here : accepted'[i].publication.data = accepted[i].publication.data
      BY <2>2
    <3>4. {accepted'[i].publication.data : i \in here \union {k}} = {accepted[i].publication.data : i \in here} \union {data}
      BY <1>5, <3>3
    <3> QED BY <3>1, <3>2, <3>4
  <2>4. Cardinality(here \union {k}) = Cardinality(here) + 1
    BY <1>4, <2>1, FS_AddElement
  <2>5. docs'[n][c] = [applied |-> Data(here) \union {data}, next_offset |-> Cardinality(here) + 1]
    BY <1>1, <1>3, <1>4, SMT DEF IInv, Shape, Applied
  <2>6. docs'[n][c] = [applied |-> Data(AcceptedAt(n, c))', next_offset |-> Cardinality(AcceptedAt(n, c)')]
    BY <2>1, <2>3, <2>4, <2>5
  <2>7. ASSUME NEW i \in here \union {k}
        PROVE  accepted'[i].publication.offset = Cardinality({j \in here \union {k} : j < i})
    <3>1. CASE i \in here
      <4>1. {j \in here \union {k} : j < i} = {j \in here : j < i}
        BY <1>2, <2>2, <3>1, SMT
      <4>2. accepted[i].publication.offset = Cardinality({j \in here : j < i})
        BY <1>1, <3>1, ZenonT(30) DEF IInv, DocsAgree, DocAgrees, here
      <4> QED BY <2>2, <3>1, <4>1, <4>2
    <3>2. CASE i = k
      <4>1. {j \in here \union {k} : j < k} = here
        BY <1>2, <2>2, SMT
      <4>2. Slot(n, c).next_offset = Cardinality(here)
        BY <1>4, SMT
      <4> QED BY <1>5, <3>2, <4>1, <4>2
    <3> QED BY <2>7, <3>1, <3>2
  <2> QED BY <2>1, <2>6, <2>7, ZenonT(30) DEF DocAgrees
<1> QED BY <1>6, <1>7 DEF DocsAgree

LEMMA AcceptsCarried ==
    ASSUME IInv, NEW t \in Tasks, NEW c \in Topics, NEW data \in Updates, Accepts(t, c, data)
    PROVE  Carried'
<1> DEFINE k == Len(accepted) + 1
<1>1. /\ DOMAIN accepted' = DOMAIN accepted \union {k}
      /\ \A i \in DOMAIN accepted : accepted'[i] = accepted[i]
      /\ accepted'[k] =
           [node |-> Home[t],
            publication |-> [channel |-> c, offset |-> Slot(Home[t], c).next_offset, data |-> data]]
  BY AcceptedGrows
<1>2. /\ task' = [task EXCEPT ![t] = [pc |-> "publish", topic |-> c, id |-> k]]
      /\ UNCHANGED <<setup, up, interest, down, stream, got>>
  BY DEF Accepts
<1> HIDE DEF k
<1>3. TasksGenuine'
  <2> SUFFICES ASSUME NEW v \in Tasks, task'[v].pc = "publish"
               PROVE  /\ task'[v].id \in DOMAIN accepted'
                      /\ task'[v].topic = accepted'[task'[v].id].publication.channel
                      /\ accepted'[task'[v].id].node = Home[v]
    BY DEF TasksGenuine
  <2>1. CASE v = t
    <3>1. task'[v].id = k /\ task'[v].topic = c
      BY <1>2, <2>1 DEF IInv, Shape
    <3>2. accepted'[k].publication.channel = c /\ accepted'[k].node = Home[t]
      BY <1>1, SMT
    <3> QED BY <1>1, <2>1, <3>1, <3>2
  <2>2. CASE v # t
    <3>1. task'[v] = task[v]
      BY <1>2, <2>2 DEF IInv, Shape
    <3>2. /\ task[v].id \in DOMAIN accepted /\ task[v].topic = accepted[task[v].id].publication.channel
          /\ accepted[task[v].id].node = Home[v]
      BY <3>1 DEF IInv, Carried, TasksGenuine
    <3> QED BY <1>1, <3>1, <3>2
  <2> QED BY <2>1, <2>2
<1>4. ASSUME NEW m, Genuine(m)
      PROVE  \/ m.id = 0 /\ m.bytes \in {o[2] : o \in Foreigns}
             \/ /\ m.id \in DOMAIN accepted' /\ m.id \in DOMAIN accepted
                /\ accepted'[m.id] = accepted[m.id]
                /\ m.topic = accepted'[m.id].publication.channel
                /\ m.bytes = encode_publication(accepted'[m.id].publication)
  BY <1>1, <1>4, ZenonT(30) DEF Genuine
<1>5. UpGenuine'
  <2> SUFFICES ASSUME NEW n \in Nodes, NEW i \in DOMAIN up[n], up[n][i].kind = "msg"
               PROVE  up[n][i].id # 0 /\ Genuine(up[n][i])' /\ accepted'[up[n][i].id].node = n
    BY <1>2 DEF UpGenuine
  <2>1. up[n][i].id # 0 /\ Genuine(up[n][i]) /\ accepted[up[n][i].id].node = n
    BY DEF IInv, Carried, UpGenuine
  <2> QED BY <1>2, <1>4, <2>1, ZenonT(30) DEF Genuine
<1>6. DownGenuine'
  <2> SUFFICES ASSUME NEW f \in Feeds, NEW i \in DOMAIN down[f] PROVE Travels(down[f][i], f)'
    BY <1>2, SetupStays DEF DownGenuine
  <2>1. Travels(down[f][i], f)
    BY DEF IInv, Carried, DownGenuine
  <2>2. Genuine(down[f][i])'
    BY <1>2, <1>4, <2>1, ZenonT(30) DEF Travels, Genuine
  <2>3. down[f][i].id # 0 => LineOf(accepted'[down[f][i].id].node) = f[1]
    BY <1>4, <2>1, ZenonT(30) DEF Travels
  <2> QED BY <1>2, <2>1, <2>2, <2>3 DEF Travels, Redis, LineOf
<1>7. InboxGenuine'
  <2> SUFFICES ASSUME NEW s \in Streams, NEW i \in DOMAIN stream[s].inbox
               PROVE  Heard(stream[s].inbox[i], s)'
    BY <1>2 DEF InboxGenuine
  <2>1. Heard(stream[s].inbox[i], s)
    BY DEF IInv, Carried, InboxGenuine
  <2>2. Genuine(stream[s].inbox[i])'
    BY <1>2, <1>4, <2>1, ZenonT(30) DEF Heard, Genuine
  <2> QED BY <1>2, <2>1, <2>2 DEF Heard, Redis
<1>8. GotGenuine'
  <2> SUFFICES ASSUME NEW s \in Streams, NEW i \in DOMAIN got[s]
               PROVE  /\ got[s][i].id \in DOMAIN accepted'
                      /\ got[s][i].publication = accepted'[got[s][i].id].publication
                      /\ Covers(Topic[s], got[s][i].publication.channel)
    BY <1>2 DEF GotGenuine, Covers, Redis
  <2>1. /\ got[s][i].id \in DOMAIN accepted
        /\ got[s][i].publication = accepted[got[s][i].id].publication
        /\ Covers(Topic[s], got[s][i].publication.channel)
    BY DEF IInv, Carried, GotGenuine
  <2> QED BY <1>1, <2>1
<1>9. InterestGenuine'
  BY <1>2, InterestKept DEF IInv, Carried
<1> QED BY <1>3, <1>5, <1>6, <1>7, <1>8, <1>9 DEF Carried

LEMMA AcceptsOrder ==
    ASSUME IInv, NEW t \in Tasks, NEW c \in Topics, NEW data \in Updates, Accepts(t, c, data)
    PROVE  Ordered' /\ Once'
<1> DEFINE k == Len(accepted) + 1
<1>1. DOMAIN accepted' = DOMAIN accepted \union {k} /\ k \notin DOMAIN accepted /\ k \in Nat
  BY AcceptedGrows
<1>2. /\ task' = [task EXCEPT ![t] = [pc |-> "publish", topic |-> c, id |-> k]]
      /\ UNCHANGED <<setup, up, interest, down, stream, got>>
  BY DEF Accepts
<1> HIDE DEF k
<1>3. task'[t].id = k /\ \A v \in Tasks : v # t => task'[v] = task[v]
  BY <1>2 DEF IInv, Shape
<1>4. \A v \in Tasks : v # t /\ task'[v].pc = "publish" => task'[v].id # k
  BY <1>1, <1>3, ZenonT(30) DEF IInv, Carried, TasksGenuine
<1>5. \A n \in Nodes : \A i \in DOMAIN up[n] : up[n][i].kind = "msg" => up[n][i].id # k
  <2> SUFFICES ASSUME NEW n \in Nodes, NEW i \in DOMAIN up[n], up[n][i].kind = "msg" PROVE up[n][i].id # k
    OBVIOUS
  <2>1. up[n][i].id # 0 /\ Genuine(up[n][i])
    BY DEF IInv, Carried, UpGenuine
  <2>2. up[n][i].id \in DOMAIN accepted
    BY <2>1 DEF Genuine
  <2> QED BY <1>1, <2>2
<1>6. TasksOnce'
  BY <1>3, <1>4 DEF IInv, Once, TasksOnce
<1>7. UpOnce'
  BY <1>2, ZenonT(30) DEF IInv, Once, UpOnce
<1>8. TasksNotUp'
  <2> SUFFICES ASSUME NEW v \in Tasks, NEW n \in Nodes, NEW i \in DOMAIN up[n],
                      task'[v].pc = "publish", up[n][i].kind = "msg"
               PROVE  up[n][i].id # task'[v].id
    BY <1>2 DEF TasksNotUp
  <2>1. CASE v = t
    BY <1>3, <1>5, <2>1
  <2>2. CASE v # t
    BY <1>3, <2>2, ZenonT(40) DEF IInv, Once, TasksNotUp
  <2> QED BY <2>1, <2>2
<1>9. PICK n \in Nat, rank \in [Nat -> Nat] :
        RanksUpTo(rank, n) /\ TasksUnranked(rank) /\ UpUnranked(rank) /\ Pipes(rank)
  BY DEF IInv, Ordered
<1>10. RanksUpTo(rank, n)'
  BY <1>1, <1>9 DEF RanksUpTo
<1>11. TasksUnranked(rank)'
  <2>1. rank[k] = 0
    BY <1>1, <1>9 DEF RanksUpTo
  <2> QED BY <1>3, <1>9, <2>1 DEF TasksUnranked
<1>12. UpUnranked(rank)' /\ Pipes(rank)'
  <2>1. UpUnranked(rank)'
    BY <1>2, <1>9 DEF UpUnranked
  <2>2. \A i \in DOMAIN accepted : accepted'[i] = accepted[i]
    BY AcceptedGrows
  <2>3. ASSUME NEW l, NEW a, a \in OnLine(l)' PROVE a \in OnLine(l) \/ a = k
    BY <1>1, <1>2, <2>2, <2>3, ZenonT(30) DEF OnLine, LineOf, Redis
  <2>4. 0 # k
    BY <1>1, AcceptedGrows, SMT DEF k
  <2>5. \A s \in Streams : /\ \A i \in DOMAIN got[s] : got[s][i].id # k
                           /\ \A i \in DOMAIN stream[s].inbox : stream[s].inbox[i].id # k
    BY <1>1, <2>4, ZenonT(30) DEF IInv, Carried, GotGenuine, InboxGenuine, Heard, Genuine
  <2>6. \A f \in Feeds : \A i \in DOMAIN down[f] : down[f][i].id # k
    BY <1>1, <2>4, ZenonT(30) DEF IInv, Carried, DownGenuine, Travels, Genuine
  <2>7. Pipes(rank)'
    <3> SUFFICES ASSUME NEW s \in Streams, NEW f \in Feeds, f[2] = Receiver(s)
                 PROVE  Pipe(OnLine(f[1])', got[s], stream[s].inbox, down[f], rank)
      BY <1>2, SetupStays DEF Pipes
    <3> DEFINE K == OnLine(f[1])
               L == OnLine(f[1])'
    <3>1. Pipe(K, got[s], stream[s].inbox, down[f], rank)
      BY <1>9 DEF Pipes
    <3>2. \A a : a \in L => a \in K \/ a = k
      BY <2>3
    <3> HIDE DEF K, L
    <3>3. /\ \A i \in DOMAIN got[s] : got[s][i].id \in L => got[s][i].id \in K
          /\ \A i \in DOMAIN stream[s].inbox : stream[s].inbox[i].id \in L => stream[s].inbox[i].id \in K
          /\ \A i \in DOMAIN down[f] : down[f][i].id \in L => down[f][i].id \in K
      BY <2>5, <2>6, <3>2
    <3>4. Pipe(L, got[s], stream[s].inbox, down[f], rank)
      BY <3>1, <3>3, PipeWidens
    <3> QED BY <3>4 DEF L
  <2> QED BY <2>1, <2>7
<1>13. Ordered'
  BY <1>10, <1>11, <1>12 DEF Ordered
<1> QED BY <1>6, <1>7, <1>8, <1>13 DEF Once

LEMMA OnPublishKeeps ==
    ASSUME IInv, NEW t \in Tasks, NEW o \in Offers[t], OnPublish(t, o[1], o[2])
    PROVE  IInv'
<1>1. CASE o[2] \notin Updates
  BY <1>1, RefusedKeeps
<1>2. CASE o[2] \in Updates
  <2>1. o[1] \in Topics /\ o[2] \in Decodable
    BY <1>2, ClusterConstants
  <2>2. Accepts(t, o[1], o[2])
    BY <1>2, <2>1 DEF OnPublish, Accepts, YjsSlot, AutomergeSlot
  <2> QED BY <1>2, <2>1, <2>2, AcceptsShape, AcceptsDocs, AcceptsCarried, AcceptsOrder DEF IInv
<1> QED BY <1>1, <1>2

-----------------------------------------------------------------------------
(* The server forwards a message.                                          *)
LEMMA Forwarded ==
    ASSUME Shape, NEW l, NEW m \in Messages, down' = Forward(l, m)
    PROVE  /\ down' \in [Feeds -> Seq(Messages)]
           /\ \A f \in Feeds : \/ down'[f] = down[f]
                               \/ down'[f] = Append(down[f], m) /\ f[1] = l /\ Wants(f[2], m)
<1>1. down \in [Feeds -> Seq(Messages)]
  BY DEF Shape
<1>2. \A f \in Feeds : down[f] \in Seq(Messages) /\ Append(down[f], m) \in Seq(Messages)
  BY <1>1, EndOf
<1> QED BY <1>2, ZenonT(30) DEF Forward

\* A subscription on NATS is of its stream's own topic.
LEMMA WantedIsCovered ==
    ASSUME IInv, NEW f \in Feeds, NEW m, Wants(f[2], m)
    PROVE  Redis \/ Matches(Topic[f[2]], m.topic)
<1> SUFFICES ASSUME ~Redis PROVE Matches(Topic[f[2]], m.topic)
  OBVIOUS
<1>1. f[2] \in Streams
  BY DEF Feeds
<1>2. PICK c \in Topics : <<f[2], c>> \in interest /\ Covers(c, m.topic)
  BY DEF Wants
<1>3. c = Topic[f[2]]
  BY <1>1, <1>2 DEF IInv, Carried, InterestGenuine
<1> QED BY <1>2, <1>3 DEF Covers

LEMMA ForwardGenuine ==
    ASSUME IInv, NEW l, NEW m \in Messages, Genuine(m), m.id # 0 => LineOf(accepted[m.id].node) = l,
           down' = Forward(l, m), UNCHANGED <<setup, accepted, stream, got>>
    PROVE  DownGenuine' /\ InboxGenuine' /\ GotGenuine'
<1>1. DownGenuine'
  <2> SUFFICES ASSUME NEW f \in Feeds, NEW i \in DOMAIN down'[f] PROVE Travels(down[f][i], f)'
    BY SetupStays DEF DownGenuine
  <2>1. down[f] \in Seq(Messages)
    BY DEF IInv, Shape
  <2>2. \/ down'[f] = down[f]
        \/ down'[f] = Append(down[f], m) /\ f[1] = l /\ Wants(f[2], m)
    BY Forwarded DEF IInv
  <2>3. \/ i \in DOMAIN down[f] /\ down'[f][i] = down[f][i]
        \/ down'[f][i] = m /\ f[1] = l /\ Wants(f[2], m)
    <3>1. CASE down'[f] = down[f]
      BY <3>1
    <3>2. CASE down'[f] = Append(down[f], m) /\ f[1] = l /\ Wants(f[2], m)
      <4>1. \A j \in DOMAIN Append(down[f], m) :
              (j \in DOMAIN down[f] /\ Append(down[f], m)[j] = down[f][j]) \/ Append(down[f], m)[j] = m
        BY <2>1, EndOf
      <4> QED BY <3>2, <4>1
    <3> QED BY <2>2, <3>1, <3>2
  <2>4. Travels(down'[f][i], f)
    <3>1. CASE i \in DOMAIN down[f] /\ down'[f][i] = down[f][i]
      BY <3>1 DEF IInv, Carried, DownGenuine
    <3>2. CASE down'[f][i] = m /\ f[1] = l /\ Wants(f[2], m)
      BY <3>2, WantedIsCovered DEF Travels
    <3> QED BY <2>3, <3>1, <3>2
  <2> QED BY <2>4 DEF Travels, Genuine, Redis, LineOf
<1>2. InboxGenuine' /\ GotGenuine'
  BY DEF IInv, Carried, InboxGenuine, GotGenuine, Heard, Genuine, Redis, Covers
<1> QED BY <1>1, <1>2

LEMMA ForeignPublishKeeps == ASSUME IInv, NEW o \in Foreigns, ForeignPublish(o[1], o[2]) PROVE IInv'
<1> DEFINE m == Foreign(o[1], o[2])
<1>1. m \in Messages /\ m.id = 0 /\ Genuine(m)
  BY ClusterConstants DEF Foreign, Messages, Payload, Genuine
<1>2. down' = Forward(None, m) /\ UNCHANGED <<setup, docs, task, accepted, up, interest, stream, got, alien>>
  BY DEF ForeignPublish
<1> HIDE DEF m
<1>3. /\ down' \in [Feeds -> Seq(Messages)]
      /\ \A f \in Feeds : down'[f] \in {down[f], Append(down[f], m)}
  BY <1>1, <1>2, Forwarded DEF IInv
<1>4. Shape'
  BY <1>2, <1>3, SetupStays DEF IInv, Shape
<1>5. UpThins /\ TasksShrink
  BY <1>2, SameThins DEF IInv
<1>6. TasksGenuine' /\ TasksOnce' /\ UpGenuine' /\ UpOnce' /\ TasksNotUp' /\ InterestGenuine'
  BY <1>2, <1>4, <1>5, TasksKept, UpKept, InterestKept DEF IInv, Carried, Once
<1>7. DownGenuine' /\ InboxGenuine' /\ GotGenuine'
  BY <1>1, <1>2, ForwardGenuine
<1>8. PICK n \in Nat, rank \in [Nat -> Nat] :
        RanksUpTo(rank, n) /\ TasksUnranked(rank) /\ UpUnranked(rank) /\ Pipes(rank)
  BY DEF IInv, Ordered
<1>9. RanksUpTo(rank, n)' /\ TasksUnranked(rank)' /\ UpUnranked(rank)'
  BY <1>2, <1>8 DEF RanksUpTo, TasksUnranked, UpUnranked
<1>10. Pipes(rank)'
  <2> SUFFICES ASSUME NEW s \in Streams, NEW f \in Feeds, f[2] = Receiver(s)
               PROVE  Pipe(OnLine(f[1]), got[s], stream[s].inbox, down'[f], rank)
    BY <1>2, SetupStays, LinesStay DEF Pipes
  <2>1. m.id \notin OnLine(f[1])
    <3>1. 0 \notin DOMAIN accepted
      BY SMT DEF IInv, Shape
    <3> QED BY <1>1, <3>1 DEF OnLine
  <2>2. down[f] \in Seq(Messages) /\ Pipe(OnLine(f[1]), got[s], stream[s].inbox, down[f], rank)
    BY <1>8 DEF IInv, Shape, Pipes
  <2> DEFINE K == OnLine(f[1])
  <2> HIDE DEF K
  <2>3. Pipe(K, got[s], stream[s].inbox, down[f], rank) /\ m.id \notin K
    BY <2>1, <2>2 DEF K
  <2>4. Pipe(K, got[s], stream[s].inbox, Append(down[f], m), rank)
    BY <1>1, <2>2, <2>3, PipeGrows
  <2>5. down'[f] = down[f] \/ down'[f] = Append(down[f], m)
    BY <1>3
  <2> QED BY <2>3, <2>4, <2>5 DEF K
<1>11. Ordered'
  BY <1>9, <1>10 DEF Ordered
<1>12. DocsAgree'
  BY <1>2, DocsKept DEF IInv
<1> QED BY <1>4, <1>6, <1>7, <1>11, <1>12 DEF IInv, Carried, Once

\* What ServerStep takes from a connection.
LEMMA Taken ==
    ASSUME Shape, NEW n \in Nodes, up[n] # <<>>, up' = [up EXCEPT ![n] = Tail(@)]
    PROVE  /\ up' \in [Nodes -> Seq(Messages \union Subs)] /\ UpThins
           /\ Head(up[n]) \in Messages \union Subs /\ 1 \in DOMAIN up[n] /\ up[n][1] = Head(up[n])
           /\ \A k \in Nodes : \A i \in DOMAIN up'[k] :
                \E j \in DOMAIN up[k] : up'[k][i] = up[k][j] /\ (k # n \/ j # 1)
<1>1. up \in [Nodes -> Seq(Messages \union Subs)] /\ \A k \in Nodes : up[k] \in Seq(Messages \union Subs)
  BY DEF Shape
<1> DEFINE q == Tail(up[n])
<1>2. /\ Head(up[n]) \in Messages \union Subs /\ q \in Seq(Messages \union Subs)
      /\ 1 \in DOMAIN up[n] /\ up[n][1] = Head(up[n])
      /\ \A i \in DOMAIN q : i + 1 \in DOMAIN up[n] /\ 1 < i + 1 /\ q[i] = up[n][i + 1]
      /\ Thins(q, up[n])
  BY <1>1, HeadOf, ThinsTail
<1>3. up' = [up EXCEPT ![n] = q]
  OBVIOUS
<1> HIDE DEF q
<1>4. up' \in [Nodes -> Seq(Messages \union Subs)] /\ up'[n] = q /\ \A k \in Nodes : k # n => up'[k] = up[k]
  BY <1>1, <1>2, <1>3
<1>5. \A k \in Nodes : Thins(up[k], up[k])
  BY <1>1, ThinsSelf
<1>6. UpThins
  BY <1>2, <1>4, <1>5 DEF UpThins
<1>7. \A i \in DOMAIN q : \E j \in DOMAIN up[n] : q[i] = up[n][j] /\ j # 1
  BY <1>2, SMT
<1>8. \A k \in Nodes : \A i \in DOMAIN up'[k] :
        \E j \in DOMAIN up[k] : up'[k][i] = up[k][j] /\ (k # n \/ j # 1)
  BY <1>4, <1>7, SMT
<1> QED BY <1>2, <1>4, <1>6, <1>8

\* The publication the server has just handled comes last for everyone.
LEMMA ServedOrder ==
    ASSUME IInv, NEW n \in Nodes, up[n] # <<>>, up' = [up EXCEPT ![n] = Tail(@)],
           NEW m \in Messages, m = Head(up[n]), NEW l, down' = Forward(l, m),
           UNCHANGED <<setup, task, accepted, stream, got>>
    PROVE  Ordered'
<1> DEFINE a == m.id
<1>1. a \in Nat /\ m.kind = "msg"
  BY DEF Messages
<1>2. /\ 1 \in DOMAIN up[n] /\ up[n][1] = m
      /\ \A k \in Nodes : \A i \in DOMAIN up'[k] :
           \E j \in DOMAIN up[k] : up'[k][i] = up[k][j] /\ (k # n \/ j # 1)
  BY Taken, ZenonT(30) DEF IInv
<1>3. a # 0 /\ a \in DOMAIN accepted
  <2>1. m.id # 0 /\ Genuine(m)
    BY <1>1, <1>2 DEF IInv, Carried, UpGenuine
  <2> QED BY <2>1 DEF Genuine
<1>4. PICK o \in Nat, rank \in [Nat -> Nat] :
        RanksUpTo(rank, o) /\ TasksUnranked(rank) /\ UpUnranked(rank) /\ Pipes(rank)
  BY DEF IInv, Ordered
<1> DEFINE rank2 == [rank EXCEPT ![a] = o + 1]
<1> HIDE DEF a
<1>5. rank[a] = 0 /\ \A b \in Nat : rank[b] <= o
  <2>1. rank[a] = 0
    BY <1>1, <1>2, <1>4, ZenonT(30) DEF UpUnranked, a
  <2>2. ASSUME NEW b \in Nat PROVE rank[b] <= o
    BY <1>4, SMT DEF RanksUpTo
  <2> QED BY <2>1, <2>2
<1>6. /\ rank2 \in [Nat -> Nat] /\ o + 1 \in Nat
      /\ \A b \in Nat : rank2[b] = IF b = a THEN o + 1 ELSE rank[b]
  BY <1>1, SMT
<1>7. RanksUpTo(rank2, o + 1)'
  <2> SUFFICES ASSUME NEW b \in Nat, rank2[b] # 0 PROVE b \in DOMAIN accepted /\ rank2[b] <= o + 1
    BY DEF RanksUpTo
  <2>1. CASE b = a
    BY <1>3, <1>6, <2>1, SMT
  <2>2. CASE b # a
    BY <1>4, <1>5, <1>6, <2>2, SMT DEF RanksUpTo
  <2> QED BY <2>1, <2>2
<1>8. TasksUnranked(rank2)'
  <2> SUFFICES ASSUME NEW t \in Tasks, task[t].pc = "publish" PROVE rank2[task[t].id] = 0
    BY DEF TasksUnranked
  <2>1. task[t].id # a
    <3>1. TasksNotUp
      BY DEF IInv, Once
    <3>2. up[n][1].kind = "msg" => up[n][1].id # task[t].id
      BY <1>2, <3>1 DEF TasksNotUp
    <3> QED BY <1>1, <1>2, <3>2 DEF a
  <2>2. task[t].id \in Nat
    <3>1. task[t] \in {NoTask} \union [pc : {"publish"}, topic : Topics, id : Nat]
      BY DEF IInv, Shape
    <3> QED BY <3>1, SMT DEF NoTask
  <2>3. rank[task[t].id] = 0
    BY <1>4 DEF TasksUnranked
  <2> QED BY <1>6, <2>1, <2>2, <2>3
<1>9. UpUnranked(rank2)'
  <2> SUFFICES ASSUME NEW k \in Nodes, NEW i \in DOMAIN up'[k], up'[k][i].kind = "msg"
               PROVE  rank2[up'[k][i].id] = 0
    BY DEF UpUnranked
  <2>1. PICK j \in DOMAIN up[k] : up'[k][i] = up[k][j] /\ (k # n \/ j # 1)
    BY <1>2
  <2>2. up[k][j].id # a
    <3>1. UpOnce /\ up[n][1].id = a /\ up[n][1].kind = "msg" /\ up[k][j].kind = "msg"
      BY <1>1, <1>2, <2>1 DEF IInv, Once, a
    <3> QED BY <1>2, <2>1, <3>1 DEF UpOnce
  <2>3. up[k][j].id \in Nat
    <3>1. up[k] \in Seq(Messages \union Subs)
      BY DEF IInv, Shape
    <3>2. up[k][j] \in Messages \union Subs
      BY <3>1, ElementsOf
    <3>3. up[k][j] \in Messages
      BY <2>1, <3>2, MessageOrSub
    <3> QED BY <3>3 DEF Messages
  <2>4. rank[up[k][j].id] = 0
    BY <1>4, <2>1 DEF UpUnranked
  <2> QED BY <1>6, <2>1, <2>2, <2>3, <2>4
<1>10. Pipes(rank2)'
  <2> SUFFICES ASSUME NEW s \in Streams, NEW f \in Feeds, f[2] = Receiver(s)
               PROVE  Pipe(OnLine(f[1]), got[s], stream[s].inbox, down'[f], rank2)
    BY SetupStays, LinesStay DEF Pipes
  <2>2. /\ got[s] \in Seq(Yields) /\ stream[s].inbox \in Seq(Messages) /\ down[f] \in Seq(Messages)
        /\ Pipe(OnLine(f[1]), got[s], stream[s].inbox, down[f], rank)
    BY <1>4 DEF IInv, Shape, Pipes
  <2>3. /\ Pipe(OnLine(f[1]), got[s], stream[s].inbox, down[f], rank2)
        /\ Pipe(OnLine(f[1]), got[s], stream[s].inbox, Append(down[f], m), rank2)
    <3>1. RanksNext(rank, rank2, a)
      <4>1. rank2[a] = o + 1
        BY <1>1, <1>6
      <4>2. ASSUME NEW b \in Nat, rank[b] # 0 PROVE rank2[b] = rank[b] /\ rank[b] < rank2[a]
        <5> HIDE DEF rank2
        <5>1. b # a /\ rank2[b] = rank[b]
          BY <1>5, <1>6, <4>2
        <5>2. rank[b] \in Nat /\ rank[b] <= o
          BY <1>5
        <5> QED BY <4>1, <5>1, <5>2, SMT
      <4> HIDE DEF rank2
      <4> QED BY <4>1, <4>2, SMT DEF RanksNext
    <3>2. m.id = a
      BY DEF a
    <3> DEFINE K == OnLine(f[1])
    <3> HIDE DEF rank2, K
    <3>3. Pipe(K, got[s], stream[s].inbox, down[f], rank)
      BY <2>2 DEF K
    <3>4. ASSUME NEW p \in Seq(Yields), NEW q \in Seq(Messages), NEW d \in Seq(Messages), Pipe(K, p, q, d, rank)
          PROVE  Pipe(K, p, q, d, rank2) /\ Pipe(K, p, q, Append(d, m), rank2)
      BY <3>1, <3>2, <3>4, PipeServes, ZenonT(30)
    <3>5. Pipe(K, got[s], stream[s].inbox, down[f], rank2) /\ Pipe(K, got[s], stream[s].inbox, Append(down[f], m), rank2)
      BY <2>2, <3>3, <3>4
    <3> QED BY <3>5 DEF K
  <2>4. down'[f] \in {down[f], Append(down[f], m)}
    <3>1. down'[f] = down[f] \/ down'[f] = Append(down[f], m)
      BY Forwarded, ZenonT(40) DEF IInv
    <3> QED BY <3>1
  <2> QED BY <2>3, <2>4
<1> HIDE DEF rank2
<1> QED BY <1>6, <1>7, <1>8, <1>9, <1>10 DEF Ordered

LEMMA ServerStepKeeps == ASSUME IInv, NEW n \in Nodes, ServerStep(n) PROVE IInv'
<1> DEFINE m == Head(up[n])
<1>1. /\ up[n] # <<>> /\ up' = [up EXCEPT ![n] = Tail(@)]
      /\ \/ m.kind = "sub" /\ interest' = interest \union {<<m.id, m.topic>>} /\ UNCHANGED down
         \/ m.kind # "sub" /\ down' = Forward(LineOf(n), m) /\ UNCHANGED interest
      /\ UNCHANGED <<setup, docs, task, accepted, stream, got, alien>>
  BY DEF ServerStep
<1>2. /\ up' \in [Nodes -> Seq(Messages \union Subs)] /\ UpThins
      /\ m \in Messages \union Subs /\ 1 \in DOMAIN up[n] /\ up[n][1] = m
  BY <1>1, Taken DEF IInv
<1> HIDE DEF m
<1>3. TasksShrink
  BY <1>1, SameThins DEF IInv
<1>4. DocsAgree'
  BY <1>1, DocsKept DEF IInv
<1>5. CASE m.kind = "sub" /\ interest' = interest \union {<<m.id, m.topic>>} /\ UNCHANGED down
  <2>1. Shape'
    BY <1>1, <1>2, <1>5, SetupStays DEF IInv, Shape
  <2>2. PICK s \in Streams : m.id = s /\ m.topic = Topic[s]
    BY <1>2, <1>5, MessageOrSub
  <2>3. InterestGenuine'
    <3> SUFFICES ASSUME ~Redis, NEW r \in Streams, NEW c \in Topics, <<r, c>> \in interest' PROVE c = Topic[r]
      BY <1>1 DEF InterestGenuine, Redis
    <3>1. CASE <<r, c>> \in interest
      BY <3>1 DEF IInv, Carried, InterestGenuine
    <3>2. CASE <<r, c>> = <<s, Topic[s]>>
      BY <3>2
    <3> QED BY <1>5, <2>2, <3>1, <3>2
  <2>4. Carried' /\ Ordered' /\ Once'
    BY <1>1, <1>2, <1>3, <1>5, <2>1, <2>3, SameThins, LossKeeps DEF IInv
  <2> QED BY <1>4, <2>1, <2>4 DEF IInv
<1>6. CASE m.kind # "sub" /\ down' = Forward(LineOf(n), m) /\ UNCHANGED interest
  <2>1. m \in Messages /\ m.kind = "msg"
    BY <1>2, <1>6, MessageOrSub
  <2>2. down' \in [Feeds -> Seq(Messages)]
    BY <1>6, <2>1, Forwarded DEF IInv
  <2>3. Shape'
    BY <1>1, <1>2, <2>2, SetupStays, ZenonT(30) DEF IInv, Shape
  <2>4. Genuine(m) /\ accepted[m.id].node = n
    BY <1>2, <2>1 DEF IInv, Carried, UpGenuine
  <2>5. DownGenuine' /\ InboxGenuine' /\ GotGenuine'
    BY <1>1, <1>6, <2>1, <2>4, ForwardGenuine
  <2>6. TasksGenuine' /\ TasksOnce' /\ UpGenuine' /\ UpOnce' /\ TasksNotUp' /\ InterestGenuine'
    BY <1>1, <1>2, <1>3, <1>6, <2>3, TasksKept, UpKept, InterestKept DEF IInv, Carried, Once
  <2>7. Ordered'
    BY <1>1, <1>6, <2>1, ServedOrder, ZenonT(30) DEF m
  <2> QED BY <1>4, <2>3, <2>5, <2>6, <2>7 DEF IInv, Carried, Once
<1> QED BY <1>1, <1>5, <1>6

-----------------------------------------------------------------------------
(* A receiver is handed a message, and a stream is polled.                 *)
\* What a message m on a feed of the receiver r does to the stream s.
Handles(s, r, m) ==
    \/ stream'[s].inbox = stream[s].inbox
    \/ /\ Receiver(s) = r
       /\ \E q \in {stream[s].inbox, Tail(stream[s].inbox)} :
            Thins(q, stream[s].inbox) /\ q \in Seq(Messages) /\ stream'[s].inbox = Append(q, m)

LEMMA DispatchHandles ==
    ASSUME Shape, NEW f \in Feeds, Dispatch(f), Head(down[f]) \in Messages
    PROVE  /\ stream' \in [Streams -> [pc : Pcs, inbox : Seq(Messages)]]
           /\ \A s \in Streams : Handles(s, f[2], Head(down[f]))
<1> DEFINE m == Head(down[f])
           hearers == {s \in Streams : Receiver(s) = f[2] /\ stream[s].pc = "open"}
           full == {s \in hearers : Len(stream[s].inbox) = Capacity}
           Put(s) == IF s \notin full THEN Append(stream[s].inbox, m)
                     ELSE IF Redis THEN Append(Tail(stream[s].inbox), m) ELSE stream[s].inbox
<1>1. stream' = [s \in Streams |-> IF s \in hearers THEN [stream[s] EXCEPT !.inbox = Put(s)] ELSE stream[s]]
  BY DEF Dispatch
<1>2. \A s \in Streams : stream[s] \in [pc : Pcs, inbox : Seq(Messages)]
  BY DEF Shape
<1> HIDE DEF m
<1>3. ASSUME NEW s \in Streams
      PROVE  stream'[s] \in [pc : Pcs, inbox : Seq(Messages)] /\ Handles(s, f[2], m)
  <2>1. stream[s].inbox \in Seq(Messages) /\ m \in Messages
    BY <1>2 DEF m
  <2>2. CASE s \notin hearers
    <3>1. stream'[s] = stream[s]
      BY <1>1, <2>2
    <3> QED BY <1>2, <3>1 DEF Handles
  <2>3. CASE s \in hearers
    <3>1. Receiver(s) = f[2] /\ stream'[s] = [stream[s] EXCEPT !.inbox = Put(s)]
      BY <1>1, <2>3
    <3>2. CASE s \notin full
      <4>1. stream'[s] = [stream[s] EXCEPT !.inbox = Append(stream[s].inbox, m)]
        BY <3>1, <3>2
      <4>2. Append(stream[s].inbox, m) \in Seq(Messages) /\ Thins(stream[s].inbox, stream[s].inbox)
        BY <2>1, EndOf, ThinsSelf
      <4>3. stream'[s] \in [pc : Pcs, inbox : Seq(Messages)] /\ stream'[s].inbox = Append(stream[s].inbox, m)
        BY <1>2, <4>1, <4>2
      <4> QED BY <2>1, <3>1, <4>2, <4>3 DEF Handles
    <3>3. CASE s \in full /\ Redis
      <4>1. stream'[s] = [stream[s] EXCEPT !.inbox = Append(Tail(stream[s].inbox), m)]
        BY <3>1, <3>3
      <4>2. stream[s].inbox # <<>>
        BY <2>1, <3>3, ClusterConstants
      <4>3. Tail(stream[s].inbox) \in Seq(Messages) /\ Thins(Tail(stream[s].inbox), stream[s].inbox)
        BY <2>1, <4>2, ThinsTail
      <4>4. Append(Tail(stream[s].inbox), m) \in Seq(Messages)
        BY <2>1, <4>3, EndOf
      <4>5. stream'[s] \in [pc : Pcs, inbox : Seq(Messages)] /\ stream'[s].inbox = Append(Tail(stream[s].inbox), m)
        BY <1>2, <4>1, <4>4
      <4> QED BY <3>1, <4>3, <4>5 DEF Handles
    <3>4. CASE s \in full /\ ~Redis
      <4>1. stream'[s] = [stream[s] EXCEPT !.inbox = stream[s].inbox]
        BY <3>1, <3>4
      <4>2. stream'[s] \in [pc : Pcs, inbox : Seq(Messages)] /\ stream'[s].inbox = stream[s].inbox
        BY <1>2, <4>1
      <4> QED BY <4>2 DEF Handles
    <3> QED BY <3>2, <3>3, <3>4
  <2> QED BY <2>2, <2>3
<1>4. stream' \in [Streams -> [pc : Pcs, inbox : Seq(Messages)]]
  BY <1>1, <1>3
<1> QED BY <1>3, <1>4 DEF m

LEMMA DispatchPipes ==
    ASSUME IInv, NEW f \in Feeds, down[f] # <<>>, down' = [down EXCEPT ![f] = Tail(@)],
           UNCHANGED <<setup, accepted, got>>,
           \A s \in Streams : Handles(s, f[2], Head(down[f])), NEW rank, Pipes(rank)
    PROVE  Pipes(rank)'
<1> SUFFICES ASSUME NEW s \in Streams, NEW g \in Feeds, g[2] = Receiver(s)
             PROVE  Pipe(OnLine(g[1]), got[s], stream'[s].inbox, down'[g], rank)
  BY SetupStays, LinesStay DEF Pipes
<1> DEFINE q == stream[s].inbox
           d == down[g]
           m == Head(down[f])
           K == OnLine(g[1])
<1>2. /\ q \in Seq(Messages) /\ d \in Seq(Messages) /\ down[f] \in Seq(Messages)
      /\ Pipe(K, got[s], q, d, rank)
  BY DEF IInv, Shape, Pipes
<1>3. (g # f => down'[g] = d) /\ (g = f => down'[g] = Tail(d))
  BY DEF IInv, Shape
<1>4. Thins(q, q) /\ Thins(d, d) /\ (d # <<>> => Thins(Tail(d), d))
  BY <1>2, ThinsSelf, ThinsTail
<1>5. m \in Messages /\ 1 \in DOMAIN down[f] /\ down[f][1] = m
  BY <1>2, HeadOf
<1>6. g # f /\ f[2] = Receiver(s) => m.id \notin K
  <2> SUFFICES ASSUME g # f, f[2] = Receiver(s), m.id \in K PROVE FALSE
    OBVIOUS
  <2>1. f[1] # g[1]
    <3>1. f = <<f[1], f[2]>> /\ g = <<g[1], g[2]>>
      BY FeedIs
    <3> QED BY <3>1
  <2>2. m.id # 0
    <3>1. 0 \notin DOMAIN accepted
      BY SMT DEF IInv, Shape
    <3> QED BY <3>1 DEF OnLine
  <2>3. LineOf(accepted[m.id].node) = f[1]
    <3>1. Travels(m, f)
      BY <1>5 DEF IInv, Carried, DownGenuine
    <3> QED BY <2>2, <3>1 DEF Travels
  <2> QED BY <2>1, <2>3 DEF OnLine
<1> HIDE DEF q, d, m, K
<1>7. CASE stream'[s].inbox = stream[s].inbox
  <2>1. Thins(down'[g], d)
    <3>1. g = f => d # <<>>
      BY DEF d
    <3> QED BY <1>3, <1>4, <3>1
  <2> QED BY <1>2, <1>4, <1>7, <2>1, PipeThins, ZenonT(30) DEF q, K
<1>8. ASSUME NEW p \in {q, Tail(q)}, Receiver(s) = f[2], Thins(p, q), p \in Seq(Messages),
             stream'[s].inbox = Append(p, m)
      PROVE  Pipe(K, got[s], stream'[s].inbox, down'[g], rank)
  <2>1. Pipe(K, got[s], p, d, rank)
    BY <1>2, <1>4, <1>8, PipeThins
  <2>2. CASE g = f
    <3>1. d # <<>> /\ m = Head(d)
      BY <2>2 DEF d, m
    <3>2. Pipe(K, got[s], Append(p, Head(d)), Tail(d), rank)
      BY <1>2, <1>8, <2>1, <3>1, PipeDispatches, ZenonT(30)
    <3> QED BY <1>3, <1>8, <2>2, <3>1, <3>2, ZenonT(30)
  <2>3. CASE g # f
    <3>1. m.id \notin K
      BY <1>6, <1>8, <2>3
    <3>2. Pipe(K, got[s], Append(p, m), d, rank)
      BY <1>5, <1>8, <2>1, <3>1, PipeMixes, ZenonT(30)
    <3> QED BY <1>3, <1>8, <2>3, <3>2
  <2> QED BY <2>2, <2>3
<1> QED BY <1>7, <1>8, ZenonT(30) DEF Handles, q, m, K

LEMMA DispatchKeeps == ASSUME IInv, NEW f \in Feeds, Dispatch(f) PROVE IInv'
<1> DEFINE m == Head(down[f])
<1>1. /\ down[f] # <<>> /\ down' = [down EXCEPT ![f] = Tail(@)]
      /\ UNCHANGED <<setup, docs, task, accepted, up, interest, got, alien>>
  BY DEF Dispatch
<1>2. down[f] \in Seq(Messages)
  BY DEF IInv, Shape
<1>3. /\ m \in Messages /\ 1 \in DOMAIN down[f] /\ down[f][1] = m
      /\ Tail(down[f]) \in Seq(Messages) /\ Thins(Tail(down[f]), down[f])
  BY <1>1, <1>2, HeadOf, ThinsTail
<1>4. /\ stream' \in [Streams -> [pc : Pcs, inbox : Seq(Messages)]]
      /\ \A s \in Streams : Handles(s, f[2], m)
  BY <1>3, DispatchHandles DEF IInv
<1>5. Travels(m, f)
  BY <1>3 DEF IInv, Carried, DownGenuine
<1>6. Shape'
  <2>1. down' \in [Feeds -> Seq(Messages)]
    BY <1>1, <1>3 DEF IInv, Shape
  <2> QED BY <1>1, <1>4, <2>1, SetupStays DEF IInv, Shape
<1>7. DownThins
  <2> SUFFICES ASSUME NEW g \in Feeds PROVE Thins(down'[g], down[g])
    BY DEF DownThins
  <2>1. down[g] \in Seq(Messages) /\ down'[g] = IF g = f THEN Tail(down[g]) ELSE down[g]
    BY <1>1 DEF IInv, Shape
  <2> QED BY <1>3, <2>1, ThinsSelf
<1> HIDE DEF m
<1>8. InboxGenuine'
  <2> SUFFICES ASSUME NEW s \in Streams, NEW i \in DOMAIN stream'[s].inbox
               PROVE  Heard(stream[s].inbox[i], s)'
    BY DEF InboxGenuine
  <2>1. \/ \E j \in DOMAIN stream[s].inbox : stream'[s].inbox[i] = stream[s].inbox[j]
        \/ Receiver(s) = f[2] /\ stream'[s].inbox[i] = m
    <3>1. CASE stream'[s].inbox = stream[s].inbox
      BY <3>1
    <3>2. ASSUME NEW q, Receiver(s) = f[2], Thins(q, stream[s].inbox), q \in Seq(Messages), stream'[s].inbox = Append(q, m)
          PROVE  \/ \E j \in DOMAIN stream[s].inbox : stream'[s].inbox[i] = stream[s].inbox[j]
                 \/ Receiver(s) = f[2] /\ stream'[s].inbox[i] = m
      <4>1. (i \in DOMAIN q /\ stream'[s].inbox[i] = q[i]) \/ stream'[s].inbox[i] = m
        <5>1. m \in Messages
          BY <1>3
        <5>2. \A a \in DOMAIN Append(q, m) : (a \in DOMAIN q /\ Append(q, m)[a] = q[a]) \/ Append(q, m)[a] = m
          BY <3>2, <5>1, EndOf, ZenonT(40)
        <5> QED BY <3>2, <5>2
      <4>2. \A k \in DOMAIN q : \E j \in DOMAIN stream[s].inbox : q[k] = stream[s].inbox[j]
        BY <3>2 DEF Thins
      <4> QED BY <3>2, <4>1, <4>2
    <3> QED BY <1>4, <3>1, <3>2 DEF Handles
  <2>2. CASE \E j \in DOMAIN stream[s].inbox : stream'[s].inbox[i] = stream[s].inbox[j]
    BY <1>1, <2>2, ZenonT(30) DEF IInv, Carried, InboxGenuine, Heard, Genuine, Redis
  <2>3. CASE Receiver(s) = f[2] /\ stream'[s].inbox[i] = m
    <3>1. Redis \/ Matches(Topic[s], m.topic)
      BY <1>5, <2>3 DEF Travels, Receiver
    <3>2. Genuine(m)
      BY <1>5 DEF Travels
    <3> QED BY <1>1, <2>3, <3>1, <3>2 DEF Heard, Genuine, Redis
  <2> QED BY <2>1, <2>2, <2>3, ZenonT(30)
<1>9. DownGenuine' /\ GotGenuine'
  <2>1. DownGenuine'
    <3> SUFFICES ASSUME NEW g \in Feeds, NEW i \in DOMAIN down'[g] PROVE Travels(down[g][i], g)'
      BY <1>1, SetupStays DEF DownGenuine
    <3>1. PICK j \in DOMAIN down[g] : down'[g][i] = down[g][j]
      <4>1. Thins(down'[g], down[g])
        BY <1>7 DEF DownThins
      <4> QED BY <4>1 DEF Thins
    <3>2. Travels(down[g][j], g)
      BY DEF IInv, Carried, DownGenuine
    <3> QED BY <1>1, <3>1, <3>2 DEF Travels, Genuine, Redis, LineOf
  <2> QED BY <1>1, <2>1 DEF IInv, Carried, GotGenuine, Covers, Redis
<1>10. UpThins /\ TasksShrink
  BY <1>1, SameThins DEF IInv
<1>11. TasksGenuine' /\ TasksOnce' /\ UpGenuine' /\ UpOnce' /\ TasksNotUp' /\ InterestGenuine'
  BY <1>1, <1>6, <1>10, TasksKept, UpKept, InterestKept DEF IInv, Carried, Once
<1>12. PICK o \in Nat, rank \in [Nat -> Nat] :
        RanksUpTo(rank, o) /\ TasksUnranked(rank) /\ UpUnranked(rank) /\ Pipes(rank)
  BY DEF IInv, Ordered
<1>13. RanksUpTo(rank, o)' /\ TasksUnranked(rank)' /\ UpUnranked(rank)'
  BY <1>1, <1>12 DEF RanksUpTo, TasksUnranked, UpUnranked
<1>14. Pipes(rank)'
  BY <1>1, <1>4, <1>12, DispatchPipes DEF m
<1>15. Ordered'
  BY <1>13, <1>14 DEF Ordered
<1>16. DocsAgree'
  BY <1>1, DocsKept DEF IInv
<1> QED BY <1>6, <1>8, <1>9, <1>11, <1>15, <1>16 DEF IInv, Carried, Once

\* The stream of s takes its next message and yields it, decoded.
Takes(s) == stream[s].inbox # <<>> /\ stream' = [stream EXCEPT ![s].inbox = Tail(@)]

LEMMA TakesThins ==
    ASSUME Shape, NEW s \in Streams, Takes(s)
    PROVE  /\ stream' \in [Streams -> [pc : Pcs, inbox : Seq(Messages)]] /\ InboxThins
           /\ stream'[s].inbox = Tail(stream[s].inbox)
           /\ \A r \in Streams : r # s => stream'[r].inbox = stream[r].inbox
           /\ Head(stream[s].inbox) \in Messages
           /\ 1 \in DOMAIN stream[s].inbox /\ stream[s].inbox[1] = Head(stream[s].inbox)
<1> DEFINE q == Tail(stream[s].inbox)
<1>1. \A r \in Streams : stream[r].inbox \in Seq(Messages)
  BY DEF Shape
<1>2. /\ q \in Seq(Messages) /\ Thins(q, stream[s].inbox) /\ Head(stream[s].inbox) \in Messages
      /\ 1 \in DOMAIN stream[s].inbox /\ stream[s].inbox[1] = Head(stream[s].inbox)
  BY <1>1, HeadOf, ThinsTail DEF Takes
<1>3. stream' = [stream EXCEPT ![s].inbox = q] /\ stream \in [Streams -> [pc : Pcs, inbox : Seq(Messages)]]
  BY DEF Takes, Shape
<1> HIDE DEF q
<1>4. stream' \in [Streams -> [pc : Pcs, inbox : Seq(Messages)]]
  BY <1>2, <1>3
<1>5. stream'[s].inbox = q /\ \A r \in Streams : r # s => stream'[r].inbox = stream[r].inbox
  BY <1>3
<1>6. \A r \in Streams : Thins(stream[r].inbox, stream[r].inbox)
  BY <1>1, ThinsSelf
<1>7. InboxThins
  BY <1>2, <1>5, <1>6 DEF InboxThins
<1> QED BY <1>2, <1>4, <1>5, <1>7 DEF q

\* What the stream of s yields next.
Decoded(s) == [id |-> Head(stream[s].inbox).id,
               publication |-> decode_publication(Head(stream[s].inbox).bytes)]

LEMMA YieldCases ==
    ASSUME IInv, NEW s \in Streams, Yield(s)
    PROVE  /\ Takes(s) /\ UNCHANGED <<setup, docs, task, accepted, up, interest, down, faults>>
           /\ \/ UNCHANGED <<got, alien>>
              \/ /\ Head(stream[s].inbox).id = 0 /\ Head(stream[s].inbox).bytes # Garbage
                 /\ alien' = [alien EXCEPT ![s] = @ \union {decode_publication(Head(stream[s].inbox).bytes)}]
                 /\ UNCHANGED got
              \/ /\ Head(stream[s].inbox).id # 0 /\ (Redis => Head(stream[s].inbox).topic = Topic[s])
                 /\ got' = [got EXCEPT ![s] = Append(@, Decoded(s))]
                 /\ UNCHANGED alien
BY DEF Yield, Hand, RedisKeeps, NatsKeeps, Decodes, Takes, Decoded

LEMMA DecodedIs ==
    ASSUME IInv, NEW s \in Streams, Takes(s), Head(stream[s].inbox).id # 0,
           Redis => Head(stream[s].inbox).topic = Topic[s]
    PROVE  /\ Decoded(s) \in Yields /\ Decoded(s).id = Head(stream[s].inbox).id
           /\ Decoded(s).id \in DOMAIN accepted
           /\ Decoded(s).publication = accepted[Decoded(s).id].publication
           /\ Covers(Topic[s], Decoded(s).publication.channel)
<1> DEFINE m == Head(stream[s].inbox)
<1>1. m \in Messages /\ 1 \in DOMAIN stream[s].inbox /\ stream[s].inbox[1] = m
  BY TakesThins DEF IInv
<1>2. Genuine(m) /\ (Redis \/ Matches(Topic[s], m.topic))
  BY <1>1 DEF IInv, Carried, InboxGenuine, Heard
<1>3. m.id \in Nat /\ m.bytes \in Payload
  BY <1>1 DEF Messages
<1>4. Decoded(s) = [id |-> m.id, publication |-> decode_publication(m.bytes)]
  BY DEF Decoded
<1>5. m.id \in DOMAIN accepted /\ m.topic = accepted[m.id].publication.channel
      /\ m.bytes = encode_publication(accepted[m.id].publication)
  BY <1>2 DEF Genuine
<1> HIDE DEF m
<1>6. accepted[m.id].publication \in Publication
  <2>1. accepted \in Seq([node : Nodes, publication : Publication])
    BY DEF IInv, Shape
  <2>2. accepted[m.id] \in [node : Nodes, publication : Publication]
    BY <1>5, <2>1, ElementsOf
  <2> QED BY <2>2
<1>7. decode_publication(m.bytes) = accepted[m.id].publication
  BY <1>5, <1>6, PublicationRoundTrip
<1>8. Covers(Topic[s], m.topic)
  BY <1>2 DEF m, Covers
<1>9. Decoded(s) \in Yields
  BY <1>3, <1>4, SMT DEF Yields
<1>10. Decoded(s).id = m.id /\ Decoded(s).publication = accepted[m.id].publication
  BY <1>4, <1>7, SMT
<1> QED BY <1>5, <1>8, <1>9, <1>10 DEF m

LEMMA YieldKeeps == ASSUME IInv, NEW s \in Streams, Yield(s) PROVE IInv'
<1>1. Takes(s) /\ UNCHANGED <<setup, docs, task, accepted, up, interest, down>>
  BY YieldCases
<1>2. /\ stream' \in [Streams -> [pc : Pcs, inbox : Seq(Messages)]] /\ InboxThins
      /\ stream'[s].inbox = Tail(stream[s].inbox)
      /\ \A r \in Streams : r # s => stream'[r].inbox = stream[r].inbox
  BY <1>1, TakesThins DEF IInv
<1>3. UpThins /\ DownThins /\ TasksShrink
  BY <1>1, SameThins DEF IInv
<1>4. DocsAgree' /\ InterestGenuine'
  BY <1>1, DocsKept, InterestKept DEF IInv, Carried
<1>5. ASSUME alien' \in [Streams -> SUBSET Aliens], UNCHANGED got PROVE IInv'
  <2>1. Shape'
    BY <1>1, <1>2, <1>5, SetupStays DEF IInv, Shape
  <2> QED BY <1>1, <1>2, <1>3, <1>4, <1>5, <2>1, LossKeeps DEF IInv
<1>7. ASSUME Head(stream[s].inbox).id = 0, Head(stream[s].inbox).bytes # Garbage,
             alien' = [alien EXCEPT ![s] = @ \union {decode_publication(Head(stream[s].inbox).bytes)}]
      PROVE  alien' \in [Streams -> SUBSET Aliens]
  <2> DEFINE m == Head(stream[s].inbox)
             p == decode_publication(m.bytes)
  <2>1. 1 \in DOMAIN stream[s].inbox /\ stream[s].inbox[1] = m
    BY <1>1, TakesThins DEF IInv
  <2>2. Genuine(m)
    BY <2>1 DEF IInv, Carried, InboxGenuine, Heard
  <2>3. 0 \notin DOMAIN accepted
    BY SMT DEF IInv, Shape
  <2>4. PICK o \in Foreigns : o[2] = m.bytes
    BY <1>7, <2>2, <2>3 DEF Genuine
  <2>5. p \in Aliens
    BY <1>7, <2>4 DEF Aliens
  <2>6. alien \in [Streams -> SUBSET Aliens] /\ alien' = [alien EXCEPT ![s] = @ \union {p}]
    BY <1>7 DEF IInv, Shape
  <2> HIDE DEF p
  <2> QED BY <2>5, <2>6
<1>6. ASSUME Head(stream[s].inbox).id # 0, Redis => Head(stream[s].inbox).topic = Topic[s],
             got' = [got EXCEPT ![s] = Append(@, Decoded(s))], UNCHANGED alien
      PROVE  IInv'
  <2> DEFINE e == Decoded(s)
  <2>1. /\ e \in Yields /\ e.id = Head(stream[s].inbox).id /\ e.id \in DOMAIN accepted
        /\ e.publication = accepted[e.id].publication /\ Covers(Topic[s], e.publication.channel)
    BY <1>1, <1>6, DecodedIs
  <2> HIDE DEF e
  <2>2. \A r \in Streams : got[r] \in Seq(Yields)
    BY DEF IInv, Shape
  <2>3. /\ Append(got[s], e) \in Seq(Yields)
        /\ \A i \in DOMAIN Append(got[s], e) :
             (i \in DOMAIN got[s] /\ Append(got[s], e)[i] = got[s][i]) \/ Append(got[s], e)[i] = e
    BY <2>1, <2>2, EndOf, SMT
  <2>4. got' = [got EXCEPT ![s] = Append(got[s], e)] /\ got \in [Streams -> Seq(Yields)]
    BY <1>6 DEF IInv, Shape, e
  <2>5. got' \in [Streams -> Seq(Yields)]
    BY <2>3, <2>4
  <2>6. got'[s] = Append(got[s], e) /\ \A r \in Streams : r # s => got'[r] = got[r]
    BY <2>4
  <2>7. Shape'
    BY <1>1, <1>2, <1>6, <2>5, SetupStays DEF IInv, Shape
  <2>8. TasksGenuine' /\ TasksOnce' /\ UpGenuine' /\ UpOnce' /\ TasksNotUp'
    BY <1>1, <1>3, <2>7, TasksKept, UpKept DEF IInv, Carried, Once
  <2>9. DownGenuine'
    <3> SUFFICES ASSUME NEW f \in Feeds, NEW i \in DOMAIN down[f] PROVE Travels(down[f][i], f)'
      BY <1>1, SetupStays DEF DownGenuine
    <3>1. Travels(down[f][i], f)
      BY DEF IInv, Carried, DownGenuine
    <3> QED BY <1>1, <3>1 DEF Travels, Genuine, Redis, LineOf
  <2>10. InboxGenuine'
    <3> SUFFICES ASSUME NEW r \in Streams, NEW i \in DOMAIN stream'[r].inbox
                 PROVE  Heard(stream[r].inbox[i], r)'
      BY DEF InboxGenuine
    <3>1. PICK j \in DOMAIN stream[r].inbox : stream'[r].inbox[i] = stream[r].inbox[j]
      BY <1>2 DEF InboxThins, Thins
    <3>2. Heard(stream[r].inbox[j], r)
      BY DEF IInv, Carried, InboxGenuine
    <3> QED BY <1>1, <3>1, <3>2 DEF Heard, Genuine, Redis
  <2>11. GotGenuine'
    <3> SUFFICES ASSUME NEW r \in Streams, NEW i \in DOMAIN got'[r]
                 PROVE  /\ got'[r][i].id \in DOMAIN accepted
                        /\ got'[r][i].publication = accepted[got'[r][i].id].publication
                        /\ Covers(Topic[r], got'[r][i].publication.channel)
      BY <1>1 DEF GotGenuine, Covers, Redis
    <3>1. (i \in DOMAIN got[r] /\ got'[r][i] = got[r][i]) \/ (r = s /\ got'[r][i] = e)
      <4>1. CASE r = s
        BY <2>3, <2>6, <4>1
      <4>2. CASE r # s
        BY <2>6, <4>2
      <4> QED BY <4>1, <4>2
    <3> QED BY <2>1, <3>1, ZenonT(30) DEF IInv, Carried, GotGenuine
  <2>12. PICK o \in Nat, rank \in [Nat -> Nat] :
           RanksUpTo(rank, o) /\ TasksUnranked(rank) /\ UpUnranked(rank) /\ Pipes(rank)
    BY DEF IInv, Ordered
  <2>13. RanksUpTo(rank, o)' /\ TasksUnranked(rank)' /\ UpUnranked(rank)'
    BY <1>1, <2>12 DEF RanksUpTo, TasksUnranked, UpUnranked
  <2>14. Pipes(rank)'
    <3> SUFFICES ASSUME NEW r \in Streams, NEW f \in Feeds, f[2] = Receiver(r)
                 PROVE  Pipe(OnLine(f[1]), got'[r], stream'[r].inbox, down[f], rank)
      BY <1>1, SetupStays, LinesStay DEF Pipes
    <3>1. Pipe(OnLine(f[1]), got[r], stream[r].inbox, down[f], rank)
      BY <2>12 DEF Pipes
    <3>2. CASE r # s
      BY <1>2, <2>6, <3>1, <3>2
    <3>3. CASE r = s
      <4>1. stream[s].inbox \in Seq(Messages) /\ stream[s].inbox # <<>> /\ down[f] \in Seq(Messages)
        BY <1>1 DEF IInv, Shape, Takes
      <4>2. Pipe(OnLine(f[1]), Append(got[s], e), Tail(stream[s].inbox), down[f], rank)
        BY <2>1, <2>2, <3>1, <3>3, <4>1, PipeYields
      <4> QED BY <1>2, <2>6, <3>3, <4>2
    <3> QED BY <3>2, <3>3, ZenonT(30)
  <2>15. Ordered'
    BY <2>13, <2>14 DEF Ordered
  <2> QED BY <1>4, <2>7, <2>8, <2>9, <2>10, <2>11, <2>15 DEF IInv, Carried, Once
<1>8. alien \in [Streams -> SUBSET Aliens]
  BY DEF IInv, Shape
<1> QED BY <1>5, <1>6, <1>7, <1>8, YieldCases

-----------------------------------------------------------------------------
LEMMA InitIInv == Init => IInv
<1> SUFFICES ASSUME Init PROVE IInv
  OBVIOUS
<1>1. /\ docs = [n \in Nodes |-> [c \in Topics |-> NoSlot]]
      /\ task = [t \in Tasks |-> NoTask] /\ accepted = <<>>
      /\ up = [n \in Nodes |-> <<>>] /\ down = [f \in Feeds |-> <<>>] /\ interest = {}
      /\ stream = [s \in Streams |-> Closed] /\ got = [s \in Streams |-> <<>>]
      /\ alien = [s \in Streams |-> {}]
  BY DEF Init
<1>2. /\ DOMAIN accepted = {}
      /\ \A n \in Nodes : DOMAIN up[n] = {}
      /\ \A f \in Feeds : DOMAIN down[f] = {}
      /\ \A s \in Streams : DOMAIN stream[s].inbox = {} /\ DOMAIN got[s] = {} /\ Home[s] \in Nodes
      /\ \A t \in Tasks : task[t].pc = "idle"
  <2>1. DOMAIN <<>> = {}
    BY SMT
  <2>2. \A s \in Streams : DOMAIN stream[s].inbox = {}
    <3>1. Closed.inbox = <<>>
      BY DEF Closed
    <3> QED BY <1>1, <2>1, <3>1
  <2>3. \A t \in Tasks : task[t].pc = "idle"
    <3>1. NoTask.pc = "idle"
      BY DEF NoTask
    <3> QED BY <1>1, <3>1
  <2> QED BY <1>1, <2>1, <2>2, <2>3, ClusterConstants
<1>3. Shape
  <2>1. docs \in [Nodes -> [Topics -> Slots]]
    BY <1>1 DEF NoSlot, Slots
  <2>2. up \in [Nodes -> Seq(Messages \union Subs)] /\ down \in [Feeds -> Seq(Messages)]
    BY <1>1, SMT
  <2>3. stream \in [Streams -> [pc : Pcs, inbox : Seq(Messages)]]
    <3>1. Closed \in [pc : Pcs, inbox : Seq(Messages)]
      <4>1. <<>> \in Seq(Messages) /\ "closed" \in Pcs
        BY SMT DEF Pcs
      <4> QED BY <4>1 DEF Closed
    <3> QED BY <1>1, <3>1
  <2>4. got \in [Streams -> Seq(Yields)] /\ accepted \in Seq([node : Nodes, publication : Publication])
    BY <1>1, SMT
  <2>5. task \in [Tasks -> {NoTask} \union [pc : {"publish"}, topic : Topics, id : Nat]]
    BY <1>1
  <2>6. Len(accepted) <= MaxAccepted
    BY <1>1, ClusterConstants, SMT
  <2>7. alien \in [Streams -> SUBSET Aliens]
    BY <1>1
  <2> QED BY <2>1, <2>2, <2>3, <2>4, <2>5, <2>6, <2>7 DEF Shape
<1>4. DocsAgree
  BY <1>1, <1>2 DEF DocsAgree, DocAgrees, AcceptedAt
<1>5. Carried
  BY <1>1, <1>2 DEF Carried, TasksGenuine, UpGenuine, InterestGenuine, DownGenuine, InboxGenuine, GotGenuine
<1>6. Once
  BY <1>2 DEF Once, TasksOnce, UpOnce, TasksNotUp
<1>7. Ordered
  <2> DEFINE rank == [a \in Nat |-> 0]
  <2>1. rank \in [Nat -> Nat] /\ \A a \in Nat : rank[a] = 0
    OBVIOUS
  <2> HIDE DEF rank
  <2>2. RanksUpTo(rank, 0)
    BY <2>1 DEF RanksUpTo
  <2>3. TasksUnranked(rank) /\ UpUnranked(rank)
    BY <1>2 DEF TasksUnranked, UpUnranked
  <2>4. Pipes(rank)
    <3> SUFFICES ASSUME NEW s \in Streams, NEW f \in Feeds
                 PROVE  Pipe(OnLine(f[1]), got[s], stream[s].inbox, down[f], rank)
      BY DEF Pipes
    <3>1. DOMAIN got[s] = {} /\ DOMAIN stream[s].inbox = {} /\ DOMAIN down[f] = {}
      BY <1>2
    <3> QED BY <3>1 DEF Pipe, Ranked, Rising, Follows
  <2> QED BY <2>1, <2>2, <2>3, <2>4 DEF Ordered
<1> QED BY <1>3, <1>4, <1>5, <1>6, <1>7 DEF IInv

LEMMA NextIInv == IInv /\ [Next]_vars => IInv'
<1> SUFFICES ASSUME IInv, [Next]_vars PROVE IInv'
  OBVIOUS
<1>1. CASE UNCHANGED vars \/ Drained
  BY <1>1, StutterKeeps DEF Drained
<1>2. ASSUME NEW t \in Tasks, RedisPublish(t) \/ NatsPublish(t) PROVE IInv'
  BY <1>2, PublishKeeps
<1>3. ASSUME NEW t \in Tasks, NEW o \in Offers[t], OnPublish(t, o[1], o[2]) PROVE IInv'
  BY <1>3, OnPublishKeeps
<1>4. ASSUME NEW n \in Nodes, ServerStep(n) \/ ConnectionLost(n) PROVE IInv'
  BY <1>4, ServerStepKeeps, ConnectionLostKeeps
<1>8. ASSUME NEW f \in Feeds, Dispatch(f) PROVE IInv'
  BY <1>8, DispatchKeeps
<1>5. ASSUME NEW s \in Streams, OnSubscribe(s) \/ RedisSubscribe(s) \/ NatsSubscribe(s) \/ MessageRx(s) PROVE IInv'
  BY <1>5, OnSubscribeKeeps, OpenKeeps, NatsSubscribeKeeps
<1>6. ASSUME NEW s \in Streams, Yield(s) \/ DropStream(s) PROVE IInv'
  BY <1>6, YieldKeeps, DropStreamKeeps
<1>7. ASSUME NEW o \in Foreigns, ForeignPublish(o[1], o[2]) PROVE IInv'
  BY <1>7, ForeignPublishKeeps
<1> QED BY <1>1, <1>2, <1>3, <1>4, <1>5, <1>6, <1>7, <1>8, ZenonT(30) DEF Next, Receive

(* The inductive invariant holds throughout, for either broker, any number *)
(* of nodes and any number of broken connections: in particular no         *)
(* publication is ever twice on its way to the server, every message a     *)
(* NATS subscription receives is on a topic its subject matches, and what  *)
(* came along one line (all of Redis, one node of NATS) rises through      *)
(* every stream of every node in one order (redis lib.rs and nats lib.rs   *)
(* publish and subscribe).                                                 *)
THEOREM ClusterInvariant == Spec => []IInv
BY InitIInv, NextIInv, PTL DEF Spec

(* Every publication a stream of RedisBroker or NatsBroker yields is,      *)
(* field by field, one that a node accepted on the topic of that stream    *)
(* (Redis) or on one that the topic, as a subject, matches (NATS), after   *)
(* its way through protobuf bytes, the subscriber client all topics share  *)
(* and the stream's filter_map; anything else it yields is what bytes of   *)
(* another client of the server decode to.                                 *)
THEOREM YieldTheorem == Spec => []StreamsYieldWhatWasSent
<1>1. IInv => StreamsYieldWhatWasSent
  BY DEF IInv, Shape, Aliens, Carried, GotGenuine, StreamsYieldWhatWasSent
<1> QED BY <1>1, ClusterInvariant, PTL

(* The snapshot of YjsChannel and of AutomergeChannel is the merge of the  *)
(* updates their on_publish accepted, and next_offset counts them from 0   *)
(* without a gap, whatever was refused or subscribed in between.           *)
THEOREM DocTheorem == Spec => []DocIsWhatWasAccepted
<1>1. ASSUME IInv PROVE DocIsWhatWasAccepted
  <2> SUFFICES ASSUME NEW n \in Nodes, NEW c \in Topics
               PROVE  LET here == AcceptedAt(n, c)
                      IN  /\ \/ snapshot(n, c) = {accepted[i].publication.data : i \in here}
                             \/ snapshot(n, c) = None /\ here = {}
                          /\ docs[n][c].next_offset = Cardinality(here)
                          /\ \A i \in here : accepted[i].publication.offset = Cardinality({j \in here : j < i})
    BY DEF DocIsWhatWasAccepted
  <2> DEFINE here == AcceptedAt(n, c)
  <2>1. DocAgrees(n, c)
    BY <1>1 DEF IInv, DocsAgree
  <2>2. Cardinality(here) = 0 <=> here = {}
    BY <1>1, HereFinite DEF IInv
  <2>3. docs[n][c].next_offset = Cardinality(here)
    BY <2>1, <2>2, SMT DEF DocAgrees, NoSlot
  <2>4. snapshot(n, c) = Data(here) \/ (snapshot(n, c) = None /\ here = {})
    <3>1. CASE docs[n][c] = NoSlot
      BY <2>2, <2>3, <3>1, SMT DEF NoSlot, snapshot
    <3>2. CASE docs[n][c] # NoSlot
      <4>1. docs[n][c].applied = Data(here)
        BY <2>1, <3>2, SMT DEF DocAgrees
      <4> QED BY <3>2, <4>1 DEF snapshot
    <3> QED BY <3>1, <3>2
  <2> QED BY <2>1, <2>3, <2>4 DEF DocAgrees, Data
<1> QED BY <1>1, ClusterInvariant, PTL

-----------------------------------------------------------------------------
(* The contract of the Broker trait, under the mapping of Cluster.         *)
Published == {Known(id) : id \in DOMAIN accepted}
Yielding == [s \in Streams |-> [i \in DOMAIN got[s] |-> Known(got[s][i].id)]]

LEMMA YieldingIs ==
    ASSUME Shape, NEW s \in Streams
    PROVE  DOMAIN Yielding[s] = DOMAIN got[s] /\ \A i \in DOMAIN got[s] : Yielding[s][i] = Known(got[s][i].id)
BY DEF Yielding

LEMMA KnownIs ==
    ASSUME Shape, NEW a \in DOMAIN accepted
    PROVE  /\ Known(a) \in Lines \X Ids /\ Known(a) = <<LineOf(accepted[a].node), a>>
           /\ Known(a)[1] = LineOf(accepted[a].node) /\ Known(a)[2] = a
<1>1. accepted \in Seq([node : Nodes, publication : Publication]) /\ Len(accepted) <= MaxAccepted
  BY DEF Shape
<1>2. accepted[a] \in [node : Nodes, publication : Publication]
  BY <1>1, ElementsOf
<1>3. LineOf(accepted[a].node) \in Lines
  BY <1>2 DEF LineOf, Lines
<1>4. a \in Ids
  BY <1>1, ClusterConstants, SMT DEF Ids
<1> QED BY <1>3, <1>4 DEF Known

LEMMA InitImplements == Init => Contract!Init
<1> SUFFICES ASSUME Init PROVE Contract!Init
  OBVIOUS
<1>1. accepted = <<>> /\ got = [s \in Streams |-> <<>>]
  BY DEF Init
<1>2. DOMAIN accepted = {}
  BY <1>1, SMT
<1>3. \A s \in Streams : [i \in DOMAIN got[s] |-> Known(got[s][i].id)] = <<>>
  BY <1>1, SMT
<1> QED BY <1>2, <1>3 DEF Contract!Init

\* What a stream had is known by the same name after a publication is
\* accepted, and when nothing is.
LEMMA KnownStays ==
    ASSUME IInv, UNCHANGED <<setup, got>>, \A a \in DOMAIN accepted : accepted'[a] = accepted[a]
    PROVE  /\ \A a \in DOMAIN accepted : Known(a)' = Known(a)
           /\ Yielding' = Yielding
<1>1. \A a \in DOMAIN accepted : Known(a)' = Known(a)
  BY DEF Known, LineOf, Redis
<1>2. \A s \in Streams : \A i \in DOMAIN got[s] : got[s][i].id \in DOMAIN accepted
  BY DEF IInv, Carried, GotGenuine
<1>3. \A s \in Streams : \A i \in DOMAIN got[s] : Known(got[s][i].id)' = Known(got[s][i].id)
  BY <1>2 DEF Known, LineOf, Redis
<1>4. Yielding' = Yielding
  BY <1>3 DEF Yielding
<1> QED BY <1>1, <1>4

LEMMA SameIsStutter ==
    ASSUME IInv, UNCHANGED <<setup, accepted, got>>
    PROVE  UNCHANGED <<Published, Yielding>>
<1>1. Yielding' = Yielding
  BY KnownStays
<1>2. Published' = Published
  BY DEF Published, Known, LineOf, Redis
<1> QED BY <1>1, <1>2

LEMMA AcceptIsPublish ==
    ASSUME IInv, NEW t \in Tasks, NEW o \in Offers[t], OnPublish(t, o[1], o[2])
    PROVE  \/ UNCHANGED <<Published, Yielding>>
           \/ \E p \in (Lines \X Ids) \ Published : Contract!Publish(p)
<1>1. CASE o[2] \notin Updates
  <2>1. UNCHANGED <<setup, accepted, got>>
    BY <1>1 DEF OnPublish
  <2> QED BY <2>1, SameIsStutter
<1>2. CASE o[2] \in Updates
  <2> DEFINE k == Len(accepted) + 1
             p == <<LineOf(accepted'[k].node), k>>
  <2>1. o[1] \in Topics /\ o[2] \in Decodable
    BY <1>2, ClusterConstants
  <2>2. Accepts(t, o[1], o[2])
    BY <1>2, <2>1 DEF OnPublish, Accepts, YjsSlot, AutomergeSlot
  <2>3. /\ DOMAIN accepted' = DOMAIN accepted \union {k} /\ k \notin DOMAIN accepted
        /\ \A a \in DOMAIN accepted : accepted'[a] = accepted[a]
    BY <1>2, <2>1, <2>2, AcceptedGrows, ZenonT(30)
  <2>4. UNCHANGED <<setup, got>>
    BY DEF OnPublish
  <2>5. Shape'
    BY <1>2, <2>1, <2>2, AcceptsShape
  <2> HIDE DEF k
  <2>6. (\A a \in DOMAIN accepted : Known(a)' = Known(a)) /\ Yielding' = Yielding
    BY <2>3, <2>4, KnownStays
  <2>7. p \in Lines \X Ids /\ p[2] = k
    <3>1. k \in DOMAIN accepted'
      BY <2>3
    <3>2. LineOf(accepted'[k].node) \in Lines
      <4>1. accepted' \in Seq([node : Nodes, publication : Publication])
        BY <2>5 DEF Shape
      <4>2. accepted'[k] \in [node : Nodes, publication : Publication]
        BY <3>1, <4>1, ElementsOf
      <4>3. accepted'[k].node \in Nodes
        BY <4>2
      <4> QED BY <4>3 DEF LineOf, Lines
    <3>3. k \in Ids
      <4>1. accepted' \in Seq([node : Nodes, publication : Publication]) /\ Len(accepted') <= MaxAccepted
        BY <2>5 DEF Shape
      <4> QED BY <3>1, <4>1, ClusterConstants, SMT DEF Ids
    <3> QED BY <3>2, <3>3
  <2>8. p \notin Published
    <3>1. \A a \in DOMAIN accepted : Known(a)[2] = a
      BY DEF Known
    <3> QED BY <2>3, <2>7, <3>1 DEF Published
  <2>9. Published' = Published \union {p}
    <3>1. Published' = {Known(a)' : a \in DOMAIN accepted'}
      BY DEF Published, Known, LineOf, Redis
    <3>2. \A a : a = k => Known(a)' = p
      BY <2>4 DEF Known, LineOf, Redis
    <3>3. ASSUME NEW x PROVE x \in Published' <=> x \in Published \union {p}
      <4>1. x \in Published' <=> \E a \in DOMAIN accepted' : x = Known(a)'
        BY <3>1
      <4>2. x \in Published <=> \E a \in DOMAIN accepted : x = Known(a)
        BY DEF Published
      <4> HIDE DEF p
      <4> QED BY <2>3, <2>6, <3>2, <4>1, <4>2, ZenonT(30)
    <3> HIDE DEF p
    <3> QED BY <3>3
  <2>10. Contract!Publish(p)
    BY <2>6, <2>9 DEF Contract!Publish, Published, Yielding
  <2> HIDE DEF p
  <2> QED BY <2>7, <2>8, <2>10
<1> QED BY <1>1, <1>2

\* A stream that yields m has had nothing of m's line that follows m in the
\* order of the server, and no stream has had m before something of that
\* line that this one had.
LEMMA YieldsInOrder ==
    ASSUME IInv, NEW s \in Streams, Takes(s), Head(stream[s].inbox).id # 0,
           NEW i \in DOMAIN got[s]
    PROVE  /\ got[s][i].id # Head(stream[s].inbox).id
           /\ LineOf(accepted[got[s][i].id].node) = LineOf(accepted[Head(stream[s].inbox).id].node) =>
                \A r \in Streams : \A a, b \in DOMAIN got[r] :
                  ~(a < b /\ got[r][a].id = Head(stream[s].inbox).id /\ got[r][b].id = got[s][i].id)
<1> DEFINE m == Head(stream[s].inbox)
           l == LineOf(accepted[m.id].node)
           K == OnLine(l)
<1>1. PICK o \in Nat, rank \in [Nat -> Nat] : Pipes(rank)
  BY DEF IInv, Ordered
<1>2. m \in Messages /\ m.id # 0 /\ 1 \in DOMAIN stream[s].inbox /\ stream[s].inbox[1] = m
  BY TakesThins DEF IInv
<1>3. m.id \in DOMAIN accepted
  BY <1>2 DEF IInv, Carried, InboxGenuine, Heard, Genuine
<1>4. m.id \in K
  BY <1>3 DEF OnLine
<1>5. \A r \in Streams : <<l, Receiver(r)>> \in Feeds
  <2>1. accepted[m.id] \in [node : Nodes, publication : Publication]
    BY <1>3, ElementsOf DEF IInv, Shape
  <2> QED BY <2>1, ClusterConstants DEF Feeds, Receiver, LineOf, Lines
<1> HIDE DEF m, l, K
<1>6. \A r \in Streams : Pipe(K, got[r], stream[r].inbox, down[<<l, Receiver(r)>>], rank)
  <2> SUFFICES ASSUME NEW r \in Streams PROVE Pipe(K, got[r], stream[r].inbox, down[<<l, Receiver(r)>>], rank)
    OBVIOUS
  <2>1. PICK f \in Feeds : f = <<l, Receiver(r)>>
    BY <1>5
  <2>2. f[1] = l /\ f[2] = Receiver(r)
    BY <2>1
  <2> QED BY <1>1, <2>1, <2>2 DEF Pipes, K
<1>7. \A a \in K : a \in Nat /\ rank[a] \in Nat
  <2>1. \A a \in DOMAIN accepted : a \in Nat
    <3>1. accepted \in Seq([node : Nodes, publication : Publication])
      BY DEF IInv, Shape
    <3> QED BY <3>1, SMTT(20)
  <2> QED BY <2>1 DEF K, OnLine
<1>8. got[s][i].id \in K => rank[got[s][i].id] < rank[m.id]
  BY <1>2, <1>4, <1>6 DEF Pipe, Follows
<1>9. got[s][i].id # m.id
  BY <1>4, <1>7, <1>8, SMT
<1>10. ASSUME LineOf(accepted[got[s][i].id].node) = l, NEW r \in Streams, NEW a \in DOMAIN got[r],
              NEW b \in DOMAIN got[r], a < b, got[r][a].id = m.id, got[r][b].id = got[s][i].id
       PROVE  FALSE
  <2>1. got[s][i].id \in K
    BY <1>10 DEF IInv, Carried, GotGenuine, K, OnLine
  <2>2. rank[m.id] < rank[got[s][i].id]
    BY <1>4, <1>6, <1>10, <2>1 DEF Pipe, Rising
  <2> QED BY <1>4, <1>7, <1>8, <2>1, <2>2, SMT
<1> QED BY <1>9, <1>10 DEF m, l

LEMMA YieldIsYield ==
    ASSUME IInv, NEW s \in Streams, Yield(s)
    PROVE  UNCHANGED <<Published, Yielding>> \/ \E p \in Published : Contract!Yield(s, p)
<1>1. Takes(s) /\ UNCHANGED <<setup, accepted>>
  BY YieldCases
<1>2. CASE UNCHANGED got
  BY <1>1, <1>2, SameIsStutter
<1>3. ASSUME Head(stream[s].inbox).id # 0, Redis => Head(stream[s].inbox).topic = Topic[s],
             got' = [got EXCEPT ![s] = Append(@, Decoded(s))]
      PROVE  \E p \in Published : Contract!Yield(s, p)
  <2> DEFINE m == Head(stream[s].inbox).id
             e == Decoded(s)
             p == Known(m)
             line == [x \in Lines \X Ids |-> x[1]]
  <2>1. e \in Yields /\ e.id = m /\ m \in DOMAIN accepted
    BY <1>1, <1>3, DecodedIs, ZenonT(30)
  <2>2. ASSUME NEW i \in DOMAIN got[s]
        PROVE  /\ got[s][i].id # m
               /\ LineOf(accepted[got[s][i].id].node) = LineOf(accepted[m].node) =>
                    \A r \in Streams : \A a, b \in DOMAIN got[r] :
                      ~(a < b /\ got[r][a].id = m /\ got[r][b].id = got[s][i].id)
    BY <1>1, <1>3, <2>2, YieldsInOrder
  <2>3. got \in [Streams -> Seq(Yields)] /\ got[s] \in Seq(Yields)
    BY DEF IInv, Shape
  <2> HIDE DEF m, e
  <2>4. p \in Published /\ line[p] = LineOf(accepted[m].node) /\ p[2] = m
    BY <2>1, KnownIs DEF Published, IInv
  <2>5. \A r \in Streams : \A i \in DOMAIN got[r] :
          /\ Yielding[r][i] = Known(got[r][i].id) /\ Yielding[r][i][2] = got[r][i].id
          /\ line[Yielding[r][i]] = LineOf(accepted[got[r][i].id].node)
    <3> SUFFICES ASSUME NEW r \in Streams, NEW i \in DOMAIN got[r]
                 PROVE  /\ Yielding[r][i] = Known(got[r][i].id) /\ Yielding[r][i][2] = got[r][i].id
                        /\ line[Yielding[r][i]] = LineOf(accepted[got[r][i].id].node)
      OBVIOUS
    <3>1. got[r][i].id \in DOMAIN accepted
      BY DEF IInv, Carried, GotGenuine
    <3>2. Yielding[r][i] = Known(got[r][i].id)
      BY YieldingIs DEF IInv
    <3> QED BY <3>1, <3>2, KnownIs DEF IInv
  <2> HIDE DEF p, line
  <2>6. \A i \in DOMAIN Yielding[s] :
          /\ Yielding[s][i] # p
          /\ line[Yielding[s][i]] = line[p] => \A r \in Streams : ~Contract!Before(Yielding[r], p, Yielding[s][i])
    <3> SUFFICES ASSUME NEW i \in DOMAIN got[s]
                 PROVE  /\ Yielding[s][i] # p
                        /\ line[Yielding[s][i]] = line[p] =>
                             \A r \in Streams : ~Contract!Before(Yielding[r], p, Yielding[s][i])
      BY YieldingIs DEF IInv
    <3>1. Yielding[s][i] # p
      <4>1. Yielding[s][i][2] = got[s][i].id /\ got[s][i].id # m /\ p[2] = m
        BY <2>2, <2>4, <2>5
      <4> QED BY <4>1
    <3>2. ASSUME line[Yielding[s][i]] = line[p], NEW r \in Streams,
                 Contract!Before(Yielding[r], p, Yielding[s][i])
          PROVE  FALSE
      <4>1. PICK a \in DOMAIN Yielding[r], b \in DOMAIN Yielding[r] :
              a < b /\ Yielding[r][a] = p /\ Yielding[r][b] = Yielding[s][i]
        BY <3>2 DEF Contract!Before
      <4>2. a \in DOMAIN got[r] /\ b \in DOMAIN got[r]
        BY <4>1, YieldingIs DEF IInv
      <4>3. got[r][a].id = m /\ got[r][b].id = got[s][i].id
        <5>1. Yielding[r][a][2] = got[r][a].id /\ Yielding[r][b][2] = got[r][b].id
          BY <2>5, <4>2
        <5>2. Yielding[s][i][2] = got[s][i].id /\ p[2] = m
          BY <2>4, <2>5
        <5> QED BY <4>1, <5>1, <5>2
      <4>4. LineOf(accepted[got[s][i].id].node) = LineOf(accepted[m].node)
        BY <2>4, <2>5, <3>2
      <4> QED BY <2>2, <4>1, <4>2, <4>3, <4>4, ZenonT(30)
    <3> QED BY <3>1, <3>2, ZenonT(30)
  <2>7. Yielding' = [Yielding EXCEPT ![s] = Append(@, p)]
    <3> DEFINE q == [i \in DOMAIN got[s] |-> Known(got[s][i].id)]
    <3>1. got' = [got EXCEPT ![s] = Append(got[s], e)]
      BY <1>3 DEF e
    <3>2. \A a : Known(a)' = Known(a)
      BY <1>1 DEF Known, LineOf, Redis
    <3>3. [i \in DOMAIN Append(got[s], e) |-> Known(Append(got[s], e)[i].id)] = Append(q, p)
      BY <2>1, <2>3, SMT DEF p
    <3>4. Yielding'[s] = Append(Yielding[s], p)
      BY <1>1, <2>3, <3>1, <3>3 DEF Yielding, Known, LineOf, Redis
    <3>5. \A r \in Streams : r # s => Yielding'[r] = Yielding[r]
      BY <1>1, <2>3, <3>1 DEF Yielding, Known, LineOf, Redis
    <3> QED BY <3>4, <3>5 DEF Yielding
  <2>8. Published' = Published
    BY <1>1 DEF Published, Known, LineOf, Redis
  <2>9. PICK k \in Published : k = p
    BY <2>4
  <2>10. Contract!Yield(s, k)
    BY <2>6, <2>7, <2>8, <2>9, ZenonT(40) DEF Contract!Yield, Yielding, Published, line
  <2> QED BY <2>10
<1> QED BY <1>2, <1>3, YieldCases

(* Every step of the nodes, their clients and the server is a step of the  *)
(* contract, or leaves what was accepted and yielded alone.                *)
LEMMA StepImplements ==
    IInv /\ [Next]_vars => [Contract!Next]_<<Published, Yielding>>
<1> SUFFICES ASSUME IInv, [Next]_vars, ~UNCHANGED <<Published, Yielding>> PROVE Contract!Next
  OBVIOUS
<1>8. ~UNCHANGED <<setup, accepted, got>>
  BY SameIsStutter
<1>1. ASSUME NEW t \in Tasks, NEW o \in Offers[t], OnPublish(t, o[1], o[2]) PROVE Contract!Next
  BY <1>1, AcceptIsPublish, ZenonT(30) DEF Contract!Next, Published
<1>2. ASSUME NEW s \in Streams, Yield(s) PROVE Contract!Next
  BY <1>2, YieldIsYield DEF Contract!Next, Published
<1>3. ASSUME NEW t \in Tasks, RedisPublish(t) \/ NatsPublish(t) PROVE UNCHANGED <<setup, accepted, got>>
  BY <1>3 DEF RedisPublish, NatsPublish
<1>4. ASSUME NEW n \in Nodes, ServerStep(n) \/ ConnectionLost(n) PROVE UNCHANGED <<setup, accepted, got>>
  BY <1>4, SMT DEF ServerStep, ConnectionLost
<1>9. ASSUME NEW f \in Feeds, Dispatch(f) PROVE UNCHANGED <<setup, accepted, got>>
  BY <1>9, SMT DEF Dispatch
<1>5. ASSUME NEW s \in Streams,
             OnSubscribe(s) \/ RedisSubscribe(s) \/ NatsSubscribe(s) \/ MessageRx(s) \/ DropStream(s)
      PROVE  UNCHANGED <<setup, accepted, got>>
  BY <1>5 DEF OnSubscribe, RedisSubscribe, NatsSubscribe, MessageRx, DropStream
<1>6. ASSUME NEW o \in Foreigns, ForeignPublish(o[1], o[2]) PROVE UNCHANGED <<setup, accepted, got>>
  BY <1>6 DEF ForeignPublish
<1>7. CASE UNCHANGED vars \/ Drained
  BY <1>7, <1>8 DEF vars, Drained
<1> QED BY <1>1, <1>2, <1>3, <1>4, <1>5, <1>6, <1>7, <1>8, <1>9, ZenonT(30) DEF Next, Receive

(* RedisBroker and NatsBroker keep the Broker trait's contract (broker.rs) *)
(* over all nodes of a cluster: a stream yields what was published, each   *)
(* publication at most once, and all streams in one order what came along  *)
(* one line, which is everything on Redis and the publications of one node *)
(* on NATS, although publishes fail halfway, receivers overflow and        *)
(* connections break.                                                      *)
THEOREM ContractTheorem == Spec => ImplementsContract
<1>1. Init => Contract!Init
  BY InitImplements
<1>2. IInv /\ [Next]_vars => [Contract!Next]_<<Published, Yielding>>
  BY StepImplements
<1> QED BY <1>1, <1>2, ClusterInvariant, PTL DEF Spec, ImplementsContract, Contract!Spec, Published, Yielding
=============================================================================
