------------------------------- MODULE Cluster -------------------------------
(***************************************************************************)
(* Several nodes on one Redis or NATS server: RedisBroker and NatsBroker   *)
(* (cherenkov-broker-redis, cherenkov-broker-nats), and on each node the   *)
(* CRDT channel kinds (cherenkov-channel-crdt yjs.rs, automerge.rs) whose  *)
(* publications they carry.  Publications cross as protobuf bytes.  The    *)
(* server and the client libraries are external: a connection is a FIFO    *)
(* and a receiver that is too slow loses messages (fred's broadcast the    *)
(* oldest, async_nats the newest).  Redis handles one command of all       *)
(* connections after the other and forwards to the nodes that subscribed   *)
(* to the very channel; NATS keeps, for every subscription whose subject   *)
(* matches, the order of each publisher's messages and no order between    *)
(* publishers.  When a connection breaks async_nats subscribes again, fred *)
(* does not: the code sets no reconnect policy and never calls             *)
(* manage_subscriptions.                                                   *)
(***************************************************************************)
EXTENDS WireProtocol, FiniteSets

CONSTANTS
    Nodes,
    Topics,         \* channel names, as sequences of segments
    Tasks,          \* tasks inside handle_publish; Home names their node
    Streams,        \* broker streams; Home names their node, Topic their topic
    Home, Topic,
    Droppable,      \* bound: the streams that may be refused or dropped
    Setups,         \* configurations: [broker, engine]
    Offers,         \* what each task may publish: pairs of topic and payload
    Decodable,      \* payloads that decode as an update
    Updates,        \* payloads that also apply
    Foreigns,       \* what other clients of the server publish: topic and bytes
    Garbage,        \* bytes that are no protobuf message
    Capacity,       \* of a receiver
    MaxAccepted,    \* bound: publications accepted
    Faults,         \* bound: broken connections and foreign messages
    None

ASSUME ClusterConstants ==
    /\ Capacity \in Nat \ {0} /\ Faults \in Nat
    /\ MaxAccepted \in Nat
    /\ Updates \subseteq Decodable
    /\ \A t \in Tasks : Home[t] \in Nodes /\ \A o \in Offers[t] : o[1] \in Topics
    /\ \A s \in Streams : Home[s] \in Nodes /\ Topic[s] \in Topics
    /\ \A o \in Foreigns : o[1] \in Topics
    /\ Setups \subseteq [broker : {"redis", "nats"}, engine : {"yjs", "automerge"}]

VARIABLES
    setup,          \* the broker and the engine of the configuration
    docs,           \* each node's DashMap of DocSlots
    task,           \* the publish each task runs
    accepted,       \* publications in the order the kinds accepted them
    up,             \* commands from a node the server has not handled
    interest,       \* the server's subscriptions: topics per node or stream
    down,           \* messages not read yet, for each line and receiver
    stream,         \* each stream: pc and the messages its receiver holds
    got,            \* what each stream has yielded of the nodes' publications
    alien,          \* and what of other clients' bytes
    owed,           \* the messages an open stream is still to yield
    faults

vars == <<setup, docs, task, accepted, up, interest, down, stream, got, alien, owed, faults>>

Redis == setup.broker = "redis"
NoTask == [pc |-> "idle", topic |-> None, id |-> 0]
NoSlot == [applied |-> None, next_offset |-> 0]
NewSlot == [applied |-> {}, next_offset |-> 0]
Closed == [pc |-> "closed", inbox |-> <<>>]

\* What reaches the server along one line reaches the streams in one order:
\* Redis is one line; of NATS each node is one, and the other clients.
Lines == Nodes \union {None}
LineOf(n) == IF Redis THEN None ELSE n

\* The server sends to the node that has subscribed (Redis) or to the
\* subscription (NATS).
Receiver(s) == IF Redis THEN Home[s] ELSE s
Feeds == IF Redis THEN {None} \X Nodes ELSE Lines \X Streams

\* What is received on node n's connection.
At(n) == {n} \union {s \in Streams : Home[s] = n}

\* A NATS subject: "*" stands for one segment, ">" for all that follow.
Matches(subject, name) ==
    LET n == Len(subject)
        open == subject[n] = ">"
    IN  /\ IF open THEN Len(name) >= n ELSE Len(name) = n
        /\ \A i \in 1..n : subject[i] \in {"*", name[i]} \/ (open /\ i = n)

\* The topic is handed to the server as it is.
Covers(topic, name) == IF Redis THEN topic = name ELSE Matches(topic, name)

\* One command or message: a publication's bytes, foreign bytes, or a SUB.
Bytes(c, id) ==
    [kind |-> "msg", topic |-> c, id |-> id, bytes |-> encode_publication(accepted[id].publication)]
Foreign(c, b) == [kind |-> "msg", topic |-> c, id |-> 0, bytes |-> b]
Sub(s) == [kind |-> "sub", topic |-> Topic[s], id |-> s, bytes |-> <<>>]

Init ==
    /\ setup \in Setups
    /\ docs = [n \in Nodes |-> [c \in Topics |-> NoSlot]]
    /\ task = [t \in Tasks |-> NoTask]
    /\ accepted = <<>>
    /\ up = [n \in Nodes |-> <<>>] /\ down = [f \in Feeds |-> <<>>]
    /\ interest = {}
    /\ stream = [s \in Streams |-> Closed]
    /\ got = [s \in Streams |-> <<>>] /\ alien = [s \in Streams |-> {}]
    /\ owed = {} /\ faults = 0

-----------------------------------------------------------------------------
\* entry().or_insert_with of on_subscribe and on_publish.
Slot(n, c) == IF docs[n][c] = NoSlot THEN NewSlot ELSE docs[n][c]

Applied(slot, data) == [applied |-> slot.applied \union {data}, next_offset |-> slot.next_offset + 1]

\* What a publish leaves of the slot: yjs decodes before it touches the map.
YjsSlot(n, c, data) ==
    IF data \notin Decodable THEN docs[n][c]
    ELSE IF data \notin Updates THEN Slot(n, c) ELSE Applied(Slot(n, c), data)

\* automerge decodes what it loads into the slot it has just created.
AutomergeSlot(n, c, data) ==
    IF data \notin Updates THEN Slot(n, c) ELSE Applied(Slot(n, c), data)

\* Mutant: a refused update uses up an offset.
OnPublishBurns(t, c, data) ==
    LET n == Home[t]
        slot == Slot(n, c)
    IN  /\ task[t] = NoTask /\ Len(accepted) < MaxAccepted
        /\ docs' = [docs EXCEPT ![n][c] = [applied |-> slot.applied \union ({data} \intersect Updates),
                                           next_offset |-> slot.next_offset + 1]]
        /\ IF data \in Updates
           THEN /\ accepted' = Append(accepted,
                     [node |-> n, publication |-> [channel |-> c, offset |-> slot.next_offset, data |-> data]])
                /\ task' = [task EXCEPT ![t] = [pc |-> "publish", topic |-> c, id |-> Len(accepted) + 1]]
           ELSE UNCHANGED <<accepted, task>>
        /\ UNCHANGED <<setup, up, interest, down, stream, got, alien, owed, faults>>

\* on_publish: one offset and one publication for an update that applies.
OnPublish(t, c, data) ==
    LET n == Home[t]
    IN  /\ task[t] = NoTask /\ Len(accepted) < MaxAccepted
        /\ docs' = [docs EXCEPT ![n][c] = IF setup.engine = "yjs" THEN YjsSlot(n, c, data) ELSE AutomergeSlot(n, c, data)]
        /\ IF data \in Updates
           THEN /\ accepted' = Append(accepted,
                     [node |-> n, publication |-> [channel |-> c, offset |-> Slot(n, c).next_offset, data |-> data]])
                /\ task' = [task EXCEPT ![t] = [pc |-> "publish", topic |-> c, id |-> Len(accepted) + 1]]
           ELSE UNCHANGED <<accepted, task>>
        /\ UNCHANGED <<setup, up, interest, down, stream, got, alien, owed, faults>>

Handed(t) == [up EXCEPT ![Home[t]] = Append(@, Bytes(task[t].topic, task[t].id))]

\* Mutant: a publish that may have failed is sent again.
RedisPublishRetry(t) ==
    /\ Redis /\ task[t].pc = "publish" /\ Len(up[Home[t]]) < 2
    /\ task' \in {task, [task EXCEPT ![t] = NoTask]}
    /\ up' = Handed(t)
    /\ UNCHANGED <<setup, docs, accepted, interest, down, stream, got, alien, owed, faults>>

\* RedisBroker::publish awaits the answer to PUBLISH; the error it reports
\* may come before or after the server has acted.
RedisPublish(t) ==
    /\ Redis /\ task[t].pc = "publish"
    /\ task' = [task EXCEPT ![t] = NoTask]
    /\ up' \in {up, Handed(t)}
    /\ UNCHANGED <<setup, docs, accepted, interest, down, stream, got, alien, owed, faults>>

\* NatsBroker::publish hands the bytes to the connection, unless the client
\* is closed.
NatsPublish(t) ==
    /\ ~Redis /\ task[t].pc = "publish"
    /\ task' = [task EXCEPT ![t] = NoTask]
    /\ up' \in {up, Handed(t)}
    /\ UNCHANGED <<setup, docs, accepted, interest, down, stream, got, alien, owed, faults>>

\* ChannelKind::on_subscribe creates the slot before the broker is asked.
OnSubscribe(s) ==
    /\ stream[s].pc = "closed"
    /\ docs' = [docs EXCEPT ![Home[s]][Topic[s]] = Slot(Home[s], Topic[s])]
    /\ stream' = [stream EXCEPT ![s].pc = "asking"]
    /\ UNCHANGED <<setup, task, accepted, up, interest, down, got, alien, owed, faults>>

\* Broker::subscribe fails; the slot stays.
Refused(s) == s \in Droppable /\ stream' = [stream EXCEPT ![s].pc = "dropped"]

\* RedisBroker::subscribe awaits SUBSCRIBE before it calls message_rx.
RedisSubscribe(s) ==
    /\ Redis /\ stream[s].pc = "asking"
    /\ \/ /\ interest' = interest \union {<<Home[s], Topic[s]>>}
          /\ stream' = [stream EXCEPT ![s].pc = "subscribed"]
       \/ Refused(s) /\ UNCHANGED interest
    /\ UNCHANGED <<setup, docs, task, accepted, up, down, got, alien, owed, faults>>

\* NatsBroker::subscribe: the stream exists as soon as SUB is on its way.
NatsSubscribe(s) ==
    /\ ~Redis /\ stream[s].pc = "asking"
    /\ \/ /\ up' = [up EXCEPT ![Home[s]] = Append(@, Sub(s))]
          /\ stream' = [stream EXCEPT ![s].pc = "open"]
       \/ Refused(s) /\ UNCHANGED up
    /\ UNCHANGED <<setup, docs, task, accepted, interest, down, got, alien, owed, faults>>

MessageRx(s) ==
    /\ stream[s].pc = "subscribed"
    /\ stream' = [stream EXCEPT ![s].pc = "open"]
    /\ UNCHANGED <<setup, docs, task, accepted, up, interest, down, got, alien, owed, faults>>

-----------------------------------------------------------------------------
Wants(r, msg) == \E c \in Topics : <<r, c>> \in interest /\ Covers(c, msg.topic)

Forward(l, msg) ==
    [f \in Feeds |-> IF f[1] = l /\ Wants(f[2], msg) THEN Append(down[f], msg) ELSE down[f]]

\* The server handles one command of one node.
ServerStep(n) ==
    LET msg == Head(up[n])
    IN  /\ up[n] # <<>>
        /\ up' = [up EXCEPT ![n] = Tail(@)]
        /\ IF msg.kind = "sub"
           THEN interest' = interest \union {<<msg.id, msg.topic>>} /\ UNCHANGED <<down, owed>>
           ELSE /\ down' = Forward(LineOf(n), msg)
                /\ owed' = owed \union {<<s, msg.id>> : s \in {r \in Streams : /\ stream[r].pc = "open"
                                                                             /\ Covers(Topic[r], msg.topic)
                                                                             /\ Wants(Receiver(r), msg)}}
                /\ UNCHANGED interest
        /\ UNCHANGED <<setup, docs, task, accepted, stream, got, alien, faults>>

\* Another client of the server publishes.
ForeignPublish(c, b) ==
    /\ faults < Faults
    /\ faults' = faults + 1
    /\ down' = Forward(None, Foreign(c, b))
    /\ UNCHANGED <<setup, docs, task, accepted, up, interest, stream, got, alien, owed>>

\* A message arrives: fred hands it to every message_rx of the node,
\* async_nats to the subscription it was sent to.  A full receiver loses the
\* oldest (fred) or the new one (async_nats).
Dispatch(f) ==
    LET msg == Head(down[f])
        hearers == {s \in Streams : Receiver(s) = f[2] /\ stream[s].pc = "open"}
        full == {s \in hearers : Len(stream[s].inbox) = Capacity}
        Put(s) == IF s \notin full THEN Append(stream[s].inbox, msg)
                  ELSE IF Redis THEN Append(Tail(stream[s].inbox), msg) ELSE stream[s].inbox
    IN  /\ down[f] # <<>>
        /\ down' = [down EXCEPT ![f] = Tail(@)]
        /\ stream' = [s \in Streams |-> IF s \in hearers THEN [stream[s] EXCEPT !.inbox = Put(s)] ELSE stream[s]]
        /\ owed' = owed \ {<<s, (IF Redis THEN Head(stream[s].inbox) ELSE msg).id>> : s \in full}
        /\ UNCHANGED <<setup, docs, task, accepted, up, interest, got, alien, faults>>

Yielded(s) == {got[s][i].id : i \in DOMAIN got[s]}
Decodes(msg) == msg.bytes # Garbage

\* The consumer of s is handed what the message decodes to.
Hand(s, msg) ==
    LET p == decode_publication(msg.bytes)
    IN  IF msg.id = 0
        THEN alien' = [alien EXCEPT ![s] = @ \union {p}] /\ UNCHANGED got
        ELSE got' = [got EXCEPT ![s] = Append(@, [id |-> msg.id, publication |-> p])] /\ UNCHANGED alien

\* Mutant: the stream of a topic yields whatever its receiver holds.
RedisKeepsAll(s, msg) == Decodes(msg)

\* RedisBroker's filter_map: the receiver is shared by all topics.
RedisKeeps(s, msg) == msg.topic = Topic[s] /\ Decodes(msg)

\* NatsBroker's filter_map drops only what does not decode.
NatsKeeps(msg) == Decodes(msg)

\* Mutant: a message that is filtered out ends the stream.
YieldEnds(s) ==
    LET msg == Head(stream[s].inbox)
    IN  /\ stream[s].pc = "open" /\ stream[s].inbox # <<>>
        /\ IF IF Redis THEN RedisKeeps(s, msg) ELSE NatsKeeps(msg)
           THEN Hand(s, msg) /\ stream' = [stream EXCEPT ![s].inbox = Tail(@)]
           ELSE stream' = [stream EXCEPT ![s] = [Closed EXCEPT !.pc = "dropped"]] /\ UNCHANGED <<got, alien>>
        /\ owed' = {o \in owed : o[1] # s \/ o[2] \notin Yielded(s)'}
        /\ UNCHANGED <<setup, docs, task, accepted, up, interest, down, faults>>

\* The stream is polled; what its filter keeps is decoded and yielded.
Yield(s) ==
    LET msg == Head(stream[s].inbox)
    IN  /\ stream[s].pc = "open" /\ stream[s].inbox # <<>>
        /\ stream' = [stream EXCEPT ![s].inbox = Tail(@)]
        /\ IF IF Redis THEN RedisKeeps(s, msg) ELSE NatsKeeps(msg)
           THEN Hand(s, msg) ELSE UNCHANGED <<got, alien>>
        /\ owed' = {o \in owed : o[1] # s \/ o[2] \notin Yielded(s)'}
        /\ UNCHANGED <<setup, docs, task, accepted, up, interest, down, faults>>

\* The ways to list a set of positions in order: there is just one.
InOrder(S) == {f \in [1..Cardinality(S) -> S] : \A i, j \in DOMAIN f : i < j => f[i] < f[j]}

\* Node n's connection keeps the commands at the positions S.
Keeping(n, S) == \E f \in InOrder(S) : up' = [up EXCEPT ![n] = [i \in DOMAIN f |-> up[n][f[i]]]]

\* The forwarder is aborted.  Dropping a NATS Subscriber unsubscribes it;
\* RedisBroker never sends UNSUBSCRIBE.  A later stream is another stream.
DropStream(s) ==
    /\ stream[s].pc = "open"
    /\ s \in Droppable
    /\ stream' = [stream EXCEPT ![s] = [Closed EXCEPT !.pc = "dropped"]]
    /\ interest' = interest \ {<<s, Topic[s]>>}
    /\ Keeping(Home[s], {i \in DOMAIN up[Home[s]] : up[Home[s]][i] # Sub(s)})
    /\ owed' = {o \in owed : o[1] # s}
    /\ UNCHANGED <<setup, docs, task, accepted, down, got, alien, faults>>

\* The connection on which a node receives breaks.
ConnectionLost(n) ==
    /\ faults < Faults
    /\ faults' = faults + 1
    /\ down' = [f \in Feeds |-> IF f[2] \in At(n) THEN <<>> ELSE down[f]]
    /\ IF Redis THEN UNCHANGED up ELSE Keeping(n, {i \in DOMAIN up[n] : up[n][i].kind = "sub"})
    /\ interest' = IF Redis THEN interest \ {<<n, c>> : c \in Topics} ELSE interest
    /\ owed' = {o \in owed : \/ Home[o[1]] # n
                           \/ \A f \in Feeds : f[2] = Receiver(o[1]) => \A i \in DOMAIN down[f] : down[f][i].id # o[2]}
    /\ UNCHANGED <<setup, docs, task, accepted, stream, got, alien>>

\* The bound on publications and streams: everything was sent and read.
Drained ==
    /\ Len(accepted) = MaxAccepted
    /\ \A t \in Tasks : task[t] = NoTask
    /\ \A n \in Nodes : up[n] = <<>>
    /\ \A f \in Feeds : down[f] = <<>>
    /\ \A s \in Streams : stream[s].pc \in {"open", "dropped"} /\ stream[s].inbox = <<>>
    /\ UNCHANGED vars

Receive == \/ \E n \in Nodes : ServerStep(n) \/ ConnectionLost(n)
           \/ \E f \in Feeds : Dispatch(f)
           \/ \E s \in Streams : OnSubscribe(s) \/ RedisSubscribe(s) \/ NatsSubscribe(s) \/ MessageRx(s) \/ Yield(s) \/ DropStream(s)

Next ==
    \/ \E t \in Tasks : RedisPublish(t) \/ NatsPublish(t) \/ \E o \in Offers[t] : OnPublish(t, o[1], o[2])
    \/ Receive
    \/ \E o \in Foreigns : ForeignPublish(o[1], o[2])
    \/ Drained

\* The client libraries read their connections and the forwarders poll
\* their streams, which they do while their sessions' outboxes have room;
\* nobody must publish or subscribe.
Spec ==
    /\ Init /\ [][Next]_vars
    /\ \A n \in Nodes : WF_vars(\E f \in Feeds : f[2] \in At(n) /\ Dispatch(f))
    /\ \A s \in Streams : WF_vars(Yield(s))

-----------------------------------------------------------------------------
Ids == 1..MaxAccepted
AcceptedAt(n, c) ==
    {i \in DOMAIN accepted : accepted[i].node = n /\ accepted[i].publication.channel = c}
\* YjsChannel::snapshot, AutomergeChannel::snapshot.
snapshot(n, c) == IF docs[n][c] = NoSlot THEN None ELSE docs[n][c].applied

TypeOK ==
    /\ Len(accepted) <= MaxAccepted
    /\ \A i \in DOMAIN accepted : accepted[i].publication.data \in Updates
    /\ \A t \in Tasks : task[t] # NoTask => task[t].id \in DOMAIN accepted /\ task[t].topic \in Topics
    /\ \A s \in Streams : /\ stream[s].pc \in {"closed", "asking", "subscribed", "open", "dropped"}
                          /\ Len(stream[s].inbox) <= Capacity
    /\ owed \subseteq Streams \X DOMAIN accepted /\ faults \in 0..Faults

(* What a stream yields is, field by field, a publication that some node's *)
(* channel kind accepted, though zero fields are not on the wire, and was  *)
(* accepted on the stream's own topic, though all Redis topics of a node   *)
(* share a client; on NATS, on a topic that the stream's own, read as a    *)
(* subject, matches.  The only other things it yields are what bytes of    *)
(* other clients of the server decode to.                                  *)
StreamsYieldWhatWasSent ==
    \A s \in Streams :
      /\ \A i \in DOMAIN got[s] :
           /\ got[s][i].publication = accepted[got[s][i].id].publication
           /\ Covers(Topic[s], got[s][i].publication.channel)
      /\ alien[s] \subseteq {decode_publication(o[2]) : o \in {f \in Foreigns : f[2] # Garbage}}

(* A snapshot is exactly the merge of what the node accepted, however its  *)
(* publishes interleave with subscribes and refused payloads (and before   *)
(* the first accepted one there is none, or an empty document), and the    *)
(* offsets the node gave out are 0, 1, 2, ... in that order.               *)
DocIsWhatWasAccepted ==
    \A n \in Nodes, c \in Topics :
      LET here == AcceptedAt(n, c)
      IN  /\ \/ snapshot(n, c) = {accepted[i].publication.data : i \in here}
             \/ snapshot(n, c) = None /\ here = {}
          /\ docs[n][c].next_offset = Cardinality(here)
          /\ \A i \in here : accepted[i].publication.offset = Cardinality({j \in here : j < i})

\* A publication as the contract sees it.
Known(id) == <<LineOf(accepted[id].node), id>>

(* The streams of all nodes together keep the Broker trait's contract:     *)
(* published, at most once, and in one order common to all streams what    *)
(* came along one line, which is everything on Redis and what one node     *)
(* published on NATS.                                                      *)
Contract ==
    INSTANCE BroadcastContract WITH
        Subscribers <- Streams,
        Publications <- Lines \X Ids,
        Line <- [p \in Lines \X Ids |-> p[1]],
        published <- {Known(id) : id \in DOMAIN accepted},
        stream <- [s \in Streams |-> [i \in DOMAIN got[s] |-> Known(got[s][i].id)]]
ImplementsContract == Contract!Spec

(* A message the server forwards for an open stream is yielded by that     *)
(* stream in the end, unless a full receiver overwrote or refused that     *)
(* very message, the connection broke under it or the stream was dropped:  *)
(* once publishing pauses, nothing is owed to anyone.  A stream whose      *)
(* forwarder waits for room in a full outbox is not polled, and is outside *)
(* of this.                                                                *)
NothingOwedForever == owed # {} ~> owed = {}
=============================================================================
