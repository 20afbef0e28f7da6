# TLA+ models of Cherenkov

Cherenkov is a real-time pub/sub server in Rust: clients connect over
WebSocket, WebTransport or SSE, subscribe to channels and publish to them. A hub
takes each request through claims, ACL and schema to a channel kind (which
assigns offsets and keeps history or a document) and a broker (which fans out,
within the process or over Redis or NATS) into each session's outbox. The
modules here model that path, the endpoints around it and the binary that
composes it. TLC checks them on small instances; TLAPS proves the central
invariants for every value of the constants.

Source paths below are relative to `crates/`.

## The system and its models

| Part | Source | Module |
| --- | --- | --- |
| Pub/sub channel kind | `cherenkov-channel-pubsub/src/lib.rs` | `PubSubChannel` |
| Session, SessionRegistry, handlers that change them | `cherenkov-core/src/session.rs`, `hub.rs` | `SessionRegistry` |
| Requests through the hub: claims, gates, answers | `cherenkov-core/src/hub.rs`, ws `dispatch` | `HubRequests` |
| JWT, ACL rules, schema lookup | `cherenkov-auth`, `cherenkov-schema`, `cherenkov-core/src/{auth,acl,schema}.rs` | `NamespaceAcl` (used by `HubRequests`) |
| Wire protocol | `cherenkov-protocol/src/frame.rs` | `WireProtocol` (used by `HubRequests`, `Cluster`) |
| Broker trait | `cherenkov-core/src/broker.rs` | `BroadcastContract` (abstract) |
| In-process broker | `cherenkov-broker/src/lib.rs` | `MemoryBroker` |
| Redis and NATS brokers, CRDT kinds, several nodes | `cherenkov-broker-redis`, `cherenkov-broker-nats`, `cherenkov-channel-crdt` | `Cluster` |
| Hub, kind and broker: the path of a publication | `cherenkov-core/src/hub.rs` | `Delivery` (composes `PubSubChannel` and `MemoryBroker`) |
| WebSocket and WebTransport connections | `cherenkov-transport-ws`, `cherenkov-transport-wt` | `Connection` |
| SSE transport, admin API | `cherenkov-transport-sse`, `cherenkov-admin` | `SseEndpoint`, `SseQuery` |
| Server binary, configuration, shutdown | `cherenkov-server/src/{app,config,main}.rs` | `Server` |

Modules named `MC...` hold the instances and symmetry sets TLC uses;
`...Proofs` modules hold the theorems. An operator commented "Mutant" is a slip
in the code that some property must notice; no specification uses it.
`PROJECT.json` maps every definition to the lines it translates.

### PubSubChannel

State: the ring `entries`, `next_offset`, `epoch`, the clock and, per publisher,
the `on_publish` call that has read `Instant::now()` but not yet taken the lock.
`on_publish` is two actions (`ReadClock`, `OnPublish`) because the stamp is
taken outside the lock. `OnReplay` is `replay_since`, `Restart` a new process.
`accepted` and `entered_at` are history variables. `u64` saturation is kept with
a small `U64Max`.

### SessionRegistry

State: `sessions`, the reverse index `channels` with its `keys`, each session's
subscriptions, the forwarders that run, and who holds a session's `Arc`
(`Held`: the registry, the connection task, a running handler). Each handler is
the sequence of its DashMap calls; between two of them any other task may run.
`registry.remove_subscription` is two actions since it releases the shard lock
between testing for emptiness and removing the key; `deregister` scrubs the
index channel by channel. The step that releases the last `Arc` also runs
`Session::drop` (`Settle`). `Sequential` names the sessions whose transport runs
one handler at a time (as ws and wt do); handlers of the others run at once, as
the hub's own API allows.

### HubRequests, with NamespaceAcl and WireProtocol

The life of one request: the client's frame is encoded, decoded by the
transport, taken through the handler and answered in bytes again. One action is
one stretch of a handler between two awaits (`HandleConnect`, `Authenticate`,
`RequireClaims`, `AclSubscribe`, `OnSubscribe`, `BrokerSubscribe`, `Unwind`,
`Insert`, ...). A transport runs one handler per session; other sessions, kicks,
closes and cancelled futures come in between any two actions. `deliver` only
queues an answer, so the next frame may be received before the client has read
it: a client may pipeline. `call` keeps the answer to the last frame, and the
history variable `told` what all answers queued so far, read in their order, say
of the subscriptions. `balance` counts `on_subscribe` minus `on_unsubscribe` per
channel, `history` is what the kind accepted, with the subject that published it.
`config` is the hub's configuration and is chosen in `Init`.

`WireProtocol` writes a protobuf body as the partial function from field numbers
to values that proto3 puts on the wire: default values are not sent, missing
fields read as defaults. `NamespaceAcl` holds `check` (first matching rule),
`authenticate` (key, audience, issuer, expiry with 60 s of leeway; a token
without the audience or issuer claim passes that check, as the library requires
only `exp`) and `validate` (lookup by namespace); a glob is the set of names it matches, a
schema the set of payloads it accepts. `FirstMatchDecides` is the reference
definition `check` is compared with.

### BroadcastContract and MemoryBroker

`BroadcastContract` is the promise of the `Broker` trait for one topic: streams
yield published publications, each at most once, "in the order the broker
observes them"; loss is left open. `Line` says along which line a publication
comes to the broker: what comes along one line all streams yield in one common
order. The in-process broker and Redis are one line each; a NATS server orders
each publisher's messages and promises nothing across publishers, so there every
node is a line. `MemoryBroker` splits `subscribe` into taking the sender clone and
attaching the receiver, and `publish` into lookup, `send` and `remove_if`.
`tokio::sync::broadcast` is external and modelled by its documented behaviour.
The refinement maps the abstract streams to what the concrete ones yielded.

### Cluster

Several nodes on one Redis or NATS server, chosen in `Init` together with the
CRDT engine. A node's document slot is the set of merged updates and
`next_offset`; `YjsSlot` and `AutomergeSlot` differ in whether a refused payload
creates the slot. `RedisPublish` and `NatsPublish` may fail before or after the
server has acted. `RedisSubscribe` and `MessageRx` are two steps, because the
code awaits SUBSCRIBE before it takes a receiver; with NATS the SUB travels on
the connection after the stream exists. All topics of a Redis node share one
receiver, so `RedisKeeps` filters by topic; `NatsKeeps` does not, and since the
code hands a topic to NATS as the subject it is, a topic with a wildcard in it
receives what other topics carry (`Covers`, `Matches`). Bytes that other clients of
the server publish are dropped if they do not decode and yielded if they do; an
empty message decodes, to a publication whose fields are all defaults. `got` is
what a stream yielded of the nodes' publications, `alien` what it yielded of other
bytes. The servers and client libraries (`ServerStep`, `Dispatch`,
`ConnectionLost`, `ForeignPublish`) are external: Redis handles the commands of
all connections one after the other and forwards to every node that subscribed to
that very channel; NATS keeps a queue for each publisher and subscription
(`Feeds`), so that two subscriptions may see two publishers' messages in
different orders. A full receiver loses the oldest message (fred) or the newest
(async_nats), a broken connection loses what was under way, and only async_nats
subscribes again. Losing part of what a connection carries is `Keeping`: the
commands at some positions stay, in their order. `owed` is the set of messages an
open stream is to yield.

### Delivery

`handle_publish`, `handle_subscribe` with replay, the forwarder and
`handle_unsubscribe` for one channel, over instances of `PubSubChannel` and
`MemoryBroker`. A forwarder is parked, being polled, or aborted during a poll
(an abort takes effect when the poll ends). The clock stands still here (TTL is
the subject of `PubSubChannel`), the outbox never blocks (that is the subject of
`Connection`), and a session subscribes again only after its old forwarder is
gone. A resume is judged when it is `Settled`: every publisher has returned, no
other `broker.subscribe` holds a clone of a sender, and the forwarder has nothing
left to do, because its stream is drained or because it has ended. The last case
is the stream that opened on a sender which `publish` had just reaped: such a
resume loses what is published later, without a count or an error, and
`ResumeHasNoHole` says so and bounds it: what is missing then is newer than the
whole replay and than the acknowledged offset. The clause on other subscribers
is there because a clone keeps a reaped channel's sender alive, so that a stream of
that channel which will get nothing more has not ended yet; the proof asked for
it, the run has one subscriber and could not tell.

### Connection

One connection task, its writer task, one forwarder, a kick on another thread
and the client. A poll of the biased `select!` is two steps, so that a
notification between polling the shutdown branch and polling the reader exists.
`notify_waiters` reaches the task only while a `Notified` exists, which is inside
`select!`; there it reaches it at every point of the polls, but is lost all the
same when that `select!` ends with a frame the reader had ready. The writer task
ends in two steps (`WriterFails`, `WriterCloses`), since it closes the sink before
it drops the receiver. The outbox is
bounded: sends wait while it is full and fail once the receiver is gone; the
replay inside `handle_subscribe` waits the same way. `transport` is chosen in
`Init`: the `select!` of ws watches the writer task (`WatchWriter`), that of wt
does not.

### SseEndpoint and SseQuery

Every HTTP request runs in its own task and opens at most one session. The
handlers are cut at their awaits and between a change of the session table and
the counter that reports it. Every early return closes the session
(`CloseFailed`, `CountClosed`); the event stream ends when it hears the
shutdown, or when the last `Arc` of its session is gone and the outbox with it
(`Alive`), and its last element closes the session. A publication goes through
two stages, `effect`: stored by the channel kind (`KindTakes`) and sent by the
broker (`Published`); an error of the broker leaves the first done and the second
open, since nothing is taken back. `ClientGone` drops the
handler or the stream wherever it is, as hyper does. Admin calls check their
token and then list, show or disconnect sessions in the same table. `SseQuery`
is `channels_from_raw_query` with its percent decoding over bytes, and the
`Bearer` prefix of the header. An input carries the list of channels the client
meant (`meant`), or `None` where the query is badly escaped and names nothing
anyone could mean. `Names` says, without decoding, what a query that means a list
of channels looks like: a non-empty `channel` value is cut into pieces that each
write one byte of the next name, unless it is well escaped and no text; pairs with
another key, without `=` or without a value name nothing. `EndpointConstants`
requires it of the inputs, so `QueryUnderstood` compares the decoder with the way
names are written and not with itself.

### Server

`main` from the configuration file to the exit status: `build_hub` section by
section, the three listeners bound one after the other with an accept task each,
`wait` for the first task that ends, signals, and the drop of the runtime that
cancels what is left. A bind that fails returns from `run` and drops the
`JoinHandle`s of the tasks spawned before, which detaches them: they accept
until the runtime is dropped. A signal before the handlers are installed kills
the process. The `select!` of `serve` is not biased: its first poll may find an
ended task before it installs the handlers.

## Runs

Runs that must pass:

| Run | Checks | Instance |
| --- | --- | --- |
| `PubSubChannel` | `TypeOK`, `HistoryIsLatest`, `RingInOrder`, `ReplayHasNoHole`, `ReplayWithinTtl` | 2 publishers, ring of 2, TTL 1, 4 ticks, counter limit 4, 5 publications |
| `SessionRegistry` | `TypeOK`, `NoOrphanForwarder`, `IndexNamesSubscribers`, `ClosedSessionsDrain` | 2 sessions (one sequential, one not), 2 tasks, 1 channel, 3 forwarders |
| `MemoryBroker` | `LossIsCounted`, `ReapSparesOpenStreams`, `ImplementsContract`, `OrphanedStreamEnds` | 2 publishers, 2 streams, ring of 2, 4 publications, 2 senders |
| `Delivery` | `ResumeHasNoHole`, `NoRepeatWithinPath`, `AckCoversReplay` | 2 publishers, 1 subscriber, 4 publications, ring and history of 2 |
| `Connection` | `RepliesFollowRequests`, `WaitingTaskHearsKick`, `LostClientIsReleased`, `WriterEndEndsConnection` (ws) | both transports, outbox of 1, 3 frames, 2 publications |
| `HubRequests` | `FramesSurviveTheWire`, `AnswersAreTruthful`, `SubscriptionsAuthorized`, `NothingBypassesTheGates`, `KindCountsSubscribers`, `AclFirstMatch` | 2 sessions, 3 channels (one name empty), 3 tokens, 3 configurations, every frame kind, 1 publication per channel |
| `SseEndpoint` | `QueryUnderstood`, `AdminTellsTheTruth`, `CountersBalance`, `AnsweredLeavesNothing`, `StatusTellsTheEffect`, `KickEndsStream` | 2 requests, 2 admin calls, 3 configurations, names that need escaping, a query that names nothing |
| `Cluster` | `StreamsYieldWhatWasSent`, `DocIsWhatWasAccepted`, `ImplementsContract`, `NothingOwedForever` | Redis with Yjs and NATS with Automerge, 2 nodes, 2 publishers, 3 streams on 2 topics (one a wildcard to NATS), receivers of 1, 2 publications, 1 fault, 1 stream that may be dropped |
| `Server` | `ListeningMeansServing`, `ExitTellsWhy`, `StopsWhenItShould`, `StartSettles` | 17 configurations, 3 addresses of which any may be taken, 2 clients |

The type invariant `TypeOK` is checked where it carries more than types (the
offset limit of `PubSubChannel`, the task records of `SessionRegistry`) and
proved for `PubSubChannel`, `SessionRegistry`, `HubRequests`, `Server` and, as part
of `BrokerInvariant`, `MemoryBroker`. In the other modules it documents the state;
it holds on the instances above when `INVARIANT TypeOK` is added to their
configurations.

The bounds are the smallest at which the cases of interest occur: a ring
overrun by one (3 publications for a ring of 2, and one more to lag twice),
offsets that reach the counter's limit and stay there, two publishers that swap,
a topic that is reaped and created again, a one-slot outbox that a reply and a
publication compete for, two sessions that meet on one channel while a third
party kicks one of them, two disconnects and a close of one session, a receiver
overrun by another topic's message. The configurations of `HubRequests`
pair no authentication, JWT with a narrow deny before a broad allow, and JWT
with a default-allow ACL and a CRDT namespace. Those of `Server` are a full
one and one for every way in which a section can be left out or refused. In
`Cluster` one fault stands for either a broken connection or a foreign message,
one that decodes or one that does not: each interacts with the publications under
way, not with the other. The engines do not depend on the broker, so each broker
is run with one of them.

Runs that must find a violation. Each states what a comment or a document says
and shows an interleaving in which the code does otherwise; the quotes are in
`PROJECT.json`.

| Run | What it shows |
| --- | --- |
| `SessionRegistryIndexExact` | a subscriber is wiped from the reverse index |
| `ConnectionKick` | a kick outside `select!` is never heard |
| `SseDisconnect` | a client that leaves during an event stream leaves its session registered |

Further behaviours of the models that a document or comment describes
differently, and that no run is spent on:

- an entry stamped early survives its TTL behind a younger front
  (`cherenkov-channel-pubsub/src/lib.rs:178-179`); measured from insertion the
  TTL holds, which is proved (`ReplayWithinTtl`);
- a kick during a subscribe leaves a dead id in the reverse index
  (`openspec/specs/ws-transport/spec.md:45-46`);
- a stream can open on a sender that was just reaped, get nothing and end
  (`cherenkov-core/src/broker.rs:50`: all future publications); the subscription
  stays, and its client is told nothing;
- a topic with `*` or `>` in it is a wildcard to NATS and yields the publications
  of other topics (`broker.rs:50`: publications on `topic`);
- two streams on NATS can yield two nodes' publications in different orders
  (`broker.rs:52`: the order the broker observes; there is no such one order);
- bytes of another client of the Redis or NATS server that decode are yielded as a
  publication with whatever channel and offset they carry
  (`cherenkov-broker-nats/src/lib.rs:4-7` speaks of publications only);
- a resuming subscriber can get a publication from the replay and from the
  stream (`openspec/specs/pubsub-channel/spec.md:14`: exactly once);
- the epoch is always 1 (`channel.rs:19`: it advances on a restart);
- the cursor is 0 before and after the first publication
  (`openspec/specs/pubsub-channel/spec.md:26`: `offset = N` after N);
- replay from an evicted offset returns the retained tail, without a sign of the
  gap (`channel.rs:85-87`: it is empty); `ReplayHasNoHole` leaves this case open;
- a cursor is read before the broker stream is opened, so a publication in
  between is above the acknowledged offset and not delivered
  (`channel.rs:63-64`: the cursor at the moment of subscription);
- two publishers can swap between `on_publish` and `broker.publish`, so
  deliveries are not in offset order (`channel.rs:20-21`);
- a forwarder inside its poll delivers after `handle_unsubscribe` returned
  (`openspec/specs/hub-core/spec.md:34-36`);
- deregistering aborts no forwarder while an `Arc` is held
  (`session.rs:200-201`);
- the last unsubscribe leaves the topic in the map, and a stream that lagged is
  kept (`openspec/specs/memory-broker/spec.md:16-19` and `:28`);
- the writer is aborted with the final Error frame possibly unsent
  (`cherenkov-transport-ws/src/lib.rs:12-13`);
- a refused `Connect` is answered and the connection stays open
  (`openspec/specs/ws-transport/spec.md:70-75` and `:84-85`: an authentication
  failure terminates it);
- a publish that the broker refused stays in the channel's history and may be
  replayed (`hub.rs:491-492`), although its publisher got an error;
- in a cluster each node holds only the updates published through it, with
  offsets of its own (`cherenkov-channel-crdt/src/lib.rs:12-15`: the server
  holds the canonical state);
- a channel that was only subscribed to, or whose publishes were all refused, can
  have an empty document (`openspec/specs/crdt-channel-yjs/spec.md:26-28`: `None`
  before the first publish);
- `wait` returns with the first task that ends, also when it ended well
  (`cherenkov-server/src/app.rs:303-305`: the first non-`Ok` outcome), and the
  exit status is then 0; `ExitTellsWhy` says what 0 can mean;
- a configuration that loads and is refused later exits with 1
  (`cherenkov-server/src/main.rs:57-58`: config problems are 3); `ExitTellsWhy`
  says that 3 means a configuration problem, not the converse;
- an empty HMAC secret is refused by `build_authenticator`, not by the loader
  (`cherenkov-server/src/config.rs:304-305` and
  `openspec/specs/server-binary/spec.md:77-80`).

### Fairness

`SessionRegistry!FairSpec`: a handler that can go on is polled again (tokio);
nobody has to open, kick or close. `MemoryBroker!FairSpec`: calls that started
finish and a ready stream is polled, which holds of a forwarder while its
session's outbox has room. `Connection!FairSpec`: the connection and
writer tasks run when they can, a kick that began finishes, a write to a
client that stopped accepting fails and closing the failed sink returns; no client
has to send, read or close.
`ReadingSpec` adds a client that reads; it is used only to show that the lost
kick does not depend on a slow client. `SseEndpoint!Spec`: handlers, streams
that are ready and admin calls are polled; hyper polls a body only while it can
write, so this is about clients that read. No request has to arrive and no
client to leave. `Cluster!Spec`: client libraries read their connections and
forwarders poll their streams (again, while outboxes have room); nobody has to publish, and the server need not
handle a command. `Server!Spec`: the main thread and the workers that drop
tasks are scheduled; nothing is assumed of clients, transports or signals.
All of it is weak fairness. `PubSubChannel`, `Delivery` and `HubRequests` have
safety properties only.

## Proofs

| Theorem | Statement |
| --- | --- |
| `PubSubChannelProofs!TypeCorrect` | `Spec => []TypeOK` |
| `PubSubChannelProofs!HistoryTheorem` | `Spec => []HistoryIsLatest` |
| `PubSubChannelProofs!ReplayTtlTheorem` | `Spec => []ReplayWithinTtl` |
| `PubSubChannelProofs!RingOrderTheorem` | `Spec => []RingInOrder` |
| `PubSubChannelProofs!ReplayTheorem` | `Spec => []ReplayHasNoHole` |
| `MemoryBrokerProofs!BrokerInvariant` | `Spec => []IInv` (includes `TypeOK`) |
| `MemoryBrokerProofs!LossTheorem` | `Spec => []LossIsCounted` |
| `MemoryBrokerProofs!ReapTheorem` | `Spec => ReapSparesOpenStreams` (an action property) |
| `MemoryBrokerProofs!ContractTheorem` | `Spec => ImplementsContract` (the refinement of `BroadcastContract`) |
| `ClusterProofs!ClusterInvariant` | `Spec => []IInv` |
| `ClusterProofs!YieldTheorem` | `Spec => []StreamsYieldWhatWasSent` |
| `ClusterProofs!DocTheorem` | `Spec => []DocIsWhatWasAccepted` |
| `ClusterProofs!ContractTheorem` | `Spec => ImplementsContract` (the refinement of `BroadcastContract`) |
| `DeliveryProofs!DeliveryInvariant` | `Spec => []IInv` |
| `DeliveryProofs!ResumeTheorem` | `Spec => []ResumeHasNoHole` |
| `DeliveryProofs!NoRepeatTheorem` | `Spec => []NoRepeatWithinPath` |
| `DeliveryProofs!AckTheorem` | `Spec => []AckCoversReplay` |
| `SessionRegistryProofs!TypeCorrect` | `Spec => []TypeOK` |
| `SessionRegistryProofs!NoOrphanTheorem` | `Spec => []NoOrphanForwarder` |
| `SessionRegistryProofs!IndexTheorem` | `Spec => []IndexNamesSubscribers` |
| `HubRequestsProofs!WireTheorem` | `Spec => []FramesSurviveTheWire` |
| `HubRequestsProofs!AuthorizedTheorem` | `Spec => []SubscriptionsAuthorized` |
| `HubRequestsProofs!GatesTheorem` | `Spec => []NothingBypassesTheGates` |
| `HubRequestsProofs!AnswersTheorem` | `Spec => []AnswersAreTruthful` |
| `HubRequestsProofs!TypeCorrect` | `Spec => []TypeOK` |
| `HubRequestsProofs!BalanceTheorem` | `Spec => []KindCountsSubscribers` |
| `HubRequestsProofs!AclTheorem` | `Spec => []AclFirstMatch` |
| `SseEndpointProofs!CountersTheorem` | `Spec => []CountersBalance` |
| `SseEndpointProofs!AnsweredTheorem` | `Spec => []AnsweredLeavesNothing` |
| `SseEndpointProofs!StatusTheorem` | `Spec => []StatusTellsTheEffect` |
| `SseEndpointProofs!AdminTheorem` | `Spec => []AdminTellsTheTruth` |
| `SseEndpointProofs!QueryTheorem` | `Spec => []QueryUnderstood` |
| `ServerProofs!ConnectionInvariant` | `Conn!Spec => []ConnInv` (`Conn` is an instance of `Connection`) |
| `ServerProofs!RepliesTheorem` | `Conn!Spec => []Conn!RepliesFollowRequests` |
| `ServerProofs!TypeCorrect` | `Spec => []TypeOK` |
| `ServerProofs!ListeningTheorem` | `Spec => []ListeningMeansServing` |
| `ServerProofs!ExitTheorem` | `Spec => []ExitTellsWhy` |

They hold for all values of the constants that satisfy the assumption named in
each module (`ChannelConstants`, `BrokerConstants`, `DeliveryConstants`,
`RegistryConstants`, `RequestConstants`, `EndpointConstants`, `ClusterConstants`,
`ServerAssumption`): sizes and bounds are naturals, the ring holds at least one
entry, sessions are finitely many, `None` is no value of the other sets, a
frame a client may send has the fields of its kind, a publish names one channel,
the rules of an ACL are a list, a query is finite and either `Names` what its
client meant or is marked as meaning nothing, tasks and streams live on a node and
speak of its topics, an update the engine takes can be decoded, a configuration's
addresses are addresses. `Delivery` names its publications by
their offsets and has fewer of them than the counter's limit; what happens at the
limit is the subject of `PubSubChannel`.

`PubSubChannel`: lemmas say what evicting a prefix, appending and trimming do to
a ring with consecutive offsets; each action then keeps the invariant. The TTL
bound needs that no entry is stamped later than it entered the ring and that no
pending stamp lies in the future: an entry that survives eviction has a
predecessor chain ending in a live front, which entered no later.

`RingInOrder` is inductive with them. For the replay, `ReplayIsSuffix` shows that
picking the entries above an offset one by one yields a suffix of the evicted
ring: the matching positions are an interval, because offsets are consecutive.

`MemoryBroker`: the inductive invariant adds to `LossIsCounted` that a publication
is sent once on one channel (`SentOnce`), that calls and streams name channels
that exist (`Attached`), and that a stream's values come from one log in its order
and lie behind its position (`YieldedInOrder`). The refinement maps an
abstract stream to what its stream yielded, all of it of one line: a value it
yields was published and is new to it, and two streams cannot disagree on the order of two
values, because a value lies in one log only. Reaping is argued per step from the
receiver count that `remove_if` tests under the lock.

`Delivery`: a rely argument. `HubInv` is the hub's own invariant, together with
what it relies on of the channel kind (`ChannelRely`: a replay covers what the
history still has) and of the broker (`BrokerRely`: a stream is within its log,
nothing is sent twice). One lemma per action shows that the hub keeps `HubInv`
while the components keep what it relies on. The second part shows that they do:
every call of the hub is a step of the component, whose invariant is the one of
`PubSubChannelProofs` or `MemoryBrokerProofs`, used through `INSTANCE`. The core is
`Whole`: there is an offset `e` such that the replay held everything retained below
`e`, and everything from `e` on is with a publisher, in the log of the stream's
channel ahead of its position, or in the outbox (`Accounted`), unless the stream
lagged or its sender was reaped. Opening the stream
before replaying is what lets `e` be the `next_offset` of the replay.

`SessionRegistry`: the inductive invariant is `TypeOK /\ NoOrphanForwarder`. Type
correctness carries that a subscribing or unsubscribing task names a real channel.
The argument rests on `SettleKeeps`: if before the drop every running forwarder
is accounted for by a subscription or a private handle, then after
`Session::drop` of the released sessions every forwarder still running belongs
to a held one. Actions that release nothing use `NothingReleased`. The reverse
index has an invariant of its own, `IndexInv`: ids are fresh when they are handed
out, a sequential session has one handler at a time in the registry, and between
the two inserts of `handle_subscribe` its slot is taken and its place in the index
free.

`HubRequests`: the properties are about what a handler reads before an await and
uses after it, so the invariant says what still holds at each program point.
`ClaimsKnown`: the claims a handler copied are the session's until it ends,
because only `handle_connect` sets claims and does so for a session without
any (with anonymous access, all claims are the anonymous ones). `GatesPassed`:
which gates lie behind each point. The wire theorem rests on `BodyRoundTrip`: a
field that is left out is one that reads back as its default. The balance
theorem adds `Tallied` and the cardinality lemmas `OneMember` and `CountedMoves`:
a step moves one session, so each of the two cardinalities changes by at most
one, and `balance` changes exactly as their sum does, except when a handler is
dropped between two hooks (`LeaveTallied`), and then its session is gone. For the
answers, `ToldInv` compares what the queued answers say with the subscriptions at
each program point: only `Insert` and `HandleUnsubscribe` change these, the one
together with its answer, the other one action before it. `AclFirstMatch` is an induction over the rules that
the library's induction theorems cannot carry here, so it is done by a least
counterexample (`LeastNat`): `Verdict` is the answer from a rule on, given without
recursion, it satisfies the equation of the loop, and a solution that differs from
it would differ at a last rule.

`SseEndpoint`: the invariant splits by request and by admin call. `Journey` says
what a handler has achieved at each program point, `Removers` which calls took a
session out of the table (at most one, and none while it is registered), `RowTrue`
that a row is covered by the claims and subscriptions of its session, which only
grow. The counters balance because each step moves one request or one call in or
out of the sets that `CountersBalance` counts. `QueryTheorem` is about the loops
of the decoder: `LoopDefined` shows that the loop over the bytes of a value has a
solution, `DecodeReads` that it passes over a byte as it should at each place, and
a walk along the pieces of the written value (`OneMore`, `FromStep`, `FromEnds`)
that it ends with the name (`DecodeWrites`) or, for no UTF-8, with nothing
(`DecodeNoText`). `QueryRead` lifts that to the list of the parameters.

`Cluster`: `DocsAgree` relates a document to the publications its node accepted,
`Carried` says that every message on its way is foreign or the encoding of an
accepted publication on its topic, and `Once` that none is twice on its way to the
server. What a stream yields it was sent because its topic covers the message's:
`Travels` says so of every queue, from the server's subscriptions on. For the
refinement these are not enough: that all streams agree on the order of a line
rests on the order in which the server handled its publications, which no variable
holds. `Ordered` therefore says that the publications have ranks such that what
every stream's pipeline (what it yielded, what its receiver holds, what is still to
be read) has of one line rises in them. Only `ServerStep` extends a pipeline, and it
does so with a publication no one has ranked, which gets the next rank; all other steps move messages along or thin a queue out (`Thins`), which
keeps what rises. On NATS a receiver mixes several queues (`PipeMixes`); a line is
one of them, so its order survives the mixing.

`Server`: the properties speak of the end of startup; `Stages` (what has been
pushed to `joins` at each point of `run`) and `Composed` (what `build_hub` has put
together at each of its stages) make them inductive. The last part of
`ServerProofs` is about one connection of the transports it starts, through an
instance of `Connection`: outbox, the frame being written and the wire form one
pipeline, in which replies rise in number; a step moves a frame along it, appends
one, or loses what is not yet on the wire. `RepliesBefore` (no reply answers a frame
that is still being handled) is what makes this inductive.

Every safety property and action property of the passing runs is proved. Only
model-checked are the liveness properties (`ClosedSessionsDrain`,
`OrphanedStreamEnds`, `WaitingTaskHearsKick`, `LostClientIsReleased`,
`WriterEndEndsConnection`, `KickEndsStream`, `NothingOwedForever`,
`StopsWhenItShould`, `StartSettles`): fairness and `ENABLED` are outside the
prover's reach.

## Not modelled

- The `cherenkov_sessions_active` gauge, the publication counter and the
  Prometheus recorder; logging.
- The text of SSE events, CORS and keep-alive comments; the WebSocket upgrade,
  the WebTransport handshake and its byte framing: library calls and layout.
- `health`, the subscribers of a channel and the console of the admin API: they
  read or return a constant.
- Signatures, base64, JSON Schema evaluation, glob matching and the CRDT merge:
  libraries, modelled by the verdict or the set they stand for.
- Parsing of the configuration file (figment): a file loads or does not. The
  channel kind chosen per namespace is part of `HubRequests`' configurations,
  not of `Server`'s.
- Channel names with characters beyond ASCII in an SSE query: `IsUtf8` takes no
  byte from 128 on for text, so `QueryUnderstood` and its theorem speak of ASCII
  names.
- What a subscribe without `since_offset` may miss between its cursor and its
  stream: the model has it, and the code promises such a client nothing.
- A Yjs update that the library refuses after it applied part of it
  (`yjs.rs:106-117`): a refused update is taken to leave the document as it was.
- `run_with_listener`, the entry point of the integration tests.
- The SDK generator (text generation), the facade and the test support crate
  (re-exports).
