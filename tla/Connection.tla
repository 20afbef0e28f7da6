------------------------------ MODULE Connection ------------------------------
(***************************************************************************)
(* One connection of the WebSocket transport (handle_socket) or of the     *)
(* WebTransport one (handle_incoming): the task that reads frames and runs *)
(* the hub's handlers one at a time, the writer task that drains the       *)
(* bounded outbox to the socket, a forwarder that shares the outbox, and   *)
(* Hub::kick_session on another thread.                                    *)
(*                                                                         *)
(* Notify::notify_waiters wakes the Notified futures that exist and leaves *)
(* no permit: only a task inside select! hears it, and only if that select *)
(* does not end with a message the reader had ready.  A send to the outbox *)
(* waits while it is full and fails once the writer dropped the receiver.  *)
(***************************************************************************)
EXTENDS Integers, Sequences

CONSTANTS
    OutboxCapacity, \* outbox_capacity, at least 1
    MaxFrames,      \* bound: frames the client sends
    MaxPublications \* bound: publications forwarded

ASSUME ConnectionConstants ==
    /\ OutboxCapacity \in Nat \ {0}
    /\ MaxFrames \in Nat /\ MaxPublications \in Nat

VARIABLES
    transport,      \* "ws" or "wt"
    loop,           \* where the connection task is
    frame,          \* the client frame it handles: its kind and number
    frames,         \* frames read so far
    registered,     \* the session is in the SessionRegistry
    notified,       \* the Notified of the current select! has fired
    kicker,         \* progress of kick_session
    kicked,         \* history variable: the frames read when the kick found
                    \* the task inside select!, or NotKicked
    subscribed,     \* a forwarder feeds the outbox
    forwarded,      \* publications it has sent
    outbox,         \* frames in the mpsc channel
    writer,         \* the writer task
    inflight,       \* the frame it is writing
    wire,           \* frames written to the socket
    peer            \* the client's side of the socket

vars == <<transport, loop, frame, frames, registered, notified, kicker, kicked, subscribed,
          forwarded, outbox, writer, inflight, wire, peer>>

\* What a client can send: a request that is always answered (connect,
\* subscribe, unsubscribe), a publish that is answered only when it fails,
\* a message without a frame (text, ping, pong), bytes that do not decode.
Kinds == {"request", "publish", "other", "undecodable"}

NoFrame == [kind |-> "none", id |-> 0]
Reply(n) == [kind |-> "reply", id |-> n]
InvalidFrame == [kind |-> "invalid_frame", id |-> 0]
Publication == [kind |-> "publication", id |-> 0]

\* Only the WebSocket transport's select! waits for the writer task too.
WatchWriter == transport = "ws"

\* The receiver is a local of the writer task, dropped when the task ends.
ReceiverAlive == writer \in {"recv", "writing", "closing"}

NotKicked == -1

-----------------------------------------------------------------------------
Init ==
    /\ transport \in {"ws", "wt"}
    /\ loop = "opened"
    /\ frame = NoFrame
    /\ frames = 0
    /\ registered = TRUE
    /\ notified = FALSE
    /\ kicker = "none"
    /\ kicked = NotKicked
    /\ subscribed = FALSE
    /\ forwarded = 0
    /\ outbox = <<>>
    /\ writer = "recv"
    /\ inflight = NoFrame
    /\ wire = <<>>
    /\ peer = "open"

Goto(l) == loop' = l

Rest == <<frames, registered, kicker, kicked, subscribed, forwarded, outbox, writer, inflight, wire, peer>>

\* The loop's next iteration evaluates select! and creates a fresh Notified.
EnterSelect ==
    /\ loop = "opened"
    /\ Goto("select")
    /\ notified' = FALSE
    /\ UNCHANGED <<transport, frame, Rest>>

\* Mutant: select! without the writer branch.
WriterBranchMissing ==
    /\ loop = "select" /\ WatchWriter /\ ~ReceiverAlive
    /\ Goto("polling")
    /\ UNCHANGED <<transport, frame, notified, Rest>>

\* A poll of select! is biased: the writer's end, the shutdown, the reader.
WriterBranch ==
    /\ loop = "select" /\ WatchWriter /\ ~ReceiverAlive
    /\ Goto("abort")
    /\ UNCHANGED <<transport, frame, notified, Rest>>

ShutdownBranch ==
    /\ loop = "select" /\ notified
    /\ WatchWriter => ReceiverAlive
    /\ Goto("abort")
    /\ UNCHANGED <<transport, frame, notified, Rest>>

\* The first branches were pending.  What they wait for may come from here
\* on; it is lost with this select! if the reader is ready, and otherwise
\* wakes the task.
PollReader ==
    /\ loop = "select" /\ ~notified
    /\ WatchWriter => ReceiverAlive
    /\ Goto("polling")
    /\ UNCHANGED <<transport, frame, notified, Rest>>

\* Mutant: a read that has nothing yet restarts the loop, with a new Notified.
ReaderPendingRestarts ==
    /\ loop = "polling" /\ peer # "closed"
    /\ Goto("select")
    /\ notified' = FALSE
    /\ UNCHANGED <<transport, frame, Rest>>

ReaderPending ==
    /\ loop = "polling" /\ peer # "closed"
    /\ Goto("select")
    /\ UNCHANGED <<transport, frame, notified, Rest>>

\* Messages without a frame exist on a WebSocket only.  What a client sent
\* before it closed is still read.
ReadFrame(k) ==
    /\ loop = "polling"
    /\ k = "other" => WatchWriter
    /\ frames < MaxFrames
    /\ frames' = frames + 1
    /\ frame' = [kind |-> k, id |-> frames + 1]
    /\ loop' = CASE k \in {"request", "publish"} -> "handle"
                 [] k = "undecodable" -> "deliver"
                 [] k = "other" -> "opened"
    /\ UNCHANGED <<transport, registered, notified, kicker, kicked, subscribed, forwarded, outbox, writer, inflight, wire, peer>>

\* Mutant: the end of the stream is passed over like a ping.
ReadEndIgnored ==
    /\ loop = "polling"
    /\ Goto("opened")
    /\ UNCHANGED <<transport, frame, notified, Rest>>

\* The stream ends, a read fails (wt: or the length is over 16 MiB), or a
\* Close message arrives.
ReadEnd ==
    /\ loop = "polling"
    /\ Goto("abort")
    /\ UNCHANGED <<transport, frame, notified, Rest>>

\* Mutant: the handler's answer is not delivered.
HandleUnanswered ==
    /\ loop = "handle"
    /\ Goto("opened")
    /\ subscribed' \in IF frame.kind = "request" /\ registered THEN BOOLEAN ELSE {subscribed}
    /\ UNCHANGED <<transport, frame, frames, registered, notified, kicker, kicked, forwarded, outbox, writer, inflight, wire, peer>>

\* The hub's handler ran (SessionGone when the session is not registered):
\* a publish that succeeded is not answered, a subscribe starts a forwarder,
\* at once or after a replay.
Handle ==
    /\ loop = "handle"
    /\ \/ Goto("deliver")
       \/ frame.kind = "publish" /\ registered /\ Goto("opened")
       \/ frame.kind = "request" /\ registered /\ ~subscribed /\ Goto("replay")
    /\ subscribed' \in IF frame.kind = "request" /\ registered /\ loop' # "replay"
                        THEN BOOLEAN ELSE {subscribed}
    /\ UNCHANGED <<transport, frame, frames, registered, notified, kicker, kicked, forwarded, outbox, writer, inflight, wire, peer>>

\* handle_subscribe sends the replayed publications itself, waiting for room
\* like everyone else (as many as the bound leaves); when the outbox is
\* closed the subscribe fails.
ReplaySend ==
    /\ loop = "replay"
    /\ \/ /\ ReceiverAlive /\ Len(outbox) < OutboxCapacity /\ forwarded < MaxPublications
          /\ outbox' = Append(outbox, Publication)
          /\ forwarded' = forwarded + 1
          /\ UNCHANGED <<loop, subscribed>>
       \/ /\ ~ReceiverAlive \/ forwarded = MaxPublications
          /\ Goto("deliver")
          /\ subscribed' = ReceiverAlive
          /\ UNCHANGED <<outbox, forwarded>>
    /\ UNCHANGED <<transport, frame, frames, registered, notified, kicker, kicked, writer, inflight, wire, peer>>

\* deliver looks the session up again: an unregistered one gets no answer.
AfterDelivery == IF frame.kind = "undecodable" THEN "abort" ELSE "opened"

DeliverLookup ==
    /\ loop = "deliver"
    /\ Goto(IF registered THEN "sending" ELSE AfterDelivery)
    /\ UNCHANGED <<transport, frame, notified, Rest>>

DeliverSend ==
    /\ loop = "sending"
    /\ \/ /\ ReceiverAlive /\ Len(outbox) < OutboxCapacity
          /\ outbox' = Append(outbox, IF frame.kind = "undecodable" THEN InvalidFrame ELSE Reply(frame.id))
       \/ ~ReceiverAlive /\ UNCHANGED outbox
    /\ Goto(AfterDelivery)
    /\ UNCHANGED <<transport, frame, frames, registered, notified, kicker, kicked, subscribed, forwarded, writer, inflight, wire, peer>>

\* writer_task.abort(): what it had not written is lost.
AbortWriter ==
    /\ loop = "abort"
    /\ writer' = IF ReceiverAlive THEN "aborted" ELSE writer
    /\ outbox' = <<>>
    /\ inflight' = NoFrame
    /\ Goto("close")
    /\ UNCHANGED <<transport, frame, frames, registered, notified, kicker, kicked, subscribed, forwarded, wire, peer>>

\* hub.close_session and the end of the task: the forwarder is aborted and
\* the socket is dropped.
CloseSession ==
    /\ loop = "close"
    /\ Goto("done")
    /\ registered' = FALSE
    /\ subscribed' = FALSE
    /\ peer' = "closed"
    /\ UNCHANGED <<transport, frame, frames, notified, kicker, kicked, forwarded, outbox, writer, inflight, wire>>

-----------------------------------------------------------------------------
WriterRecv ==
    /\ writer = "recv" /\ outbox # <<>>
    /\ writer' = "writing"
    /\ inflight' = Head(outbox)
    /\ outbox' = Tail(outbox)
    /\ UNCHANGED <<transport, loop, frame, frames, registered, notified, kicker, kicked, subscribed, forwarded, wire, peer>>

\* A write completes only as fast as the client reads.
WriterSend ==
    /\ writer = "writing" /\ peer = "open"
    /\ writer' = "recv"
    /\ wire' = Append(wire, inflight)
    /\ inflight' = NoFrame
    /\ UNCHANGED <<transport, loop, frame, frames, registered, notified, kicker, kicked, subscribed, forwarded, outbox, peer>>

\* The write fails: the task leaves its loop and closes the sink ...
WriterFails ==
    /\ writer = "writing" /\ peer # "open"
    /\ writer' = "closing"
    /\ UNCHANGED <<transport, loop, frame, frames, registered, notified, kicker, kicked, subscribed, forwarded, outbox, inflight, wire, peer>>

\* ... and ends; the receiver is dropped with everything in the outbox.
WriterCloses ==
    /\ writer = "closing"
    /\ writer' = "ended"
    /\ outbox' = <<>>
    /\ inflight' = NoFrame
    /\ UNCHANGED <<transport, loop, frame, frames, registered, notified, kicker, kicked, subscribed, forwarded, wire, peer>>

ForwarderSends ==
    /\ subscribed /\ ReceiverAlive
    /\ Len(outbox) < OutboxCapacity
    /\ forwarded < MaxPublications
    /\ forwarded' = forwarded + 1
    /\ outbox' = Append(outbox, Publication)
    /\ UNCHANGED <<transport, loop, frame, frames, registered, notified, kicker, kicked, subscribed, writer, inflight, wire, peer>>

\* kick_session: signal_shutdown reaches the Notified of a task that is
\* inside select!, whether it waits or is just polling the reader, ...
SignalShutdown ==
    /\ kicker = "none" /\ registered
    /\ kicker' = "signalled"
    /\ notified' = (notified \/ loop \in {"select", "polling"})
    /\ kicked' = IF loop \in {"select", "polling"} THEN frames ELSE NotKicked
    /\ UNCHANGED <<transport, loop, frame, frames, registered, subscribed, forwarded, outbox, writer, inflight, wire, peer>>

\* ... then the session is deregistered.
KickDeregister ==
    /\ kicker = "signalled"
    /\ kicker' = "done"
    /\ registered' = FALSE
    /\ UNCHANGED <<transport, loop, frame, frames, notified, kicked, subscribed, forwarded, outbox, writer, inflight, wire, peer>>

\* The client closes the socket, or only stops accepting what we write.
PeerCloses ==
    /\ peer \in {"open", "deaf"}
    /\ peer' = "closed"
    /\ UNCHANGED <<transport, loop, frame, frames, registered, notified, kicker, kicked, subscribed, forwarded, outbox, writer, inflight, wire>>

PeerStopsReading ==
    /\ peer = "open"
    /\ peer' = "deaf"
    /\ UNCHANGED <<transport, loop, frame, frames, registered, notified, kicker, kicked, subscribed, forwarded, outbox, writer, inflight, wire>>

\* The connection's task has returned and no kick is half way.
Finished == loop = "done" /\ kicker # "signalled" /\ UNCHANGED vars

-----------------------------------------------------------------------------
LoopStep ==
    \/ EnterSelect \/ WriterBranch \/ ShutdownBranch \/ PollReader \/ ReaderPending \/ ReadEnd
    \/ Handle \/ ReplaySend \/ DeliverLookup \/ DeliverSend \/ AbortWriter \/ CloseSession

WriterStep == WriterRecv \/ WriterFails \/ WriterCloses

Next ==
    \/ LoopStep
    \/ \E k \in Kinds : ReadFrame(k)
    \/ WriterStep \/ WriterSend
    \/ ForwarderSends
    \/ SignalShutdown \/ KickDeregister
    \/ PeerCloses \/ PeerStopsReading
    \/ Finished

Spec == Init /\ [][Next]_vars

\* tokio polls both tasks when they can go on, a failing socket tells the
\* writer, and closing a sink that failed returns.  No client has to read,
\* send or close.
FairSpec == Spec /\ WF_vars(LoopStep) /\ WF_vars(WriterStep) /\ WF_vars(KickDeregister)

\* The same with a client that reads what it is sent.
ReadingSpec == FairSpec /\ WF_vars(WriterSend)

-----------------------------------------------------------------------------
Frame == [kind : {"reply", "invalid_frame", "publication"}, id : 0..MaxFrames]

TypeOK ==
    /\ transport \in {"ws", "wt"}
    /\ loop \in {"opened", "select", "polling", "handle", "replay", "deliver", "sending", "abort", "close", "done"}
    /\ frame \in [kind : Kinds \union {"none"}, id : 0..MaxFrames]
    /\ frames \in 0..MaxFrames
    /\ registered \in BOOLEAN /\ notified \in BOOLEAN /\ subscribed \in BOOLEAN
    /\ kicker \in {"none", "signalled", "done"} /\ kicked \in -1..MaxFrames
    /\ forwarded \in 0..MaxPublications
    /\ outbox \in Seq(Frame) /\ Len(outbox) <= OutboxCapacity
    /\ writer \in {"recv", "writing", "closing", "ended", "aborted"}
    /\ inflight \in Frame \union {NoFrame}
    /\ wire \in Seq(Frame)
    /\ peer \in {"open", "deaf", "closed"}

\* All frames that were handed to the outbox: written, in the writer's hands,
\* waiting.  The last two are gone when the writer ends.
Pipeline == wire \o (IF writer \in {"writing", "closing"} THEN <<inflight>> ELSE <<>>) \o outbox

\* The places of the replies among them.
Replies == {i \in DOMAIN Pipeline : Pipeline[i].kind = "reply"}

(* Replies keep the order of the requests although publications share the  *)
(* outbox: the task handles one frame at a time and the pipeline is FIFO.  *)
(* Before a kick and while the writer lives, a frame that needs an answer  *)
(* has been answered by the time the next one can be read.                 *)
RepliesFollowRequests ==
    /\ \A i, j \in Replies : i < j => Pipeline[i].id < Pipeline[j].id
    /\ loop = "select" /\ registered /\ ReceiverAlive /\ frame.kind = "request"
         => \E i \in Replies : Pipeline[i].id = frame.id /\ \A j \in Replies : j <= i

(* A kick that finds the connection task inside select! tears it down, at  *)
(* whatever point of its polls, unless a frame the client had sent wins    *)
(* the race: the pending branches of one select! keep their Notified.      *)
WaitingTaskHearsKick == (kicked # NotKicked) ~> (loop = "done" \/ frames > kicked)

(* A client that went away is cleaned up, whatever the connection was      *)
(* doing: even blocked on a full outbox, since the writer's failure closes *)
(* it.  The session then is not registered.                                *)
LostClientIsReleased == (peer = "closed") ~> (loop = "done" /\ ~registered)

(* The end of the writer task ends a WebSocket connection.                 *)
WriterEndEndsConnection == (WatchWriter /\ writer = "ended") ~> (loop = "done")

-----------------------------------------------------------------------------
(* Hub::kick_session: transports learn of the kick through the notifier    *)
(* and tear down the underlying connection.                                *)
KickTearsDown == (kicker = "done") ~> (loop = "done")
===============================================================================
