----------------------------- MODULE PeerChannels -----------------------------
(***************************************************************************)
(* The session channel of a peer connection, from the controlled to the    *)
(* controller endpoint: the watermarks of the data channel, the queue in   *)
(* front of it, the cursor shapes that are cut into chunks and fill what   *)
(* the messages leave free, and the assembler that puts them together at   *)
(* the other end, through interruptions and restarts of the stream.        *)
(*                                                                         *)
(* A message is its number, and the key by which a newer one replaces it:  *)
(* "" for the terminal and the file transfer, its type for the session's;  *)
(* bytes is what it takes of the queue's room.                             *)
(***************************************************************************)
EXTENDS Integers, Sequences, SequencesExt, FiniteSets

CONSTANTS
    Keys,          \* the types of the session messages
    QueueMessages, \* messages the queue holds
    QueueBytes,    \* bytes it holds, in the smallest message's
    LowBytes,      \* m_nLowWatermarkBytes, in messages
    HighBytes,     \* m_nHighWatermarkBytes, in messages
    ChunkCounts,   \* in how many chunks a shape may be cut
    MaxSends,      \* bounds: messages sent and shapes captured
    MaxShapes,     \*   shapes captured
    MaxBreaks      \*   interruptions, restarts of the stream, delays

ASSUME PeerChannelsAssumption ==
    /\ Keys # {} /\ "" \notin Keys
    /\ QueueMessages \in Nat \ {0} /\ QueueBytes \in Nat \ {0}
    /\ LowBytes \in Nat /\ HighBytes \in Nat /\ LowBytes < HighBytes
    /\ ChunkCounts \subseteq Nat \ {0}
    /\ MaxSends \in Nat /\ MaxShapes \in Nat /\ MaxBreaks \in Nat

VARIABLES
    channel,   \* the host's: open, backpressured, in its buffer, a change to handle
    sendQueue, \* m_sessionSendQueue
    shape,     \* m_cursorShapeMessages and m_nCursorShapeMessageIndex
    network,   \* what was handed to the channel, the last of it still buffered
    commands,  \* start and stop of the stream, on their way to the host
    phase,     \* of each endpoint
    assembler, \* KCursorShapeAssembler, with m_nInvalidCursorShapes
    shown,     \* the cursor of the controller's window
    tally,     \* what was accepted, replaced and received, for the properties
    breaks     \* how many interruptions, restarts and delays there were

peerVars == <<channel, sendQueue, shape, network, commands, phase, assembler, shown, tally, breaks>>

NoShape == [seq |-> 0, total |-> 0, next |-> 0]
NoAssembly == [active |-> FALSE, seq |-> 0, total |-> 0, got |-> 0]
MaximumInvalid == 3

\* A message, or a chunk of a shape.
Text(n, key, bytes) == [kind |-> "text", n |-> n, key |-> key, bytes |-> bytes]
Chunk(seq, total, at) == [kind |-> "chunk", seq |-> seq, total |-> total, at |-> at]
Texts(s) == SelectSeq(s, LAMBDA m : m.kind = "text")

PeerInit ==
    /\ channel = [open |-> TRUE, backpressured |-> FALSE, buffered |-> 0, changed |-> FALSE]
    /\ sendQueue = <<>> /\ shape = NoShape /\ network = <<>> /\ commands = <<>>
    /\ phase = [controlled |-> "Streaming", controller |-> "Streaming"]
    /\ assembler = [pending |-> NoAssembly, highest |-> 0, invalid |-> 0, ended |-> FALSE]
    /\ shown = NoShape
    /\ tally = [sent |-> 0, plain |-> 0, read |-> 0, last |-> 0, lost |-> FALSE,
                newest |-> [k \in Keys |-> 0], known |-> [k \in Keys |-> 0], shapes |-> 0]
    /\ breaks = 0

------------------------------------------------------------------------------
(* KWebRtcDataChannel and the flushes of KWebRtcPeer.  c is the channel, w   *)
(* what was handed to it, q the queue, s the shape.                          *)

IsBackpressured(c) == c.backpressured

\* sendText: the buffered amount is read after the message was added to it.
SendText(c) ==
    [c EXCEPT !.buffered = @ + 1, !.backpressured = @ \/ c.buffered + 1 >= HighBytes]

\* How many of a list of messages are sent before the channel is full.
Room(c) == IF c.backpressured THEN 0 ELSE HighBytes - c.buffered
Sends(c, s) == IF Room(c) < Len(s) THEN Room(c) ELSE Len(s)

SentTo(c, k) == [c EXCEPT !.buffered = @ + k, !.backpressured = @ \/ c.buffered + k >= HighBytes]

RestOf(s) == [i \in 1 .. s.total - s.next |-> Chunk(s.seq, s.total, s.next + i)]

\* flushCursorShapeQueue.
FlushCursorShapeQueue(c, w, q, s) ==
    LET k == IF q = <<>> THEN Sends(c, RestOf(s)) ELSE 0
    IN  /\ channel' = SentTo(c, k)
        /\ network' = w \o SubSeq(RestOf(s), 1, k)
        /\ sendQueue' = q
        /\ shape' = IF s.next + k = s.total THEN NoShape ELSE [s EXCEPT !.next = @ + k]

\* flushSessionQueue: the messages first, then what is left of the shape.
FlushSessionQueue(c) ==
    LET k == Sends(c, sendQueue)
    IN  FlushCursorShapeQueue(SentTo(c, k), network \o SubSeq(sendQueue, 1, k),
                              SubSeq(sendQueue, k + 1, Len(sendQueue)), shape)

\* handleBufferedAmountChange: of several posted changes the last one counts.
\* Fault: the channel is free again, and nobody is told.
HandleBufferedAmountQuietly ==
    /\ channel.changed /\ channel.open
    /\ channel' = [channel EXCEPT !.changed = FALSE,
                        !.backpressured = @ /\ channel.buffered > LowBytes]
    /\ UNCHANGED <<sendQueue, shape, network, commands, phase, assembler, shown, tally, breaks>>

HandleBufferedAmountChange ==
    /\ channel.changed /\ channel.open
    /\ LET low == channel.backpressured /\ channel.buffered <= LowBytes
           c == [channel EXCEPT !.changed = FALSE, !.backpressured = @ /\ ~low]
       IN  IF low
               THEN FlushSessionQueue(c)
               ELSE channel' = c /\ UNCHANGED <<sendQueue, shape, network>>
    /\ UNCHANGED <<commands, phase, assembler, shown, tally, breaks>>

\* The network takes a message from the buffer, and posts the change.
BufferDrains ==
    /\ channel.buffered > 0
    /\ channel' = [channel EXCEPT !.buffered = @ - 1, !.changed = TRUE]
    /\ UNCHANGED <<sendQueue, shape, network, commands, phase, assembler, shown, tally, breaks>>

------------------------------------------------------------------------------
(* KOutboundMessageQueue                                                     *)

PlacesOf(q, key) == {i \in 1 .. Len(q) : q[i].key = key}
BytesOf(q) == FoldLeft(LAMBDA sum, m : sum + m.bytes, 0, q)
Fits(q, bytes) == Len(q) < QueueMessages /\ BytesOf(q) + bytes <= QueueBytes

\* Fault: what must arrive is given up with the rest.
MakeRoomOfAny(q, bytes) == IF Fits(q, bytes) THEN q ELSE SubSeq(q, 2, Len(q))

\* makeRoomForReliable gives up the messages that have a key, from the first on
\* and no more than it needs; all of them, and in vain, if that is not enough.
MakeRoomForReliable(q, bytes) ==
    LET without(i) == SelectSeq(SubSeq(q, 1, i), LAMBDA m : m.key = "") \o SubSeq(q, i + 1, Len(q))
        enough == {i \in 0 .. Len(q) : Fits(without(i), bytes)}
    IN  without(IF enough = {} THEN Len(q) ELSE CHOOSE i \in enough : \A j \in enough : i <= j)

\* enqueue: a message of the same key is replaced by the new one, at the end,
\* unless the new one is too long for that: then it is dropped.
Enqueued(m) ==
    IF m.key # "" /\ PlacesOf(sendQueue, m.key) # {}
        THEN LET rest == RemoveAt(sendQueue, CHOOSE i \in PlacesOf(sendQueue, m.key) : TRUE)
             IN  IF BytesOf(rest) + m.bytes > QueueBytes THEN sendQueue ELSE Append(rest, m)
        ELSE LET q == MakeRoomForReliable(sendQueue, m.bytes)
             IN  IF Fits(q, m.bytes) THEN Append(q, m) ELSE q

------------------------------------------------------------------------------
(* Sending                                                                   *)

\* The condition under which sendSessionMessage and its like do not queue.
SendsAtOnce(c) == ~IsBackpressured(c) /\ sendQueue = <<>>

\* sendSessionMessage, sendTerminalControlMessage and
\* sendFileTransferLifecycleMessage; a full queue is reported to the caller, a
\* message dropped in favour of an older one of its type is not.
SendSessionMessage(key, bytes) ==
    LET n == tally.sent + 1
        m == Text(n, key, bytes)
        q == Enqueued(m)
        accepted == SendsAtOnce(channel) \/ (q # <<>> /\ Last(q) = m)
        given == {k \in Keys : ~SendsAtOnce(channel) /\ PlacesOf(sendQueue, k) # {} /\ PlacesOf(q, k) = {}}
    IN  /\ channel.open /\ tally.sent + tally.shapes < MaxSends
        /\ IF SendsAtOnce(channel)
               THEN /\ channel' = SendText(channel)
                    /\ network' = Append(network, m)
                    /\ UNCHANGED sendQueue
               ELSE sendQueue' = q /\ UNCHANGED <<channel, network>>
        /\ tally' = [tally EXCEPT
               !.sent = n,
               !.plain = IF accepted /\ key = "" THEN @ + 1 ELSE @,
               !.newest = [k \in Keys |-> IF k \in given THEN tally.known[k]
                                          ELSE IF accepted /\ k = key THEN n ELSE @[k]]]
        /\ UNCHANGED <<shape, commands, phase, assembler, shown, breaks>>

\* publishCursorShape and sendCursorShape: one latest shape only.
PublishCursorShape ==
    /\ phase.controlled = "Streaming" /\ channel.open /\ tally.shapes < MaxShapes
    /\ tally.sent + tally.shapes < MaxSends
    /\ \E total \in ChunkCounts :
           LET seq == tally.shapes + 1
           IN  /\ FlushCursorShapeQueue(channel, network, sendQueue,
                        [seq |-> seq, total |-> total, next |-> 0])
               /\ tally' = [tally EXCEPT !.shapes = seq]
    /\ UNCHANGED <<commands, phase, assembler, shown, breaks>>

------------------------------------------------------------------------------
(* Receiving                                                                 *)

\* Fault: a chunk that does not follow the last one is taken as well.
ResultUnordered(a, m) ==
    CASE m.seq < a.highest \/ (m.seq = a.highest /\ ~a.pending.active) -> "Ignored"
      [] m.at = m.total -> "Complete"
      [] OTHER -> "Incomplete"

\* KCursorShapeAssembler::accept, of the assembler a and a chunk m.
Result(a, m) ==
    LET p == a.pending
        fresh == m.seq > a.highest
    IN  CASE m.seq < a.highest \/ (m.seq = a.highest /\ ~p.active) -> "Ignored"
          [] (fresh /\ m.at # 1) \/ (~fresh /\ m.at # p.got + 1) -> "Rejected"
          [] m.at = m.total -> "Complete"
          [] OTHER -> "Incomplete"

Accept(a, m) ==
    CASE Result(a, m) = "Ignored" -> a
      [] Result(a, m) = "Rejected" ->
            [a EXCEPT !.pending = NoAssembly, !.invalid = @ + 1,
                      !.ended = @ \/ a.invalid + 1 >= MaximumInvalid]
      [] Result(a, m) = "Complete" ->
            [a EXCEPT !.pending = NoAssembly, !.highest = m.seq]
      [] OTHER ->
            [a EXCEPT !.highest = m.seq,
                      !.pending = [active |-> TRUE, seq |-> m.seq, total |-> m.total,
                                   got |-> IF m.seq > a.highest THEN 1 ELSE @.got + 1]]

\* A message of the session reaches its handler.
ReceiveText(m) ==
    /\ tally' = [tally EXCEPT
           !.read = IF m.key = "" THEN @ + 1 ELSE @,
           !.last = m.n,
           !.lost = @ \/ m.n <= tally.last,
           !.known = IF m.key = "" THEN @ ELSE [@ EXCEPT ![m.key] = m.n]]
    /\ UNCHANGED <<assembler, shown>>

\* handleCursorShapeMessage: not in any state but Streaming.
HandleCursorShapeMessage(m) ==
    /\ IF phase.controller = "Streaming"
           THEN /\ assembler' = Accept(assembler, m)
                /\ shown' = IF Result(assembler, m) = "Complete"
                                THEN [seq |-> m.seq, total |-> m.total,
                                      next |-> IF m.seq = assembler.pending.seq
                                                   THEN assembler.pending.got + 1 ELSE 1]
                                ELSE shown
           ELSE UNCHANGED <<assembler, shown>>
    /\ UNCHANGED tally

MessageArrives ==
    /\ Len(network) > channel.buffered /\ ~assembler.ended
    /\ LET m == Head(network)
       IN  IF m.kind = "text" THEN ReceiveText(m) ELSE HandleCursorShapeMessage(m)
    /\ network' = Tail(network)
    /\ UNCHANGED <<channel, sendQueue, shape, commands, phase, breaks>>

\* m_pCursorAssemblyTimer: what is left of a shape did not come in time.
AssemblyExpires ==
    /\ assembler.pending.active /\ breaks < MaxBreaks
    /\ assembler' = [assembler EXCEPT !.pending = NoAssembly]
    /\ breaks' = breaks + 1
    /\ UNCHANGED <<channel, sendQueue, shape, network, commands, phase, shown, tally>>

------------------------------------------------------------------------------
(* The states of the two endpoints                                           *)

\* publishSessionState outside of Streaming and Reconnecting.
ClearsAtController ==
    /\ assembler' = [assembler EXCEPT !.pending = NoAssembly]
    /\ shown' = NoShape

\* enterRemoteDesktop and leaveRemoteDesktop of the controller.
ControllerLeaves ==
    /\ phase.controller = "Streaming" /\ breaks < MaxBreaks
    /\ phase' = [phase EXCEPT !.controller = "Connected"]
    /\ commands' = Append(commands, "Stop")
    /\ ClearsAtController
    /\ breaks' = breaks + 1
    /\ UNCHANGED <<channel, sendQueue, shape, network, tally>>

ControllerEnters ==
    /\ phase.controller = "Connected"
    /\ phase' = [phase EXCEPT !.controller = "Streaming"]
    /\ commands' = Append(commands, "Start")
    /\ UNCHANGED <<channel, sendQueue, shape, network, assembler, shown, tally, breaks>>

\* handleStartStreamingMessage and handleStopStreamingMessage; out of place
\* they are refused.  The restarted capture has a shape to show.
HostCommanded ==
    /\ commands # <<>>
    /\ commands' = Tail(commands)
    /\ CASE Head(commands) = "Stop" /\ phase.controlled = "Streaming" ->
              phase' = [phase EXCEPT !.controlled = "Connected"] /\ shape' = NoShape
         [] Head(commands) = "Start" /\ phase.controlled = "Connected" ->
              phase' = [phase EXCEPT !.controlled = "Streaming"] /\ UNCHANGED shape
         [] OTHER -> UNCHANGED <<phase, shape>>
    /\ UNCHANGED <<channel, sendQueue, network, assembler, shown, tally, breaks>>

\* An endpoint finds its connection interrupted, and restored, by itself: what
\* the channel delivers meanwhile is handled in that state.
Interrupted(e) ==
    /\ phase[e] = "Streaming" /\ breaks < MaxBreaks
    /\ phase' = [phase EXCEPT ![e] = "Reconnecting"]
    /\ breaks' = breaks + 1
    /\ UNCHANGED <<channel, sendQueue, shape, network, commands, assembler, shown, tally>>

Restored(e) ==
    /\ phase[e] = "Reconnecting"
    /\ phase' = [phase EXCEPT ![e] = "Streaming"]
    /\ UNCHANGED <<channel, sendQueue, shape, network, commands, assembler, shown, tally, breaks>>

\* handleSessionChannelChanged: what was not sent is gone with the channel.
ChannelCloses ==
    /\ channel.open /\ breaks < MaxBreaks
    /\ channel' = [channel EXCEPT !.open = FALSE]
    /\ sendQueue' = <<>> /\ shape' = NoShape
    /\ breaks' = breaks + 1
    /\ UNCHANGED <<network, commands, phase, assembler, shown, tally>>

PeerNext ==
    \/ HandleBufferedAmountChange
    \/ BufferDrains
    \/ \E key \in Keys \cup {""}, bytes \in 1 .. QueueBytes : SendSessionMessage(key, bytes)
    \/ PublishCursorShape
    \/ MessageArrives
    \/ AssemblyExpires
    \/ ControllerLeaves
    \/ ControllerEnters
    \/ HostCommanded
    \/ \E e \in DOMAIN phase : Interrupted(e) \/ Restored(e)
    \/ ChannelCloses

PeerSpec == PeerInit /\ [][PeerNext]_peerVars

------------------------------------------------------------------------------
(* What must hold.                                                           *)

Flight == Texts(network) \o sendQueue

\* While the channel is open, a message of the terminal or of the file transfer
\* that was accepted arrives, in its order; one of the session too, unless a newer
\* one of its type takes its place or the full queue gives it up.  "Accepted"
\* leaves out the message enqueue dropped although its sender is told otherwise.
AcceptedArrives ==
    /\ ~tally.lost
    /\ channel.open =>
        /\ Len(SelectSeq(Flight, LAMBDA m : m.key = "")) = tally.plain - tally.read
        /\ \A k \in Keys : tally.newest[k] > tally.known[k] =>
               \E i \in DOMAIN Flight : Flight[i].n = tally.newest[k]
        /\ \A i \in 1 .. Len(Flight) - 1 : Flight[i].n < Flight[i + 1].n

\* Whatever waits at an open channel waits for a notice that is still to come.
NothingStalls ==
    channel.open =>
        /\ sendQueue # <<>> \/ shape # NoShape => channel.backpressured
        /\ channel.backpressured => channel.buffered > LowBytes \/ channel.changed

\* The cursor shown is one shape, whole; when nothing is on its way it is the
\* last one that was captured, unless an interruption took a part of it.
CursorIsWhole ==
    /\ shown.next = shown.total
    /\ (breaks = 0 /\ network = <<>> /\ shape = NoShape) => shown.seq = tally.shapes

\* The session channel carries what it accepts, and the cursor with it.
ChannelDelivers == AcceptedArrives /\ NothingStalls /\ CursorIsWhole
=============================================================================
