------------------------------ MODULE RemoteInput ------------------------------
(***************************************************************************)
(* The way of the mouse from the picture of the controller to the desktop  *)
(* of the host.                                                            *)
(*                                                                         *)
(* KVideoRenderWidget takes the events of the mouse, thins out the moves   *)
(* and maps them to the remote screen; KSessionViewModel numbers them;     *)
(* KSessionCoordinator lets them pass while it streams; KWebRtcPeer routes *)
(* them (KMouseInputRoutingState) to the reliable input channel with its   *)
(* queue (KOutboundMessageQueue), or to the unordered, unreliable realtime *)
(* channel; at the host KSessionCoordinator and KInputInjector drop what   *)
(* comes too late and KWindowsInputInjector remembers what it pressed.     *)
(*                                                                         *)
(* A message is a move, a button going down or up, or another reliable     *)
(* message (wheel, key, text).  All messages have the same size.  The      *)
(* bytes a channel has buffered are the messages the host has not read.    *)
(***************************************************************************)
EXTENDS Integers, Sequences, FiniteSets, SequencesExt

CONSTANTS
    Buttons,       \* the buttons of the mouse
    OrderedDrag,   \* orderedMouseDrag and realtime input were negotiated
    Margins,       \* the user lets go of buttons outside the picture, too
    QueueLimit,    \* kInputQueueMessages
    High,          \* kInputHighWatermarkBytes, in messages
    Low,           \* kInputLowWatermarkBytes, in messages
    MaxMoves,      \* bound on the moves of the first session
    MaxClicks,     \* bound on its other events
    MaxLater,      \* bound on each of them in the later sessions
    MaxSessions,   \* bound on the sessions
    MaxTroubles    \* bound on interruptions, failures and leaving the desktop

ASSUME InputAssumption ==
    /\ OrderedDrag \in BOOLEAN /\ Margins \in BOOLEAN
    /\ QueueLimit \in Nat \ {0} /\ Low \in Nat /\ High \in Nat /\ Low < High
    /\ MaxMoves \in Nat /\ MaxClicks \in Nat /\ MaxLater \in Nat
    /\ MaxSessions \in Nat /\ MaxTroubles \in Nat

VARIABLES
    user,      \* what the user holds, and the widget's pending move and double click
    ctl,       \* the controller: session state and the numbers of its view model
    routing,   \* KMouseInputRoutingState
    queue,     \* m_inputSendQueue
    latest,    \* m_realtimeInputSendQueue, whose moves replace each other
    wire,      \* the reliable channel to the host
    full,      \* it is backpressured
    air,       \* the realtime channel
    control,   \* Start and Stop on the session channel
    host,      \* the host: session state and KInputInjector
    down,      \* m_pressedMouseButtons of KWindowsInputInjector
    session,   \* the number of the session
    troubles,  \* interruptions, failures and leaves so far
    sent,      \* history: reliable messages and button changes sent
    cursor,    \* history: the last move the host made since it released all inputs
    last       \* history: the last button change the host handled, what it missed

inputVars == <<user, ctl, routing, queue, latest>>
channelVars == <<wire, full, air, control>>
hostVars == <<host, down, cursor, last>>
vars == <<inputVars, channelVars, hostVars, session, troubles, sent>>

NoButton == "none"
NoKey == -1
MoveKey == 0

\* n numbers moves and other messages apart; made is the last button change
\* before it, ord its place among the reliable messages that are no moves.
Message(kind, button, n) ==
    [kind |-> kind, button |-> button, n |-> n,
     made |-> sent.buttons + (IF kind \in {"down", "up"} THEN 1 ELSE 0),
     ord |-> IF kind = "move" THEN 0 ELSE sent.reliable + 1]

Trouble ==
    /\ troubles < MaxTroubles
    /\ troubles' = troubles + 1

------------------------------------------------------------------------------
(* KMouseInputRoutingState and the queues of KWebRtcPeer.                    *)

NoRouting == [epoch |-> 0, pressed |-> {}]

Presses(m) == m.kind \in {"down", "up"}

\* The state after m, whose buttons and epochs separate what may be merged.
Route(r, m) ==
    CASE m.kind = "down"  -> [epoch |-> r.epoch + 1, pressed |-> r.pressed \union {m.button}]
      [] m.kind = "up"    -> [epoch |-> r.epoch + 1, pressed |-> r.pressed \ {m.button}]
      [] m.kind = "other" -> IF OrderedDrag /\ r.pressed # {}
                             THEN [r EXCEPT !.epoch = @ + 1] ELSE r
      [] OTHER            -> r

UsesRealtime(r, m) == m.kind = "move" /\ OrderedDrag /\ r.pressed = {}

Key(r, m) ==
    IF m.kind # "move" THEN NoKey
    ELSE IF OrderedDrag /\ r.pressed # {} THEN r.epoch ELSE MoveKey

Keyed(q) == {i \in DOMAIN q : q[i].key # NoKey}

\* Fault: the oldest message makes room, whatever it is.
MakeAnyRoom(q) == IF q = <<>> THEN q ELSE Tail(q)

\* Room for a reliable message is made by dropping the first that is not.
MakeRoom(q) ==
    IF Keyed(q) = {} THEN q
    ELSE RemoveAt(q, CHOOSE i \in Keyed(q) : \A j \in Keyed(q) : i <= j)

\* The queue after e, and whether e overflowed it.
Enqueue(q, e) ==
    LET same == {i \in Keyed(q) : q[i].key = e.key}
        roomy == IF Len(q) < QueueLimit THEN q ELSE MakeRoom(q)
    IN IF same # {}
       THEN [queue |-> Append(RemoveAt(q, CHOOSE i \in same : \A j \in same : i >= j), e),
             overflow |-> FALSE]
       ELSE IF e.key # NoKey
       THEN [queue |-> IF Len(q) < QueueLimit THEN Append(q, e) ELSE q, overflow |-> FALSE]
       ELSE IF Len(roomy) < QueueLimit
       THEN [queue |-> Append(roomy, e), overflow |-> FALSE]
       ELSE [queue |-> q, overflow |-> TRUE]

\* A channel takes messages until it is backpressured.
FlushInputQueue(q, w) ==
    LET k == IF Len(q) < High - Len(w) THEN Len(q) ELSE High - Len(w)
    IN /\ wire' = w \o [i \in 1 .. k |-> q[i].m]
       /\ queue' = SubSeq(q, k + 1, Len(q))
       /\ full' = (Len(w) + k >= High)

Busy == Cardinality(air) >= High

------------------------------------------------------------------------------
(* The end of the session, and what releases the inputs of the host.         *)

NoMove == [n |-> 0, made |-> 0, after |-> 0, held |-> {}]

NoHost(phase) == [phase |-> phase, restore |-> "Connected",
                  pointer |-> 0, reliable |-> 0, pressed |-> {}]

\* Fault: the sequence numbers outlive the release.
ReleaseKeepsNumbers(phase) ==
    host' = [host EXCEPT !.phase = phase, !.pressed = {}] /\ down' = {} /\ cursor' = NoMove

\* Fault: the buttons stay down.
ReleaseLeavesButtons(phase) ==
    /\ host' = [NoHost(phase) EXCEPT !.restore = host.restore]
    /\ cursor' = NoMove /\ UNCHANGED down

\* KInputInjector::releaseAllInputs with the state of the session.
ReleaseAllInputs(phase) ==
    /\ host' = [NoHost(phase) EXCEPT !.restore = host.restore]
    /\ down' = {} /\ cursor' = NoMove

\* The channel of the controller closes: queue and routing start anew.
ControllerEnds ==
    /\ ctl' = [ctl EXCEPT !.phase = "Down"]
    /\ queue' = <<>> /\ latest' = <<>> /\ routing' = NoRouting

\* handleInputChannelChanged, or the end of the session at the controller.
ControllerStops ==
    /\ ctl.phase # "Down"
    /\ ControllerEnds
    /\ UNCHANGED <<user, channelVars, hostVars, session, troubles, sent>>

HostStops ==
    /\ host.phase # "Down"
    /\ ReleaseAllInputs("Down")
    /\ UNCHANGED <<inputVars, channelVars, last, session, troubles, sent>>

\* Capabilities were negotiated for a new session.
StartSession ==
    /\ session < MaxSessions /\ ctl.phase = "Down" /\ host.phase = "Down"
    /\ session' = session + 1
    /\ ctl' = [phase |-> "Connected", restore |-> "Connected", pointer |-> 0, reliable |-> 0]
    /\ routing' = NoRouting /\ queue' = <<>> /\ latest' = <<>>
    /\ wire' = <<>> /\ full' = FALSE /\ air' = {} /\ control' = <<>>
    /\ host' = [host EXCEPT !.phase = "Connected", !.restore = "Connected"]
    /\ sent' = [reliable |-> 0, buttons |-> 0]
    /\ cursor' = NoMove
    /\ last' = [last EXCEPT !.reliable = 0, !.button = 0]
    /\ UNCHANGED <<user, down, troubles>>

------------------------------------------------------------------------------
(* Sending.                                                                  *)

CanSendInput == ctl.phase = "Streaming"

SendRealtime(m) ==
    /\ IF latest # <<>> \/ Busy
       THEN latest' = <<m>> /\ UNCHANGED air
       ELSE air' = air \union {m} /\ UNCHANGED latest
    /\ UNCHANGED <<queue, wire, full, routing>>

\* A reliable message is sent, queued, or overflows the queue and ends the
\* session.
SendReliable(m) ==
    LET e == Enqueue(queue, [m |-> m, key |-> Key(routing, m)])
    IN /\ IF queue = <<>> /\ ~full
          THEN /\ wire' = Append(wire, m)
               /\ full' = (Len(wire) + 1 >= High)
               /\ UNCHANGED queue
          ELSE queue' = e.queue /\ UNCHANGED <<wire, full>>
       /\ routing' = Route(routing, m)
       /\ latest' = IF OrderedDrag /\ m.kind = "down" THEN <<>> ELSE latest
       /\ UNCHANGED air

Overflows(m) ==
    /\ ~UsesRealtime(routing, m) /\ (queue # <<>> \/ full)
    /\ Enqueue(queue, [m |-> m, key |-> Key(routing, m)]).overflow

\* KWebRtcPeer::sendInputMessage.
SendInputMessage(m) ==
    IF UsesRealtime(routing, m) THEN SendRealtime(m) ELSE SendReliable(m)

Numbered(kind) ==
    IF kind = "move" THEN [ctl EXCEPT !.pointer = @ + 1] ELSE [ctl EXCEPT !.reliable = @ + 1]

\* The view model numbers the message, the coordinator lets it pass or not.
Send(kind, button) ==
    LET n == IF kind = "move" THEN ctl.pointer + 1 ELSE ctl.reliable + 1
        m == Message(kind, button, n)
    IN /\ n <= (IF session > 1 THEN MaxLater ELSE IF kind = "move" THEN MaxMoves ELSE MaxClicks)
       /\ UNCHANGED <<control, hostVars, session>>
       /\ IF ~CanSendInput
          THEN ctl' = Numbered(kind)
               /\ UNCHANGED <<routing, queue, latest, wire, full, air, sent>>
          ELSE IF Overflows(m)
          THEN ControllerEnds /\ UNCHANGED <<wire, full, air, sent>>
          ELSE /\ ctl' = Numbered(kind)
               /\ SendInputMessage(m)
               /\ sent' = [reliable |-> sent.reliable + (IF kind = "move" THEN 0 ELSE 1),
                           buttons |-> sent.buttons + (IF Presses(m) THEN 1 ELSE 0)]

\* The reliable channel drains.
LowWatermark ==
    /\ full /\ Len(wire) <= Low /\ ctl.phase # "Down"
    /\ FlushInputQueue(queue, wire)
    /\ UNCHANGED <<user, ctl, routing, latest, air, control, hostVars, session, troubles, sent>>

RealtimeLowWatermark ==
    /\ latest # <<>> /\ ~Busy /\ ctl.phase # "Down"
    /\ air' = air \union {latest[1]} /\ latest' = <<>>
    /\ UNCHANGED <<user, ctl, routing, queue, wire, full, control, hostVars, session, troubles,
                   sent>>

------------------------------------------------------------------------------
(* The widget.                                                               *)

\* mouseMoveEvent: sent at once, or when the throttle timer fires.
MouseMove ==
    /\ ctl.phase # "Down"
    /\ \/ Send("move", NoButton) /\ user' = [user EXCEPT !.pending = FALSE]
       \/ /\ ~user.pending /\ user' = [user EXCEPT !.pending = TRUE]
          /\ UNCHANGED <<ctl, routing, queue, latest, channelVars, hostVars, session, sent>>
    /\ UNCHANGED troubles

FlushPendingMouseMove ==
    /\ user.pending
    /\ Send("move", NoButton)
    /\ user' = [user EXCEPT !.pending = FALSE]
    /\ UNCHANGED troubles

\* mousePressEvent and mouseDoubleClickEvent: a press on the picture.
MousePress(b) ==
    /\ ctl.phase # "Down" /\ b \notin user.held
    /\ \E double \in BOOLEAN :
          user' = [held |-> user.held \union {b}, pending |-> FALSE,
                   doubled |-> IF double THEN b ELSE user.doubled]
    /\ Send("down", b)
    /\ UNCHANGED troubles

\* mouseReleaseEvent: a release outside the picture is not sent, but for the
\* second one of a double click.
MouseRelease(b) ==
    /\ b \in user.held
    /\ \E inside \in IF Margins THEN BOOLEAN ELSE {TRUE} :
          IF inside \/ user.doubled = b
          THEN /\ user' = [held |-> user.held \ {b}, pending |-> FALSE,
                           doubled |-> IF user.doubled = b THEN NoButton ELSE user.doubled]
               /\ Send("up", b)
          ELSE /\ user' = [user EXCEPT !.held = @ \ {b}]
               /\ UNCHANGED <<ctl, routing, queue, latest, channelVars, hostVars, session, sent>>
    /\ UNCHANGED troubles

\* wheelEvent, and keys.
Wheel ==
    /\ ctl.phase # "Down"
    /\ user' = [user EXCEPT !.pending = FALSE]
    /\ Send("other", NoButton)
    /\ UNCHANGED troubles

\* suspendRemoteInput; hideEvent and focusOutEvent keep the pending move.
SuspendRemoteInput ==
    /\ user.pending \/ user.doubled # NoButton
    /\ \E pending \in {FALSE, user.pending} :
          user' = [user EXCEPT !.pending = pending, !.doubled = NoButton]
    /\ UNCHANGED <<ctl, routing, queue, latest, channelVars, hostVars, session, troubles, sent>>

------------------------------------------------------------------------------
(* The host.                                                                 *)

CanReceiveInput == host.phase = "Streaming"

\* Fault: a move is taken whenever it comes.
IsLateNever(m, realtime) == FALSE

\* KInputInjector: older than what was handled before.
IsLate(m, realtime) ==
    m.n <= (IF m.kind = "move" THEN host.pointer ELSE host.reliable)

\* Fault: the realtime channel may move the mouse while a button is held.
DropsNothing(m, realtime) == FALSE

DropsRealtime(m, realtime) ==
    OrderedDrag /\ m.kind = "move" /\ realtime /\ host.pressed # {}

\* KWindowsInputInjector: which buttons are down when m was injected.
Inject(m, works) ==
    CASE ~works          -> down
      [] m.kind = "down" -> down \union {m.button}
      [] m.kind = "up"   -> down \ {m.button}
      [] OTHER           -> down

HandleInputMessage(m, realtime, works) ==
    LET seen == IF m.kind = "move" THEN [host EXCEPT !.pointer = m.n]
                ELSE [host EXCEPT !.reliable = m.n]
    IN IF ~CanReceiveInput
       THEN /\ last' = [last EXCEPT !.reliable = IF m.kind = "move" THEN @ ELSE m.ord,
                                    !.button = m.made]
            /\ UNCHANGED <<host, down, cursor>>
       ELSE IF IsLate(m, realtime)
       THEN /\ last' = IF m.kind = "move" THEN last
                       ELSE [last EXCEPT !.refused = TRUE, !.reliable = m.ord,
                                         !.button = m.made]
            /\ UNCHANGED <<host, down, cursor>>
       ELSE IF DropsRealtime(m, realtime)
       THEN host' = seen /\ UNCHANGED <<down, cursor, last>>
       ELSE /\ down' = Inject(m, works)
            /\ host' = [seen EXCEPT !.pressed =
                          IF ~works THEN @ ELSE IF m.kind = "down" THEN @ \union {m.button}
                          ELSE IF m.kind = "up" THEN @ \ {m.button} ELSE @]
            /\ cursor' = IF m.kind = "move" /\ works
                         THEN [n |-> m.n, made |-> m.made, after |-> last.button, held |-> down]
                         ELSE cursor
            /\ last' = IF m.kind = "move" THEN last
                       ELSE [last EXCEPT !.reliable = m.ord, !.button = m.made,
                                         !.failed = @ \/ (~works /\ m.kind = "up")]

\* SendInput may refuse.
ReceiveReliable ==
    /\ wire # <<>> /\ host.phase # "Down"
    /\ \E works \in BOOLEAN :
          /\ works \/ (CanReceiveInput /\ Presses(Head(wire)) /\ troubles < MaxTroubles)
          /\ troubles' = troubles + (IF works THEN 0 ELSE 1)
          /\ HandleInputMessage(Head(wire), FALSE, works)
    /\ wire' = Tail(wire)
    /\ UNCHANGED <<inputVars, full, air, control, session, sent>>

ReceiveRealtime ==
    /\ host.phase # "Down"
    /\ \E m \in air :
          /\ HandleInputMessage(m, TRUE, TRUE)
          /\ air' = air \ {m}
    /\ UNCHANGED <<inputVars, wire, full, control, session, troubles, sent>>

LoseRealtime ==
    /\ \E m \in air : air' = air \ {m}
    /\ UNCHANGED <<inputVars, wire, full, control, hostVars, session, troubles, sent>>

\* Start and Stop come over the session channel.
HandleStreaming ==
    /\ control # <<>> /\ host.phase # "Down"
    /\ control' = Tail(control)
    /\ \/ /\ Head(control) = "Start" /\ host.phase = "Connected"
          /\ host' = [host EXCEPT !.phase = "Streaming"] /\ UNCHANGED <<down, cursor>>
       \/ /\ Head(control) = "Stop" /\ host.phase = "Streaming"
          /\ ReleaseAllInputs("Connected")
       \/ /\ host.phase # (IF Head(control) = "Start" THEN "Connected" ELSE "Streaming")
          /\ UNCHANGED <<host, down, cursor>>
    /\ UNCHANGED <<inputVars, wire, full, air, last, session, troubles, sent>>

------------------------------------------------------------------------------
(* The desktop is opened and closed, the connection comes and goes.          *)

EnterDesktop ==
    /\ ctl.phase = "Connected" /\ host.phase # "Down"
    /\ ctl' = [ctl EXCEPT !.phase = "Streaming"]
    /\ control' = Append(control, "Start")
    /\ UNCHANGED <<user, routing, queue, latest, wire, full, air, hostVars, session, troubles,
                   sent>>

LeaveDesktop ==
    /\ ctl.phase = "Streaming" /\ Trouble
    /\ ctl' = [ctl EXCEPT !.phase = "Connected"]
    /\ control' = Append(control, "Stop")
    /\ UNCHANGED <<user, routing, queue, latest, wire, full, air, hostVars, session, sent>>

ControllerInterrupted ==
    /\ ctl.phase \in {"Connected", "Streaming"} /\ Trouble
    /\ ctl' = [ctl EXCEPT !.phase = "Reconnecting", !.restore = ctl.phase]
    /\ UNCHANGED <<user, routing, queue, latest, channelVars, hostVars, session, sent>>

ControllerRestored ==
    /\ ctl.phase = "Reconnecting"
    /\ ctl' = [ctl EXCEPT !.phase = ctl.restore]
    /\ UNCHANGED <<user, routing, queue, latest, channelVars, hostVars, session, troubles, sent>>

HostInterrupted ==
    /\ host.phase \in {"Connected", "Streaming"} /\ Trouble
    /\ host' = [NoHost("Reconnecting") EXCEPT !.restore = host.phase] /\ down' = {}
    /\ cursor' = NoMove
    /\ UNCHANGED <<inputVars, channelVars, last, session, sent>>

HostRestored ==
    /\ host.phase = "Reconnecting"
    /\ host' = [host EXCEPT !.phase = host.restore]
    /\ UNCHANGED <<inputVars, channelVars, down, cursor, last, session, troubles, sent>>

------------------------------------------------------------------------------
Init ==
    /\ user = [held |-> {}, pending |-> FALSE, doubled |-> NoButton]
    /\ ctl = [phase |-> "Down", restore |-> "Connected", pointer |-> 0, reliable |-> 0]
    /\ routing = NoRouting /\ queue = <<>> /\ latest = <<>>
    /\ wire = <<>> /\ full = FALSE /\ air = {} /\ control = <<>>
    /\ host = NoHost("Down") /\ down = {}
    /\ session = 0 /\ troubles = 0
    /\ sent = [reliable |-> 0, buttons |-> 0]
    /\ cursor = NoMove
    /\ last = [reliable |-> 0, button |-> 0, refused |-> FALSE, failed |-> FALSE]

Next ==
    \/ StartSession
    \/ ControllerStops
    \/ HostStops
    \/ MouseMove
    \/ FlushPendingMouseMove
    \/ \E b \in Buttons : MousePress(b) \/ MouseRelease(b)
    \/ Wheel
    \/ SuspendRemoteInput
    \/ LowWatermark
    \/ RealtimeLowWatermark
    \/ ReceiveReliable
    \/ ReceiveRealtime
    \/ LoseRealtime
    \/ HandleStreaming
    \/ EnterDesktop
    \/ LeaveDesktop
    \/ ControllerInterrupted
    \/ ControllerRestored
    \/ HostInterrupted
    \/ HostRestored

Spec == Init /\ [][Next]_vars

------------------------------------------------------------------------------
(* Properties                                                                *)

\* The types of the variables.
TypeOK ==
    LET Msg == [kind : {"move", "down", "up", "other"}, button : Buttons \union {NoButton},
                n : Nat, made : Nat, ord : Nat]
    IN /\ user \in [held : SUBSET Buttons, pending : BOOLEAN,
                    doubled : Buttons \union {NoButton}]
       /\ ctl.phase \in {"Down", "Connected", "Streaming", "Reconnecting"}
       /\ host.phase \in {"Down", "Connected", "Streaming", "Reconnecting"}
       /\ host.pressed \subseteq Buttons /\ down \subseteq Buttons
       /\ routing.pressed \subseteq Buttons
       /\ Len(queue) <= QueueLimit /\ Len(latest) <= 1 /\ Len(wire) <= High
       /\ \A i \in DOMAIN queue : queue[i].m \in Msg
       /\ \A i \in DOMAIN wire : wire[i] \in Msg
       /\ \A m \in air : m \in Msg /\ m.kind = "move"
       /\ full \in BOOLEAN /\ troubles \in 0 .. MaxTroubles

Reliables == SelectSeq(wire, LAMBDA m : m.kind # "move")
Queued == SelectSeq([i \in DOMAIN queue |-> queue[i].m], LAMBDA m : m.kind # "move")

\* No button, wheel or key message is lost, repeated or overtaken between the
\* two ends, however the queue merges moves and makes room
\* (outboundmessagequeue.cpp).
NoClickIsLost ==
    ctl.phase # "Down" /\ host.phase # "Down" =>
      LET flight == Reliables \o Queued
      IN /\ Len(flight) = sent.reliable - last.reliable
         /\ \A i \in DOMAIN flight : flight[i].ord = last.reliable + i

\* A button, wheel or key message that arrives in time is never taken for an old
\* one: not in the next session, and not after an interruption.
NoClickIsRefused == ~last.refused

\* When everything has arrived the host holds no button that the controller
\* has sent the release of (KInputInjector::releaseAllInputs).
NothingIsStuck ==
    ctl.phase # "Down" /\ host.phase # "Down" /\ wire = <<>> /\ queue = <<>> /\ ~last.failed
      => down \subseteq routing.pressed

\* While the host holds a button the mouse moves only as it was moved during
\* that very hold, with ordered drags.
DragStaysInHold ==
    OrderedDrag /\ cursor.held # {} => cursor.made = cursor.after

\* The host's mouse does what the user did with his: every click, in order, with
\* every release, and no drag but his.
MouseSafety == NoClickIsLost /\ NoClickIsRefused /\ NothingIsStuck /\ DragStaysInHold

\* Until it releases all inputs the host never moves the mouse back to where
\* it was before, whichever of the channels is faster.
MovesInOrder == [][cursor' # NoMove => cursor'.n >= cursor.n]_vars

\* When the user holds no button and everything sent has arrived, the host
\* holds none either (src/docs/features/remote-input.md:128).
HostLetsGo ==
    /\ ctl.phase = "Streaming" /\ host.phase = "Streaming" /\ user.held = {}
    /\ wire = <<>> /\ queue = <<>> /\ ~last.failed
    => down = {}
=============================================================================
