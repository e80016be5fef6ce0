------------------------------ MODULE Terminal ------------------------------
(***************************************************************************)
(* The remote PowerShell terminal: the terminal service of the controller   *)
(* (with its Windows Terminal window and relay) and the terminal service of *)
(* the controlled endpoint (with its ConPTY host), each with its dispatcher *)
(* of reliable commands.  Control messages travel over the session data     *)
(* channel, bytes over the terminal data channel; each channel is reliable  *)
(* and ordered, but nothing orders one against the other, and a message may *)
(* take longer than the second after which its sender repeats it.           *)
(*                                                                          *)
(* One record holds one endpoint; a handler is an operator from the record  *)
(* to the record it leaves, whose "out" and "bytes" fields are what it sent.*)
(***************************************************************************)
EXTENDS Naturals, Sequences, FiniteSets

CONSTANTS MaxSessions,   \* sessions, one after the other
          MaxRequests,   \* terminals asked for
          MaxKeys,       \* keys typed into the window
          MaxOutput,     \* chunks the shell prints
          MaxResizes,    \* resizes of the window
          MaxInputs,     \* keys, chunks and resizes together
          MaxQueue,      \* bound of the input and of the output queues
          MaxTroubles    \* interruptions, failures and timeouts

ASSUME TerminalAssumption ==
    {MaxSessions, MaxRequests, MaxKeys, MaxOutput, MaxResizes, MaxInputs,
     MaxQueue, MaxTroubles}
        \subseteq Nat

Controller == "controller"
Controlled == "controlled"
Endpoint == {Controller, Controlled}
Peer(e) == IF e = Controller THEN Controlled ELSE Controller

VARIABLES service,     \* the terminal service of each endpoint
          wire,        \* control messages on their way to each endpoint
          data,        \* terminal bytes on their way to each endpoint
          generation,  \* number of the session
          joined,      \* endpoints that have been in this session
          severed,     \* the terminal channel of this session has closed
          congested,   \* terminal channel above its high watermark, per sender
          host,        \* the pseudo console of the controlled endpoint
          signals,     \* its signals, queued to the session thread
          approved,    \* requests the local user agreed to
          keys,        \* keys typed so far
          prints,      \* chunks printed so far
          resizes,     \* resizes of the window so far
          troubles     \* things that went wrong so far

session == <<generation, joined, severed>>
inputs == <<keys, prints, resizes>>
vars == <<service, wire, data, generation, joined, severed, congested, host,
          signals, approved, keys, prints, resizes, troubles>>

-----------------------------------------------------------------------------
(* States *)

TerminalState == {"Closed", "AwaitingApproval", "Opening", "Running", "Paused",
                  "Closing", "Failed"}

CanTransitionTo(from, to) ==
    \/ to = from
    \/ to = "Failed" /\ from # "Closed"
    \/ to = "Closed" /\ from # "Closed"
    \/ to = "Closing" /\ from \notin {"Closed", "Closing"}
    \/ <<from, to>> \in {<<"Closed", "Opening">>, <<"Closed", "AwaitingApproval">>,
                         <<"AwaitingApproval", "Opening">>,
                         <<"Opening", "AwaitingApproval">>, <<"Opening", "Running">>,
                         <<"Running", "Paused">>, <<"Paused", "Running">>}

\* A transition the state machine refuses leaves the state as it was.
SetState(s, state) ==
    IF CanTransitionTo(s.state, state) THEN [s EXCEPT !.state = state] ELSE s

Reliable == {"OpenRequest", "Accepted", "Resize", "Close", "Exited", "Error"}

Message(type, request, size) ==
    [type |-> type, id |-> 0, request |-> request, size |-> size, ok |-> FALSE]

\* A key or a chunk, and the request of the terminal it was made in.
Payload(request, n) == [of |-> request, n |-> n]
NoFrame == [request |-> 0, sequence |-> 0, payload |-> Payload(0, 0)]

\* "taken" is the last frame that reached the window or the shell; "overtaken"
\* says that the newest size was asked for while an older one was being posted;
\* "left" has the terminals whose shells ended with output still in the queue.
Fresh ==
    [state |-> "Closed", request |-> 0, requests |-> 0, session |-> "Idle",
     channel |-> FALSE, ids |-> 0, pending |-> {}, deferred |-> <<>>,
     due |-> <<>>, results |-> {}, queue |-> <<>>, early |-> <<>>,
     next |-> 1, last |-> 0, size |-> 0, window |-> "none",
     attached |-> FALSE, openLater |-> FALSE, paused |-> FALSE,
     denied |-> FALSE, approving |-> FALSE, prompts |-> {}, overtaken |-> FALSE,
     stopPending |-> FALSE, stopTimer |-> FALSE, taken |-> NoFrame,
     left |-> {}, stop |-> FALSE, ok |-> FALSE, out |-> <<>>, bytes |-> <<>>]

IsSessionReady(s) == s.session = "Connected" /\ s.channel

-----------------------------------------------------------------------------
(* The dispatcher: a reliable command stays pending until its result comes, *)
(* is sent a second time after a second and given up after another.         *)

HasPendingResize(s) == \E p \in s.pending : p.message.type = "Resize"

\* Outside a session the peer transport refuses the message.
Send(s, m) ==
    IF s.session = "Idle" THEN s
    ELSE IF m.type \notin Reliable THEN [s EXCEPT !.out = Append(@, m)]
    ELSE IF m.type = "Resize" /\ HasPendingResize(s)
        THEN [s EXCEPT !.deferred = <<m>>]
    ELSE LET command == [m EXCEPT !.id = s.ids + 1]
         IN [s EXCEPT !.ids = @ + 1,
                      !.pending = @ \union {[message |-> command, attempts |-> 1]},
                      !.out = Append(@, command)]

\* Fault: the size asked for while a resize was pending is dropped.
ForgetDeferredResize(s, type) ==
    IF type = "Resize" THEN [s EXCEPT !.deferred = <<>>] ELSE s

\* The newest size asked for while a resize was pending is posted to be sent.
SendDeferredResize(s, type) ==
    IF type = "Resize" THEN [s EXCEPT !.due = @ \o s.deferred, !.deferred = <<>>]
    ELSE s

-----------------------------------------------------------------------------
(* Closing and failing *)

\* Fault: the other endpoint is not told.
StopHostSilently(e, s, notify) ==
    IF s.state = "Closed" THEN s
    ELSE [SetState(SetState(s, "Closing"), IF e = Controlled THEN "Closing" ELSE "Closed")
             EXCEPT !.window = "none", !.stop = e = Controlled,
                    !.stopPending = e = Controlled, !.stopTimer = e = Controlled,
                    !.queue = <<>>, !.early = <<>>, !.next = 1, !.last = 0]

StopHost(e, s, notify) ==
    IF s.state = "Closed" THEN s
    ELSE LET told == IF notify /\ s.request # 0 /\ s.channel
                     THEN Send(s, Message("Close", s.request, 0)) ELSE s
             closing == SetState(told, "Closing")
             released ==
                 IF e = Controlled
                 THEN [closing EXCEPT !.stopPending = TRUE, !.stopTimer = TRUE,
                                      !.stop = TRUE]
                 ELSE [SetState(closing, "Closed") EXCEPT !.window = "none"]
         IN [released EXCEPT !.approving = FALSE, !.paused = FALSE,
                             !.queue = <<>>, !.early = <<>>,
                             !.next = 1, !.last = 0]

FailTerminal(e, s) ==
    IF s.state \in {"Closing", "Closed", "Failed"} THEN s
    ELSE StopHost(e, SetState(Send(s, Message("Error", s.request, 0)), "Failed"),
                  TRUE)

\* The session is over: everything of it is forgotten, the stop of a shell
\* that is still under way included.
ResetSession(s) ==
    [SetState(s, "Closed") EXCEPT
        !.request = 0, !.channel = FALSE, !.attached = FALSE, !.window = "none",
        !.denied = FALSE, !.openLater = FALSE, !.approving = FALSE,
        !.paused = FALSE, !.stopPending = FALSE, !.stopTimer = FALSE,
        !.queue = <<>>, !.early = <<>>, !.next = 1, !.last = 0,
        !.pending = {}, !.results = {}, !.deferred = <<>>]

-----------------------------------------------------------------------------
(* Bytes *)

Last(frames) == frames[Len(frames)]

\* Fault: the chunk queued last is sent first.
FrameFromTail(s, i) == [request |-> s.request, sequence |-> s.next + i - 1,
                        payload |-> s.queue[Len(s.queue) + 1 - i]]

Frame(s, i) == [request |-> s.request, sequence |-> s.next + i - 1,
                payload |-> s.queue[i]]

\* flushInput of the controller, flushOutput of the controlled endpoint.
Flush(e, s) ==
    IF s.state # "Running" \/ congested[e] \/ s.request = 0 \/ ~s.channel THEN s
    ELSE [s EXCEPT !.bytes = @ \o [i \in 1..Len(s.queue) |-> Frame(s, i)],
                   !.next = @ + Len(s.queue), !.queue = <<>>]

Enqueue(e, s, payload) ==
    IF Len(s.queue) >= MaxQueue THEN FailTerminal(e, s)
    ELSE Flush(e, [s EXCEPT !.queue = Append(@, payload)])

-----------------------------------------------------------------------------
(* The controller opens a terminal *)

\* wt.exe and the relay are started, unless a window is there already.
LaunchRelay(s) == [s EXCEPT !.window = IF @ = "none" THEN "launched" ELSE @]

OpenCurrentTerminal(s, launches) ==
    IF s.stopPending \/ s.state \in {"Running", "AwaitingApproval"} THEN s
    ELSE IF s.window = "none" /\ ~launches THEN SetState(s, "Failed")
    ELSE LET w == LaunchRelay(s)
         IN IF ~IsSessionReady(w) \/ ~w.attached
            THEN SetState([w EXCEPT !.openLater = TRUE], "Opening")
            ELSE LET q == w.requests + 1
                 IN Send(SetState([w EXCEPT !.requests = q, !.request = q,
                                            !.next = 1, !.last = 0],
                                  "AwaitingApproval"),
                         Message("OpenRequest", q, w.size))

TryOpenPendingTerminal(s, launches) ==
    IF ~s.openLater \/ ~IsSessionReady(s) \/ ~s.attached THEN s
    ELSE OpenCurrentTerminal([s EXCEPT !.openLater = FALSE], launches)

-----------------------------------------------------------------------------
(* What a control message does.  "ok" is the result it is answered with.    *)

Done(s) == [s EXCEPT !.ok = TRUE]
Refused(s) == [s EXCEPT !.ok = FALSE]

ExecuteOpenRequest(s, m) ==
    IF \/ ~IsSessionReady(s)
       \/ s.denied
       \/ s.state \notin {"Closed", "Failed"}
    THEN Refused(Send(s, Message("Rejected", m.request, 0)))
    ELSE Done(SetState(
             [Send(s, Message("ApprovalPending", m.request, 0)) EXCEPT
                 !.request = m.request, !.next = 1, !.last = 0, !.size = m.size,
                 !.approving = TRUE, !.prompts = @ \union {m.request}],
             "AwaitingApproval"))

\* Output that came before the acceptance is shown now.
ExecuteAccepted(s, writes) ==
    LET running == SetState(SetState(s, "Opening"), "Running")
        shown == [running EXCEPT !.early = <<>>,
                      !.taken = IF s.early = <<>> THEN @ ELSE Last(s.early)]
    IN IF s.early = <<>> \/ writes THEN shown
       ELSE FailTerminal(Controller, running)

ExecuteControlled(s, m) ==
    CASE m.type = "Resize" ->
            IF s.state \notin {"Running", "Paused"} \/ host.run # "running"
            THEN Refused(s) ELSE Done([s EXCEPT !.size = m.size])
      [] m.type = "Close" -> Done(StopHost(Controlled, s, FALSE))
      [] m.type = "Error" -> Done(SetState(s, "Failed"))
      [] OTHER -> Refused(s)

ExecuteController(s, m, writes) ==
    CASE m.type = "ApprovalPending" ->
            IF s.state = "AwaitingApproval" THEN Done(s) ELSE Refused(s)
      [] m.type = "Accepted" ->
            IF s.state \in {"AwaitingApproval", "Opening"}
            THEN Done(ExecuteAccepted(s, writes)) ELSE Refused(s)
      [] m.type = "Rejected" ->
            IF s.state \in {"AwaitingApproval", "Opening"}
            THEN Done([SetState(s, "Failed") EXCEPT !.window = "none"])
            ELSE Refused(s)
      [] m.type = "Close" -> Done(StopHost(Controller, s, FALSE))
      [] m.type = "Exited" ->
            Done([SetState(s, "Closed") EXCEPT !.window = "none"])
      [] m.type = "Error" ->
            Done([SetState(s, "Failed") EXCEPT !.window = "none"])
      [] OTHER -> Refused(s)

ExecuteControlMessage(e, s, m, writes) ==
    CASE m.type = "OpenRequest" -> ExecuteOpenRequest(s, m)
      [] m.type # "OpenRequest" /\ m.request # s.request -> Refused(s)
      [] OTHER -> IF e = Controlled THEN ExecuteControlled(s, m)
                  ELSE ExecuteController(s, m, writes)

\* The shell runs once the controller has confirmed its acceptance.
HandleCommandCompleted(e, s, type, request, ok) ==
    IF request # s.request \/ type # "Accepted" \/ e = Controller THEN s
    ELSE IF ok THEN Flush(e, SetState(s, "Running")) ELSE FailTerminal(e, s)

HandleCommandTimedOut(e, s, type, request) ==
    IF request # s.request \/ type \in {"Close", "Exited"} THEN s
    ELSE FailTerminal(e, s)

-----------------------------------------------------------------------------
(* Actions.  Leaves says what a handler of endpoint e did: its new record,  *)
(* what it sent, and whether it asked the pseudo console to stop.           *)

Leaves(e, s) ==
    /\ service' = [service EXCEPT
                     ![e] = [s EXCEPT !.stop = FALSE, !.ok = FALSE,
                                      !.out = <<>>, !.bytes = <<>>]]
    /\ data' = [data EXCEPT ![Peer(e)] = @ \o s.bytes]

Sends(e, s) == wire' = [wire EXCEPT ![Peer(e)] = @ \o s.out]

RequestStop(s) ==
    host' = IF s.stop /\ host.run = "running" /\ host.generation = generation
            THEN [host EXCEPT !.run = "stopping"] ELSE host

\* A handler that neither takes a message nor touches the environment.
Handles(e, s) ==
    /\ Leaves(e, s)
    /\ Sends(e, s)
    /\ RequestStop(s)
    /\ UNCHANGED <<session, congested, signals>>

\* The user asks for a terminal, before or after the session is connected.
OpenTerminal(launches) ==
    LET s == service[Controller] IN
    /\ s.requests < MaxRequests
    /\ s.state \notin {"Running", "AwaitingApproval"}
    /\ launches \/ s.window = "none"
    /\ Handles(Controller, OpenCurrentTerminal(s, launches))
    /\ UNCHANGED <<approved, inputs>>

CloseTerminal(e) ==
    /\ service[e].state # "Closed"
    /\ Handles(e, StopHost(e, service[e], TRUE))
    /\ UNCHANGED <<approved, inputs>>

\* The relay has authenticated itself over the local pipe.
FrontendConnected ==
    LET s == service[Controller] IN
    /\ s.window = "launched"
    /\ Handles(Controller,
          TryOpenPendingTerminal([s EXCEPT !.window = "connected",
                                           !.attached = TRUE], TRUE))
    /\ UNCHANGED <<approved, inputs>>

\* The window was closed, or the relay did not come in time.
FrontendClosed ==
    LET s == service[Controller] IN
    /\ s.window # "none"
    /\ Handles(Controller, StopHost(Controller,
          [s EXCEPT !.window = "none", !.attached = FALSE], TRUE))
    /\ UNCHANGED <<approved, inputs>>

MoreInputs == keys + prints + resizes < MaxInputs

SendInput ==
    LET s == service[Controller]
        queued == Enqueue(Controller, s, Payload(s.request, keys + 1))
    IN /\ s.window = "connected" /\ s.state = "Running" /\ ~s.paused
       /\ keys < MaxKeys /\ MoreInputs
       /\ Handles(Controller,
              [queued EXCEPT !.paused = congested[Controller]
                                        /\ queued.state = "Running"])
       /\ keys' = keys + 1
       /\ UNCHANGED <<approved, prints, resizes>>

ResizeTerminal ==
    LET s == service[Controller] IN
    /\ s.window = "connected" /\ s.state = "Running"
    /\ resizes < MaxResizes /\ MoreInputs
    /\ Handles(Controller, Send([s EXCEPT !.size = resizes + 1,
                                          !.overtaken = s.due # <<>>],
                                Message("Resize", s.request, resizes + 1)))
    /\ resizes' = resizes + 1
    /\ UNCHANGED <<approved, keys, prints>>

\* The deferred resize, posted when the previous one was answered.
DeferredResize(e) ==
    LET s == service[e] IN
    /\ s.due # <<>>
    /\ Handles(e, Send([s EXCEPT !.due = Tail(@)], Head(s.due)))
    /\ UNCHANGED <<approved, inputs>>

-----------------------------------------------------------------------------
(* The local user of the controlled endpoint *)

\* Fault: any answer counts for the request that is waiting.
RespondsToAny(s, q) == s.state = "AwaitingApproval"

\* Only the answer to the request that is waiting counts.
RespondsTo(s, q) == s.state = "AwaitingApproval" /\ q = s.request

Reject(s) ==
    SetState(Send([s EXCEPT !.denied = TRUE, !.approving = FALSE],
                  Message("Rejected", s.request, 0)), "Closed")

StartHost(s, starts, sends) ==
    LET opening == SetState([s EXCEPT !.approving = FALSE], "Opening") IN
    CASE ~starts ->
            SetState(Send(opening, Message("Error", s.request, 0)), "Failed")
      [] starts /\ sends -> Send(opening, Message("Accepted", s.request, 0))
      [] OTHER -> StopHost(Controlled, SetState(opening, "Failed"), FALSE)

\* A console starts with its shell or not at all, and only when none is left.
StartConsole(starts, q, stops) ==
    /\ starts => host.run = "off"
    /\ host' = IF starts
               THEN [run |-> IF stops THEN "stopping" ELSE "running",
                     generation |-> generation, request |-> q, ending |-> FALSE]
               ELSE host

AcceptRequest(q, starts, sends) ==
    LET s == service[Controlled]
        left == StartHost([s EXCEPT !.prompts = @ \ {q}], starts, sends)
    IN /\ q \in s.prompts /\ RespondsTo(s, q)
       /\ sends => starts /\ s.session # "Idle"
       /\ Leaves(Controlled, left)
       /\ Sends(Controlled, left)
       /\ StartConsole(starts, s.request, left.stop)
       /\ approved' = approved \union {q}
       /\ UNCHANGED <<session, congested, signals, inputs>>

RejectRequest(q) ==
    LET s == service[Controlled] IN
    /\ q \in s.prompts /\ RespondsTo(s, q)
    /\ Handles(Controlled, Reject([s EXCEPT !.prompts = @ \ {q}]))
    /\ UNCHANGED <<approved, inputs>>

\* The dialog of a request that no longer waits: the answer is dropped.
AnswerTooLate(q) ==
    LET s == service[Controlled] IN
    /\ q \in s.prompts /\ ~RespondsTo(s, q)
    /\ Handles(Controlled, [s EXCEPT !.prompts = @ \ {q}])
    /\ approved' = approved \union {q}
    /\ UNCHANGED inputs

ApprovalTimeout ==
    LET s == service[Controlled] IN
    /\ s.approving
    /\ Handles(Controlled,
          IF s.state = "AwaitingApproval"
          THEN Reject([s EXCEPT !.prompts = @ \ {s.request}])
          ELSE [s EXCEPT !.approving = FALSE])
    /\ UNCHANGED <<approved, inputs>>

-----------------------------------------------------------------------------
(* Messages *)

HandleResult(e, s, m, p) ==
    SendDeferredResize(
        HandleCommandCompleted(e, [s EXCEPT !.pending = @ \ {p}],
                               p.message.type, m.request, m.ok),
        p.message.type)

Answer(s, m, ok) ==
    [Message("Result", m.request, 0) EXCEPT !.id = m.id, !.ok = ok]

\* Fault: no result is kept, a repeated command is executed again.
HandleIncomingAgain(e, s, m, writes) ==
    IF m.type = "Result"
    THEN LET P == {p \in s.pending : p.message.id = m.id
                                     /\ p.message.request = m.request}
         IN IF P = {} THEN s ELSE HandleResult(e, s, m, CHOOSE p \in P : TRUE)
    ELSE LET x == ExecuteControlMessage(e, s, m, writes)
         IN IF m.type \in Reliable
            THEN [x EXCEPT !.out = Append(@, Answer(x, m, x.ok))] ELSE x

\* A repeated command is answered from the results kept, and not executed.
HandleIncoming(e, s, m, writes) ==
    CASE m.type = "Result" ->
            LET P == {p \in s.pending : p.message.id = m.id
                                        /\ p.message.request = m.request}
            IN IF P = {} THEN s ELSE HandleResult(e, s, m, CHOOSE p \in P : TRUE)
      [] m.type \in Reliable /\ \E r \in s.results : r.id = m.id ->
            LET r == CHOOSE r \in s.results : r.id = m.id
            IN [s EXCEPT !.out = Append(@, Answer(s, m, r.ok))]
      [] m.type \in Reliable /\ ~\E r \in s.results : r.id = m.id ->
            LET x == ExecuteControlMessage(e, s, m, writes)
            IN [x EXCEPT !.results = @ \union {[id |-> m.id, ok |-> x.ok]},
                         !.out = Append(@, Answer(x, m, x.ok))]
      [] OTHER -> ExecuteControlMessage(e, s, m, writes)

Receive(e, writes) ==
    LET s == HandleIncoming(e, service[e], Head(wire[e]), writes) IN
    /\ wire[e] # <<>> /\ service[e].session # "Idle"
    /\ writes \/ service[e].early # <<>>
    /\ Leaves(e, s)
    /\ RequestStop(s)
    /\ wire' = [wire EXCEPT ![e] = Tail(@), ![Peer(e)] = @ \o s.out]
    /\ UNCHANGED <<session, congested, signals, approved, inputs>>

\* A second without a result: the command is sent again, or given up.
CommandTimer(e) ==
    LET s == service[e] IN
    /\ \E p \in s.pending :
          Handles(e,
              IF p.attempts < 2
              THEN [s EXCEPT !.pending = (@ \ {p}) \union {[p EXCEPT !.attempts = 2]},
                             !.out = Append(@, p.message)]
              ELSE SendDeferredResize(
                       HandleCommandTimedOut(e, [s EXCEPT !.pending = @ \ {p}],
                           p.message.type, p.message.request),
                       p.message.type))
    /\ UNCHANGED <<approved, inputs>>

\* What a frame does once it is known to be of this request and newer.
Deliver(e, s, frame, accepts) ==
    CASE e = Controller /\ s.state \in {"AwaitingApproval", "Opening"} ->
            IF Len(s.early) >= MaxQueue THEN FailTerminal(e, s)
            ELSE [s EXCEPT !.early = Append(@, frame)]
      [] s.state = "Running" /\ accepts -> [s EXCEPT !.taken = frame]
      [] s.state = "Running" /\ ~accepts -> FailTerminal(e, s)
      [] OTHER -> s

\* Fault: the request a frame belongs to is not looked at.
IsNewer(s, frame) == frame.sequence > s.last

IsCurrent(s, frame) == frame.request = s.request /\ frame.sequence > s.last

HandleTerminalData(e, accepts) ==
    LET s == service[e]
        frame == Head(data[e])
        d == IF IsCurrent(s, frame)
             THEN Deliver(e, [s EXCEPT !.last = frame.sequence], frame,
                          accepts /\ (e = Controlled => host.run = "running"))
             ELSE s
    IN /\ data[e] # <<>> /\ s.session # "Idle"
       /\ accepts \/ s.state = "Running"
       /\ service' = [service EXCEPT
                        ![e] = [d EXCEPT !.stop = FALSE, !.out = <<>>]]
       /\ data' = [data EXCEPT ![e] = Tail(@)]
       /\ Sends(e, d)
       /\ RequestStop(d)
       /\ UNCHANGED <<session, congested, signals, approved, inputs>>

Congest(e) ==
    /\ ~congested[e] /\ service[e].channel
    /\ congested' = [congested EXCEPT ![e] = TRUE]
    /\ UNCHANGED <<service, wire, data, session, host, signals, approved, inputs>>

\* flushInput and flushOutput; the window may be typed into again.
LowWatermark(e) ==
    LET s == [service[e] EXCEPT !.paused = FALSE] IN
    /\ congested[e]
    /\ congested' = [congested EXCEPT ![e] = FALSE]
    /\ Leaves(e, IF s.state # "Running" \/ s.request = 0 \/ ~s.channel THEN s
                 ELSE [s EXCEPT !.bytes = [i \in 1..Len(s.queue) |-> Frame(s, i)],
                                !.next = @ + Len(s.queue), !.queue = <<>>])
    /\ UNCHANGED <<wire, session, host, signals, approved, inputs>>

-----------------------------------------------------------------------------
(* The pseudo console *)

HostPrints ==
    /\ host.run = "running" /\ prints < MaxOutput /\ MoreInputs
    /\ prints' = prints + 1
    /\ signals' = Append(signals, [kind |-> "output", generation |-> host.generation,
                                   payload |-> Payload(host.request, prints + 1)])
    /\ UNCHANGED <<service, wire, data, session, congested, host, approved,
                   keys, resizes>>

\* The shell ends by itself, or its input pipe breaks.
HostEnds(kind) ==
    /\ host.run = "running" /\ ~host.ending
    /\ host' = [host EXCEPT !.ending = TRUE]
    /\ signals' = Append(signals, [kind |-> kind, generation |-> host.generation,
                                   payload |-> Payload(0, 0)])
    /\ UNCHANGED <<service, wire, data, session, congested, approved, inputs>>

\* The teardown thread has joined the others and closed the handles.  It posts
\* processExited and stopped back to back: they are one signal here.
HostTornDown ==
    /\ host.run = "stopping"
    /\ host' = [host EXCEPT !.run = "off"]
    /\ signals' = Append(signals, [kind |-> "stopped", generation |-> host.generation,
                                   payload |-> Payload(0, 0)])
    /\ UNCHANGED <<service, wire, data, session, congested, approved, inputs>>

HandleHostStopped(s) ==
    IF ~s.stopPending THEN s
    ELSE SetState([s EXCEPT !.stopPending = FALSE, !.stopTimer = FALSE], "Closed")

\* The queue is not cleared when a shell has ended by itself.
HandleHostExited(s) ==
    [SetState(Send(s, Message("Exited", s.request, 0)), "Closed")
        EXCEPT !.left = @ \union {s.queue[i].of : i \in 1..Len(s.queue)}]

\* A signal of an earlier session is ignored by the service, not by the console.
HandleSignal(s, g) ==
    IF g.generation # generation
    THEN [s EXCEPT !.stop = FALSE]
    ELSE CASE g.kind = "output" ->
                IF s.state \in {"Opening", "Running", "Paused"}
                THEN Enqueue(Controlled, s, g.payload) ELSE s
           [] g.kind = "stopped" ->
                HandleHostStopped(HandleHostExited(s))
           [] g.kind = "failed" ->
                [FailTerminal(Controlled, s) EXCEPT !.stop = TRUE]
           [] OTHER -> [s EXCEPT !.stop = TRUE]

HostSignal ==
    LET s == HandleSignal(service[Controlled], Head(signals)) IN
    /\ signals # <<>>
    /\ signals' = Tail(signals)
    /\ Leaves(Controlled, s)
    /\ Sends(Controlled, s)
    /\ RequestStop(s)
    /\ UNCHANGED <<session, congested, approved, inputs>>

\* The console did not stop within three seconds.
StopTimeout ==
    LET s == service[Controlled] IN
    /\ s.stopTimer
    /\ Handles(Controlled, SetState([s EXCEPT !.stopTimer = FALSE], "Failed"))
    /\ UNCHANGED <<approved, inputs>>

-----------------------------------------------------------------------------
(* The session *)

TryOpen(e, s) == IF e = Controller THEN TryOpenPendingTerminal(s, TRUE) ELSE s

\* Capabilities negotiated; the terminal channel may be open already.
Connect(e) ==
    /\ e \notin joined
    /\ joined' = joined \union {e}
    /\ \E open \in {~severed, FALSE} :
          LET s == TryOpen(e, [service[e] EXCEPT !.session = "Connected",
                                                 !.channel = open])
          IN Leaves(e, s) /\ Sends(e, s) /\ RequestStop(s)
    /\ UNCHANGED <<generation, severed, congested, signals, approved, inputs>>

ChannelOpens(e) ==
    /\ service[e].session # "Idle" /\ ~service[e].channel /\ ~severed
    /\ Handles(e, TryOpen(e, [service[e] EXCEPT !.channel = TRUE]))
    /\ UNCHANGED <<approved, inputs>>

\* The channel is lost with the frames that were on their way.
ChannelCloses(e) ==
    LET s == StopHost(e, [service[e] EXCEPT !.channel = FALSE], FALSE) IN
    /\ service[e].channel
    /\ severed' = TRUE
    /\ service' = [service EXCEPT ![e] = [s EXCEPT !.stop = FALSE]]
    /\ data' = [data EXCEPT ![e] = <<>>, ![Peer(e)] = <<>>]
    /\ RequestStop(s)
    /\ UNCHANGED <<wire, generation, joined, congested, signals, approved, inputs>>

Reconnecting(e) ==
    LET s == service[e] IN
    /\ s.session = "Connected"
    /\ Handles(e, LET r == [s EXCEPT !.session = "Reconnecting"]
                  IN IF s.state = "Running" THEN SetState(r, "Paused") ELSE r)
    /\ UNCHANGED <<approved, inputs>>

\* The controlled endpoint sends the output it held; the controller keeps the
\* keys it held until the next key or low watermark (only flushOutput is called).
Resume(e, s) ==
    LET running == SetState(s, "Running") IN
    IF e = Controlled THEN Flush(e, running) ELSE running

Restored(e) ==
    LET s == [service[e] EXCEPT !.session = "Connected"] IN
    /\ service[e].session = "Reconnecting"
    /\ LET o == TryOpen(e, s)
       IN Handles(e, IF o.state = "Paused"
                     THEN Resume(e, o) ELSE o)
    /\ UNCHANGED <<approved, inputs>>

SessionEnds(e) ==
    LET s == ResetSession(StopHost(e, [service[e] EXCEPT !.session = "Idle"], FALSE))
    IN /\ service[e].session # "Idle"
       /\ service' = [service EXCEPT ![e] = [s EXCEPT !.stop = FALSE]]
       /\ wire' = [wire EXCEPT ![e] = <<>>]
       /\ data' = [data EXCEPT ![e] = <<>>]
       /\ RequestStop(s)
       /\ UNCHANGED <<session, congested, signals, approved, inputs>>

NewSession ==
    /\ joined = Endpoint /\ generation < MaxSessions
    /\ \A e \in Endpoint : service[e].session = "Idle"
    /\ generation' = generation + 1
    /\ joined' = {} /\ severed' = FALSE
    /\ wire' = [e \in Endpoint |-> <<>>] /\ data' = [e \in Endpoint |-> <<>>]
    /\ congested' = [e \in Endpoint |-> FALSE]
    /\ UNCHANGED <<service, host, signals, approved, inputs>>

-----------------------------------------------------------------------------

Init ==
    /\ service = [e \in Endpoint |-> Fresh]
    /\ wire = [e \in Endpoint |-> <<>>] /\ data = [e \in Endpoint |-> <<>>]
    /\ generation = 1 /\ joined = {} /\ severed = FALSE
    /\ congested = [e \in Endpoint |-> FALSE]
    /\ host = [run |-> "off", generation |-> 0, request |-> 0, ending |-> FALSE]
    /\ signals = <<>> /\ approved = {}
    /\ keys = 0 /\ prints = 0 /\ resizes = 0 /\ troubles = 0

\* Whatever goes wrong in the environment, and every wait that runs out,
\* counts against MaxTroubles; "ok" is an operation that succeeds.
Trouble == troubles < MaxTroubles /\ troubles' = troubles + 1
Outcome(ok) == IF ok THEN UNCHANGED troubles ELSE Trouble

UserStep ==
    \/ \E ok \in BOOLEAN : Outcome(ok) /\ OpenTerminal(ok)
    \/ Outcome(TRUE) /\ (FrontendConnected \/ SendInput \/ ResizeTerminal)
    \/ \E q \in 1..MaxRequests :
          \/ \E starts, sends \in BOOLEAN :
                Outcome(sends \/ host.run # "off") /\ AcceptRequest(q, starts, sends)
          \/ Trouble /\ RejectRequest(q)
          \/ Outcome(TRUE) /\ AnswerTooLate(q)
    \/ \E e \in Endpoint : Trouble /\ CloseTerminal(e)

HostStep ==
    \/ Outcome(TRUE) /\ (HostPrints \/ HostTornDown \/ HostSignal)
    \/ \E kind \in {"ended", "failed"} : Trouble /\ HostEnds(kind)

\* The channel or the session has already ended at the other endpoint.
Follows(e) ==
    \/ severed /\ ChannelCloses(e)
    \/ Peer(e) \in joined /\ service[Peer(e)].session = "Idle" /\ SessionEnds(e)

Delivery(e, ok) == Receive(e, ok) \/ HandleTerminalData(e, ok)

Progress(e) ==
    \/ \E ok \in BOOLEAN : Outcome(ok) /\ Delivery(e, ok)
    \/ Outcome(TRUE)
       /\ \/ DeferredResize(e) \/ LowWatermark(e) \/ Connect(e)
          \/ ChannelOpens(e) \/ Restored(e) \/ Follows(e)

Interruption(e) ==
    \/ CommandTimer(e) \/ Congest(e) \/ ChannelCloses(e)
    \/ Reconnecting(e) \/ SessionEnds(e)

Next ==
    \/ UserStep \/ HostStep
    \/ Outcome(TRUE) /\ (NewSession \/ ApprovalTimeout)
    \/ Trouble /\ (StopTimeout \/ FrontendClosed)
    \/ \E e \in Endpoint : Progress(e) \/ (Trouble /\ Interruption(e))

Spec == Init /\ [][Next]_vars

\* The channels deliver, the end of a session or of a channel reaches the other
\* endpoint, and the console's threads end.  The users owe nothing.
Fairness ==
    /\ \A e \in Endpoint :
          /\ WF_vars(Outcome(TRUE) /\ Delivery(e, TRUE))
          /\ WF_vars(Outcome(TRUE) /\ Follows(e))
    /\ WF_vars(Outcome(TRUE) /\ (HostTornDown \/ HostSignal))

FairSpec == Spec /\ Fairness

-----------------------------------------------------------------------------
(* Properties *)

TypeOK ==
    /\ \A e \in Endpoint :
          /\ service[e].state \in TerminalState
          /\ service[e].session \in {"Idle", "Connected", "Reconnecting"}
          /\ service[e].request \in 0..MaxRequests
          /\ service[e].window \in {"none", "launched", "connected"}
          /\ Len(service[e].queue) <= MaxQueue /\ Len(service[e].early) <= MaxQueue
          /\ \A p \in service[e].pending : p.attempts \in 1..2
    /\ host.run \in {"off", "running", "stopping"}
    /\ generation \in 1..MaxSessions /\ joined \subseteq Endpoint

\* A shell runs for a request the local user has agreed to, whatever answers to
\* earlier dialogs were given while it waited (respondIncomingRequest), and none
\* is at work for a terminal that is closed or still waits for the user.
ShellIsOwned ==
    host.run = "running" =>
        /\ host.request \in approved
        /\ service[Controlled].state \notin {"Closed", "AwaitingApproval"}

\* A request is not turned down while it is being served: a repeated request is
\* answered from the results kept instead of being found busy with itself.
NotBusyWithItself ==
    \A i \in 1..Len(wire[Controller]) :
        LET m == wire[Controller][i] IN
        m.type = "Rejected" /\ m.request = service[Controlled].request
            => service[Controlled].state \notin
                   {"AwaitingApproval", "Opening", "Running", "Paused"}

SizesAgree ==
    LET c == service[Controller]
        h == service[Controlled]
    IN /\ c.state = "Running" /\ h.state \in {"Running", "Paused"}
       /\ c.request = h.request /\ host.run = "running"
       /\ ~HasPendingResize(c) /\ c.deferred = <<>> /\ c.due = <<>>
       => h.size = c.size

\* Once no resize is on its way the shell has the size of the window, however
\* resizes were deferred, repeated and merged (sendDeferredResize); but for one
\* asked for while an older one was being posted, which LatestSizeWins is about.
ResizeSettled == service[Controller].overtaken \/ SizesAgree

\* Resizes that are asked for while one is pending come down to the latest
\* (TestResizeCoalescesToLatestPendingSize): the shell is left with no other size.
LatestSizeWins == SizesAgree

\* The commands of the two sides come to their results, retried or merged.
CommandsSettle == NotBusyWithItself /\ ResizeSettled

\* Keys and output are delivered once each and in the order they were made.  A shell
\* takes only keys that were typed for it, and a window shows only the output of its
\* terminal, after it what a shell that ended by itself had left in the queue: the
\* next terminal of the session sends that under its own request (handleTerminalData,
\* handleHostExited).
FramesInOrder ==
    [][\A e \in Endpoint :
          service'[e].taken # service[e].taken =>
              /\ service'[e].taken.payload.n > service[e].taken.payload.n
              /\ \/ service'[e].taken.payload.of = service'[e].taken.request
                 \/ e = Controller
                    /\ service'[e].taken.payload.of \in service[Controlled].left
              /\ e = Controlled => service'[e].taken.request = host.request]_vars

\* The controller still shows, or waits for, a terminal.
Attended ==
    service[Controller].state \in
        {"AwaitingApproval", "Opening", "Running", "Paused"}

\* When the window of a shell closes or fails, or its session ends, the shell is
\* stopped in the end, whatever was in flight (stopHost, handleHostStopped).
HostFollowsWindow ==
    (/\ host.run = "running" /\ ~Attended
     /\ service[Controller].request \in {0, host.request})
        ~> (host.run # "running")

=============================================================================
