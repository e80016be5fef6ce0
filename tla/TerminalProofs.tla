--------------------------- MODULE TerminalProofs ---------------------------
(***************************************************************************)
(* Proofs about Terminal, for any number of sessions, requests, keys,      *)
(* chunks, resizes and troubles.                                           *)
(*                                                                         *)
(* Who owns the shell is a matter of the console's signals that are still  *)
(* queued: once its stop is reported the terminal is closed, whatever it   *)
(* serves by then.  ShellInv says that no other terminal of the session    *)
(* begins before the report has come (StopAwaited), that a console reports *)
(* its stop once (StopsOnce), and that a session begins and ends without a *)
(* shell of its own (SessionsInOrder).                                     *)
(*                                                                         *)
(* The lemmas about the handlers say what they do to the state (Moves),    *)
(* one for each operator of the service; those about the steps rest on     *)
(* Continues, for every step that neither begins nor ends anything.        *)
(***************************************************************************)
EXTENDS Terminal, TLAPS

Own == service[Controlled]

(* The states in which the controlled endpoint has, or had, a shell.        *)
Busy == {"Opening", "Running", "Paused", "Closing", "Failed"}

(* A record of a terminal service, as far as the shell is concerned.        *)
Whole(s) == {"state", "session", "stop"} \subseteq DOMAIN s

Payloads == [of : Nat, n : Nat]
Signals == [kind : {"output", "ended", "failed", "stopped"}, generation : Nat,
            payload : Payloads]
Hosts == [run : {"off", "running", "stopping"}, generation : Nat, request : Nat,
          ending : BOOLEAN]

ShellTypeOK ==
    /\ DOMAIN service = Endpoint
    /\ Whole(Own)
    /\ generation \in Nat /\ prints \in Nat
    /\ host \in Hosts
    /\ signals \in Seq(Signals)

(* The i-th signal says that a console of this session has stopped.         *)
Reports(i) == signals[i].kind = "stopped" /\ signals[i].generation = generation

(* A shell that runs is one of this session, that the local user agreed to. *)
ShellRuns ==
    host.run = "running" =>
        /\ host.generation = generation
        /\ host.request \in approved
        /\ Own.state \in Busy

(* The session ended while its shell was still being stopped.               *)
Gone == Own.state = "Closed" /\ Own.session = "Idle" /\ Controlled \in joined

(* No other terminal begins in this session before the stop has come.       *)
StopAwaited ==
    /\ host.run = "stopping" /\ host.generation = generation
           => Own.state \in Busy \/ Gone
    /\ \A i \in 1..Len(signals) : Reports(i) => Own.state \in Busy \/ Gone

(* A console stops once, and is gone by then.                               *)
StopsOnce ==
    /\ host.run # "off" /\ host.generation = generation
           => \A i \in 1..Len(signals) : ~Reports(i)
    /\ \A i, j \in 1..Len(signals) : Reports(i) /\ Reports(j) => i = j

(* Nothing comes from a session that has yet to begin.                      *)
NothingFromLater ==
    /\ host.generation <= generation
    /\ \A i \in 1..Len(signals) : signals[i].generation <= generation

SessionsInOrder ==
    /\ Own.session = "Idle" => Own.state = "Closed"
    /\ Own.session # "Idle" => Controlled \in joined

ShellInv ==
    /\ ShellTypeOK
    /\ ShellRuns
    /\ StopAwaited
    /\ StopsOnce
    /\ NothingFromLater
    /\ SessionsInOrder

-----------------------------------------------------------------------------
(* The handlers.  What a handler of one endpoint may do to its state.        *)

Moves(s, t) ==
    /\ Whole(t)
    /\ t.session = s.session
    /\ s.state \in Busy => t.state \in Busy
    /\ s.state = "Closed" /\ s.session = "Idle" => t.state = "Closed"

LEMMA MovesOn ==
    ASSUME NEW s, NEW t, NEW u, Moves(s, t), Moves(t, u)
    PROVE  Moves(s, u)
BY DEF Moves

LEMMA Stays ==
    ASSUME NEW s, NEW t, Whole(t), t.session = s.session, t.state = s.state
    PROVE  Moves(s, t)
BY DEF Moves

LEMMA StateIsSet ==
    ASSUME NEW s, Whole(s), NEW state
    PROVE  /\ Whole(SetState(s, state))
           /\ SetState(s, state).session = s.session
           /\ SetState(s, state).stop = s.stop
           /\ SetState(s, state).state
                  = IF CanTransitionTo(s.state, state) THEN state ELSE s.state
BY DEF Whole, SetState

(* A state with a shell may be left for another such state only; a closed    *)
(* one only for those a new terminal begins with.                            *)
LEMMA SetMoves ==
    ASSUME NEW s, Whole(s), NEW state \in Busy \ {"Opening"}
    PROVE  Moves(s, SetState(s, state))
<1>1. s.state = "Closed" /\ state # "Closed" => ~CanTransitionTo(s.state, state)
    BY DEF CanTransitionTo, Busy
<1> QED BY <1>1, StateIsSet DEF Moves, Busy

LEMMA OpeningMoves ==
    ASSUME NEW s, Whole(s), s.state # "Closed"
    PROVE  Moves(s, SetState(s, "Opening"))
BY StateIsSet DEF Moves, Busy

LEMMA SendMoves ==
    ASSUME NEW s, Whole(s), NEW m
    PROVE  /\ Moves(s, Send(s, m))
           /\ Send(s, m).state = s.state
           /\ Send(s, m).stop = s.stop
BY DEF Whole, Send, Moves

LEMMA ResizeMoves ==
    ASSUME NEW s, Whole(s), NEW type
    PROVE  /\ Moves(s, SendDeferredResize(s, type))
           /\ SendDeferredResize(s, type).state = s.state
BY DEF Whole, SendDeferredResize, Moves

LEMMA FlushMoves ==
    ASSUME NEW s, Whole(s), NEW e
    PROVE  Moves(s, Flush(e, s))
BY DEF Whole, Flush, Moves

LEMMA StopMoves ==
    ASSUME NEW s, Whole(s), NEW notify
    PROVE  LET t == StopHost(Controlled, s, notify)
           IN /\ Moves(s, t)
              /\ s.state # "Closed" => t.stop = TRUE
<1> DEFINE told == IF notify /\ s.request # 0 /\ s.channel
                   THEN Send(s, Message("Close", s.request, 0)) ELSE s
           closing == SetState(told, "Closing")
           released == [closing EXCEPT !.stopPending = TRUE, !.stopTimer = TRUE, !.stop = TRUE]
           left == [released EXCEPT !.approving = FALSE, !.paused = FALSE,
                             !.queue = <<>>, !.early = <<>>, !.next = 1, !.last = 0]
<1>1. StopHost(Controlled, s, notify) = IF s.state = "Closed" THEN s ELSE left
    BY DEF StopHost
<1>2. Moves(s, told) /\ told.state = s.state
    BY SendMoves DEF Moves
<1> HIDE DEF told
<1>3. Moves(told, closing)
    BY <1>2, SetMoves DEF Moves, Busy
<1> HIDE DEF closing
<1>4. Whole(left) /\ left.session = closing.session /\ left.state = closing.state
          /\ left.stop = TRUE
    BY <1>3 DEF Whole, Moves
<1> HIDE DEF left
<1>5. Moves(s, left) /\ left.stop = TRUE
    BY <1>2, <1>3, <1>4 DEF Moves
<1>6. Moves(s, s)
    BY DEF Moves
<1> QED BY <1>1, <1>5, <1>6

LEMMA FailMoves ==
    ASSUME NEW s, Whole(s)
    PROVE  Moves(s, FailTerminal(Controlled, s))
<1> DEFINE told == Send(s, Message("Error", s.request, 0))
           failed == SetState(told, "Failed")
           left == StopHost(Controlled, failed, TRUE)
<1>1. FailTerminal(Controlled, s) = IF s.state \in {"Closing", "Closed", "Failed"} THEN s ELSE left
    BY DEF FailTerminal
<1>2. Moves(s, told)
    BY SendMoves
<1> HIDE DEF told
<1>3. Moves(told, failed)
    BY <1>2, SetMoves DEF Moves, Busy
<1> HIDE DEF failed
<1>4. Moves(failed, left)
    BY <1>3, StopMoves DEF Moves
<1> HIDE DEF left
<1>5. Moves(s, left) /\ Moves(s, s)
    BY <1>2, <1>3, <1>4 DEF Moves
<1> QED BY <1>1, <1>5

LEMMA EnqueueMoves ==
    ASSUME NEW s, Whole(s), NEW payload
    PROVE  Moves(s, Enqueue(Controlled, s, payload))
<1> DEFINE more == [s EXCEPT !.queue = Append(@, payload)]
<1>1. Moves(s, more)
    BY DEF Whole, Moves
<1>2. Moves(s, FailTerminal(Controlled, s))
    BY FailMoves
<1>3. Enqueue(Controlled, s, payload)
          = IF Len(s.queue) >= MaxQueue THEN FailTerminal(Controlled, s) ELSE Flush(Controlled, more)
    BY DEF Enqueue
<1> HIDE DEF more
<1>4. Moves(more, Flush(Controlled, more))
    BY <1>1, FlushMoves DEF Moves
<1>5. Moves(s, Flush(Controlled, more))
    BY <1>1, <1>4, MovesOn
<1> QED BY <1>2, <1>3, <1>5

(* A request that is opened finds no shell: the state is Closed or Failed,   *)
(* and a failed terminal does not wait for the user.                         *)
LEMMA OpenRequestMoves ==
    ASSUME NEW s, Whole(s), NEW m
    PROVE  Moves(s, ExecuteOpenRequest(s, m))
<1> DEFINE no == Send(s, Message("Rejected", m.request, 0))
           told == Send(s, Message("ApprovalPending", m.request, 0))
           asking == [told EXCEPT
                 !.request = m.request, !.next = 1, !.last = 0, !.size = m.size,
                 !.approving = TRUE, !.prompts = @ \union {m.request}]
           refuses == \/ ~IsSessionReady(s) \/ s.denied \/ s.state \notin {"Closed", "Failed"}
<1>1. ExecuteOpenRequest(s, m)
          = IF refuses THEN Refused(no) ELSE Done(SetState(asking, "AwaitingApproval"))
    BY DEF ExecuteOpenRequest
<1>2. Moves(s, no) /\ Moves(s, told) /\ told.state = s.state
    BY SendMoves
<1> HIDE DEF no, told
<1>3. Moves(s, Refused(no))
    BY <1>2 DEF Refused, Moves, Whole
<1>4. Whole(asking) /\ asking.session = s.session /\ asking.state = s.state
    BY <1>2 DEF Moves, Whole
<1> HIDE DEF asking
<1>5. ASSUME ~refuses PROVE Moves(s, Done(SetState(asking, "AwaitingApproval")))
  <2> DEFINE waits == SetState(asking, "AwaitingApproval")
  <2>1. s.state \in {"Closed", "Failed"} /\ s.session # "Idle"
    BY <1>5 DEF IsSessionReady
  <2>2. /\ Whole(waits) /\ waits.session = s.session
        /\ waits.state = IF CanTransitionTo(asking.state, "AwaitingApproval")
                         THEN "AwaitingApproval" ELSE asking.state
    BY <1>4, StateIsSet
  <2>3. s.state = "Failed" => waits.state = "Failed"
    BY <1>4, <2>2 DEF CanTransitionTo
  <2> HIDE DEF waits
  <2>4. Moves(s, waits)
    BY <2>1, <2>2, <2>3 DEF Moves, Busy
  <2>5. Moves(s, Done(waits))
    BY <2>4 DEF Done, Moves, Whole
  <2> QED BY <2>5 DEF waits
<1> QED BY <1>1, <1>3, <1>5

LEMMA ControlledMoves ==
    ASSUME NEW s, Whole(s), NEW m
    PROVE  Moves(s, ExecuteControlled(s, m))
<1>1. Moves(s, Refused(s)) /\ Moves(s, Done(s)) /\ Moves(s, Done([s EXCEPT !.size = m.size]))
    BY DEF Refused, Done, Moves, Whole
<1>2. Moves(s, Done(StopHost(Controlled, s, FALSE)))
  <2> DEFINE t == StopHost(Controlled, s, FALSE)
  <2>1. Moves(s, t)
    BY StopMoves
  <2> HIDE DEF t
  <2>2. Moves(s, Done(t))
    BY <2>1 DEF Done, Moves, Whole
  <2> QED BY <2>2 DEF t
<1>3. Moves(s, Done(SetState(s, "Failed")))
  <2> DEFINE t == SetState(s, "Failed")
  <2>1. Moves(s, t)
    BY SetMoves DEF Busy
  <2> HIDE DEF t
  <2>2. Moves(s, Done(t))
    BY <2>1 DEF Done, Moves, Whole
  <2> QED BY <2>2 DEF t
<1> QED BY <1>1, <1>2, <1>3 DEF ExecuteControlled

LEMMA MessageMoves ==
    ASSUME NEW s, Whole(s), NEW m, NEW writes
    PROVE  Moves(s, ExecuteControlMessage(Controlled, s, m, writes))
<1>1. Moves(s, Refused(s))
    BY DEF Refused, Moves, Whole
<1> QED BY <1>1, OpenRequestMoves, ControlledMoves DEF ExecuteControlMessage

LEMMA CompletedMoves ==
    ASSUME NEW s, Whole(s), NEW type, NEW request, NEW ok
    PROVE  Moves(s, HandleCommandCompleted(Controlled, s, type, request, ok))
<1> DEFINE running == SetState(s, "Running")
<1>1. Moves(s, s)
    BY DEF Moves
<1>2. Moves(s, running)
    BY SetMoves DEF Busy
<1> HIDE DEF running
<1>3. Moves(running, Flush(Controlled, running))
    BY <1>2, FlushMoves DEF Moves
<1>4. Moves(s, Flush(Controlled, running))
    BY <1>2, <1>3, MovesOn
<1>5. Moves(s, FailTerminal(Controlled, s))
    BY FailMoves
<1> QED BY <1>1, <1>4, <1>5 DEF HandleCommandCompleted, running

LEMMA TimedOutMoves ==
    ASSUME NEW s, Whole(s), NEW type, NEW request
    PROVE  Moves(s, HandleCommandTimedOut(Controlled, s, type, request))
<1>1. Moves(s, s)
    BY DEF Moves
<1> QED BY <1>1, FailMoves DEF HandleCommandTimedOut

LEMMA ResultMoves ==
    ASSUME NEW s, Whole(s), NEW m, NEW p
    PROVE  Moves(s, HandleResult(Controlled, s, m, p))
<1> DEFINE left == [s EXCEPT !.pending = @ \ {p}]
           told == HandleCommandCompleted(Controlled, left, p.message.type, m.request, m.ok)
           sent == SendDeferredResize(told, p.message.type)
<1>1. HandleResult(Controlled, s, m, p) = sent
    BY DEF HandleResult
<1>2. Moves(s, left)
    BY DEF Moves, Whole
<1> HIDE DEF left
<1>3. Moves(left, told)
    BY <1>2, CompletedMoves DEF Moves
<1> HIDE DEF told
<1>4. Moves(told, sent)
    BY <1>3, ResizeMoves DEF Moves
<1> HIDE DEF sent
<1> QED BY <1>1, <1>2, <1>3, <1>4, MovesOn

LEMMA IncomingMoves ==
    ASSUME NEW s, Whole(s), NEW m, NEW writes
    PROVE  Moves(s, HandleIncoming(Controlled, s, m, writes))
<1> DEFINE P == {p \in s.pending : p.message.id = m.id /\ p.message.request = m.request}
           result == IF P = {} THEN s ELSE HandleResult(Controlled, s, m, CHOOSE p \in P : TRUE)
           r == CHOOSE r \in s.results : r.id = m.id
           again == [s EXCEPT !.out = Append(@, Answer(s, m, r.ok))]
           x == ExecuteControlMessage(Controlled, s, m, writes)
           done == [x EXCEPT !.results = @ \union {[id |-> m.id, ok |-> x.ok]},
                             !.out = Append(@, Answer(x, m, x.ok))]
<1>1. Moves(s, result)
  <2>1. Moves(s, s)
    BY DEF Moves
  <2>2. Moves(s, HandleResult(Controlled, s, m, CHOOSE p \in P : TRUE))
    BY ResultMoves
  <2> QED BY <2>1, <2>2
<1>2. Moves(s, again)
    BY DEF Moves, Whole
<1>3. Moves(s, x)
    BY MessageMoves
<1>4. Moves(s, done)
  <2> HIDE DEF x
  <2> QED BY <1>3 DEF Moves, Whole
<1>5. HandleIncoming(Controlled, s, m, writes) \in {result, again, done, x}
  <2>1. HandleIncoming(Controlled, s, m, writes)
        = CASE m.type = "Result" -> result
            [] m.type \in Reliable /\ (\E q \in s.results : q.id = m.id) -> again
            [] m.type \in Reliable /\ ~(\E q \in s.results : q.id = m.id) -> done
            [] OTHER -> x
    BY DEF HandleIncoming
  <2> HIDE DEF result, again, done, x
  <2> QED BY <2>1
<1> QED BY <1>1, <1>2, <1>3, <1>4, <1>5

LEMMA DeliverMoves ==
    ASSUME NEW s, Whole(s), NEW frame, NEW accepts
    PROVE  Moves(s, Deliver(Controlled, s, frame, accepts))
<1>1. Moves(s, s) /\ Moves(s, [s EXCEPT !.taken = frame])
    BY DEF Moves, Whole
<1>2. Moves(s, FailTerminal(Controlled, s))
    BY FailMoves
<1>3. Deliver(Controlled, s, frame, accepts)
          \in {s, [s EXCEPT !.taken = frame], FailTerminal(Controlled, s)}
    BY DEF Deliver, Controlled, Controller
<1> QED BY <1>1, <1>2, <1>3

LEMMA RejectMoves ==
    ASSUME NEW s, Whole(s), s.state = "AwaitingApproval"
    PROVE  Moves(s, Reject(s))
<1> DEFINE left == [s EXCEPT !.denied = TRUE, !.approving = FALSE]
           told == Send(left, Message("Rejected", s.request, 0))
           closed == SetState(told, "Closed")
<1>1. Reject(s) = closed
    BY DEF Reject
<1>2. Whole(left) /\ left.session = s.session
    BY DEF Whole
<1> HIDE DEF left
<1>3. Moves(left, told)
    BY <1>2, SendMoves
<1> HIDE DEF told
<1>4. Whole(closed) /\ closed.session = told.session
    BY <1>3, StateIsSet DEF Moves
<1> HIDE DEF closed
<1> QED BY <1>1, <1>2, <1>3, <1>4 DEF Moves, Busy

(* Whatever fails, a shell that was started leaves a terminal that has it.   *)
LEMMA StartMoves ==
    ASSUME NEW s, Whole(s), s.state = "AwaitingApproval", NEW starts, NEW sends
    PROVE  LET t == StartHost(s, starts, sends)
           IN Moves(s, t) /\ t.state \in Busy
<1> DEFINE left == [s EXCEPT !.approving = FALSE]
           opening == SetState(left, "Opening")
           erring == Send(opening, Message("Error", s.request, 0))
           failed == SetState(erring, "Failed")
           accepted == Send(opening, Message("Accepted", s.request, 0))
           refused == SetState(opening, "Failed")
           stopped == StopHost(Controlled, refused, FALSE)
<1>1. StartHost(s, starts, sends)
          = CASE ~starts -> failed [] starts /\ sends -> accepted [] OTHER -> stopped
    BY DEF StartHost
<1>2. Whole(left) /\ left.session = s.session /\ left.state = "AwaitingApproval"
    BY DEF Whole
<1> HIDE DEF left
<1>3. Whole(opening) /\ opening.session = s.session /\ opening.state = "Opening"
    BY <1>2, StateIsSet DEF CanTransitionTo
<1> HIDE DEF opening
<1>4. Moves(opening, accepted) /\ Moves(opening, erring)
    BY <1>3, SendMoves
<1> HIDE DEF accepted, erring
<1>5. Moves(erring, failed)
    BY <1>4, SetMoves DEF Moves, Busy
<1>6. Moves(opening, refused)
    BY <1>3, SetMoves DEF Busy
<1> HIDE DEF failed, refused
<1>7. Moves(refused, stopped)
    BY <1>6, StopMoves DEF Moves
<1> HIDE DEF stopped
<1>8. \A t \in {failed, accepted, stopped} : Moves(s, t) /\ t.state \in Busy
    BY <1>3, <1>4, <1>5, <1>6, <1>7 DEF Moves, Busy
<1>9. StartHost(s, starts, sends) \in {failed, accepted, stopped}
    BY <1>1
<1> QED BY <1>8, <1>9

LEMMA SignalMoves ==
    ASSUME NEW s, Whole(s), NEW g,
           ~(g.kind = "stopped" /\ g.generation = generation)
    PROVE  Moves(s, HandleSignal(s, g))
<1> DEFINE calm == [s EXCEPT !.stop = FALSE]
           stopping == [s EXCEPT !.stop = TRUE]
           failed == FailTerminal(Controlled, s)
           failing == [failed EXCEPT !.stop = TRUE]
           queued == Enqueue(Controlled, s, g.payload)
<1>1. Moves(s, calm) /\ Moves(s, stopping) /\ Moves(s, s)
    BY DEF Moves, Whole
<1>2. Moves(s, queued) /\ Moves(s, failed)
    BY EnqueueMoves, FailMoves
<1>3. HandleSignal(s, g) \in {calm, stopping, s, queued, failing}
  <2>1. HandleSignal(s, g)
        = IF g.generation # generation THEN calm
          ELSE CASE g.kind = "output" ->
                      IF s.state \in {"Opening", "Running", "Paused"} THEN queued ELSE s
                 [] g.kind = "stopped" -> HandleHostStopped(HandleHostExited(s))
                 [] g.kind = "failed" -> failing
                 [] OTHER -> stopping
    BY DEF HandleSignal
  <2> HIDE DEF calm, stopping, failed, failing, queued
  <2> QED BY <2>1
<1>4. Moves(s, failing)
  <2> HIDE DEF failed
  <2> QED BY <1>2 DEF Moves, Whole
<1> HIDE DEF calm, stopping, failing, queued
<1> QED BY <1>1, <1>2, <1>3, <1>4

LEMMA StoppedCloses ==
    ASSUME NEW s, Whole(s), NEW g, g.kind = "stopped", g.generation = generation
    PROVE  LET t == HandleSignal(s, g)
           IN Whole(t) /\ t.state = "Closed" /\ t.session = s.session
<1> DEFINE told == Send(s, Message("Exited", s.request, 0))
           shut == SetState(told, "Closed")
           closed == [shut EXCEPT !.left = @ \union {s.queue[i].of : i \in 1..Len(s.queue)}]
           left == [closed EXCEPT !.stopPending = FALSE, !.stopTimer = FALSE]
           stopped == SetState(left, "Closed")
<1>1. HandleSignal(s, g) = IF ~closed.stopPending THEN closed ELSE stopped
    BY DEF HandleSignal, HandleHostStopped, HandleHostExited
<1>2. Moves(s, told)
    BY SendMoves
<1> HIDE DEF told
<1>a. Whole(shut) /\ shut.session = s.session /\ shut.state = "Closed"
    BY <1>2, StateIsSet DEF Moves, CanTransitionTo
<1> HIDE DEF shut
<1>3. Whole(closed) /\ closed.session = s.session /\ closed.state = "Closed"
    BY <1>a DEF Whole
<1> HIDE DEF closed
<1>4. Whole(left) /\ left.session = s.session /\ left.state = "Closed"
    BY <1>3 DEF Whole
<1> HIDE DEF left
<1>5. Whole(stopped) /\ stopped.session = s.session /\ stopped.state = "Closed"
    BY <1>4, StateIsSet DEF CanTransitionTo
<1> HIDE DEF stopped
<1> QED BY <1>1, <1>3, <1>5

LEMMA EndCloses ==
    ASSUME NEW s, Whole(s)
    PROVE  LET t == ResetSession(StopHost(Controlled, [s EXCEPT !.session = "Idle"], FALSE))
           IN /\ Whole(t) /\ t.state = "Closed" /\ t.session = "Idle"
              /\ s.state # "Closed" => t.stop = TRUE
<1> DEFINE idle == [s EXCEPT !.session = "Idle"]
           stopped == StopHost(Controlled, idle, FALSE)
           closed == SetState(stopped, "Closed")
           t == ResetSession(stopped)
<1>1. Whole(idle) /\ idle.session = "Idle" /\ idle.state = s.state
    BY DEF Whole
<1> HIDE DEF idle
<1>2. Moves(idle, stopped) /\ (s.state # "Closed" => stopped.stop = TRUE)
    BY <1>1, StopMoves
<1> HIDE DEF stopped
<1>3. /\ Whole(closed) /\ closed.session = "Idle" /\ closed.state = "Closed"
      /\ closed.stop = stopped.stop
    BY <1>1, <1>2, StateIsSet DEF Moves, CanTransitionTo
<1>4. t = [closed EXCEPT
        !.request = 0, !.channel = FALSE, !.attached = FALSE, !.window = "none",
        !.denied = FALSE, !.openLater = FALSE, !.approving = FALSE,
        !.paused = FALSE, !.stopPending = FALSE, !.stopTimer = FALSE,
        !.queue = <<>>, !.early = <<>>, !.next = 1, !.last = 0,
        !.pending = {}, !.results = {}, !.deferred = <<>>]
    BY DEF ResetSession
<1> HIDE DEF closed, t
<1>5. /\ Whole(t) /\ t.session = "Idle" /\ t.state = "Closed" /\ t.stop = closed.stop
    BY <1>3, <1>4 DEF Whole
<1>6. t = ResetSession(StopHost(Controlled, [s EXCEPT !.session = "Idle"], FALSE))
    BY DEF t, stopped, idle
<1> QED BY <1>2, <1>3, <1>5, <1>6

-----------------------------------------------------------------------------
(* What a step does.                                                         *)

Onward(s, t) ==
    /\ Whole(t)
    /\ t.session = "Idle" <=> s.session = "Idle"
    /\ s.state \in Busy => t.state \in Busy
    /\ s.state = "Closed" /\ s.session = "Idle" => t.state = "Closed"

(* The console was at most asked to stop.                                    *)
HostKept == host' = host \/ (host.run = "running" /\ host' = [host EXCEPT !.run = "stopping"])

SignalsKept == signals' = signals \/ (signals # <<>> /\ signals' = Tail(signals))

LEMMA HostStays ==
    ASSUME ShellInv, HostKept
    PROVE  /\ host' \in Hosts
           /\ host'.generation = host.generation /\ host'.request = host.request
           /\ host'.run = "running" => host.run = "running"
           /\ host'.run = "stopping" => host.run \in {"running", "stopping"}
           /\ host'.run = "off" <=> host.run = "off"
<1>1. host \in Hosts
    BY DEF ShellInv, ShellTypeOK
<1>2. CASE host' = host
    BY <1>1, <1>2 DEF Hosts
<1>3. CASE host.run = "running" /\ host' = [host EXCEPT !.run = "stopping"]
    BY <1>1, <1>3 DEF Hosts
<1> QED BY <1>2, <1>3 DEF HostKept

LEMMA SignalsStay ==
    ASSUME NEW old \in Seq(Signals), NEW new, new = old \/ (old # <<>> /\ new = Tail(old))
    PROVE  /\ new \in Seq(Signals)
           /\ \E k \in {0, 1} : \A i \in 1..Len(new) : i + k \in 1..Len(old) /\ new[i] = old[i + k]
<1>1. CASE new = old
  <2>1. \A i \in 1..Len(new) : i + 0 \in 1..Len(old) /\ new[i] = old[i + 0]
    BY <1>1
  <2> QED BY <1>1, <2>1
<1>2. CASE old # <<>> /\ new = Tail(old)
  <2>1. \A i \in 1..Len(new) : i + 1 \in 1..Len(old) /\ new[i] = old[i + 1]
    BY <1>2
  <2> QED BY <1>2, <2>1
<1> QED BY <1>1, <1>2

(* A handler that begins and ends nothing.                                   *)
LEMMA Continues ==
    ASSUME ShellInv, DOMAIN service' = Endpoint, Onward(Own, Own'),
           generation' = generation, joined \subseteq joined', approved \subseteq approved',
           prints' \in Nat, HostKept, SignalsKept
    PROVE  ShellInv'
<1>1. PICK k \in {0, 1} : \A i \in 1..Len(signals') :
          i + k \in 1..Len(signals) /\ signals'[i] = signals[i + k]
    BY SignalsStay DEF SignalsKept, ShellInv, ShellTypeOK
<1>2. signals' \in Seq(Signals) /\ generation \in Nat
    BY SignalsStay DEF SignalsKept, ShellInv, ShellTypeOK
<1>3. Len(signals') \in Nat
    BY <1>2
<1>4. \A i \in 1..Len(signals') : Reports(i)' => i + k \in 1..Len(signals) /\ Reports(i + k)
    BY <1>1 DEF Reports
<1>5. Gone => Gone'
    BY DEF Gone, Onward
<1>6. Own.state \in Busy \/ Gone => Own'.state \in Busy \/ Gone'
    BY <1>5 DEF Onward
<1>7. ShellTypeOK'
    BY <1>2, HostStays DEF ShellInv, ShellTypeOK, Onward
<1>8. ShellRuns'
    BY HostStays DEF ShellInv, ShellRuns, Onward
<1>9. StopAwaited'
  <2>1. host'.run = "stopping" /\ host'.generation = generation' => Own'.state \in Busy \/ Gone'
    BY <1>6, HostStays DEF ShellInv, ShellRuns, StopAwaited
  <2>2. \A i \in 1..Len(signals') : Reports(i)' => Own'.state \in Busy \/ Gone'
    BY <1>4, <1>6 DEF ShellInv, StopAwaited
  <2> QED BY <2>1, <2>2 DEF StopAwaited
<1>10. StopsOnce'
  <2>1. host'.run # "off" /\ host'.generation = generation'
            => \A i \in 1..Len(signals') : ~Reports(i)'
    BY <1>4, HostStays DEF ShellInv, StopsOnce
  <2>2. \A i, j \in 1..Len(signals') : Reports(i)' /\ Reports(j)' => i + k = j + k
    BY <1>4 DEF ShellInv, StopsOnce
  <2>3. \A i, j \in 1..Len(signals') : i + k = j + k => i = j
    BY <1>3
  <2> QED BY <2>1, <2>2, <2>3 DEF StopsOnce
<1>11. NothingFromLater'
    BY <1>1, HostStays DEF ShellInv, NothingFromLater
<1>12. SessionsInOrder'
    BY DEF ShellInv, SessionsInOrder, Onward
<1> QED BY <1>7, <1>8, <1>9, <1>10, <1>11, <1>12 DEF ShellInv

LEMMA Stopping ==
    ASSUME NEW s, RequestStop(s)
    PROVE  HostKept
BY DEF RequestStop, HostKept

(* The record a handler leaves behind, without what it sent.                 *)
LEMMA LeavesOwn ==
    ASSUME ShellInv, NEW t, Whole(t), Leaves(Controlled, t)
    PROVE  /\ DOMAIN service' = Endpoint
           /\ Whole(Own') /\ Own'.state = t.state /\ Own'.session = t.session
<1>1. DOMAIN service = Endpoint /\ Controlled \in Endpoint
    BY DEF ShellInv, ShellTypeOK, Endpoint
<1> QED BY <1>1 DEF Leaves, Whole, Own

LEMMA ControllerLeaves ==
    ASSUME ShellInv, NEW t, service' = [service EXCEPT ![Controller] = t]
    PROVE  DOMAIN service' = Endpoint /\ Own' = Own /\ Onward(Own, Own')
<1>1. DOMAIN service = Endpoint /\ Controlled \in Endpoint /\ Controlled # Controller /\ Whole(Own)
    BY DEF ShellInv, ShellTypeOK, Endpoint, Controlled, Controller
<1>2. DOMAIN service' = Endpoint /\ Own' = Own
    BY <1>1 DEF Own
<1> QED BY <1>1, <1>2 DEF Onward

LEMMA ControlledServes ==
    ASSUME ShellInv, NEW t, Onward(Own, t), Leaves(Controlled, t),
           generation' = generation, joined \subseteq joined', approved \subseteq approved',
           prints' \in Nat, HostKept, SignalsKept
    PROVE  ShellInv'
<1>1. Whole(t)
    BY DEF Onward
<1>2. DOMAIN service' = Endpoint /\ Onward(Own, Own')
    BY <1>1, LeavesOwn DEF Onward
<1> QED BY <1>2, Continues

LEMMA ControllerServes ==
    ASSUME ShellInv, NEW t, Leaves(Controller, t),
           generation' = generation, joined \subseteq joined', approved \subseteq approved',
           prints' \in Nat, HostKept, SignalsKept
    PROVE  ShellInv'
<1>1. DOMAIN service' = Endpoint /\ Onward(Own, Own')
    BY ControllerLeaves DEF Leaves
<1> QED BY <1>1, Continues

LEMMA MovesOnward ==
    ASSUME NEW s, NEW t, Moves(s, t)
    PROVE  Onward(s, t)
BY DEF Moves, Onward

LEMMA Shelled ==
    ASSUME ShellInv
    PROVE  Whole(Own) /\ prints \in Nat /\ Own = service[Controlled] /\ signals \in Seq(Signals)
BY DEF ShellInv, ShellTypeOK, Own

-----------------------------------------------------------------------------
(* The steps.                                                                *)

(* A handler that only sends and asks the console to stop.                   *)
LEMMA HandlesKeeps ==
    ASSUME ShellInv, NEW t, Onward(Own, t), Handles(Controlled, t),
           approved \subseteq approved', prints' = prints
    PROVE  ShellInv'
<1>1. Leaves(Controlled, t) /\ HostKept /\ SignalsKept
    BY Stopping DEF Handles, SignalsKept
<1>2. generation' = generation /\ joined \subseteq joined' /\ prints' \in Nat
    BY Shelled DEF Handles, session
<1> QED BY <1>1, <1>2, ControlledServes

LEMMA ControllerHandles ==
    ASSUME ShellInv, NEW t, Handles(Controller, t),
           approved \subseteq approved', prints' = prints
    PROVE  ShellInv'
<1>1. Leaves(Controller, t) /\ HostKept /\ SignalsKept
    BY Stopping DEF Handles, SignalsKept
<1>2. generation' = generation /\ joined \subseteq joined' /\ prints' \in Nat
    BY Shelled DEF Handles, session
<1> QED BY <1>1, <1>2, ControllerServes

LEMMA WindowKeeps ==
    ASSUME ShellInv,
           \/ \E ok \in BOOLEAN : OpenTerminal(ok)
           \/ FrontendConnected \/ FrontendClosed \/ SendInput \/ ResizeTerminal
           \/ CloseTerminal(Controller) \/ DeferredResize(Controller)
           \/ CommandTimer(Controller) \/ ChannelOpens(Controller)
           \/ Reconnecting(Controller) \/ Restored(Controller)
    PROVE  ShellInv'
<1>1. PICK t : Handles(Controller, t) /\ approved' = approved /\ prints' = prints
    BY DEF OpenTerminal, FrontendConnected, FrontendClosed, SendInput, ResizeTerminal,
           CloseTerminal, DeferredResize, CommandTimer, ChannelOpens, Reconnecting, Restored, inputs
<1> QED BY <1>1, ControllerHandles

LEMMA CloseKeeps ==
    ASSUME ShellInv, CloseTerminal(Controlled)
    PROVE  ShellInv'
<1> DEFINE t == StopHost(Controlled, Own, TRUE)
<1>1. Onward(Own, t)
    BY Shelled, StopMoves, MovesOnward
<1>2. Handles(Controlled, t) /\ approved' = approved /\ prints' = prints
    BY Shelled DEF CloseTerminal, inputs
<1> HIDE DEF t
<1> QED BY <1>1, <1>2, HandlesKeeps

LEMMA DeferredKeeps ==
    ASSUME ShellInv, DeferredResize(Controlled)
    PROVE  ShellInv'
<1> DEFINE s == [Own EXCEPT !.due = Tail(@)]
           t == Send(s, Head(Own.due))
<1>1. Moves(Own, s)
    BY Shelled DEF Moves, Whole
<1>2. Handles(Controlled, t) /\ approved' = approved /\ prints' = prints
    BY Shelled DEF DeferredResize, inputs
<1> HIDE DEF s
<1>3. Moves(s, t)
    BY <1>1, SendMoves DEF Moves
<1> HIDE DEF t
<1>4. Onward(Own, t)
    BY <1>1, <1>3, MovesOn, MovesOnward
<1> QED BY <1>2, <1>4, HandlesKeeps

LEMMA RejectKeeps ==
    ASSUME ShellInv, NEW q, RejectRequest(q)
    PROVE  ShellInv'
<1> DEFINE s == [Own EXCEPT !.prompts = @ \ {q}]
           t == Reject(s)
<1>1. Moves(Own, s) /\ s.state = "AwaitingApproval"
    BY Shelled DEF Moves, Whole, RejectRequest, RespondsTo
<1>2. Handles(Controlled, t) /\ approved' = approved /\ prints' = prints
    BY Shelled DEF RejectRequest, inputs
<1> HIDE DEF s
<1>3. Moves(s, t)
    BY <1>1, RejectMoves DEF Moves
<1> HIDE DEF t
<1>4. Onward(Own, t)
    BY <1>1, <1>3, MovesOn, MovesOnward
<1> QED BY <1>2, <1>4, HandlesKeeps

LEMMA TooLateKeeps ==
    ASSUME ShellInv, NEW q, AnswerTooLate(q)
    PROVE  ShellInv'
<1> DEFINE t == [Own EXCEPT !.prompts = @ \ {q}]
<1>1. Onward(Own, t)
    BY Shelled DEF Onward, Whole
<1>2. Handles(Controlled, t) /\ approved \subseteq approved' /\ prints' = prints
    BY Shelled DEF AnswerTooLate, inputs
<1> HIDE DEF t
<1> QED BY <1>1, <1>2, HandlesKeeps

LEMMA ApprovalTimeoutKeeps ==
    ASSUME ShellInv, ApprovalTimeout
    PROVE  ShellInv'
<1> DEFINE s == [Own EXCEPT !.prompts = @ \ {Own.request}]
           rejected == Reject(s)
           waiting == [Own EXCEPT !.approving = FALSE]
           t == IF Own.state = "AwaitingApproval" THEN rejected ELSE waiting
<1>1. Moves(Own, s) /\ Moves(Own, waiting) /\ s.state = Own.state
    BY Shelled DEF Moves, Whole
<1>2. Handles(Controlled, t) /\ approved' = approved /\ prints' = prints
    BY Shelled DEF ApprovalTimeout, inputs
<1> HIDE DEF s, waiting
<1>3. Own.state = "AwaitingApproval" => Moves(s, rejected)
    BY <1>1, RejectMoves DEF Moves
<1> HIDE DEF rejected
<1>4. Onward(Own, t)
    BY <1>1, <1>3, MovesOn, MovesOnward
<1> HIDE DEF t
<1> QED BY <1>2, <1>4, HandlesKeeps

LEMMA TimerKeeps ==
    ASSUME ShellInv, CommandTimer(Controlled)
    PROVE  ShellInv'
<1>1. PICK p \in Own.pending :
        Handles(Controlled,
              IF p.attempts < 2
              THEN [Own EXCEPT !.pending = (@ \ {p}) \union {[p EXCEPT !.attempts = 2]},
                             !.out = Append(@, p.message)]
              ELSE SendDeferredResize(
                       HandleCommandTimedOut(Controlled, [Own EXCEPT !.pending = @ \ {p}],
                           p.message.type, p.message.request),
                       p.message.type))
    BY Shelled DEF CommandTimer
<1> DEFINE again == [Own EXCEPT !.pending = (@ \ {p}) \union {[p EXCEPT !.attempts = 2]},
                             !.out = Append(@, p.message)]
           s == [Own EXCEPT !.pending = @ \ {p}]
           u == HandleCommandTimedOut(Controlled, s, p.message.type, p.message.request)
           given == SendDeferredResize(u, p.message.type)
           t == IF p.attempts < 2 THEN again ELSE given
<1>2. Handles(Controlled, t) /\ approved' = approved /\ prints' = prints
    BY <1>1 DEF CommandTimer, inputs
<1>3. Moves(Own, again) /\ Moves(Own, s)
    BY Shelled DEF Moves, Whole
<1> HIDE DEF again, s
<1>4. Moves(s, u)
    BY <1>3, TimedOutMoves DEF Moves
<1> HIDE DEF u
<1>5. Moves(u, given)
    BY <1>4, ResizeMoves DEF Moves
<1> HIDE DEF given
<1>6. Moves(Own, given)
    BY <1>3, <1>4, <1>5, MovesOn
<1>7. Onward(Own, t)
    BY <1>3, <1>6, MovesOnward
<1> HIDE DEF t
<1> QED BY <1>2, <1>7, HandlesKeeps

LEMMA StopTimeoutKeeps ==
    ASSUME ShellInv, StopTimeout
    PROVE  ShellInv'
<1> DEFINE s == [Own EXCEPT !.stopTimer = FALSE]
           t == SetState(s, "Failed")
<1>1. Moves(Own, s)
    BY Shelled DEF Moves, Whole
<1>2. Handles(Controlled, t) /\ approved' = approved /\ prints' = prints
    BY Shelled DEF StopTimeout, inputs
<1> HIDE DEF s
<1>3. Moves(s, t)
    BY <1>1, SetMoves DEF Moves, Busy
<1> HIDE DEF t
<1>4. Onward(Own, t)
    BY <1>1, <1>3, MovesOn, MovesOnward
<1> QED BY <1>2, <1>4, HandlesKeeps

LEMMA ChannelOpensKeeps ==
    ASSUME ShellInv, ChannelOpens(Controlled)
    PROVE  ShellInv'
<1> DEFINE t == [Own EXCEPT !.channel = TRUE]
<1>1. Onward(Own, t)
    BY Shelled DEF Onward, Whole
<1>2. Handles(Controlled, t) /\ approved' = approved /\ prints' = prints
    BY Shelled DEF ChannelOpens, TryOpen, inputs, Controlled, Controller
<1> HIDE DEF t
<1> QED BY <1>1, <1>2, HandlesKeeps

LEMMA ReconnectingKeeps ==
    ASSUME ShellInv, Reconnecting(Controlled)
    PROVE  ShellInv'
<1> DEFINE r == [Own EXCEPT !.session = "Reconnecting"]
           paused == SetState(r, "Paused")
           t == IF Own.state = "Running" THEN paused ELSE r
<1>1. Onward(Own, r) /\ Whole(r) /\ Own.session # "Idle" /\ r.session # "Idle"
    BY Shelled DEF Onward, Whole, Reconnecting
<1>2. Handles(Controlled, t) /\ approved' = approved /\ prints' = prints
    BY Shelled DEF Reconnecting, inputs
<1> HIDE DEF r
<1>3. Moves(r, paused)
    BY <1>1, SetMoves DEF Busy
<1> HIDE DEF paused
<1>4. Onward(Own, t)
    BY <1>1, <1>3 DEF Onward, Moves
<1> HIDE DEF t
<1> QED BY <1>2, <1>4, HandlesKeeps

LEMMA RestoredKeeps ==
    ASSUME ShellInv, Restored(Controlled)
    PROVE  ShellInv'
<1> DEFINE r == [Own EXCEPT !.session = "Connected"]
           running == SetState(r, "Running")
           flushed == Flush(Controlled, running)
           t == IF r.state = "Paused" THEN flushed ELSE r
<1>1. Onward(Own, r) /\ Whole(r) /\ Own.session # "Idle" /\ r.session # "Idle"
    BY Shelled DEF Onward, Whole, Restored
<1>2. Handles(Controlled, t) /\ approved' = approved /\ prints' = prints
  <2>1. Resume(Controlled, r) = flushed
    BY DEF Resume
  <2>2. Controlled # Controller
    BY DEF Controlled, Controller
  <2> QED BY <2>1, <2>2, Shelled DEF Restored, TryOpen, inputs
<1> HIDE DEF r
<1>3. Moves(r, running)
    BY <1>1, SetMoves DEF Busy
<1> HIDE DEF running
<1>4. Moves(running, flushed)
    BY <1>3, FlushMoves DEF Moves
<1> HIDE DEF flushed
<1>5. Onward(Own, t)
    BY <1>1, <1>3, <1>4 DEF Onward, Moves
<1> HIDE DEF t
<1> QED BY <1>2, <1>5, HandlesKeeps

LEMMA ReceiveKeeps ==
    ASSUME ShellInv, NEW e \in Endpoint, NEW writes, Receive(e, writes)
    PROVE  ShellInv'
<1> DEFINE t == HandleIncoming(e, service[e], Head(wire[e]), writes)
<1>1. Leaves(e, t) /\ HostKept /\ SignalsKept
    BY Stopping DEF Receive, SignalsKept
<1>2. /\ generation' = generation /\ joined \subseteq joined' /\ approved \subseteq approved'
      /\ prints' \in Nat
    BY Shelled DEF Receive, session, inputs
<1>3. CASE e = Controller
  <2> HIDE DEF t
  <2> QED BY <1>1, <1>2, <1>3, ControllerServes
<1>4. CASE e = Controlled
  <2>1. Onward(Own, t)
    BY <1>4, Shelled, IncomingMoves, MovesOnward
  <2> HIDE DEF t
  <2> QED BY <1>1, <1>2, <1>4, <2>1, ControlledServes
<1> QED BY <1>3, <1>4 DEF Endpoint

LEMMA DataKeeps ==
    ASSUME ShellInv, NEW e \in Endpoint, NEW accepts, HandleTerminalData(e, accepts)
    PROVE  ShellInv'
<1> DEFINE s == service[e]
           frame == Head(data[e])
           took == accepts /\ (e = Controlled => host.run = "running")
           d == IF IsCurrent(s, frame)
                THEN Deliver(e, [s EXCEPT !.last = frame.sequence], frame, took)
                ELSE s
           t == [d EXCEPT !.stop = FALSE, !.out = <<>>]
<1>1. service' = [service EXCEPT ![e] = t] /\ RequestStop(d)
    BY DEF HandleTerminalData
<1>2. /\ generation' = generation /\ joined \subseteq joined' /\ approved \subseteq approved'
      /\ prints' \in Nat /\ SignalsKept
    BY Shelled DEF HandleTerminalData, session, inputs, SignalsKept
<1>3. HostKept
    BY <1>1, Stopping
<1>4. CASE e = Controller
  <2> HIDE DEF t
  <2>1. DOMAIN service' = Endpoint /\ Onward(Own, Own')
    BY <1>1, <1>4, ControllerLeaves
  <2> QED BY <1>2, <1>3, <2>1, Continues
<1>5. CASE e = Controlled
  <2> DEFINE seen == [s EXCEPT !.last = frame.sequence]
  <2>1. Moves(Own, seen) /\ Moves(Own, s) /\ s = Own
    BY <1>5, Shelled DEF Moves, Whole
  <2>2. Moves(Own, d)
    <3> HIDE DEF seen, frame, took
    <3>1. Moves(seen, Deliver(e, seen, frame, took))
      BY <1>5, <2>1, DeliverMoves DEF Moves
    <3>2. Moves(Own, Deliver(e, seen, frame, took))
      BY <2>1, <3>1, MovesOn
    <3> QED BY <2>1, <3>2 DEF seen
  <2> HIDE DEF d
  <2>3. Onward(Own, t)
    BY <2>2 DEF Moves, Onward, Whole
  <2> HIDE DEF t, s
  <2>4. DOMAIN service = Endpoint /\ Controlled \in Endpoint
    BY DEF ShellInv, ShellTypeOK, Endpoint
  <2>5. DOMAIN service' = Endpoint /\ Own' = t
    BY <1>1, <1>5, <2>4 DEF Own
  <2> QED BY <1>2, <1>3, <2>3, <2>5, Continues
<1> QED BY <1>4, <1>5 DEF Endpoint

LEMMA CongestKeeps ==
    ASSUME ShellInv, NEW e \in Endpoint, Congest(e)
    PROVE  ShellInv'
<1>1. DOMAIN service' = Endpoint /\ Onward(Own, Own')
    BY DEF Congest, ShellInv, ShellTypeOK, Own, Onward
<1>2. /\ generation' = generation /\ joined \subseteq joined' /\ approved \subseteq approved'
      /\ prints' \in Nat /\ SignalsKept /\ HostKept
    BY Shelled DEF Congest, session, inputs, SignalsKept, HostKept
<1> QED BY <1>1, <1>2, Continues

LEMMA WatermarkKeeps ==
    ASSUME ShellInv, NEW e \in Endpoint, LowWatermark(e)
    PROVE  ShellInv'
<1> DEFINE s == [service[e] EXCEPT !.paused = FALSE]
           t == IF s.state # "Running" \/ s.request = 0 \/ ~s.channel THEN s
                ELSE [s EXCEPT !.bytes = [i \in 1..Len(s.queue) |-> Frame(s, i)],
                               !.next = @ + Len(s.queue), !.queue = <<>>]
<1>1. Leaves(e, t)
    BY DEF LowWatermark
<1>2. /\ generation' = generation /\ joined \subseteq joined' /\ approved \subseteq approved'
      /\ prints' \in Nat /\ SignalsKept /\ HostKept
    BY Shelled DEF LowWatermark, session, inputs, SignalsKept, HostKept
<1>3. CASE e = Controller
  <2> HIDE DEF t
  <2> QED BY <1>1, <1>2, <1>3, ControllerServes
<1>4. CASE e = Controlled
  <2>1. Moves(Own, s)
    BY <1>4, Shelled DEF Moves, Whole
  <2> HIDE DEF s
  <2>2. Onward(Own, t)
    BY <2>1 DEF Moves, Onward, Whole
  <2> HIDE DEF t
  <2> QED BY <1>1, <1>2, <1>4, <2>2, ControlledServes
<1> QED BY <1>3, <1>4 DEF Endpoint

LEMMA ChannelClosesKeeps ==
    ASSUME ShellInv, NEW e \in Endpoint, ChannelCloses(e)
    PROVE  ShellInv'
<1> DEFINE cut == [service[e] EXCEPT !.channel = FALSE]
           s == StopHost(e, cut, FALSE)
           t == [s EXCEPT !.stop = FALSE]
<1>1. service' = [service EXCEPT ![e] = t] /\ RequestStop(s)
    BY DEF ChannelCloses
<1>2. /\ generation' = generation /\ joined \subseteq joined' /\ approved \subseteq approved'
      /\ prints' \in Nat /\ SignalsKept
    BY Shelled DEF ChannelCloses, inputs, SignalsKept
<1>3. HostKept
    BY <1>1, Stopping
<1>4. CASE e = Controller
  <2> HIDE DEF t
  <2>1. DOMAIN service' = Endpoint /\ Onward(Own, Own')
    BY <1>1, <1>4, ControllerLeaves
  <2> QED BY <1>2, <1>3, <2>1, Continues
<1>5. CASE e = Controlled
  <2>1. Moves(Own, cut)
    BY <1>5, Shelled DEF Moves, Whole
  <2> HIDE DEF cut
  <2>2. Moves(cut, s)
    BY <1>5, <2>1, StopMoves DEF Moves
  <2> HIDE DEF s
  <2>3. Onward(Own, t)
    BY <2>1, <2>2 DEF Moves, Onward, Whole
  <2> HIDE DEF t
  <2>4. DOMAIN service = Endpoint /\ Controlled \in Endpoint
    BY DEF ShellInv, ShellTypeOK, Endpoint
  <2>5. DOMAIN service' = Endpoint /\ Own' = t
    BY <1>1, <1>5, <2>4 DEF Own
  <2> QED BY <1>2, <1>3, <2>3, <2>5, Continues
<1> QED BY <1>4, <1>5 DEF Endpoint

(* A session ends with its shell told to stop.                               *)
LEMMA SessionEndsKeeps ==
    ASSUME ShellInv, NEW e \in Endpoint, SessionEnds(e)
    PROVE  ShellInv'
<1> DEFINE s == ResetSession(StopHost(e, [service[e] EXCEPT !.session = "Idle"], FALSE))
           t == [s EXCEPT !.stop = FALSE]
<1>1. service' = [service EXCEPT ![e] = t] /\ RequestStop(s)
    BY DEF SessionEnds
<1>2. /\ generation' = generation /\ joined' = joined /\ approved' = approved
      /\ prints' = prints /\ signals' = signals
    BY DEF SessionEnds, session, inputs
<1>3. HostKept /\ SignalsKept
    BY <1>1, <1>2, Stopping DEF SignalsKept
<1>4. CASE e = Controller
  <2> HIDE DEF t
  <2>1. DOMAIN service' = Endpoint /\ Onward(Own, Own')
    BY <1>1, <1>4, ControllerLeaves
  <2>2. prints' \in Nat /\ joined \subseteq joined' /\ approved \subseteq approved'
    BY <1>2, Shelled
  <2> QED BY <1>2, <1>3, <2>1, <2>2, Continues
<1>5. CASE e = Controlled
  <2>1. /\ Whole(s) /\ s.state = "Closed" /\ s.session = "Idle"
        /\ Own.state # "Closed" => s.stop = TRUE
    BY <1>5, Shelled, EndCloses
  <2> HIDE DEF s
  <2>2. Whole(t) /\ t.state = "Closed" /\ t.session = "Idle"
    BY <2>1 DEF Whole
  <2> HIDE DEF t
  <2>3. DOMAIN service = Endpoint /\ Controlled \in Endpoint
    BY DEF ShellInv, ShellTypeOK, Endpoint
  <2>4. DOMAIN service' = Endpoint /\ Own' = t
    BY <1>1, <1>5, <2>3 DEF Own
  <2>5. Own.session # "Idle"
    BY <1>5, Shelled DEF SessionEnds
  <2>6. Gone'
    BY <1>2, <2>2, <2>4, <2>5 DEF Gone, ShellInv, SessionsInOrder
  <2>7. host'.run # "running"
    <3>1. CASE host.run = "running"
      <4>1. host.generation = generation /\ Own.state # "Closed" /\ host \in Hosts
        BY <3>1 DEF ShellInv, ShellRuns, Busy, ShellTypeOK
      <4>2. host' = [host EXCEPT !.run = "stopping"]
        BY <1>1, <2>1, <3>1, <4>1 DEF RequestStop
      <4> QED BY <4>1, <4>2 DEF Hosts
    <3>2. CASE host.run # "running"
      BY <1>3, <3>2 DEF HostKept
    <3> QED BY <3>1, <3>2
  <2>8. ShellTypeOK'
    BY <1>2, <1>3, <2>2, <2>4, HostStays DEF ShellInv, ShellTypeOK
  <2>9. ShellRuns'
    BY <2>7 DEF ShellRuns
  <2>10. StopAwaited'
    BY <2>6 DEF StopAwaited
  <2>11. StopsOnce'
    BY <1>2, <1>3, HostStays DEF ShellInv, StopsOnce, Reports
  <2>12. NothingFromLater'
    BY <1>2, <1>3, HostStays DEF ShellInv, NothingFromLater
  <2>13. SessionsInOrder'
    BY <2>2, <2>4 DEF SessionsInOrder
  <2> QED BY <2>8, <2>9, <2>10, <2>11, <2>12, <2>13 DEF ShellInv
<1> QED BY <1>4, <1>5 DEF Endpoint

LEMMA ConnectKeeps ==
    ASSUME ShellInv, NEW e \in Endpoint, Connect(e)
    PROVE  ShellInv'
<1>1. PICK open : LET s == TryOpen(e, [service[e] EXCEPT !.session = "Connected",
                                                         !.channel = open])
                  IN Leaves(e, s) /\ RequestStop(s)
    BY DEF Connect
<1> DEFINE t == TryOpen(e, [service[e] EXCEPT !.session = "Connected", !.channel = open])
<1>2. Leaves(e, t) /\ RequestStop(t)
    BY <1>1
<1>3. /\ e \notin joined /\ joined' = joined \union {e} /\ generation' = generation
      /\ approved' = approved /\ prints' = prints /\ signals' = signals
    BY DEF Connect, inputs
<1>4. HostKept /\ SignalsKept
    BY <1>2, <1>3, Stopping DEF SignalsKept
<1>5. CASE e = Controller
  <2> HIDE DEF t
  <2>1. prints' \in Nat /\ joined \subseteq joined' /\ approved \subseteq approved'
    BY <1>3, Shelled
  <2> QED BY <1>2, <1>3, <1>4, <1>5, <2>1, ControllerServes
<1>6. CASE e = Controlled
  <2>1. Own.state = "Closed"
    BY <1>3, <1>6 DEF ShellInv, SessionsInOrder
  <2>2. Own.state \notin Busy /\ ~Gone
    BY <1>3, <1>6, <2>1 DEF Busy, Gone
  <2>3. t = [Own EXCEPT !.session = "Connected", !.channel = open]
    BY <1>6, Shelled DEF TryOpen, Controlled, Controller
  <2>4. Whole(t) /\ t.session = "Connected"
    BY <2>3, Shelled DEF Whole
  <2> HIDE DEF t
  <2>5. DOMAIN service' = Endpoint /\ Whole(Own') /\ Own'.session = "Connected"
    BY <1>2, <1>6, <2>4, LeavesOwn
  <2>6. host.run # "running"
    BY <2>2 DEF ShellInv, ShellRuns
  <2>7. host' = host
    BY <1>4, <2>6 DEF HostKept
  <2>8. ShellTypeOK'
    BY <1>3, <2>5, <2>7 DEF ShellInv, ShellTypeOK
  <2>9. ShellRuns'
    BY <2>6, <2>7 DEF ShellRuns
  <2>10. StopAwaited'
    BY <1>3, <2>2, <2>7 DEF ShellInv, StopAwaited, Reports
  <2>11. StopsOnce'
    BY <1>3, <2>7 DEF ShellInv, StopsOnce, Reports
  <2>12. NothingFromLater'
    BY <1>3, <2>7 DEF ShellInv, NothingFromLater
  <2>13. SessionsInOrder'
    BY <1>3, <1>6, <2>5 DEF SessionsInOrder
  <2> QED BY <2>8, <2>9, <2>10, <2>11, <2>12, <2>13 DEF ShellInv
<1> QED BY <1>5, <1>6 DEF Endpoint

(* Nothing of the sessions before is taken for one of the new.               *)
LEMMA NewSessionKeeps ==
    ASSUME ShellInv, NewSession
    PROVE  ShellInv'
<1>1. /\ generation' = generation + 1 /\ service' = service /\ host' = host
      /\ signals' = signals /\ approved' = approved /\ prints' = prints
    BY DEF NewSession, inputs
<1>2. /\ generation \in Nat /\ host \in Hosts
      /\ \A i \in 1..Len(signals) : signals[i] \in Signals
  <2>1. signals \in Seq(Signals)
    BY DEF ShellInv, ShellTypeOK
  <2> QED BY <2>1 DEF ShellInv, ShellTypeOK
<1>3. Own.session = "Idle" /\ Own.state = "Closed"
    BY DEF NewSession, ShellInv, SessionsInOrder, Own, Endpoint
<1>4. host.run # "running"
    BY <1>3 DEF ShellInv, ShellRuns, Busy
<1>5. host.generation # generation'
    BY <1>1, <1>2 DEF ShellInv, NothingFromLater, Hosts
<1>6. \A i \in 1..Len(signals) : signals[i].generation # generation + 1
    BY <1>2 DEF ShellInv, NothingFromLater, Signals
<1>7. \A i \in 1..Len(signals') : ~Reports(i)'
    BY <1>1, <1>6 DEF Reports
<1>8. Own' = Own
    BY <1>1 DEF Own
<1>9. ShellTypeOK'
    BY <1>1, <1>8 DEF ShellInv, ShellTypeOK
<1>10. ShellRuns' /\ StopAwaited' /\ StopsOnce'
    BY <1>1, <1>4, <1>5, <1>7 DEF ShellRuns, StopAwaited, StopsOnce
<1>11. NothingFromLater'
  <2>1. host.generation <= generation + 1
    BY <1>2 DEF ShellInv, NothingFromLater, Hosts
  <2>2. \A i \in 1..Len(signals) : signals[i].generation <= generation + 1
    BY <1>2 DEF ShellInv, NothingFromLater, Signals
  <2> QED BY <1>1, <2>1, <2>2 DEF NothingFromLater
<1>12. SessionsInOrder'
    BY <1>3, <1>8 DEF SessionsInOrder
<1> QED BY <1>9, <1>10, <1>11, <1>12 DEF ShellInv

(* The console posts a signal that does not say that it has stopped.         *)
LEMMA SignalledKeeps ==
    ASSUME ShellInv, NEW g \in Signals, g.kind # "stopped", g.generation = host.generation,
           signals' = Append(signals, g), host' \in Hosts, host'.run = host.run,
           host'.generation = host.generation, host'.request = host.request,
           service' = service, generation' = generation, joined' = joined,
           approved' = approved, prints' \in Nat
    PROVE  ShellInv'
<1>1. signals \in Seq(Signals) /\ signals' \in Seq(Signals) /\ Len(signals) \in Nat
    BY DEF ShellInv, ShellTypeOK
<1>2. \A i \in 1..Len(signals') : signals'[i] = g \/ (i \in 1..Len(signals) /\ signals'[i] = signals[i])
    BY <1>1
<1>3. \A i \in 1..Len(signals') : Reports(i)' => i \in 1..Len(signals) /\ Reports(i)
    BY <1>2 DEF Reports
<1>4. Own' = Own
    BY DEF Own
<1>5. Gone <=> Gone'
    BY <1>4 DEF Gone
<1>6. ShellTypeOK'
    BY <1>1, <1>4 DEF ShellInv, ShellTypeOK
<1>7. ShellRuns'
    BY <1>4 DEF ShellInv, ShellRuns
<1>8. StopAwaited'
    BY <1>3, <1>4, <1>5 DEF ShellInv, StopAwaited
<1>9. StopsOnce'
    BY <1>3 DEF ShellInv, StopsOnce
<1>10. NothingFromLater'
    BY <1>2 DEF ShellInv, NothingFromLater
<1>11. SessionsInOrder'
    BY <1>4 DEF ShellInv, SessionsInOrder
<1> QED BY <1>6, <1>7, <1>8, <1>9, <1>10, <1>11 DEF ShellInv

LEMMA PrintsKeeps ==
    ASSUME ShellInv, HostPrints
    PROVE  ShellInv'
<1> DEFINE g == [kind |-> "output", generation |-> host.generation,
                 payload |-> Payload(host.request, prints + 1)]
<1>1. host \in Hosts /\ prints \in Nat
    BY DEF ShellInv, ShellTypeOK
<1>2. g \in Signals /\ g.kind # "stopped" /\ g.generation = host.generation
    BY <1>1 DEF Signals, Payload, Payloads, Hosts
<1>3. /\ signals' = Append(signals, g) /\ host' = host /\ service' = service
      /\ generation' = generation /\ joined' = joined /\ approved' = approved
      /\ prints' \in Nat
    BY <1>1 DEF HostPrints, session
<1> HIDE DEF g
<1> QED BY <1>1, <1>2, <1>3, SignalledKeeps

LEMMA EndsKeeps ==
    ASSUME ShellInv, NEW kind \in {"ended", "failed"}, HostEnds(kind)
    PROVE  ShellInv'
<1> DEFINE g == [kind |-> kind, generation |-> host.generation, payload |-> Payload(0, 0)]
<1>1. host \in Hosts /\ prints \in Nat
    BY DEF ShellInv, ShellTypeOK
<1>2. g \in Signals /\ g.kind # "stopped" /\ g.generation = host.generation
    BY <1>1 DEF Signals, Payload, Payloads, Hosts
<1>3. /\ signals' = Append(signals, g) /\ service' = service
      /\ generation' = generation /\ joined' = joined /\ approved' = approved
      /\ prints' \in Nat
    BY <1>1 DEF HostEnds, session, inputs
<1>4. /\ host' \in Hosts /\ host'.run = host.run
      /\ host'.generation = host.generation /\ host'.request = host.request
    BY <1>1 DEF HostEnds, Hosts
<1> HIDE DEF g
<1> QED BY <1>2, <1>3, <1>4, SignalledKeeps

(* A console reports its stop once, and is off from then on.                 *)
LEMMA TornDownKeeps ==
    ASSUME ShellInv, HostTornDown
    PROVE  ShellInv'
<1> DEFINE g == [kind |-> "stopped", generation |-> host.generation, payload |-> Payload(0, 0)]
<1>1. /\ host \in Hosts /\ prints \in Nat /\ signals \in Seq(Signals) /\ Len(signals) \in Nat
      /\ host.run = "stopping" /\ signals' = Append(signals, g) /\ service' = service
      /\ generation' = generation /\ joined' = joined /\ approved' = approved
      /\ prints' = prints
    BY DEF ShellInv, ShellTypeOK, HostTornDown, session, inputs
<1>2. /\ host' \in Hosts /\ host'.run = "off" /\ host'.generation = host.generation
    BY <1>1 DEF HostTornDown, Hosts
<1>3. g \in Signals /\ g.generation = host.generation
    BY <1>1 DEF Signals, Payload, Payloads, Hosts
<1> HIDE DEF g
<1>4. signals' \in Seq(Signals) /\ Len(signals') = Len(signals) + 1
    BY <1>1, <1>3
<1>5. \A i \in 1..Len(signals') :
          (i = Len(signals) + 1 /\ signals'[i] = g) \/ (i \in 1..Len(signals) /\ signals'[i] = signals[i])
    BY <1>1
<1>6. Own' = Own /\ (Gone <=> Gone')
    BY <1>1 DEF Own, Gone
<1>7. \A i \in 1..Len(signals') : Reports(i)' =>
          \/ i = Len(signals) + 1 /\ host.generation = generation
          \/ i \in 1..Len(signals) /\ Reports(i)
    BY <1>1, <1>3, <1>5 DEF Reports
<1>8. ShellTypeOK'
    BY <1>1, <1>2, <1>4, <1>6 DEF ShellInv, ShellTypeOK
<1>9. ShellRuns'
    BY <1>2 DEF ShellRuns
<1>10. StopAwaited'
    BY <1>1, <1>2, <1>6, <1>7 DEF ShellInv, StopAwaited
<1>11. StopsOnce'
    BY <1>1, <1>2, <1>7 DEF ShellInv, StopsOnce
<1>12. NothingFromLater'
    BY <1>1, <1>2, <1>3, <1>5 DEF ShellInv, NothingFromLater
<1>13. SessionsInOrder'
    BY <1>1, <1>6 DEF ShellInv, SessionsInOrder
<1> QED BY <1>8, <1>9, <1>10, <1>11, <1>12, <1>13 DEF ShellInv

LEMMA SignalKeeps ==
    ASSUME ShellInv, HostSignal
    PROVE  ShellInv'
<1> DEFINE g == Head(signals)
           t == HandleSignal(Own, g)
<1>1. /\ Leaves(Controlled, t) /\ RequestStop(t) /\ signals # <<>> /\ signals' = Tail(signals)
      /\ generation' = generation /\ joined' = joined /\ approved' = approved
      /\ prints' = prints
    BY Shelled DEF HostSignal, session, inputs
<1>2. HostKept /\ SignalsKept
    BY <1>1, Stopping DEF SignalsKept
<1>3. prints' \in Nat /\ joined \subseteq joined' /\ approved \subseteq approved'
    BY <1>1, Shelled
<1>4. CASE ~(g.kind = "stopped" /\ g.generation = generation)
  <2>1. Whole(Own)
    BY Shelled
  <2>2. Onward(Own, t)
    BY <1>4, <2>1, SignalMoves, MovesOnward
  <2> HIDE DEF t
  <2> QED BY <1>1, <1>2, <1>3, <2>2, ControlledServes
<1>5. CASE g.kind = "stopped" /\ g.generation = generation
  <2>1. Whole(Own)
    BY Shelled
  <2>2. Whole(t) /\ t.state = "Closed" /\ t.session = Own.session
    BY <1>5, <2>1, StoppedCloses
  <2> HIDE DEF t
  <2>3. DOMAIN service' = Endpoint /\ Whole(Own') /\ Own'.state = "Closed" /\ Own'.session = Own.session
    BY <1>1, <2>2, LeavesOwn
  <2>4. signals \in Seq(Signals) /\ Len(signals) \in Nat
    BY DEF ShellInv, ShellTypeOK
  <2>5. 1 \in 1..Len(signals) /\ Reports(1)
    BY <1>1, <1>5, <2>4 DEF Reports
  <2>6. \A i \in 2..Len(signals) : ~Reports(i)
    BY <2>4, <2>5 DEF ShellInv, StopsOnce
  <2>7. \A i \in 1..Len(signals') : i + 1 \in 2..Len(signals) /\ signals'[i] = signals[i + 1]
    BY <1>1, <2>4
  <2>8. \A i \in 1..Len(signals') : ~Reports(i)'
    BY <1>1, <2>6, <2>7 DEF Reports
  <2>9. host.run = "off" \/ host.generation # generation
    BY <2>5 DEF ShellInv, StopsOnce
  <2>10. host.run # "running"
    BY <2>9 DEF ShellInv, ShellRuns
  <2>11. host' = host
    BY <1>2, <2>10 DEF HostKept
  <2>12. host \in Hosts
    BY DEF ShellInv, ShellTypeOK
  <2>13. ShellTypeOK'
    BY <1>1, <2>3, <2>4, <2>11 DEF ShellInv, ShellTypeOK
  <2>14. ShellRuns'
    BY <2>10, <2>11 DEF ShellRuns
  <2>15. StopAwaited'
    BY <1>1, <2>8, <2>9, <2>11 DEF StopAwaited
  <2>16. StopsOnce'
    BY <2>8 DEF StopsOnce
  <2>17. NothingFromLater'
    <3>1. \A i \in 2..Len(signals) : signals[i].generation <= generation
      BY <2>4 DEF ShellInv, NothingFromLater
    <3> QED BY <1>1, <2>7, <2>11, <3>1 DEF ShellInv, NothingFromLater
  <2>18. SessionsInOrder'
    BY <1>1, <2>3 DEF ShellInv, SessionsInOrder
  <2> QED BY <2>13, <2>14, <2>15, <2>16, <2>17, <2>18 DEF ShellInv
<1> QED BY <1>4, <1>5

(* A shell is started only where none of this session is left.               *)
LEMMA AcceptKeeps ==
    ASSUME ShellInv, NEW q \in 1..MaxRequests, NEW starts, NEW sends,
           AcceptRequest(q, starts, sends)
    PROVE  ShellInv'
<1> DEFINE s == [Own EXCEPT !.prompts = @ \ {q}]
           t == StartHost(s, starts, sends)
<1>1. /\ Leaves(Controlled, t) /\ StartConsole(starts, Own.request, t.stop)
      /\ approved' = approved \union {q} /\ Own.state = "AwaitingApproval" /\ q = Own.request
      /\ generation' = generation /\ joined' = joined /\ signals' = signals /\ prints' = prints
    BY Shelled DEF AcceptRequest, session, inputs, RespondsTo
<1>2. Moves(Own, s) /\ s.state = "AwaitingApproval"
    BY <1>1, Shelled DEF Moves, Whole
<1> HIDE DEF s
<1>3. Moves(s, t) /\ t.state \in Busy
    BY <1>2, StartMoves DEF Moves
<1> HIDE DEF t
<1>4. Onward(Own, t)
    BY <1>2, <1>3, MovesOn, MovesOnward
<1>5. CASE ~starts
  <2>1. HostKept /\ SignalsKept /\ joined \subseteq joined' /\ approved \subseteq approved' /\ prints' \in Nat
    BY <1>1, <1>5, Shelled DEF StartConsole, HostKept, SignalsKept
  <2> QED BY <1>1, <1>4, <2>1, ControlledServes
<1>6. CASE starts
  <2>1. DOMAIN service' = Endpoint /\ Onward(Own, Own') /\ Own'.state \in Busy
    <3>1. Whole(t)
      BY <1>3 DEF Moves
    <3> QED BY <1>1, <1>3, <1>4, <3>1, LeavesOwn DEF Onward
  <2>2. host' = [run |-> IF t.stop THEN "stopping" ELSE "running",
                 generation |-> generation, request |-> q, ending |-> FALSE]
    BY <1>1, <1>6 DEF StartConsole
  <2>3. generation \in Nat /\ q \in Nat
    BY DEF ShellInv, ShellTypeOK
  <2>4. host' \in Hosts /\ host'.generation = generation /\ host'.request = q
    BY <2>2, <2>3 DEF Hosts
  <2>5. Own.state \notin Busy /\ ~Gone /\ Own.session # "Idle"
    BY <1>1 DEF Busy, Gone, ShellInv, SessionsInOrder
  <2>6. \A i \in 1..Len(signals) : ~Reports(i)
    BY <2>5 DEF ShellInv, StopAwaited
  <2>7. \A i \in 1..Len(signals') : ~Reports(i)'
    BY <1>1, <2>6 DEF Reports
  <2>8. ShellTypeOK'
    BY <1>1, <2>1, <2>4 DEF ShellInv, ShellTypeOK, Onward
  <2>9. ShellRuns'
    BY <1>1, <2>1, <2>4 DEF ShellRuns
  <2>10. StopAwaited'
    BY <2>1 DEF StopAwaited
  <2>11. StopsOnce'
    BY <2>7 DEF StopsOnce
  <2>12. NothingFromLater'
    BY <1>1, <2>3, <2>4 DEF ShellInv, NothingFromLater
  <2>13. SessionsInOrder'
    BY <1>1, <2>1, <2>5 DEF ShellInv, SessionsInOrder, Onward, Busy
  <2> QED BY <2>8, <2>9, <2>10, <2>11, <2>12, <2>13 DEF ShellInv
<1> QED BY <1>5, <1>6

LEMMA NothingKeeps ==
    ASSUME ShellInv, UNCHANGED vars
    PROVE  ShellInv'
BY DEF vars, ShellInv, ShellTypeOK, ShellRuns, StopAwaited, StopsOnce, NothingFromLater,
       SessionsInOrder, Own, Gone, Reports

LEMMA ShellStarts ==
    ASSUME Init
    PROVE  ShellInv
<1>1. Own = Fresh /\ DOMAIN service = Endpoint
    BY DEF Init, Own, Endpoint
<1>2. Whole(Own) /\ Own.state = "Closed" /\ Own.session = "Idle"
    BY <1>1 DEF Fresh, Whole
<1>3. host \in Hosts /\ host.run = "off" /\ host.generation = 0
    BY DEF Init, Hosts
<1>4. signals = <<>> /\ generation = 1 /\ prints = 0
    BY DEF Init
<1>5. signals \in Seq(Signals) /\ Len(signals) = 0
    BY <1>4
<1> QED BY <1>1, <1>2, <1>3, <1>4, <1>5 DEF ShellInv, ShellTypeOK, ShellRuns, StopAwaited, StopsOnce, NothingFromLater,
       SessionsInOrder

LEMMA ShellStep ==
    ASSUME ShellInv, [Next]_vars
    PROVE  ShellInv'
<1>1. CASE UserStep
    BY <1>1, WindowKeeps, AcceptKeeps, RejectKeeps, TooLateKeeps, CloseKeeps DEF UserStep, Endpoint
<1>2. CASE HostStep
    BY <1>2, PrintsKeeps, TornDownKeeps, SignalKeeps, EndsKeeps DEF HostStep
<1>3. CASE NewSession \/ ApprovalTimeout \/ StopTimeout \/ FrontendClosed
    BY <1>3, NewSessionKeeps, ApprovalTimeoutKeeps, StopTimeoutKeeps, WindowKeeps
<1>4. ASSUME NEW e \in Endpoint, Progress(e) PROVE ShellInv'
  <2>1. \/ \E ok \in BOOLEAN : Receive(e, ok) \/ HandleTerminalData(e, ok)
        \/ DeferredResize(e) \/ LowWatermark(e) \/ Connect(e) \/ ChannelOpens(e) \/ Restored(e)
        \/ ChannelCloses(e) \/ SessionEnds(e)
    BY <1>4 DEF Progress, Delivery, Follows
  <2>2. CASE DeferredResize(e) \/ ChannelOpens(e) \/ Restored(e)
    BY <2>2, WindowKeeps, DeferredKeeps, ChannelOpensKeeps, RestoredKeeps DEF Endpoint
  <2> QED BY <2>1, <2>2, ReceiveKeeps, DataKeeps, WatermarkKeeps, ConnectKeeps,
             ChannelClosesKeeps, SessionEndsKeeps
<1>5. ASSUME NEW e \in Endpoint, Interruption(e) PROVE ShellInv'
  <2>1. CASE CommandTimer(e) \/ Reconnecting(e)
    BY <2>1, WindowKeeps, TimerKeeps, ReconnectingKeeps DEF Endpoint
  <2> QED BY <1>5, <2>1, CongestKeeps, ChannelClosesKeeps, SessionEndsKeeps DEF Interruption
<1> QED BY <1>1, <1>2, <1>3, <1>4, <1>5, NothingKeeps DEF Next

(* A shell runs for a request the local user has agreed to, and none is at    *)
(* work for a terminal that is closed or still waits for the user             *)
(* (respondIncomingRequest, handleHostStopped), for any number of sessions,   *)
(* requests and troubles.                                                     *)
THEOREM ShellCorrect == Spec => []ShellIsOwned
<1>1. Init => ShellInv
    BY ShellStarts
<1>2. ShellInv /\ [Next]_vars => ShellInv'
    BY ShellStep
<1>3. ShellInv => ShellIsOwned
    BY DEF ShellInv, ShellRuns, ShellIsOwned, Busy, Own
<1> QED BY <1>1, <1>2, <1>3, PTL DEF Spec
===============================================================================
