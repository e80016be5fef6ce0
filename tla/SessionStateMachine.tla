------------------------- MODULE SessionStateMachine -------------------------
(***************************************************************************)
(* KSessionStateMachine (src/src/core/session/sessionstatemachine.cpp):    *)
(* the business state of one endpoint.  A machine is a record              *)
(*                                                                         *)
(*   state    m_state            role  m_role                              *)
(*   restore  m_bRestoreStreaming: Reconnecting was entered from Streaming *)
(*   gen      m_nGeneration: numbers the sessions of this process          *)
(*                                                                         *)
(* and every transition method is an operator from a machine to a machine, *)
(* with the condition under which the method returns true as Can<Method>.  *)
(* The composing modules conjoin the condition to their actions.  An       *)
(* operator marked "Fault" is a wrong version of the one after it: it      *)
(* shows that a property notices the mistake, and nothing uses it.         *)
(***************************************************************************)
EXTENDS Naturals

Roles == {"Controller", "Controlled"}

SetupStates == {"AuthenticatingIdentity", "Pairing", "AwaitingApproval"}

NegotiatingStates == {"Connecting", "Negotiating"} \cup SetupStates

ActiveStates == NegotiatingStates \cup {"Connected", "Streaming", "Reconnecting"}

RestingStates == {"Idle", "Listening"}

States == RestingStates \cup ActiveStates \cup {"Stopping", "ShutdownTimedOut"}

Machine == [state : States, role : Roles, restore : BOOLEAN, gen : Nat]

NewMachine ==
    [state |-> "Idle", role |-> "Controller", restore |-> FALSE, gen |-> 0]

------------------------------------------------------------------------------
(* What the machine can do.                                                 *)

HasActiveSession(m) == m.state \in ActiveStates

(* Fault: the stages before the approval are not counted.                   *)
IsPastApproval(m) == m.state \in {"Connecting", "Negotiating"}

IsNegotiating(m) == m.state \in NegotiatingStates

(* Fault: a completion that comes late is not accepted.                     *)
CanCompleteInTime(m) == m.state = "Stopping"

CanCompleteShutdown(m) == m.state \in {"Stopping", "ShutdownTimedOut"}

ShouldKeepListening(m) == m.role = "Controlled"

CanBeginStopping(m) == m.state \notin {"Idle", "Stopping", "ShutdownTimedOut"}

CanBeginReconnecting(m) == HasActiveSession(m) /\ m.state # "Reconnecting"

CanEnterRemoteDesktop(m) == m.role = "Controller" /\ m.state = "Connected"

CanLeaveRemoteDesktop(m) == m.role = "Controller" /\ m.state = "Streaming"

CanStartControlledStreaming(m) == m.role = "Controlled" /\ m.state = "Connected"

------------------------------------------------------------------------------
(* Transitions.                                                             *)

MoveTo(m, s) == [m EXCEPT !.state = s]

SettleIn(m, s) == [m EXCEPT !.state = s, !.restore = FALSE]

SetRole(m, r) == [m EXCEPT !.role = r]

BeginListening(m) ==
    [state |-> "Listening", role |-> "Controlled", restore |-> FALSE,
     gen |-> m.gen + 1]

BeginConnecting(m) ==
    [state |-> "Connecting", role |-> "Controller", restore |-> FALSE,
     gen |-> m.gen + 1]

(* An incoming connection starts a generation of its own; an outgoing one   *)
(* keeps the generation that beginConnecting gave it.                       *)
BeginAuthenticatingIdentity(m) ==
    [m EXCEPT !.state = "AuthenticatingIdentity",
              !.gen = IF m.state = "Listening" THEN @ + 1 ELSE @]

(* Fault: the state is not left.                                            *)
RejectInPlace(m) == [m EXCEPT !.restore = FALSE]

RejectConnection(m) ==
    SettleIn(m, IF m.role = "Controlled" THEN "Listening" ELSE "Idle")

BeginReconnecting(m) ==
    [m EXCEPT !.restore = (m.state = "Streaming"), !.state = "Reconnecting"]

RestoreSession(m) ==
    SettleIn(m, IF m.restore THEN "Streaming" ELSE "Connected")

(* Fault: a controlled endpoint listens again, asked to or not.             *)
FinishListening(m, keep) ==
    SettleIn(m, IF m.role = "Controlled" THEN "Listening" ELSE "Idle")

Finish(m, keep) ==
    SettleIn(m, IF keep /\ m.role = "Controlled" THEN "Listening" ELSE "Idle")
==============================================================================
