--------------------------- MODULE SessionContract ---------------------------
(***************************************************************************)
(* KSessionCoordinator implements the SessionLifecycle contract.           *)
(***************************************************************************)
EXTENDS SessionCoordinator

PhaseOf(m) ==
    CASE m.state \in RestingStates -> m.state
      [] HasActiveSession(m) -> "Active"
      [] m.state = "Stopping" -> "Stopping"
      [] m.state = "ShutdownTimedOut" -> "TimedOut"

UseOf(t) ==
    CASE t.phase = "Idle" -> "Gone"
      [] t.phase = "Ready" -> "Up"
      [] t.phase = "ShuttingDown" -> "Leaving"

Phase == PhaseOf(sm)

TransportUse == UseOf(transport)

Lifecycle == INSTANCE SessionLifecycle
    WITH phase <- Phase, transport <- TransportUse, generation <- sm.gen,
         early <- stop.early

(* Every step of the coordinator, of the peer and of the timers is a step   *)
(* of the life cycle that the rest of the program relies on, or is hidden   *)
(* inside one of its phases.                                                *)
ImplementsLifecycle == Lifecycle!Spec
==============================================================================
