--------------------------- MODULE SessionLifecycle ---------------------------
(***************************************************************************)
(* What the session component promises to everything above it, whatever    *)
(* happens inside a session: the phases of an endpoint and the transport   *)
(* they hold.                                                              *)
(*                                                                         *)
(*   - the transport is up exactly in the phases that use it;              *)
(*   - a phase begins on a transport that is gone, never on one that is    *)
(*     leaving;                                                            *)
(*   - a stop is left only with the transport gone, on time or late; an    *)
(*     early one, of a dial that failed inside the completion of a failed  *)
(*     start, may be left for Idle before, and what comes next still waits *)
(*     for the transport to be gone;                                       *)
(*   - an endpoint that timed out accepts nothing until then.              *)
(***************************************************************************)
EXTENDS Naturals

VARIABLES
    phase,      \* what the endpoint does
    transport,  \* the WebRTC transport it does it with
    generation, \* counts the sessions
    early       \* the stop under way is an early one

vars == <<phase, transport, generation, early>>

Phases == {"Idle", "Listening", "Active", "Stopping", "TimedOut"}

TypeInvariant ==
    /\ phase \in Phases
    /\ transport \in {"Gone", "Up", "Leaving"}
    /\ generation \in Nat
    /\ early \in BOOLEAN

Init == phase = "Idle" /\ transport = "Gone" /\ generation = 0 /\ early = FALSE

Open ==
    /\ phase = "Idle" /\ transport = "Gone"
    /\ phase' \in {"Listening", "Active"}
    /\ transport' = "Up"
    /\ generation' = generation + 1
    /\ UNCHANGED early

(* A start that fails leaves only a transport on its way down.              *)
FailToOpen ==
    /\ phase = "Idle" /\ transport = "Gone"
    /\ transport' = "Leaving"
    /\ UNCHANGED <<phase, generation, early>>

(* A peer comes to a listening endpoint, for a session or to be refused.    *)
Admit ==
    /\ phase = "Listening"
    /\ phase' \in {"Active", "Listening"}
    /\ generation' = generation + 1
    /\ UNCHANGED <<transport, early>>

Refuse ==
    /\ phase = "Active"
    /\ phase' = "Listening"
    /\ UNCHANGED <<transport, generation, early>>

Stop ==
    /\ phase \in {"Listening", "Active"}
    /\ phase' = "Stopping"
    /\ transport' \in {"Up", "Leaving"}
    /\ early' \in {FALSE, phase = "Active"}
    /\ UNCHANGED generation

TearDown ==
    /\ phase = "Stopping" /\ transport = "Up"
    /\ transport' = "Leaving"
    /\ UNCHANGED <<phase, generation, early>>

Release ==
    /\ transport = "Leaving"
    /\ transport' = "Gone"
    /\ UNCHANGED <<phase, generation, early>>

TimeOut ==
    /\ \/ phase = "Stopping" /\ transport # "Up"
       \/ phase = "Idle" /\ transport = "Leaving"
    /\ phase' = "TimedOut"
    /\ UNCHANGED <<transport, generation, early>>

(* Back to listening needs a new transport; when it cannot be had, Idle.    *)
Finish ==
    /\ phase \in {"Stopping", "TimedOut"} /\ transport = "Gone"
    /\ \/ phase' = "Idle" /\ transport' \in {"Gone", "Leaving"}
       \/ phase' = "Listening" /\ transport' = "Up"
    /\ early' = FALSE
    /\ UNCHANGED generation

FinishEarly ==
    /\ phase \in {"Stopping", "TimedOut"} /\ transport = "Leaving" /\ early
    /\ phase' = "Idle"
    /\ early' = FALSE
    /\ UNCHANGED <<transport, generation>>

Next ==
    \/ Open \/ FailToOpen \/ Admit \/ Refuse \/ Stop
    \/ TearDown \/ Release \/ TimeOut \/ Finish \/ FinishEarly

Spec == Init /\ [][Next]_vars

(* The transport serves a phase that uses it, and no other.                 *)
UpWhileUsed ==
    /\ phase \in {"Listening", "Active"} => transport = "Up"
    /\ transport = "Up" => phase \notin {"Idle", "TimedOut"}
===============================================================================
