---------------------------- MODULE CaptureService ----------------------------
(***************************************************************************)
(* KCaptureService (src/src/capture/captureservice.cpp) and the thread of  *)
(* its KCaptureWorker (src/src/capture/captureworker.cpp), as operators on *)
(* a record that the composing modules keep in a variable:                 *)
(*                                                                         *)
(*   thread   "None"      m_pCaptureThread is null                         *)
(*            "Starting"  the thread is created, startWork has not run yet *)
(*            "Capturing" startWork is in its loop                         *)
(*            "Finished"  workFinished is out, clearWorker is still queued *)
(*   running  KCaptureWorker::m_bRunning, written by both threads          *)
(*   accept   m_bAcceptWebRtcFrames                                        *)
(*   restart  m_bStartPending                                              *)
(*   stopGen  m_nStoppingGeneration (0: none)                              *)
(*   failed   a captureError is queued to the session thread               *)
(*                                                                         *)
(* An operator marked "Fault" is a wrong version of the one after it.      *)
(***************************************************************************)
EXTENDS Naturals

Capture == [thread : {"None", "Starting", "Capturing", "Finished"},
            running : BOOLEAN, accept : BOOLEAN, restart : BOOLEAN,
            stopGen : Nat, failed : BOOLEAN]

NoCapture == [thread |-> "None", running |-> FALSE, accept |-> FALSE,
              restart |-> FALSE, stopGen |-> 0, failed |-> FALSE]

------------------------------------------------------------------------------
(* Calls of the session thread.                                             *)

(* A start while an earlier worker is still going down only leaves a mark   *)
(* for clearWorker; a start while the worker is up is ignored.              *)
StartCapture(c) ==
    IF c.thread = "None"
    THEN [c EXCEPT !.thread = "Starting", !.running = FALSE, !.accept = TRUE]
    ELSE [c EXCEPT !.restart = @ \/ ~c.accept]

(* With no worker the call answers at once (StopIsImmediate) and changes    *)
(* nothing; otherwise the answer is clearWorker's.                          *)
StopIsImmediate(c) == c.thread = "None"

(* Fault: a second request does not take over from the first.               *)
RequestStopCaptureOnce(c, g) ==
    IF StopIsImmediate(c) \/ c.stopGen # 0 THEN c
    ELSE [c EXCEPT !.stopGen = g, !.restart = FALSE, !.accept = FALSE,
                   !.running = FALSE]

RequestStopCapture(c, g) ==
    IF StopIsImmediate(c) THEN c
    ELSE [c EXCEPT !.stopGen = g, !.restart = FALSE, !.accept = FALSE,
                   !.running = FALSE]

(* QThread::finished has reached the session thread: report stopGen, then   *)
(* start again if a start is pending.                                       *)
CanClearWorker(c) == c.thread = "Finished" /\ ~c.failed

ClearWorker(c) == IF c.restart THEN StartCapture(NoCapture) ELSE NoCapture

------------------------------------------------------------------------------
(* Steps of the worker thread.                                              *)

(* startWork sets m_bRunning, whatever stopWork did before it ran.          *)
CanStartWork(c) == c.thread = "Starting"

StartWork(c) == [c EXCEPT !.thread = "Capturing", !.running = TRUE]

(* The loop sees m_bRunning false and the worker winds up.                  *)
CanFinishWork(c) == c.thread = "Capturing" /\ ~c.running

FinishWork(c) == [c EXCEPT !.thread = "Finished"]

(* Initialization, a capture or the processing of a frame fails: the error  *)
(* is queued to the session thread ahead of the end of the thread.          *)
CanFailWork(c) == c.thread \in {"Starting", "Capturing"}

FailWork(c) ==
    [c EXCEPT !.thread = "Finished", !.running = FALSE, !.failed = TRUE]
==============================================================================
