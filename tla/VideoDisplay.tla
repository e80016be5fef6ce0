---------------------------- MODULE VideoDisplay ----------------------------
(***************************************************************************)
(* The controller's video: WebRTC's thread hands decoded frames to          *)
(* KWebRtcRemoteFrameProcessor, which keeps the newest one, prepares it on   *)
(* a thread of its own and posts it to the GUI thread; there                 *)
(* KLatestDecodedFrameQueue keeps the newest again until KVideoRenderWidget  *)
(* presents it.  Every track that goes away retires the render session of    *)
(* its frames, wherever they are by then.                                    *)
(*                                                                         *)
(* A render session is the number of its epoch; only the last is active.    *)
(* A frame is its number.  Sizes and pixels are left out.                    *)
(***************************************************************************)
EXTENDS Naturals, Sequences

CONSTANTS
    MaxDecoded,   \* bound: frames WebRTC decodes
    MaxEpochs,    \* bound: tracks that went away, and one
    MaxClears     \* bound: times the preview is cleared while a track is there

VARIABLES
    decoded,     \* frames so far
    track,       \* is the processor the sink of a track
    epoch,       \* m_nEpoch, and the active render session
    slot,        \* m_pendingFrame
    preparing,   \* the frame the processing thread is at
    fallenBack,  \* the render sessions with bForceBgra
    guiEvents,   \* what is posted to the GUI thread
    latest,      \* the queue's frame, and m_bPresentationQueued
    display,     \* the frame on the screen
    clears

displayVars == <<decoded, track, epoch, slot, preparing, fallenBack, guiEvents, latest, display, clears>>

Nothing == [number |-> 0]

DisplayInit ==
    /\ decoded = 0 /\ track = FALSE /\ epoch = 1
    /\ slot = Nothing /\ preparing = [at |-> "waiting", frame |-> Nothing]
    /\ fallenBack = {}
    /\ guiEvents = <<>>
    /\ latest = [frame |-> Nothing, queued |-> FALSE]
    /\ display = Nothing
    /\ clears = 0

\* A prepared frame: the session it is shown in, and the epoch it was decoded in.
Prepared(frame, session, format) ==
    [number |-> frame.number, session |-> session, from |-> frame.epoch, format |-> format]

------------------------------------------------------------------------------
(* The tracks. *)

OnAddTrack ==
    /\ ~track /\ epoch < MaxEpochs
    /\ track' = TRUE
    /\ UNCHANGED <<decoded, epoch, slot, preparing, fallenBack, guiEvents, latest, display, clears>>

\* The track or the peer goes away: the sink is removed, then the processor cleared.
OnRemoveTrack ==
    /\ track
    /\ track' = FALSE
    /\ epoch' = epoch + 1
    /\ slot' = Nothing
    /\ UNCHANGED <<decoded, preparing, fallenBack, guiEvents, latest, display, clears>>

OnFrame ==
    /\ track /\ decoded < MaxDecoded
    /\ decoded' = decoded + 1
    /\ slot' = [number |-> decoded + 1, epoch |-> epoch]
    /\ UNCHANGED <<track, epoch, preparing, fallenBack, guiEvents, latest, display, clears>>

------------------------------------------------------------------------------
(* The processing thread.  A track may go away between its steps. *)

ProcessFrames ==
    /\ preparing.at = "waiting" /\ slot # Nothing
    /\ preparing' = [at |-> "taken", frame |-> slot]
    /\ slot' = Nothing
    /\ UNCHANGED <<decoded, track, epoch, fallenBack, guiEvents, latest, display, clears>>

\* Fault: the frame gets the session of the moment, whichever it was decoded in.
PrepareForAny ==
    /\ preparing.at = "taken"
    /\ \E works \in BOOLEAN :
         preparing' = IF works
                      THEN [at |-> "prepared",
                            frame |-> Prepared(preparing.frame, epoch,
                                               IF epoch \in fallenBack THEN "bgra" ELSE "i420")]
                      ELSE [at |-> "waiting", frame |-> Nothing]
    /\ UNCHANGED <<decoded, track, epoch, slot, fallenBack, guiEvents, latest, display, clears>>

Prepare ==
    /\ preparing.at = "taken"
    /\ \E works \in BOOLEAN :
         preparing' = IF works /\ preparing.frame.epoch = epoch
                      THEN [at |-> "prepared",
                            frame |-> Prepared(preparing.frame, epoch,
                                               IF epoch \in fallenBack THEN "bgra" ELSE "i420")]
                      ELSE [at |-> "waiting", frame |-> Nothing]
    /\ UNCHANGED <<decoded, track, epoch, slot, fallenBack, guiEvents, latest, display, clears>>

\* The epoch is looked at once more, then the frame is posted without the lock.
CheckAgain ==
    /\ preparing.at = "prepared"
    /\ preparing' = IF preparing.frame.session = epoch THEN [preparing EXCEPT !.at = "checked"]
                    ELSE [at |-> "waiting", frame |-> Nothing]
    /\ UNCHANGED <<decoded, track, epoch, slot, fallenBack, guiEvents, latest, display, clears>>

Post ==
    /\ preparing.at = "checked"
    /\ guiEvents' = Append(guiEvents, [what |-> "frame", frame |-> preparing.frame])
    /\ preparing' = [at |-> "waiting", frame |-> Nothing]
    /\ UNCHANGED <<decoded, track, epoch, slot, fallenBack, latest, display, clears>>

------------------------------------------------------------------------------
(* The GUI thread. *)

\* Fault: a frame of a retired session still has its pixels.
HasAnyPixels(frame) == frame # Nothing

HasPixels(frame) == frame # Nothing /\ frame.session = epoch

Presentation == [what |-> "present", frame |-> Nothing]

Enqueue ==
    /\ guiEvents # <<>> /\ Head(guiEvents).what = "frame"
    /\ LET frame == Head(guiEvents).frame
       IN IF HasPixels(frame)
          THEN /\ latest' = [frame |-> frame, queued |-> TRUE]
               /\ guiEvents' = Tail(guiEvents) \o (IF latest.queued THEN <<>> ELSE <<Presentation>>)
          ELSE /\ guiEvents' = Tail(guiEvents)
               /\ UNCHANGED latest
    /\ UNCHANGED <<decoded, track, epoch, slot, preparing, fallenBack, display, clears>>

\* What a presentation of the frame does: nothing when the frame is of a
\* retired session, or I420 in one that has fallen back, or when D3D fails;
\* a failed upload of I420 clears the picture and makes the session fall back.
Presents(frame) ==
    \/ /\ HasPixels(frame)
       /\ ~(frame.format = "i420" /\ frame.session \in fallenBack)
       /\ display' = [number |-> frame.number, session |-> frame.session, from |-> frame.from,
                      format |-> frame.format, during |-> epoch]
       /\ UNCHANGED fallenBack
    \/ /\ HasPixels(frame) /\ frame.format = "i420" /\ frame.session \notin fallenBack
       /\ display' = Nothing
       /\ \E device \in BOOLEAN :
            fallenBack' = IF device THEN fallenBack \cup {frame.session} ELSE fallenBack
    \/ UNCHANGED <<display, fallenBack>>

\* Fault: a presentation that finds nothing to take counts as still queued.
TakesLatestOnly ==
    /\ guiEvents # <<>> /\ Head(guiEvents).what = "present"
    /\ guiEvents' = Tail(guiEvents)
    /\ IF HasPixels(latest.frame)
       THEN Presents(latest.frame) /\ latest' = [frame |-> Nothing, queued |-> FALSE]
       ELSE latest' = [latest EXCEPT !.frame = Nothing] /\ UNCHANGED <<display, fallenBack>>
    /\ UNCHANGED <<decoded, track, epoch, slot, preparing, clears>>

PresentLatestFrame ==
    /\ guiEvents # <<>> /\ Head(guiEvents).what = "present"
    /\ guiEvents' = Tail(guiEvents)
    /\ IF HasPixels(latest.frame) THEN Presents(latest.frame) ELSE UNCHANGED <<display, fallenBack>>
    /\ latest' = [frame |-> Nothing, queued |-> FALSE]
    /\ UNCHANGED <<decoded, track, epoch, slot, preparing, clears>>

\* The preview is cleared as the session ends, and when the user leaves the
\* desktop; a presentation may still be queued.
ClearFrame ==
    /\ track => clears < MaxClears
    /\ clears' = IF track THEN clears + 1 ELSE clears
    /\ latest' = [frame |-> Nothing, queued |-> FALSE]
    /\ display' = Nothing
    /\ UNCHANGED <<decoded, track, epoch, slot, preparing, fallenBack, guiEvents>>

DisplayNext ==
    \/ OnAddTrack \/ OnRemoveTrack \/ OnFrame
    \/ ProcessFrames \/ Prepare \/ CheckAgain \/ Post
    \/ Enqueue \/ PresentLatestFrame \/ ClearFrame

DisplaySpec == DisplayInit /\ [][DisplayNext]_displayVars

------------------------------------------------------------------------------
(* A frame is only shown while the track it was decoded from is there: none   *)
(* that was on its way when its track went away comes up with the next track  *)
(* or after the picture was cleared.                                          *)
LateFramesStayHidden ==
    display # Nothing => display.from = display.during

(* No frame is left behind: while one waits, and while the queue believes    *)
(* that a presentation is coming, one is posted.                              *)
FramesAreComing ==
    latest.frame # Nothing \/ latest.queued
        => \E i \in DOMAIN guiEvents : guiEvents[i].what = "present"

(* What waits is newer than what is shown, and a session that has fallen     *)
(* back shows no more I420.                                                   *)
NewestIsShown ==
    display # Nothing =>
        /\ latest.frame # Nothing => display.number < latest.frame.number
        /\ \A i \in DOMAIN guiEvents : guiEvents[i].what = "frame"
              => display.number < guiEvents[i].frame.number
        /\ display.format = "i420" => display.session \notin fallenBack

(* Invariant of the way of the frames to the screen. *)
VideoIsShown == LateFramesStayHidden /\ FramesAreComing /\ NewestIsShown
==============================================================================
