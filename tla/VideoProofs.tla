----------------------------- MODULE VideoProofs -----------------------------
(***************************************************************************)
(* The three stages of the video, each for any number of frames: what the  *)
(* controlled computer captures and hands to its encoder, what the encoder *)
(* offers to WebRTC, and what the controller shows.  The pictures, the     *)
(* images and the frames all stand in lines: of a frame that is further on *)
(* its way, the number is never greater.  What else the invariants say is  *)
(* who may hold a frame at which moment, and of which session it is.       *)
(***************************************************************************)
EXTENDS VideoSending, VideoDisplay, FiniteSetTheorems, TLAPS

------------------------------------------------------------------------------
(***************************************************************************)
(* The controller's frames.  They stand in a line from the screen through  *)
(* the queue, the posted events and the processing thread back to the      *)
(* slot; every prepared frame has the session of the track it was decoded  *)
(* from.                                                                   *)
(***************************************************************************)
Slots == [number : Nat, epoch : Nat]
PreparedFrames == [number : Nat, session : Nat, from : Nat, format : {"bgra", "i420"}]
ShownFrames == [number : Nat, session : Nat, from : Nat, format : {"bgra", "i420"}, during : Nat]
GuiEvents == [what : {"frame"}, frame : PreparedFrames] \cup {Presentation}

PreparingOK ==
    preparing \in [at : {"waiting"}, frame : {Nothing}] \cup [at : {"taken"}, frame : Slots]
                    \cup [at : {"prepared", "checked"}, frame : PreparedFrames]

LineOK ==
    /\ slot \in Slots \cup {Nothing}
    /\ PreparingOK
    /\ guiEvents \in Seq(GuiEvents)
    /\ latest \in [frame : PreparedFrames \cup {Nothing}, queued : BOOLEAN]
    /\ display \in ShownFrames \cup {Nothing}

DisplayTypeOK ==
    /\ decoded \in Nat /\ epoch \in Nat /\ clears \in Nat
    /\ track \in BOOLEAN
    /\ fallenBack \subseteq Nat
    /\ LineOK

(* Whatever was posted, queued or shown has a smaller number than n. *)
PostedBefore(n) ==
    /\ display # Nothing => display.number < n
    /\ latest.frame # Nothing => latest.frame.number < n
    /\ \A i \in 1..Len(guiEvents) : guiEvents[i].what = "frame" => guiEvents[i].frame.number < n

Working == preparing.at # "waiting"

LineIsOrdered ==
    /\ PostedBefore(decoded + 1)
    /\ Working => PostedBefore(preparing.frame.number) /\ preparing.frame.number <= decoded
    /\ slot # Nothing => PostedBefore(slot.number) /\ slot.number <= decoded
    /\ Working /\ slot # Nothing => preparing.frame.number < slot.number

EventsAreOrdered ==
    /\ \A i, j \in 1..Len(guiEvents) :
          i < j /\ guiEvents[i].what = "frame" /\ guiEvents[j].what = "frame"
              => guiEvents[i].frame.number < guiEvents[j].frame.number
    /\ \A i \in 1..Len(guiEvents) : guiEvents[i].what = "frame" =>
          /\ latest.frame # Nothing => latest.frame.number < guiEvents[i].frame.number
          /\ display # Nothing => display.number < guiEvents[i].frame.number
    /\ display # Nothing /\ latest.frame # Nothing => display.number < latest.frame.number

FramesAreOwn ==
    /\ preparing.at \in {"prepared", "checked"} => preparing.frame.session = preparing.frame.from
    /\ \A i \in 1..Len(guiEvents) : guiEvents[i].what = "frame"
          => guiEvents[i].frame.session = guiEvents[i].frame.from
    /\ latest.frame # Nothing => latest.frame.session = latest.frame.from

FallbackHolds ==
    display # Nothing => (display.format = "i420" => display.session \notin fallenBack)

LineInv ==
    /\ LineIsOrdered /\ EventsAreOrdered /\ FramesAreOwn /\ FallbackHolds
    /\ LateFramesStayHidden /\ FramesAreComing

DisplayInv == DisplayTypeOK /\ LineInv

------------------------------------------------------------------------------
(* No frame is mistaken for the absence of one. *)
LEMMA NothingIsNoFrame ==
    Nothing \notin Slots /\ Nothing \notin PreparedFrames /\ Nothing \notin ShownFrames
<1>1. DOMAIN Nothing = {"number"}
  BY DEF Nothing
<1>2. \A f \in Slots : DOMAIN f = {"number", "epoch"}
  BY DEF Slots
<1>3. \A f \in PreparedFrames : DOMAIN f = {"number", "session", "from", "format"}
  BY DEF PreparedFrames
<1>4. \A f \in ShownFrames : DOMAIN f = {"number", "session", "from", "format", "during"}
  BY DEF ShownFrames
<1> QED
  BY <1>1, <1>2, <1>3, <1>4

(* The events without the first, and with one more behind the last. *)
LEMMA TailFacts ==
    ASSUME NEW s \in Seq(GuiEvents), s # <<>>
    PROVE  /\ Tail(s) \in Seq(GuiEvents)
           /\ Len(Tail(s)) = Len(s) - 1 /\ Len(s) \in Nat /\ Len(s) > 0
           /\ \A i \in 1..Len(Tail(s)) : Tail(s)[i] = s[i + 1]
           /\ Head(s) = s[1] /\ s[1] \in GuiEvents
  OBVIOUS

LEMMA AppendFacts ==
    ASSUME NEW s \in Seq(GuiEvents), NEW e \in GuiEvents
    PROVE  /\ Append(s, e) \in Seq(GuiEvents) /\ s \o <<e>> = Append(s, e) /\ s \o <<>> = s
           /\ Len(Append(s, e)) = Len(s) + 1 /\ Len(s) \in Nat
           /\ \A i \in 1..Len(s) : Append(s, e)[i] = s[i]
           /\ Append(s, e)[Len(s) + 1] = e
  OBVIOUS

LEMMA EventFacts ==
    /\ Presentation \in GuiEvents /\ Presentation.what = "present"
    /\ \A e \in GuiEvents : e.what \in {"frame", "present"}
    /\ \A e \in GuiEvents : e.what = "frame" => e.frame \in PreparedFrames
    /\ \A f \in PreparedFrames : [what |-> "frame", frame |-> f] \in GuiEvents
  BY DEF GuiEvents, Presentation

------------------------------------------------------------------------------
(* The order of the line, the type of what stands in it and the presentation *)
(* that is coming are inductive together.                                    *)
LEMMA InitEstablishesInv == DisplayInit => DisplayInv
<1> SUFFICES ASSUME DisplayInit PROVE DisplayInv
  OBVIOUS
<1>1. DisplayTypeOK
  <2>1. PreparingOK
    BY DEF DisplayInit, PreparingOK
  <2>2. slot \in Slots \cup {Nothing} /\ display \in ShownFrames \cup {Nothing}
    BY DEF DisplayInit
  <2>5. guiEvents \in Seq(GuiEvents)
    BY DEF DisplayInit
  <2>3. latest \in [frame : PreparedFrames \cup {Nothing}, queued : BOOLEAN]
    BY DEF DisplayInit
  <2>4. decoded \in Nat /\ epoch \in Nat /\ clears \in Nat /\ track \in BOOLEAN /\ fallenBack \subseteq Nat
    BY DEF DisplayInit
  <2> QED
    BY <2>1, <2>2, <2>3, <2>4, <2>5 DEF DisplayTypeOK, LineOK
<1>2. LineIsOrdered /\ EventsAreOrdered
  BY DEF DisplayInit, LineIsOrdered, EventsAreOrdered, PostedBefore, Working
<1>3. FramesAreOwn /\ FallbackHolds /\ LateFramesStayHidden
  BY DEF DisplayInit, FramesAreOwn, FallbackHolds, LateFramesStayHidden
<1>4. FramesAreComing
  <2>1. latest.frame = Nothing /\ latest.queued = FALSE
    BY DEF DisplayInit
  <2> QED
    BY <2>1 DEF FramesAreComing
<1> QED
  BY <1>1, <1>2, <1>3, <1>4 DEF DisplayInv, LineInv

(* The steps that leave the GUI thread's frames alone keep their order and   *)
(* ownership.                                                                *)
guiVars == <<guiEvents, latest, display, fallenBack>>

LEMMA GuiUnchanged ==
    ASSUME DisplayInv, UNCHANGED guiVars
    PROVE  /\ EventsAreOrdered' /\ FallbackHolds' /\ LateFramesStayHidden' /\ FramesAreComing'
           /\ guiEvents' \in Seq(GuiEvents) /\ display' \in ShownFrames \cup {Nothing}
           /\ latest' \in [frame : PreparedFrames \cup {Nothing}, queued : BOOLEAN]
           /\ fallenBack' \subseteq Nat
           /\ \A n \in Nat : PostedBefore(n)' = PostedBefore(n)
  BY DEF guiVars, DisplayInv, DisplayTypeOK, LineOK, LineInv, EventsAreOrdered, FallbackHolds,
         LateFramesStayHidden, FramesAreComing, PostedBefore

LEMMA LaterIsAfter ==
    ASSUME DisplayInv, NEW m \in Nat, NEW n \in Nat, m <= n, PostedBefore(m)
    PROVE  PostedBefore(n)
  BY NothingIsNoFrame, EventFacts
  DEF DisplayInv, DisplayTypeOK, LineOK, PostedBefore, ShownFrames, PreparedFrames

LEMMA OnAddTrackStep == DisplayInv /\ OnAddTrack => DisplayInv'
<1> SUFFICES ASSUME DisplayInv, OnAddTrack PROVE DisplayInv'
  OBVIOUS
<1>1. UNCHANGED guiVars
  BY DEF OnAddTrack, guiVars
<1>2. DisplayTypeOK'
  BY <1>1, GuiUnchanged DEF OnAddTrack, DisplayInv, DisplayTypeOK, LineOK, PreparingOK
<1>3. LineIsOrdered'
  BY <1>1 DEF OnAddTrack, DisplayInv, LineInv, LineIsOrdered, PostedBefore, Working
<1>4. FramesAreOwn'
  BY <1>1 DEF OnAddTrack, DisplayInv, LineInv, FramesAreOwn, guiVars
<1> QED
  BY <1>1, <1>2, <1>3, <1>4, GuiUnchanged DEF DisplayInv, LineInv

LEMMA OnRemoveTrackStep == DisplayInv /\ OnRemoveTrack => DisplayInv'
<1> SUFFICES ASSUME DisplayInv, OnRemoveTrack PROVE DisplayInv'
  OBVIOUS
<1>1. UNCHANGED guiVars
  BY DEF OnRemoveTrack, guiVars
<1>2. epoch' \in Nat
  BY DEF OnRemoveTrack, DisplayInv, DisplayTypeOK
<1>6. track' \in BOOLEAN
  BY Zenon DEF OnRemoveTrack
<1>5. DisplayTypeOK'
  BY <1>1, <1>2, <1>6, GuiUnchanged
  DEF OnRemoveTrack, DisplayInv, DisplayTypeOK, LineOK, PreparingOK
<1>3. LineIsOrdered'
  BY <1>1 DEF OnRemoveTrack, DisplayInv, LineInv, LineIsOrdered, PostedBefore, Working
<1>4. FramesAreOwn'
  BY <1>1 DEF OnRemoveTrack, DisplayInv, LineInv, FramesAreOwn, guiVars
<1> QED
  BY <1>1, <1>3, <1>4, <1>5, GuiUnchanged DEF DisplayInv, LineInv

LEMMA OnFrameStep == DisplayInv /\ OnFrame => DisplayInv'
<1> SUFFICES ASSUME DisplayInv, OnFrame PROVE DisplayInv'
  OBVIOUS
<1>1. UNCHANGED guiVars /\ UNCHANGED preparing
  BY DEF OnFrame, guiVars
<1>2. decoded \in Nat /\ epoch \in Nat /\ decoded' = decoded + 1
      /\ slot' = [number |-> decoded + 1, epoch |-> epoch]
  BY DEF OnFrame, DisplayInv, DisplayTypeOK
<1>3. slot' \in Slots
  BY <1>2 DEF Slots
<1>4. DisplayTypeOK'
  BY <1>1, <1>2, <1>3, GuiUnchanged DEF OnFrame, DisplayInv, DisplayTypeOK, LineOK, PreparingOK
<1>5. Working => preparing.frame.number \in Nat
  BY DEF DisplayInv, DisplayTypeOK, LineOK, PreparingOK, Working, Slots, PreparedFrames
<1>6. PostedBefore(decoded + 1) /\ PostedBefore(decoded + 2)
  BY <1>2, LaterIsAfter DEF DisplayInv, LineInv, LineIsOrdered
<1>7. LineIsOrdered'
  BY <1>1, <1>2, <1>5, <1>6, GuiUnchanged
  DEF DisplayInv, LineInv, LineIsOrdered, PostedBefore, Working, guiVars
<1>8. FramesAreOwn'
  BY <1>1 DEF DisplayInv, LineInv, FramesAreOwn, guiVars
<1> QED
  BY <1>1, <1>4, <1>7, <1>8, GuiUnchanged DEF DisplayInv, LineInv

LEMMA ProcessFramesStep == DisplayInv /\ ProcessFrames => DisplayInv'
<1> SUFFICES ASSUME DisplayInv, ProcessFrames PROVE DisplayInv'
  OBVIOUS
<1>1. UNCHANGED guiVars /\ UNCHANGED decoded
  BY DEF ProcessFrames, guiVars
<1>2. slot \in Slots /\ preparing' = [at |-> "taken", frame |-> slot] /\ slot' = Nothing
  BY DEF ProcessFrames, DisplayInv, DisplayTypeOK, LineOK
<1>3. DisplayTypeOK'
  BY <1>1, <1>2, GuiUnchanged DEF ProcessFrames, DisplayInv, DisplayTypeOK, LineOK, PreparingOK
<1>4. LineIsOrdered'
  BY <1>1, <1>2, GuiUnchanged, NothingIsNoFrame
  DEF DisplayInv, LineInv, LineIsOrdered, PostedBefore, Working, guiVars
<1>5. FramesAreOwn'
  BY <1>1, <1>2 DEF DisplayInv, LineInv, FramesAreOwn, guiVars
<1> QED
  BY <1>1, <1>3, <1>4, <1>5, GuiUnchanged DEF DisplayInv, LineInv

\* What the thread is at after a step that keeps the frame, or drops it.
LEMMA PrepareStep == DisplayInv /\ Prepare => DisplayInv'
<1> SUFFICES ASSUME DisplayInv, Prepare PROVE DisplayInv'
  OBVIOUS
<1>1. UNCHANGED guiVars /\ UNCHANGED <<decoded, track, epoch, slot, clears>>
  BY DEF Prepare, guiVars
<1>2. preparing.at = "taken" /\ preparing.frame \in Slots /\ epoch \in Nat
  BY DEF Prepare, DisplayInv, DisplayTypeOK, LineOK, PreparingOK
<1>3. CASE preparing' = [at |-> "waiting", frame |-> Nothing]
  <2>1. DisplayTypeOK'
    BY <1>1, <1>3, GuiUnchanged DEF DisplayInv, DisplayTypeOK, LineOK, PreparingOK
  <2>2. LineIsOrdered'
    BY <1>1, <1>3, GuiUnchanged
    DEF DisplayInv, LineInv, LineIsOrdered, PostedBefore, Working, guiVars
  <2>3. FramesAreOwn'
    BY <1>1, <1>3 DEF DisplayInv, LineInv, FramesAreOwn, guiVars
  <2> QED
    BY <1>1, <2>1, <2>2, <2>3, GuiUnchanged DEF DisplayInv, LineInv
<1>4. CASE \E format \in {"bgra", "i420"} :
             /\ preparing.frame.epoch = epoch
             /\ preparing' = [at |-> "prepared", frame |-> Prepared(preparing.frame, epoch, format)]
  <2>1. PICK format \in {"bgra", "i420"} :
             /\ preparing.frame.epoch = epoch
             /\ preparing' = [at |-> "prepared", frame |-> Prepared(preparing.frame, epoch, format)]
    BY <1>4
  <2>2. /\ Prepared(preparing.frame, epoch, format) \in PreparedFrames
        /\ Prepared(preparing.frame, epoch, format).number = preparing.frame.number
        /\ Prepared(preparing.frame, epoch, format).session = Prepared(preparing.frame, epoch, format).from
    BY <1>2, <2>1 DEF Prepared, PreparedFrames, Slots
  <2>3. DisplayTypeOK'
    BY <1>1, <2>1, <2>2, GuiUnchanged DEF DisplayInv, DisplayTypeOK, LineOK, PreparingOK
  <2>4. preparing'.frame.number = preparing.frame.number /\ preparing'.at = "prepared"
        /\ preparing'.frame.session = preparing'.frame.from
    BY <2>1, <2>2
  <2>5. preparing.frame.number \in Nat
    BY <1>2 DEF Slots
  <2>6. LineIsOrdered'
    BY <1>1, <1>2, <2>4, <2>5, GuiUnchanged
    DEF DisplayInv, LineInv, LineIsOrdered, PostedBefore, Working, guiVars
  <2>7. FramesAreOwn'
    BY <1>1, <2>4 DEF DisplayInv, LineInv, FramesAreOwn, guiVars
  <2> QED
    BY <1>1, <2>3, <2>6, <2>7, GuiUnchanged DEF DisplayInv, LineInv
<1> QED
  BY <1>3, <1>4 DEF Prepare

LEMMA CheckAgainStep == DisplayInv /\ CheckAgain => DisplayInv'
<1> SUFFICES ASSUME DisplayInv, CheckAgain PROVE DisplayInv'
  OBVIOUS
<1>1. UNCHANGED guiVars /\ UNCHANGED <<decoded, track, epoch, slot, clears>>
  BY DEF CheckAgain, guiVars
<1>2. preparing.at = "prepared" /\ preparing.frame \in PreparedFrames
      /\ preparing = [at |-> "prepared", frame |-> preparing.frame]
  BY DEF CheckAgain, DisplayInv, DisplayTypeOK, LineOK, PreparingOK
<1>3. CASE preparing' = [at |-> "waiting", frame |-> Nothing]
  <2>1. DisplayTypeOK'
    BY <1>1, <1>3, GuiUnchanged DEF DisplayInv, DisplayTypeOK, LineOK, PreparingOK
  <2>2. LineIsOrdered'
    BY <1>1, <1>3, GuiUnchanged
    DEF DisplayInv, LineInv, LineIsOrdered, PostedBefore, Working, guiVars
  <2>3. FramesAreOwn'
    BY <1>1, <1>3 DEF DisplayInv, LineInv, FramesAreOwn, guiVars
  <2> QED
    BY <1>1, <2>1, <2>2, <2>3, GuiUnchanged DEF DisplayInv, LineInv
<1>4. CASE preparing' = [preparing EXCEPT !.at = "checked"]
  <2>1. preparing' = [at |-> "checked", frame |-> preparing.frame]
    BY <1>2, <1>4
  <2>2. DisplayTypeOK'
    BY <1>1, <1>2, <2>1, GuiUnchanged DEF DisplayInv, DisplayTypeOK, LineOK, PreparingOK
  <2>3. LineIsOrdered'
    BY <1>1, <1>2, <2>1, GuiUnchanged
    DEF DisplayInv, LineInv, LineIsOrdered, PostedBefore, Working, guiVars
  <2>4. FramesAreOwn'
    BY <1>1, <1>2, <2>1 DEF DisplayInv, LineInv, FramesAreOwn, guiVars
  <2> QED
    BY <1>1, <2>2, <2>3, <2>4, GuiUnchanged DEF DisplayInv, LineInv
<1> QED
  BY <1>3, <1>4 DEF CheckAgain

LEMMA PostStep == DisplayInv /\ Post => DisplayInv'
<1> SUFFICES ASSUME DisplayInv, Post PROVE DisplayInv'
  OBVIOUS
<1> DEFINE event == [what |-> "frame", frame |-> preparing.frame]
           longer == Append(guiEvents, event)
<1>1. /\ UNCHANGED <<decoded, track, epoch, slot, fallenBack, latest, display, clears>>
      /\ guiEvents' = longer /\ preparing' = [at |-> "waiting", frame |-> Nothing]
  BY DEF Post
<1>2. preparing.at = "checked" /\ preparing.frame \in PreparedFrames /\ Working
  BY DEF Post, DisplayInv, DisplayTypeOK, LineOK, PreparingOK, Working
<1>3. guiEvents \in Seq(GuiEvents) /\ event \in GuiEvents /\ event.what = "frame"
  BY <1>2, EventFacts DEF DisplayInv, DisplayTypeOK, LineOK
<1>4. /\ longer \in Seq(GuiEvents) /\ Len(longer) = Len(guiEvents) + 1 /\ Len(guiEvents) \in Nat
      /\ \A i \in 1..Len(guiEvents) : longer[i] = guiEvents[i]
      /\ longer[Len(guiEvents) + 1] = event
  BY <1>3, AppendFacts
<1>5. /\ PostedBefore(preparing.frame.number)
      /\ preparing.frame.number \in Nat /\ preparing.frame.number < decoded + 1
      /\ slot # Nothing => preparing.frame.number < slot.number /\ slot.number <= decoded
      /\ preparing.frame.session = preparing.frame.from /\ decoded \in Nat
  BY <1>2 DEF DisplayInv, DisplayTypeOK, LineInv, LineIsOrdered, FramesAreOwn, PreparedFrames
<1>6. \A i \in 1..Len(longer) : (i \in 1..Len(guiEvents) /\ longer[i] = guiEvents[i])
                                \/ (i = Len(guiEvents) + 1 /\ longer[i] = event)
  BY <1>4
<1> HIDE DEF longer
<1>7. DisplayTypeOK'
  BY <1>1, <1>4 DEF DisplayInv, DisplayTypeOK, LineOK, PreparingOK
<1>8. \A n \in Nat : PostedBefore(n) /\ preparing.frame.number < n => PostedBefore(n)'
  BY <1>1, <1>6 DEF PostedBefore
<1>9. LineIsOrdered'
  <2>1. slot # Nothing => slot.number \in Nat
    BY DEF DisplayInv, DisplayTypeOK, LineOK, Slots
  <2>2. PostedBefore(decoded + 1)'
    BY <1>1, <1>5, <1>8 DEF DisplayInv, LineInv, LineIsOrdered, PostedBefore
  <2>3. \A n \in Nat : slot # Nothing /\ n = slot.number => PostedBefore(n)'
    BY <1>5, <1>8, <2>1 DEF DisplayInv, LineInv, LineIsOrdered
  <2>4. slot' = slot /\ decoded' = decoded /\ ~Working'
    BY <1>1 DEF Working
  <2> QED
    BY <1>1, <1>5, <2>1, <2>2, <2>3, <2>4 DEF LineIsOrdered, PostedBefore
<1>10. EventsAreOrdered'
  <2>1. ASSUME NEW i \in 1..Len(longer), NEW j \in 1..Len(longer), i < j,
               longer[i].what = "frame", longer[j].what = "frame"
        PROVE  longer[i].frame.number < longer[j].frame.number
    <3>1. i \in 1..Len(guiEvents) /\ longer[i] = guiEvents[i]
      BY <1>4, <1>6, <2>1
    <3>2. CASE j \in 1..Len(guiEvents) /\ longer[j] = guiEvents[j]
      BY <2>1, <3>1, <3>2 DEF DisplayInv, LineInv, EventsAreOrdered
    <3>3. CASE longer[j] = event
      BY <1>5, <2>1, <3>1, <3>3 DEF PostedBefore
    <3> QED
      BY <1>6, <3>2, <3>3
  <2>2. ASSUME NEW i \in 1..Len(longer), longer[i].what = "frame"
        PROVE  /\ latest.frame # Nothing => latest.frame.number < longer[i].frame.number
               /\ display # Nothing => display.number < longer[i].frame.number
    <3>1. CASE i \in 1..Len(guiEvents) /\ longer[i] = guiEvents[i]
      BY <2>2, <3>1 DEF DisplayInv, LineInv, EventsAreOrdered
    <3>2. CASE longer[i] = event
      BY <1>5, <3>2 DEF PostedBefore
    <3> QED
      BY <1>6, <3>1, <3>2
  <2> QED
    BY <1>1, <2>1, <2>2 DEF DisplayInv, LineInv, EventsAreOrdered
<1>11. FramesAreOwn'
  BY <1>1, <1>5, <1>6 DEF DisplayInv, LineInv, FramesAreOwn
<1>12. FallbackHolds' /\ LateFramesStayHidden'
  BY <1>1 DEF DisplayInv, LineInv, FallbackHolds, LateFramesStayHidden
<1>13. FramesAreComing'
  <2> SUFFICES ASSUME latest.frame # Nothing \/ latest.queued
               PROVE  \E i \in DOMAIN guiEvents' : guiEvents'[i].what = "present"
    BY <1>1 DEF FramesAreComing
  <2>1. PICK i \in DOMAIN guiEvents : guiEvents[i].what = "present"
    BY DEF DisplayInv, LineInv, FramesAreComing
  <2>2. i \in 1..Len(guiEvents)
    BY <1>3, <2>1
  <2>3. i \in DOMAIN longer /\ longer[i] = guiEvents[i]
    BY <1>4, <2>2
  <2> QED
    BY <1>1, <2>1, <2>3
<1> QED
  BY <1>7, <1>9, <1>10, <1>11, <1>12, <1>13 DEF DisplayInv, LineInv

LEMMA ClearFrameStep == DisplayInv /\ ClearFrame => DisplayInv'
<1> SUFFICES ASSUME DisplayInv, ClearFrame PROVE DisplayInv'
  OBVIOUS
<1>1. /\ UNCHANGED <<decoded, track, epoch, slot, preparing, fallenBack, guiEvents>>
      /\ latest' = [frame |-> Nothing, queued |-> FALSE] /\ display' = Nothing
      /\ clears' = IF track THEN clears + 1 ELSE clears
  BY DEF ClearFrame
<1>2. clears' \in Nat
  BY <1>1 DEF DisplayInv, DisplayTypeOK
<1>3. latest'.frame = Nothing /\ latest'.queued = FALSE
      /\ latest' \in [frame : PreparedFrames \cup {Nothing}, queued : BOOLEAN]
  BY <1>1
<1>4. DisplayTypeOK'
  BY <1>1, <1>2, <1>3 DEF DisplayInv, DisplayTypeOK, LineOK, PreparingOK
<1>5. LineIsOrdered' /\ EventsAreOrdered'
  BY <1>1, <1>3 DEF DisplayInv, LineInv, LineIsOrdered, EventsAreOrdered, PostedBefore, Working
<1>6. FramesAreOwn' /\ FallbackHolds' /\ LateFramesStayHidden'
  BY <1>1, <1>3 DEF DisplayInv, LineInv, FramesAreOwn, FallbackHolds, LateFramesStayHidden
<1>7. FramesAreComing'
  BY <1>3 DEF FramesAreComing
<1> QED
  BY <1>4, <1>5, <1>6, <1>7 DEF DisplayInv, LineInv

(* The first event is taken: the others move up, and no new frame comes.     *)
MovedUp ==
    /\ guiEvents' \in Seq(GuiEvents)
    /\ \A i \in 1..Len(guiEvents') : guiEvents'[i].what = "frame" =>
          i + 1 \in 1..Len(guiEvents) /\ guiEvents'[i] = guiEvents[i + 1]

LEMMA TakingMovesUp ==
    ASSUME guiEvents \in Seq(GuiEvents), guiEvents # <<>>,
           guiEvents' = Tail(guiEvents) \/ guiEvents' = Append(Tail(guiEvents), Presentation)
    PROVE  MovedUp
<1> DEFINE rest == Tail(guiEvents)
<1>1. /\ rest \in Seq(GuiEvents) /\ Len(rest) = Len(guiEvents) - 1 /\ Len(guiEvents) \in Nat
      /\ \A i \in 1..Len(rest) : rest[i] = guiEvents[i + 1]
  BY TailFacts
<1>2. /\ Append(rest, Presentation) \in Seq(GuiEvents)
      /\ Len(Append(rest, Presentation)) = Len(rest) + 1
      /\ \A i \in 1..Len(rest) : Append(rest, Presentation)[i] = rest[i]
      /\ Append(rest, Presentation)[Len(rest) + 1] = Presentation
  BY <1>1, AppendFacts, EventFacts
<1>3. Presentation.what # "frame"
  BY EventFacts
<1> HIDE DEF rest
<1>4. CASE guiEvents' = rest
  BY <1>1, <1>4 DEF MovedUp
<1>5. CASE guiEvents' = Append(rest, Presentation)
  <2>1. \A i \in 1..Len(guiEvents') : i \in 1..Len(rest) \/ i = Len(rest) + 1
    BY <1>1, <1>2, <1>5
  <2>2. \A i \in 1..Len(guiEvents') : guiEvents'[i].what = "frame" => i \in 1..Len(rest)
    BY <1>2, <1>3, <1>5, <2>1
  <2> QED
    BY <1>1, <1>2, <1>5, <2>2 DEF MovedUp
<1> QED
  BY <1>4, <1>5 DEF rest

(* What moves up is a part of what was there.                                 *)
LEMMA MovedUpKeeps ==
    ASSUME DisplayInv, MovedUp
    PROVE  /\ \A i, j \in 1..Len(guiEvents') :
                 i < j /\ guiEvents'[i].what = "frame" /\ guiEvents'[j].what = "frame"
                     => guiEvents'[i].frame.number < guiEvents'[j].frame.number
           /\ \A i \in 1..Len(guiEvents') : guiEvents'[i].what = "frame" =>
                 /\ latest.frame # Nothing => latest.frame.number < guiEvents'[i].frame.number
                 /\ display # Nothing => display.number < guiEvents'[i].frame.number
                 /\ guiEvents'[i].frame.session = guiEvents'[i].frame.from
           /\ \A n \in Nat : PostedBefore(n) => \A i \in 1..Len(guiEvents') :
                 guiEvents'[i].what = "frame" => guiEvents'[i].frame.number < n
<1>1. ASSUME NEW i \in 1..Len(guiEvents'), NEW j \in 1..Len(guiEvents'), i < j,
             guiEvents'[i].what = "frame", guiEvents'[j].what = "frame"
      PROVE  guiEvents'[i].frame.number < guiEvents'[j].frame.number
  <2>1. i + 1 \in 1..Len(guiEvents) /\ j + 1 \in 1..Len(guiEvents) /\ i + 1 < j + 1
        /\ guiEvents'[i] = guiEvents[i + 1] /\ guiEvents'[j] = guiEvents[j + 1]
    BY <1>1 DEF MovedUp
  <2> QED
    BY <1>1, <2>1 DEF DisplayInv, LineInv, EventsAreOrdered
<1>2. ASSUME NEW i \in 1..Len(guiEvents'), guiEvents'[i].what = "frame"
      PROVE  /\ latest.frame # Nothing => latest.frame.number < guiEvents'[i].frame.number
             /\ display # Nothing => display.number < guiEvents'[i].frame.number
             /\ guiEvents'[i].frame.session = guiEvents'[i].frame.from
  BY <1>2 DEF MovedUp, DisplayInv, LineInv, EventsAreOrdered, FramesAreOwn
<1>3. ASSUME NEW n \in Nat, PostedBefore(n), NEW i \in 1..Len(guiEvents'),
             guiEvents'[i].what = "frame"
      PROVE  guiEvents'[i].frame.number < n
  BY <1>3 DEF MovedUp, PostedBefore
<1> QED
  BY <1>1, <1>2, <1>3

(* The queue and the display get nothing newer than what was in front.        *)
LEMMA LineStaysOrdered ==
    ASSUME DisplayInv, UNCHANGED <<decoded, slot, preparing>>,
           \A n \in Nat : PostedBefore(n) => PostedBefore(n)'
    PROVE  LineIsOrdered'
<1>1. decoded + 1 \in Nat
  BY DEF DisplayInv, DisplayTypeOK
<1>2. Working => preparing.frame.number \in Nat
  BY DEF Working, DisplayInv, DisplayTypeOK, LineOK, PreparingOK, Slots, PreparedFrames
<1>3. slot # Nothing => slot.number \in Nat
  BY DEF DisplayInv, DisplayTypeOK, LineOK, Slots
<1>4. \A n \in Nat : (n = decoded + 1 \/ (Working /\ n = preparing.frame.number)
                         \/ (slot # Nothing /\ n = slot.number)) => PostedBefore(n)'
  BY DEF DisplayInv, LineInv, LineIsOrdered
<1> QED
  BY <1>1, <1>2, <1>3, <1>4 DEF DisplayInv, LineInv, LineIsOrdered, PostedBefore, Working

LEMMA EnqueueStep == DisplayInv /\ Enqueue => DisplayInv'
<1> SUFFICES ASSUME DisplayInv, Enqueue PROVE DisplayInv'
  OBVIOUS
<1> DEFINE frame == Head(guiEvents).frame
           rest == Tail(guiEvents)
<1>1. /\ guiEvents # <<>> /\ Head(guiEvents).what = "frame"
      /\ UNCHANGED <<decoded, track, epoch, slot, preparing, fallenBack, display, clears>>
  BY DEF Enqueue
<1>2. /\ guiEvents \in Seq(GuiEvents)
      /\ latest \in [frame : PreparedFrames \cup {Nothing}, queued : BOOLEAN]
      /\ fallenBack \subseteq Nat
  BY DEF DisplayInv, DisplayTypeOK, LineOK
<1>3. /\ rest \in Seq(GuiEvents) /\ Len(rest) = Len(guiEvents) - 1
      /\ Len(guiEvents) \in Nat /\ Len(guiEvents) > 0
      /\ \A i \in 1..Len(rest) : rest[i] = guiEvents[i + 1]
      /\ Head(guiEvents) = guiEvents[1] /\ guiEvents[1] \in GuiEvents
  BY <1>1, <1>2, TailFacts
<1>4. /\ rest \o <<Presentation>> = Append(rest, Presentation) /\ rest \o <<>> = rest
      /\ Append(rest, Presentation) \in Seq(GuiEvents)
      /\ Len(Append(rest, Presentation)) = Len(rest) + 1
      /\ \A i \in 1..Len(rest) : Append(rest, Presentation)[i] = rest[i]
      /\ Append(rest, Presentation)[Len(rest) + 1] = Presentation
  BY <1>3, AppendFacts, EventFacts
<1>5. frame \in PreparedFrames /\ frame.session = frame.from /\ frame # Nothing
  BY <1>1, <1>3, EventFacts, NothingIsNoFrame DEF DisplayInv, LineInv, FramesAreOwn
<1>6. /\ \A n \in Nat : PostedBefore(n) => frame.number < n
      /\ display # Nothing => display.number < frame.number
      /\ \A i \in 1..Len(rest) : rest[i].what = "frame" => frame.number < rest[i].frame.number
  BY <1>1, <1>3 DEF DisplayInv, LineInv, EventsAreOrdered, PostedBefore
<1>7. guiEvents' = rest \/ guiEvents' = Append(rest, Presentation)
  BY <1>4 DEF Enqueue
<1>8. MovedUp
  BY <1>1, <1>2, <1>7, TakingMovesUp
<1>9. \A i \in 1..Len(guiEvents') : guiEvents'[i].what = "frame" =>
         i \in 1..Len(rest) /\ guiEvents'[i] = rest[i]
  <2> HIDE DEF rest
  <2>1. \A i \in 1..Len(guiEvents') : i \in 1..Len(rest) \/ i = Len(rest) + 1
    <3>1. Len(rest) \in Nat /\ (Len(guiEvents') = Len(rest) \/ Len(guiEvents') = Len(rest) + 1)
      BY <1>3, <1>4, <1>7
    <3> QED
      BY <3>1
  <2> QED
    BY <1>3, <1>4, <1>7, <1>8, <2>1, EventFacts DEF MovedUp
<1>10. (latest.frame # Nothing \/ latest.queued)
          => \E i \in 1..Len(rest) : rest[i].what = "present"
  <2> SUFFICES ASSUME latest.frame # Nothing \/ latest.queued
               PROVE  \E i \in 1..Len(rest) : rest[i].what = "present"
    OBVIOUS
  <2>1. PICK i \in DOMAIN guiEvents : guiEvents[i].what = "present"
    BY DEF DisplayInv, LineInv, FramesAreComing
  <2>2. i \in 1..Len(guiEvents) /\ i # 1
    BY <1>1, <1>2, <1>3, <2>1
  <2>3. i - 1 \in 1..Len(rest) /\ rest[i - 1] = guiEvents[i]
    BY <1>3, <2>2
  <2> QED
    BY <2>1, <2>3
<1> HIDE DEF frame, rest
<1>11. CASE HasPixels(frame)
  <2>1. /\ latest' = [frame |-> frame, queued |-> TRUE]
        /\ guiEvents' = rest \o (IF latest.queued THEN <<>> ELSE <<Presentation>>)
    BY <1>11 DEF Enqueue, frame, rest
  <2>2. latest'.frame = frame
        /\ latest' \in [frame : PreparedFrames \cup {Nothing}, queued : BOOLEAN]
    BY <1>5, <2>1
  <2>3. DisplayTypeOK'
    BY <1>1, <1>8, <2>2 DEF DisplayInv, DisplayTypeOK, LineOK, PreparingOK, MovedUp
  <2>4. \A n \in Nat : PostedBefore(n) => PostedBefore(n)'
    BY <1>1, <1>6, <1>8, <2>2, MovedUpKeeps DEF PostedBefore
  <2>5. LineIsOrdered'
    BY <1>1, <2>4, LineStaysOrdered
  <2>6. EventsAreOrdered'
    BY <1>1, <1>5, <1>6, <1>8, <1>9, <2>2, MovedUpKeeps DEF EventsAreOrdered
  <2>7. FramesAreOwn'
    BY <1>1, <1>5, <1>8, <2>2, MovedUpKeeps DEF DisplayInv, LineInv, FramesAreOwn
  <2>8. \E i \in DOMAIN guiEvents' : guiEvents'[i].what = "present"
    <3>1. CASE latest.queued
      <4>1. guiEvents' = rest
        BY <1>4, <2>1, <3>1
      <4>2. PICK i \in 1..Len(rest) : rest[i].what = "present"
        BY <1>10, <3>1
      <4>3. i \in DOMAIN rest
        BY <1>3, <4>2
      <4> QED
        BY <4>1, <4>2, <4>3
    <3>2. CASE ~latest.queued
      <4>1. guiEvents' = Append(rest, Presentation)
        BY <1>4, <2>1, <3>2
      <4>2. Len(rest) + 1 \in DOMAIN guiEvents' /\ guiEvents'[Len(rest) + 1] = Presentation
        BY <1>3, <1>4, <4>1
      <4> QED
        BY <4>2, EventFacts
    <3> QED
      BY <3>1, <3>2
  <2>9. FallbackHolds' /\ LateFramesStayHidden' /\ FramesAreComing'
    BY <1>1, <2>8 DEF DisplayInv, LineInv, FallbackHolds, LateFramesStayHidden, FramesAreComing
  <2> QED
    BY <2>3, <2>5, <2>6, <2>7, <2>9 DEF DisplayInv, LineInv
<1>12. CASE ~HasPixels(frame)
  <2>1. latest' = latest /\ guiEvents' = rest
    BY <1>12 DEF Enqueue, frame, rest
  <2>2. DisplayTypeOK'
    BY <1>1, <1>8, <2>1 DEF DisplayInv, DisplayTypeOK, LineOK, PreparingOK, MovedUp
  <2>3. \A n \in Nat : PostedBefore(n) => PostedBefore(n)'
    BY <1>1, <1>8, <2>1, MovedUpKeeps DEF PostedBefore
  <2>4. LineIsOrdered'
    BY <1>1, <2>3, LineStaysOrdered
  <2>5. EventsAreOrdered'
    BY <1>1, <1>8, <2>1, MovedUpKeeps DEF DisplayInv, LineInv, EventsAreOrdered
  <2>6. FramesAreOwn'
    BY <1>1, <1>8, <2>1, MovedUpKeeps DEF DisplayInv, LineInv, FramesAreOwn
  <2>7. \A i \in 1..Len(rest) : i \in DOMAIN rest
    BY <1>3
  <2>8. FallbackHolds' /\ LateFramesStayHidden' /\ FramesAreComing'
    BY <1>1, <1>10, <2>1, <2>7
    DEF DisplayInv, LineInv, FallbackHolds, LateFramesStayHidden, FramesAreComing
  <2> QED
    BY <2>2, <2>4, <2>5, <2>6, <2>8 DEF DisplayInv, LineInv
<1> QED
  BY <1>11, <1>12

LEMMA PresentLatestFrameStep == DisplayInv /\ PresentLatestFrame => DisplayInv'
<1> SUFFICES ASSUME DisplayInv, PresentLatestFrame PROVE DisplayInv'
  OBVIOUS
<1> DEFINE frame == latest.frame
           shown == [number |-> frame.number, session |-> frame.session, from |-> frame.from,
                     format |-> frame.format, during |-> epoch]
<1>1. /\ guiEvents # <<>> /\ guiEvents' = Tail(guiEvents)
      /\ latest' = [frame |-> Nothing, queued |-> FALSE]
      /\ UNCHANGED <<decoded, track, epoch, slot, preparing, clears>>
  BY DEF PresentLatestFrame
<1>2. latest'.frame = Nothing /\ latest'.queued = FALSE
      /\ latest' \in [frame : PreparedFrames \cup {Nothing}, queued : BOOLEAN]
  BY <1>1
<1>3. MovedUp
  BY <1>1, TakingMovesUp DEF DisplayInv, DisplayTypeOK, LineOK
<1>4. /\ latest.frame \in PreparedFrames \cup {Nothing} /\ epoch \in Nat /\ fallenBack \subseteq Nat
      /\ display \in ShownFrames \cup {Nothing}
  BY DEF DisplayInv, DisplayTypeOK, LineOK
<1>5. \/ display' = display /\ fallenBack' = fallenBack
      \/ display' = Nothing /\ (fallenBack' = fallenBack \/ fallenBack' = fallenBack \cup {frame.session})
         /\ frame # Nothing
      \/ /\ display' = shown /\ fallenBack' = fallenBack
         /\ frame # Nothing /\ frame.session = epoch
         /\ ~(frame.format = "i420" /\ frame.session \in fallenBack)
  BY DEF PresentLatestFrame, Presents, HasPixels
<1>6. frame # Nothing => /\ frame \in PreparedFrames /\ shown \in ShownFrames /\ frame.session \in Nat
                         /\ frame.session = frame.from
  BY <1>4 DEF DisplayInv, LineInv, FramesAreOwn, PreparedFrames, ShownFrames
<1>7. shown.number = frame.number /\ shown.session = frame.session /\ shown.from = frame.from
      /\ shown.format = frame.format /\ shown.during = epoch
  OBVIOUS
<1> HIDE DEF frame, shown
<1>8. DisplayTypeOK'
  <2>1. display' \in ShownFrames \cup {Nothing} /\ fallenBack' \subseteq Nat
    BY <1>4, <1>5, <1>6
  <2> QED
    BY <1>1, <1>2, <1>3, <2>1 DEF DisplayInv, DisplayTypeOK, LineOK, PreparingOK, MovedUp
<1>9. \A n \in Nat : PostedBefore(n) => PostedBefore(n)'
  BY <1>2, <1>3, <1>5, <1>7, MovedUpKeeps DEF PostedBefore, frame
<1>10. LineIsOrdered'
  BY <1>1, <1>9, LineStaysOrdered
<1>11. EventsAreOrdered'
  BY <1>2, <1>3, <1>5, <1>7, MovedUpKeeps DEF EventsAreOrdered, frame
<1>12. FramesAreOwn'
  BY <1>1, <1>2, <1>3, MovedUpKeeps DEF DisplayInv, LineInv, FramesAreOwn
<1>13. FallbackHolds' /\ LateFramesStayHidden'
  BY <1>5, <1>6, <1>7 DEF DisplayInv, LineInv, FallbackHolds, LateFramesStayHidden
<1>14. FramesAreComing'
  BY <1>2 DEF FramesAreComing
<1> QED
  BY <1>8, <1>10, <1>11, <1>12, <1>13, <1>14 DEF DisplayInv, LineInv

LEMMA NextPreservesInv == DisplayInv /\ [DisplayNext]_displayVars => DisplayInv'
<1> SUFFICES ASSUME DisplayInv, [DisplayNext]_displayVars PROVE DisplayInv'
  OBVIOUS
<1>1. CASE OnAddTrack \/ OnRemoveTrack \/ OnFrame
  BY <1>1, OnAddTrackStep, OnRemoveTrackStep, OnFrameStep
<1>2. CASE ProcessFrames \/ Prepare \/ CheckAgain \/ Post
  BY <1>2, ProcessFramesStep, PrepareStep, CheckAgainStep, PostStep
<1>3. CASE Enqueue \/ PresentLatestFrame \/ ClearFrame
  BY <1>3, EnqueueStep, PresentLatestFrameStep, ClearFrameStep
<1>4. CASE UNCHANGED displayVars
  <2>1. DisplayTypeOK'
    BY <1>4 DEF displayVars, DisplayInv, DisplayTypeOK, LineOK, PreparingOK
  <2>2. LineIsOrdered' /\ EventsAreOrdered'
    BY <1>4 DEF displayVars, DisplayInv, LineInv, LineIsOrdered, EventsAreOrdered, PostedBefore, Working
  <2>3. FramesAreOwn' /\ FallbackHolds' /\ LateFramesStayHidden' /\ FramesAreComing'
    BY <1>4 DEF displayVars, DisplayInv, LineInv, FramesAreOwn, FallbackHolds, LateFramesStayHidden,
                FramesAreComing
  <2> QED
    BY <2>1, <2>2, <2>3 DEF DisplayInv, LineInv
<1> QED
  BY <1>1, <1>2, <1>3, <1>4 DEF DisplayNext

LEMMA InvImpliesShown == DisplayInv => VideoIsShown
<1> SUFFICES ASSUME DisplayInv PROVE VideoIsShown
  OBVIOUS
<1>1. guiEvents \in Seq(GuiEvents)
  BY DEF DisplayInv, DisplayTypeOK, LineOK
<1>2. DOMAIN guiEvents = 1..Len(guiEvents)
  BY <1>1
<1>3. NewestIsShown
  BY <1>2 DEF DisplayInv, LineInv, EventsAreOrdered, FallbackHolds, NewestIsShown
<1> QED
  BY <1>3 DEF DisplayInv, LineInv, VideoIsShown

(* Type correctness of the controller's video, and the order and ownership   *)
(* of every frame between the decoder and the screen.                        *)
THEOREM DisplayInvariant == DisplaySpec => []DisplayInv
<1> QED
  BY InitEstablishesInv, NextPreservesInv, PTL DEF DisplaySpec

(* However many tracks come and go, whenever the preview is cleared and       *)
(* however late a frame is: no late frame is shown, no frame is left waiting   *)
(* without a presentation, and none is followed by an older one.               *)
THEOREM FramesAreShown == DisplaySpec => []VideoIsShown
<1> QED
  BY DisplayInvariant, InvImpliesShown, PTL

------------------------------------------------------------------------------
(***************************************************************************)
(* The encoder.  The images that were offered, those the codec keeps back  *)
(* and the frames to come stand in one line of growing presentation times; *)
(* until the first image was offered all of the line are key frames.       *)
(***************************************************************************)
Packets == [pts : Nat, key : BOOLEAN]
Offers == [pts : Nat, key : BOOLEAN, stamps : Nat]
Descriptions == [pts : Nat, stamps : Nat]

EncoderTypeOK ==
    /\ opens \in Nat /\ given \in Nat /\ needKey \in BOOLEAN
    /\ state \in {"closed", "open", "latched"}
    /\ inside \in Seq(Packets) /\ images \in Seq(Offers)
    /\ pending \subseteq Descriptions

\* A queue of packets of which none is newer than n, each later than the one before.
Rising(s, n) ==
    /\ \A i \in 1..Len(s) : s[i].pts <= n
    /\ \A i, j \in 1..Len(s) : i < j => s[i].pts < s[j].pts

\* The first k packets of w became the images b.
Described(b, w, k) == \A i \in 1..k : b[i].pts = w[i].pts /\ b[i].key = w[i].key /\ b[i].stamps = w[i].pts

\* An image carries the time stamps of its own frame, and the first is a key frame.
Stamped(s) == \A i \in 1..Len(s) : s[i].stamps = s[i].pts
Keyed(s) == \A j \in 1..Len(s) : s[j].key
BeginsWithKey(s) == s # <<>> => s[1].key

EncoderInv ==
    /\ EncoderTypeOK
    /\ \A p \in pending : p.stamps = p.pts
    /\ Rising(inside, given) /\ Rising(images, given)
    /\ \A i \in 1..Len(images), j \in 1..Len(inside) : images[i].pts < inside[j].pts
    /\ images = <<>> => needKey /\ Keyed(inside)
    /\ ImagesAreTrue

\* A part of a rising queue is a rising queue, and its packets are of the queue.
LEMMA PartRises ==
    ASSUME NEW S, NEW s \in Seq(S), NEW n \in Nat, NEW a \in Nat \ {0}, NEW b \in 0..Len(s), a <= b + 1,
           \A x \in S : x.pts \in Nat,
           Rising(s, n)
    PROVE  /\ SubSeq(s, a, b) \in Seq(S)
           /\ Len(SubSeq(s, a, b)) = b + 1 - a
           /\ \A i \in 1..Len(SubSeq(s, a, b)) : SubSeq(s, a, b)[i] = s[a + i - 1] /\ a + i - 1 \in 1..Len(s)
           /\ Rising(SubSeq(s, a, b), n)
<1>1. /\ SubSeq(s, a, b) \in Seq(S)
      /\ Len(SubSeq(s, a, b)) = b + 1 - a
      /\ \A i \in 1..Len(SubSeq(s, a, b)) : SubSeq(s, a, b)[i] = s[a + i - 1] /\ a + i - 1 \in 1..Len(s)
    OBVIOUS
<1>2. \A i \in 1..Len(s) : s[i].pts \in Nat
    OBVIOUS
<1> QED BY <1>1, <1>2 DEF Rising

\* What a queue consists of that was put behind another.
LEMMA Joined ==
    ASSUME NEW S, NEW a \in Seq(S), NEW b \in Seq(S)
    PROVE  /\ a \o b \in Seq(S) /\ Len(a \o b) = Len(a) + Len(b)
           /\ Len(a) \in Nat /\ Len(b) \in Nat
           /\ \A i \in 1..Len(a) : (a \o b)[i] = a[i]
           /\ \A i \in 1..Len(b) : (a \o b)[Len(a) + i] = b[i]
OBVIOUS

\* The images a call of Encode offers are the first of the line, and describe themselves.
LEMMA OfferedRises ==
    ASSUME NEW n \in Nat, NEW a \in Seq(Offers), NEW w \in Seq(Packets), NEW k \in 0..Len(w),
           NEW b \in Seq(Offers), Len(b) = k,
           Described(b, w, k), Rising(a, n), Rising(w, n + 1),
           \A i \in 1..Len(a), j \in 1..Len(w) : a[i].pts < w[j].pts,
           Stamped(a), BeginsWithKey(a), a = <<>> => Keyed(w)
    PROVE  /\ Rising(a \o b, n + 1)
           /\ Stamped(a \o b) /\ BeginsWithKey(a \o b)
           /\ \A i \in 1..Len(a \o b), j \in 1..Len(w) : k < j => (a \o b)[i].pts < w[j].pts
<1> DEFINE c == a \o b
           N == Len(a)
<1>1. /\ c \in Seq(Offers) /\ Len(c) = N + k /\ N \in Nat /\ k \in Nat /\ k <= Len(w) /\ Len(w) \in Nat
      /\ \A i \in 1..N : c[i] = a[i]
      /\ \A i \in 1..k : c[N + i] = b[i]
  <2>1. /\ a \o b \in Seq(Offers) /\ Len(a \o b) = Len(a) + Len(b)
        /\ Len(a) \in Nat /\ Len(b) \in Nat
        /\ \A i \in 1..Len(a) : (a \o b)[i] = a[i]
        /\ \A i \in 1..Len(b) : (a \o b)[Len(a) + i] = b[i]
      OBVIOUS
  <2>2. Len(b) = k /\ k \in Nat /\ k <= Len(w) /\ Len(w) \in Nat
      OBVIOUS
  <2> QED BY <2>1, <2>2
<1>2. \A i \in 1..Len(c) : i \in 1..N \/ (i - N \in 1..k /\ i = N + (i - N))
    BY <1>1
<1>3. /\ \A i \in 1..N : a[i].pts \in Nat
      /\ \A i \in 1..Len(w) : w[i].pts \in Nat
  <2>1. (\A i \in 1..Len(a) : a[i] \in Offers) /\ \A i \in 1..Len(w) : w[i] \in Packets
      OBVIOUS
  <2> QED BY <2>1 DEF Offers, Packets
<1>4. \A i \in 1..k : c[N + i].pts = w[i].pts /\ c[N + i].stamps = w[i].pts
    BY <1>1 DEF Described
<1> HIDE DEF c, N
<1>5. ASSUME NEW i \in 1..Len(c) PROVE c[i].stamps = c[i].pts /\ c[i].pts <= n + 1
  <2>1. CASE i \in 1..N
      BY <2>1, <1>1, <1>3 DEF Rising, Stamped, N
  <2>2. CASE i - N \in 1..k /\ i = N + (i - N)
    <3> DEFINE p == i - N
    <3>1. p \in 1..k /\ i = N + p
        BY <2>2
    <3> HIDE DEF p
    <3>2. c[i].stamps = w[p].pts /\ c[i].pts = w[p].pts /\ p \in 1..Len(w)
        BY <3>1, <1>1, <1>4
    <3> QED BY <3>2 DEF Rising
  <2> QED BY <2>1, <2>2, <1>2
<1>6. ASSUME NEW i \in 1..Len(c), NEW j \in 1..Len(c), i < j PROVE c[i].pts < c[j].pts
  <2>1. CASE i \in 1..N /\ j \in 1..N
      BY <1>6, <2>1, <1>1 DEF Rising, N
  <2>2. CASE i \in 1..N /\ j - N \in 1..k /\ j = N + (j - N)
    <3> DEFINE p == j - N
    <3>1. p \in 1..k /\ j = N + p
        BY <2>2
    <3> HIDE DEF p
    <3>2. c[j].pts = w[p].pts /\ p \in 1..Len(w) /\ c[i] = a[i] /\ i \in 1..Len(a)
        BY <2>2, <3>1, <1>1, <1>4 DEF N
    <3> QED BY <3>2
  <2>3. CASE i - N \in 1..k /\ i = N + (i - N) /\ j - N \in 1..k /\ j = N + (j - N)
    <3> DEFINE p == i - N
               q == j - N
    <3>1. p \in 1..k /\ i = N + p /\ q \in 1..k /\ j = N + q /\ p < q
        BY <2>3, <1>6, <1>1
    <3> HIDE DEF p, q
    <3>2. c[i].pts = w[p].pts /\ c[j].pts = w[q].pts /\ p \in 1..Len(w) /\ q \in 1..Len(w)
        BY <3>1, <1>1, <1>4
    <3> QED BY <3>1, <3>2 DEF Rising
  <2>4. ~(j \in 1..N /\ i - N \in 1..k)
      BY <1>6, <1>1
  <2> QED BY <2>1, <2>2, <2>3, <2>4, <1>2
<1>7. ASSUME c # <<>> PROVE c[1].key
  <2>1. CASE a = <<>>
    <3>1. N = 0 /\ k > 0
        BY <2>1, <1>1, <1>7 DEF N
    <3>2. c[N + 1] = b[1] /\ 1 \in 1..Len(w) /\ 1 \in 1..k /\ N + 1 = 1
        BY <3>1, <1>1
    <3>3. b[1].key = w[1].key
        BY <3>2 DEF Described
    <3>4. w[1].key
        BY <3>2, <2>1 DEF Keyed
    <3> QED BY <3>2, <3>3, <3>4
  <2>2. CASE a # <<>>
    <3>1. 1 \in 1..N
        BY <2>2, <1>1 DEF N
    <3>2. c[1] = a[1]
        BY <3>1, <1>1
    <3> QED BY <3>2, <2>2 DEF BeginsWithKey
  <2> QED BY <2>1, <2>2
<1>8. ASSUME NEW i \in 1..Len(c), NEW j \in 1..Len(w), k < j PROVE c[i].pts < w[j].pts
  <2>1. CASE i \in 1..N
    <3>1. c[i] = a[i] /\ i \in 1..Len(a)
        BY <2>1, <1>1 DEF N
    <3> QED BY <3>1
  <2>2. CASE i - N \in 1..k /\ i = N + (i - N)
    <3> DEFINE p == i - N
    <3>1. p \in 1..k /\ i = N + p
        BY <2>2
    <3> HIDE DEF p
    <3>2. c[i].pts = w[p].pts /\ p \in 1..Len(w) /\ p < j
        BY <3>1, <1>1, <1>4, <1>8
    <3> QED BY <3>2 DEF Rising
  <2> QED BY <2>1, <2>2, <1>2
<1> QED BY <1>1, <1>5, <1>6, <1>7, <1>8 DEF Rising, Stamped, BeginsWithKey, c

LEMMA EncoderInit == EncodeInit => EncoderInv
<1> SUFFICES ASSUME EncodeInit PROVE EncoderInv OBVIOUS
<1> QED BY DEF EncodeInit, EncoderInv, EncoderTypeOK, Rising, Keyed, ImagesAreTrue

\* What a codec that was given one more frame keeps back then.
LEMMA WithFrameRises ==
    ASSUME EncoderInv, NEW key \in BOOLEAN, needKey => key
    PROVE  /\ WithFrame(key) \in Seq(Packets)
           /\ Len(WithFrame(key)) \in Nat
           /\ Rising(WithFrame(key), given + 1)
           /\ \A i \in 1..Len(images), j \in 1..Len(WithFrame(key)) : images[i].pts < WithFrame(key)[j].pts
           /\ images = <<>> => Keyed(WithFrame(key))
<1> DEFINE m == [pts |-> given + 1, key |-> key]
           w == WithFrame(key)
<1>1. m \in Packets /\ w = Append(inside, m)
    BY DEF EncoderInv, EncoderTypeOK, Packets, WithFrame, Submitted
<1>2. /\ w \in Seq(Packets) /\ Len(w) = Len(inside) + 1
      /\ \A i \in 1..Len(inside) : w[i] = inside[i]
      /\ w[Len(inside) + 1] = m
    BY <1>1 DEF EncoderInv, EncoderTypeOK
<1>3. Len(inside) \in Nat /\ given \in Nat /\ (\A i \in 1..Len(inside) : inside[i].pts \in Nat)
      /\ \A i \in 1..Len(images) : images[i].pts \in Nat
  <2>1. inside \in Seq(Packets) /\ images \in Seq(Offers) /\ given \in Nat
      BY DEF EncoderInv, EncoderTypeOK
  <2>2. (\A i \in 1..Len(inside) : inside[i] \in Packets) /\ \A i \in 1..Len(images) : images[i] \in Offers
      BY <2>1
  <2> QED BY <2>1, <2>2 DEF Packets, Offers
<1>4. Rising(inside, given) /\ Rising(images, given)
      /\ (\A i \in 1..Len(images), j \in 1..Len(inside) : images[i].pts < inside[j].pts)
      /\ (images = <<>> => needKey /\ Keyed(inside))
    BY DEF EncoderInv
<1> HIDE DEF w
<1>5. Rising(w, given + 1)
  <2>1. \A i \in 1..Len(w) : i = Len(inside) + 1 \/ i \in 1..Len(inside)
      BY <1>2, <1>3
  <2>2. \A i \in 1..Len(w) : w[i].pts <= given + 1
      BY <2>1, <1>2, <1>3, <1>4 DEF Rising
  <2>3. ASSUME NEW i \in 1..Len(w), NEW j \in 1..Len(w), i < j PROVE w[i].pts < w[j].pts
    <3>1. i \in 1..Len(inside)
        BY <1>2, <1>3, <2>3
    <3>2. CASE j = Len(inside) + 1
        BY <3>1, <3>2, <1>2, <1>3, <1>4 DEF Rising
    <3>3. CASE j \in 1..Len(inside)
        BY <3>1, <3>3, <2>3, <1>2, <1>4 DEF Rising
    <3> QED BY <3>2, <3>3, <2>1
  <2> QED BY <2>2, <2>3 DEF Rising
<1>6. \A i \in 1..Len(images), j \in 1..Len(w) : images[i].pts < w[j].pts
  <2> SUFFICES ASSUME NEW i \in 1..Len(images), NEW j \in 1..Len(w) PROVE images[i].pts < w[j].pts
      OBVIOUS
  <2>1. j = Len(inside) + 1 \/ j \in 1..Len(inside)
      BY <1>2, <1>3
  <2>2. images[i].pts <= given /\ images[i].pts \in Nat
      BY <1>3, <1>4 DEF Rising
  <2>3. CASE j = Len(inside) + 1
      BY <2>2, <2>3, <1>2, <1>3
  <2>4. CASE j \in 1..Len(inside)
      BY <2>4, <1>2, <1>4
  <2> QED BY <2>1, <2>3, <2>4
<1>7. images = <<>> => Keyed(w)
  <2> SUFFICES ASSUME images = <<>>, NEW j \in 1..Len(w) PROVE w[j].key
      BY DEF Keyed
  <2>1. CASE j = Len(inside) + 1
    <3>1. w[j] = m /\ m.key = key /\ key
        BY <2>1, <1>2, <1>4
    <3> QED BY <3>1
  <2>2. CASE j \in 1..Len(inside)
    <3>1. inside[j].key /\ w[j] = inside[j]
        BY <2>2, <1>2, <1>4 DEF Keyed
    <3> QED BY <3>1
  <2> QED BY <2>1, <2>2, <1>2, <1>3
<1> QED BY <1>2, <1>3, <1>5, <1>6, <1>7 DEF w

LEMMA EncoderStep ==
    ASSUME EncoderInv, [EncodeNext]_encodeVars
    PROVE  EncoderInv'
<1>0. /\ EncoderTypeOK
      /\ \A p \in pending : p.stamps = p.pts
      /\ Rising(inside, given) /\ Rising(images, given)
      /\ \A i \in 1..Len(images), j \in 1..Len(inside) : images[i].pts < inside[j].pts
      /\ images = <<>> => needKey /\ Keyed(inside)
      /\ ImagesAreTrue
    BY DEF EncoderInv
<1>1. CASE InitEncode
    BY <1>0, <1>1 DEF EncoderInv, InitEncode, EncoderTypeOK, Rising, Keyed, ImagesAreTrue
<1>2. CASE Release
  <2>1. EncoderTypeOK' /\ inside' = <<>> /\ pending' = {} /\ needKey' /\ UNCHANGED <<given, images>>
      BY <1>0, <1>2 DEF Release, EncoderTypeOK
  <2> QED BY <1>0, <2>1 DEF EncoderInv, Rising, Keyed, ImagesAreTrue
<1>3. CASE SetRates
  <2>1. EncoderTypeOK' /\ UNCHANGED <<needKey, given, inside, pending, images>>
      BY <1>0, <1>3 DEF SetRates, EncoderTypeOK
  <2> QED BY <1>0, <2>1 DEF EncoderInv, Rising, Keyed, ImagesAreTrue
<1>4. CASE EncodeFrame
  <2>1. PICK key \in {needKey, TRUE} : \E out \in 0..Len(WithFrame(key)) :
         /\ inside' = SubSeq(WithFrame(key), out + 1, Len(WithFrame(key)))
         /\ EmitPackets(SubSeq(WithFrame(key), 1, out),
                        pending \cup {[pts |-> Submitted, stamps |-> Submitted]})
      BY <1>4 DEF EncodeFrame
  <2>2. PICK out \in 0..Len(WithFrame(key)) :
         /\ inside' = SubSeq(WithFrame(key), out + 1, Len(WithFrame(key)))
         /\ EmitPackets(SubSeq(WithFrame(key), 1, out),
                        pending \cup {[pts |-> Submitted, stamps |-> Submitted]})
      BY <2>1
  <2>3. state = "open" /\ given' = given + 1 /\ opens' = opens
      BY <1>4 DEF EncodeFrame, Submitted
  <2>4. key \in BOOLEAN /\ (needKey => key)
      BY <1>0, <2>1 DEF EncoderTypeOK
  <2> DEFINE w == WithFrame(key)
             first == SubSeq(w, 1, out)
             known == pending \cup {[pts |-> given + 1, stamps |-> given + 1]}
  <2>5. /\ w \in Seq(Packets) /\ Len(w) \in Nat
        /\ Rising(w, given + 1)
        /\ \A i \in 1..Len(images), j \in 1..Len(w) : images[i].pts < w[j].pts
        /\ images = <<>> => Keyed(w)
      BY <2>4, WithFrameRises
  <2>6. inside' = SubSeq(w, out + 1, Len(w)) /\ EmitPackets(first, known) /\ out \in 0..Len(w)
      BY <2>2 DEF Submitted
  <2> HIDE DEF w
  <2>7. /\ first \in Seq(Packets) /\ Len(first) = out
        /\ \A i \in 1..out : first[i] = w[i] /\ i \in 1..Len(w)
      BY <2>5, <2>6
  <2>8. /\ inside' \in Seq(Packets) /\ Len(inside') = Len(w) - out
        /\ \A i \in 1..Len(inside') : inside'[i] = w[out + i] /\ out + i \in 1..Len(w)
      BY <2>5, <2>6
  <2>9. known \subseteq Descriptions /\ \A p \in known : p.stamps = p.pts
      BY <1>0 DEF EncoderTypeOK, Descriptions
  <2> HIDE DEF first, known
  <2>10. PICK offered \in 0..Len(first) :
           /\ \A i \in 1..offered : Describing(known, first[i].pts) # {}
           /\ images' = images \o [i \in 1..offered |-> Image(known, first[i])]
           /\ pending' \subseteq known
           /\ needKey' = (needKey /\ \A i \in 1..offered : ~first[i].key)
           /\ state' \in {"latched", state}
      BY <2>6 DEF EmitPackets
  <2>10a. offered \in Nat /\ offered <= out
      BY <2>6, <2>7, <2>10, <2>5
  <2> DEFINE offers == [i \in 1..offered |-> Image(known, first[i])]
  <2>11. ASSUME NEW i \in 1..offered
         PROVE  /\ offers[i].pts = w[i].pts /\ offers[i].key = w[i].key /\ offers[i].stamps = w[i].pts
                /\ offers[i] \in Offers /\ i \in 1..Len(w)
    <3>1. i \in 1..out /\ first[i] = w[i] /\ i \in 1..Len(w) /\ w[i] \in Packets
        BY <2>5, <2>6, <2>7, <2>10
    <3>2. Describing(known, w[i].pts) # {}
        BY <2>10, <3>1
    <3> DEFINE p == CHOOSE p \in Describing(known, w[i].pts) : TRUE
    <3>3. p \in Describing(known, w[i].pts)
        BY <3>2
    <3>4. p.stamps = w[i].pts
        BY <3>3, <2>9 DEF Describing
    <3>5. offers[i] = Image(known, w[i])
        BY <3>1
    <3> HIDE DEF offers
    <3>6. offers[i] = [pts |-> w[i].pts, key |-> w[i].key, stamps |-> w[i].pts]
        BY <3>4, <3>5 DEF Image
    <3>7. offers[i].key = w[i].key
        BY <3>6
    <3>8. offers[i].pts = w[i].pts /\ offers[i].stamps = w[i].pts
        BY <3>6
    <3> QED BY <3>1, <3>6, <3>7, <3>8 DEF Packets, Offers
  <2>12. offers \in Seq(Offers) /\ Len(offers) = offered
    <3> HIDE DEF offers
    <3>1. offers = [i \in 1..offered |-> offers[i]]
        BY DEF offers
    <3>2. \A i \in 1..offered : offers[i] \in Offers
        BY <2>11
    <3>3. offers \in [1..offered -> Offers]
        BY <3>1, <3>2
    <3> QED BY <3>3, <2>10a
  <2>13. images \in Seq(Offers) /\ images' = images \o offers
      BY <1>0, <2>10 DEF EncoderTypeOK
  <2> HIDE DEF offers
  <2>14. Described(offers, w, offered)
      BY <2>11 DEF Described
  <2>15. offered \in 0..Len(w) /\ given \in Nat
      BY <1>0, <2>10a, <2>6, <2>5 DEF EncoderTypeOK
  <2>16. Stamped(images) /\ BeginsWithKey(images)
      BY <1>0, <2>13 DEF ImagesAreTrue, Stamped, BeginsWithKey
  <2>17. /\ Rising(images \o offers, given + 1)
         /\ Stamped(images \o offers) /\ BeginsWithKey(images \o offers)
         /\ \A i \in 1..Len(images \o offers), j \in 1..Len(w) : offered < j => (images \o offers)[i].pts < w[j].pts
      BY <1>0, <2>5, <2>12, <2>13, <2>14, <2>15, <2>16, OfferedRises
  <2>18. images' \in Seq(Offers) /\ Len(images') = Len(images) + offered
      BY <2>12, <2>13, Joined
  <2>19. \A i \in 1..Len(images'), j \in 1..Len(inside') : images'[i].pts < inside'[j].pts
    <3> SUFFICES ASSUME NEW i \in 1..Len(images'), NEW j \in 1..Len(inside') PROVE images'[i].pts < inside'[j].pts
        OBVIOUS
    <3>0. inside'[j] = w[out + j] /\ out + j \in 1..Len(w)
        BY <2>8
    <3>0a. j \in Nat \ {0} /\ out \in Nat
        BY <2>6
    <3>1. inside'[j] = w[out + j] /\ out + j \in 1..Len(w) /\ offered < out + j
        BY <3>0, <3>0a, <2>10a
    <3> QED BY <3>1, <2>13, <2>17
  <2>20. Rising(inside', given + 1)
    <3>1. \A i \in 1..Len(inside') : inside'[i].pts <= given + 1
        BY <2>8, <2>5 DEF Rising
    <3>2. ASSUME NEW i \in 1..Len(inside'), NEW j \in 1..Len(inside'), i < j
          PROVE  inside'[i].pts < inside'[j].pts
      <4>1. out + i < out + j
          BY <3>2, <2>6, <2>8, <2>5
      <4> QED BY <4>1, <2>8, <2>5 DEF Rising
    <3> QED BY <3>1, <3>2 DEF Rising
  <2>22. images' = <<>> => needKey' /\ Keyed(inside')
    <3> SUFFICES ASSUME images' = <<>> PROVE needKey' /\ Keyed(inside')
        OBVIOUS
    <3>1. Len(images) = 0 /\ offered = 0
        BY <2>10a, <2>13, <2>18
    <3>2. images = <<>>
        BY <3>1, <2>13
    <3>3. \A i \in 1..offered : ~first[i].key
        BY <3>1
    <3>4. needKey /\ needKey' = (needKey /\ \A i \in 1..offered : ~first[i].key)
        BY <1>0, <2>10, <3>2
    <3>5. needKey'
        BY <3>3, <3>4
    <3>6. Keyed(w)
        BY <3>2, <2>5
    <3>7. Keyed(inside')
        BY <3>6, <2>8 DEF Keyed
    <3> QED BY <3>5, <3>7
  <2>23. EncoderTypeOK'
      BY <1>0, <2>3, <2>8, <2>9, <2>10, <2>18 DEF EncoderTypeOK
  <2>24. Rising(images', given + 1) /\ ImagesAreTrue'
    <3>1. Rising(images', given + 1) /\ Stamped(images') /\ BeginsWithKey(images')
        BY <2>13, <2>17
    <3>2. DOMAIN images' = 1..Len(images')
        BY <2>18
    <3> QED BY <3>1, <3>2 DEF Rising, ImagesAreTrue, Stamped, BeginsWithKey
  <2>25. \A p \in pending' : p.stamps = p.pts
      BY <2>9, <2>10
  <2> QED BY <2>3, <2>19, <2>20, <2>22, <2>23, <2>24, <2>25 DEF EncoderInv
<1>5. CASE EncodeFails
  <2>1. PICK now \in {inside, WithFrame(needKey)} : \E lost \in 0..Len(now) :
          inside' = SubSeq(now, lost + 1, Len(now))
      BY <1>5 DEF EncodeFails
  <2>2. PICK lost \in 0..Len(now) : inside' = SubSeq(now, lost + 1, Len(now))
      BY <2>1
  <2>3. given' = given + 1 /\ pending' = {} /\ UNCHANGED <<opens, state, needKey, images>>
      BY <1>5 DEF EncodeFails, Submitted
  <2>4. needKey \in BOOLEAN /\ given \in Nat /\ inside \in Seq(Packets) /\ images \in Seq(Offers)
      BY <1>0 DEF EncoderTypeOK
  <2>5. /\ now \in Seq(Packets) /\ Len(now) \in Nat
        /\ Rising(now, given + 1)
        /\ \A i \in 1..Len(images), j \in 1..Len(now) : images[i].pts < now[j].pts
        /\ images = <<>> => Keyed(now)
    <3>1. CASE now = WithFrame(needKey)
        BY <3>1, <2>4, WithFrameRises
    <3>2. CASE now = inside
      <4>1. \A i \in 1..Len(inside) : inside[i] \in Packets
          BY <2>4
      <4> QED BY <1>0, <3>2, <2>4, <4>1 DEF Rising, Packets
    <3> QED BY <3>1, <3>2
  <2>6. /\ inside' \in Seq(Packets) /\ Len(inside') = Len(now) - lost /\ lost \in Nat
        /\ \A i \in 1..Len(inside') : inside'[i] = now[lost + i] /\ lost + i \in 1..Len(now)
      BY <2>5, <2>2
  <2>7. Rising(inside', given + 1)
    <3>1. \A i \in 1..Len(inside') : inside'[i].pts <= given + 1
        BY <2>6, <2>5 DEF Rising
    <3>2. ASSUME NEW i \in 1..Len(inside'), NEW j \in 1..Len(inside'), i < j
          PROVE  inside'[i].pts < inside'[j].pts
      <4>1. lost + i < lost + j
          BY <3>2, <2>6
      <4> QED BY <4>1, <2>6, <2>5 DEF Rising
    <3> QED BY <3>1, <3>2 DEF Rising
  <2>8. Rising(images, given + 1)
    <3>1. \A i \in 1..Len(images) : images[i] \in Offers
        BY <2>4
    <3> QED BY <1>0, <3>1, <2>4 DEF Rising, Offers
  <2>9. EncoderTypeOK'
      BY <1>0, <2>3, <2>4, <2>6 DEF EncoderTypeOK
  <2>10. ImagesAreTrue'
      BY <1>0, <2>3 DEF ImagesAreTrue
  <2>11. \A i \in 1..Len(images), j \in 1..Len(inside') : images[i].pts < inside'[j].pts
      BY <2>5, <2>6
  <2>12. images = <<>> => needKey /\ Keyed(inside')
    <3>1. Keyed(now) => Keyed(inside')
        BY <2>6 DEF Keyed
    <3> QED BY <1>0, <2>5, <3>1
  <2> QED BY <2>3, <2>7, <2>8, <2>9, <2>10, <2>11, <2>12 DEF EncoderInv
<1>6. CASE UNCHANGED encodeVars
  <2>1. UNCHANGED <<opens, state, needKey, given, inside, pending, images>>
      BY <1>6 DEF encodeVars
  <2> QED BY <1>0, <2>1 DEF EncoderInv, EncoderTypeOK, Rising, ImagesAreTrue
<1> QED BY <1>1, <1>2, <1>3, <1>4, <1>5, <1>6 DEF EncodeNext

(* ImagesAreTrue, of KWebRtcH264Encoder: whatever number of images the codec *)
(* keeps back and whichever call fails, the images it offers begin with a    *)
(* key frame, go forward and carry the time stamps of their own frames.      *)
THEOREM ImagesCorrect == EncodeSpec => []ImagesAreTrue
<1>1. EncoderInv => ImagesAreTrue
    BY DEF EncoderInv
<1> QED BY <1>1, EncoderInit, EncoderStep, PTL DEF EncodeSpec

------------------------------------------------------------------------------
(***************************************************************************)
(* The threads of the controlled computer.  The line begins at the picture *)
(* that was encoded last and goes through the encoder, WebRTC's frame, the *)
(* latest, the posted events and the sink's last frame to the worker and   *)
(* the desktop.                                                            *)
(***************************************************************************)
PostedFrames == [kind : {"native", "cpu"}, buffer : Nat, picture : Nat, tag : Nat, from : Nat]
CapturedFrames == [kind : {"native", "bgra"}, buffer : Nat, picture : Nat, tag : Nat, from : Nat]
HostEvents == [what : {"frame"}, frame : PostedFrames] \cup [what : {"flush", "finished"}, frame : {NoFrame}]
Paths == [generation : Nat, decision : {"cpu", "undecided", "gpu", "failed"}, separate : BOOLEAN]
Workers == [at : {"none", "starting", "looping", "waiting", "captured", "ended"}, running : BOOLEAN,
            source : Nat, native : BOOLEAN, separate : BOOLEAN, clean : Nat, count : Nat,
            frame : CapturedFrames \cup {NoFrame}]
Services == [generation : Nat, accepts : BOOLEAN, latest : PostedFrames \cup {NoFrame},
             flushing : BOOLEAN, starting : BOOLEAN, starts : Nat]
Encoders == [at : {"closed", "idle", "enabling", "encoding"}, generation : Nat,
             queue : PostedFrames \cup {NoFrame}, frame : PostedFrames \cup {NoFrame},
             gpu : BOOLEAN, tried : BOOLEAN, used : BOOLEAN, inits : Nat, shown : Nat]

HostTypeOK ==
    /\ path \in Paths
    /\ desktop \in Nat
    /\ worker \in Workers
    /\ pools \in [native : SUBSET Nat, cpu : SUBSET Nat]
    /\ IsFiniteSet(pools.native) /\ IsFiniteSet(pools.cpu)
    /\ sink \in [last : PostedFrames \cup {NoFrame}, repeats : Nat]
    /\ service \in Services
    /\ posted \in Seq(HostEvents)
    /\ encoder \in Encoders

(* The events of the session thread.                                         *)
EventFrames(q) == {q[i].frame : i \in 1..Len(q)}
OnlyFlushes(q) == \A i \in 1..Len(q) : q[i].what = "flush"
Unfinished(q) == \A i \in 1..Len(q) : q[i].what # "finished"
FinishesLast(q) == \A i, j \in 1..Len(q) : i < j /\ q[i].what = "finished" => q[j].what = "flush"
FramesOf(q, generation) ==
    \A i \in 1..Len(q) : q[i].what = "frame" => q[i].frame.from = generation

(* What a worker holds, and what it has left behind.                         *)
WorkerOK ==
    /\ worker.at = "captured" => worker.frame # NoFrame /\ worker.frame.from = worker.source
    /\ worker.at # "captured" => worker.frame = NoFrame \/ worker.frame.kind = "native"
    /\ worker.at \in {"none", "starting"} => OnlyFlushes(posted)
    /\ worker.at \in {"none", "starting", "ended"} => sink.last = NoFrame
    /\ worker.at # "ended" => Unfinished(posted)
    /\ FinishesLast(posted)

(* The session of the frames.                                                *)
SessionOK ==
    /\ encoder.generation = path.generation
    /\ worker.source <= path.generation
    /\ encoder.queue # NoFrame => encoder.queue.from = path.generation
    /\ encoder.frame # NoFrame => encoder.frame.from = path.generation
    /\ encoder.at \in {"closed", "idle"} => encoder.frame = NoFrame
    /\ encoder.at \in {"enabling", "encoding"} => encoder.frame # NoFrame
    /\ ~service.accepts => service.latest = NoFrame
    /\ service.accepts =>
         /\ worker.at # "none"
         /\ FramesOf(posted, path.generation)
         /\ service.latest # NoFrame => service.latest.from = path.generation
         /\ sink.last # NoFrame => sink.last.from = path.generation
         /\ worker.at \in {"looping", "waiting", "captured"} => worker.source = path.generation

(* The pictures grow from what was encoded up to the desktop.                *)
FramesInLine == InEvents \cup {sink.last, service.latest, encoder.queue, encoder.frame}
NoNewer(shown, frames, n) == shown <= n /\ \A f \in frames : f # NoFrame => f.picture <= n
UpTo(n) == NoNewer(encoder.shown, FramesInLine, n)

Below(e, n) == e.shown <= n /\ (e.frame # NoFrame => e.frame.picture <= n)
BelowQueue(e, n) == Below(e, n) /\ (e.queue # NoFrame => e.queue.picture <= n)
BelowLatest(e, l, n) == BelowQueue(e, n) /\ (l # NoFrame => l.picture <= n)
Climbs(e, l, q) ==
    /\ e.frame # NoFrame => e.shown <= e.frame.picture
    /\ e.queue # NoFrame => Below(e, e.queue.picture)
    /\ l # NoFrame => BelowQueue(e, l.picture)
    /\ \A i \in 1..Len(q) : q[i].what = "frame" => BelowLatest(e, l, q[i].frame.picture)
    /\ \A i, j \in 1..Len(q) : i < j /\ q[i].what = "frame" /\ q[j].what = "frame"
          => q[i].frame.picture <= q[j].frame.picture

HostLineOK ==
    /\ Climbs(encoder, service.latest, posted)
    /\ sink.last # NoFrame => UpTo(sink.last.picture)
    /\ worker.at = "captured" => UpTo(worker.frame.picture) /\ worker.frame.picture <= desktop
    /\ UpTo(desktop)

(* Where the pointer is drawn into it, the clean copy is as new as any frame. *)
CleanOK ==
    /\ worker.separate => worker.at = "waiting"
    /\ worker.at = "starting" => worker.clean = 0
    /\ worker.at = "waiting" /\ path.generation = worker.source /\ path.separate => worker.separate
    /\ worker.clean # 0 =>
          /\ UpTo(worker.clean) /\ worker.clean <= desktop /\ worker.count > 0
          /\ worker.at = "captured" => worker.frame.picture <= worker.clean
          /\ path.generation = worker.source => ~path.separate
          /\ ~worker.separate

(* The buffers contain what the frames say.                                  *)
StoreOK ==
    /\ BuffersInUse \subseteq DOMAIN store
    /\ BuffersAreKept

HostInv == HostTypeOK /\ WorkerOK /\ SessionOK /\ HostLineOK /\ CleanOK /\ StoreOK

------------------------------------------------------------------------------
\* The session thread takes its next event.
LEMMA TailEvents ==
    ASSUME NEW q \in Seq(HostEvents), q # <<>>
    PROVE  /\ Tail(q) \in Seq(HostEvents) /\ Head(q) = q[1] /\ q[1] \in HostEvents
           /\ 1 \in 1..Len(q) /\ Len(Tail(q)) = Len(q) - 1
           /\ \A i \in 1..Len(Tail(q)) : i + 1 \in 1..Len(q) /\ Tail(q)[i] = q[i + 1]
           /\ FinishesLast(q) => FinishesLast(Tail(q))
           /\ FinishesLast(q) /\ q[1].what = "finished" => OnlyFlushes(Tail(q))
           /\ OnlyFlushes(q) => OnlyFlushes(Tail(q))
           /\ Unfinished(q) => Unfinished(Tail(q))
           /\ \A g : FramesOf(q, g) => FramesOf(Tail(q), g)
           /\ EventFrames(Tail(q)) \subseteq EventFrames(q) /\ q[1].frame \in EventFrames(q)
<1>1. /\ Tail(q) \in Seq(HostEvents) /\ Head(q) = q[1] /\ q[1] \in HostEvents
      /\ 1 \in 1..Len(q) /\ Len(Tail(q)) = Len(q) - 1
      /\ \A i \in 1..Len(Tail(q)) : i + 1 \in 1..Len(q) /\ Tail(q)[i] = q[i + 1]
    OBVIOUS
<1>2. FinishesLast(q) => FinishesLast(Tail(q))
  <2> SUFFICES ASSUME FinishesLast(q), NEW i \in 1..Len(Tail(q)), NEW j \in 1..Len(Tail(q)), i < j,
                      Tail(q)[i].what = "finished"
               PROVE  Tail(q)[j].what = "flush"
      BY DEF FinishesLast
  <2> QED BY <1>1 DEF FinishesLast
<1>3. FinishesLast(q) /\ q[1].what = "finished" => OnlyFlushes(Tail(q))
  <2> SUFFICES ASSUME FinishesLast(q), q[1].what = "finished", NEW j \in 1..Len(Tail(q))
               PROVE  Tail(q)[j].what = "flush"
      BY DEF OnlyFlushes
  <2>1. 1 < j + 1 /\ j + 1 \in 1..Len(q)
      BY <1>1
  <2> QED BY <1>1, <2>1 DEF FinishesLast
<1>4. /\ OnlyFlushes(q) => OnlyFlushes(Tail(q))
      /\ Unfinished(q) => Unfinished(Tail(q))
      /\ \A g : FramesOf(q, g) => FramesOf(Tail(q), g)
    BY <1>1 DEF OnlyFlushes, Unfinished, FramesOf
<1>5. EventFrames(Tail(q)) \subseteq EventFrames(q) /\ q[1].frame \in EventFrames(q)
    BY <1>1 DEF EventFrames
<1> QED BY <1>1, <1>2, <1>3, <1>4, <1>5

\* An event is posted.
LEMMA AppendEvents ==
    ASSUME NEW q \in Seq(HostEvents), NEW e \in HostEvents
    PROVE  /\ Append(q, e) \in Seq(HostEvents) /\ Len(q) \in Nat /\ Len(Append(q, e)) = Len(q) + 1
           /\ \A i \in 1..Len(q) : Append(q, e)[i] = q[i]
           /\ Append(q, e)[Len(q) + 1] = e
           /\ FinishesLast(q) /\ (e.what = "flush" \/ Unfinished(q)) => FinishesLast(Append(q, e))
           /\ OnlyFlushes(q) /\ e.what = "flush" => OnlyFlushes(Append(q, e))
           /\ Unfinished(q) /\ e.what # "finished" => Unfinished(Append(q, e))
           /\ \A g : FramesOf(q, g) /\ (e.what = "frame" => e.frame.from = g) => FramesOf(Append(q, e), g)
           /\ EventFrames(Append(q, e)) = EventFrames(q) \cup {e.frame}
<1> DEFINE r == Append(q, e)
           n == Len(q)
<1>1. /\ r \in Seq(HostEvents) /\ n \in Nat /\ Len(r) = n + 1
      /\ \A i \in 1..n : r[i] = q[i] /\ i \in 1..Len(r)
      /\ r[n + 1] = e /\ n + 1 \in 1..Len(r)
      /\ \A i \in 1..Len(r) : i \in 1..n \/ i = n + 1
    OBVIOUS
<1> HIDE DEF r, n
<1>2. ASSUME FinishesLast(q), e.what = "flush" \/ Unfinished(q) PROVE FinishesLast(r)
  <2> SUFFICES ASSUME NEW i \in 1..Len(r), NEW j \in 1..Len(r), i < j, r[i].what = "finished"
               PROVE  r[j].what = "flush"
      BY DEF FinishesLast
  <2>1. i \in 1..n
      BY <1>1
  <2>2. q[i].what = "finished" /\ i \in 1..Len(q)
      BY <1>1, <2>1 DEF n
  <2>3. CASE j \in 1..n
      BY <1>1, <1>2, <2>2, <2>3 DEF FinishesLast, n
  <2>4. CASE j = n + 1
      BY <1>1, <1>2, <2>2, <2>4 DEF Unfinished
  <2> QED BY <1>1, <2>3, <2>4
<1>3. OnlyFlushes(q) /\ e.what = "flush" => OnlyFlushes(r)
    BY <1>1 DEF OnlyFlushes, n
<1>4. Unfinished(q) /\ e.what # "finished" => Unfinished(r)
    BY <1>1 DEF Unfinished, n
<1>5. \A g : FramesOf(q, g) /\ (e.what = "frame" => e.frame.from = g) => FramesOf(r, g)
    BY <1>1 DEF FramesOf, n
<1>6. EventFrames(r) = EventFrames(q) \cup {e.frame}
  <2>1. EventFrames(r) \subseteq EventFrames(q) \cup {e.frame}
      BY <1>1 DEF EventFrames, n
  <2>2. EventFrames(q) \cup {e.frame} \subseteq EventFrames(r)
      BY <1>1 DEF EventFrames, n
  <2> QED BY <2>1, <2>2
<1> QED BY <1>1, <1>2, <1>3, <1>4, <1>5, <1>6 DEF r, n

\* An event is taken and one posted: EnqueueWebRtcFrame.
LEMMA JoinedEvents ==
    ASSUME NEW q \in Seq(HostEvents), NEW e \in HostEvents
    PROVE  q \o <<>> = q /\ q \o <<e>> = Append(q, e)
OBVIOUS

\* A new buffer is one that nothing refers to.
LEMMA NewBufferIsFree ==
    ASSUME HostTypeOK
    PROVE  NewBuffer \in Nat /\ NewBuffer \notin BuffersInUse /\ IsFiniteSet(BuffersInUse)
<1>1. IsFiniteSet(InEvents)
  <2> DEFINE n == Len(posted)
             f == [i \in 1..n |-> posted[i].frame]
  <2>1. n \in Nat
      BY DEF HostTypeOK
  <2>2. IsFiniteSet(1..n)
      BY <2>1, FS_Interval
  <2>3. f \in Surjection(1..n, InEvents)
      BY DEF Surjection, InEvents
  <2> HIDE DEF f, n
  <2> QED BY <2>2, <2>3, FS_Surjection
<1>2. IsFiniteSet(Frames)
  <2>1. /\ IsFiniteSet({worker.frame}) /\ IsFiniteSet({sink.last}) /\ IsFiniteSet({service.latest})
        /\ IsFiniteSet({encoder.queue}) /\ IsFiniteSet({encoder.frame})
      BY FS_Singleton
  <2>2. IsFiniteSet({worker.frame} \cup {sink.last})
      BY <2>1, FS_Union
  <2>3. IsFiniteSet({service.latest} \cup {encoder.queue})
      BY <2>1, FS_Union
  <2>4. IsFiniteSet(({service.latest} \cup {encoder.queue}) \cup {encoder.frame})
      BY <2>1, <2>3, FS_Union
  <2>5. IsFiniteSet(({worker.frame} \cup {sink.last}) \cup (({service.latest} \cup {encoder.queue}) \cup {encoder.frame}))
      BY <2>2, <2>4, FS_Union
  <2>6. IsFiniteSet(InEvents \cup (({worker.frame} \cup {sink.last}) \cup (({service.latest} \cup {encoder.queue}) \cup {encoder.frame})))
      BY <1>1, <2>5, FS_Union
  <2>7. Frames = InEvents \cup (({worker.frame} \cup {sink.last}) \cup (({service.latest} \cup {encoder.queue}) \cup {encoder.frame}))
      BY DEF Frames
  <2> QED BY <2>6, <2>7
<1>3. IsFiniteSet(Held)
  <2> DEFINE S == {g \in Frames : g.kind \in {"native", "cpu"}}
             f == [g \in S |-> g.buffer]
  <2>1. IsFiniteSet(S)
      BY <1>2, FS_Subset
  <2>2. f \in Surjection(S, Held)
      BY DEF Surjection, Held, HeldIn
  <2> HIDE DEF f, S
  <2> QED BY <2>1, <2>2, FS_Surjection
<1>4. IsFiniteSet(pools.native) /\ IsFiniteSet(pools.cpu)
    BY DEF HostTypeOK
<1>5. IsFiniteSet(Held \cup pools.native)
    BY <1>3, <1>4, FS_Union
<1>6. IsFiniteSet(BuffersInUse)
    BY <1>4, <1>5, FS_Union DEF BuffersInUse
<1> DEFINE c == Cardinality(BuffersInUse)
           T == 1..c + 1
<1>7. c \in Nat
    BY <1>6, FS_CardinalityType
<1>8. IsFiniteSet(T) /\ Cardinality(T) = c + 1
  <2> HIDE DEF c
  <2>1. 1 \in Int /\ c + 1 \in Int /\ ~(1 > c + 1)
      BY <1>7
  <2>2. IsFiniteSet(T) /\ Cardinality(T) = (c + 1) - 1 + 1
      BY <2>1, FS_Interval
  <2> QED BY <2>2, <1>7
<1>9. \E b \in T : b \notin BuffersInUse
  <2> SUFFICES ASSUME T \subseteq BuffersInUse PROVE FALSE
      OBVIOUS
  <2>1. Cardinality(T) <= c
      BY <1>6, FS_Subset
  <2> QED BY <2>1, <1>7, <1>8
<1>10. NewBuffer \in T /\ NewBuffer \notin BuffersInUse
    BY <1>9 DEF NewBuffer
<1> QED BY <1>6, <1>7, <1>10

------------------------------------------------------------------------------
\* A pool gives a buffer that those it looked at do not hold.
LEMMA AcquiredIsFree ==
    ASSUME HostTypeOK, NEW pool \in SUBSET (pools.native \cup pools.cpu), NEW frames \in SUBSET Frames,
           NEW b \in Acquired(pool, frames)
    PROVE  b \in Nat /\ b \notin HeldIn(frames)
<1>1. pool \subseteq Nat
    BY DEF HostTypeOK
<1>2. HeldIn(frames) \subseteq BuffersInUse
    BY DEF HeldIn, BuffersInUse, Held
<1> DEFINE released == pool \ HeldIn(frames)
<1>3. CASE released # {}
  <2>1. b \in released
      BY <1>3 DEF Acquired
  <2> QED BY <2>1, <1>1
<1>4. CASE released = {}
  <2>1. b = NewBuffer
      BY <1>4 DEF Acquired
  <2> QED BY <2>1, <1>2, NewBufferIsFree
<1> QED BY <1>3, <1>4

\* No buffer is filled: the frames that are left show what they showed.
LEMMA StoreStays ==
    ASSUME StoreOK, store' = store,
           pools'.native \subseteq pools.native, pools'.cpu \subseteq pools.cpu,
           \A f \in Frames' : f \in Frames \/ f.kind \notin {"native", "cpu"}
    PROVE  StoreOK'
<1>1. \A f \in Frames' : f.kind \in {"native", "cpu"} => f \in Frames
    OBVIOUS
<1>2. BuffersAreKept'
    BY <1>1 DEF StoreOK, BuffersAreKept
<1>3. Held' \subseteq Held
    BY <1>1 DEF Held, HeldIn
<1>4. BuffersInUse' \subseteq BuffersInUse
    BY <1>3 DEF BuffersInUse
<1> QED BY <1>2, <1>4 DEF StoreOK

\* A buffer is filled that no other frame is left in.
LEMMA StoreRefilled ==
    ASSUME StoreOK, NEW x, NEW b, NEW n, x.buffer = b, x.picture = n,
           store' = Refilled(b, n),
           pools'.native \subseteq pools.native \cup {b}, pools'.cpu \subseteq pools.cpu \cup {b},
           \A f \in Frames' : \/ f = x
                              \/ f \in Frames /\ (f.kind \in {"native", "cpu"} => f.buffer # b)
                              \/ f.kind \notin {"native", "cpu"}
    PROVE  StoreOK'
<1>1. DOMAIN store' = BuffersInUse \cup {b} /\ store'[b] = n
      /\ \A c \in BuffersInUse : c # b => store'[c] = store[c]
    BY DEF Refilled
<1>2. ASSUME NEW f \in Frames', f.kind \in {"native", "cpu"}
      PROVE  store'[f.buffer] = f.picture /\ f.buffer \in BuffersInUse \cup {b}
  <2>1. CASE f = x
      BY <1>1, <2>1
  <2>2. CASE f \in Frames /\ f.buffer # b
    <3>1. f.buffer \in BuffersInUse
        BY <1>2, <2>2 DEF BuffersInUse, Held, HeldIn
    <3>2. store[f.buffer] = f.picture
        BY <1>2, <2>2 DEF StoreOK, BuffersAreKept
    <3> QED BY <1>1, <2>2, <3>1, <3>2
  <2> QED BY <1>2, <2>1, <2>2
<1>3. Held' \subseteq BuffersInUse \cup {b}
    BY <1>2 DEF Held, HeldIn
<1>4. BuffersInUse' \subseteq BuffersInUse \cup {b}
    BY <1>3 DEF BuffersInUse
<1> QED BY <1>1, <1>2, <1>4 DEF StoreOK, BuffersAreKept

------------------------------------------------------------------------------
\* The line without some of its frames.
LEMMA ClimbsWithout ==
    ASSUME NEW e \in Encoders, NEW d \in Encoders, NEW l, NEW k, NEW q \in Seq(HostEvents),
           Climbs(e, l, q), d.shown = e.shown, d.frame \in {e.frame, NoFrame},
           d.queue \in {e.queue, NoFrame}, k \in {l, NoFrame}
    PROVE  Climbs(d, k, q)
<1>1. \A n : Below(e, n) => Below(d, n)
    BY DEF Below
<1>2. \A n : BelowQueue(e, n) => BelowQueue(d, n)
    BY <1>1 DEF BelowQueue
<1>3. \A n : BelowLatest(e, l, n) => BelowLatest(d, k, n)
    BY <1>2 DEF BelowLatest
<1>4. d.frame # NoFrame => d.shown <= d.frame.picture
    BY DEF Climbs
<1>5. d.queue # NoFrame => Below(d, d.queue.picture)
    BY <1>1 DEF Climbs
<1>6. k # NoFrame => BelowQueue(d, k.picture)
    BY <1>2 DEF Climbs
<1> QED BY <1>3, <1>4, <1>5, <1>6 DEF Climbs

LEMMA ClimbsTail ==
    ASSUME NEW e, NEW l, NEW q \in Seq(HostEvents), Climbs(e, l, q), q # <<>>
    PROVE  Climbs(e, l, Tail(q))
<1>1. \A i \in 1..Len(Tail(q)) : i + 1 \in 1..Len(q) /\ Tail(q)[i] = q[i + 1]
    BY TailEvents
<1>2. \A i, j \in 1..Len(Tail(q)) : i < j => i + 1 < j + 1
    BY TailEvents
<1> QED BY <1>1, <1>2 DEF Climbs

\* An event behind the line that is no frame, or one that is not older.
LEMMA ClimbsAppend ==
    ASSUME NEW e, NEW l, NEW q \in Seq(HostEvents), Climbs(e, l, q), NEW v \in HostEvents,
           v.what = "frame" => NoNewer(e.shown, EventFrames(q) \cup {l, e.queue, e.frame}, v.frame.picture)
    PROVE  Climbs(e, l, Append(q, v))
<1> DEFINE r == Append(q, v)
           n == Len(q)
<1>1. /\ n \in Nat /\ Len(r) = n + 1 /\ r[n + 1] = v
      /\ \A i \in 1..n : r[i] = q[i]
      /\ \A i \in 1..Len(r) : i \in 1..n \/ i = n + 1
    BY AppendEvents
<1>2. v.what = "frame" => BelowLatest(e, l, v.frame.picture)
    BY DEF NoNewer, BelowLatest, BelowQueue, Below
<1>3. v.what = "frame" => \A i \in 1..n : q[i].what = "frame" => q[i].frame.picture <= v.frame.picture
  <2> SUFFICES ASSUME v.what = "frame", NEW i \in 1..n, q[i].what = "frame"
               PROVE  q[i].frame.picture <= v.frame.picture
      OBVIOUS
  <2>1. q[i].frame \in EventFrames(q)
      BY DEF EventFrames
  <2>2. q[i].frame # NoFrame
    <3>1. q[i] \in HostEvents
        OBVIOUS
    <3> QED BY <3>1 DEF HostEvents, PostedFrames, NoFrame
  <2> QED BY <2>1, <2>2 DEF NoNewer
<1> HIDE DEF r
<1>4. \A i \in 1..Len(r) : r[i].what = "frame" => BelowLatest(e, l, r[i].frame.picture)
    BY <1>1, <1>2 DEF Climbs
<1>5. ASSUME NEW i \in 1..Len(r), NEW j \in 1..Len(r), i < j, r[i].what = "frame", r[j].what = "frame"
      PROVE  r[i].frame.picture <= r[j].frame.picture
  <2>1. i \in 1..n /\ r[i] = q[i]
      BY <1>1, <1>5
  <2>2. CASE j \in 1..n
      BY <1>1, <1>5, <2>1, <2>2 DEF Climbs
  <2>3. CASE j = n + 1
      BY <1>1, <1>3, <1>5, <2>1, <2>3
  <2> QED BY <1>1, <2>2, <2>3
<1> QED BY <1>4, <1>5 DEF Climbs, r

\* EnqueueWebRtcFrame: the next of the line becomes the latest.
LEMMA ClimbsEnqueued ==
    ASSUME NEW e, NEW l, NEW q \in Seq(HostEvents), Climbs(e, l, q), q # <<>>, q[1].what = "frame"
    PROVE  Climbs(e, q[1].frame, Tail(q))
<1>1. /\ 1 \in 1..Len(q)
      /\ \A i \in 1..Len(Tail(q)) : i + 1 \in 1..Len(q) /\ Tail(q)[i] = q[i + 1] /\ 1 < i + 1
      /\ \A i, j \in 1..Len(Tail(q)) : i < j => i + 1 < j + 1
    BY TailEvents
<1>2. BelowQueue(e, q[1].frame.picture)
    BY <1>1 DEF Climbs, BelowLatest
<1>3. ASSUME NEW i \in 1..Len(Tail(q)), Tail(q)[i].what = "frame"
      PROVE  BelowLatest(e, q[1].frame, Tail(q)[i].frame.picture)
  <2>1. BelowQueue(e, Tail(q)[i].frame.picture)
      BY <1>1, <1>3 DEF Climbs, BelowLatest
  <2>2. q[1].frame.picture <= Tail(q)[i].frame.picture
      BY <1>1, <1>3 DEF Climbs
  <2> QED BY <2>1, <2>2 DEF BelowLatest
<1>4. Climbs(e, l, Tail(q))
    BY ClimbsTail
<1> QED BY <1>2, <1>3, <1>4 DEF Climbs

\* PushFrame: the latest becomes the one WebRTC keeps.
LEMMA ClimbsPushed ==
    ASSUME NEW e, NEW d, NEW l, NEW q, Climbs(e, l, q), l # NoFrame,
           d.shown = e.shown, d.frame = e.frame, d.queue = l
    PROVE  Climbs(d, NoFrame, q)
<1>1. \A n : BelowLatest(e, l, n) => BelowLatest(d, NoFrame, n)
    BY DEF BelowLatest, BelowQueue, Below
<1>2. Below(d, l.picture)
    BY DEF Climbs, BelowQueue, Below
<1> QED BY <1>1, <1>2 DEF Climbs

\* TakeFrame: it is the encoder's.
LEMMA ClimbsTaken ==
    ASSUME NEW e, NEW d, NEW l, NEW q, Climbs(e, l, q), e.queue # NoFrame,
           d.shown = e.shown, d.frame = e.queue, d.queue = NoFrame
    PROVE  Climbs(d, l, q)
<1>1. \A n : BelowQueue(e, n) => BelowQueue(d, n)
    BY DEF BelowQueue, Below
<1>2. \A n : BelowLatest(e, l, n) => BelowLatest(d, l, n)
    BY <1>1 DEF BelowLatest
<1>3. d.frame # NoFrame => d.shown <= d.frame.picture
    BY DEF Climbs, Below
<1> QED BY <1>1, <1>2, <1>3 DEF Climbs

\* HostEncode: it is shown.
LEMMA ClimbsShown ==
    ASSUME NEW e, NEW d, NEW l, NEW q, Climbs(e, l, q), e.frame # NoFrame,
           d.shown = e.frame.picture, d.frame = NoFrame, d.queue = e.queue
    PROVE  Climbs(d, l, q)
<1>1. \A n : Below(e, n) => Below(d, n)
    BY DEF Below
<1>2. \A n : BelowQueue(e, n) => BelowQueue(d, n)
    BY <1>1 DEF BelowQueue
<1>3. \A n : BelowLatest(e, l, n) => BelowLatest(d, l, n)
    BY <1>2 DEF BelowLatest
<1> QED BY <1>1, <1>2, <1>3 DEF Climbs

------------------------------------------------------------------------------
LEMMA HostParts ==
    ASSUME HostInv
    PROVE  HostTypeOK /\ WorkerOK /\ SessionOK /\ HostLineOK /\ CleanOK /\ StoreOK
BY DEF HostInv

\* What the frames of the line are at most, they stay.
LEMMA UpToStays ==
    ASSUME \/ encoder'.shown = encoder.shown
           \/ encoder.frame # NoFrame /\ encoder'.shown = encoder.frame.picture,
           \A f \in FramesInLine' : f \in FramesInLine \/ f = NoFrame
    PROVE  \A n : UpTo(n) => UpTo(n)'
<1>1. encoder.frame \in FramesInLine
    BY DEF FramesInLine
<1> QED BY <1>1 DEF UpTo, NoNewer

LEMMA PathSteps ==
    ASSUME path \in Paths, NEW g,
           NEW p \in {path, FallenBack(g), FailedPath(g), GpuSelected(g)}
    PROVE  p \in Paths /\ p.generation = path.generation /\ p.separate = path.separate
BY DEF Paths, FallenBack, FailedPath, GpuSelected

\* The encoder's thread.
LEMMA EncoderSteps ==
    ASSUME HostInv, UNCHANGED <<desktop, worker, pools, store, sink, service, posted>>,
           path' \in Paths, path'.generation = path.generation, path'.separate = path.separate,
           encoder' \in Encoders, encoder'.generation = encoder.generation,
           encoder'.frame \in {encoder.frame, encoder.queue, NoFrame},
           encoder'.queue \in {encoder.queue, NoFrame},
           encoder'.at \in {"closed", "idle"} => encoder'.frame = NoFrame,
           encoder'.at \in {"enabling", "encoding"} => encoder'.frame # NoFrame,
           \/ encoder'.shown = encoder.shown
           \/ encoder.frame # NoFrame /\ encoder'.shown = encoder.frame.picture,
           Climbs(encoder', service.latest, posted)
    PROVE  HostInv'
<1>0. HostTypeOK /\ WorkerOK /\ SessionOK /\ HostLineOK /\ CleanOK /\ StoreOK
    BY HostParts
<1>1. HostTypeOK'
    BY <1>0 DEF HostTypeOK
<1>2. WorkerOK'
    BY <1>0 DEF WorkerOK
<1>3. SessionOK'
    BY <1>0 DEF SessionOK
<1>4. \A n : UpTo(n) => UpTo(n)'
  <2>1. InEvents' = InEvents
      BY DEF InEvents
  <2>2. \A f \in FramesInLine' : f \in FramesInLine \/ f = NoFrame
      BY <2>1 DEF FramesInLine
  <2> QED BY <2>2, UpToStays
<1>5. HostLineOK'
    BY <1>0, <1>4 DEF HostLineOK
<1>6. CleanOK'
    BY <1>0, <1>4 DEF CleanOK
<1>7. StoreOK'
  <2>1. InEvents' = InEvents
      BY DEF InEvents
  <2>2. \A f \in Frames' : f \in Frames \/ f.kind \notin {"native", "cpu"}
      BY <2>1 DEF Frames, NoFrame
  <2> QED BY <1>0, <2>2, StoreStays
<1> QED BY <1>1, <1>2, <1>3, <1>5, <1>6, <1>7 DEF HostInv

LEMMA HostInitEncodeKeeps ==
    ASSUME HostInv, HostInitEncode
    PROVE  HostInv'
<1>0. HostTypeOK /\ SessionOK /\ HostLineOK
    BY HostParts
<1>1. /\ encoder' \in Encoders /\ encoder'.generation = encoder.generation
      /\ encoder'.frame = encoder.frame /\ encoder'.queue = encoder.queue
      /\ encoder'.shown = encoder.shown /\ encoder'.at = "idle" /\ encoder.at \in {"closed", "idle"}
  <2>1. encoder \in Encoders
      BY <1>0 DEF HostTypeOK
  <2>2. /\ encoder' = [encoder EXCEPT !.at = "idle", !.gpu = FALSE, !.tried = FALSE, !.used = FALSE,
                                      !.inits = @ + 1]
        /\ encoder.at \in {"closed", "idle"}
      BY DEF HostInitEncode
  <2> HIDE DEF HostInitEncode
  <2>3. encoder' \in Encoders
    <3> DEFINE m == encoder.inits + 1
    <3>1. m \in Nat
        BY <2>1 DEF Encoders
    <3> HIDE DEF m
    <3>2. encoder' = [encoder EXCEPT !.at = "idle", !.gpu = FALSE, !.tried = FALSE, !.used = FALSE, !.inits = m]
        BY <2>2 DEF m
    <3> QED BY <2>1, <3>1, <3>2 DEF Encoders
  <2>4. /\ encoder'.generation = encoder.generation
        /\ encoder'.frame = encoder.frame /\ encoder'.queue = encoder.queue
        /\ encoder'.shown = encoder.shown /\ encoder'.at = "idle"
      BY <2>1, <2>2 DEF Encoders
  <2> QED BY <2>2, <2>3, <2>4
<1>2. Climbs(encoder', service.latest, posted)
    BY <1>0, <1>1, ClimbsWithout DEF HostLineOK, HostTypeOK
<1>3. encoder.frame = NoFrame
    BY <1>0, <1>1 DEF SessionOK
<1>4. path' = path /\ path \in Paths /\ UNCHANGED <<desktop, worker, pools, store, sink, service, posted>>
    BY <1>0 DEF HostInitEncode, HostTypeOK
<1> QED BY <1>1, <1>2, <1>3, <1>4, EncoderSteps

LEMMA TakeFrameKeeps ==
    ASSUME HostInv, TakeFrame
    PROVE  HostInv'
<1>0. HostTypeOK /\ SessionOK /\ HostLineOK
    BY HostParts
<1>1. encoder.at = "idle" /\ encoder.queue # NoFrame /\ encoder.frame = NoFrame
    BY <1>0 DEF TakeFrame, SessionOK
<1>2. /\ path' = path /\ path \in Paths /\ UNCHANGED <<desktop, worker, pools, store, sink, service, posted>>
      /\ encoder \in Encoders /\ Climbs(encoder, service.latest, posted)
      /\ posted \in Seq(HostEvents)
    BY <1>0 DEF TakeFrame, EncoderOnly, HostTypeOK, HostLineOK
<1> DEFINE taken == [encoder EXCEPT !.queue = NoFrame]
<1>3. \/ encoder' = taken
      \/ encoder' = [taken EXCEPT !.at = "enabling", !.tried = TRUE, !.frame = encoder.queue]
      \/ encoder' = [taken EXCEPT !.at = "encoding", !.frame = encoder.queue]
    BY Zenon DEF TakeFrame
<1>4. CASE encoder' = taken
  <2>1. /\ encoder' \in Encoders /\ encoder'.generation = encoder.generation
        /\ encoder'.frame = NoFrame /\ encoder'.queue = NoFrame
        /\ encoder'.shown = encoder.shown /\ encoder'.at = "idle"
      BY <1>1, <1>2, <1>4 DEF Encoders
  <2>2. Climbs(encoder', service.latest, posted)
      BY <1>2, <2>1, ClimbsWithout
  <2> QED BY <1>2, <2>1, <2>2, EncoderSteps
<1>5. CASE encoder' # taken
  <2>1. /\ encoder' \in Encoders /\ encoder'.generation = encoder.generation
        /\ encoder'.frame = encoder.queue /\ encoder'.queue = NoFrame
        /\ encoder'.shown = encoder.shown /\ encoder'.at \in {"enabling", "encoding"}
      BY <1>2, <1>3, <1>5 DEF Encoders
  <2>2. Climbs(encoder', service.latest, posted)
      BY <1>1, <1>2, <2>1, ClimbsTaken
  <2> QED BY <1>1, <1>2, <2>1, <2>2, EncoderSteps
<1> QED BY <1>4, <1>5

LEMMA EnableGpuFramesKeeps ==
    ASSUME HostInv, EnableGpuFrames
    PROVE  HostInv'
<1>0. HostTypeOK /\ SessionOK /\ HostLineOK
    BY HostParts
<1>1. encoder.at = "enabling" /\ encoder.frame # NoFrame
    BY <1>0 DEF EnableGpuFrames, SessionOK
<1>2. /\ path \in Paths /\ UNCHANGED <<desktop, worker, pools, store, sink, service, posted>>
      /\ encoder \in Encoders /\ Climbs(encoder, service.latest, posted)
      /\ posted \in Seq(HostEvents)
    BY <1>0 DEF EnableGpuFrames, EncoderOnly, HostTypeOK, HostLineOK
<1>3. PICK works \in BOOLEAN :
         /\ path' = IF works THEN GpuSelected(encoder.frame.tag) ELSE FallenBack(encoder.frame.tag)
         /\ encoder' = IF path'.decision = "failed" THEN [Done EXCEPT !.gpu = works]
                       ELSE [encoder EXCEPT !.at = "encoding", !.gpu = works]
  <2>1. encoder.used \in BOOLEAN
      BY <1>2 DEF Encoders
  <2> QED BY <2>1 DEF EnableGpuFrames
<1>4. path' \in Paths /\ path'.generation = path.generation /\ path'.separate = path.separate
    BY <1>2, <1>3, PathSteps
<1>5. /\ encoder' \in Encoders /\ encoder'.generation = encoder.generation
      /\ encoder'.queue = encoder.queue /\ encoder'.shown = encoder.shown
      /\ \/ encoder'.at = "idle" /\ encoder'.frame = NoFrame
         \/ encoder'.at = "encoding" /\ encoder'.frame = encoder.frame
    BY <1>2, <1>3 DEF Encoders, Done
<1>6. Climbs(encoder', service.latest, posted)
    BY <1>2, <1>5, ClimbsWithout
<1> QED BY <1>1, <1>2, <1>4, <1>5, <1>6, EncoderSteps

LEMMA CropAndScaleKeeps ==
    ASSUME HostInv, CropAndScale
    PROVE  HostInv'
<1>0. HostTypeOK /\ SessionOK /\ HostLineOK
    BY HostParts
<1>1. encoder.at = "idle" /\ encoder.frame = NoFrame
    BY <1>0 DEF CropAndScale, SessionOK
<1>2. /\ path \in Paths /\ UNCHANGED <<desktop, worker, pools, store, sink, service, posted>>
      /\ encoder \in Encoders /\ Climbs(encoder, service.latest, posted)
      /\ posted \in Seq(HostEvents)
      /\ path' = FallenBack(encoder.queue.tag)
    BY <1>0 DEF CropAndScale, EncoderOnly, HostTypeOK, HostLineOK
<1>4. path' \in Paths /\ path'.generation = path.generation /\ path'.separate = path.separate
    BY <1>2, PathSteps
<1>5. /\ encoder' \in Encoders /\ encoder'.generation = encoder.generation
      /\ encoder'.queue = NoFrame /\ encoder'.shown = encoder.shown
      /\ encoder'.at = "idle" /\ encoder'.frame = NoFrame
    BY <1>1, <1>2 DEF Encoders, CropAndScale
<1>6. Climbs(encoder', service.latest, posted)
    BY <1>2, <1>5, ClimbsWithout
<1> QED BY <1>1, <1>2, <1>4, <1>5, <1>6, EncoderSteps

LEMMA HostEncodesKeeps ==
    ASSUME HostInv, HostEncodeSkips \/ HostEncodeFails \/ HostEncode
    PROVE  HostInv'
<1>0. HostTypeOK /\ SessionOK /\ HostLineOK /\ StoreOK
    BY HostParts
<1>1. encoder.at = "encoding" /\ encoder.frame # NoFrame
    BY <1>0 DEF HostEncodeSkips, HostEncodeFails, HostEncode, SessionOK
<1>2. /\ path \in Paths /\ UNCHANGED <<desktop, worker, pools, store, sink, service, posted>>
      /\ encoder \in Encoders /\ Climbs(encoder, service.latest, posted)
      /\ posted \in Seq(HostEvents)
    BY <1>0 DEF HostEncodeSkips, HostEncodeFails, HostEncode, EncoderOnly, HostTypeOK, HostLineOK
<1>3. path' \in {path, FallenBack(encoder.frame.tag), FailedPath(encoder.frame.tag)}
    BY DEF HostEncodeSkips, HostEncodeFails, HostEncode
<1>4. path' \in Paths /\ path'.generation = path.generation /\ path'.separate = path.separate
    BY <1>2, <1>3, PathSteps
<1>5. store[encoder.frame.buffer] = encoder.frame.picture /\ encoder.frame.picture \in Nat
  <2>1. encoder.frame \in PostedFrames
      BY <1>1, <1>2 DEF Encoders
  <2>2. encoder.frame \in Frames /\ encoder.frame.kind \in {"native", "cpu"} /\ encoder.frame.picture \in Nat
      BY <2>1 DEF PostedFrames, Frames
  <2> QED BY <1>0, <2>2 DEF StoreOK, BuffersAreKept
<1>6. /\ encoder' \in Encoders /\ encoder'.generation = encoder.generation
      /\ encoder'.queue = encoder.queue
      /\ encoder'.shown = encoder.shown \/ encoder'.shown = encoder.frame.picture
      /\ encoder'.at = "idle" /\ encoder'.frame = NoFrame
    BY <1>2, <1>5 DEF Encoders, HostEncodeSkips, HostEncodeFails, HostEncode, Done
<1>7. Climbs(encoder', service.latest, posted)
    BY <1>1, <1>2, <1>6, ClimbsWithout, ClimbsShown
<1> QED BY <1>1, <1>2, <1>4, <1>6, <1>7, EncoderSteps

------------------------------------------------------------------------------
(* The session thread.                                                       *)

\* BeginSession: the new encoder has nothing of the line.
LEMMA ClimbsReset ==
    ASSUME NEW e, NEW d, NEW l, NEW q \in Seq(HostEvents), Climbs(e, l, q),
           d.shown = 0, d.frame = NoFrame, d.queue = NoFrame
    PROVE  Climbs(d, NoFrame, q)
<1>1. \A i \in 1..Len(q) : q[i].what = "frame" => q[i].frame.picture \in Nat
  <2>1. \A i \in 1..Len(q) : q[i] \in HostEvents
      OBVIOUS
  <2> QED BY <2>1 DEF HostEvents, PostedFrames
<1>2. \A n \in Nat : BelowLatest(d, NoFrame, n)
    BY DEF BelowLatest, BelowQueue, Below
<1> QED BY <1>1, <1>2 DEF Climbs

LEMMA BeginSessionKeeps ==
    ASSUME HostInv, NEW separate \in BOOLEAN, BeginSession(separate)
    PROVE  HostInv'
<1>0. HostTypeOK /\ WorkerOK /\ SessionOK /\ HostLineOK /\ CleanOK /\ StoreOK
    BY HostParts
<1>1. UNCHANGED <<desktop, worker, pools, store, sink, service, posted>> /\ ~service.accepts
    BY DEF BeginSession
<1>2. path' \in Paths /\ path'.generation = path.generation + 1 /\ path.generation \in Nat
  <2>1. path.generation \in Nat
      BY <1>0 DEF HostTypeOK, Paths
  <2> QED BY <2>1 DEF BeginSession, NewPath, Paths
<1>3. /\ encoder' \in Encoders /\ encoder'.at = "closed" /\ encoder'.generation = path'.generation
      /\ encoder'.queue = NoFrame /\ encoder'.frame = NoFrame /\ encoder'.shown = 0
    BY <1>2 DEF BeginSession, ClosedEncoder, Encoders
<1>4. HostTypeOK'
    BY <1>0, <1>1, <1>2, <1>3 DEF HostTypeOK
<1>5. WorkerOK'
    BY <1>0, <1>1 DEF WorkerOK
<1>6. SessionOK'
  <2>1. worker.source \in Nat
      BY <1>0 DEF HostTypeOK, Workers
  <2> QED BY <1>0, <1>1, <1>2, <1>3, <2>1 DEF SessionOK
<1>7. \A n \in Nat : UpTo(n) => UpTo(n)'
  <2>1. InEvents' = InEvents
      BY <1>1 DEF InEvents
  <2>2. \A f \in FramesInLine' : f \in FramesInLine \/ f = NoFrame
      BY <1>1, <1>3, <2>1 DEF FramesInLine
  <2>3. \A n \in Nat : encoder'.shown <= n
      BY <1>3
  <2> QED BY <2>2, <2>3 DEF UpTo, NoNewer
<1>8. HostLineOK'
  <2>1. service.latest = NoFrame
      BY <1>0, <1>1 DEF SessionOK
  <2>2. Climbs(encoder, service.latest, posted) /\ posted \in Seq(HostEvents)
      BY <1>0 DEF HostLineOK, HostTypeOK
  <2>3. Climbs(encoder', NoFrame, posted)
      BY <1>3, <2>2, ClimbsReset
  <2>4. sink.last # NoFrame => sink.last.picture \in Nat
    <3>1. sink.last \in PostedFrames \cup {NoFrame}
        BY <1>0 DEF HostTypeOK
    <3> QED BY <3>1 DEF PostedFrames
  <2>5. worker.at = "captured" => worker.frame.picture \in Nat
    <3>1. worker.frame \in CapturedFrames \cup {NoFrame}
        BY <1>0 DEF HostTypeOK, Workers
    <3> QED BY <1>0, <3>1 DEF CapturedFrames, WorkerOK
  <2>6. desktop \in Nat
      BY <1>0 DEF HostTypeOK
  <2> QED BY <1>0, <1>1, <1>7, <2>1, <2>3, <2>4, <2>5, <2>6 DEF HostLineOK
<1>9. CleanOK'
  <2>1. worker.clean \in Nat /\ worker.source <= path.generation /\ worker.source \in Nat
      BY <1>0 DEF HostTypeOK, Workers, SessionOK
  <2>2. path'.generation # worker.source
      BY <1>2, <2>1
  <2> QED BY <1>0, <1>1, <1>7, <2>1, <2>2 DEF CleanOK
<1>10. StoreOK'
  <2>1. InEvents' = InEvents
      BY <1>1 DEF InEvents
  <2>2. \A f \in Frames' : f \in Frames \/ f.kind \notin {"native", "cpu"}
      BY <1>1, <1>3, <2>1 DEF Frames, NoFrame
  <2> QED BY <1>0, <1>1, <2>2, StoreStays
<1> QED BY <1>4, <1>5, <1>6, <1>8, <1>9, <1>10 DEF HostInv

\* A step of the session thread that loses frames, or keeps them, and leaves the worker's.
LEMMA SessionSteps ==
    ASSUME HostInv, UNCHANGED <<path, desktop, pools, store, sink>>,
           service' \in Services, worker' \in Workers, posted' \in Seq(HostEvents), encoder' \in Encoders,
           WorkerOK', SessionOK',
           encoder'.shown = encoder.shown,
           \A f \in InEvents' : f \in FramesInLine \/ f = NoFrame,
           {service'.latest, encoder'.queue, encoder'.frame} \subseteq FramesInLine \cup {NoFrame},
           Climbs(encoder', service'.latest, posted'),
           worker'.frame \in {worker.frame, NoFrame},
           worker'.at = "captured" => worker.at = "captured" /\ worker'.frame = worker.frame,
           \/ worker'.clean = 0 /\ ~worker'.separate /\ worker'.at # "waiting"
           \/ /\ worker'.clean = worker.clean /\ worker'.count = worker.count
              /\ worker'.separate = worker.separate /\ worker'.at = worker.at
              /\ worker'.source = worker.source
    PROVE  HostInv'
<1>0. HostTypeOK /\ HostLineOK /\ CleanOK /\ StoreOK
    BY HostParts
<1>1. HostTypeOK'
    BY <1>0 DEF HostTypeOK
<1>2. \A f \in FramesInLine' : f \in FramesInLine \/ f = NoFrame
  <2>1. sink.last \in FramesInLine
      BY DEF FramesInLine
  <2> QED BY <2>1 DEF FramesInLine
<1>3. \A n : UpTo(n) => UpTo(n)'
    BY <1>2, UpToStays
<1>4. HostLineOK'
    BY <1>0, <1>3 DEF HostLineOK
<1>5. CleanOK'
    BY <1>0, <1>3 DEF CleanOK
<1>6. StoreOK'
  <2>1. \A f \in Frames' : f \in Frames \/ f = NoFrame
    <3>1. Frames' = FramesInLine' \cup {worker'.frame}
        BY DEF Frames, FramesInLine
    <3>2. FramesInLine \subseteq Frames /\ worker.frame \in Frames
        BY DEF Frames, FramesInLine
    <3> QED BY <1>2, <3>1, <3>2
  <2>2. \A f \in Frames' : f \in Frames \/ f.kind \notin {"native", "cpu"}
      BY <2>1 DEF NoFrame
  <2> QED BY <1>0, <2>2, StoreStays
<1> QED BY <1>1, <1>4, <1>5, <1>6 DEF HostInv

LEMMA IdleWorkers ==
    ASSUME NEW at \in {"none", "starting", "ended"}
    PROVE  /\ IdleWorker(at) \in Workers /\ IdleWorker(at).at = at /\ IdleWorker(at).frame = NoFrame
           /\ IdleWorker(at).clean = 0 /\ ~IdleWorker(at).separate /\ IdleWorker(at).source = 0
BY DEF IdleWorker, Workers

LEMMA PostedInLine ==
    InEvents \subseteq FramesInLine /\ {sink.last, service.latest, encoder.queue, encoder.frame} \subseteq FramesInLine
BY DEF FramesInLine

LEMMA StartCaptureKeeps ==
    ASSUME HostInv, StartCapture
    PROVE  HostInv'
<1>0. HostTypeOK /\ WorkerOK /\ SessionOK /\ HostLineOK /\ CleanOK /\ StoreOK
    BY HostParts
<1>1. UNCHANGED <<path, desktop, pools, store, sink, posted, encoder>>
    BY DEF StartCapture
<1>2. /\ service \in Services /\ worker \in Workers /\ posted \in Seq(HostEvents) /\ encoder \in Encoders
      /\ path.generation \in Nat
    BY <1>0 DEF HostTypeOK, Paths
<1>3. Climbs(encoder, service.latest, posted)
    BY <1>0 DEF HostLineOK
<1>4. InEvents' = InEvents
    BY <1>1 DEF InEvents
<1>5. CASE /\ worker.at = "none"
           /\ service' = [service EXCEPT !.generation = path.generation, !.starts = @ + 1, !.accepts = TRUE,
                                         !.latest = NoFrame, !.flushing = FALSE]
           /\ worker' = Started
  <2>1. /\ worker' \in Workers /\ worker'.at = "starting" /\ worker'.frame = NoFrame
        /\ worker'.clean = 0 /\ ~worker'.separate /\ worker'.source = 0
      BY <1>5, IdleWorkers DEF Started
  <2>2. service' \in Services
    <3> DEFINE m == service.starts + 1
    <3>1. m \in Nat
        BY <1>2 DEF Services
    <3> HIDE DEF m
    <3>2. service' = [service EXCEPT !.generation = path.generation, !.starts = m, !.accepts = TRUE,
                                     !.latest = NoFrame, !.flushing = FALSE]
        BY <1>5 DEF m
    <3> QED BY <1>2, <3>1, <3>2 DEF Services
  <2>3. service'.latest = NoFrame /\ service'.accepts
      BY <1>2, <1>5 DEF Services
  <2>4. OnlyFlushes(posted) /\ sink.last = NoFrame
      BY <1>0, <1>5 DEF WorkerOK
  <2>5. Unfinished(posted) /\ FinishesLast(posted) /\ FramesOf(posted, path.generation)
      BY <2>4 DEF OnlyFlushes, Unfinished, FinishesLast, FramesOf
  <2>6. WorkerOK'
      BY <1>1, <2>1, <2>4, <2>5 DEF WorkerOK
  <2>7. SessionOK'
      BY <1>0, <1>1, <1>2, <2>1, <2>3, <2>4, <2>5 DEF SessionOK
  <2>8. Climbs(encoder', service'.latest, posted')
      BY <1>1, <1>2, <1>3, <2>3, ClimbsWithout
  <2> QED BY <1>1, <1>2, <1>4, <2>1, <2>2, <2>3, <2>6, <2>7, <2>8, PostedInLine, SessionSteps
<1>6. CASE /\ ~service.accepts
           /\ service' = [service EXCEPT !.generation = path.generation, !.starts = @ + 1, !.starting = TRUE]
           /\ UNCHANGED worker
  <2>1. service' \in Services
    <3> DEFINE m == service.starts + 1
    <3>1. m \in Nat
        BY <1>2 DEF Services
    <3> HIDE DEF m
    <3>2. service' = [service EXCEPT !.generation = path.generation, !.starts = m, !.starting = TRUE]
        BY <1>6 DEF m
    <3> QED BY <1>2, <3>1, <3>2 DEF Services
  <2>2. service'.latest = service.latest /\ ~service'.accepts
      BY <1>2, <1>6 DEF Services
  <2>3. WorkerOK'
      BY <1>0, <1>1, <1>6 DEF WorkerOK
  <2>4. SessionOK'
      BY <1>0, <1>1, <1>6, <2>2 DEF SessionOK
  <2> QED BY <1>1, <1>2, <1>3, <1>4, <1>6, <2>1, <2>2, <2>3, <2>4, PostedInLine, SessionSteps
<1> QED BY <1>5, <1>6 DEF StartCapture

LEMMA RequestStopCaptureKeeps ==
    ASSUME HostInv, RequestStopCapture
    PROVE  HostInv'
<1>0. HostTypeOK /\ WorkerOK /\ SessionOK /\ HostLineOK /\ CleanOK /\ StoreOK
    BY HostParts
<1>1. UNCHANGED <<path, desktop, pools, store, sink, posted, encoder>>
    BY DEF RequestStopCapture
<1>2. service \in Services /\ worker \in Workers /\ posted \in Seq(HostEvents) /\ encoder \in Encoders
    BY <1>0 DEF HostTypeOK
<1>3. Climbs(encoder, service.latest, posted)
    BY <1>0 DEF HostLineOK
<1>4. InEvents' = InEvents
    BY <1>1 DEF InEvents
<1>5. service' \in Services /\ service'.latest = NoFrame /\ ~service'.accepts
    BY <1>2 DEF RequestStopCapture, Services
<1>6. worker' = [worker EXCEPT !.running = FALSE]
    BY DEF RequestStopCapture
<1>7. /\ worker' \in Workers /\ worker'.frame = worker.frame /\ worker'.at = worker.at
      /\ worker'.clean = worker.clean /\ worker'.count = worker.count
      /\ worker'.separate = worker.separate /\ worker'.source = worker.source
    BY <1>2, <1>6 DEF Workers
<1>8. WorkerOK'
    BY <1>0, <1>1, <1>7 DEF WorkerOK
<1>9. SessionOK'
    BY <1>0, <1>1, <1>5, <1>7 DEF SessionOK
<1>10. Climbs(encoder', service'.latest, posted')
    BY <1>1, <1>2, <1>3, <1>5, ClimbsWithout
<1> QED BY <1>1, <1>2, <1>4, <1>5, <1>7, <1>8, <1>9, <1>10, PostedInLine, SessionSteps

LEMMA ClearWorkerKeeps ==
    ASSUME HostInv, ClearWorker
    PROVE  HostInv'
<1>0. HostTypeOK /\ WorkerOK /\ SessionOK /\ HostLineOK /\ CleanOK /\ StoreOK
    BY HostParts
<1>1. UNCHANGED <<path, desktop, pools, store, sink, encoder>>
    BY DEF ClearWorker
<1>2. /\ service \in Services /\ worker \in Workers /\ posted \in Seq(HostEvents) /\ encoder \in Encoders
      /\ path.generation \in Nat
    BY <1>0 DEF HostTypeOK, Paths
<1>3. Climbs(encoder, service.latest, posted)
    BY <1>0 DEF HostLineOK
<1>4. posted # <<>> /\ posted[1].what = "finished" /\ 1 \in 1..Len(posted) /\ posted' = Tail(posted)
    BY <1>2, TailEvents DEF ClearWorker
<1>5. /\ OnlyFlushes(posted') /\ posted' \in Seq(HostEvents)
      /\ EventFrames(posted') \subseteq EventFrames(posted)
    BY <1>0, <1>2, <1>4, TailEvents DEF WorkerOK
<1>6. InEvents' \subseteq InEvents
    BY <1>5 DEF EventFrames, InEvents
<1>7. worker.at = "ended" /\ sink.last = NoFrame
    BY <1>0, <1>4 DEF WorkerOK, Unfinished
<1>8. /\ worker' \in Workers /\ worker'.at \in {"none", "starting"} /\ worker'.frame = NoFrame
      /\ worker'.clean = 0 /\ ~worker'.separate /\ worker'.source = 0
      /\ service.starting => worker'.at = "starting"
    BY IdleWorkers DEF ClearWorker, Started
<1>9. service' = [service EXCEPT !.accepts = service.starting, !.starting = FALSE,
                                 !.latest = NoFrame, !.flushing = FALSE]
    BY DEF ClearWorker
<1>10. service' \in Services /\ service'.latest = NoFrame
    BY <1>2, <1>9 DEF Services
<1>11. service'.accepts => service.starting
    BY <1>2, <1>9 DEF Services
<1>12. Unfinished(posted') /\ FinishesLast(posted') /\ FramesOf(posted', path.generation)
    BY <1>5 DEF OnlyFlushes, Unfinished, FinishesLast, FramesOf
<1>13. WorkerOK'
    BY <1>1, <1>5, <1>7, <1>8, <1>12 DEF WorkerOK
<1>14. SessionOK'
    BY <1>0, <1>1, <1>2, <1>7, <1>8, <1>10, <1>11, <1>12 DEF SessionOK
<1>15. Climbs(encoder', service'.latest, posted')
    BY <1>1, <1>2, <1>3, <1>4, <1>5, <1>10, ClimbsTail, ClimbsWithout
<1> QED BY <1>1, <1>2, <1>5, <1>6, <1>8, <1>10, <1>13, <1>14, <1>15, PostedInLine, SessionSteps

LEMMA EnqueueWebRtcFrameKeeps ==
    ASSUME HostInv, EnqueueWebRtcFrame
    PROVE  HostInv'
<1>0. HostTypeOK /\ WorkerOK /\ SessionOK /\ HostLineOK /\ CleanOK /\ StoreOK
    BY HostParts
<1>1. UNCHANGED <<path, desktop, worker, pools, store, sink, encoder>>
    BY DEF EnqueueWebRtcFrame
<1>2. /\ service \in Services /\ worker \in Workers /\ posted \in Seq(HostEvents) /\ encoder \in Encoders
    BY <1>0 DEF HostTypeOK
<1>3. Climbs(encoder, service.latest, posted)
    BY <1>0 DEF HostLineOK
<1>4. /\ posted # <<>> /\ posted[1].what = "frame" /\ 1 \in 1..Len(posted) /\ Head(posted) = posted[1]
      /\ posted[1] \in HostEvents
    BY <1>2, TailEvents DEF EnqueueWebRtcFrame
<1> DEFINE rest == Tail(posted)
           flush == Event("flush", NoFrame)
<1>5. posted[1].frame \in PostedFrames
    BY <1>4 DEF HostEvents
<1>6. /\ rest \in Seq(HostEvents) /\ FinishesLast(rest)
      /\ OnlyFlushes(posted) => OnlyFlushes(rest)
      /\ Unfinished(posted) => Unfinished(rest)
      /\ \A g : FramesOf(posted, g) => FramesOf(rest, g)
      /\ EventFrames(rest) \subseteq EventFrames(posted)
    BY <1>0, <1>2, <1>4, TailEvents DEF WorkerOK
<1>7. flush \in HostEvents /\ flush.what = "flush" /\ flush.frame = NoFrame
    BY DEF Event, HostEvents
<1>8. posted' = rest \/ posted' = Append(rest, flush)
    BY <1>6, <1>7, JoinedEvents DEF EnqueueWebRtcFrame
<1> HIDE DEF rest, flush
<1>9. /\ posted' \in Seq(HostEvents) /\ FinishesLast(posted')
      /\ OnlyFlushes(posted) => OnlyFlushes(posted')
      /\ Unfinished(posted) => Unfinished(posted')
      /\ \A g : FramesOf(posted, g) => FramesOf(posted', g)
      /\ EventFrames(posted') \subseteq EventFrames(posted) \cup {NoFrame}
  <2> DEFINE a == Append(rest, flush)
  <2>1. /\ a \in Seq(HostEvents) /\ (FinishesLast(rest) => FinishesLast(a))
        /\ OnlyFlushes(rest) => OnlyFlushes(a)
        /\ Unfinished(rest) => Unfinished(a)
        /\ EventFrames(a) = EventFrames(rest) \cup {NoFrame}
      BY <1>6, <1>7, AppendEvents
  <2>2. \A g : FramesOf(rest, g) => FramesOf(a, g)
      BY <1>6, <1>7, AppendEvents
  <2> HIDE DEF a
  <2>3. CASE posted' = rest
      BY <1>6, <2>3
  <2>4. CASE posted' = a
      BY <1>6, <2>1, <2>2, <2>4
  <2> QED BY <1>8, <2>3, <2>4 DEF a
<1>10. \A f \in InEvents' : f \in FramesInLine \/ f = NoFrame
    BY <1>9, PostedInLine DEF EventFrames, InEvents
<1>11. WorkerOK'
    BY <1>0, <1>1, <1>9 DEF WorkerOK
<1>12. \A l : Climbs(encoder, l, rest) => Climbs(encoder, l, posted')
    BY <1>6, <1>7, <1>8, ClimbsAppend
<1>13. CASE service.accepts
  <2>1. service' = [service EXCEPT !.flushing = TRUE, !.latest = Head(posted).frame]
      BY <1>13 DEF EnqueueWebRtcFrame
  <2>2. service' \in Services /\ service'.latest = posted[1].frame
      BY <1>2, <1>4, <1>5, <2>1 DEF Services
  <2>3. service'.accepts = service.accepts
      BY <1>2, <2>1 DEF Services
  <2>4. posted[1].frame.from = path.generation
      BY <1>0, <1>4, <1>13 DEF SessionOK, FramesOf
  <2>5. service'.latest # NoFrame => service'.latest.from = path.generation
      BY <2>2, <2>4
  <2>6. SessionOK'
      BY <1>0, <1>1, <1>9, <1>13, <2>3, <2>5 DEF SessionOK
  <2>7. Climbs(encoder', service'.latest, posted')
    <3>1. Climbs(encoder, posted[1].frame, rest)
        BY <1>2, <1>3, <1>4, ClimbsEnqueued DEF rest
    <3> QED BY <1>1, <1>12, <2>2, <3>1
  <2>8. posted[1].frame \in FramesInLine
      BY <1>4 DEF FramesInLine, InEvents
  <2> QED BY <1>1, <1>2, <1>9, <1>10, <1>11, <2>2, <2>6, <2>7, <2>8, PostedInLine, SessionSteps
<1>14. CASE ~service.accepts
  <2>1. service' = service
      BY <1>14 DEF EnqueueWebRtcFrame
  <2>2. SessionOK'
      BY <1>0, <1>1, <1>14, <2>1 DEF SessionOK
  <2>3. Climbs(encoder', service'.latest, posted')
    <3>1. Climbs(encoder, service.latest, rest)
        BY <1>2, <1>3, <1>4, ClimbsTail DEF rest
    <3> QED BY <1>1, <1>12, <2>1, <3>1
  <2> QED BY <1>1, <1>2, <1>9, <1>10, <1>11, <2>1, <2>2, <2>3, PostedInLine, SessionSteps
<1> QED BY <1>13, <1>14

LEMMA FlushLatestWebRtcFrameKeeps ==
    ASSUME HostInv, FlushLatestWebRtcFrame
    PROVE  HostInv'
<1>0. HostTypeOK /\ WorkerOK /\ SessionOK /\ HostLineOK /\ CleanOK /\ StoreOK
    BY HostParts
<1>1. UNCHANGED <<path, desktop, worker, pools, store, sink>>
    BY DEF FlushLatestWebRtcFrame
<1>2. /\ service \in Services /\ worker \in Workers /\ posted \in Seq(HostEvents) /\ encoder \in Encoders
    BY <1>0 DEF HostTypeOK
<1>3. Climbs(encoder, service.latest, posted)
    BY <1>0 DEF HostLineOK
<1>4. posted # <<>> /\ posted' = Tail(posted)
    BY DEF FlushLatestWebRtcFrame
<1>5. /\ posted' \in Seq(HostEvents) /\ FinishesLast(posted')
      /\ OnlyFlushes(posted) => OnlyFlushes(posted')
      /\ Unfinished(posted) => Unfinished(posted')
      /\ \A g : FramesOf(posted, g) => FramesOf(posted', g)
      /\ EventFrames(posted') \subseteq EventFrames(posted)
    BY <1>0, <1>2, <1>4, TailEvents DEF WorkerOK
<1>6. \A f \in InEvents' : f \in FramesInLine \/ f = NoFrame
    BY <1>5, PostedInLine DEF EventFrames, InEvents
<1>7. WorkerOK'
    BY <1>0, <1>1, <1>5 DEF WorkerOK
<1>8. service' = [service EXCEPT !.latest = NoFrame, !.flushing = FALSE]
    BY DEF FlushLatestWebRtcFrame
<1>9. service' \in Services /\ service'.latest = NoFrame
    BY <1>2, <1>8 DEF Services
<1>10. service'.accepts = service.accepts
    BY <1>2, <1>8 DEF Services
<1>11. Climbs(encoder, service.latest, posted')
    BY <1>2, <1>3, <1>4, ClimbsTail
<1>12. CASE encoder' = encoder
  <2>1. SessionOK'
      BY <1>0, <1>1, <1>5, <1>9, <1>10, <1>12 DEF SessionOK
  <2>2. Climbs(encoder', service'.latest, posted')
      BY <1>2, <1>5, <1>9, <1>11, <1>12, ClimbsWithout
  <2> QED BY <1>1, <1>2, <1>5, <1>6, <1>7, <1>9, <1>12, <2>1, <2>2, PostedInLine, SessionSteps
<1>13. CASE /\ service.accepts /\ service.latest # NoFrame
            /\ encoder' = [encoder EXCEPT !.queue = service.latest]
  <2>1. service.latest \in PostedFrames
      BY <1>2, <1>13 DEF Services
  <2>2. /\ encoder' \in Encoders /\ encoder'.queue = service.latest
        /\ encoder'.frame = encoder.frame /\ encoder'.at = encoder.at
        /\ encoder'.shown = encoder.shown /\ encoder'.generation = encoder.generation
      BY <1>2, <1>13, <2>1 DEF Encoders
  <2>3. service.latest.from = path.generation
      BY <1>0, <1>13 DEF SessionOK
  <2>4. SessionOK'
      BY <1>0, <1>1, <1>5, <1>9, <1>10, <2>2, <2>3 DEF SessionOK
  <2>5. Climbs(encoder', service'.latest, posted')
      BY <1>9, <1>11, <1>13, <2>2, ClimbsPushed
  <2> QED BY <1>1, <1>2, <1>5, <1>6, <1>7, <1>9, <2>2, <2>4, <2>5, PostedInLine, SessionSteps
<1> QED BY <1>12, <1>13 DEF FlushLatestWebRtcFrame, PushFrame

------------------------------------------------------------------------------
(* The capture thread.                                                       *)

LEMMA FramesTyped ==
    ASSUME HostTypeOK
    PROVE  /\ FramesInLine \subseteq PostedFrames \cup {NoFrame} /\ encoder.shown \in Nat
           /\ \A f \in FramesInLine : f # NoFrame => f.picture \in Nat
           /\ Frames = FramesInLine \cup {worker.frame}
<1>1. InEvents \subseteq PostedFrames \cup {NoFrame}
  <2>1. \A i \in 1..Len(posted) : posted[i] \in HostEvents
      BY DEF HostTypeOK
  <2> QED BY <2>1 DEF InEvents, HostEvents
<1>2. {sink.last, service.latest, encoder.queue, encoder.frame} \subseteq PostedFrames \cup {NoFrame}
    BY DEF HostTypeOK, Services, Encoders
<1>3. FramesInLine \subseteq PostedFrames \cup {NoFrame}
    BY <1>1, <1>2 DEF FramesInLine
<1>4. \A f \in FramesInLine : f # NoFrame => f.picture \in Nat
    BY <1>3 DEF PostedFrames
<1>5. encoder.shown \in Nat
    BY DEF HostTypeOK, Encoders
<1>6. Frames = FramesInLine \cup {worker.frame}
    BY DEF Frames, FramesInLine
<1> QED BY <1>3, <1>4, <1>5, <1>6

LEMMA UpToMore ==
    ASSUME HostTypeOK, NEW m \in Nat, NEW n \in Nat, UpTo(m), m <= n
    PROVE  UpTo(n)
<1>1. encoder.shown <= n
    BY FramesTyped DEF UpTo, NoNewer
<1>2. ASSUME NEW f \in FramesInLine, f # NoFrame PROVE f.picture <= n
  <2>1. f.picture \in Nat /\ f.picture <= m
      BY <1>2, FramesTyped DEF UpTo, NoNewer
  <2> QED BY <2>1
<1> QED BY <1>1, <1>2 DEF UpTo, NoNewer

Afterwards(n) == NoNewer(encoder'.shown, FramesInLine', n)

\* The capture thread puts at most one frame behind the line, and that is the sink's last.
LEMMA CaptureLine ==
    ASSUME HostInv, UNCHANGED <<service, encoder>>, desktop' \in Nat, desktop <= desktop',
           NEW e \in HostEvents, posted' = posted \/ posted' = Append(posted, e),
           e.what = "frame" => UpTo(e.frame.picture) /\ e.frame.picture <= desktop,
           sink'.last \in {sink.last, NoFrame, e.frame},
           posted' # posted /\ e.what = "frame" => sink'.last = e.frame,
           worker'.at = "captured" =>
              posted' = posted /\ sink' = sink /\ UpTo(worker'.frame.picture) /\ worker'.frame.picture <= desktop'
    PROVE  /\ HostLineOK'
           /\ \A n : UpTo(n) /\ (e.what = "frame" => e.frame.picture <= n) => Afterwards(n)
           /\ posted' = posted /\ sink'.last \in {sink.last, NoFrame} => \A n : UpTo(n) => Afterwards(n)
<1>0. HostTypeOK /\ HostLineOK /\ posted \in Seq(HostEvents)
    BY HostParts DEF HostTypeOK
<1>1. e.what # "frame" => e.frame = NoFrame
    BY DEF HostEvents
<1>2. e.what = "frame" => e.frame \in PostedFrames /\ e.frame.picture \in Nat /\ e.frame # NoFrame
    BY DEF HostEvents, PostedFrames, NoFrame
<1>3. InEvents' \subseteq InEvents \cup {e.frame}
  <2>1. EventFrames(posted') \subseteq EventFrames(posted) \cup {e.frame}
    <3>1. CASE posted' = posted
        BY <3>1
    <3>2. CASE posted' = Append(posted, e)
        BY <1>0, <3>2, AppendEvents
    <3> QED BY <3>1, <3>2
  <2> QED BY <2>1 DEF InEvents, EventFrames
<1>4. \A f \in FramesInLine' : f \in FramesInLine \/ f = NoFrame \/ f = e.frame
    BY <1>3 DEF FramesInLine
<1>5. \A n : UpTo(n) /\ (e.what = "frame" => e.frame.picture <= n) => Afterwards(n)
    BY <1>1, <1>4 DEF UpTo, Afterwards, NoNewer
<1>6. ASSUME posted' = posted, sink'.last \in {sink.last, NoFrame} PROVE \A n : UpTo(n) => Afterwards(n)
  <2>1. InEvents' = InEvents
      BY <1>6 DEF InEvents
  <2>2. \A f \in FramesInLine' : f \in FramesInLine \/ f = NoFrame
      BY <1>6, <2>1 DEF FramesInLine
  <2> QED BY <2>2 DEF UpTo, Afterwards, NoNewer
<1>7. HostLineOK'
  <2>1. Climbs(encoder', service'.latest, posted')
    <3>1. Climbs(encoder, service.latest, posted)
        BY <1>0 DEF HostLineOK
    <3>2. e.what = "frame" =>
             NoNewer(encoder.shown, EventFrames(posted) \cup {service.latest, encoder.queue, encoder.frame}, e.frame.picture)
        BY DEF UpTo, NoNewer, FramesInLine, InEvents, EventFrames
    <3>3. Climbs(encoder, service.latest, Append(posted, e))
        BY <1>0, <3>1, <3>2, ClimbsAppend
    <3> QED BY <3>1, <3>3
  <2>2. ASSUME sink'.last # NoFrame PROVE Afterwards(sink'.last.picture)
    <3>1. CASE sink'.last = e.frame
        BY <1>1, <1>2, <1>5, <2>2, <3>1
    <3>2. CASE sink'.last = sink.last /\ sink'.last # e.frame
      <4>1. UpTo(sink.last.picture)
          BY <1>0, <2>2, <3>2 DEF HostLineOK
      <4>2. posted' = posted \/ e.what # "frame"
          BY <3>2
      <4>3. CASE posted' = posted
          BY <1>6, <3>2, <4>1, <4>3
      <4>4. CASE e.what # "frame"
          BY <1>5, <3>2, <4>1, <4>4
      <4> QED BY <4>2, <4>3, <4>4
    <3> QED BY <2>2, <3>1, <3>2
  <2>3. worker'.at = "captured" => Afterwards(worker'.frame.picture) /\ worker'.frame.picture <= desktop'
      BY <1>6
  <2>4. Afterwards(desktop')
    <3>1. UpTo(desktop) /\ desktop \in Nat
        BY <1>0 DEF HostLineOK, HostTypeOK
    <3>2. UpTo(desktop')
        BY <1>0, <3>1, UpToMore
    <3>3. e.what = "frame" => e.frame.picture <= desktop'
        BY <1>2, <3>1
    <3> QED BY <1>5, <3>2, <3>3
  <2> QED BY <2>1, <2>2, <2>3, <2>4 DEF HostLineOK, UpTo, Afterwards
<1> QED BY <1>5, <1>6, <1>7

LEMMA EndWorkKeeps ==
    ASSUME HostInv, EndWork, worker.at # "ended", UNCHANGED <<store, service, encoder>>,
           path' \in Paths, path'.generation = path.generation, path'.separate = path.separate,
           desktop' \in Nat, desktop <= desktop', worker.at # "none"
    PROVE  HostInv'
<1>0. HostTypeOK /\ WorkerOK /\ SessionOK /\ HostLineOK /\ CleanOK /\ StoreOK
    BY HostParts
<1>1. worker \in Workers /\ worker.source \in Nat /\ posted \in Seq(HostEvents)
    BY <1>0 DEF HostTypeOK, Workers
<1>2. /\ worker' \in Workers /\ worker'.at = "ended" /\ worker'.frame = NoFrame /\ worker'.clean = 0
      /\ ~worker'.separate /\ worker'.source = worker.source
  <2>1. worker' = [IdleWorker("ended") EXCEPT !.source = worker.source]
      BY DEF EndWork
  <2> QED BY <1>1, <2>1 DEF IdleWorker, Workers
<1> DEFINE e == Event("finished", NoFrame)
<1>3. e \in HostEvents /\ e.what = "finished" /\ e.frame = NoFrame
    BY DEF Event, HostEvents
<1>4. posted' = Append(posted, e) /\ sink' = [last |-> NoFrame, repeats |-> 0] /\ pools' = [native |-> {}, cpu |-> {}]
    BY DEF EndWork
<1> HIDE DEF e
<1>5. Unfinished(posted)
    BY <1>0 DEF WorkerOK
<1>6. /\ posted' \in Seq(HostEvents) /\ FinishesLast(posted')
      /\ \A g : FramesOf(posted, g) => FramesOf(posted', g)
      /\ EventFrames(posted') = EventFrames(posted) \cup {NoFrame}
  <2>1. /\ posted' \in Seq(HostEvents) /\ FinishesLast(posted')
        /\ EventFrames(posted') = EventFrames(posted) \cup {NoFrame}
      BY <1>0, <1>1, <1>3, <1>4, <1>5, AppendEvents DEF WorkerOK
  <2>2. \A g : FramesOf(posted, g) => FramesOf(posted', g)
      BY <1>1, <1>3, <1>4, AppendEvents
  <2> QED BY <2>1, <2>2
<1>7. HostTypeOK'
  <2>1. IsFiniteSet({})
      BY FS_EmptySet
  <2> QED BY <1>0, <1>2, <1>4, <1>6, <2>1 DEF HostTypeOK
<1>8. WorkerOK'
    BY <1>2, <1>4, <1>6 DEF WorkerOK
<1>9. SessionOK'
    BY <1>0, <1>2, <1>4, <1>6 DEF SessionOK
<1>10. HostLineOK' /\ \A n : UpTo(n) => Afterwards(n)
    BY <1>2, <1>3, <1>4, CaptureLine
<1>11. CleanOK'
    BY <1>2 DEF CleanOK
<1>12. StoreOK'
  <2>1. InEvents' \subseteq InEvents \cup {NoFrame}
      BY <1>6 DEF EventFrames, InEvents
  <2>2. \A f \in Frames' : f \in Frames \/ f = NoFrame
      BY <1>2, <1>4, <2>1 DEF Frames
  <2>3. \A f \in Frames' : f \in Frames \/ f.kind \notin {"native", "cpu"}
      BY <2>2 DEF NoFrame
  <2> QED BY <1>0, <1>4, <2>3, StoreStays
<1> QED BY <1>7, <1>8, <1>9, <1>10, <1>11, <1>12 DEF HostInv

LEMMA LoopingWorker ==
    ASSUME worker \in Workers
    PROVE  /\ Looping \in Workers /\ Looping.at = "looping" /\ Looping.frame = NoFrame /\ ~Looping.separate
           /\ Looping.source = worker.source /\ Looping.clean = worker.clean /\ Looping.count = worker.count
<1>1. Looping \in Workers
    BY DEF Workers, Looping
<1> QED BY <1>1 DEF Workers, Looping

\* The worker goes round again, and may post the last frame once more.
LEMMA TimeoutKeeps ==
    ASSUME HostInv, worker.at \in {"looping", "waiting"}, worker' = Looping, HandleCaptureTimeout,
           UNCHANGED <<path, pools, store, service, encoder>>, desktop' \in Nat, desktop <= desktop'
    PROVE  HostInv'
<1>0. HostTypeOK /\ WorkerOK /\ SessionOK /\ HostLineOK /\ CleanOK /\ StoreOK
    BY HostParts
<1>1. worker \in Workers /\ posted \in Seq(HostEvents) /\ desktop \in Nat
    BY <1>0 DEF HostTypeOK
<1>2. /\ worker' \in Workers /\ worker'.at = "looping" /\ worker'.frame = NoFrame /\ ~worker'.separate
      /\ worker'.source = worker.source /\ worker'.clean = worker.clean /\ worker'.count = worker.count
    BY <1>1, LoopingWorker
<1> DEFINE e == IF sink.last = NoFrame THEN Event("flush", NoFrame) ELSE Event("frame", sink.last)
<1>3. /\ e \in HostEvents /\ e.what # "finished" /\ (e.what = "frame" => e.frame = sink.last /\ sink.last # NoFrame)
      /\ e.frame = sink.last
  <2>1. sink.last \in PostedFrames \cup {NoFrame}
      BY <1>0 DEF HostTypeOK
  <2> QED BY <2>1 DEF Event, HostEvents
<1>4. /\ posted' = posted \/ posted' = Append(posted, e)
      /\ sink'.last = sink.last /\ sink' \in [last : PostedFrames \cup {NoFrame}, repeats : Nat]
  <2>1. sink \in [last : PostedFrames \cup {NoFrame}, repeats : Nat]
      BY <1>0 DEF HostTypeOK
  <2>2. CASE sink.last # NoFrame /\ sink' = [sink EXCEPT !.repeats = @ + 1] /\ posted' = Append(posted, Event("frame", sink.last))
      BY <2>1, <2>2
  <2>3. CASE UNCHANGED <<sink, posted>>
      BY <2>1, <2>3
  <2> QED BY <2>2, <2>3 DEF HandleCaptureTimeout
<1> HIDE DEF e
<1>5. sink.last # NoFrame => UpTo(sink.last.picture) /\ sink.last.picture <= desktop
  <2>1. sink.last \in FramesInLine
      BY DEF FramesInLine
  <2> QED BY <1>0, <2>1 DEF HostLineOK, UpTo, NoNewer
<1>6. /\ posted' \in Seq(HostEvents) /\ FinishesLast(posted') /\ Unfinished(posted')
      /\ EventFrames(posted') \subseteq EventFrames(posted) \cup {sink.last}
  <2>0. FinishesLast(posted) /\ Unfinished(posted)
      BY <1>0 DEF WorkerOK
  <2>1. CASE posted' = Append(posted, e)
      BY <1>1, <1>3, <2>0, <2>1, AppendEvents
  <2> QED BY <1>1, <1>4, <2>0, <2>1
<1>7. service.accepts => FramesOf(posted', path.generation)
  <2> SUFFICES ASSUME service.accepts PROVE FramesOf(posted', path.generation)
      OBVIOUS
  <2>1. FramesOf(posted, path.generation) /\ (e.what = "frame" => e.frame.from = path.generation)
      BY <1>0, <1>3 DEF SessionOK
  <2>2. FramesOf(Append(posted, e), path.generation)
      BY <1>1, <1>3, <2>1, AppendEvents
  <2> QED BY <1>4, <2>1, <2>2
<1>8. HostTypeOK'
    BY <1>0, <1>2, <1>4, <1>6 DEF HostTypeOK
<1>9. WorkerOK'
    BY <1>2, <1>6 DEF WorkerOK
<1>10. SessionOK'
    BY <1>0, <1>2, <1>4, <1>7 DEF SessionOK
<1>11. /\ HostLineOK'
       /\ \A n : UpTo(n) /\ (e.what = "frame" => e.frame.picture <= n) => Afterwards(n)
    BY <1>2, <1>3, <1>4, <1>5, CaptureLine
<1>12. CleanOK'
  <2>1. ASSUME worker.clean # 0 PROVE UpTo(worker.clean)' /\ worker.clean <= desktop'
    <3>1. UpTo(worker.clean) /\ worker.clean <= desktop /\ worker.clean \in Nat
        BY <1>0, <1>1, <2>1 DEF CleanOK, Workers
    <3>2. sink.last \in FramesInLine
        BY DEF FramesInLine
    <3>3. e.what = "frame" => e.frame.picture <= worker.clean
        BY <1>3, <3>1, <3>2 DEF UpTo, NoNewer
    <3>4. Afterwards(worker.clean)
        BY <1>11, <3>1, <3>3
    <3> QED BY <1>1, <1>2, <3>1, <3>4 DEF UpTo, Afterwards
  <2> QED BY <1>0, <1>2, <2>1 DEF CleanOK
<1>13. StoreOK'
  <2>1. InEvents' \subseteq InEvents \cup {sink.last}
      BY <1>6 DEF EventFrames, InEvents
  <2>2. \A f \in Frames' : f \in Frames \/ f = NoFrame
      BY <1>2, <1>4, <2>1 DEF Frames
  <2>3. \A f \in Frames' : f \in Frames \/ f.kind \notin {"native", "cpu"}
      BY <2>2 DEF NoFrame
  <2> QED BY <1>0, <2>3, StoreStays
<1> QED BY <1>8, <1>9, <1>10, <1>11, <1>12, <1>13 DEF HostInv

\* The worker has a frame of its own, which nobody else refers to yet.
LEMMA CapturedKeeps ==
    ASSUME HostInv, worker.at = "waiting", UNCHANGED <<sink, service, posted, encoder>>,
           path' \in Paths, path'.generation = path.generation, path'.separate = path.separate,
           pools' \in [native : SUBSET Nat, cpu : SUBSET Nat],
           IsFiniteSet(pools'.native), IsFiniteSet(pools'.cpu),
           desktop' \in Nat, desktop <= desktop', NEW p \in Nat, UpTo(p), p <= desktop',
           worker' \in Workers, worker'.at = "captured", worker'.source = worker.source,
           worker'.frame # NoFrame, worker'.frame.from = worker.source, worker'.frame.picture = p,
           ~worker'.separate, worker'.count > 0,
           \/ worker'.clean = worker.clean /\ (worker.clean # 0 => p <= worker.clean)
           \/ worker'.clean = p /\ ~worker.separate,
           StoreOK'
    PROVE  HostInv'
<1>0. HostTypeOK /\ WorkerOK /\ SessionOK /\ HostLineOK /\ CleanOK /\ StoreOK
    BY HostParts
<1>1. worker \in Workers /\ posted \in Seq(HostEvents) /\ desktop \in Nat
    BY <1>0 DEF HostTypeOK
<1>2. HostTypeOK'
    BY <1>0 DEF HostTypeOK
<1>3. WorkerOK'
    BY <1>0 DEF WorkerOK
<1>4. SessionOK'
    BY <1>0 DEF SessionOK
<1> DEFINE e == Event("flush", NoFrame)
<1>5. e \in HostEvents /\ e.what = "flush" /\ e.frame = NoFrame
    BY DEF Event, HostEvents
<1> HIDE DEF e
<1>6. HostLineOK' /\ \A n : UpTo(n) => Afterwards(n)
    BY <1>5, CaptureLine
<1>7. CleanOK'
  <2>1. Afterwards(p)
      BY <1>6
  <2>2. CASE worker'.clean = p /\ ~worker.separate
    <3>1. path.generation = worker.source => ~path.separate
        BY <1>0, <2>2 DEF CleanOK
    <3> QED BY <2>1, <2>2, <3>1 DEF CleanOK, UpTo, Afterwards
  <2>3. CASE worker'.clean = worker.clean /\ (worker.clean # 0 => p <= worker.clean)
    <3>1. ASSUME worker.clean # 0
          PROVE  UpTo(worker.clean)' /\ worker.clean <= desktop' /\ (path.generation = worker.source => ~path.separate)
      <4>1. UpTo(worker.clean) /\ worker.clean <= desktop /\ worker.clean \in Nat
          BY <1>0, <1>1, <3>1 DEF CleanOK, Workers
      <4>2. Afterwards(worker.clean)
          BY <1>6, <4>1
      <4>3. path.generation = worker.source => ~path.separate
          BY <1>0, <3>1 DEF CleanOK
      <4> QED BY <1>1, <2>3, <4>1, <4>2, <4>3 DEF UpTo, Afterwards
    <3> QED BY <2>3, <3>1 DEF CleanOK
  <2> QED BY <2>2, <2>3
<1> QED BY <1>2, <1>3, <1>4, <1>6, <1>7 DEF HostInv

\* The memory it was copied to is the worker's alone.
LEMMA BgraStore ==
    ASSUME HostInv, UNCHANGED <<store, pools, sink, service, posted, encoder>>, worker'.frame.kind = "bgra"
    PROVE  StoreOK'
<1>1. StoreOK
    BY HostParts
<1>2. InEvents' = InEvents
    BY DEF InEvents
<1>3. \A f \in Frames' : f \in Frames \/ f.kind \notin {"native", "cpu"}
    BY <1>2 DEF Frames
<1> QED BY <1>1, <1>3, StoreStays

LEMMA BgraFrames ==
    ASSUME NEW p \in Nat, worker \in Workers
    PROVE  /\ BgraFrame(p) \in CapturedFrames /\ BgraFrame(p) # NoFrame /\ BgraFrame(p).kind = "bgra"
           /\ BgraFrame(p).from = worker.source /\ BgraFrame(p).picture = p
<1>1. worker.source \in Nat
    BY DEF Workers
<1> QED BY <1>1 DEF BgraFrame, Frame, CapturedFrames, NoFrame

\* What Captures leaves the worker with.
LEMMA CapturesWorker ==
    ASSUME worker \in Workers, NEW f \in CapturedFrames, NEW p \in Nat, Captures(f, p)
    PROVE  /\ worker' \in Workers /\ worker'.at = "captured" /\ worker'.source = worker.source
           /\ worker'.frame = f /\ ~worker'.separate /\ worker'.count > 0
           /\ \/ worker'.clean = worker.clean /\ worker.separate
              \/ worker'.clean = p /\ ~worker.separate
<1> DEFINE m == worker.count + 1
           c == IF worker.separate THEN worker.clean ELSE p
<1>1. m \in Nat /\ m > 0 /\ c \in Nat
    BY DEF Workers
<1>2. \/ c = worker.clean /\ worker.separate
      \/ c = p /\ ~worker.separate
    OBVIOUS
<1>3. worker' = [worker EXCEPT !.at = "captured", !.count = m, !.frame = f, !.native = FALSE,
                               !.separate = FALSE, !.clean = c]
    BY DEF Captures
<1> HIDE DEF m, c
<1>4. worker' \in Workers
    BY <1>1, <1>3 DEF Workers
<1>5. /\ worker'.at = "captured" /\ worker'.source = worker.source /\ worker'.clean = c
      /\ worker'.frame = f /\ worker'.count = m
    BY <1>3 DEF Workers
<1>6. ~worker'.separate
    BY <1>3 DEF Workers
<1> QED BY <1>1, <1>2, <1>4, <1>5, <1>6

LEMMA CopiesToBgraKeeps ==
    ASSUME HostInv, NEW p \in {desktop, desktop + 1}, CanCopy(p), Captures(BgraFrame(p), p),
           path' \in Paths, path'.generation = path.generation, path'.separate = path.separate,
           UNCHANGED <<pools, store, sink, service, posted, encoder>>
    PROVE  HostInv'
<1>0. HostTypeOK /\ WorkerOK /\ SessionOK /\ HostLineOK /\ CleanOK /\ StoreOK
    BY HostParts
<1>1. worker \in Workers /\ desktop \in Nat /\ p \in Nat /\ desktop <= p
    BY <1>0 DEF HostTypeOK
<1>2. UpTo(p)
    BY <1>0, <1>1, UpToMore DEF HostLineOK
<1>3. worker.at = "waiting" /\ desktop' = p
    BY DEF CanCopy
<1>4. /\ worker' \in Workers /\ worker'.at = "captured" /\ worker'.source = worker.source
      /\ worker'.frame = BgraFrame(p) /\ ~worker'.separate /\ worker'.count > 0
      /\ \/ worker'.clean = worker.clean /\ worker.separate
         \/ worker'.clean = p /\ ~worker.separate
    BY <1>1, BgraFrames, CapturesWorker
<1>5. worker.separate => worker.clean = 0
    BY <1>0 DEF CleanOK
<1>6. StoreOK'
    BY <1>1, <1>4, BgraFrames, BgraStore
<1>7. pools' \in [native : SUBSET Nat, cpu : SUBSET Nat] /\ IsFiniteSet(pools'.native) /\ IsFiniteSet(pools'.cpu)
    BY <1>0 DEF HostTypeOK
<1> QED BY <1>1, <1>2, <1>3, <1>4, <1>5, <1>6, <1>7, BgraFrames, CapturedKeeps

LEMMA NothingNewKeeps ==
    ASSUME HostInv, NEW p \in {desktop, desktop + 1}, NothingNew(p)
    PROVE  HostInv'
<1>0. HostTypeOK /\ WorkerOK /\ SessionOK /\ HostLineOK /\ CleanOK /\ StoreOK
    BY HostParts
<1>1. /\ worker \in Workers /\ desktop \in Nat /\ p \in Nat /\ desktop <= p
      /\ path \in Paths /\ pools \in [native : SUBSET Nat, cpu : SUBSET Nat]
      /\ IsFiniteSet(pools.native) /\ IsFiniteSet(pools.cpu)
    BY <1>0 DEF HostTypeOK
<1>2. worker.at = "waiting" /\ UNCHANGED <<path, pools, store, service, encoder>>
    BY DEF NothingNew
<1>3. CASE /\ worker.count = 0 /\ desktop' = p /\ UNCHANGED <<sink, posted>>
           /\ worker' = [worker EXCEPT !.at = "captured", !.count = 1, !.frame = BgraFrame(p), !.separate = FALSE]
  <2>1. /\ BgraFrame(p) \in CapturedFrames /\ BgraFrame(p) # NoFrame /\ BgraFrame(p).kind = "bgra"
        /\ BgraFrame(p).from = worker.source /\ BgraFrame(p).picture = p
      BY <1>1, BgraFrames
  <2>2. worker' \in Workers
      BY <1>1, <1>3, <2>1 DEF Workers
  <2>3. /\ worker'.at = "captured" /\ worker'.source = worker.source /\ worker'.frame = BgraFrame(p)
        /\ worker'.count = 1 /\ worker'.clean = worker.clean
      BY <1>1, <1>3 DEF Workers
  <2>4. ~worker'.separate
      BY <1>1, <1>3 DEF Workers
  <2>5. worker.clean = 0
      BY <1>0, <1>3 DEF CleanOK
  <2>6. UpTo(p)
      BY <1>0, <1>1, UpToMore DEF HostLineOK
  <2>7. StoreOK'
      BY <1>2, <1>3, <2>1, <2>3, BgraStore
  <2> QED BY <1>1, <1>2, <1>3, <2>1, <2>2, <2>3, <2>4, <2>5, <2>6, <2>7, CapturedKeeps
<1>4. CASE worker' = Looping /\ HandleCaptureTimeout /\ UNCHANGED desktop
    BY <1>1, <1>2, <1>4, TimeoutKeeps
<1> QED BY <1>3, <1>4 DEF NothingNew

LEMMA PointerMovedKeeps ==
    ASSUME HostInv, PointerMoved
    PROVE  HostInv'
<1>0. HostTypeOK /\ WorkerOK /\ SessionOK /\ HostLineOK /\ CleanOK /\ StoreOK
    BY HostParts
<1>1. /\ worker \in Workers /\ desktop \in Nat /\ worker.clean \in Nat
      /\ path \in Paths /\ pools \in [native : SUBSET Nat, cpu : SUBSET Nat]
      /\ IsFiniteSet(pools.native) /\ IsFiniteSet(pools.cpu)
    BY <1>0 DEF HostTypeOK, Workers
<1>2. worker.at = "waiting" /\ UNCHANGED <<path, desktop, pools, store, service, encoder>>
    BY DEF PointerMoved
<1>3. CASE /\ ~worker.separate /\ worker.clean # 0 /\ UNCHANGED <<sink, posted>>
           /\ worker' = [worker EXCEPT !.at = "captured", !.count = @ + 1, !.frame = BgraFrame(worker.clean)]
  <2> DEFINE m == worker.count + 1
  <2>0. m \in Nat /\ m > 0
      BY <1>1 DEF Workers
  <2>1. /\ BgraFrame(worker.clean) \in CapturedFrames /\ BgraFrame(worker.clean) # NoFrame
        /\ BgraFrame(worker.clean).kind = "bgra"
        /\ BgraFrame(worker.clean).from = worker.source /\ BgraFrame(worker.clean).picture = worker.clean
      BY <1>1, BgraFrames
  <2>2. worker' = [worker EXCEPT !.at = "captured", !.count = m, !.frame = BgraFrame(worker.clean)]
      BY <1>3
  <2> HIDE DEF m
  <2>3. worker' \in Workers
      BY <1>1, <2>0, <2>1, <2>2 DEF Workers
  <2>4. /\ worker'.at = "captured" /\ worker'.source = worker.source /\ worker'.frame = BgraFrame(worker.clean)
        /\ worker'.count = m /\ worker'.clean = worker.clean /\ worker'.separate = worker.separate
      BY <1>1, <2>2 DEF Workers
  <2>5. UpTo(worker.clean) /\ worker.clean <= desktop
      BY <1>0, <1>3 DEF CleanOK
  <2>6. StoreOK'
      BY <1>2, <1>3, <2>1, <2>4, BgraStore
  <2> QED BY <1>1, <1>2, <1>3, <2>0, <2>1, <2>3, <2>4, <2>5, <2>6, CapturedKeeps
<1>4. CASE worker' = Looping /\ HandleCaptureTimeout
    BY <1>1, <1>2, <1>4, TimeoutKeeps
<1> QED BY <1>3, <1>4 DEF PointerMoved

LEMMA CopiedToBgraKeeps ==
    ASSUME HostInv, NEW p \in {desktop, desktop + 1}, CopiedToBgra(p)
    PROVE  HostInv'
<1>1. path \in Paths
    BY HostParts DEF HostTypeOK
<1> QED BY <1>1, CopiesToBgraKeeps DEF CopiedToBgra

LEMMA NativeCopyFailsKeeps ==
    ASSUME HostInv, NEW p \in {desktop, desktop + 1}, NativeCopyFails(p)
    PROVE  HostInv'
<1>1. path \in Paths /\ desktop \in Nat
    BY HostParts DEF HostTypeOK
<1>2. CanCopy(p) /\ UNCHANGED <<store, service, encoder>>
    BY DEF NativeCopyFails
<1>3. path' = path \/ path' = FallenBack(path.generation)
    BY DEF NativeCopyFails
<1>4. path' \in Paths /\ path'.generation = path.generation /\ path'.separate = path.separate
    BY <1>1, <1>3, PathSteps
<1>5. CASE Captures(BgraFrame(p), p) /\ UNCHANGED <<sink, posted, pools>>
    BY <1>2, <1>4, <1>5, CopiesToBgraKeeps
<1>6. CASE EndWork
  <2>1. worker.at = "waiting" /\ desktop' \in Nat /\ desktop <= desktop'
      BY <1>1, <1>2 DEF CanCopy
  <2> QED BY <1>2, <1>4, <1>6, <2>1, EndWorkKeeps
<1> QED BY <1>5, <1>6 DEF NativeCopyFails

LEMMA SourceLostKeeps ==
    ASSUME HostInv, SourceLost
    PROVE  HostInv'
<1>1. path \in Paths /\ desktop \in Nat
    BY HostParts DEF HostTypeOK
<1>2. worker.at = "waiting" /\ EndWork /\ UNCHANGED <<path, desktop, store, service, encoder>>
    BY DEF SourceLost
<1>3. desktop' \in Nat /\ desktop <= desktop'
    BY <1>1, <1>2
<1> QED BY <1>1, <1>2, <1>3, EndWorkKeeps

\* The worker goes on without a frame: it looks at the path, or begins to.
LEMMA WorkerMoves ==
    ASSUME HostInv, worker.at \in {"starting", "looping"}, UNCHANGED <<desktop, pools, store, sink, service, posted, encoder>>,
           path' \in Paths, path'.generation = path.generation, path'.separate = path.separate,
           worker' \in Workers, worker'.at \in {"looping", "waiting"},
           worker'.frame \in {worker.frame, NoFrame},
           worker'.source \in {worker.source, path.generation},
           worker.at = "starting" => worker'.source = path.generation,
           worker'.at = "waiting" => worker'.source = path.generation,
           worker'.clean = worker.clean, worker'.count = worker.count,
           worker'.source # worker.source => worker.clean = 0,
           worker'.separate => path.separate /\ worker'.at = "waiting",
           worker'.at = "waiting" /\ path.separate => worker'.separate
    PROVE  HostInv'
<1>0. HostTypeOK /\ WorkerOK /\ SessionOK /\ HostLineOK /\ CleanOK /\ StoreOK
    BY HostParts
<1>1. worker \in Workers /\ posted \in Seq(HostEvents) /\ path.generation \in Nat
    BY <1>0 DEF HostTypeOK, Paths
<1>2. HostTypeOK'
    BY <1>0 DEF HostTypeOK
<1>3. WorkerOK'
    BY <1>0 DEF WorkerOK
<1>4. SessionOK'
    BY <1>0, <1>1 DEF SessionOK
<1> DEFINE e == Event("flush", NoFrame)
<1>5. e \in HostEvents /\ e.what = "flush" /\ e.frame = NoFrame /\ desktop \in Nat
    BY <1>0 DEF Event, HostEvents, HostTypeOK
<1> HIDE DEF e
<1>6. HostLineOK' /\ \A n : UpTo(n) => Afterwards(n)
    BY <1>5, CaptureLine
<1>7. CleanOK'
  <2>1. ASSUME worker.clean # 0
        PROVE  /\ UpTo(worker.clean)' /\ worker.clean <= desktop' /\ worker.count > 0
               /\ worker'.source = worker.source /\ (path.generation = worker.source => ~path.separate)
    <3>1. UpTo(worker.clean)
        BY <1>0, <2>1 DEF CleanOK
    <3>2. Afterwards(worker.clean)
        BY <1>6, <3>1
    <3> QED BY <1>0, <2>1, <3>2 DEF CleanOK, UpTo, Afterwards
  <2>2. worker.clean # 0 => ~worker'.separate
      BY <2>1
  <2> QED BY <2>1, <2>2 DEF CleanOK
<1>8. StoreOK'
  <2>1. InEvents' = InEvents
      BY DEF InEvents
  <2>2. \A f \in Frames' : f \in Frames \/ f = NoFrame
      BY <2>1 DEF Frames
  <2>3. \A f \in Frames' : f \in Frames \/ f.kind \notin {"native", "cpu"}
      BY <2>2 DEF NoFrame
  <2> QED BY <1>0, <2>3, StoreStays
<1> QED BY <1>2, <1>3, <1>4, <1>6, <1>7, <1>8 DEF HostInv

LEMMA StartWorkKeeps ==
    ASSUME HostInv, StartWork
    PROVE  HostInv'
<1>0. path \in Paths /\ desktop \in Nat /\ worker \in Workers /\ path.generation \in Nat
    BY HostParts DEF HostTypeOK, Paths
<1>1. worker.at = "starting" /\ UNCHANGED <<desktop, store, service, encoder>>
    BY DEF StartWork
<1>2. /\ path' = path \/ path' = FallenBack(path.generation)
      /\ \/ EndWork
         \/ /\ worker' = [worker EXCEPT !.at = "looping", !.running = TRUE, !.source = path.generation]
            /\ UNCHANGED <<sink, pools, posted>>
    BY Zenon DEF StartWork
<1>3. path' \in Paths /\ path'.generation = path.generation /\ path'.separate = path.separate
    BY <1>0, <1>2, PathSteps
<1>4. CASE EndWork
  <2>1. desktop' \in Nat /\ desktop <= desktop'
      BY <1>0, <1>1
  <2> QED BY <1>1, <1>3, <1>4, <2>1, EndWorkKeeps
<1>5. CASE /\ worker' = [worker EXCEPT !.at = "looping", !.running = TRUE, !.source = path.generation]
           /\ UNCHANGED <<sink, pools, posted>>
  <2>1. worker' \in Workers
      BY <1>0, <1>5 DEF Workers
  <2>2. /\ worker'.at = "looping" /\ worker'.frame = worker.frame /\ worker'.source = path.generation
        /\ worker'.clean = worker.clean /\ worker'.count = worker.count
      BY <1>0, <1>5 DEF Workers
  <2>3. worker'.separate = worker.separate
      BY <1>0, <1>5 DEF Workers
  <2>4. worker.clean = 0 /\ ~worker.separate
      BY <1>1, HostParts DEF CleanOK
  <2> QED BY <1>1, <1>3, <1>5, <2>1, <2>2, <2>3, <2>4, WorkerMoves
<1> QED BY <1>2, <1>4, <1>5

LEMMA CaptureBeginsKeeps ==
    ASSUME HostInv, CaptureBegins
    PROVE  HostInv'
<1>0. path \in Paths /\ path.separate \in BOOLEAN /\ desktop \in Nat /\ worker \in Workers
    BY HostParts DEF HostTypeOK, Paths
<1>1. worker.at = "looping" /\ UNCHANGED <<path, desktop, store, service, encoder>>
    BY DEF CaptureBegins
<1>2. desktop' \in Nat /\ desktop <= desktop'
    BY <1>0, <1>1
<1>3. CASE EndWork
    BY <1>0, <1>1, <1>2, <1>3, EndWorkKeeps
<1>4. CASE UNCHANGED pools /\ worker' = Looping /\ HandleCaptureTimeout
    BY <1>1, <1>2, <1>4, TimeoutKeeps
<1>5. CASE /\ UNCHANGED <<pools, sink, posted>> /\ path.generation = worker.source
           /\ worker' = [Looping EXCEPT !.at = "waiting", !.separate = path.separate,
                        !.native = pathMode # "cpu" /\ path.decision # "cpu" /\ path.separate]
  <2> DEFINE native == pathMode # "cpu" /\ path.decision # "cpu" /\ path.separate
  <2>0. native \in BOOLEAN
      OBVIOUS
  <2>1. worker' = [Looping EXCEPT !.at = "waiting", !.separate = path.separate, !.native = native]
      BY <1>5
  <2>2. /\ Looping \in Workers /\ Looping.frame = NoFrame
        /\ Looping.source = worker.source /\ Looping.clean = worker.clean /\ Looping.count = worker.count
      BY <1>0, LoopingWorker
  <2> HIDE DEF native, Looping
  <2>3. worker' \in Workers
      BY <1>0, <2>0, <2>1, <2>2 DEF Workers
  <2>4. /\ worker'.at = "waiting" /\ worker'.frame = NoFrame /\ worker'.source = worker.source
        /\ worker'.clean = worker.clean /\ worker'.count = worker.count
      BY <2>1, <2>2 DEF Workers
  <2>5. worker'.separate = path.separate
      BY <2>1, <2>2 DEF Workers
  <2> QED BY <1>0, <1>1, <1>5, <2>3, <2>4, <2>5, WorkerMoves
<1> QED BY <1>3, <1>4, <1>5 DEF CaptureBegins

LEMMA AcquiredInPool ==
    ASSUME HostTypeOK, NEW pool \in SUBSET (pools.native \cup pools.cpu), NEW frames, NEW b \in Acquired(pool, frames)
    PROVE  b \in pool \/ b = NewBuffer
<1> DEFINE released == pool \ HeldIn(frames)
<1>1. CASE released # {}
  <2>1. b \in released
      BY <1>1 DEF Acquired
  <2> QED BY <2>1
<1>2. CASE released = {}
    BY <1>2 DEF Acquired
<1> QED BY <1>1, <1>2

LEMMA CopiedToNativeKeeps ==
    ASSUME HostInv, NEW p \in {desktop, desktop + 1}, CopiedToNative(p)
    PROVE  HostInv'
<1>0. HostTypeOK /\ WorkerOK /\ SessionOK /\ HostLineOK /\ CleanOK /\ StoreOK
    BY HostParts
<1>1. /\ worker \in Workers /\ desktop \in Nat /\ p \in Nat /\ desktop <= p
      /\ path \in Paths /\ path.generation \in Nat /\ pools \in [native : SUBSET Nat, cpu : SUBSET Nat]
      /\ IsFiniteSet(pools.native) /\ IsFiniteSet(pools.cpu) /\ worker.source \in Nat
    BY <1>0 DEF HostTypeOK, Paths, Workers
<1>2. worker.at = "waiting" /\ desktop' = p /\ UNCHANGED <<path, service, encoder>>
    BY DEF CopiedToNative, CanCopy
<1> DEFINE pool == {b \in pools.native : worker.source = path.generation}
           taken == Acquired(pool, Frames)
<1>3. pool \subseteq pools.native /\ IsFiniteSet(pool)
    BY <1>1, FS_Subset
<1>4. ASSUME NEW b \in taken,
             pools' = [pools EXCEPT !.native = pool \cup {b}],
             store' = Refilled(b, p),
             Captures(Frame("native", b, p, path.generation, worker.source), p),
             UNCHANGED <<sink, posted>>
      PROVE  HostInv'
  <2> DEFINE x == Frame("native", b, p, path.generation, worker.source)
  <2>1. b \in Nat /\ b \notin HeldIn(Frames)
      BY <1>0, <1>3, AcquiredIsFree
  <2>2. /\ x \in CapturedFrames /\ x # NoFrame /\ x.kind = "native" /\ x.buffer = b
        /\ x.from = worker.source /\ x.picture = p
      BY <1>1, <2>1 DEF Frame, CapturedFrames, NoFrame
  <2>3. /\ worker' \in Workers /\ worker'.at = "captured" /\ worker'.source = worker.source
        /\ worker'.frame = x /\ ~worker'.separate /\ worker'.count > 0
        /\ \/ worker'.clean = worker.clean /\ worker.separate
           \/ worker'.clean = p /\ ~worker.separate
      BY <1>1, <1>4, <2>2, CapturesWorker
  <2>4. worker.separate => worker.clean = 0
      BY <1>0 DEF CleanOK
  <2>5. UpTo(p)
      BY <1>0, <1>1, UpToMore DEF HostLineOK
  <2> HIDE DEF pool, taken, x
  <2>6. pools'.native = pool \cup {b} /\ pools'.cpu = pools.cpu
      BY <1>1, <1>4
  <2>7. IsFiniteSet(pool \cup {b})
      BY <1>3, FS_AddElement
  <2>8. pools' \in [native : SUBSET Nat, cpu : SUBSET Nat]
      BY <1>1, <1>3, <1>4, <2>1
  <2>9. StoreOK'
    <3>1. \A f \in Frames : f.kind \in {"native", "cpu"} => f.buffer # b
        BY <2>1 DEF HeldIn
    <3>2. InEvents' = InEvents
        BY <1>4 DEF InEvents
    <3>3. \A f \in Frames' : f = x \/ f \in Frames
        BY <1>2, <1>4, <2>3, <3>2 DEF Frames
    <3>4. \A f \in Frames' : \/ f = x
                             \/ f \in Frames /\ (f.kind \in {"native", "cpu"} => f.buffer # b)
                             \/ f.kind \notin {"native", "cpu"}
        BY <3>1, <3>3
    <3>5. pools'.native \subseteq pools.native \cup {b} /\ pools'.cpu \subseteq pools.cpu \cup {b}
        BY <1>3, <2>6
    <3> QED BY <1>0, <1>4, <2>2, <3>4, <3>5, StoreRefilled
  <2>10. desktop' \in Nat /\ desktop <= desktop' /\ p <= desktop'
      BY <1>1, <1>2
  <2>11. UNCHANGED <<sink, service, posted, encoder>> /\ path' \in Paths /\ path'.generation = path.generation
         /\ path'.separate = path.separate
      BY <1>1, <1>2, <1>4
  <2>12. /\ worker'.frame # NoFrame /\ worker'.frame.from = worker.source /\ worker'.frame.picture = p
         /\ \/ worker'.clean = worker.clean /\ (worker.clean # 0 => p <= worker.clean)
            \/ worker'.clean = p /\ ~worker.separate
      BY <2>2, <2>3, <2>4
  <2>13. IsFiniteSet(pools'.native) /\ IsFiniteSet(pools'.cpu)
      BY <1>1, <2>6, <2>7
  <2> QED BY <1>1, <1>2, <2>3, <2>5, <2>8, <2>9, <2>10, <2>11, <2>12, <2>13, CapturedKeeps
<1>5. CASE worker' = Looping /\ HandleCaptureTimeout /\ UNCHANGED <<pools, store>>
  <2>1. desktop' \in Nat /\ desktop <= desktop'
      BY <1>1, <1>2
  <2> QED BY <1>2, <1>5, <2>1, TimeoutKeeps
<1> HIDE DEF pool, taken
<1> QED BY <1>4, <1>5 DEF CopiedToNative, pool, taken

\* The worker's frame is posted and becomes the sink's last.
LEMMA PostsKeeps ==
    ASSUME HostInv, worker.at = "captured", UNCHANGED <<path, desktop, service, encoder>>,
           NEW x \in PostedFrames, x.picture = worker.frame.picture, x.from = worker.frame.from,
           posted' = Append(posted, Event("frame", x)), sink' = [sink EXCEPT !.last = x],
           worker' \in Workers, worker'.at = "looping", worker'.frame = NoFrame \/ worker'.frame.kind = "native",
           worker'.source = worker.source, worker'.clean = worker.clean, worker'.count = worker.count,
           ~worker'.separate,
           pools' \in [native : SUBSET Nat, cpu : SUBSET Nat],
           IsFiniteSet(pools'.native), IsFiniteSet(pools'.cpu),
           StoreOK'
    PROVE  HostInv'
<1>0. HostTypeOK /\ WorkerOK /\ SessionOK /\ HostLineOK /\ CleanOK /\ StoreOK
    BY HostParts
<1>1. /\ worker \in Workers /\ posted \in Seq(HostEvents) /\ desktop \in Nat
      /\ sink \in [last : PostedFrames \cup {NoFrame}, repeats : Nat]
    BY <1>0 DEF HostTypeOK
<1> DEFINE e == Event("frame", x)
<1>2. e \in HostEvents /\ e.what = "frame" /\ e.frame = x
    BY DEF Event, HostEvents
<1>3. posted' = Append(posted, e)
    OBVIOUS
<1> HIDE DEF e
<1>4. sink' \in [last : PostedFrames \cup {NoFrame}, repeats : Nat] /\ sink'.last = x
    BY <1>1
<1>5. x.from = worker.source /\ UpTo(x.picture) /\ x.picture <= desktop
    BY <1>0 DEF WorkerOK, HostLineOK
<1>6. posted' \in Seq(HostEvents) /\ FinishesLast(posted') /\ Unfinished(posted')
  <2>1. FinishesLast(posted) /\ Unfinished(posted)
      BY <1>0 DEF WorkerOK
  <2> QED BY <1>1, <1>2, <1>3, <2>1, AppendEvents
<1>7. service.accepts => FramesOf(posted', path.generation) /\ x.from = path.generation
  <2> SUFFICES ASSUME service.accepts PROVE FramesOf(posted', path.generation) /\ x.from = path.generation
      OBVIOUS
  <2>1. FramesOf(posted, path.generation) /\ x.from = path.generation
      BY <1>0, <1>5 DEF SessionOK
  <2> QED BY <1>1, <1>2, <1>3, <2>1, AppendEvents
<1>8. HostTypeOK'
    BY <1>0, <1>4, <1>6 DEF HostTypeOK
<1>9. WorkerOK'
    BY <1>6 DEF WorkerOK
<1>10. SessionOK'
    BY <1>0, <1>4, <1>7 DEF SessionOK
<1>11. /\ HostLineOK'
       /\ \A n : UpTo(n) /\ (e.what = "frame" => e.frame.picture <= n) => Afterwards(n)
    BY <1>1, <1>2, <1>3, <1>4, <1>5, CaptureLine
<1>12. CleanOK'
  <2>1. ASSUME worker.clean # 0 PROVE UpTo(worker.clean)' /\ worker.clean <= desktop'
    <3>1. UpTo(worker.clean) /\ worker.clean <= desktop /\ worker.frame.picture <= worker.clean
        BY <1>0, <2>1 DEF CleanOK
    <3>2. Afterwards(worker.clean)
        BY <1>2, <1>11, <3>1
    <3> QED BY <3>1, <3>2 DEF UpTo, Afterwards
  <2> QED BY <1>0, <2>1 DEF CleanOK
<1> QED BY <1>8, <1>9, <1>10, <1>11, <1>12 DEF HostInv

LEMMA ProcessFrameKeeps ==
    ASSUME HostInv, ProcessFrame
    PROVE  HostInv'
<1>0. HostTypeOK /\ WorkerOK /\ SessionOK /\ HostLineOK /\ CleanOK /\ StoreOK
    BY HostParts
<1>1. /\ worker \in Workers /\ pools \in [native : SUBSET Nat, cpu : SUBSET Nat]
      /\ IsFiniteSet(pools.native) /\ IsFiniteSet(pools.cpu) /\ desktop \in Nat
      /\ sink \in [last : PostedFrames \cup {NoFrame}, repeats : Nat]
      /\ posted \in Seq(HostEvents)
    BY <1>0 DEF HostTypeOK
<1>2. worker.at = "captured" /\ UNCHANGED <<path, desktop, service, encoder>>
    BY DEF ProcessFrame
<1>3. worker.frame \in CapturedFrames /\ ~worker.separate
  <2>1. worker.frame # NoFrame /\ worker.frame \in CapturedFrames \cup {NoFrame}
      BY <1>0, <1>1, <1>2 DEF WorkerOK, Workers
  <2> QED BY <1>0, <1>2, <2>1 DEF CleanOK
<1>4. CASE /\ worker.frame.kind # "bgra"
           /\ posted' = Append(posted, Event("frame", worker.frame)) /\ sink' = [sink EXCEPT !.last = worker.frame]
           /\ worker' = [worker EXCEPT !.at = "looping"]
           /\ UNCHANGED <<pools, store>>
  <2>1. worker.frame \in PostedFrames /\ worker.frame.kind = "native"
      BY <1>3, <1>4 DEF CapturedFrames, PostedFrames
  <2>2. worker' \in Workers
      BY <1>1, <1>4 DEF Workers
  <2>3. /\ worker'.at = "looping" /\ worker'.frame = worker.frame
        /\ worker'.source = worker.source /\ worker'.clean = worker.clean /\ worker'.count = worker.count
      BY <1>1, <1>4 DEF Workers
  <2>4. worker'.separate = worker.separate
      BY <1>1, <1>4 DEF Workers
  <2>5. Event("frame", worker.frame) \in HostEvents /\ Event("frame", worker.frame).frame = worker.frame
      BY <2>1 DEF Event, HostEvents
  <2>6. StoreOK'
    <3>1. EventFrames(posted') = EventFrames(posted) \cup {worker.frame}
        BY <1>1, <1>4, <2>5, AppendEvents
    <3>2. InEvents' = InEvents \cup {worker.frame}
        BY <3>1 DEF InEvents, EventFrames
    <3>3. sink'.last = worker.frame
        BY <1>1, <1>4
    <3>4. \A f \in Frames' : f \in Frames
        BY <1>2, <2>3, <3>2, <3>3 DEF Frames
    <3> QED BY <1>0, <1>4, <3>4, StoreStays
  <2> QED BY <1>1, <1>2, <1>3, <1>4, <2>1, <2>2, <2>3, <2>4, <2>6, PostsKeeps
<1> DEFINE others == InEvents \cup {service.latest, encoder.queue, encoder.frame}
           taken == Acquired(pools.cpu, IF pools.cpu \subseteq HeldIn(Frames) THEN others ELSE Frames)
<1>5. /\ Looping \in Workers /\ Looping.at = "looping" /\ Looping.frame = NoFrame /\ ~Looping.separate
      /\ Looping.source = worker.source /\ Looping.clean = worker.clean /\ Looping.count = worker.count
    BY <1>1, LoopingWorker
<1>6. ASSUME NEW b \in taken, worker.frame.kind = "bgra",
             pools' = [pools EXCEPT !.cpu = @ \cup {b}],
             store' = Refilled(b, worker.frame.picture),
             posted' = Append(posted, Event("frame", [worker.frame EXCEPT !.kind = "cpu", !.buffer = b])),
             sink' = [sink EXCEPT !.last = [worker.frame EXCEPT !.kind = "cpu", !.buffer = b]],
             worker' = Looping
      PROVE  HostInv'
  <2> DEFINE x == [worker.frame EXCEPT !.kind = "cpu", !.buffer = b]
  <2>1. b \in Nat /\ b \notin HeldIn(others)
    <3>1. others \subseteq Frames
        BY DEF Frames
    <3>2. HeldIn(others) \subseteq HeldIn(Frames)
        BY <3>1 DEF HeldIn
    <3>3. CASE b \in Acquired(pools.cpu, Frames)
        BY <1>0, <3>2, <3>3, AcquiredIsFree
    <3>4. CASE b \in Acquired(pools.cpu, others)
        BY <1>0, <3>1, <3>4, AcquiredIsFree
    <3> QED BY <1>6, <3>3, <3>4
  <2> HIDE DEF taken
  <2>2. /\ x \in PostedFrames /\ x.kind = "cpu" /\ x.buffer = b
        /\ x.from = worker.frame.from /\ x.picture = worker.frame.picture
      BY <1>3, <2>1 DEF CapturedFrames, PostedFrames
  <2>3. posted' = Append(posted, Event("frame", x)) /\ sink' = [sink EXCEPT !.last = x]
      BY <1>6
  <2> HIDE DEF x
  <2>4. Event("frame", x) \in HostEvents /\ Event("frame", x).frame = x
      BY <2>2 DEF Event, HostEvents
  <2>5. pools'.cpu = pools.cpu \cup {b} /\ pools'.native = pools.native
      BY <1>1, <1>6
  <2>6. pools' \in [native : SUBSET Nat, cpu : SUBSET Nat]
      BY <1>1, <1>6, <2>1
  <2>7. IsFiniteSet(pools'.native) /\ IsFiniteSet(pools'.cpu)
    <3>1. IsFiniteSet(pools.cpu \cup {b})
        BY <1>1, FS_AddElement
    <3> QED BY <1>1, <2>5, <3>1
  <2>8. StoreOK'
    <3>1. EventFrames(posted') = EventFrames(posted) \cup {x}
        BY <1>1, <2>3, <2>4, AppendEvents
    <3>2. InEvents' = InEvents \cup {x}
        BY <3>1 DEF InEvents, EventFrames
    <3>3. sink'.last = x
        BY <1>1, <2>3
    <3>4. worker'.frame = NoFrame
        BY <1>5, <1>6
    <3>5. \A f \in Frames' : f = x \/ f = NoFrame \/ f \in others
        BY <1>2, <3>2, <3>3, <3>4 DEF Frames
    <3>6. \A f \in others : f.kind \in {"native", "cpu"} => f.buffer # b
        BY <2>1 DEF HeldIn
    <3>7. others \subseteq Frames /\ NoFrame.kind \notin {"native", "cpu"}
        BY DEF Frames, NoFrame
    <3> HIDE DEF others
    <3>8. \A f \in Frames' : \/ f = x
                             \/ f \in Frames /\ (f.kind \in {"native", "cpu"} => f.buffer # b)
                             \/ f.kind \notin {"native", "cpu"}
        BY <3>5, <3>6, <3>7
    <3>9. pools'.native \subseteq pools.native \cup {b} /\ pools'.cpu \subseteq pools.cpu \cup {b}
        BY <2>5
    <3> QED BY <1>0, <1>6, <2>2, <3>8, <3>9, StoreRefilled
  <2> QED BY <1>1, <1>2, <1>5, <1>6, <2>2, <2>3, <2>6, <2>7, <2>8, PostsKeeps
<1>7. CASE sink' = [sink EXCEPT !.last = NoFrame] /\ worker' = Looping /\ UNCHANGED <<pools, store, posted>>
  <2>1. sink' \in [last : PostedFrames \cup {NoFrame}, repeats : Nat] /\ sink'.last = NoFrame
      BY <1>1, <1>7
  <2>2. HostTypeOK'
      BY <1>0, <1>2, <1>5, <1>7, <2>1 DEF HostTypeOK
  <2>3. WorkerOK'
      BY <1>0, <1>2, <1>5, <1>7, <2>1 DEF WorkerOK
  <2>4. SessionOK'
      BY <1>0, <1>2, <1>5, <1>7, <2>1 DEF SessionOK
  <2> DEFINE e == Event("flush", NoFrame)
  <2>5. e \in HostEvents /\ e.what = "flush" /\ e.frame = NoFrame
      BY DEF Event, HostEvents
  <2> HIDE DEF e
  <2>6. HostLineOK' /\ \A n : UpTo(n) => Afterwards(n)
      BY <1>1, <1>2, <1>5, <1>7, <2>1, <2>5, CaptureLine
  <2>7. CleanOK'
    <3>1. worker.clean # 0 => UpTo(worker.clean)'
        BY <1>0, <1>5, <1>7, <2>6 DEF CleanOK, UpTo, Afterwards
    <3> QED BY <1>0, <1>2, <1>5, <1>7, <3>1 DEF CleanOK
  <2>8. StoreOK'
    <3>1. InEvents' = InEvents
        BY <1>7 DEF InEvents
    <3>2. \A f \in Frames' : f \in Frames \/ f = NoFrame
        BY <1>2, <1>5, <1>7, <2>1, <3>1 DEF Frames
    <3>3. \A f \in Frames' : f \in Frames \/ f.kind \notin {"native", "cpu"}
        BY <3>2 DEF NoFrame
    <3> QED BY <1>0, <1>7, <3>3, StoreStays
  <2> QED BY <2>2, <2>3, <2>4, <2>6, <2>7, <2>8 DEF HostInv
<1>8. CASE EndWork /\ UNCHANGED store
  <2>1. path \in Paths /\ desktop' \in Nat /\ desktop <= desktop'
      BY <1>0, <1>1, <1>2 DEF HostTypeOK
  <2> QED BY <1>2, <1>8, <2>1, EndWorkKeeps
<1> HIDE DEF others, taken
<1> QED BY <1>4, <1>6, <1>7, <1>8 DEF ProcessFrame, others, taken

------------------------------------------------------------------------------
LEMMA InitHost == VideoInit => HostInv
<1> SUFFICES ASSUME VideoInit PROVE HostInv
    OBVIOUS
<1>0. IsFiniteSet({})
    BY FS_EmptySet
<1>1. path \in Paths /\ path.generation = 0
    BY DEF VideoInit, NewPath, Paths
<1>2. /\ worker \in Workers /\ worker.at = "none" /\ worker.frame = NoFrame /\ worker.clean = 0
      /\ ~worker.separate /\ worker.source = 0
    BY IdleWorkers DEF VideoInit
<1>3. /\ encoder \in Encoders /\ encoder.generation = 0 /\ encoder.at = "closed"
      /\ encoder.queue = NoFrame /\ encoder.frame = NoFrame /\ encoder.shown = 0
    BY DEF VideoInit, ClosedEncoder, Encoders
<1>4. service \in Services /\ ~service.accepts /\ service.latest = NoFrame
    BY DEF VideoInit, Services
<1>5. /\ posted = <<>> /\ posted \in Seq(HostEvents) /\ sink.last = NoFrame /\ desktop = 1
      /\ pools = [native |-> {}, cpu |-> {}] /\ store = <<>>
      /\ sink \in [last : PostedFrames \cup {NoFrame}, repeats : Nat]
    BY DEF VideoInit
<1>6. HostTypeOK
    BY <1>0, <1>1, <1>2, <1>3, <1>4, <1>5 DEF HostTypeOK
<1>7. OnlyFlushes(posted) /\ Unfinished(posted) /\ FinishesLast(posted) /\ InEvents = {}
    BY <1>5 DEF OnlyFlushes, Unfinished, FinishesLast, InEvents
<1>8. WorkerOK
    BY <1>2, <1>5, <1>7 DEF WorkerOK
<1>9. SessionOK
    BY <1>1, <1>2, <1>3, <1>4 DEF SessionOK
<1>10. HostLineOK
  <2>1. Climbs(encoder, service.latest, posted)
      BY <1>3, <1>4, <1>5 DEF Climbs
  <2>2. UpTo(desktop)
      BY <1>3, <1>4, <1>5, <1>7 DEF UpTo, NoNewer, FramesInLine
  <2> QED BY <1>2, <1>5, <2>1, <2>2 DEF HostLineOK
<1>11. CleanOK
    BY <1>2 DEF CleanOK
<1>12. StoreOK
  <2>1. Frames = {NoFrame}
      BY <1>2, <1>3, <1>4, <1>5, <1>7 DEF Frames
  <2>2. HeldIn({NoFrame}) = {}
      BY DEF HeldIn, NoFrame
  <2>3. BuffersInUse = {}
      BY <1>5, <2>1, <2>2 DEF BuffersInUse, Held
  <2> QED BY <2>1, <2>3 DEF StoreOK, BuffersAreKept, NoFrame
<1> QED BY <1>6, <1>8, <1>9, <1>10, <1>11, <1>12 DEF HostInv

LEMMA NextKeepsHost == HostInv /\ [VideoNext]_videoVars => HostInv'
<1> SUFFICES ASSUME HostInv, [VideoNext]_videoVars PROVE HostInv'
    OBVIOUS
<1>1. CASE \E separate \in BOOLEAN : BeginSession(separate)
    BY <1>1, BeginSessionKeeps
<1>2. CASE StartCapture \/ RequestStopCapture \/ ClearWorker
    BY <1>2, StartCaptureKeeps, RequestStopCaptureKeeps, ClearWorkerKeeps
<1>3. CASE EnqueueWebRtcFrame \/ FlushLatestWebRtcFrame
    BY <1>3, EnqueueWebRtcFrameKeeps, FlushLatestWebRtcFrameKeeps
<1>4. CASE StartWork \/ CaptureBegins \/ PointerMoved \/ SourceLost \/ ProcessFrame
    BY <1>4, StartWorkKeeps, CaptureBeginsKeeps, PointerMovedKeeps, SourceLostKeeps, ProcessFrameKeeps
<1>5. ASSUME NEW picture \in {desktop, desktop + 1},
             \/ NothingNew(picture) \/ CopiedToBgra(picture)
             \/ CopiedToNative(picture) \/ NativeCopyFails(picture)
      PROVE  HostInv'
    BY <1>5, NothingNewKeeps, CopiedToBgraKeeps, CopiedToNativeKeeps, NativeCopyFailsKeeps
<1>6. CASE HostInitEncode \/ TakeFrame \/ EnableGpuFrames \/ CropAndScale
    BY <1>6, HostInitEncodeKeeps, TakeFrameKeeps, EnableGpuFramesKeeps, CropAndScaleKeeps
<1>7. CASE HostEncodeSkips \/ HostEncodeFails \/ HostEncode
    BY <1>7, HostEncodesKeeps
<1>8. CASE UNCHANGED videoVars
  <2> USE <1>8 DEF videoVars
  <2>0. HostTypeOK /\ WorkerOK /\ SessionOK /\ HostLineOK /\ CleanOK /\ StoreOK
      BY HostParts
  <2>1. InEvents' = InEvents
      BY DEF InEvents
  <2>2. FramesInLine' = FramesInLine /\ Frames' = Frames
      BY <2>1 DEF FramesInLine, Frames
  <2>3. HostTypeOK' /\ WorkerOK' /\ SessionOK'
      BY <2>0 DEF HostTypeOK, WorkerOK, SessionOK
  <2>4. HostLineOK' /\ CleanOK'
      BY <2>0, <2>2 DEF HostLineOK, CleanOK, UpTo
  <2>5. StoreOK'
      BY <2>0, <2>2 DEF StoreOK, BuffersAreKept, BuffersInUse, Held
  <2> QED BY <2>3, <2>4, <2>5 DEF HostInv
<1> QED BY <1>1, <1>2, <1>3, <1>4, <1>5, <1>6, <1>7, <1>8 DEF VideoNext

LEMMA HostIsTrue == HostInv => VideoIsTrue
<1> SUFFICES ASSUME HostInv PROVE VideoIsTrue
    OBVIOUS
<1>0. HostTypeOK /\ SessionOK /\ HostLineOK /\ StoreOK
    BY HostParts
<1>1. BuffersAreKept
    BY <1>0 DEF StoreOK
<1>2. FramesStayInTheirSession
    BY <1>0 DEF SessionOK, FramesStayInTheirSession
<1>3. PicturesGoForward
  <2>1. Climbs(encoder, service.latest, posted)
      BY <1>0 DEF HostLineOK
  <2> QED BY <2>1 DEF Climbs, BelowQueue, PicturesGoForward
<1> QED BY <1>1, <1>2, <1>3 DEF VideoIsTrue

(* VideoIsTrue, of the capture, session and encoder threads: no buffer is   *)
(* filled again while somebody holds a frame in it, a session's encoder gets *)
(* the frames of its own worker only, and never an older picture after a    *)
(* newer one; however many sessions, captures, frames and buffers there are. *)
THEOREM VideoCorrect == VideoSpec => []VideoIsTrue
<1>1. VideoSpec => []HostInv
    BY InitHost, NextKeepsHost, PTL DEF VideoSpec
<1> QED BY <1>1, HostIsTrue, PTL

(* VideoIsSent, of both together: every image that is offered shows a frame  *)
(* of its own session, as it was captured, in order, with its own stamps.    *)
THEOREM SentCorrect == SendingSpec => []VideoIsSent
BY VideoCorrect, ImagesCorrect, PTL DEF SendingSpec, VideoIsSent
=============================================================================
