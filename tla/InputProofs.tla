------------------------------- MODULE InputProofs -------------------------------
(***************************************************************************)
(* Proofs about the keyboard of the controller (KeyboardRouting) and the   *)
(* clipboards of a session (ClipboardSync), for any keys, shortcuts,       *)
(* copies and bounds.                                                      *)
(*                                                                         *)
(* What the keyboard promises during a capture rests on one fact that no   *)
(* property states: a modifier that belongs to a shortcut is still held    *)
(* (the last part of Kept), so a modifier that is pressed anew belongs to  *)
(* none and may wait.  That the host holds only what the user holds rests  *)
(* on another: what the host was left to hold it holds still.              *)
(*                                                                         *)
(* The clipboards rest on two: a change the filter has not looked at yet   *)
(* is a debt that a copy has paid for (EchoInv), and a text that nothing   *)
(* has disturbed is in one of four places on its way (CopyInv).            *)
(***************************************************************************)
EXTENDS KeyboardRouting, ClipboardSync, SequenceTheorems, TLAPS

Targets == {"none", "localOnly", "toggleFullscreen"}

CallNames == {"stopHook", "recorded", "releaseCapture", "focusLost", "cancelRecording"}

Calls == [name : CallNames, shortcut : Shortcuts, target : Targets]

Settings == [full : Shortcuts, locals : SUBSET Shortcuts]

RoutingTyped ==
    /\ mode \in {"Inactive", "RemoteCapture", "Recording", "Draining"}
    /\ pending \in Seq(Modifiers) /\ physical \in SUBSET Modifiers
    /\ consumed \in SUBSET Keys /\ sentKeys \in SUBSET Keys
    /\ target \in Targets

KeyboardTyped ==
    /\ RoutingTyped
    /\ settings \in Settings
    /\ posted \in Seq(Calls) /\ Len(posted) <= MaxPosted
    /\ held \in SUBSET Keys /\ lastKey \in held \union {NoneHeld}
    /\ edits \in 0 .. MaxEdits
    /\ eligible \in BOOLEAN /\ foreground \in BOOLEAN

USE DEF RoutingTyped

------------------------------------------------------------------------------
(* What waits.                                                               *)

\* Nothing waits in an empty list, and a modifier that is added to the list
\* waits with the others.
LEMMA WaitingGrows ==
    ASSUME NEW p \in Seq(Modifiers), NEW k \in Modifiers
    PROVE  /\ Append(p, k) \in Seq(Modifiers)
           /\ {Append(p, k)[i] : i \in DOMAIN Append(p, k)} = {p[i] : i \in DOMAIN p} \union {k}
<1> DEFINE q == Append(p, k)
<1>1. q \in Seq(Modifiers) /\ DOMAIN q = 1 .. Len(p) + 1 /\ DOMAIN p = 1 .. Len(p)
      /\ Len(p) \in Nat
  OBVIOUS
<1>2. \A i \in DOMAIN p : q[i] = p[i]
  OBVIOUS
<1>3. q[Len(p) + 1] = k
  OBVIOUS
<1>4. ASSUME NEW i \in DOMAIN q
      PROVE  q[i] \in {p[j] : j \in DOMAIN p} \union {k}
  <2>1. CASE i = Len(p) + 1
    BY <1>3, <2>1
  <2>2. CASE i # Len(p) + 1
    <3>1. i \in DOMAIN p
      BY <1>1, <2>2
    <3> QED
      BY <1>2, <3>1
  <2> QED
    BY <2>1, <2>2
<1>5. ASSUME NEW j \in DOMAIN p
      PROVE  p[j] \in {q[i] : i \in DOMAIN q}
  <2>1. j \in DOMAIN q /\ q[j] = p[j]
    BY <1>1, <1>2
  <2> QED
    BY <2>1
<1>6. k \in {q[i] : i \in DOMAIN q}
  <2>1. Len(p) + 1 \in DOMAIN q
    BY <1>1
  <2> QED
    BY <2>1, <1>3
<1> QED
  BY <1>1, <1>4, <1>5, <1>6

\* What waits are modifiers.
LEMMA WaitingAreModifiers ==
    ASSUME pending \in Seq(Modifiers)
    PROVE  Waiting \in SUBSET Modifiers
<1>1. \A i \in DOMAIN pending : pending[i] \in Modifiers
  OBVIOUS
<1> QED
  BY <1>1 DEF Waiting

\* A call that is posted is one of those the thread can run.
LEMMA PostTyped ==
    ASSUME posted \in Seq(Calls), Len(posted) < MaxPosted, MaxPosted \in Nat,
           NEW call \in Calls, Post(call)
    PROVE  posted' \in Seq(Calls) /\ Len(posted') <= MaxPosted
BY DEF Post

LEMMA CallTyped ==
    ASSUME NEW n \in CallNames
    PROVE  Call(n) \in Calls
<1>1. Release \in Shortcuts
  BY KeyboardAssumption
<1> QED
  BY <1>1 DEF Call, Calls, Targets

\* The shortcut that is held is a shortcut.
LEMMA CurrentTyped ==
    ASSUME RoutingTyped, NEW k \in Mains
    PROVE  CurrentShortcut(k) \in Shortcuts
BY DEF CurrentShortcut, Shortcuts

------------------------------------------------------------------------------
(* Steps of the capture.                                                     *)

\* What any end of a capture leaves.
LEMMA StopHookKeeps ==
    ASSUME StopHook
    PROVE  /\ mode' = "Inactive" /\ target' \in Targets
           /\ pending' \in Seq(Modifiers)
           /\ physical' \in SUBSET Modifiers /\ consumed' \in SUBSET Keys
BY DEF StopHook, Targets

LEMMA FocusLostKeeps ==
    ASSUME RoutingTyped, HandleVideoFocusLost
    PROVE  /\ RoutingTyped'
           /\ sentKeys' # {} => mode' = mode /\ sentKeys' = sentKeys
           /\ mode' # "RemoteCapture"
BY StopHookKeeps DEF HandleVideoFocusLost, routingVars

LEMMA ReleaseCaptureKeeps ==
    ASSUME RoutingTyped, ReleaseCapture
    PROVE  /\ RoutingTyped'
           /\ sentKeys' # {} => mode' = mode /\ sentKeys' = sentKeys
           /\ mode' # "RemoteCapture"
<1>1. CASE mode \notin {"RemoteCapture", "Draining"}
  BY <1>1 DEF ReleaseCapture, routingVars
<1>2. CASE mode \in {"RemoteCapture", "Draining"} /\ physical \union consumed = {}
  BY <1>2, StopHookKeeps DEF ReleaseCapture
<1>3. CASE mode \in {"RemoteCapture", "Draining"} /\ physical \union consumed # {}
  <2>1. <<>> \in Seq(Modifiers)
    OBVIOUS
  <2> QED
    BY <1>3, <2>1 DEF ReleaseCapture
<1> QED
  BY <1>1, <1>2, <1>3

------------------------------------------------------------------------------
(* A key while a capture runs.                                               *)

\* Which of the modifiers have been dealt with.
Kept ==
    /\ physical \subseteq Waiting \union sentKeys \union consumed
    /\ Waiting \intersect consumed = {}
    /\ consumed \intersect Modifiers \subseteq physical

LEMMA NothingWaits ==
    ASSUME pending = <<>>
    PROVE  Waiting = {}
BY DEF Waiting

LEMMA NothingWaitsNext ==
    ASSUME pending' = <<>>
    PROVE  Waiting' = {}
BY DEF Waiting

LEMMA WaitingStays ==
    ASSUME UNCHANGED pending
    PROVE  Waiting' = Waiting
BY DEF Waiting

LEMMA ModifierDownKeeps ==
    ASSUME RoutingTyped, Kept, NEW k \in Modifiers, ModifierDown(k),
           UNCHANGED <<mode, target>>
    PROVE  RoutingTyped' /\ Kept'
<1> USE DEF ModifierDown
<1>1. CASE k \in physical
  <2>1. Waiting' = Waiting
    BY <1>1, WaitingStays
  <2> QED
    BY <1>1, <2>1 DEF Kept
<1>2. CASE k \notin physical
  <2>1. /\ Append(pending, k) \in Seq(Modifiers)
        /\ {Append(pending, k)[i] : i \in DOMAIN Append(pending, k)}
              = {pending[i] : i \in DOMAIN pending} \union {k}
    BY WaitingGrows
  <2>2. Waiting' = Waiting \union {k} /\ pending' \in Seq(Modifiers)
    BY <1>2, <2>1 DEF Waiting
  <2>3. k \notin consumed
    BY <1>2 DEF Kept
  <2>4. RoutingTyped'
    BY <2>2
  <2>5. Kept'
    BY <2>2, <2>3 DEF Kept
  <2> QED
    BY <2>4, <2>5
<1> QED
  BY <1>1, <1>2

LEMMA ModifierUpKeeps ==
    ASSUME RoutingTyped, Kept, NEW k \in Modifiers, ModifierUp(k),
           UNCHANGED <<mode, target>>
    PROVE  RoutingTyped' /\ Kept'
<1> USE DEF ModifierUp
<1>0. Waiting \in SUBSET Modifiers
  BY WaitingAreModifiers
<1>1. CASE k \in consumed
  <2>1. Waiting' = Waiting
    BY <1>1, WaitingStays
  <2> QED
    BY <1>0, <1>1, <2>1 DEF Kept
<1>2. CASE k \notin consumed
  <2>1. Waiting' = {}
    BY <1>2, NothingWaitsNext
  <2>2. RoutingTyped'
    BY <1>0, <1>2 DEF Keys
  <2>3. Kept'
    BY <1>2, <2>1 DEF Kept
  <2> QED
    BY <2>2, <2>3
<1> QED
  BY <1>1, <1>2

LEMMA MainUpKeeps ==
    ASSUME RoutingTyped, Kept, NEW k \in Mains, MainUp(k),
           UNCHANGED <<mode, target>>
    PROVE  RoutingTyped' /\ Kept'
<1>0. k \notin Modifiers
  BY KeyboardAssumption
<1>1. Waiting' = Waiting
  BY WaitingStays DEF MainUp
<1> QED
  BY <1>0, <1>1 DEF MainUp, Kept

LEMMA ConsumeShortcutKeeps ==
    ASSUME RoutingTyped, Kept, NEW s \in Shortcuts, ConsumeShortcut(s),
           UNCHANGED <<mode, target>>
    PROVE  RoutingTyped' /\ Kept'
<1>0. s.key \in Mains /\ s.key \notin Modifiers
  BY KeyboardAssumption DEF Shortcuts
<1>1. Waiting' = {}
  BY NothingWaitsNext DEF ConsumeShortcut
<1>2. RoutingTyped'
  BY <1>0 DEF ConsumeShortcut, Keys
<1>3. Kept'
  BY <1>0, <1>1 DEF ConsumeShortcut, Kept
<1> QED
  BY <1>2, <1>3

LEMMA SendKeyKeeps ==
    ASSUME RoutingTyped, Kept, NEW k \in Mains, SendKey(k),
           UNCHANGED <<mode, target>>
    PROVE  RoutingTyped' /\ Kept'
<1>0. Waiting \in SUBSET Modifiers
  BY WaitingAreModifiers
<1>1. Waiting' = {}
  BY NothingWaitsNext DEF SendKey
<1>2. RoutingTyped'
  BY <1>0 DEF SendKey, Keys
<1>3. Kept'
  BY <1>1 DEF SendKey, Kept
<1> QED
  BY <1>2, <1>3

\* A key during a capture: every modifier that is held waits, is down at the host
\* or belongs to a shortcut.
LEMMA CaptureEventKeeps ==
    ASSUME RoutingTyped, Kept, NEW k \in Keys, NEW down \in BOOLEAN,
           HandleRemoteCaptureEvent(k, down)
    PROVE  RoutingTyped' /\ Kept' /\ mode' = mode
<1>0. UNCHANGED <<mode, target>>
  BY DEF HandleRemoteCaptureEvent
<1>1. CASE k \in Modifiers /\ down
  BY <1>0, <1>1, ModifierDownKeeps DEF HandleRemoteCaptureEvent
<1>2. CASE k \in Modifiers /\ ~down
  BY <1>0, <1>2, ModifierUpKeeps DEF HandleRemoteCaptureEvent
<1>3. CASE k \notin Modifiers /\ ~down
  <2>1. k \in Mains /\ MainUp(k)
    BY <1>3 DEF HandleRemoteCaptureEvent, Keys
  <2> QED
    BY <1>0, <2>1, MainUpKeeps
<1>4. CASE k \notin Modifiers /\ down /\ IsShortcut(CurrentShortcut(k))
  <2>1. k \in Mains /\ ConsumeShortcut(CurrentShortcut(k))
    BY <1>4 DEF HandleRemoteCaptureEvent, Keys
  <2>2. CurrentShortcut(k) \in Shortcuts
    BY <2>1, CurrentTyped
  <2> QED
    BY <1>0, <2>1, <2>2, ConsumeShortcutKeeps
<1>5. CASE k \notin Modifiers /\ down /\ ~IsShortcut(CurrentShortcut(k))
  <2>1. k \in Mains /\ SendKey(k)
    BY <1>5 DEF HandleRemoteCaptureEvent, Keys
  <2> QED
    BY <1>0, <2>1, SendKeyKeeps
<1> QED
  BY <1>1, <1>2, <1>3, <1>4, <1>5

\* What a key posts during a capture, a recording or a draining.
LEMMA CaptureEventPosts ==
    ASSUME KeyboardTyped, Len(posted) < MaxPosted, NEW k \in Keys, NEW down \in BOOLEAN,
           HandleRemoteCaptureEvent(k, down)
    PROVE  posted' \in Seq(Calls) /\ Len(posted') <= MaxPosted
<1>0. posted \in Seq(Calls) /\ MaxPosted \in Nat
  BY KeyboardAssumption DEF KeyboardTyped
<1>1. CASE UNCHANGED posted
  BY <1>0, <1>1 DEF KeyboardTyped
<1>2. CASE Post(Call("releaseCapture"))
  <2>1. Call("releaseCapture") \in Calls
    BY CallTyped DEF CallNames
  <2> QED
    BY <1>0, <1>2, <2>1, PostTyped
<1>3. UNCHANGED posted \/ Post(Call("releaseCapture"))
  BY DEF HandleRemoteCaptureEvent, ModifierDown, ModifierUp, MainUp, ConsumeShortcut, SendKey
<1> QED
  BY <1>1, <1>2, <1>3

LEMMA RecordingEventKeeps ==
    ASSUME KeyboardTyped, Len(posted) < MaxPosted, NEW k \in Keys, NEW down \in BOOLEAN,
           HandleRecordingEvent(k, down)
    PROVE  /\ RoutingTyped' /\ mode' = mode /\ sentKeys' = sentKeys
           /\ posted' \in Seq(Calls) /\ Len(posted') <= MaxPosted
<1>0. posted \in Seq(Calls) /\ MaxPosted \in Nat /\ RoutingTyped
  BY KeyboardAssumption DEF KeyboardTyped
<1>1. RoutingTyped' /\ mode' = mode /\ sentKeys' = sentKeys
  BY <1>0 DEF HandleRecordingEvent
<1>2. CASE UNCHANGED posted
  BY <1>0, <1>1, <1>2 DEF KeyboardTyped
<1>3. CASE Post(Call("cancelRecording"))
  <2>1. Call("cancelRecording") \in Calls
    BY CallTyped DEF CallNames
  <2> QED
    BY <1>0, <1>1, <1>3, <2>1, PostTyped
<1>4. CASE /\ k \in Mains
           /\ Post([name |-> "recorded", shortcut |-> CurrentShortcut(k), target |-> target])
  <2>1. CurrentShortcut(k) \in Shortcuts
    BY <1>0, <1>4, CurrentTyped
  <2>2. target \in Targets
    BY <1>0
  <2>3. [name |-> "recorded", shortcut |-> CurrentShortcut(k), target |-> target] \in Calls
    BY <2>1, <2>2 DEF Calls, CallNames
  <2> QED
    BY <1>0, <1>1, <1>4, <2>3, PostTyped
<1>5. \/ UNCHANGED posted
      \/ Post(Call("cancelRecording"))
      \/ /\ k \in Mains
         /\ Post([name |-> "recorded", shortcut |-> CurrentShortcut(k), target |-> target])
  BY DEF HandleRecordingEvent, Keys
<1> QED
  BY <1>1, <1>2, <1>3, <1>4, <1>5

LEMMA DrainingEventKeeps ==
    ASSUME KeyboardTyped, Len(posted) < MaxPosted, NEW k \in Keys, NEW down \in BOOLEAN,
           HandleDrainingEvent(k, down)
    PROVE  /\ RoutingTyped' /\ mode' = mode /\ sentKeys' = sentKeys
           /\ posted' \in Seq(Calls) /\ Len(posted') <= MaxPosted
<1>0. posted \in Seq(Calls) /\ MaxPosted \in Nat /\ RoutingTyped
  BY KeyboardAssumption DEF KeyboardTyped
<1>1. RoutingTyped' /\ mode' = mode /\ sentKeys' = sentKeys
  BY <1>0 DEF HandleDrainingEvent
<1>2. CASE UNCHANGED posted
  BY <1>0, <1>1, <1>2 DEF KeyboardTyped
<1>3. CASE Post(Call("stopHook"))
  <2>1. Call("stopHook") \in Calls
    BY CallTyped DEF CallNames
  <2> QED
    BY <1>0, <1>1, <1>3, <2>1, PostTyped
<1> QED
  BY <1>1, <1>2, <1>3 DEF HandleDrainingEvent

------------------------------------------------------------------------------
(* A key event, in whatever mode the hook is.                                *)

\* The parts of the invariant that are about the capture.
Capturing ==
    /\ stuck \subseteq sentKeys
    /\ CaptureLeavesNothing
    /\ HostHoldsWhatIsHeld
    /\ mode = "RemoteCapture" => Kept

LEMMA KeyboardEventKeeps ==
    ASSUME KeyboardTyped, Capturing, Len(posted) < MaxPosted, NEW k \in Keys,
           NEW down \in BOOLEAN, HandleKeyboardEvent(k, down)
    PROVE  /\ RoutingTyped' /\ mode' = mode
           /\ mode = "RemoteCapture" => Kept'
           /\ mode # "RemoteCapture" => sentKeys' = sentKeys
           /\ posted' \in Seq(Calls) /\ Len(posted') <= MaxPosted
<1>0. posted \in Seq(Calls) /\ MaxPosted \in Nat /\ RoutingTyped
      /\ Len(posted) <= MaxPosted
  BY KeyboardAssumption DEF KeyboardTyped
<1>1. CASE mode = "Recording"
  <2>1. HandleRecordingEvent(k, down)
    BY <1>1 DEF HandleKeyboardEvent
  <2> QED
    BY <1>1, <2>1, RecordingEventKeeps
<1>2. CASE mode = "Draining"
  <2>1. HandleDrainingEvent(k, down)
    BY <1>2 DEF HandleKeyboardEvent
  <2> QED
    BY <1>2, <2>1, DrainingEventKeeps
<1>3. CASE mode = "Inactive"
  <2>1. UNCHANGED <<routingVars, posted>>
    BY <1>3 DEF HandleKeyboardEvent
  <2> QED
    BY <1>0, <1>3, <2>1 DEF routingVars
<1>4. CASE mode = "RemoteCapture" /\ eligible /\ foreground
  <2>1. HandleRemoteCaptureEvent(k, down)
    BY <1>4 DEF HandleKeyboardEvent
  <2>2. RoutingTyped' /\ Kept' /\ mode' = mode
    BY <1>0, <1>4, <2>1, CaptureEventKeeps DEF Capturing
  <2>3. posted' \in Seq(Calls) /\ Len(posted') <= MaxPosted
    BY <2>1, CaptureEventPosts
  <2> QED
    BY <1>4, <2>2, <2>3
<1>5. CASE mode = "RemoteCapture" /\ ~(eligible /\ foreground)
  <2>1. Post(Call("focusLost")) /\ UNCHANGED routingVars
    BY <1>5 DEF HandleKeyboardEvent
  <2>2. Call("focusLost") \in Calls
    BY CallTyped DEF CallNames
  <2>3. posted' \in Seq(Calls) /\ Len(posted') <= MaxPosted
    BY <1>0, <2>1, <2>2, PostTyped
  <2>4. Waiting' = Waiting
    BY <2>1, WaitingStays DEF routingVars
  <2>5. Kept'
    BY <1>5, <2>1, <2>4 DEF Capturing, Kept, routingVars
  <2> QED
    BY <1>0, <1>5, <2>1, <2>3, <2>5 DEF routingVars
<1> QED
  BY <1>0, <1>1, <1>2, <1>3, <1>4, <1>5

------------------------------------------------------------------------------
(* What the host holds after a key event.                                    *)

\* A key that goes down is the only one that the host may get besides those that wait.
LEMMA DownGives ==
    ASSUME RoutingTyped, NEW k \in Keys, HandleRemoteCaptureEvent(k, TRUE)
    PROVE  /\ sentKeys \subseteq sentKeys'
           /\ Waiting' \union sentKeys' \subseteq Waiting \union sentKeys \union {k}
<1>1. CASE k \in Modifiers /\ k \in physical
  <2>1. sentKeys' = sentKeys /\ pending' = pending
    BY <1>1 DEF HandleRemoteCaptureEvent, ModifierDown
  <2> QED
    BY <2>1, WaitingStays
<1>2. CASE k \in Modifiers /\ k \notin physical
  <2>1. sentKeys' = sentKeys /\ pending' = Append(pending, k)
    BY <1>2 DEF HandleRemoteCaptureEvent, ModifierDown
  <2>2. {Append(pending, k)[i] : i \in DOMAIN Append(pending, k)}
              = {pending[i] : i \in DOMAIN pending} \union {k}
    BY <1>2, WaitingGrows
  <2>3. Waiting' = Waiting \union {k}
    BY <2>1, <2>2 DEF Waiting
  <2> QED
    BY <2>1, <2>3
<1>3. CASE k \notin Modifiers /\ IsShortcut(CurrentShortcut(k))
  <2>1. sentKeys' = sentKeys /\ pending' = <<>>
    BY <1>3 DEF HandleRemoteCaptureEvent, ConsumeShortcut
  <2> QED
    BY <2>1, NothingWaitsNext
<1>4. CASE k \notin Modifiers /\ ~IsShortcut(CurrentShortcut(k))
  <2>1. sentKeys' = sentKeys \union Waiting \union {k} /\ pending' = <<>>
    BY <1>4 DEF HandleRemoteCaptureEvent, SendKey
  <2> QED
    BY <2>1, NothingWaitsNext
<1> QED
  BY <1>1, <1>2, <1>3, <1>4

\* A key that comes up leaves the host, or else a shortcut has consumed it.
LEMMA UpGives ==
    ASSUME RoutingTyped, Kept, NEW k \in Keys, HandleRemoteCaptureEvent(k, FALSE)
    PROVE  /\ sentKeys \ {k} \subseteq sentKeys'
           /\ Waiting' \union sentKeys' \subseteq Waiting \union sentKeys
           /\ k \in Waiting' \union sentKeys' => k \in consumed /\ k \in sentKeys'
<1>0. Waiting \in SUBSET Modifiers
  BY WaitingAreModifiers
<1>1. CASE k \in Modifiers /\ k \in consumed
  <2>1. sentKeys' = sentKeys /\ pending' = pending
    BY <1>1 DEF HandleRemoteCaptureEvent, ModifierUp
  <2>2. k \notin Waiting
    BY <1>1 DEF Kept
  <2> QED
    BY <1>1, <2>1, <2>2, WaitingStays
<1>2. CASE k \in Modifiers /\ k \notin consumed
  <2>1. sentKeys' = (sentKeys \union Waiting) \ {k} /\ pending' = <<>>
    BY <1>2 DEF HandleRemoteCaptureEvent, ModifierUp
  <2> QED
    BY <2>1, NothingWaitsNext
<1>3. CASE k \notin Modifiers
  <2>1. /\ sentKeys' = IF k \in consumed THEN sentKeys ELSE sentKeys \ {k}
        /\ pending' = pending
    BY <1>3 DEF HandleRemoteCaptureEvent, MainUp
  <2> QED
    BY <1>0, <1>3, <2>1, WaitingStays
<1> QED
  BY <1>1, <1>2, <1>3

\* What was posted stays posted.
LEMMA PostGrows ==
    ASSUME posted \in Seq(Calls), NEW call \in Calls, Post(call)
    PROVE  /\ FocusIsLost => FocusIsLost'
           /\ call.name = "focusLost" => FocusIsLost'
<1>1. /\ posted' = Append(posted, call) /\ Len(posted) \in Nat
      /\ DOMAIN posted = 1 .. Len(posted) /\ DOMAIN posted' = 1 .. Len(posted) + 1
      /\ posted'[Len(posted) + 1] = call
      /\ \A i \in DOMAIN posted : posted'[i] = posted[i]
  BY DEF Post
<1>2. \A i \in DOMAIN posted : i \in DOMAIN posted'
  BY <1>1
<1>3. Len(posted) + 1 \in DOMAIN posted'
  BY <1>1
<1> QED
  BY <1>1, <1>2, <1>3 DEF FocusIsLost

LEMMA FocusStaysLost ==
    ASSUME KeyboardTyped, mode = "RemoteCapture", NEW k \in Keys, NEW down \in BOOLEAN,
           HandleKeyboardEvent(k, down)
    PROVE  /\ FocusIsLost => FocusIsLost'
           /\ ~(eligible /\ foreground) => FocusIsLost' /\ UNCHANGED routingVars
<1>0. posted \in Seq(Calls)
  BY DEF KeyboardTyped
<1>1. CASE eligible /\ foreground
  <2>1. HandleRemoteCaptureEvent(k, down)
    BY <1>1 DEF HandleKeyboardEvent
  <2>2. UNCHANGED posted \/ Post(Call("releaseCapture"))
    BY <2>1
       DEF HandleRemoteCaptureEvent, ModifierDown, ModifierUp, MainUp, ConsumeShortcut, SendKey
  <2>3. Call("releaseCapture") \in Calls
    BY CallTyped DEF CallNames
  <2> QED
    BY <1>0, <1>1, <2>2, <2>3, PostGrows DEF FocusIsLost
<1>2. CASE ~(eligible /\ foreground)
  <2>1. Post(Call("focusLost")) /\ UNCHANGED routingVars
    BY <1>2 DEF HandleKeyboardEvent
  <2>2. Call("focusLost") \in Calls /\ Call("focusLost").name = "focusLost"
    BY CallTyped DEF CallNames, Call
  <2> QED
    BY <1>0, <2>1, <2>2, PostGrows
<1> QED
  BY <1>1, <1>2

\* The parts of the invariant after a key event, but for Kept.
LEMMA PressCaptures ==
    ASSUME KeyboardTyped, Capturing, NEW k \in Keys, HandleKeyboardEvent(k, TRUE),
           mode' = mode, mode # "RemoteCapture" => sentKeys' = sentKeys,
           held' = held \union {k}, UNCHANGED stuck,
           mode = "RemoteCapture" => Kept'
    PROVE  Capturing'
<1>1. CASE mode # "RemoteCapture"
  BY <1>1 DEF Capturing, CaptureLeavesNothing, HostHoldsWhatIsHeld
<1>2. CASE mode = "RemoteCapture" /\ eligible /\ foreground
  <2>1. HandleRemoteCaptureEvent(k, TRUE)
    BY <1>2 DEF HandleKeyboardEvent
  <2>2. /\ sentKeys \subseteq sentKeys'
        /\ Waiting' \union sentKeys' \subseteq Waiting \union sentKeys \union {k}
    BY <2>1, DownGives DEF KeyboardTyped
  <2>3. FocusIsLost => FocusIsLost'
    BY <1>2, FocusStaysLost
  <2> QED
    BY <1>2, <2>2, <2>3 DEF Capturing, CaptureLeavesNothing, HostHoldsWhatIsHeld
<1>3. CASE mode = "RemoteCapture" /\ ~(eligible /\ foreground)
  <2>1. FocusIsLost' /\ UNCHANGED routingVars
    BY <1>3, FocusStaysLost
  <2> QED
    BY <1>3, <2>1 DEF Capturing, CaptureLeavesNothing, HostHoldsWhatIsHeld, routingVars
<1> QED
  BY <1>1, <1>2, <1>3

LEMMA ReleaseCaptures ==
    ASSUME KeyboardTyped, Capturing, NEW k \in Keys, HandleKeyboardEvent(k, FALSE),
           mode' = mode, mode # "RemoteCapture" => sentKeys' = sentKeys,
           held' = held \ {k},
           stuck' = (stuck \union (consumed \intersect {k})) \intersect sentKeys',
           mode = "RemoteCapture" => Kept'
    PROVE  Capturing'
<1>1. CASE mode # "RemoteCapture"
  BY <1>1 DEF Capturing, CaptureLeavesNothing, HostHoldsWhatIsHeld
<1>2. CASE mode = "RemoteCapture" /\ eligible /\ foreground
  <2>1. HandleRemoteCaptureEvent(k, FALSE)
    BY <1>2 DEF HandleKeyboardEvent
  <2>2. /\ sentKeys \ {k} \subseteq sentKeys'
        /\ Waiting' \union sentKeys' \subseteq Waiting \union sentKeys
        /\ k \in Waiting' \union sentKeys' => k \in consumed /\ k \in sentKeys'
    BY <1>2, <2>1, UpGives DEF KeyboardTyped, Capturing
  <2>3. FocusIsLost => FocusIsLost'
    BY <1>2, FocusStaysLost
  <2>4. ASSUME ~FocusIsLost', NEW x \in Waiting' \union sentKeys'
        PROVE  x \in held' \union stuck'
    <3>1. x \in held \union stuck
      BY <1>2, <2>2, <2>3, <2>4 DEF Capturing, HostHoldsWhatIsHeld
    <3>2. CASE x = k
      BY <2>2, <3>2
    <3>3. CASE x # k /\ x \in held
      BY <3>3
    <3>4. CASE x # k /\ x \in stuck
      <4>1. x \in sentKeys'
        BY <2>2, <3>4 DEF Capturing
      <4> QED
        BY <3>4, <4>1
    <3> QED
      BY <3>1, <3>2, <3>3, <3>4
  <2> QED
    BY <1>2, <2>4 DEF Capturing, CaptureLeavesNothing, HostHoldsWhatIsHeld
<1>3. CASE mode = "RemoteCapture" /\ ~(eligible /\ foreground)
  <2>1. FocusIsLost' /\ UNCHANGED routingVars
    BY <1>3, FocusStaysLost
  <2> QED
    BY <1>3, <2>1 DEF Capturing, CaptureLeavesNothing, HostHoldsWhatIsHeld, routingVars
<1> QED
  BY <1>1, <1>2, <1>3

------------------------------------------------------------------------------
(* The shortcuts of the settings.                                            *)

ShortcutsTyped == settings \in Settings /\ ShortcutsAreApart

LEMMA ShortcutsKept ==
    ASSUME ShortcutsTyped, UNCHANGED settings
    PROVE  ShortcutsTyped'
BY DEF ShortcutsTyped, ShortcutsAreApart

\* A refused shortcut changes nothing, and one that is taken has one meaning.
LEMMA AddLocalApart ==
    ASSUME ShortcutsTyped, NEW s \in Shortcuts,
           settings' \in {settings, AddLocalShortcut(s)}
    PROVE  ShortcutsTyped'
<1>1. CASE AddLocalShortcut(s) = settings
  BY <1>1, ShortcutsKept
<1>2. CASE AddLocalShortcut(s) # settings
  <2>1. /\ s.mods # {} /\ s \notin {Release, settings.full} \union settings.locals
        /\ AddLocalShortcut(s) = [settings EXCEPT !.locals = @ \union {s}]
    BY <1>2 DEF AddLocalShortcut
  <2>2. CASE settings' = settings
    BY <2>2, ShortcutsKept
  <2>3. CASE settings' = [settings EXCEPT !.locals = @ \union {s}]
    <3>1. settings'.full = settings.full /\ settings'.locals = settings.locals \union {s}
      BY <2>3 DEF ShortcutsTyped, Settings
    <3>2. settings' \in Settings
      BY <2>3 DEF ShortcutsTyped, Settings
    <3> QED
      BY <2>1, <3>1, <3>2 DEF ShortcutsTyped, ShortcutsAreApart
  <2> QED
    BY <2>1, <2>2, <2>3
<1> QED
  BY <1>1, <1>2

LEMMA UpdateFullscreenApart ==
    ASSUME ShortcutsTyped, NEW s \in Shortcuts,
           settings' \in {settings, UpdateToggleFullscreenShortcut(s)}
    PROVE  ShortcutsTyped'
<1>1. CASE UpdateToggleFullscreenShortcut(s) = settings
  BY <1>1, ShortcutsKept
<1>2. CASE UpdateToggleFullscreenShortcut(s) # settings
  <2>1. /\ s.mods # {} /\ s \notin {Release} \union settings.locals
        /\ UpdateToggleFullscreenShortcut(s) = [settings EXCEPT !.full = s]
    BY <1>2 DEF UpdateToggleFullscreenShortcut
  <2>2. CASE settings' = settings
    BY <2>2, ShortcutsKept
  <2>3. CASE settings' = [settings EXCEPT !.full = s]
    <3>1. settings'.full = s /\ settings'.locals = settings.locals
      BY <2>3 DEF ShortcutsTyped, Settings
    <3>2. settings' \in Settings
      BY <2>3 DEF ShortcutsTyped, Settings
    <3> QED
      BY <2>1, <3>1, <3>2 DEF ShortcutsTyped, ShortcutsAreApart
  <2> QED
    BY <2>1, <2>2, <2>3
<1> QED
  BY <1>1, <1>2

LEMMA EditApart ==
    ASSUME ShortcutsTyped, EditSettings
    PROVE  ShortcutsTyped'
<1>1. ASSUME NEW s \in settings.locals,
             SaveCandidate([settings EXCEPT !.locals = @ \ {s}])
      PROVE  ShortcutsTyped'
  BY <1>1, ShortcutsKept DEF SaveCandidate, ShortcutsTyped, ShortcutsAreApart, Settings
<1>2. CASE SaveCandidate(Defaults)
  BY <1>2, ShortcutsKept, KeyboardAssumption
     DEF SaveCandidate, Defaults, ShortcutsTyped, ShortcutsAreApart, Settings
<1> QED
  BY <1>1, <1>2 DEF EditSettings

------------------------------------------------------------------------------
(* The invariant.                                                            *)

\* The variables that only the hook and the user of the keyboard change.
HandsTyped ==
    /\ posted \in Seq(Calls) /\ Len(posted) <= MaxPosted
    /\ held \in SUBSET Keys /\ lastKey \in held \union {NoneHeld}

RestTyped ==
    /\ edits \in 0 .. MaxEdits
    /\ eligible \in BOOLEAN /\ foreground \in BOOLEAN

KeyboardInv == RoutingTyped /\ Capturing /\ ShortcutsTyped /\ HandsTyped /\ RestTyped

LEMMA KeyboardInvTyped ==
    ASSUME KeyboardInv
    PROVE  KeyboardTyped
BY DEF KeyboardInv, ShortcutsTyped, HandsTyped, RestTyped, KeyboardTyped

LEMMA KeyboardInitKeeps ==
    ASSUME KeyboardInit
    PROVE  KeyboardInv
<1>1. RoutingTyped
  BY DEF KeyboardInit, Targets
<1>2. Capturing
  BY DEF KeyboardInit, Capturing, CaptureLeavesNothing, HostHoldsWhatIsHeld
<1>3. ShortcutsTyped
  BY KeyboardAssumption
     DEF KeyboardInit, Defaults, ShortcutsTyped, ShortcutsAreApart, Settings
<1>4. HandsTyped /\ RestTyped
  <2>1. <<>> \in Seq(Calls) /\ Len(<<>>) = 0
    OBVIOUS
  <2>2. MaxPosted \in Nat /\ MaxEdits \in Nat
    BY KeyboardAssumption
  <2>3. HandsTyped
    BY <2>1, <2>2 DEF KeyboardInit, HandsTyped
  <2>4. RestTyped
    <3>1. 0 \in 0 .. MaxEdits
      BY <2>2
    <3> QED
      BY <3>1, Zenon DEF KeyboardInit, RestTyped
  <2> QED
    BY <2>3, <2>4
<1> QED
  BY <1>1, <1>2, <1>3, <1>4 DEF KeyboardInv

\* The capture is over and the host holds only what it was left to hold.
LEMMA CaptureOver ==
    ASSUME mode' # "RemoteCapture", sentKeys' \subseteq stuck', stuck' \subseteq sentKeys'
    PROVE  Capturing'
BY DEF Capturing, CaptureLeavesNothing, HostHoldsWhatIsHeld

\* A capture begins, with nothing pressed.
LEMMA CaptureBegins ==
    ASSUME Capturing, mode # "RemoteCapture", UNCHANGED <<sentKeys, stuck>>,
           mode' = "RemoteCapture", pending' = <<>>, physical' = {}, consumed' = {}
    PROVE  Capturing'
BY NothingWaitsNext DEF Capturing, CaptureLeavesNothing, HostHoldsWhatIsHeld, Kept

LEMMA CaptureKept ==
    ASSUME Capturing, UNCHANGED <<routingVars, stuck, held>>,
           mode = "RemoteCapture" /\ FocusIsLost => FocusIsLost'
    PROVE  Capturing'
BY WaitingStays
   DEF Capturing, CaptureLeavesNothing, HostHoldsWhatIsHeld, Kept, routingVars

LEMMA RoutingKept ==
    ASSUME RoutingTyped, UNCHANGED routingVars
    PROVE  RoutingTyped'
BY DEF routingVars

LEMMA LostKept ==
    ASSUME UNCHANGED posted
    PROVE  FocusIsLost => FocusIsLost'
BY DEF FocusIsLost

LEMMA HandsKept ==
    ASSUME HandsTyped, UNCHANGED <<posted, held, lastKey>>
    PROVE  HandsTyped'
BY DEF HandsTyped

LEMMA EditSettingsKeeps ==
    ASSUME KeyboardInv, EditSettings
    PROVE  KeyboardInv'
<1>1. RoutingTyped' /\ Capturing' /\ HandsTyped'
  BY RoutingKept, CaptureKept, LostKept, HandsKept DEF KeyboardInv, EditSettings, userVars
<1>2. ShortcutsTyped'
  BY EditApart DEF KeyboardInv
<1>3. RestTyped'
  BY KeyboardAssumption DEF KeyboardInv, RestTyped, EditSettings, SaveCandidate, userVars
<1> QED
  BY <1>1, <1>2, <1>3 DEF KeyboardInv

LEMMA RequestCaptureKeeps ==
    ASSUME KeyboardInv, RequestCapture
    PROVE  KeyboardInv'
<1>1. RoutingTyped'
  BY DEF KeyboardInv, RequestCapture, Targets
<1>2. Capturing'
  BY CaptureBegins DEF KeyboardInv, RequestCapture
<1>3. ShortcutsTyped' /\ HandsTyped' /\ RestTyped'
  BY ShortcutsKept, HandsKept DEF KeyboardInv, RequestCapture, userVars, RestTyped
<1> QED
  BY <1>1, <1>2, <1>3 DEF KeyboardInv

LEMMA FlushKeeps ==
    ASSUME KeyboardInv, FlushPendingModifiers
    PROVE  KeyboardInv'
<1>0. Waiting \in SUBSET Modifiers
  BY WaitingAreModifiers DEF KeyboardInv
<1>1. RoutingTyped'
  BY <1>0 DEF KeyboardInv, FlushPendingModifiers, Keys
<1>2. Waiting' = {}
  BY NothingWaitsNext DEF FlushPendingModifiers
<1>3. Capturing'
  <2>1. /\ sentKeys' = sentKeys \union Waiting /\ Kept
        /\ UNCHANGED <<mode, physical, consumed, stuck, held, posted>> /\ mode = "RemoteCapture"
    BY DEF KeyboardInv, FlushPendingModifiers, Capturing, userVars
  <2>2. Kept'
    BY <1>2, <2>1 DEF Kept
  <2>3. HostHoldsWhatIsHeld'
    BY <1>2, <2>1, LostKept DEF KeyboardInv, Capturing, HostHoldsWhatIsHeld
  <2> QED
    BY <2>1, <2>2, <2>3 DEF KeyboardInv, Capturing, CaptureLeavesNothing
<1>4. ShortcutsTyped' /\ HandsTyped' /\ RestTyped'
  BY ShortcutsKept, HandsKept DEF KeyboardInv, FlushPendingModifiers, userVars, RestTyped
<1> QED
  BY <1>1, <1>3, <1>4 DEF KeyboardInv

\* When the picture loses the focus.
LEMMA FocusLostCaptures ==
    ASSUME RoutingTyped, Capturing, HandleVideoFocusLost, StillStuck
    PROVE  RoutingTyped' /\ Capturing'
<1>1. CASE mode \in {"RemoteCapture", "Draining"}
  <2>1. RoutingTyped' /\ mode' # "RemoteCapture" /\ sentKeys' = {}
    BY <1>1, FocusLostKeeps DEF HandleVideoFocusLost, StopHook
  <2> QED
    BY <2>1, CaptureOver DEF StillStuck
<1>2. CASE mode \notin {"RemoteCapture", "Draining"}
  <2>1. RoutingTyped' /\ mode' = mode /\ sentKeys' = sentKeys
    BY <1>2, RoutingKept DEF HandleVideoFocusLost, routingVars
  <2>2. stuck' = stuck \intersect sentKeys /\ sentKeys \subseteq stuck
    BY <1>2, <2>1 DEF StillStuck, Capturing, CaptureLeavesNothing
  <2> QED
    BY <1>2, <2>1, <2>2, CaptureOver
<1> QED
  BY <1>1, <1>2

LEMMA VideoFocusLostKeeps ==
    ASSUME KeyboardInv, VideoFocusLost
    PROVE  KeyboardInv'
<1>1. RoutingTyped' /\ Capturing'
  BY FocusLostCaptures DEF KeyboardInv, VideoFocusLost
<1>2. ShortcutsTyped' /\ HandsTyped' /\ RestTyped'
  BY ShortcutsKept, HandsKept DEF KeyboardInv, VideoFocusLost, RestTyped
<1> QED
  BY <1>1, <1>2 DEF KeyboardInv

LEMMA ChangeForegroundKeeps ==
    ASSUME KeyboardInv, ChangeForeground
    PROVE  KeyboardInv'
<1>1. RoutingTyped' /\ Capturing'
  BY RoutingKept, CaptureKept, LostKept DEF KeyboardInv, ChangeForeground
<1>2. ShortcutsTyped' /\ HandsTyped' /\ RestTyped'
  BY ShortcutsKept, HandsKept DEF KeyboardInv, ChangeForeground, RestTyped
<1> QED
  BY <1>1, <1>2 DEF KeyboardInv

LEMMA ChangeEligibilityKeeps ==
    ASSUME KeyboardInv, ChangeEligibility
    PROVE  KeyboardInv'
<1>1. RoutingTyped' /\ Capturing'
  <2>1. CASE eligible
    BY <2>1, FocusLostCaptures DEF KeyboardInv, ChangeEligibility
  <2>2. CASE ~eligible
    <3>1. UNCHANGED <<routingVars, held, posted>> /\ StillStuck
      BY <2>2 DEF ChangeEligibility, userVars
    <3>2. stuck' = stuck
      BY <3>1 DEF KeyboardInv, Capturing, StillStuck, routingVars
    <3> QED
      BY <3>1, <3>2, RoutingKept, CaptureKept, LostKept DEF KeyboardInv
  <2> QED
    BY <2>1, <2>2
<1>2. ShortcutsTyped' /\ HandsTyped' /\ RestTyped'
  BY ShortcutsKept, HandsKept DEF KeyboardInv, ChangeEligibility, userVars, RestTyped
<1> QED
  BY <1>1, <1>2 DEF KeyboardInv

LEMMA BeginRecordingKeeps ==
    ASSUME KeyboardInv, BeginShortcutRecording
    PROVE  KeyboardInv'
<1>1. RoutingTyped'
  BY DEF KeyboardInv, BeginShortcutRecording, Targets
<1>2. Capturing'
  <2>1. /\ mode' # "RemoteCapture"
        /\ sentKeys' # {} => sentKeys' = sentKeys /\ mode # "RemoteCapture"
        /\ stuck' = stuck \intersect sentKeys'
    BY DEF BeginShortcutRecording, StillStuck
  <2>2. sentKeys' \subseteq stuck'
    BY <2>1 DEF KeyboardInv, Capturing, CaptureLeavesNothing
  <2> QED
    BY <2>1, <2>2, CaptureOver
<1>3. ShortcutsTyped' /\ HandsTyped' /\ RestTyped'
  BY ShortcutsKept, HandsKept DEF KeyboardInv, BeginShortcutRecording, userVars, RestTyped
<1> QED
  BY <1>1, <1>2, <1>3 DEF KeyboardInv

\* The hook is taken down, and the host is not told.
LEMMA StopHookCaptures ==
    ASSUME RoutingTyped, Capturing, StopHook, UNCHANGED sentKeys,
           stuck' \subseteq sentKeys, stuck \subseteq stuck',
           mode = "RemoteCapture" => sentKeys \subseteq stuck'
    PROVE  RoutingTyped' /\ Capturing'
<1>1. RoutingTyped' /\ mode' # "RemoteCapture"
  BY StopHookKeeps
<1>2. sentKeys' \subseteq stuck' /\ stuck' \subseteq sentKeys'
  BY DEF Capturing, CaptureLeavesNothing
<1> QED
  BY <1>1, <1>2, CaptureOver

LEMMA CancelRecordingKeeps ==
    ASSUME KeyboardInv, CancelShortcutRecording
    PROVE  KeyboardInv'
<1>1. RoutingTyped' /\ Capturing'
  BY StopHookCaptures DEF KeyboardInv, Capturing, CancelShortcutRecording
<1>2. ShortcutsTyped' /\ HandsTyped' /\ RestTyped'
  BY ShortcutsKept, HandsKept DEF KeyboardInv, CancelShortcutRecording, userVars, RestTyped
<1> QED
  BY <1>1, <1>2 DEF KeyboardInv

LEMMA PressKeyKeeps ==
    ASSUME KeyboardInv, NEW k \in Keys, PressKey(k)
    PROVE  KeyboardInv'
<1>0. KeyboardTyped /\ Capturing /\ Len(posted) < MaxPosted
  BY KeyboardInvTyped DEF KeyboardInv, PressKey
<1>1. /\ RoutingTyped' /\ mode' = mode
      /\ mode = "RemoteCapture" => Kept'
      /\ mode # "RemoteCapture" => sentKeys' = sentKeys
      /\ posted' \in Seq(Calls) /\ Len(posted') <= MaxPosted
  BY <1>0, KeyboardEventKeeps DEF PressKey
<1>4. Capturing'
  BY <1>0, <1>1, PressCaptures DEF PressKey
<1>2. HandsTyped'
  BY <1>1 DEF KeyboardInv, HandsTyped, PressKey
<1>3. ShortcutsTyped' /\ RestTyped'
  BY ShortcutsKept DEF KeyboardInv, PressKey, RestTyped
<1> QED
  BY <1>1, <1>2, <1>3, <1>4 DEF KeyboardInv

LEMMA ReleaseKeyKeeps ==
    ASSUME KeyboardInv, NEW k \in Keys, ReleaseKey(k)
    PROVE  KeyboardInv'
<1>0. KeyboardTyped /\ Capturing /\ Len(posted) < MaxPosted
  BY KeyboardInvTyped DEF KeyboardInv, ReleaseKey
<1>1. /\ RoutingTyped' /\ mode' = mode
      /\ mode = "RemoteCapture" => Kept'
      /\ mode # "RemoteCapture" => sentKeys' = sentKeys
      /\ posted' \in Seq(Calls) /\ Len(posted') <= MaxPosted
  BY <1>0, KeyboardEventKeeps DEF ReleaseKey
<1>4. Capturing'
  BY <1>0, <1>1, ReleaseCaptures DEF ReleaseKey
<1>2. HandsTyped'
  BY <1>1 DEF KeyboardInv, HandsTyped, ReleaseKey
<1>3. ShortcutsTyped' /\ RestTyped'
  BY ShortcutsKept DEF KeyboardInv, ReleaseKey, RestTyped
<1> QED
  BY <1>1, <1>2, <1>3, <1>4 DEF KeyboardInv

\* What the hook has seen is known until it is dealt with.
LEMMA LostUntilRun ==
    ASSUME posted \in Seq(Calls), posted # <<>>, posted' = Tail(posted),
           Head(posted).name # "focusLost"
    PROVE  FocusIsLost => FocusIsLost'
<1>1. SUFFICES ASSUME NEW i \in DOMAIN posted, posted[i].name = "focusLost"
               PROVE  FocusIsLost'
  BY DEF FocusIsLost
<1>2. /\ Len(posted) \in Nat /\ i \in 1 .. Len(posted) /\ i # 1
      /\ DOMAIN posted' = 1 .. Len(posted) - 1
  BY <1>1
<1>3. i - 1 \in DOMAIN posted' /\ posted'[i - 1] = posted[i]
  BY <1>2
<1> QED
  BY <1>1, <1>3 DEF FocusIsLost

\* A call that was posted runs: the capture may have ended, or begun, since.
LEMMA RunPostedKeeps ==
    ASSUME KeyboardInv, RunPosted
    PROVE  KeyboardInv'
<1> DEFINE c == Head(posted)
<1>0. /\ RoutingTyped /\ Capturing /\ ShortcutsTyped
      /\ c \in Calls /\ posted' = Tail(posted) /\ posted \in Seq(Calls)
      /\ stuck' = (stuck \union StrandedBy(c)) \intersect sentKeys' /\ held' = held
  BY DEF KeyboardInv, HandsTyped, RunPosted, userVars
<1>8. ASSUME c.name \in {"stopHook", "recorded"}, UNCHANGED sentKeys
      PROVE  /\ stuck' \subseteq sentKeys /\ stuck \subseteq stuck'
             /\ mode = "RemoteCapture" => sentKeys \subseteq stuck'
  BY <1>0, <1>8 DEF StrandedBy, Capturing
<1>9. ASSUME c.name \notin {"stopHook", "recorded"}
      PROVE  StillStuck
  BY <1>0, <1>9 DEF StrandedBy, StillStuck
<1>1. HandsTyped'
  <2>1. posted' \in Seq(Calls) /\ Len(posted') <= MaxPosted
    <3>1. posted # <<>> /\ Len(posted) <= MaxPosted
      BY DEF KeyboardInv, HandsTyped, RunPosted
    <3> QED
      BY <1>0, <3>1, KeyboardAssumption
  <2> QED
    BY <2>1 DEF KeyboardInv, HandsTyped, RunPosted, userVars
<1>2. CASE c.name = "stopHook"
  <2>1. RoutingTyped' /\ Capturing'
    BY <1>0, <1>2, <1>8, StopHookCaptures DEF RunPosted
  <2>2. ShortcutsTyped' /\ RestTyped'
    BY <1>0, <1>2, ShortcutsKept DEF KeyboardInv, RunPosted, userVars, RestTyped
  <2> QED
    BY <1>1, <2>1, <2>2 DEF KeyboardInv
<1>3. CASE c.name = "recorded"
  <2>0. Recorded(c)
    BY <1>3 DEF RunPosted
  <2>1. RoutingTyped' /\ Capturing'
    BY <1>0, <1>3, <1>8, <2>0, StopHookCaptures DEF Recorded
  <2>2. c.shortcut \in Shortcuts
    BY <1>0 DEF Calls
  <2>3. ShortcutsTyped'
    BY <1>0, <2>0, <2>2, ShortcutsKept, AddLocalApart, UpdateFullscreenApart
       DEF Recorded, SaveCandidate
  <2>4. RestTyped'
    BY <1>0, <2>0, KeyboardAssumption
       DEF KeyboardInv, RunPosted, userVars, RestTyped, Recorded, SaveCandidate
  <2> QED
    BY <1>1, <2>1, <2>3, <2>4 DEF KeyboardInv
<1>4. CASE c.name = "releaseCapture"
  <2>0. ReleaseCapture /\ UNCHANGED <<settings, edits>> /\ StillStuck
    BY <1>0, <1>4, <1>9 DEF RunPosted
  <2>1. RoutingTyped' /\ Capturing'
    <3>1. CASE mode \in {"RemoteCapture", "Draining"}
      <4>1. RoutingTyped' /\ mode' # "RemoteCapture" /\ sentKeys' = {}
        BY <1>0, <2>0, <3>1, ReleaseCaptureKeeps DEF ReleaseCapture
      <4> QED
        BY <2>0, <4>1, CaptureOver DEF StillStuck
    <3>2. CASE mode \notin {"RemoteCapture", "Draining"}
      <4>1. RoutingTyped' /\ mode' = mode /\ sentKeys' = sentKeys
        BY <1>0, <2>0, <3>2, RoutingKept DEF ReleaseCapture, routingVars
      <4>2. stuck' = stuck \intersect sentKeys /\ sentKeys \subseteq stuck
        BY <1>0, <2>0, <3>2, <4>1 DEF StillStuck, Capturing, CaptureLeavesNothing
      <4> QED
        BY <3>2, <4>1, <4>2, CaptureOver
    <3> QED
      BY <3>1, <3>2
  <2>2. ShortcutsTyped' /\ RestTyped'
    BY <1>0, <2>0, ShortcutsKept DEF KeyboardInv, RunPosted, userVars, RestTyped
  <2> QED
    BY <1>1, <2>1, <2>2 DEF KeyboardInv
<1>5. CASE c.name = "focusLost"
  <2>0. HandleVideoFocusLost /\ UNCHANGED <<settings, edits>> /\ StillStuck
    BY <1>0, <1>5, <1>9 DEF RunPosted
  <2>1. RoutingTyped' /\ Capturing'
    BY <1>0, <2>0, FocusLostCaptures
  <2>2. ShortcutsTyped' /\ RestTyped'
    BY <1>0, <2>0, ShortcutsKept DEF KeyboardInv, RunPosted, userVars, RestTyped
  <2> QED
    BY <1>1, <2>1, <2>2 DEF KeyboardInv
<1>6. CASE c.name = "cancelRecording"
  <2>0. /\ IF mode = "Recording" THEN StopHook /\ UNCHANGED sentKeys
           ELSE UNCHANGED routingVars
        /\ UNCHANGED <<settings, edits>>
    BY <1>0, <1>6 DEF RunPosted
  <2>3. sentKeys' = sentKeys
    BY <2>0 DEF routingVars
  <2>4. stuck' = stuck
    BY <1>0, <1>6, <1>9, <2>3 DEF StillStuck, Capturing
  <2>1. RoutingTyped' /\ Capturing'
    <3>1. CASE mode = "Recording"
      BY <1>0, <2>0, <2>4, <3>1, StopHookCaptures DEF Capturing
    <3>2. CASE mode # "Recording"
      <4>1. FocusIsLost => FocusIsLost'
        BY <1>0, <1>6, LostUntilRun DEF KeyboardInv, RunPosted
      <4> QED
        BY <1>0, <2>0, <2>4, <3>2, <4>1, RoutingKept, CaptureKept
    <3> QED
      BY <3>1, <3>2
  <2>2. ShortcutsTyped' /\ RestTyped'
    BY <1>0, <2>0, ShortcutsKept DEF KeyboardInv, RunPosted, userVars, RestTyped
  <2> QED
    BY <1>1, <2>1, <2>2 DEF KeyboardInv
<1>7. c.name \in CallNames
  BY <1>0 DEF Calls
<1> QED
  BY <1>2, <1>3, <1>4, <1>5, <1>6, <1>7 DEF CallNames

LEMMA KeyboardStepKeeps ==
    ASSUME KeyboardInv, [KeyboardNext]_keyboardVars
    PROVE  KeyboardInv'
<1>1. CASE UNCHANGED keyboardVars
  <2>1. UNCHANGED <<routingVars, stuck, settings, posted, held, lastKey>>
    BY <1>1 DEF keyboardVars, userVars
  <2>2. RoutingTyped' /\ Capturing' /\ ShortcutsTyped' /\ HandsTyped'
    BY <2>1, RoutingKept, CaptureKept, LostKept, ShortcutsKept, HandsKept DEF KeyboardInv
  <2>3. RestTyped'
    BY <1>1 DEF KeyboardInv, RestTyped, keyboardVars, userVars
  <2> QED
    BY <2>2, <2>3 DEF KeyboardInv
<1>2. CASE KeyboardNext
  BY <1>2, EditSettingsKeeps, RequestCaptureKeeps, FlushKeeps, VideoFocusLostKeeps,
     ChangeForegroundKeeps, ChangeEligibilityKeeps, BeginRecordingKeeps,
     CancelRecordingKeeps, PressKeyKeeps, ReleaseKeyKeeps, RunPostedKeeps
     DEF KeyboardNext
<1> QED
  BY <1>1, <1>2

LEMMA KeyboardInvSafe ==
    ASSUME KeyboardInv
    PROVE  KeyboardTypeOK /\ KeyboardSafety
<1>1. KeyboardTypeOK
  BY DEF KeyboardInv, ShortcutsTyped, HandsTyped, RestTyped, Settings, KeyboardTypeOK
<1>2. KeyboardSafety
  BY DEF KeyboardInv, ShortcutsTyped, Capturing, Kept, ModifiersAreKept, KeyboardSafety
<1> QED
  BY <1>1, <1>2

\* During a capture the host holds and is about to get only what the user holds, and
\* after it nothing, but for the keys that stuck names; every modifier that is
\* held waits, is down at the host or belongs to a shortcut; and no shortcut has
\* two meanings: for any keys, shortcuts and settings, and in whatever order the
\* event loop runs what the hook posted.
THEOREM KeyboardCorrect == KeyboardSpec => [](KeyboardTypeOK /\ KeyboardSafety)
<1>1. KeyboardInit => KeyboardInv
  BY KeyboardInitKeeps
<1>2. KeyboardInv /\ [KeyboardNext]_keyboardVars => KeyboardInv'
  BY KeyboardStepKeeps
<1>3. KeyboardInv => KeyboardTypeOK /\ KeyboardSafety
  BY KeyboardInvSafe
<1> QED
  BY <1>1, <1>2, <1>3, PTL DEF KeyboardSpec

------------------------------------------------------------------------------
(* The clipboards: types.                                                    *)

SyncPhases == {"Down", "Connected", "Streaming", "Reconnecting"}

\* A service whose texts are among the first n copies.
Services(n) ==
    [phase : SyncPhases, open : BOOLEAN, enabled : BOOLEAN, peerReady : BOOLEAN,
     readySent : BOOLEAN, established : BOOLEAN,
     pending : [text : 0 .. n, attempt : 0 .. MaxAttempts], before : SyncPhases]

\* Only an open channel has heard from the other end, and only a text is
\* written again.
ServiceSound(s) ==
    /\ s.peerReady => s.open
    /\ s.pending # NoPending => s.pending.text # NoText

SyncTyped == sync \in [Endpoints -> Services(copies)] /\ \A e \in Endpoints : ServiceSound(sync[e])

Boards(n) == [text : 0 .. n, seq : Nat]

Filters(n) == [self : 0 .. n, last : Nat, reading : BOOLEAN, retries : 0 .. MaxReads]

\* The filter is never ahead of the clipboard, and a clipboard that changed
\* holds a text.
FilterSound(f, b) == f.last <= b.seq /\ (f.reading => b.text # NoText)

BoardTyped ==
    /\ board \in [Endpoints -> Boards(copies)]
    /\ filter \in [Endpoints -> Filters(copies)]
    /\ \A e \in Endpoints : FilterSound(filter[e], board[e])

Messages(n) ==
    {m \in [kind : {"text", "ready", "state"}, text : 0 .. n, enabled : BOOLEAN] :
        m.kind = "text" => m.text # NoText}

WireTyped ==
    /\ outQueue \in [Endpoints -> Seq(Messages(copies))]
    /\ clipWire \in [Endpoints -> Seq(Messages(copies))]
    /\ \A e \in Endpoints : Len(clipWire[e]) <= 1

CountTyped == copies \in 0 .. MaxCopies /\ forwards \in Nat /\ clean \in BOOLEAN

ClipTyped == SyncTyped /\ BoardTyped /\ WireTyped /\ CountTyped

LEMMA CopiesAreCounted ==
    ASSUME CountTyped
    PROVE  copies \in Nat /\ MaxAttempts \in Nat /\ MaxReads \in Nat
BY ClipboardAssumption DEF CountTyped

LEMMA SyncKept ==
    ASSUME SyncTyped, UNCHANGED <<sync, copies>>
    PROVE  SyncTyped'
BY DEF SyncTyped

LEMMA BoardKept ==
    ASSUME BoardTyped, UNCHANGED <<board, filter, copies>>
    PROVE  BoardTyped'
BY DEF BoardTyped

LEMMA WireKept ==
    ASSUME WireTyped, UNCHANGED <<outQueue, clipWire, copies>>
    PROVE  WireTyped'
BY DEF WireTyped

\* A service that is changed at one end.
LEMMA SetSyncTyped ==
    ASSUME SyncTyped, UNCHANGED copies, NEW e \in Endpoints, NEW s \in Services(copies),
           ServiceSound(s), SetSync(e, s)
    PROVE  SyncTyped' /\ sync'[e] = s /\ \A f \in Endpoints \ {e} : sync'[f] = sync[f]
BY DEF SyncTyped, SetSync

LEMMA EndpointsDiffer ==
    ASSUME NEW e \in Endpoints
    PROVE  /\ Other(e) \in Endpoints /\ Other(e) # e /\ Other(Other(e)) = e
           /\ Endpoints = {e, Other(e)}
BY DEF Endpoints, Other

------------------------------------------------------------------------------
(* The clipboards: the channel.                                              *)

LEMMA RemoveAtTyped ==
    ASSUME NEW S, NEW q \in Seq(S), NEW i \in 1 .. Len(q)
    PROVE  RemoveAt(q, i) \in Seq(S)
<1>1. SubSeq(q, 1, i - 1) \in Seq(S)
  BY SubSeqProperties
<1>2. SubSeq(q, i + 1, Len(q)) \in Seq(S)
  BY SubSeqProperties
<1> QED
  BY <1>1, <1>2 DEF RemoveAt

LEMMA QueueMessageTyped ==
    ASSUME NEW S, NEW q \in Seq(S), NEW m \in S
    PROVE  QueueMessage(q, m) \in Seq(S)
<1>1. CASE m.kind = "text" /\ Texts(q) # {}
  <2> DEFINE i == CHOOSE i \in Texts(q) : TRUE
  <2>1. i \in Texts(q)
    BY <1>1
  <2>2. i \in 1 .. Len(q)
    BY <2>1 DEF Texts
  <2>3. RemoveAt(q, i) \in Seq(S)
    BY <2>2, RemoveAtTyped
  <2>4. QueueMessage(q, m) = Append(RemoveAt(q, i), m)
    BY <1>1 DEF QueueMessage
  <2> HIDE DEF i
  <2> QED
    BY <2>3, <2>4
<1>2. CASE ~(m.kind = "text" /\ Texts(q) # {})
  BY <1>2 DEF QueueMessage
<1> QED
  BY <1>1, <1>2

LEMMA SendTyped ==
    ASSUME WireTyped, UNCHANGED copies, NEW e \in Endpoints, NEW s, NEW m \in Messages(copies),
           SendClipboardMessage(e, s, m)
    PROVE  WireTyped'
<1> DEFINE M == Messages(copies)
<1>0. outQueue[e] \in Seq(M) /\ clipWire[e] \in Seq(M)
  BY DEF WireTyped
<1>1. CASE s.phase # "Streaming" \/ ~s.open
  BY <1>1, WireKept DEF SendClipboardMessage
<1>2. CASE ~(s.phase # "Streaming" \/ ~s.open) /\ (outQueue[e] # <<>> \/ clipWire[e] # <<>>)
  <2>1. QueueMessage(outQueue[e], m) \in Seq(M)
    BY <1>0, QueueMessageTyped
  <2>2. outQueue' = [outQueue EXCEPT ![e] = QueueMessage(outQueue[e], m)] /\ clipWire' = clipWire
    BY <1>2 DEF SendClipboardMessage
  <2> QED
    BY <2>1, <2>2 DEF WireTyped
<1>3. CASE ~(s.phase # "Streaming" \/ ~s.open) /\ ~(outQueue[e] # <<>> \/ clipWire[e] # <<>>)
  <2>1. clipWire' = [clipWire EXCEPT ![e] = <<m>>] /\ outQueue' = outQueue
    BY <1>3 DEF SendClipboardMessage
  <2>2. <<m>> \in Seq(M) /\ Len(<<m>>) = 1
    OBVIOUS
  <2> QED
    BY <2>1, <2>2 DEF WireTyped
<1> QED
  BY <1>1, <1>2, <1>3

LEMMA MessagesTyped ==
    ASSUME CountTyped
    PROVE  /\ Ready \in Messages(copies)
           /\ \A b \in BOOLEAN : SyncState(b) \in Messages(copies)
           /\ \A t \in 1 .. copies : Text(t) \in Messages(copies)
BY CopiesAreCounted DEF Ready, SyncState, Text, Messages, NoText

LEMMA SendReadyTyped ==
    ASSUME ClipTyped, UNCHANGED copies, NEW e \in Endpoints, NEW s \in Services(copies),
           ServiceSound(s), SendReadyIfNeeded(e, s)
    PROVE  SyncTyped' /\ WireTyped'
<1>1. CASE s.readySent \/ ~s.open \/ s.phase # "Streaming"
  BY <1>1, SetSyncTyped, WireKept DEF SendReadyIfNeeded, ClipTyped
<1>2. CASE ~(s.readySent \/ ~s.open \/ s.phase # "Streaming")
  <2>1. /\ SetSync(e, [s EXCEPT !.readySent = TRUE])
        /\ SendClipboardMessage(e, s, Ready)
    BY <1>2 DEF SendReadyIfNeeded
  <2>2. [s EXCEPT !.readySent = TRUE] \in Services(copies)
    BY DEF Services
  <2>3. ServiceSound([s EXCEPT !.readySent = TRUE])
    BY DEF ServiceSound, Services
  <2>4. SyncTyped'
    BY <2>1, <2>2, <2>3, SetSyncTyped DEF ClipTyped
  <2>5. WireTyped'
    BY <2>1, MessagesTyped, SendTyped DEF ClipTyped
  <2> QED
    BY <2>4, <2>5
<1> QED
  BY <1>1, <1>2

LEMMA NoPendingTyped ==
    ASSUME CountTyped
    PROVE  NoPending \in [text : 0 .. copies, attempt : 0 .. MaxAttempts]
BY CopiesAreCounted DEF NoPending, NoText

LEMMA SessionStateTyped ==
    ASSUME ClipTyped, UNCHANGED copies, NEW e \in Endpoints, NEW phase \in SyncPhases,
           SessionState(e, phase)
    PROVE  SyncTyped' /\ WireTyped'
<1> DEFINE s == [sync[e] EXCEPT !.phase = phase,
                     !.pending = IF phase = "Streaming" THEN @ ELSE NoPending,
                     !.established = @ \/ phase = "Connected",
                     !.enabled = @ \/ (phase = "Connected" /\ ~sync[e].established)]
<1>0. sync[e] \in Services(copies) /\ ServiceSound(sync[e])
  BY DEF ClipTyped, SyncTyped
<1>1. s \in Services(copies)
  BY <1>0, NoPendingTyped DEF Services, ClipTyped
<1>2. ServiceSound(s)
  BY <1>0 DEF ServiceSound, Services
<1>3. SendReadyIfNeeded(e, s)
  BY DEF SessionState
<1> HIDE DEF s
<1> QED
  BY <1>1, <1>2, <1>3, SendReadyTyped

------------------------------------------------------------------------------
(* The clipboards: what the invariant says.                                  *)

\* A change that is about to be taken for the user's own.
Owes(e) == filter[e].reading /\ ~IsSelfWrite(e) /\ board[e].seq # filter[e].last

Debt(e) == IF Owes(e) THEN 1 ELSE 0

\* Every text that was sent, or is about to be, was copied by a user.
EchoInv == forwards + (Debt("controller") + Debt("host")) <= copies

Alike == board["controller"].text = board["host"].text

AtRest(e) == ~filter[e].reading /\ sync[e].pending = NoPending

\* The four places a text copied at c can be while nothing disturbs it: not
\* read yet, on the channel, waiting to be written once more, or arrived.
Unsent(c, o) ==
    /\ filter[c].reading /\ clipWire[c] = <<>> /\ AtRest(o)
    /\ Alike \/ Owes(c)

Travelling(c, o) ==
    ~filter[c].reading /\ clipWire[c] = <<Text(board[c].text)>> /\ AtRest(o)

Waits(c, o) ==
    /\ ~filter[c].reading /\ clipWire[c] = <<>> /\ ~filter[o].reading
    /\ sync[o].pending # NoPending /\ sync[o].pending.text = board[c].text

Arrived(c, o) ==
    /\ ~filter[c].reading /\ clipWire[c] = <<>> /\ sync[o].pending = NoPending /\ Alike
    /\ filter[o].reading => IsSelfWrite(o)

Undisturbed ==
    /\ \A e \in Endpoints : IsActive(e) /\ outQueue[e] = <<>>
    /\ streaming = <<>>

OnItsWay(c, o) ==
    /\ clipWire[o] = <<>> /\ sync[c].pending = NoPending
    /\ Unsent(c, o) \/ Travelling(c, o) \/ Waits(c, o) \/ Arrived(c, o)

CopyInv == clean => Undisturbed /\ \E c \in Endpoints : OnItsWay(c, Other(c))

ClipboardInv == ClipTyped /\ EchoInv /\ CopyInv

LEMMA EchoKept ==
    ASSUME EchoInv, UNCHANGED <<board, filter, forwards, copies>>
    PROVE  EchoInv'
BY DEF EchoInv, Debt, Owes, IsSelfWrite

LEMMA Disturbed ==
    ASSUME ~clean'
    PROVE  CopyInv'
BY DEF CopyInv

\* A step of the session, which leaves the clipboards alone.
LEMMA SessionStepKeeps ==
    ASSUME ClipboardInv, SyncTyped', WireTyped', UNCHANGED <<board, filter, forwards, copies>>,
           clean' = FALSE \/ (UNCHANGED clean /\ ~clean)
    PROVE  ClipboardInv'
<1>1. BoardTyped' /\ EchoInv'
  BY BoardKept, EchoKept DEF ClipboardInv, ClipTyped
<1>2. CountTyped'
  BY DEF ClipboardInv, ClipTyped, CountTyped
<1>3. CopyInv'
  BY Disturbed
<1> QED
  BY <1>1, <1>2, <1>3 DEF ClipboardInv, ClipTyped

\* No service of an undisturbed copy is in another state.
LEMMA CleanIsActive ==
    ASSUME ClipboardInv, clean, NEW e \in Endpoints
    PROVE  /\ sync[e].phase = "Streaming" /\ sync[e].open /\ outQueue[e] = <<>>
           /\ IsActive(e) /\ streaming = <<>>
BY DEF ClipboardInv, CopyInv, Undisturbed, IsActive, ClipTyped, SyncTyped, ServiceSound

------------------------------------------------------------------------------
(* The clipboards: the steps of the session.                                 *)

LEMMA ControllerEntersKeeps ==
    ASSUME ClipboardInv, ControllerEnters
    PROVE  ClipboardInv'
<1>1. SyncTyped' /\ WireTyped'
  BY SessionStateTyped DEF ClipboardInv, ControllerEnters, Steady, Endpoints, SyncPhases
<1>2. ~clean
  BY CleanIsActive DEF ControllerEnters, Endpoints
<1> QED
  BY <1>1, <1>2, SessionStepKeeps DEF ControllerEnters, Steady, NoBreak

LEMMA ControllerLeavesKeeps ==
    ASSUME ClipboardInv, ControllerLeaves
    PROVE  ClipboardInv'
<1>1. SyncTyped' /\ WireTyped'
  BY SessionStateTyped DEF ClipboardInv, ControllerLeaves, Steady, Endpoints, SyncPhases
<1> QED
  BY <1>1, SessionStepKeeps DEF ControllerLeaves, Steady, Break

LEMMA HandleStreamingKeeps ==
    ASSUME ClipboardInv, HandleStreamingMessage
    PROVE  ClipboardInv'
<1>1. SyncTyped' /\ WireTyped'
  <2>1. CASE UNCHANGED <<sync, outQueue, clipWire>>
    BY <2>1, SyncKept, WireKept DEF ClipboardInv, ClipTyped, HandleStreamingMessage, Steady
  <2>2. CASE SessionState("host", IF Head(streaming) THEN "Streaming" ELSE "Connected")
    BY <2>2, SessionStateTyped
       DEF ClipboardInv, HandleStreamingMessage, Steady, Endpoints, SyncPhases
  <2> QED
    BY <2>1, <2>2 DEF HandleStreamingMessage
<1>2. ~clean
  BY CleanIsActive DEF HandleStreamingMessage, Endpoints
<1> QED
  BY <1>1, <1>2, SessionStepKeeps DEF HandleStreamingMessage, Steady, NoBreak

LEMMA NoServiceTyped ==
    ASSUME CountTyped
    PROVE  NoService \in Services(copies) /\ ServiceSound(NoService)
BY NoPendingTyped DEF NoService, Services, ServiceSound, SyncPhases

LEMMA SessionEndsKeeps ==
    ASSUME ClipboardInv, SessionEnds
    PROVE  ClipboardInv'
<1>1. SyncTyped'
  BY NoServiceTyped DEF ClipboardInv, ClipTyped, SyncTyped, SessionEnds, Steady
<1>2. WireTyped'
  BY DEF WireTyped, SessionEnds
<1> QED
  BY <1>1, <1>2, SessionStepKeeps DEF SessionEnds, Steady, Break

LEMMA SessionConnectsKeeps ==
    ASSUME ClipboardInv, NEW e \in Endpoints, SessionConnects(e)
    PROVE  ClipboardInv'
<1>1. SyncTyped' /\ WireTyped'
  BY SessionStateTyped DEF ClipboardInv, SessionConnects, Steady, SyncPhases
<1>2. ~clean
  BY CleanIsActive DEF SessionConnects
<1> QED
  BY <1>1, <1>2, SessionStepKeeps DEF SessionConnects, Steady, NoBreak

LEMMA ChannelOpensKeeps ==
    ASSUME ClipboardInv, NEW e \in Endpoints, ChannelOpens(e)
    PROVE  ClipboardInv'
<1>0. sync[e] \in Services(copies) /\ ServiceSound(sync[e]) /\ ClipTyped
  BY DEF ClipboardInv, ClipTyped, SyncTyped
<1>1. SyncTyped' /\ WireTyped'
  <2> DEFINE s == [sync[e] EXCEPT !.open = TRUE]
  <2>1. s \in Services(copies) /\ ServiceSound(s)
    BY <1>0 DEF Services, ServiceSound
  <2>2. SendReadyIfNeeded(e, s)
    BY DEF ChannelOpens, ChannelChanged
  <2> HIDE DEF s
  <2> QED
    BY <1>0, <2>1, <2>2, SendReadyTyped DEF ChannelOpens, Steady
<1>2. ~clean
  BY CleanIsActive DEF ChannelOpens
<1> QED
  BY <1>1, <1>2, SessionStepKeeps DEF ChannelOpens, Steady, NoBreak

LEMMA InterruptedKeeps ==
    ASSUME ClipboardInv, NEW e \in Endpoints, Interrupted(e)
    PROVE  ClipboardInv'
<1> DEFINE s == [sync[e] EXCEPT !.before = sync[e].phase, !.phase = "Reconnecting",
                                !.pending = NoPending]
<1>0. sync[e] \in Services(copies) /\ ServiceSound(sync[e]) /\ CountTyped /\ SyncTyped
      /\ UNCHANGED copies
  BY DEF ClipboardInv, ClipTyped, SyncTyped, Interrupted, Steady
<1>1. s \in Services(copies) /\ ServiceSound(s)
  BY <1>0, NoPendingTyped DEF Services, ServiceSound, SyncPhases
<1>2. SetSync(e, s)
  BY DEF Interrupted
<1> HIDE DEF s
<1>3. SyncTyped'
  BY <1>0, <1>1, <1>2, SetSyncTyped
<1>4. WireTyped'
  BY <1>0, WireKept DEF ClipboardInv, ClipTyped, Interrupted, clipChannels
<1> QED
  BY <1>3, <1>4, SessionStepKeeps DEF Interrupted, Steady, Break

LEMMA RestoredKeeps ==
    ASSUME ClipboardInv, NEW e \in Endpoints, Restored(e)
    PROVE  ClipboardInv'
<1>1. SyncTyped' /\ WireTyped'
  <2>1. sync[e].before \in SyncPhases
    BY DEF ClipboardInv, ClipTyped, SyncTyped, Services
  <2> QED
    BY <2>1, SessionStateTyped DEF ClipboardInv, Restored, Steady
<1>2. ~clean
  BY CleanIsActive DEF Restored
<1> QED
  BY <1>1, <1>2, SessionStepKeeps DEF Restored, Steady, NoBreak

LEMMA SetEnabledKeeps ==
    ASSUME ClipboardInv, NEW e \in Endpoints, SetEnabled(e)
    PROVE  ClipboardInv'
<1> DEFINE s == [sync[e] EXCEPT !.enabled = ~@,
                                !.pending = IF sync[e].enabled THEN NoPending ELSE @]
<1>0. /\ sync[e] \in Services(copies) /\ ServiceSound(sync[e]) /\ CountTyped /\ SyncTyped
      /\ WireTyped /\ UNCHANGED copies
  BY DEF ClipboardInv, ClipTyped, SyncTyped, SetEnabled
<1>1. s \in Services(copies) /\ ServiceSound(s)
  BY <1>0, NoPendingTyped DEF Services, ServiceSound
<1>2. /\ SetSync(e, s)
      /\ SendClipboardMessage(e, s, SyncState(s.enabled)) \/ UNCHANGED <<outQueue, clipWire>>
  BY DEF SetEnabled
<1>3. s.enabled \in BOOLEAN
  BY <1>1 DEF Services
<1> HIDE DEF s
<1>4. SyncTyped'
  BY <1>0, <1>1, <1>2, SetSyncTyped
<1>5. WireTyped'
  <2>1. SyncState(s.enabled) \in Messages(copies)
    BY <1>0, <1>3, MessagesTyped
  <2> QED
    BY <1>0, <1>2, <2>1, SendTyped, WireKept
<1> QED
  BY <1>4, <1>5, SessionStepKeeps DEF SetEnabled

LEMMA FlushQueueKeeps ==
    ASSUME ClipboardInv, NEW e \in Endpoints, FlushClipboardQueue(e)
    PROVE  ClipboardInv'
<1>1. SyncTyped'
  BY SyncKept DEF ClipboardInv, ClipTyped, FlushClipboardQueue, sides, clipCounters
<1>2. WireTyped'
  <2> DEFINE M == Messages(copies)
  <2>1. outQueue[e] \in Seq(M) /\ outQueue[e] # <<>> /\ UNCHANGED copies /\ WireTyped
    BY DEF ClipboardInv, ClipTyped, WireTyped, FlushClipboardQueue, clipCounters
  <2>2. <<Head(outQueue[e])>> \in Seq(M) /\ Tail(outQueue[e]) \in Seq(M)
        /\ Len(<<Head(outQueue[e])>>) = 1
    BY <2>1
  <2>3. /\ clipWire' = [clipWire EXCEPT ![e] = <<Head(outQueue[e])>>]
        /\ outQueue' = [outQueue EXCEPT ![e] = Tail(outQueue[e])]
    BY DEF FlushClipboardQueue
  <2> HIDE DEF M
  <2>4. WireTyped'
    <3>1. outQueue' \in [Endpoints -> Seq(M)] /\ clipWire' \in [Endpoints -> Seq(M)]
      BY <2>1, <2>2, <2>3 DEF WireTyped, M
    <3>2. \A f \in Endpoints : Len(clipWire'[f]) <= 1
      BY <2>1, <2>2, <2>3 DEF WireTyped
    <3> QED
      BY <2>1, <3>1, <3>2 DEF WireTyped, M
  <2> QED
    BY <2>4
<1>3. ~clean
  BY CleanIsActive DEF FlushClipboardQueue
<1> QED
  BY <1>1, <1>2, <1>3, SessionStepKeeps DEF FlushClipboardQueue, sides, clipCounters

------------------------------------------------------------------------------
(* The clipboards: a change of a clipboard.                                  *)

\* What is left of a change: the text, and a filter that will look at it.
LEMMA ChangeGives ==
    ASSUME CountTyped, BoardTyped, UNCHANGED copies \/ copies' = copies + 1, NEW e \in Endpoints,
           NEW t \in 1 .. copies', NEW self, NEW confirmed,
           Change(e, t, self, confirmed)
    PROVE  /\ BoardTyped'
           /\ board'[e].text = t /\ board'[e].seq = board[e].seq + 1
           /\ filter'[e].reading
           /\ filter'[e].self = IF self THEN t ELSE filter[e].self
           /\ filter'[e].last = IF confirmed THEN board[e].seq + 1 ELSE filter[e].last
           /\ \A f \in Endpoints \ {e} : board'[f] = board[f] /\ filter'[f] = filter[f]
<1> DEFINE b == [text |-> t, seq |-> board[e].seq + 1]
           g == [reading |-> TRUE, retries |-> 0,
                 self |-> IF self THEN t ELSE filter[e].self,
                 last |-> IF confirmed THEN board[e].seq + 1 ELSE filter[e].last]
<1>0. /\ board \in [Endpoints -> Boards(copies)] /\ filter \in [Endpoints -> Filters(copies)]
      /\ \A f \in Endpoints : FilterSound(filter[f], board[f])
      /\ copies \in Nat /\ MaxReads \in Nat /\ copies' \in Nat /\ copies <= copies'
  BY CopiesAreCounted DEF BoardTyped
<1>1. board' = [board EXCEPT ![e] = b] /\ filter' = [filter EXCEPT ![e] = g]
  BY DEF Change
<1>2. board[e] \in Boards(copies) /\ filter[e] \in Filters(copies)
  BY <1>0
<1>3. b \in Boards(copies')
  BY <1>0, <1>2 DEF Boards
<1>4. g \in Filters(copies')
  BY <1>0, <1>2 DEF Boards, Filters
<1>5. FilterSound(g, b)
  BY <1>0, <1>2 DEF Boards, Filters, FilterSound, NoText
<1>6. /\ b.text = t /\ b.seq = board[e].seq + 1
      /\ g.reading = TRUE
      /\ g.self = (IF self THEN t ELSE filter[e].self)
      /\ g.last = (IF confirmed THEN board[e].seq + 1 ELSE filter[e].last)
  BY <1>2 DEF Filters
<1> HIDE DEF b, g
<1>7. Boards(copies) \subseteq Boards(copies') /\ Filters(copies) \subseteq Filters(copies')
  BY <1>0 DEF Boards, Filters
<1>8. board' \in [Endpoints -> Boards(copies')] /\ filter' \in [Endpoints -> Filters(copies')]
  BY <1>0, <1>1, <1>3, <1>4, <1>7
<1>9. \A f \in Endpoints : FilterSound(filter'[f], board'[f])
  BY <1>0, <1>1, <1>5
<1>10. board'[e] = b /\ filter'[e] = g
       /\ \A f \in Endpoints \ {e} : board'[f] = board[f] /\ filter'[f] = filter[f]
  BY <1>0, <1>1
<1>11. BoardTyped'
  BY <1>8, <1>9 DEF BoardTyped
<1> QED
  BY <1>6, <1>10, <1>11

\* The other clipboard is not touched by a step at e.
LEMMA DebtKept ==
    ASSUME NEW f \in Endpoints, board'[f] = board[f], filter'[f] = filter[f]
    PROVE  Debt(f)' = Debt(f) /\ Owes(f)' = Owes(f) /\ IsSelfWrite(f)' = IsSelfWrite(f)
BY DEF Debt, Owes, IsSelfWrite

\* The debts of the two ends, seen from one of them.
LEMMA EchoFrom ==
    ASSUME NEW e \in Endpoints
    PROVE  /\ EchoInv <=> forwards + (Debt(e) + Debt(Other(e))) <= copies
           /\ EchoInv' <=> forwards' + (Debt(e)' + Debt(Other(e))') <= copies'
           /\ Debt(e) \in {0, 1} /\ Debt(e)' \in {0, 1}
           /\ Debt(Other(e)) \in {0, 1} /\ Debt(Other(e))' \in {0, 1}
<1>1. \A f \in Endpoints : Debt(f) \in {0, 1} /\ Debt(f)' \in {0, 1}
  BY DEF Debt
<1>2. EchoInv' <=> forwards' + (Debt("controller")' + Debt("host")') <= copies'
  BY DEF EchoInv
<1>3. EchoInv <=> forwards + (Debt("controller") + Debt("host")) <= copies
  BY DEF EchoInv
<1> QED
  BY <1>1, <1>2, <1>3, EndpointsDiffer DEF Endpoints, Other

LEMMA CopyTextTypes ==
    ASSUME ClipTyped, copies < MaxCopies, copies' = copies + 1,
           UNCHANGED <<sync, outQueue, clipWire>>
    PROVE  SyncTyped' /\ WireTyped'
<1>0. copies \in Nat
  BY CopiesAreCounted DEF ClipTyped
<1>1. Services(copies) \subseteq Services(copies')
  BY <1>0 DEF Services
<1>2. SyncTyped'
  BY <1>1 DEF ClipTyped, SyncTyped
<1>3. Messages(copies) \subseteq Messages(copies')
  BY <1>0 DEF Messages
<1>4. Seq(Messages(copies)) \subseteq Seq(Messages(copies'))
  BY <1>3, SeqMonotonic
<1>5. WireTyped'
  BY <1>4 DEF ClipTyped, WireTyped
<1> QED
  BY <1>2, <1>5

LEMMA CopyTextKeeps ==
    ASSUME ClipboardInv, NEW e \in Endpoints, CopyText(e)
    PROVE  ClipboardInv'
<1> DEFINE o == Other(e)
<1>0. /\ ClipTyped /\ copies \in Nat /\ copies' = copies + 1 /\ copies < MaxCopies
      /\ o \in Endpoints /\ o # e /\ Other(o) = e /\ Endpoints = {e, o}
      /\ UNCHANGED <<sync, outQueue, clipWire, streaming, forwards>>
  BY CopiesAreCounted, EndpointsDiffer DEF ClipboardInv, ClipTyped, CopyText, clipChannels
<1>1. PICK t \in {copies + 1, board[o].text} \ {NoText} : Change(e, t, FALSE, FALSE)
  BY DEF CopyText
<1>2. t \in 1 .. copies'
  BY <1>0 DEF ClipTyped, BoardTyped, Boards, NoText
<1>3. /\ BoardTyped'
      /\ board'[e].text = t /\ board'[e].seq = board[e].seq + 1
      /\ filter'[e].reading
      /\ filter'[e].self = filter[e].self /\ filter'[e].last = filter[e].last
      /\ board'[o] = board[o] /\ filter'[o] = filter[o]
  <2>1. CountTyped /\ BoardTyped
    BY <1>0 DEF ClipTyped
  <2> HIDE DEF o
  <2> QED
    BY <1>0, <1>1, <1>2, <2>1, ChangeGives
<1>4. SyncTyped' /\ WireTyped'
  BY <1>0, CopyTextTypes
<1>5. CountTyped'
  BY <1>0, ClipboardAssumption DEF ClipTyped, CountTyped, CopyText
<1>6. EchoInv'
  <2>1. Debt(o)' = Debt(o)
    BY <1>0, <1>3, DebtKept
  <2>2. /\ EchoInv <=> forwards + (Debt(e) + Debt(o)) <= copies
        /\ EchoInv' <=> forwards' + (Debt(e)' + Debt(o)') <= copies'
        /\ Debt(e) \in {0, 1} /\ Debt(e)' \in {0, 1} /\ Debt(o) \in {0, 1}
    BY EchoFrom
  <2>3. EchoInv /\ forwards \in Nat
    BY DEF ClipboardInv, ClipTyped, CountTyped
  <2> HIDE DEF o
  <2> QED
    BY <1>0, <2>1, <2>2, <2>3
<1>7. CopyInv'
  <2> SUFFICES ASSUME clean' PROVE CopyInv'
    BY Disturbed
  <2>1. Quiet /\ \A f \in Endpoints : IsActive(f)
    BY DEF CopyText
  <2>2. Undisturbed'
    BY <1>0, <2>1 DEF Quiet, Undisturbed, IsActive
  <2>3. /\ clipWire'[o] = <<>> /\ clipWire'[e] = <<>>
        /\ sync'[e].pending = NoPending /\ sync'[o].pending = NoPending /\ ~filter'[o].reading
    BY <1>0, <1>3, <2>1 DEF Quiet
  <2>4. Alike' \/ Owes(e)'
    <3>1. CASE t = board[o].text
      <4>1. board'[e].text = board'[o].text
        BY <1>3, <3>1
      <4> QED
        BY <1>0, <4>1 DEF Alike, Endpoints
    <3>2. CASE t = copies + 1
      <4>1. filter[e].self \in 0 .. copies /\ filter[e].last <= board[e].seq
            /\ board[e].seq \in Nat /\ filter[e].last \in Nat
        BY <1>0 DEF ClipTyped, BoardTyped, Boards, Filters, FilterSound
      <4>2. board'[e].text # filter'[e].self /\ board'[e].seq # filter'[e].last
        BY <1>0, <1>3, <3>2, <4>1
      <4> QED
        BY <1>3, <4>2 DEF Owes, IsSelfWrite
    <3> QED
      BY <1>1, <3>1, <3>2
  <2>5. OnItsWay(e, o)'
    BY <1>3, <2>3, <2>4 DEF OnItsWay, Unsent, AtRest
  <2> QED
    BY <2>2, <2>5 DEF CopyInv
<1> QED
  BY <1>3, <1>4, <1>5, <1>6, <1>7 DEF ClipboardInv, ClipTyped

------------------------------------------------------------------------------
(* The clipboards: the filter.                                               *)

\* The filter of e when it has read the clipboard.
LEMMA ProcessGives ==
    ASSUME ClipTyped, NEW e \in Endpoints, ProcessClipboardChange(e)
    PROVE  /\ BoardTyped' /\ ~filter'[e].reading /\ filter[e].reading
           /\ UNCHANGED <<sync, board, streaming, copies, clean>>
           /\ \A f \in Endpoints \ {e} : filter'[f] = filter[f]
<1> DEFINE g == [filter[e] EXCEPT !.reading = FALSE, !.last = board[e].seq,
                    !.self = IF ~IsSelfWrite(e) /\ board[e].seq = filter[e].last
                             THEN filter[e].self ELSE NoText]
<1>0. /\ BoardTyped /\ board[e] \in Boards(copies) /\ filter[e] \in Filters(copies)
      /\ copies \in Nat
  BY CopiesAreCounted DEF ClipTyped, BoardTyped
<1>1. filter' = [filter EXCEPT ![e] = g]
  BY DEF ProcessClipboardChange
<1>2. g \in Filters(copies) /\ g.reading = FALSE /\ FilterSound(g, board[e])
  <2>1. filter[e].self \in 0 .. copies /\ NoText \in 0 .. copies
    BY <1>0 DEF Filters, NoText
  <2>2. PICK z \in 0 .. copies :
            z = IF ~IsSelfWrite(e) /\ board[e].seq = filter[e].last
                THEN filter[e].self ELSE NoText
    BY <2>1
  <2>3. g = [filter[e] EXCEPT !.reading = FALSE, !.last = board[e].seq, !.self = z]
    BY <2>2
  <2> HIDE DEF g
  <2>4. g \in Filters(copies)
    BY <1>0, <2>3 DEF Filters, Boards
  <2>5. g.reading = FALSE /\ g.last = board[e].seq /\ board[e].seq \in Nat
    BY <1>0, <2>3 DEF Filters, Boards
  <2> QED
    BY <2>4, <2>5 DEF FilterSound
<1> HIDE DEF g
<1>3. /\ filter[e].reading
      /\ UNCHANGED <<sync, board, streaming, copies, clean>>
  BY DEF ProcessClipboardChange, clipCounters
<1>4. filter'[e] = g /\ \A f \in Endpoints \ {e} : filter'[f] = filter[f]
  BY <1>0, <1>1 DEF BoardTyped
<1>5. BoardTyped'
  BY <1>0, <1>1, <1>2, <1>3 DEF BoardTyped
<1> QED
  BY <1>2, <1>3, <1>4, <1>5

LEMMA ProcessKeeps ==
    ASSUME ClipboardInv, NEW e \in Endpoints, ProcessClipboardChange(e)
    PROVE  ClipboardInv'
<1> DEFINE o == Other(e)
<1>0. /\ ClipTyped /\ EchoInv /\ CopyInv /\ forwards \in Nat /\ CountTyped /\ WireTyped
      /\ o \in Endpoints /\ o # e /\ Other(o) = e /\ Endpoints = {e, o}
  BY EndpointsDiffer DEF ClipboardInv, ClipTyped, CountTyped
<1>1. /\ BoardTyped' /\ ~filter'[e].reading /\ filter[e].reading
      /\ UNCHANGED <<sync, board, streaming, copies, clean>>
      /\ filter'[o] = filter[o]
  <2> HIDE DEF o
  <2> QED
    BY <1>0, ProcessGives
<1>2. SyncTyped'
  BY <1>0, <1>1, SyncKept DEF ClipTyped
<1>3. Debt(e)' = 0 /\ Debt(o)' = Debt(o)
  <2>1. Debt(e)' = 0
    BY <1>1 DEF Debt, Owes
  <2>2. Debt(o)' = Debt(o)
    BY <1>0, <1>1, DebtKept
  <2> QED
    BY <2>1, <2>2
<1>4. /\ EchoInv <=> forwards + (Debt(e) + Debt(o)) <= copies
      /\ EchoInv' <=> forwards' + (Debt(e)' + Debt(o)') <= copies'
      /\ Debt(e) \in {0, 1} /\ Debt(o) \in {0, 1}
  BY EchoFrom
<1>5. CASE Owes(e) /\ IsActive(e)
  <2>1. SendClipboardMessage(e, sync[e], Text(board[e].text)) /\ forwards' = forwards + 1
    BY <1>5 DEF ProcessClipboardChange, Owes
  <2>2. WireTyped'
    <3>1. board[e].text \in 1 .. copies
      BY <1>0, <1>1 DEF ClipTyped, BoardTyped, FilterSound, Boards, NoText
    <3>2. Text(board[e].text) \in Messages(copies)
      BY <1>0, <3>1, MessagesTyped
    <3> QED
      BY <1>0, <1>1, <2>1, <3>2, SendTyped
  <2>3. EchoInv'
    <3>1. Debt(e) = 1
      BY <1>5 DEF Debt
    <3> HIDE DEF o
    <3> QED
      BY <1>0, <1>1, <1>3, <1>4, <2>1, <3>1
  <2>4. CountTyped'
    BY <1>0, <1>1, <2>1 DEF CountTyped
  <2>5. CopyInv'
    <3> SUFFICES ASSUME clean' PROVE CopyInv'
      BY Disturbed
    <3>1. clean
      BY <1>1
    <3>2. PICK c \in Endpoints : OnItsWay(c, Other(c))
      BY <1>0, <3>1 DEF CopyInv
    <3>3. CASE c = o
      <4>1. Arrived(o, e) /\ filter[e].reading
        BY <1>0, <1>1, <3>2, <3>3 DEF OnItsWay, Unsent, Travelling, Waits, AtRest
      <4> QED
        BY <1>5, <4>1 DEF Arrived, Owes
    <3>4. CASE c = e
      <4>1. Unsent(e, o) /\ clipWire[o] = <<>> /\ sync[e].pending = NoPending
        BY <1>1, <3>2, <3>4 DEF OnItsWay, Travelling, Waits, Arrived
      <4>2. sync[e].phase = "Streaming" /\ sync[e].open /\ outQueue[e] = <<>>
        BY <3>1, CleanIsActive
      <4>3. outQueue' = outQueue /\ clipWire' = [clipWire EXCEPT ![e] = <<Text(board[e].text)>>]
        BY <2>1, <4>1, <4>2 DEF SendClipboardMessage, Unsent
      <4>4. clipWire'[e] = <<Text(board[e].text)>> /\ clipWire'[o] = clipWire[o]
        BY <1>0, <4>3 DEF WireTyped
      <4>5. OnItsWay(e, o)'
        BY <1>1, <4>1, <4>4 DEF OnItsWay, Unsent, Travelling, AtRest
      <4>6. Undisturbed'
        BY <1>0, <1>1, <3>1, <4>3 DEF CopyInv, Undisturbed, IsActive
      <4> QED
        BY <4>5, <4>6 DEF CopyInv
    <3> QED
      BY <1>0, <3>3, <3>4
  <2> QED
    BY <1>1, <1>2, <2>2, <2>3, <2>4, <2>5 DEF ClipboardInv, ClipTyped
<1>6. CASE ~(Owes(e) /\ IsActive(e))
  <2>1. UNCHANGED <<outQueue, clipWire, forwards>>
    BY <1>1, <1>6 DEF ProcessClipboardChange, Owes
  <2>2. WireTyped' /\ CountTyped'
    BY <1>0, <1>1, <2>1, WireKept DEF CountTyped
  <2>3. EchoInv'
    <3> HIDE DEF o
    <3> QED
      BY <1>0, <1>1, <1>3, <1>4, <2>1 DEF CountTyped
  <2>4. CopyInv'
    <3> SUFFICES ASSUME clean' PROVE CopyInv'
      BY Disturbed
    <3>1. clean /\ ~Owes(e)
      BY <1>1, <1>6, CleanIsActive
    <3>2. PICK c \in Endpoints : OnItsWay(c, Other(c))
      BY <1>0, <3>1 DEF CopyInv
    <3>3. Undisturbed'
      BY <1>0, <1>1, <2>1, <3>1 DEF CopyInv, Undisturbed, IsActive
    <3>4. Alike' = Alike
      BY <1>1 DEF Alike
    <3>5. CASE c = o
      <4>1. Arrived(o, e) /\ clipWire[e] = <<>> /\ sync[o].pending = NoPending
        BY <1>0, <1>1, <3>2, <3>5 DEF OnItsWay, Unsent, Travelling, Waits, AtRest
      <4>2. OnItsWay(o, e)'
        BY <1>1, <2>1, <3>4, <4>1 DEF OnItsWay, Arrived
      <4> QED
        BY <1>0, <3>3, <4>2 DEF CopyInv
    <3>6. CASE c = e
      <4>1. Unsent(e, o) /\ clipWire[o] = <<>> /\ sync[e].pending = NoPending
        BY <1>1, <3>2, <3>6 DEF OnItsWay, Travelling, Waits, Arrived
      <4>2. OnItsWay(e, o)'
        BY <1>1, <2>1, <3>1, <3>4, <4>1 DEF OnItsWay, Unsent, Arrived, AtRest
      <4> QED
        BY <3>3, <4>2 DEF CopyInv
    <3> QED
      BY <1>0, <3>5, <3>6
  <2> QED
    BY <1>1, <1>2, <2>2, <2>3, <2>4 DEF ClipboardInv, ClipTyped
<1> QED
  BY <1>5, <1>6

LEMMA BusyGives ==
    ASSUME ClipTyped, NEW e \in Endpoints, ClipboardIsBusy(e)
    PROVE  /\ BoardTyped'
           /\ filter'[e].self = filter[e].self /\ filter'[e].last = filter[e].last
           /\ filter'[e].reading => filter[e].reading
           /\ clean' => clean /\ filter'[e].reading = filter[e].reading
           /\ \A f \in Endpoints \ {e} : filter'[f] = filter[f]
<1> DEFINE f == filter[e]
           g == IF f.retries < MaxReads THEN [f EXCEPT !.retries = f.retries + 1]
                ELSE [f EXCEPT !.reading = FALSE]
<1>0. /\ BoardTyped /\ board[e] \in Boards(copies) /\ f \in Filters(copies)
      /\ MaxReads \in Nat /\ FilterSound(f, board[e])
  BY CopiesAreCounted DEF ClipTyped, BoardTyped
<1>1. filter' = [filter EXCEPT ![e] = g] /\ UNCHANGED <<board, copies>>
      /\ clean' = (clean /\ f.retries < MaxReads)
  BY DEF ClipboardIsBusy
<1>2. /\ g \in Filters(copies) /\ g.self = f.self /\ g.last = f.last
      /\ g.reading => f.reading
      /\ f.retries < MaxReads => g.reading = f.reading
  <2>1. CASE f.retries < MaxReads
    <3>1. f.retries + 1 \in 0 .. MaxReads
      BY <1>0, <2>1 DEF Filters
    <3> QED
      BY <1>0, <2>1, <3>1 DEF Filters
  <2>2. CASE ~(f.retries < MaxReads)
    BY <1>0, <2>2 DEF Filters
  <2> QED
    BY <2>1, <2>2
<1>3. FilterSound(g, board[e])
  BY <1>0, <1>2 DEF FilterSound
<1> HIDE DEF g
<1>4. filter'[e] = g /\ \A h \in Endpoints \ {e} : filter'[h] = filter[h]
  BY <1>0, <1>1 DEF BoardTyped
<1>5. BoardTyped'
  BY <1>0, <1>1, <1>2, <1>3 DEF BoardTyped
<1> QED
  BY <1>1, <1>2, <1>4, <1>5

LEMMA BusyKeeps ==
    ASSUME ClipboardInv, NEW e \in Endpoints, ClipboardIsBusy(e)
    PROVE  ClipboardInv'
<1> DEFINE o == Other(e)
<1>0. /\ ClipTyped /\ EchoInv /\ CopyInv /\ CountTyped
      /\ o \in Endpoints /\ o # e /\ Other(o) = e /\ Endpoints = {e, o}
      /\ UNCHANGED <<sync, board, outQueue, clipWire, streaming, copies, forwards>>
  BY EndpointsDiffer DEF ClipboardInv, ClipTyped, ClipboardIsBusy, clipChannels
<1>1. /\ BoardTyped'
      /\ filter'[e].self = filter[e].self /\ filter'[e].last = filter[e].last
      /\ filter'[e].reading => filter[e].reading
      /\ clean' => clean /\ filter'[e].reading = filter[e].reading
      /\ filter'[o] = filter[o]
  <2> HIDE DEF o
  <2> QED
    BY <1>0, BusyGives
<1>2. SyncTyped' /\ WireTyped'
  BY <1>0, SyncKept, WireKept DEF ClipTyped
<1>3. CountTyped'
  BY <1>0 DEF ClipboardIsBusy, CountTyped
<1>4. EchoInv'
  <2>1. Debt(o)' = Debt(o)
    BY <1>0, <1>1, DebtKept
  <2>2. Debt(e)' <= Debt(e)
    BY <1>0, <1>1 DEF Debt, Owes, IsSelfWrite
  <2>3. /\ EchoInv <=> forwards + (Debt(e) + Debt(o)) <= copies
        /\ EchoInv' <=> forwards' + (Debt(e)' + Debt(o)') <= copies'
        /\ Debt(e) \in {0, 1} /\ Debt(o) \in {0, 1} /\ Debt(e)' \in {0, 1}
    BY EchoFrom
  <2> HIDE DEF o
  <2> QED
    BY <1>0, <2>1, <2>2, <2>3 DEF CountTyped
<1>5. CopyInv'
  <2> SUFFICES ASSUME clean' PROVE CopyInv'
    BY Disturbed
  <2>1. clean /\ \A f \in Endpoints :
            /\ filter'[f].reading = filter[f].reading
            /\ Owes(f)' = Owes(f) /\ IsSelfWrite(f)' = IsSelfWrite(f)
    BY <1>0, <1>1 DEF Owes, IsSelfWrite
  <2>2. PICK c \in Endpoints : OnItsWay(c, Other(c))
    BY <1>0, <2>1 DEF CopyInv
  <2>3. Other(c) \in Endpoints
    BY EndpointsDiffer
  <2>4. OnItsWay(c, Other(c))'
    <3>1. Alike' = Alike
      BY <1>0 DEF Alike
    <3>2. /\ filter'[c].reading = filter[c].reading
          /\ filter'[Other(c)].reading = filter[Other(c)].reading
          /\ Owes(c)' = Owes(c) /\ IsSelfWrite(Other(c))' = IsSelfWrite(Other(c))
      BY <2>1, <2>3
    <3> QED
      BY <1>0, <2>2, <3>1, <3>2 DEF OnItsWay, Unsent, Travelling, Waits, Arrived, AtRest
  <2>5. Undisturbed'
    BY <1>0, <2>1 DEF CopyInv, Undisturbed, IsActive
  <2> QED
    BY <2>4, <2>5 DEF CopyInv
<1> QED
  BY <1>1, <1>2, <1>3, <1>4, <1>5 DEF ClipboardInv, ClipTyped

------------------------------------------------------------------------------
(* The clipboards: a text from the other computer.                           *)

LEMMA PendingTyped ==
    ASSUME CountTyped, NEW s \in Services(copies), ServiceSound(s),
           NEW p \in [text : 0 .. copies, attempt : 0 .. MaxAttempts],
           p # NoPending => p.text # NoText
    PROVE  LET r == [s EXCEPT !.pending = p]
           IN /\ r \in Services(copies) /\ ServiceSound(r) /\ r.pending = p
              /\ r.enabled = s.enabled /\ r.peerReady = s.peerReady /\ r.phase = s.phase
BY DEF Services, ServiceSound

\* The text is written and looked at, or waits to be written again, or is
\* given up; it is never taken for a text of the user.
LEMMA ApplyGives ==
    ASSUME ClipTyped, UNCHANGED copies, NEW e \in Endpoints, NEW t \in 1 .. copies,
           NEW attempt \in Nat, ApplyRemoteMessage(e, t, attempt)
    PROVE  /\ SyncTyped' /\ BoardTyped'
           /\ clean' \in BOOLEAN /\ (clean' => clean)
           /\ Debt(e)' <= Debt(e)
           /\ \A f \in Endpoints \ {e} :
                 board'[f] = board[f] /\ filter'[f] = filter[f] /\ sync'[f] = sync[f]
           /\ IsActive(e)' = IsActive(e)
           /\ \/ /\ board'[e].text = t /\ IsSelfWrite(e)' /\ sync'[e].pending = NoPending
              \/ /\ board'[e] = board[e] /\ filter'[e] = filter[e]
                 /\ sync'[e].pending # NoPending /\ sync'[e].pending.text = t
              \/ ~clean'
<1>0. /\ CountTyped /\ SyncTyped /\ BoardTyped /\ copies \in Nat /\ MaxAttempts \in Nat
      /\ sync[e] \in Services(copies) /\ ServiceSound(sync[e]) /\ clean \in BOOLEAN
  BY CopiesAreCounted DEF ClipTyped, SyncTyped, CountTyped
<1>1. CASE /\ \E late \in BOOLEAN : Change(e, t, TRUE, ~late)
           /\ SetSync(e, [sync[e] EXCEPT !.pending = NoPending])
           /\ UNCHANGED <<busy, clean>>
  <2>1. PICK late \in BOOLEAN : Change(e, t, TRUE, ~late)
    BY <1>1
  <2>2. /\ BoardTyped' /\ board'[e].text = t /\ filter'[e].self = t
        /\ \A f \in Endpoints \ {e} : board'[f] = board[f] /\ filter'[f] = filter[f]
    <3>1. copies' = copies /\ t \in 1 .. copies'
      OBVIOUS
    <3> QED
      BY <1>0, <2>1, <3>1, ChangeGives
  <2>3. IsSelfWrite(e)'
    BY <1>0, <2>2 DEF IsSelfWrite, NoText
  <2>4. Debt(e)' = 0
    BY <2>3 DEF Debt, Owes
  <2> DEFINE r == [sync[e] EXCEPT !.pending = NoPending]
  <2>5. /\ r \in Services(copies) /\ ServiceSound(r) /\ r.pending = NoPending
        /\ r.enabled = sync[e].enabled /\ r.peerReady = sync[e].peerReady
        /\ r.phase = sync[e].phase
    BY <1>0, NoPendingTyped, PendingTyped
  <2>6. SetSync(e, r)
    BY <1>1
  <2> HIDE DEF r
  <2>7. /\ SyncTyped' /\ sync'[e] = r
        /\ \A f \in Endpoints \ {e} : sync'[f] = sync[f]
    BY <1>0, <2>5, <2>6, SetSyncTyped
  <2>8. IsActive(e)' = IsActive(e)
    BY <2>5, <2>7 DEF IsActive
  <2>9. Debt(e)' <= Debt(e)
    BY <2>4 DEF Debt
  <2> QED
    BY <1>0, <1>1, <2>2, <2>3, <2>5, <2>7, <2>8, <2>9
<1>2. CASE /\ SetSync(e, [sync[e] EXCEPT !.pending =
                 IF attempt < MaxAttempts THEN [text |-> t, attempt |-> attempt] ELSE NoPending])
           /\ clean' = (clean /\ attempt < MaxAttempts)
           /\ UNCHANGED <<board, filter>>
  <2> DEFINE p == IF attempt < MaxAttempts THEN [text |-> t, attempt |-> attempt] ELSE NoPending
             r == [sync[e] EXCEPT !.pending = p]
  <2>1. /\ p \in [text : 0 .. copies, attempt : 0 .. MaxAttempts]
        /\ p # NoPending => p.text # NoText
        /\ attempt < MaxAttempts => p # NoPending /\ p.text = t
    BY <1>0, NoPendingTyped DEF NoPending, NoText
  <2> HIDE DEF p
  <2>2. /\ r \in Services(copies) /\ ServiceSound(r) /\ r.pending = p
        /\ r.enabled = sync[e].enabled /\ r.peerReady = sync[e].peerReady
        /\ r.phase = sync[e].phase
    BY <1>0, <2>1, PendingTyped
  <2>3. SetSync(e, r)
    BY <1>2 DEF p
  <2> HIDE DEF r
  <2>4. /\ SyncTyped' /\ sync'[e] = r
        /\ \A f \in Endpoints \ {e} : sync'[f] = sync[f]
    BY <1>0, <2>2, <2>3, SetSyncTyped
  <2>5. IsActive(e)' = IsActive(e)
    BY <2>2, <2>4 DEF IsActive
  <2>6. BoardTyped' /\ Debt(e)' = Debt(e)
    BY <1>0, <1>2, BoardKept, DebtKept
  <2>7. Debt(e)' <= Debt(e)
    BY <2>6 DEF Debt
  <2> QED
    BY <1>0, <1>2, <2>1, <2>2, <2>4, <2>5, <2>6, <2>7
<1> QED
  BY <1>1, <1>2 DEF ApplyRemoteMessage

\* A text of c that is applied at the other end arrives or waits.
LEMMA ApplyKeeps ==
    ASSUME ClipboardInv, UNCHANGED <<copies, forwards, outQueue, streaming>>, WireTyped',
           NEW e \in Endpoints, NEW t \in 1 .. copies, NEW attempt \in Nat,
           ApplyRemoteMessage(e, t, attempt),
           clean => /\ t = board[Other(e)].text
                    /\ ~filter[Other(e)].reading /\ ~filter[e].reading
                    /\ clipWire'[Other(e)] = <<>> /\ clipWire'[e] = <<>>
                    /\ sync[Other(e)].pending = NoPending
    PROVE  ClipboardInv'
<1> DEFINE o == Other(e)
<1>0. /\ ClipTyped /\ EchoInv /\ CopyInv /\ CountTyped
      /\ o \in Endpoints /\ o # e /\ Other(o) = e /\ Endpoints = {e, o}
  BY EndpointsDiffer DEF ClipboardInv, ClipTyped
<1>1. /\ SyncTyped' /\ BoardTyped'
      /\ clean' \in BOOLEAN /\ (clean' => clean)
      /\ Debt(e)' <= Debt(e)
      /\ board'[o] = board[o] /\ filter'[o] = filter[o] /\ sync'[o] = sync[o]
      /\ IsActive(e)' = IsActive(e)
      /\ \/ /\ board'[e].text = t /\ IsSelfWrite(e)' /\ sync'[e].pending = NoPending
         \/ /\ board'[e] = board[e] /\ filter'[e] = filter[e]
            /\ sync'[e].pending # NoPending /\ sync'[e].pending.text = t
         \/ ~clean'
  <2> HIDE DEF o
  <2> QED
    BY <1>0, ApplyGives
<1>2. CountTyped'
  BY <1>0, <1>1 DEF CountTyped
<1>3. EchoInv'
  <2>1. Debt(o)' = Debt(o)
    BY <1>0, <1>1, DebtKept
  <2>2. /\ EchoInv <=> forwards + (Debt(e) + Debt(o)) <= copies
        /\ EchoInv' <=> forwards' + (Debt(e)' + Debt(o)') <= copies'
        /\ Debt(e) \in {0, 1} /\ Debt(o) \in {0, 1} /\ Debt(e)' \in {0, 1}
    BY EchoFrom
  <2> HIDE DEF o
  <2> QED
    BY <1>0, <1>1, <2>1, <2>2 DEF CountTyped
<1>4. CopyInv'
  <2> SUFFICES ASSUME clean' PROVE CopyInv'
    BY Disturbed
  <2>1. /\ clean /\ t = board[o].text /\ ~filter[o].reading /\ ~filter[e].reading
        /\ clipWire'[o] = <<>> /\ clipWire'[e] = <<>> /\ sync[o].pending = NoPending
    BY <1>1
  <2>2. IsActive(o)' = IsActive(o)
    BY <1>1 DEF IsActive
  <2>3. Undisturbed'
    <3>1. Undisturbed
      BY <1>0, <2>1 DEF CopyInv
    <3>2. \A f \in Endpoints : IsActive(f)'
      BY <1>0, <1>1, <2>2, <3>1 DEF Undisturbed
    <3> QED
      BY <3>1, <3>2 DEF Undisturbed
  <2>4. CASE board'[e].text = t /\ IsSelfWrite(e)' /\ sync'[e].pending = NoPending
    <3>1. board'[e].text = board'[o].text
      BY <1>1, <2>1, <2>4
    <3>2. Alike'
      BY <1>0, <3>1 DEF Alike, Endpoints
    <3>3. OnItsWay(o, e)'
      BY <1>1, <2>1, <2>4, <3>2 DEF OnItsWay, Arrived
    <3> QED
      BY <1>0, <2>3, <3>3 DEF CopyInv
  <2>5. CASE /\ board'[e] = board[e] /\ filter'[e] = filter[e]
             /\ sync'[e].pending # NoPending /\ sync'[e].pending.text = t
    <3>1. OnItsWay(o, e)'
      BY <1>1, <2>1, <2>5 DEF OnItsWay, Waits
    <3> QED
      BY <1>0, <2>3, <3>1 DEF CopyInv
  <2> QED
    BY <1>1, <2>4, <2>5
<1> QED
  BY <1>1, <1>2, <1>3, <1>4 DEF ClipboardInv, ClipTyped

\* What is written again is a text of the other end that nothing has disturbed.
LEMMA RetryApplyKeeps ==
    ASSUME ClipboardInv, NEW e \in Endpoints, RetryPendingApply(e)
    PROVE  ClipboardInv'
<1> DEFINE o == Other(e)
<1>0. /\ ClipTyped /\ CountTyped /\ SyncTyped /\ copies \in Nat /\ CopyInv
      /\ o \in Endpoints /\ o # e /\ Other(o) = e /\ Endpoints = {e, o}
      /\ sync[e] \in Services(copies) /\ ServiceSound(sync[e])
      /\ sync[e].pending # NoPending
      /\ UNCHANGED <<outQueue, clipWire, streaming, copies, forwards>>
  BY EndpointsDiffer, CopiesAreCounted
     DEF ClipboardInv, ClipTyped, SyncTyped, RetryPendingApply, clipChannels
<1>1. WireTyped'
  BY <1>0, WireKept DEF ClipTyped
<1>2. CASE IsActive(e)
  <2> DEFINE t == sync[e].pending.text
             a == sync[e].pending.attempt + 1
  <2>1. ApplyRemoteMessage(e, t, a)
    BY <1>2 DEF RetryPendingApply
  <2>2. t \in 1 .. copies /\ a \in Nat
    BY <1>0, CopiesAreCounted DEF Services, ServiceSound, NoText
  <2>3. ASSUME clean
        PROVE  /\ t = board[o].text /\ ~filter[o].reading /\ ~filter[e].reading
               /\ clipWire'[o] = <<>> /\ clipWire'[e] = <<>> /\ sync[o].pending = NoPending
    <3>1. PICK c \in Endpoints : OnItsWay(c, Other(c))
      BY <1>0, <2>3 DEF CopyInv
    <3>2. c = o
      BY <1>0, <3>1 DEF OnItsWay
    <3>3. Waits(o, e) /\ clipWire[e] = <<>> /\ sync[o].pending = NoPending
      BY <1>0, <3>1, <3>2 DEF OnItsWay, Unsent, Travelling, Arrived, AtRest
    <3> QED
      BY <1>0, <3>3 DEF Waits
  <2> HIDE DEF t, a
  <2> QED
    BY <1>0, <1>1, <2>1, <2>2, <2>3, ApplyKeeps
<1>3. CASE ~IsActive(e)
  <2>1. /\ SetSync(e, [sync[e] EXCEPT !.pending = NoPending])
        /\ UNCHANGED <<board, filter, busy, clean>>
    BY <1>3 DEF RetryPendingApply
  <2>2. /\ [sync[e] EXCEPT !.pending = NoPending] \in Services(copies)
        /\ ServiceSound([sync[e] EXCEPT !.pending = NoPending])
    BY <1>0, NoPendingTyped, PendingTyped
  <2>3. SyncTyped'
    BY <1>0, <2>1, <2>2, SetSyncTyped
  <2>4. ~clean
    BY <1>3, CleanIsActive
  <2> QED
    BY <1>0, <1>1, <2>1, <2>3, <2>4, SessionStepKeeps
<1> QED
  BY <1>2, <1>3

LEMMA HandleRemoteKeeps ==
    ASSUME ClipboardInv, NEW e \in Endpoints, HandleRemoteMessage(e)
    PROVE  ClipboardInv'
<1> DEFINE o == Other(e)
           m == Head(clipWire[o])
<1>0. /\ ClipTyped /\ CountTyped /\ SyncTyped /\ WireTyped /\ copies \in Nat /\ CopyInv
      /\ o \in Endpoints /\ o # e /\ Other(o) = e /\ Endpoints = {e, o}
      /\ sync[e] \in Services(copies) /\ ServiceSound(sync[e])
      /\ clipWire[o] # <<>> /\ clipWire[o] \in Seq(Messages(copies))
      /\ clipWire' = [clipWire EXCEPT ![o] = Tail(clipWire[o])]
      /\ UNCHANGED <<outQueue, streaming, copies, forwards>>
  BY EndpointsDiffer, CopiesAreCounted
     DEF ClipboardInv, ClipTyped, SyncTyped, WireTyped, HandleRemoteMessage
<1>1. WireTyped'
  <2>1. Tail(clipWire[o]) \in Seq(Messages(copies)) /\ Len(clipWire[o]) <= 1
        /\ Len(Tail(clipWire[o])) <= 1
    BY <1>0 DEF WireTyped
  <2> HIDE DEF o
  <2> QED
    BY <1>0, <2>1 DEF WireTyped
<1>2. m \in Messages(copies)
  BY <1>0
<1>3. ASSUME clean
      PROVE  /\ m = Text(board[o].text) /\ Travelling(o, e)
             /\ clipWire'[o] = <<>> /\ clipWire'[e] = <<>> /\ sync[o].pending = NoPending
             /\ sync[e].open /\ sync[e].phase = "Streaming" /\ IsActive(e)
  <2>1. PICK c \in Endpoints : OnItsWay(c, Other(c))
    BY <1>0, <1>3 DEF CopyInv
  <2>2. c = o
    BY <1>0, <2>1 DEF OnItsWay
  <2>3. Travelling(o, e) /\ clipWire[e] = <<>> /\ sync[o].pending = NoPending
    BY <1>0, <2>1, <2>2 DEF OnItsWay, Unsent, Waits, Arrived, AtRest
  <2>4. m = Text(board[o].text) /\ Tail(clipWire[o]) = <<>>
    BY <2>3 DEF Travelling
  <2>5. clipWire'[o] = <<>> /\ clipWire'[e] = <<>>
    BY <1>0, <2>3, <2>4 DEF WireTyped
  <2> QED
    BY <1>3, <2>3, <2>4, <2>5, CleanIsActive
<1>4. CASE ~sync[e].open \/ sync[e].phase # "Streaming" \/ (m.kind = "text" /\ ~IsActive(e))
  <2>1. UNCHANGED <<sync, board, filter, busy, clean>>
    BY <1>4 DEF HandleRemoteMessage, sides
  <2>2. ~clean
    BY <1>3, <1>4
  <2>3. SyncTyped'
    BY <1>0, <2>1, SyncKept
  <2> QED
    BY <1>0, <1>1, <2>1, <2>2, <2>3, SessionStepKeeps
<1>5. CASE m.kind = "text" /\ IsActive(e) /\ sync[e].open /\ sync[e].phase = "Streaming"
  <2>1. ApplyRemoteMessage(e, m.text, 1)
    BY <1>5 DEF HandleRemoteMessage
  <2>2. m.text \in 1 .. copies /\ 1 \in Nat
    BY <1>0, <1>2, <1>5 DEF Messages, NoText
  <2>3. clean => /\ m.text = board[o].text /\ ~filter[o].reading /\ ~filter[e].reading
                 /\ clipWire'[o] = <<>> /\ clipWire'[e] = <<>> /\ sync[o].pending = NoPending
    BY <1>3 DEF Travelling, AtRest, Text
  <2> HIDE DEF m
  <2> QED
    BY <1>0, <1>1, <2>1, <2>2, <2>3, ApplyKeeps
<1>6. CASE m.kind # "text" /\ sync[e].open /\ sync[e].phase = "Streaming"
  <2> DEFINE s == IF m.kind = "ready" THEN [sync[e] EXCEPT !.peerReady = TRUE]
                  ELSE [sync[e] EXCEPT !.enabled = m.enabled,
                          !.pending = IF m.enabled THEN sync[e].pending ELSE NoPending]
  <2>1. SetSync(e, s) /\ UNCHANGED <<board, filter, busy, clean>>
    BY <1>6 DEF HandleRemoteMessage
  <2>2. s \in Services(copies) /\ ServiceSound(s)
    <3>1. CASE m.kind = "ready"
      BY <1>0, <1>6, <3>1 DEF Services, ServiceSound
    <3>2. CASE m.kind # "ready"
      <4>1. m.enabled \in BOOLEAN
        BY <1>2 DEF Messages
      <4> QED
        BY <1>0, <3>2, <4>1, NoPendingTyped DEF Services, ServiceSound
    <3> QED
      BY <3>1, <3>2
  <2> HIDE DEF s
  <2>3. SyncTyped'
    BY <1>0, <2>1, <2>2, SetSyncTyped
  <2>4. ~clean
    BY <1>3, <1>6 DEF Text
  <2> QED
    BY <1>0, <1>1, <2>1, <2>3, <2>4, SessionStepKeeps
<1> QED
  BY <1>4, <1>5, <1>6

------------------------------------------------------------------------------
(* The clipboards: the theorem.                                              *)

LEMMA ClipboardInitKeeps ==
    ASSUME ClipboardInit
    PROVE  ClipboardInv
<1>0. copies = 0 /\ forwards = 0 /\ clean = FALSE
  BY DEF ClipboardInit
<1>1. CountTyped
  <2>1. 0 \in 0 .. MaxCopies /\ 0 \in Nat
    BY ClipboardAssumption
  <2> QED
    BY <1>0, <2>1, Zenon DEF CountTyped
<1>2. SyncTyped
  BY <1>1, NoServiceTyped DEF ClipboardInit, SyncTyped
<1>3. BoardTyped
  <2>1. 0 \in 0 .. copies /\ 0 \in 0 .. MaxReads
    BY <1>0, ClipboardAssumption
  <2>2. PICK z \in 0 .. copies : z = 0
    BY <2>1
  <2>3. PICK r \in 0 .. MaxReads : r = 0
    BY <2>1
  <2>4. /\ board = [e \in Endpoints |-> [text |-> z, seq |-> 0]]
        /\ filter = [e \in Endpoints |->
                        [self |-> z, last |-> 0, reading |-> FALSE, retries |-> r]]
    BY <2>2, <2>3 DEF ClipboardInit, NoText
  <2> QED
    BY <2>4 DEF BoardTyped, Boards, Filters, FilterSound
<1>4. WireTyped
  BY EmptySeq DEF ClipboardInit, WireTyped
<1>5. EchoInv
  BY <1>0 DEF ClipboardInit, EchoInv, Debt, Owes, Endpoints
<1>6. CopyInv
  BY <1>0 DEF CopyInv
<1> QED
  BY <1>1, <1>2, <1>3, <1>4, <1>5, <1>6 DEF ClipboardInv, ClipTyped

LEMMA ClipboardStepKeeps ==
    ASSUME ClipboardInv, [ClipboardNext]_clipboardVars
    PROVE  ClipboardInv'
<1>1. CASE UNCHANGED clipboardVars
  <2>0. /\ ClipTyped /\ EchoInv /\ CopyInv
        /\ UNCHANGED <<sync, board, filter, outQueue, clipWire, streaming, copies, forwards,
                       clean>>
    BY <1>1 DEF ClipboardInv, clipboardVars, sides, clipChannels, clipCounters
  <2>1. SyncTyped' /\ BoardTyped' /\ WireTyped' /\ EchoInv'
    BY <2>0, SyncKept, BoardKept, WireKept, EchoKept DEF ClipTyped
  <2>2. CountTyped'
    BY <2>0 DEF ClipTyped, CountTyped
  <2>3. CopyInv'
    BY <2>0 DEF CopyInv, Undisturbed, IsActive, OnItsWay, Unsent, Travelling, Waits, Arrived,
                AtRest, Alike, Owes, IsSelfWrite
  <2> QED
    BY <2>1, <2>2, <2>3 DEF ClipboardInv, ClipTyped
<1>2. CASE ClipboardNext
  BY <1>2, ControllerEntersKeeps, ControllerLeavesKeeps, HandleStreamingKeeps,
     SessionEndsKeeps, FlushQueueKeeps, CopyTextKeeps, ProcessKeeps, BusyKeeps,
     RetryApplyKeeps, HandleRemoteKeeps, SetEnabledKeeps, SessionConnectsKeeps,
     ChannelOpensKeeps, InterruptedKeeps, RestoredKeeps
     DEF ClipboardNext
<1> QED
  BY <1>1, <1>2

LEMMA ClipboardInvSafe ==
    ASSUME ClipboardInv
    PROVE  ClipboardTypeOK /\ ClipboardSafety
<1>0. ClipTyped /\ EchoInv /\ CopyInv /\ forwards \in Nat /\ copies \in 0 .. MaxCopies
      /\ MaxCopies \in Nat
  BY ClipboardAssumption DEF ClipboardInv, ClipTyped, CountTyped
<1>1. NoEcho
  <2>1. Debt("host") \in {0, 1} /\ Debt("controller") \in {0, 1}
    BY DEF Debt
  <2> QED
    BY <1>0, <2>1 DEF EchoInv, NoEcho
<1>2. CopyArrives
  <2> SUFFICES ASSUME clean, Quiet PROVE Alike
    BY DEF CopyArrives, Alike
  <2>1. PICK c \in Endpoints : OnItsWay(c, Other(c))
    BY <1>0 DEF CopyInv
  <2>2. /\ clipWire[c] = <<>> /\ ~filter[c].reading
        /\ sync[Other(c)].pending = NoPending
    BY EndpointsDiffer DEF Quiet
  <2> QED
    BY <2>1, <2>2 DEF OnItsWay, Unsent, Travelling, Waits, Arrived
<1>3. ClipboardTypeOK
  <2>1. ASSUME NEW e \in Endpoints
        PROVE  /\ sync[e].phase \in SyncPhases /\ sync[e].pending.attempt \in 0 .. MaxAttempts
               /\ board[e].text \in 0 .. MaxCopies /\ filter[e].self \in 0 .. MaxCopies
               /\ filter[e].retries \in 0 .. MaxReads /\ Len(clipWire[e]) <= 1
    BY <1>0 DEF ClipTyped, SyncTyped, BoardTyped, WireTyped, Services, Boards, Filters
  <2> QED
    BY <1>0, <2>1 DEF ClipboardTypeOK, SyncPhases, ClipTyped, CountTyped
<1> QED
  BY <1>1, <1>2, <1>3 DEF ClipboardSafety

\* What the users copy is sent once, and a text copied while nothing else was
\* on its way is in the end on both computers: for any number of copies,
\* interruptions and attempts to write a clipboard that is busy.
THEOREM ClipboardCorrect == ClipboardSpec => [](ClipboardTypeOK /\ ClipboardSafety)
<1>1. ClipboardInit => ClipboardInv
  BY ClipboardInitKeeps
<1>2. ClipboardInv /\ [ClipboardNext]_clipboardVars => ClipboardInv'
  BY ClipboardStepKeeps
<1>3. ClipboardInv => ClipboardTypeOK /\ ClipboardSafety
  BY ClipboardInvSafe
<1> QED
  BY <1>1, <1>2, <1>3, PTL DEF ClipboardSpec
==================================================================================
