---------------------------- MODULE KeyboardRouting ----------------------------
(***************************************************************************)
(* The keyboard of the controller: KRemoteKeyboardRoutingService and the   *)
(* hook of KWindowsRemoteKeyboardCaptureAdapter, with the shortcuts of     *)
(* KKeyboardSettingsService.                                               *)
(*                                                                         *)
(* While the remote desktop has the keyboard the hook swallows every key   *)
(* event and sends it to the host, but for the shortcuts, which stay at    *)
(* the controller.  A modifier waits until it is known which it is.        *)
(* Everything runs on the thread of the user interface; what the hook      *)
(* posts there may run after other events of that thread.                  *)
(*                                                                         *)
(* A shortcut is [mods, key].  The calls that only show a window or replay *)
(* a shortcut locally change nothing here and are left out.                *)
(***************************************************************************)
EXTENDS Integers, Sequences, FiniteSets

CONSTANTS
    Modifiers,     \* the modifier keys
    Mains,         \* the other keys
    Escape,        \* VK_ESCAPE
    Release,       \* DefaultReleaseKeyboardCaptureShortcut
    Fullscreen,    \* the default of toggleFullscreenShortcut
    MaxLocals,     \* kMaximumLocalShortcutCount
    Repeats,       \* the keyboard repeats the last key while it is held
    MaxPosted,     \* bound on the calls posted at one time
    MaxEdits       \* bound on the changes of the settings

Keys == Modifiers \union Mains
NoneHeld == "none"

Shortcuts == [mods : SUBSET Modifiers, key : Mains]

ASSUME KeyboardAssumption ==
    /\ Modifiers \intersect Mains = {} /\ NoneHeld \notin Keys /\ Escape \in Mains
    /\ Release \in Shortcuts /\ Fullscreen \in Shortcuts /\ Release # Fullscreen
    /\ Release.mods # {} /\ Fullscreen.mods # {}
    /\ MaxLocals \in Nat /\ Repeats \in BOOLEAN /\ MaxPosted \in Nat /\ MaxEdits \in Nat

VARIABLES
    mode,      \* m_mode
    pending,   \* m_pendingModifiers
    physical,  \* m_physicalModifierKeys
    consumed,  \* m_consumedVirtualKeys
    sentKeys,  \* m_sentRemoteKeys: what the host holds
    target,    \* m_strRecordingTarget
    eligible,  \* isRemoteCaptureEligible
    foreground,\* isRemoteWindowForeground
    posted,    \* the calls posted to the thread
    held,      \* the keys the user holds
    lastKey,   \* the key that repeats
    settings,  \* m_settings of KKeyboardSettingsService
    edits,     \* changes of the settings so far
    stuck      \* history: the keys the host was left to hold (see the properties)

routingVars == <<mode, pending, physical, consumed, sentKeys, target>>
userVars == <<foreground, held, lastKey>>
keyboardVars == <<routingVars, userVars, eligible, posted, settings, edits, stuck>>

------------------------------------------------------------------------------
(* The shortcuts.                                                            *)

Defaults == [full |-> Fullscreen, locals |-> {}]

\* addLocalShortcut and updateToggleFullscreenShortcut; unchanged when refused.
AddLocalShortcut(s) ==
    IF s.mods = {} \/ Cardinality(settings.locals) >= MaxLocals
       \/ s \in {Release, settings.full} \union settings.locals
    THEN settings
    ELSE [settings EXCEPT !.locals = @ \union {s}]

\* Fault: a shortcut may have two meanings.
UpdateAnyway(s) == IF s.mods = {} THEN settings ELSE [settings EXCEPT !.full = s]

UpdateToggleFullscreenShortcut(s) ==
    IF s.mods = {} \/ s \in {Release} \union settings.locals
    THEN settings
    ELSE [settings EXCEPT !.full = s]

\* A candidate counts when the store has saved it.
SaveCandidate(candidate) ==
    /\ settings' \in {settings, candidate}
    /\ edits' = edits + 1

EditSettings ==
    /\ edits < MaxEdits
    /\ \/ \E s \in settings.locals : SaveCandidate([settings EXCEPT !.locals = @ \ {s}])
       \/ SaveCandidate(Defaults)
    /\ UNCHANGED <<routingVars, userVars, eligible, posted, stuck>>

------------------------------------------------------------------------------
(* The capture.                                                              *)

\* stopHook.
StopHook ==
    /\ mode' = "Inactive" /\ target' = "none"
    /\ pending' = <<>> /\ physical' = {} /\ consumed' = {}

\* Fault: what the host holds is forgotten until the next capture.
FocusLostKeepsKeys ==
    IF mode \notin {"RemoteCapture", "Draining"} THEN UNCHANGED routingVars
    ELSE StopHook /\ UNCHANGED sentKeys

\* What the host lets go of is no longer stuck.
StillStuck == stuck' = stuck \intersect sentKeys'

\* The host is told to let go of what it holds, and the capture ends.
HandleVideoFocusLost ==
    IF mode \notin {"RemoteCapture", "Draining"} THEN UNCHANGED routingVars
    ELSE StopHook /\ sentKeys' = {}

\* The keys of the shortcut are still swallowed while they come up.
ReleaseCapture ==
    IF mode \notin {"RemoteCapture", "Draining"} THEN UNCHANGED routingVars
    ELSE /\ sentKeys' = {}
         /\ IF physical \union consumed = {} THEN StopHook
            ELSE /\ mode' = "Draining" /\ pending' = <<>>
                 /\ UNCHANGED <<physical, consumed, target>>

\* Of a click on the picture.
RequestCapture ==
    /\ eligible /\ foreground /\ mode # "RemoteCapture"
    /\ mode' = "RemoteCapture" /\ target' = "none"
    /\ pending' = <<>> /\ physical' = {} /\ consumed' = {}
    /\ UNCHANGED <<sentKeys, userVars, eligible, posted, settings, edits, stuck>>

Waiting == {pending[i] : i \in DOMAIN pending}

\* remoteMouseInputAboutToSend.
FlushPendingModifiers ==
    /\ mode = "RemoteCapture" /\ pending # <<>>
    /\ sentKeys' = sentKeys \union Waiting /\ pending' = <<>>
    /\ UNCHANGED <<mode, physical, consumed, target, userVars, eligible, posted, settings,
                   edits, stuck>>

\* keyboardCaptureFocusLost, and the window is left.
VideoFocusLost ==
    /\ mode \in {"RemoteCapture", "Draining"}
    /\ HandleVideoFocusLost
    /\ foreground' \in {FALSE, foreground}
    /\ StillStuck
    /\ UNCHANGED <<eligible, posted, held, lastKey, settings, edits>>

\* Another window comes to the foreground, or the remote one comes back.
ChangeForeground ==
    /\ foreground' = ~foreground
    /\ UNCHANGED <<routingVars, eligible, posted, held, lastKey, settings, edits, stuck>>

\* handleSessionStateChanged, handleCapabilitiesChanged, handlePermissionsChanged.
ChangeEligibility ==
    /\ eligible' = ~eligible
    /\ IF eligible THEN HandleVideoFocusLost ELSE UNCHANGED routingVars
    /\ StillStuck
    /\ UNCHANGED <<userVars, posted, settings, edits>>

\* beginShortcutRecording: a capture ends first.
BeginShortcutRecording ==
    /\ \E t \in {"localOnly", "toggleFullscreen"} : target' = t
    /\ mode' = "Recording"
    /\ pending' = <<>> /\ physical' = {} /\ consumed' = {}
    /\ sentKeys' = IF mode \in {"RemoteCapture", "Draining"} THEN {} ELSE sentKeys
    /\ StillStuck
    /\ UNCHANGED <<userVars, eligible, posted, settings, edits>>

\* cancelShortcutRecording, and the timeout of the recording.
CancelShortcutRecording ==
    /\ mode = "Recording"
    /\ StopHook
    /\ UNCHANGED <<sentKeys, userVars, eligible, posted, settings, edits, stuck>>

------------------------------------------------------------------------------
(* The hook.                                                                 *)

Post(call) == posted' = Append(posted, call)

Call(name) == [name |-> name, shortcut |-> Release, target |-> "none"]

CurrentShortcut(k) == [mods |-> physical, key |-> k]

IsShortcut(s) == s \in {Release, settings.full} \union settings.locals

ModifierDown(k) ==
    /\ physical' = physical \union {k}
    /\ pending' = IF k \in physical THEN pending ELSE Append(pending, k)
    /\ UNCHANGED <<consumed, sentKeys, posted>>

\* A modifier that was pressed alone is sent after all.
ModifierUp(k) ==
    /\ physical' = physical \ {k}
    /\ IF k \in consumed
       THEN consumed' = consumed \ {k} /\ UNCHANGED <<pending, sentKeys>>
       ELSE /\ sentKeys' = (sentKeys \union Waiting) \ {k} /\ pending' = <<>>
            /\ UNCHANGED consumed
    /\ UNCHANGED posted

MainUp(k) ==
    /\ consumed' = consumed \ {k}
    /\ sentKeys' = IF k \in consumed THEN sentKeys ELSE sentKeys \ {k}
    /\ UNCHANGED <<pending, physical, posted>>

\* consumeShortcut; what was sent of it stays sent.
ConsumeShortcut(s) ==
    /\ consumed' = consumed \union physical \union {s.key} /\ pending' = <<>>
    /\ IF s = Release THEN Post(Call("releaseCapture")) ELSE UNCHANGED posted
    /\ UNCHANGED <<physical, sentKeys>>

\* Fault: the modifiers that wait are not sent before the key.
SendKeyAlone(k) ==
    /\ sentKeys' = sentKeys \union {k} /\ pending' = <<>>
    /\ UNCHANGED <<physical, consumed, posted>>

SendKey(k) ==
    /\ sentKeys' = sentKeys \union Waiting \union {k} /\ pending' = <<>>
    /\ UNCHANGED <<physical, consumed, posted>>

\* handleRemoteCaptureEvent.
HandleRemoteCaptureEvent(k, down) ==
    /\ IF k \in Modifiers
       THEN IF down THEN ModifierDown(k) ELSE ModifierUp(k)
       ELSE IF ~down THEN MainUp(k)
       ELSE IF IsShortcut(CurrentShortcut(k)) THEN ConsumeShortcut(CurrentShortcut(k))
       ELSE SendKey(k)
    /\ UNCHANGED <<mode, target>>

\* handleRecordingEvent.
HandleRecordingEvent(k, down) ==
    /\ physical' = IF k \notin Modifiers THEN physical
                   ELSE IF down THEN physical \union {k} ELSE physical \ {k}
    /\ IF k \in Modifiers \/ ~down THEN UNCHANGED posted
       ELSE IF k = Escape THEN Post(Call("cancelRecording"))
       ELSE Post([name |-> "recorded", shortcut |-> CurrentShortcut(k), target |-> target])
    /\ UNCHANGED <<mode, pending, consumed, sentKeys, target>>

HandleDrainingEvent(k, down) ==
    /\ physical' = IF down THEN physical ELSE physical \ {k}
    /\ consumed' = IF down THEN consumed ELSE consumed \ {k}
    /\ IF ~down /\ physical' \union consumed' = {} THEN Post(Call("stopHook"))
       ELSE UNCHANGED posted
    /\ UNCHANGED <<mode, pending, sentKeys, target>>

\* Fault: the key that the window no longer gets does not end the capture.
HandleKeyboardEventQuietly(k, down) ==
    CASE mode = "Recording" -> HandleRecordingEvent(k, down)
      [] mode = "Draining"  -> HandleDrainingEvent(k, down)
      [] OTHER -> IF mode = "RemoteCapture" /\ eligible /\ foreground
                  THEN HandleRemoteCaptureEvent(k, down)
                  ELSE UNCHANGED <<routingVars, posted>>

\* handleKeyboardEvent.
HandleKeyboardEvent(k, down) ==
    CASE mode = "Recording" -> HandleRecordingEvent(k, down)
      [] mode = "Draining"  -> HandleDrainingEvent(k, down)
      [] mode = "Inactive"  -> UNCHANGED <<routingVars, posted>>
      [] OTHER -> IF eligible /\ foreground THEN HandleRemoteCaptureEvent(k, down)
                  ELSE Post(Call("focusLost")) /\ UNCHANGED routingVars

PressKey(k) ==
    /\ k \notin held \/ (Repeats /\ lastKey = k)
    /\ Len(posted) < MaxPosted
    /\ held' = held \union {k} /\ lastKey' = k
    /\ HandleKeyboardEvent(k, TRUE)
    /\ UNCHANGED <<foreground, eligible, settings, edits, stuck>>

ReleaseKey(k) ==
    /\ k \in held /\ Len(posted) < MaxPosted
    /\ held' = held \ {k} /\ lastKey' = IF lastKey = k THEN NoneHeld ELSE lastKey
    /\ HandleKeyboardEvent(k, FALSE)
    /\ stuck' = (stuck \union (consumed \intersect {k})) \intersect sentKeys'
    /\ UNCHANGED <<foreground, eligible, settings, edits>>

Recorded(call) ==
    /\ StopHook /\ UNCHANGED sentKeys
    /\ IF edits < MaxEdits
       THEN SaveCandidate(IF call.target = "localOnly" THEN AddLocalShortcut(call.shortcut)
                          ELSE UpdateToggleFullscreenShortcut(call.shortcut))
       ELSE UNCHANGED <<settings, edits>>

\* A capture begun after a stop was posted ends with the stop.
StrandedBy(call) ==
    IF mode = "RemoteCapture" /\ call.name \in {"stopHook", "recorded"}
    THEN sentKeys ELSE {}

\* The event loop runs what was posted.
RunPosted ==
    /\ posted # <<>>
    /\ posted' = Tail(posted)
    /\ CASE Head(posted).name = "stopHook" ->
              StopHook /\ UNCHANGED <<sentKeys, settings, edits>>
         [] Head(posted).name = "recorded" -> Recorded(Head(posted))
         [] Head(posted).name = "releaseCapture" -> ReleaseCapture /\ UNCHANGED <<settings, edits>>
         [] Head(posted).name = "focusLost" ->
              HandleVideoFocusLost /\ UNCHANGED <<settings, edits>>
         [] OTHER -> /\ IF mode = "Recording" THEN StopHook /\ UNCHANGED sentKeys
                        ELSE UNCHANGED routingVars
                     /\ UNCHANGED <<settings, edits>>
    /\ stuck' = (stuck \union StrandedBy(Head(posted))) \intersect sentKeys'
    /\ UNCHANGED <<userVars, eligible>>

------------------------------------------------------------------------------
KeyboardInit ==
    /\ mode = "Inactive" /\ pending = <<>> /\ physical = {} /\ consumed = {}
    /\ sentKeys = {} /\ target = "none"
    /\ eligible = FALSE /\ foreground = FALSE /\ posted = <<>>
    /\ held = {} /\ lastKey = NoneHeld
    /\ settings = Defaults /\ edits = 0 /\ stuck = {}

KeyboardNext ==
    \/ EditSettings
    \/ RequestCapture
    \/ FlushPendingModifiers
    \/ VideoFocusLost
    \/ ChangeForeground
    \/ ChangeEligibility
    \/ BeginShortcutRecording
    \/ CancelShortcutRecording
    \/ \E k \in Keys : PressKey(k) \/ ReleaseKey(k)
    \/ RunPosted

KeyboardSpec == KeyboardInit /\ [][KeyboardNext]_keyboardVars

------------------------------------------------------------------------------
(* Properties                                                                *)

\* The types of the variables.
KeyboardTypeOK ==
    /\ mode \in {"Inactive", "RemoteCapture", "Recording", "Draining"}
    /\ pending \in Seq(Modifiers) /\ physical \subseteq Modifiers
    /\ consumed \subseteq Keys /\ sentKeys \subseteq Keys
    /\ settings \in [full : Shortcuts, locals : SUBSET Shortcuts]
    /\ held \subseteq Keys /\ lastKey \in held \union {NoneHeld}
    /\ Len(posted) <= MaxPosted /\ edits \in 0 .. MaxEdits

\* stuck names the keys that the code leaves down at the host.  There are two ways: a
\* stop that was posted before a capture began ends that capture and tells the host
\* nothing (remotekeyboardroutingservice.cpp:180, 282); and the release of a key of a
\* shortcut is swallowed (:212, :224) although the key is down at the host, for it was
\* sent before the shortcut or repeats once the modifiers of the shortcut are up.

\* Whatever ends a capture, the host then holds no key but those (:107, :120).
CaptureLeavesNothing == mode # "RemoteCapture" => sentKeys \subseteq stuck

FocusIsLost == \E i \in DOMAIN posted : posted[i].name = "focusLost"

\* In a capture the host holds, and is about to get, only what the user holds and
\* those keys; or else the hook has missed an event, the window being left, and
\* has posted the end of the capture (:186-190).
HostHoldsWhatIsHeld ==
    mode = "RemoteCapture" /\ ~FocusIsLost
        => Waiting \union sentKeys \subseteq held \union stuck

\* A modifier pressed in a capture waits, is down at the host or has been consumed by
\* a shortcut, and never both waits and is consumed: a key goes to the host after
\* all the modifiers held with it (:252) but the consumed ones.  A consumed one
\* stays with its shortcut until it comes up (:336-339), so a key typed while
\* Ctrl of a shortcut is still held goes to the host without Ctrl.
ModifiersAreKept ==
    mode = "RemoteCapture" =>
        /\ physical \subseteq Waiting \union sentKeys \union consumed
        /\ Waiting \intersect consumed = {}

\* No shortcut has two meanings, and none works without a modifier.
ShortcutsAreApart ==
    /\ settings.full \notin settings.locals
    /\ Release \notin {settings.full} \union settings.locals
    /\ \A s \in {settings.full} \union settings.locals : s.mods # {}

KeyboardSafety ==
    /\ CaptureLeavesNothing /\ HostHoldsWhatIsHeld
    /\ ModifiersAreKept /\ ShortcutsAreApart
=============================================================================
