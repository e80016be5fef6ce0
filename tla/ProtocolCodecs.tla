---------------------------- MODULE ProtocolCodecs ----------------------------
(***************************************************************************)
(* The codecs of the text messages: the envelope, the fields each message  *)
(* is written with, the bounds its reader checks, and the negotiation of   *)
(* the capabilities.  What a service may put into a message (Sent) is      *)
(* taken from the services, what a reader takes (Fields) from the codecs:  *)
(* the two were written apart, and what falls between them ends a session  *)
(* after three messages.                                                   *)
(*                                                                         *)
(* A field is a number: the length of a text, the size of a list, a        *)
(* number, 1 for an id or a choice that is there; 0 is an empty field.     *)
(***************************************************************************)
EXTENDS Integers, FiniteSets, FiniteSetsExt, TLC

VARIABLE codec   \* a message on its way: its type, the fields sent and read

KiB == 1024
Huge == 2147483647

\* The channel a message type goes over, and the bytes the channel takes.
MaximumMessageBytes ==
    [signaling |-> 256 * KiB, access |-> 2 * KiB, input |-> 4 * KiB,
     session |-> 160 * KiB, clipboard |-> 2 * KiB * KiB, file |-> 128 * KiB,
     discovery |-> 2 * KiB]

------------------------------------------------------------------------------
(* Fields: what the readers take.                                            *)

Field(lo, hi, always, required) ==
    [lo |-> lo, hi |-> hi, always |-> always, required |-> required]
Must(lo, hi) == Field(lo, hi, TRUE, TRUE)      \* always written, and required
Filled(lo, hi) == Field(lo, hi, FALSE, TRUE)   \* written unless empty, required
May(lo, hi) == Field(lo, hi, FALSE, FALSE)     \* written unless empty, optional
Lax(lo, hi) == Field(lo, hi, TRUE, FALSE)      \* always written, optional
Flag == Must(0, 1)
Id == Must(1, 1)
OptionalId == May(1, 1)
Amount == Must(0, Huge)

\* The ids of a message of the file transfer.
Ids(request, task, file) ==
    [requestId |-> IF request THEN Filled(1, 1) ELSE OptionalId,
     taskId |-> IF task THEN Filled(1, 1) ELSE OptionalId,
     fileId |-> IF file THEN Filled(1, 1) ELSE OptionalId]

ItemName == Must(1, 255)
RelativePath == Must(1, 32768)
PageToken == May(1, 256)
ListingResponse ==
    Ids(TRUE, FALSE, FALSE) @@
    [listingId |-> Id, displayPath |-> Must(0, 32768), canGoUp |-> Flag,
     hasMore |-> Flag, pageToken |-> PageToken, entries |-> Must(0, 256)]

FileFields ==
    [ListRootsRequest |-> Ids(TRUE, FALSE, FALSE) @@ [pageToken |-> PageToken],
     ListRootsResponse |-> ListingResponse,
     ListDirectoryRequest |-> Ids(TRUE, FALSE, FALSE) @@
        [displayPath |-> May(1, 32768), listingId |-> OptionalId,
         entryId |-> OptionalId, pageToken |-> PageToken],
     ListDirectoryResponse |-> ListingResponse,
     CopyRequest |-> Ids(TRUE, TRUE, FALSE) @@
        [sourceListingId |-> Id, destinationListingId |-> Id,
         entryIds |-> Must(1, 256), direction |-> Must(1, 2)],
     CopyPlanBegin |-> Ids(TRUE, TRUE, FALSE) @@
        [destinationListingId |-> Id, direction |-> Must(1, 2),
         itemCount |-> Must(1, 50000), size |-> Amount],
     CopyPlanDirectory |-> Ids(TRUE, TRUE, FALSE) @@
        [relativePath |-> RelativePath, modifiedAtMs |-> Amount],
     CopyPlanEnd |-> Ids(TRUE, TRUE, FALSE) @@ [result |-> May(1, 2)],
     FileBegin |-> Ids(FALSE, TRUE, TRUE) @@
        [fileName |-> ItemName, relativePath |-> RelativePath,
         destinationListingId |-> Id, size |-> Amount, modifiedAtMs |-> Amount],
     Ack |-> Ids(FALSE, TRUE, TRUE) @@ [offset |-> Amount],
     Pause |-> Ids(FALSE, TRUE, FALSE),
     Resume |-> Ids(FALSE, TRUE, FALSE),
     Cancel |-> Ids(FALSE, TRUE, FALSE),
     Conflict |-> Ids(FALSE, TRUE, TRUE) @@ [conflictId |-> Id, fileName |-> ItemName],
     ConflictResolution |-> Ids(FALSE, TRUE, TRUE) @@
        [conflictId |-> Id, resolution |-> Must(1, 3), applyToRemaining |-> Flag],
     FileComplete |-> Ids(FALSE, TRUE, TRUE) @@ [size |-> Amount, sha256 |-> Must(64, 64)],
     TaskComplete |-> Ids(FALSE, TRUE, FALSE) @@ [result |-> Must(1, 2)],
     TransferError |-> Ids(FALSE, FALSE, FALSE) @@ [errorCode |-> Must(1, 64)]]

\* The commands of a session, and their results, carry an id.
Command == [requestId |-> Filled(1, 1)]

StreamConfig ==
    [fps |-> Lax(1, 144), width |-> Lax(0, 7680), height |-> Lax(0, 4320),
     bitrateKbps |-> Lax(500, 50000)]
OptionalConfig == [f \in DOMAIN StreamConfig |-> May(StreamConfig[f].lo, StreamConfig[f].hi)]

SessionFields ==
    [DeviceInfoRequest |-> Command,
     DeviceInfo |->
        [computerName |-> Must(1, 128), screenWidth |-> Must(1, 32768),
         screenHeight |-> Must(1, 32768), wallpaperMime |-> May(1, 64),
         wallpaperData |-> May(1, 96 * KiB)],
     EndSession |-> Command @@ [reason |-> Lax(0, 128)],
     SetStreamConfig |-> Command @@ StreamConfig,
     StartStreaming |-> Command @@ OptionalConfig,
     StopStreaming |-> Command,
     Capabilities |->
        [minVersion |-> Must(1, 100), maxVersion |-> Must(1, 100),
         codecs |-> Must(0, 16), channels |-> Must(0, 16),
         width |-> Must(2, 7680), height |-> Must(2, 4320), fps |-> Must(1, 144),
         bitrateKbps |-> Must(500, 50000), inputs |-> Flag, extras |-> Lax(0, 1),
         privacyModes |-> Lax(0, 16), monitors |-> Must(0, 16)],
     CapabilityRejected |-> [reason |-> Must(1, 128)],
     SetPrivacyMode |-> Command @@ [mode |-> Must(1, 3)],
     PrivacyModeState |->
        [requestId |-> OptionalId, requestedMode |-> Must(1, 3),
         effectiveMode |-> Must(1, 3), state |-> Must(1, 5), generation |-> Amount,
         errorCode |-> May(0, Huge)],
     SetPostSessionAction |-> Command @@ [action |-> Must(1, 2)],
     PostSessionActionState |->
        [requestId |-> OptionalId, action |-> Must(1, 2), generation |-> Amount,
         errorCode |-> May(0, Huge)],
     CommandResult |-> Command @@ [success |-> Flag, errorCode |-> May(1, 64)]]

\* The messages of the terminal name their request; most carry a command id.
Of(command) == [requestId |-> Filled(1, 1),
                commandId |-> IF command THEN Filled(1, 1) ELSE OptionalId]
TerminalSize == [columns |-> Must(20, 400), rows |-> Must(5, 200)]

TerminalFields ==
    [TerminalOpenRequest |-> Of(TRUE) @@ TerminalSize,
     TerminalApprovalPending |-> Of(TRUE) @@ [timeoutSeconds |-> Must(1, 120)],
     TerminalAccepted |-> Of(TRUE),
     TerminalRejected |-> Of(TRUE) @@ [reason |-> Must(0, 128)],
     TerminalResize |-> Of(TRUE) @@ TerminalSize,
     TerminalClose |-> Of(TRUE) @@ [reason |-> Must(0, 128)],
     TerminalExited |-> Of(TRUE) @@ [exitCode |-> Must(-Huge, Huge)],
     TerminalError |-> Of(TRUE) @@ [errorCode |-> Must(1, 64)],
     TerminalCommandResult |-> Of(TRUE) @@ [success |-> Flag, errorCode |-> May(1, Huge)]]

Generation == [requestId |-> Filled(1, 1), generation |-> Must(1, Huge)]
LifecycleFields ==
    [TransferOpenRequest |-> Generation,
     TransferOpenAccepted |-> Generation,
     TransferOpenRejected |-> Generation @@ [errorCode |-> Must(1, 64)],
     TransferClose |-> Generation,
     TransferStopped |-> Generation,
     TransferFailed |-> Generation @@ [errorCode |-> Must(1, 64)]]

AccessFields ==
    [AccessRequest |-> [requestId |-> Filled(1, 1), deviceName |-> Must(1, 128)],
     AccessPending |-> [requestId |-> Filled(1, 1), timeoutSeconds |-> Must(10, 120)],
     AccessAccepted |-> [requestId |-> Filled(1, 1)],
     AccessRejected |-> [requestId |-> Filled(1, 1), reason |-> Must(1, 6)],
     ServerBusy |-> [requestId |-> OptionalId]]

PairingIds == [requestId |-> Filled(1, 1), deviceId |-> Filled(1, 1)]
PairingFields ==
    [PairingHello |-> PairingIds @@
        [deviceName |-> Filled(1, 128), verificationMethod |-> Filled(1, 64),
         trustCommitId |-> OptionalId, permissions |-> Filled(1, 16)],
     PairingDecision |-> PairingIds @@ [accepted |-> Flag, permissions |-> May(1, 16)],
     PairingReady |-> PairingIds @@ [permissions |-> Filled(1, 16)],
     PairingCommitted |-> PairingIds @@ [permissions |-> Filled(1, 16)],
     PairingRejected |-> [requestId |-> Filled(1, 1), reason |-> Must(1, 8)]]

SignalingFields ==
    [Offer |-> [sdp |-> Must(1, 128 * KiB)],
     Answer |-> [sdp |-> Must(1, 128 * KiB)],
     IceCandidate |-> [sdpMid |-> Must(0, 256), sdpMLineIndex |-> Must(0, 1024),
                       candidate |-> Must(1, 16 * KiB)]]

DiscoveryFields ==
    [Probe |-> [requestId |-> Id],
     Announce |-> [requestId |-> Id, instanceId |-> Id, deviceName |-> Must(1, 64),
                   signalingPort |-> Must(1, 65535)]]

\* The text of the clipboard is bounded in bytes.
ClipboardFields ==
    [ClipboardReady |-> [messageId |-> Id],
     ClipboardText |-> [messageId |-> Id, clipText |-> Must(0, 256000)],
     ClipboardSyncState |-> [messageId |-> Id, enabled |-> Flag]]

\* A text that is typed is bounded in bytes too; the bytes that the writer adds for
\* what JSON escapes in it (escapes) are no field of their own, but they count.
Position == [x |-> Must(0, 32767), y |-> Must(0, 32767), seq |-> May(0, Huge),
             trace |-> May(0, 1)]
InputFields ==
    [MouseMove |-> Position,
     MouseButton |-> Position @@ [button |-> Must(1, 5), pressed |-> Flag],
     MouseWheel |-> Position @@ [delta |-> Must(-12000, 12000)],
     Key |-> [seq |-> May(0, Huge), virtualKey |-> Must(1, 255), scanCode |-> Lax(0, 511),
              pressed |-> Flag, extended |-> Lax(0, 1), autoRepeat |-> Lax(0, 1)],
     TextInput |-> [seq |-> May(0, Huge), inputText |-> Must(1, 2048), escapes |-> May(0, 2048)]]

Fields == FileFields @@ SessionFields @@ TerminalFields @@ LifecycleFields @@ AccessFields
          @@ PairingFields @@ SignalingFields @@ DiscoveryFields @@ ClipboardFields @@ InputFields
Types == DOMAIN Fields

Channel(t) ==
    CASE t \in DOMAIN FileFields -> "file"
      [] t \in DOMAIN SessionFields \cup DOMAIN TerminalFields \cup DOMAIN LifecycleFields -> "session"
      [] t \in DOMAIN AccessFields \cup DOMAIN PairingFields -> "access"
      [] t \in DOMAIN SignalingFields -> "signaling"
      [] t \in DOMAIN DiscoveryFields -> "discovery"
      [] t \in DOMAIN ClipboardFields -> "clipboard"
      [] t \in DOMAIN InputFields -> "input"

------------------------------------------------------------------------------
(* The writers.                                                              *)

\* The fields that a message writes although they are empty, or does not write.
Written(t, m, f) ==
    CASE f = "pageToken" /\ "hasMore" \in DOMAIN m -> m.hasMore = 1
      [] f = "errorCode" /\ t = "CommandResult" -> m.success = 0
      [] f = "wallpaperMime" -> m.wallpaperData # 0
      [] t = "StartStreaming" /\ f # "requestId" -> m.fps # 0
      [] OTHER -> Fields[t][f].always \/ m[f] # 0

Encode(t, m) == [f \in {g \in DOMAIN m : Written(t, m, g)} |-> m[f]]

\* The most bytes a unit of a field takes: a character of a path or a name is
\* at most three bytes of UTF-8, none of which is escaped; a byte of a text of
\* the user may be a control character, of which the writer makes six.
UnitBytes(f) ==
    CASE f \in {"displayPath", "fileName", "relativePath", "deviceName", "computerName"} -> 3
      [] f = "clipText" -> 6
      [] f = "sdp" -> 2
      [] f \in {"reason", "errorCode", "pageToken", "sha256", "wallpaperData", "wallpaperMime",
                "candidate", "sdpMid", "verificationMethod", "inputText", "escapes"} -> 1
      [] f = "entryIds" -> 39
      [] f \in {"codecs", "channels", "privacyModes", "permissions"} -> 35
      [] f = "monitors" -> 160
      [] OTHER -> 0

\* Names and punctuation, and the values that are numbers or ids.
FieldBytes == 64

Bytes(w) == 128 +
    MapThenSumSet(LAMBDA f : FieldBytes + UnitBytes(f) * w[f], DOMAIN w \ {"entries"})

\* Fault: the page leaves no room for what names the next one.
PageBytesUnreserved == MaximumMessageBytes["file"]

\* sendListingPage adds entries while the message stays this small.
PageBytes == MaximumMessageBytes["file"] - 512

\* A page is at worst as long as sendListingPage lets it grow before it knows
\* that there are more, and names the next one.
MessageBytes(w) ==
    IF "entries" \in DOMAIN w /\ w.entries > 0
        THEN PageBytes + (IF "pageToken" \in DOMAIN w THEN FieldBytes + w.pageToken ELSE 0)
        ELSE Bytes(w)

------------------------------------------------------------------------------
(* The readers.                                                              *)

\* A frame has the size of the screen, or one of its own.
ValidFrame(w) ==
    \/ w.width = 0 /\ w.height = 0
    \/ w.width >= 2 /\ w.height >= 2

\* What a reader checks beyond the single fields.
Consistent(t, w) ==
    LET has(f) == f \in DOMAIN w
    IN  CASE t \in {"ListRootsResponse", "ListDirectoryResponse"} ->
                (w.hasMore = 1) <=> has("pageToken")
          [] t = "ListDirectoryRequest" ->
                /\ has("displayPath") # has("listingId")
                /\ has("listingId") <=> has("entryId")
          [] t = "TransferError" ->
                /\ has("requestId") \/ has("taskId")
                /\ has("fileId") => has("taskId")
          [] t = "DeviceInfo" -> has("wallpaperMime") <=> has("wallpaperData")
          [] t = "SetStreamConfig" -> ValidFrame(w)
          [] t = "StartStreaming" ->
                has("fps") => /\ {"width", "height", "bitrateKbps"} \subseteq DOMAIN w
                              /\ ValidFrame(w)
          [] t = "Capabilities" -> w.minVersion <= w.maxVersion
          [] t \in {"CommandResult", "TerminalCommandResult"} -> w.success = 1 \/ has("errorCode")
          [] OTHER -> TRUE

Accepts(t, w) ==
    /\ MessageBytes(w) <= MaximumMessageBytes[Channel(t)]
    /\ \A f \in DOMAIN Fields[t] :
           IF f \in DOMAIN w
               THEN w[f] \in Fields[t][f].lo .. Fields[t][f].hi
               ELSE ~Fields[t][f].required
    /\ Consistent(t, w)

Decode(t, w) == [f \in DOMAIN Fields[t] |-> IF f \in DOMAIN w THEN w[f] ELSE 0]

------------------------------------------------------------------------------
(* What the services send: the least and the greatest of what each field of a *)
(* message can hold, as the code before the codec leaves it.                  *)

One == {1}
Either == {0, 1}
Numbers == {0, Huge}
Path == {1, 32767}       \* of Windows
Name == {1, 255}
Code == {1, 30}          \* the longest error code and reason there are
NewUuid == 36
Config == [fps : {1, 144}, width : {320, 7680}, height : {240, 4320}, bitrateKbps : {500, 50000}]
NativeConfig == [fps : {60}, width : {0}, height : {0}, bitrateKbps : {8000}]
NoConfig == [fps : {0}, width : {0}, height : {0}, bitrateKbps : {0}]
Requested == [requestId : One]

\* All records with the fields of both.
Join(R, S) == {r @@ s : r \in R, s \in S}

SendListingPage ==
    Join([requestId : One, taskId : {0}, fileId : {0}],
         {p \in [listingId : One, displayPath : Path \cup {0}, canGoUp : Either, hasMore : Either,
                 pageToken : {0, NewUuid}, entries : {0, 1, 256}] :
             /\ p.hasMore = 1 <=> p.pageToken # 0
             /\ p.hasMore = 1 => p.entries > 0})

RequestRemoteRoots ==
    [requestId : One, taskId : {0}, fileId : {0}, pageToken : {0, NewUuid}]

RequestRemoteDirectory ==
    {r \in [requestId : One, taskId : {0}, fileId : {0}, displayPath : Path \cup {0},
            listingId : Either, entryId : Either, pageToken : {0, NewUuid}] :
        /\ r.listingId = r.entryId
        /\ (r.displayPath = 0) <=> (r.listingId = 1)}

OfTask(request, file) == [requestId : request, taskId : One, fileId : file]

TaskMessages ==
    [CopyRequest |-> Join(OfTask(One, {0}),
        [sourceListingId : One, destinationListingId : One, entryIds : {1, 256}, direction : {1, 2}]),
     CopyPlanBegin |-> Join(OfTask(One, {0}),
        [destinationListingId : One, direction : {1, 2}, itemCount : {1, 50000}, size : Numbers]),
     CopyPlanDirectory |-> Join(OfTask(One, {0}), [relativePath : Path, modifiedAtMs : Numbers]),
     CopyPlanEnd |-> Join(OfTask(One, {0}), [result : {0, 1, 2}]),
     FileBegin |-> Join(OfTask({0}, One),
        [fileName : Name, relativePath : Path, destinationListingId : One, size : Numbers,
         modifiedAtMs : Numbers]),
     Ack |-> Join(OfTask({0}, One), [offset : Numbers]),
     Pause |-> OfTask({0}, Either),
     Resume |-> OfTask({0}, Either),
     Cancel |-> OfTask({0}, Either),
     Conflict |-> Join(OfTask({0}, One), [conflictId : One, fileName : Name]),
     ConflictResolution |-> Join(OfTask({0}, One),
        [conflictId : One, resolution : {1, 2, 3}, applyToRemaining : Either]),
     FileComplete |-> Join(OfTask({0}, One), [size : Numbers, sha256 : {64}]),
     TaskComplete |-> Join(OfTask({0}, Either), [result : {1, 2}]),
     TransferError |->
        Join([requestId : Either, taskId : Either, fileId : Either] \
                [requestId : {0}, taskId : {0}, fileId : Either],
             [errorCode : Code])
        \ [requestId : Either, taskId : {0}, fileId : One, errorCode : Code]]

FileSent == TaskMessages @@
    [ListRootsRequest |-> RequestRemoteRoots,
     ListRootsResponse |-> SendListingPage,
     ListDirectoryRequest |-> RequestRemoteDirectory,
     ListDirectoryResponse |-> SendListingPage]

DeviceInfo ==
    {d \in [computerName : {1, 63}, screenWidth : {1, 7680},
            screenHeight : {1, 4320}, wallpaperMime : {0, 10}, wallpaperData : {0, 4, 96 * KiB}] :
        d.wallpaperMime = 0 <=> d.wallpaperData = 0}

LocalCapabilities ==
    {c \in [minVersion : {2}, maxVersion : {2}, codecs : One, channels : {4, 8}, width : {7680},
            height : {4320}, fps : {1, 60, 144}, bitrateKbps : {50000}, inputs : Either,
            extras : Either, privacyModes : {1, 3}, monitors : One] :
        c.inputs = 0 => c.privacyModes = 1}

Status == [requestId : Either, generation : Numbers, errorCode : {0} \cup Code]

CreateCommandResult ==
    {r \in [requestId : One, success : Either, errorCode : {0} \cup Code] :
        r.success = 0 <=> r.errorCode # 0}

SessionSent ==
    [DeviceInfoRequest |-> Requested,
     DeviceInfo |-> DeviceInfo,
     EndSession |-> Join(Requested, [reason : Code]),
     SetStreamConfig |-> Join(Requested, Config \cup NativeConfig),
     StartStreaming |-> Join(Requested, Config \cup NativeConfig \cup NoConfig),
     StopStreaming |-> Requested,
     Capabilities |-> LocalCapabilities,
     CapabilityRejected |-> [reason : Code],
     SetPrivacyMode |-> Join(Requested, [mode : 1 .. 3]),
     PrivacyModeState |-> Join(Status,
        [requestedMode : 1 .. 3, effectiveMode : 1 .. 3, state : 1 .. 5]),
     SetPostSessionAction |-> Join(Requested, [action : 1 .. 2]),
     PostSessionActionState |-> Join(Status, [action : 1 .. 2]),
     CommandResult |-> CreateCommandResult]

Commanded == [requestId : One, commandId : One]
BoundedSize == [columns : {20, 400}, rows : {5, 200}]

TerminalSent ==
    [TerminalOpenRequest |-> Join(Commanded, BoundedSize),
     TerminalApprovalPending |-> Join(Commanded, [timeoutSeconds : {10, 120}]),
     TerminalAccepted |-> Commanded,
     TerminalRejected |-> Join(Commanded, [reason : Code]),
     TerminalResize |-> Join(Commanded, BoundedSize),
     TerminalClose |-> Join(Commanded, [reason : {0} \cup Code]),
     TerminalExited |-> Join(Commanded, [exitCode : {-Huge, 0, Huge}]),
     TerminalError |-> Join(Commanded, [errorCode : Code]),
     TerminalCommandResult |-> {r \in Join(Commanded, [success : Either, errorCode : {0} \cup Code]) :
                                   r.success = 0 <=> r.errorCode # 0}]

Generations == [requestId : One, generation : {1, Huge}]
LifecycleSent ==
    [TransferOpenRequest |-> Generations,
     TransferOpenAccepted |-> Generations,
     TransferOpenRejected |-> Join(Generations, [errorCode : Code]),
     TransferClose |-> Generations,
     TransferStopped |-> Generations,
     TransferFailed |-> Join(Generations, [errorCode : Code])]

Permissions == {1, 6}
SetupSent ==
    [AccessRequest |-> Join(Requested, [deviceName : {1, 63}]),
     AccessPending |-> Join(Requested, [timeoutSeconds : {10, 120}]),
     AccessAccepted |-> Requested,
     AccessRejected |-> Join(Requested, [reason : 1 .. 6]),
     ServerBusy |-> [requestId : Either],
     PairingHello |-> [requestId : One, deviceId : One, deviceName : {1, 128},
        verificationMethod : {1, 64}, trustCommitId : Either, permissions : Permissions],
     PairingDecision |-> [requestId : One, deviceId : One, accepted : Either,
        permissions : {0} \cup Permissions],
     PairingReady |-> [requestId : One, deviceId : One, permissions : Permissions],
     PairingCommitted |-> [requestId : One, deviceId : One, permissions : Permissions],
     PairingRejected |-> Join(Requested, [reason : 1 .. 8]),
     Offer |-> [sdp : {1, 32 * KiB}],
     Answer |-> [sdp : {1, 32 * KiB}],
     IceCandidate |-> [sdpMid : {0, 16}, sdpMLineIndex : {0, 16}, candidate : {1, KiB}],
     Probe |-> Requested,
     Announce |-> [requestId : One, instanceId : One, deviceName : {1, 64},
        signalingPort : {1, 65535}]]

\* The hook passes the scan codes of Windows on as they are: AltGr is 0x21D.
AltGr == 541

PointerMoves == [x : {0, 32767}, y : {0, 32767}, seq : Numbers, trace : Either]
StreamSent ==
    [ClipboardReady |-> [messageId : One],
     ClipboardText |-> [messageId : One, clipText : {1, 256000}],
     ClipboardSyncState |-> [messageId : One, enabled : Either],
     MouseMove |-> PointerMoves,
     MouseButton |-> Join(PointerMoves, [button : 1 .. 5, pressed : Either]),
     MouseWheel |-> Join(PointerMoves, [delta : {-12000, -120, 120, 12000}]),
     Key |-> [seq : Numbers, virtualKey : {1, 255}, scanCode : {0, 511, AltGr}, pressed : Either,
              extended : Either, autoRepeat : Either],
     TextInput |-> {m \in [seq : Numbers, inputText : {1, 2048}, escapes : {0, 1, 2048}] :
                       m.escapes <= m.inputText}]

Sent == FileSent @@ SessionSent @@ TerminalSent @@ LifecycleSent @@ SetupSent @@ StreamSent

------------------------------------------------------------------------------
(* The negotiation of the capabilities, at both endpoints.                    *)

Least(a, b) == IF a < b THEN a ELSE b

\* What is available to a session of two endpoints; channels are a number here:
\* 8 with file transfer, clipboard and terminal, 4 without.
Negotiate(a, b) ==
    [version |-> Least(a.maxVersion, b.maxVersion), channels |-> Least(a.channels, b.channels),
     width |-> Least(a.width, b.width), height |-> Least(a.height, b.height),
     fps |-> Least(a.fps, b.fps), bitrateKbps |-> Least(a.bitrateKbps, b.bitrateKbps),
     inputs |-> a.inputs * b.inputs, extras |-> a.extras * b.extras,
     privacyModes |-> Least(a.privacyModes, b.privacyModes)]

\* A configuration of the controller, within what was negotiated.
ConstrainedConfig(config, n) ==
    [fps |-> Least(config.fps, n.fps), bitrateKbps |-> Least(config.bitrateKbps, n.bitrateKbps),
     width |-> IF config.width > 0 THEN Least(config.width, n.width) ELSE 0,
     height |-> IF config.height > 0 THEN Least(config.height, n.height) ELSE 0]

------------------------------------------------------------------------------

NoMessage == [stage |-> "idle"]
CodecInit == codec = NoMessage

Send ==
    /\ codec.stage = "idle"
    /\ \E t \in Types : \E m \in Sent[t] :
           codec' = [stage |-> "sent", type |-> t, message |-> m, wire |-> Encode(t, m)]

\* The peer's router decodes the message, or counts it as invalid.
Receive ==
    /\ codec.stage = "sent"
    /\ codec' = [stage |-> IF Accepts(codec.type, codec.wire) THEN "read" ELSE "rejected",
                 type |-> codec.type, message |-> codec.message,
                 wire |-> Decode(codec.type, codec.wire)]

\* Capabilities that were read are negotiated, and the configuration of the
\* stream is brought within them.
NegotiateCapabilities ==
    /\ codec.stage = "read" /\ codec.type = "Capabilities"
    /\ \E local \in LocalCapabilities, config \in Config \cup NativeConfig :
           LET here == Negotiate(local, codec.wire)
               there == Negotiate(codec.message, local)
           IN  codec' = [stage |-> "negotiated", type |-> "SetStreamConfig",
                         message |-> [here |-> here, there |-> there],
                         wire |-> [requestId |-> 1] @@ ConstrainedConfig(config, here)]

CodecNext == Send \/ Receive \/ NegotiateCapabilities
CodecSpec == CodecInit /\ [][CodecNext]_codec

------------------------------------------------------------------------------

\* Two ordinary messages that the reader refuses: a key whose raw scan code is above
\* the 0x1FF of the reader (inputmessage.cpp:231), and a typed text within its own
\* limit that JSON's escapes (protocolenvelope.cpp:87) make longer than the 4 KiB
\* the channel takes (:103).
Misunderstood(t, m) ==
    \/ t = "Key" /\ m.scanCode > 511
    \/ t = "TextInput" /\ m.inputText + m.escapes = 4 * KiB

\* What one endpoint sends the other accepts, but for exactly the messages above, and
\* reads as it was meant; and what the two negotiate is the same, and bounds a
\* configuration the reader takes.
PeersUnderstand ==
    /\ codec.stage \in {"read", "rejected"} =>
           (codec.stage = "rejected" <=> Misunderstood(codec.type, codec.message))
    /\ codec.stage = "read" =>
           \A f \in DOMAIN codec.wire : codec.wire[f] = codec.message[f]
    /\ codec.stage = "negotiated" =>
           /\ codec.message.here = codec.message.there
           /\ Accepts("SetStreamConfig", codec.wire)
=============================================================================
