----------------------------- MODULE ClipboardSync -----------------------------
(***************************************************************************)
(* The clipboards of two endpoints, kept alike during a session.           *)
(*                                                                         *)
(* KQtClipboardAdapter sees that the clipboard of its computer changed,    *)
(* waits, and asks KClipboardChangeFilter whether the change is its own;   *)
(* KClipboardSyncService sends the text and applies the texts it gets;     *)
(* KSessionCoordinator lets them pass while it streams; KWebRtcPeer queues *)
(* them when its channel is full, merging the texts.  Start and Stop of    *)
(* the streaming come over another channel, in any order relative to it.   *)
(*                                                                         *)
(* A text is the number of the copy that made it; 0 is no text.  The       *)
(* messages have unique ids and no channel repeats one, so the list of the *)
(* recent ids is left out.  Texts that are empty or too long are not sent  *)
(* and are left out, too.                                                  *)
(***************************************************************************)
EXTENDS Integers, Sequences, SequencesExt, FiniteSets

CONSTANTS
    MaxAttempts,   \* kMaximumApplyAttempts
    MaxReads,      \* kMaximumClipboardReadRetries
    MaxCopies,     \* bound on what the users copy
    MaxToggles,    \* bound on the switching of the synchronization
    MaxBreaks,     \* bound on leaving, interruptions and closed channels
    MaxBusy        \* bound on the times the clipboard is busy

ASSUME ClipboardAssumption ==
    /\ MaxAttempts \in Nat \ {0} /\ MaxReads \in Nat /\ MaxCopies \in Nat
    /\ MaxToggles \in Nat /\ MaxBreaks \in Nat /\ MaxBusy \in Nat

VARIABLES
    sync,      \* KClipboardSyncService of each endpoint, with its session
    board,     \* the clipboard of each computer: text and sequence number
    filter,    \* KClipboardChangeFilter and the read timer of each endpoint
    outQueue,  \* m_clipboardSendQueue of each endpoint
    clipWire,  \* the channel from each endpoint
    streaming, \* Start and Stop on their way to the host
    copies, toggles, breaks, busy,   \* counters
    forwards,  \* history: the texts sent
    clean      \* history: nothing has disturbed the last copy

sides == <<sync, board, filter>>
clipChannels == <<outQueue, clipWire, streaming>>
clipCounters == <<copies, toggles, breaks, busy>>
clipboardVars == <<sides, clipChannels, clipCounters, forwards, clean>>

Endpoints == {"controller", "host"}
Other(e) == IF e = "host" THEN "controller" ELSE "host"

NoText == 0
NoPending == [text |-> NoText, attempt |-> 0]

IsActive(e) == sync[e].enabled /\ sync[e].peerReady /\ sync[e].phase = "Streaming"

SetSync(e, s) == sync' = [sync EXCEPT ![e] = s]

------------------------------------------------------------------------------
(* The channel.                                                              *)

Text(t) == [kind |-> "text", text |-> t, enabled |-> TRUE]
Ready == [kind |-> "ready", text |-> NoText, enabled |-> TRUE]
SyncState(b) == [kind |-> "state", text |-> NoText, enabled |-> b]

Texts(q) == {i \in DOMAIN q : q[i].kind = "text"}

\* A text replaces the one that is queued.
QueueMessage(q, m) ==
    IF m.kind = "text" /\ Texts(q) # {}
    THEN Append(RemoveAt(q, CHOOSE i \in Texts(q) : TRUE), m)
    ELSE Append(q, m)

\* sendClipboardMessage of the coordinator and the peer; the channel takes one
\* message at a time.
SendClipboardMessage(e, s, m) ==
    IF s.phase # "Streaming" \/ ~s.open THEN UNCHANGED <<outQueue, clipWire>>
    ELSE IF outQueue[e] # <<>> \/ clipWire[e] # <<>>
    THEN /\ outQueue' = [outQueue EXCEPT ![e] = QueueMessage(@, m)]
         /\ UNCHANGED clipWire
    ELSE clipWire' = [clipWire EXCEPT ![e] = <<m>>] /\ UNCHANGED outQueue

FlushClipboardQueue(e) ==
    /\ outQueue[e] # <<>> /\ clipWire[e] = <<>> /\ sync[e].open
    /\ clipWire' = [clipWire EXCEPT ![e] = <<Head(outQueue[e])>>]
    /\ outQueue' = [outQueue EXCEPT ![e] = Tail(@)]
    /\ UNCHANGED <<sides, streaming, clipCounters, forwards, clean>>

\* sendReadyIfNeeded, of the service in state s.
SendReadyIfNeeded(e, s) ==
    IF s.readySent \/ ~s.open \/ s.phase # "Streaming"
    THEN SetSync(e, s) /\ UNCHANGED <<outQueue, clipWire>>
    ELSE /\ SetSync(e, [s EXCEPT !.readySent = TRUE])
         /\ SendClipboardMessage(e, s, Ready)

------------------------------------------------------------------------------
(* The clipboard of the computer, and the filter.                            *)

Change(e, t, self, confirmed) ==
    /\ board' = [board EXCEPT ![e] = [text |-> t, seq |-> @.seq + 1]]
    /\ filter' = [filter EXCEPT ![e] =
          [reading |-> TRUE, retries |-> 0,
           self |-> IF self THEN t ELSE @.self,
           last |-> IF confirmed THEN board[e].seq + 1 ELSE @.last]]

Quiet ==
    /\ streaming = <<>>
    /\ \A e \in Endpoints :
          /\ clipWire[e] = <<>> /\ outQueue[e] = <<>>
          /\ ~filter[e].reading /\ sync[e].pending = NoPending

\* The user copies a new text, or the one the other computer has.
CopyText(e) ==
    /\ copies < MaxCopies
    /\ copies' = copies + 1
    /\ \E t \in {copies + 1, board[Other(e)].text} \ {NoText} : Change(e, t, FALSE, FALSE)
    /\ clean' = (Quiet /\ \A f \in Endpoints : IsActive(f))
    /\ UNCHANGED <<sync, clipChannels, toggles, breaks, busy, forwards>>

\* Fault: the text the service wrote is not recognized.
IsSelfWriteNever(e) == FALSE

IsSelfWrite(e) == filter[e].self # NoText /\ board[e].text = filter[e].self

IsBusy ==
    /\ busy < MaxBusy
    /\ busy' = busy + 1

\* processPendingClipboardChange and handleLocalTextChanged.
ProcessClipboardChange(e) ==
    /\ filter[e].reading
    /\ IF IsSelfWrite(e) \/ board[e].seq = filter[e].last
       THEN UNCHANGED <<outQueue, clipWire, forwards>>
       ELSE IF IsActive(e)
       THEN /\ SendClipboardMessage(e, sync[e], Text(board[e].text))
            /\ forwards' = forwards + 1
       ELSE UNCHANGED <<outQueue, clipWire, forwards>>
    /\ filter' = [filter EXCEPT ![e] =
          [@ EXCEPT !.reading = FALSE, !.last = board[e].seq,
                    !.self = IF ~IsSelfWrite(e) /\ board[e].seq = filter[e].last
                             THEN filter[e].self ELSE NoText]]
    /\ UNCHANGED <<sync, board, streaming, clipCounters, clean>>

ClipboardIsBusy(e) ==
    /\ filter[e].reading /\ IsBusy
    /\ filter' = [filter EXCEPT ![e] =
          IF @.retries < MaxReads THEN [@ EXCEPT !.retries = filter[e].retries + 1]
          ELSE [@ EXCEPT !.reading = FALSE]]
    /\ clean' = (clean /\ filter[e].retries < MaxReads)
    /\ UNCHANGED <<sync, board, clipChannels, copies, toggles, breaks, forwards>>

------------------------------------------------------------------------------
(* The service.                                                              *)

\* applyRemoteMessage: setText works, and its sequence number may grow again
\* after the filter was told, or the clipboard is busy.
ApplyRemoteMessage(e, t, attempt) ==
    \/ /\ \E late \in BOOLEAN : Change(e, t, TRUE, ~late)
       /\ SetSync(e, [sync[e] EXCEPT !.pending = NoPending])
       /\ UNCHANGED <<busy, clean>>
    \/ /\ IsBusy
       /\ SetSync(e, [sync[e] EXCEPT !.pending =
             IF attempt < MaxAttempts THEN [text |-> t, attempt |-> attempt] ELSE NoPending])
       /\ clean' = (clean /\ attempt < MaxAttempts)
       /\ UNCHANGED <<board, filter>>

\* Fault: the text has been cleared before it is written again.
RetryCleared(e) ==
    /\ sync[e].pending # NoPending
    /\ SetSync(e, [sync[e] EXCEPT !.pending = NoPending])
    /\ UNCHANGED <<board, filter, clipChannels, clipCounters, forwards, clean>>

\* retryPendingApply.
RetryPendingApply(e) ==
    /\ sync[e].pending # NoPending
    /\ IF IsActive(e) THEN ApplyRemoteMessage(e, sync[e].pending.text, sync[e].pending.attempt + 1)
       ELSE SetSync(e, [sync[e] EXCEPT !.pending = NoPending]) /\ UNCHANGED <<board, filter, busy, clean>>
    /\ UNCHANGED <<clipChannels, copies, toggles, breaks, forwards>>

\* handleClipboardMessage of the coordinator, handleRemoteMessage of the service.
HandleRemoteMessage(e) ==
    LET m == Head(clipWire[Other(e)])
    IN /\ clipWire[Other(e)] # <<>>
       /\ clipWire' = [clipWire EXCEPT ![Other(e)] = Tail(@)]
       /\ UNCHANGED <<outQueue, streaming, copies, toggles, breaks, forwards>>
       /\ IF ~sync[e].open \/ sync[e].phase # "Streaming" \/ (m.kind = "text" /\ ~IsActive(e))
          THEN UNCHANGED <<sides, busy, clean>>
          ELSE IF m.kind = "text" THEN ApplyRemoteMessage(e, m.text, 1)
          ELSE /\ SetSync(e, IF m.kind = "ready" THEN [sync[e] EXCEPT !.peerReady = TRUE]
                             ELSE [sync[e] EXCEPT !.enabled = m.enabled,
                                   !.pending = IF m.enabled THEN @ ELSE NoPending])
               /\ UNCHANGED <<board, filter, busy, clean>>

\* setEnabled.
SetEnabled(e) ==
    LET s == [sync[e] EXCEPT !.enabled = ~@,
                             !.pending = IF sync[e].enabled THEN NoPending ELSE @]
    IN /\ toggles < MaxToggles
       /\ toggles' = toggles + 1 /\ clean' = FALSE
       /\ SetSync(e, s)
       /\ IF s.peerReady /\ s.phase = "Streaming"
          THEN SendClipboardMessage(e, s, SyncState(s.enabled))
          ELSE UNCHANGED <<outQueue, clipWire>>
       /\ UNCHANGED <<board, filter, streaming, copies, breaks, busy, forwards>>

\* handleSessionStateChanged.
SessionState(e, phase) ==
    LET s == [sync[e] EXCEPT !.phase = phase,
                             !.pending = IF phase = "Streaming" THEN @ ELSE NoPending,
                             !.established = @ \/ phase = "Connected",
                             !.enabled = @ \/ (phase = "Connected" /\ ~sync[e].established)]
    IN SendReadyIfNeeded(e, s)

NoService == [phase |-> "Down", open |-> FALSE, enabled |-> TRUE, peerReady |-> FALSE,
              readySent |-> FALSE, established |-> FALSE, pending |-> NoPending, before |-> "Down"]

\* handleChannelChanged; the queue of a closed channel is cleared.
ChannelChanged(e, open) ==
    LET s == IF open THEN [sync[e] EXCEPT !.open = TRUE]
             ELSE [sync[e] EXCEPT !.open = FALSE, !.peerReady = FALSE, !.readySent = FALSE,
                                  !.pending = NoPending]
    IN IF open THEN SendReadyIfNeeded(e, s)
       ELSE SetSync(e, s) /\ outQueue' = [outQueue EXCEPT ![e] = <<>>] /\ UNCHANGED clipWire

------------------------------------------------------------------------------
(* The session.                                                              *)

Break ==
    /\ breaks < MaxBreaks
    /\ breaks' = breaks + 1 /\ clean' = FALSE

NoBreak == UNCHANGED <<breaks, clean>>

Steady == UNCHANGED <<board, filter, copies, toggles, busy, forwards>>

SessionConnects(e) ==
    /\ sync[e].phase = "Down"
    /\ SessionState(e, "Connected")
    /\ NoBreak /\ Steady /\ UNCHANGED streaming

ChannelOpens(e) ==
    /\ ~sync[e].open /\ sync[e].phase # "Down"
    /\ ChannelChanged(e, TRUE)
    /\ NoBreak /\ Steady /\ UNCHANGED streaming

\* resetSession, at both endpoints; the channels are gone with the session.
SessionEnds ==
    /\ \E e \in Endpoints : sync[e].phase # "Down"
    /\ Break
    /\ sync' = [e \in Endpoints |-> NoService]
    /\ outQueue' = [e \in Endpoints |-> <<>>] /\ clipWire' = [e \in Endpoints |-> <<>>]
    /\ streaming' = <<>>
    /\ Steady

ControllerEnters ==
    /\ sync["controller"].phase = "Connected"
    /\ SessionState("controller", "Streaming")
    /\ streaming' = Append(streaming, TRUE)
    /\ NoBreak /\ Steady

ControllerLeaves ==
    /\ sync["controller"].phase = "Streaming" /\ Break
    /\ SessionState("controller", "Connected")
    /\ streaming' = Append(streaming, FALSE)
    /\ Steady

\* handleStartStreamingMessage and handleStopStreamingMessage.
HandleStreamingMessage ==
    /\ streaming # <<>> /\ sync["host"].phase # "Down"
    /\ streaming' = Tail(streaming)
    /\ IF sync["host"].phase = (IF Head(streaming) THEN "Connected" ELSE "Streaming")
       THEN SessionState("host", IF Head(streaming) THEN "Streaming" ELSE "Connected")
       ELSE UNCHANGED <<sync, outQueue, clipWire>>
    /\ NoBreak /\ Steady

Interrupted(e) ==
    /\ sync[e].phase \in {"Connected", "Streaming"} /\ Break
    /\ SetSync(e, [sync[e] EXCEPT !.before = sync[e].phase, !.phase = "Reconnecting",
                                  !.pending = NoPending])
    /\ UNCHANGED clipChannels /\ Steady

Restored(e) ==
    /\ sync[e].phase = "Reconnecting"
    /\ SessionState(e, sync[e].before)
    /\ NoBreak /\ Steady /\ UNCHANGED streaming

------------------------------------------------------------------------------
ClipboardInit ==
    /\ sync = [e \in Endpoints |-> NoService]
    /\ board = [e \in Endpoints |-> [text |-> NoText, seq |-> 0]]
    /\ filter = [e \in Endpoints |->
                    [self |-> NoText, last |-> 0, reading |-> FALSE, retries |-> 0]]
    /\ outQueue = [e \in Endpoints |-> <<>>] /\ clipWire = [e \in Endpoints |-> <<>>]
    /\ streaming = <<>>
    /\ copies = 0 /\ toggles = 0 /\ breaks = 0 /\ busy = 0
    /\ forwards = 0 /\ clean = FALSE

ClipboardNext ==
    \/ ControllerEnters
    \/ ControllerLeaves
    \/ HandleStreamingMessage
    \/ SessionEnds
    \/ \E e \in Endpoints :
          \/ FlushClipboardQueue(e)
          \/ CopyText(e)
          \/ ProcessClipboardChange(e)
          \/ ClipboardIsBusy(e)
          \/ RetryPendingApply(e)
          \/ HandleRemoteMessage(e)
          \/ SetEnabled(e)
          \/ SessionConnects(e)
          \/ ChannelOpens(e)
          \/ Interrupted(e)
          \/ Restored(e)

ClipboardSpec == ClipboardInit /\ [][ClipboardNext]_clipboardVars

------------------------------------------------------------------------------
(* Properties                                                                *)

\* The types of the variables.
ClipboardTypeOK ==
    /\ \A e \in Endpoints :
          /\ sync[e].phase \in {"Down", "Connected", "Streaming", "Reconnecting"}
          /\ sync[e].pending.attempt \in 0 .. MaxAttempts
          /\ board[e].text \in 0 .. MaxCopies /\ filter[e].self \in 0 .. MaxCopies
          /\ filter[e].retries \in 0 .. MaxReads
          /\ Len(clipWire[e]) <= 1
    /\ clean \in BOOLEAN

\* A text that came from the other computer is not sent back: what the users
\* copy is sent once, however often the clipboard says that it changed
\* (clipboardchangefilter.cpp:62).
NoEcho == forwards <= copies

\* A text copied while nothing else was on its way is in the end on both
\* computers, although the clipboard may be busy and texts are merged.
CopyArrives ==
    clean /\ Quiet => board["controller"].text = board["host"].text

\* A copied text goes to the other computer, and comes to rest there.
ClipboardSafety == NoEcho /\ CopyArrives
=============================================================================
