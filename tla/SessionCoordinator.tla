--------------------------- MODULE SessionCoordinator ---------------------------
(***************************************************************************)
(* One endpoint: KSessionCoordinator                                       *)
(* (src/src/session/sessioncoordinator.cpp) with the controllers it owns   *)
(* and the WebRTC peer and capture service it drives.  The network, the    *)
(* remote endpoint, the user and the timers are the environment: any of    *)
(* their events may come whenever the objects that raise them can raise    *)
(* them.                                                                   *)
(*                                                                         *)
(* The session thread runs one event to its end.  Where a handler calls    *)
(* another through a signal in the middle of its own work, the calls still *)
(* to be made are kept in "calls", and no event is taken before it is      *)
(* empty.                                                                  *)
(*                                                                         *)
(* An operator marked "Fault" is a wrong version of the one after it: it   *)
(* shows that a property notices the mistake, and nothing uses it.         *)
(***************************************************************************)
EXTENDS SessionStateMachine, CaptureService, Sequences

CONSTANTS
    MaxGeneration,       \* bound on the sessions started by requests
    MaxPeerGeneration,   \* bound on the peer initializations by requests
    IdentityMayFail,     \* the device identity can be unavailable to a dial
    ListenMayFail,       \* the signaling server can fail to listen
    SecurityMayRefuse    \* the security flow can refuse as it begins

ASSUME BoundAssumption ==
    MaxGeneration \in Nat /\ MaxPeerGeneration \in Nat

ASSUME EnvironmentAssumption ==
    /\ IdentityMayFail \in BOOLEAN
    /\ ListenMayFail \in BOOLEAN
    /\ SecurityMayRefuse \in BOOLEAN

VARIABLES
    sm,           \* m_sessionStateMachine
    stop,         \* m_nStoppingGeneration, m_bStopKeepListening,
                  \* m_bStopTeardownStarted, and stop.early (history)
    pending,      \* m_pendingRequestType with m_pendingRole
    shutdown,     \* KShutdownCoordinator
    peer,         \* KPeerLifecycleController
    transport,    \* KWebRtcPeer: life cycle and ICE connection
    channel,      \* m_bSessionChannelOpen
    capability,   \* KCapabilitySessionFlow
    endPending,   \* an EndSession command waits in the dispatcher
    media,        \* KMediaSessionController::m_bCaptureActive
    cap,          \* KCaptureService and its worker
    link,         \* KTcpSignalingTransport
    approval,     \* KAccessApprovalController::m_request
    available,    \* m_bListeningAvailable
    remoteAccess, \* m_applicationSettings.bRemoteAccessEnabled
    calls         \* calls the session thread still has to make

peerVars == <<peer, transport>>
flowVars == <<channel, capability, endPending, approval>>
mediaVars == <<media, cap>>
stopVars == <<stop, shutdown>>
sessionVars == <<sm, available, stopVars, peerVars, flowVars, mediaVars>>
vars == <<sessionVars, pending, link, remoteAccess, calls>>

------------------------------------------------------------------------------
Requests == {"Listen", "Connect", "Controller", "Controlled"}

NoRequest == "NoRequest"

Shutdown == [active : BOOLEAN, gen : Nat, capture : BOOLEAN, peer : BOOLEAN,
             late : BOOLEAN]

NoShutdown == [active |-> FALSE, gen |-> 0, capture |-> FALSE,
               peer |-> FALSE, late |-> FALSE]

(* completion is m_nShutdownCompletionGeneration: which session asked for   *)
(* the shutdown of the peer (0: none).                                      *)
Peer == [gen : Nat, completion : Nat, rollback : BOOLEAN, late : BOOLEAN]

(* gen is the generation the running teardown will report.                  *)
Transport == [phase : {"Idle", "Ready", "ShuttingDown"}, gen : Nat,
              ice : {"New", "Up", "Down"}]

NoApproval == [side |-> "None", known |-> FALSE]

(* known: the request has its requestId; only then does its timer act.      *)
Approval == [side : {"None", "Incoming", "Outgoing"}, known : BOOLEAN]

Call == [op : Requests \cup {"HandleRollback", "ExecutePending",
                             "PeerFinished", "FinishStopping", "DialFailed"},
         gen : Nat, late : BOOLEAN]

CallTo(op) == [op |-> op, gen |-> 0, late |-> FALSE]

TypeOK ==
    /\ sm \in Machine
    /\ stop \in [gen : Nat, keep : BOOLEAN, started : BOOLEAN, early : BOOLEAN]
    /\ pending \in Requests \cup {NoRequest}
    /\ shutdown \in Shutdown
    /\ peer \in Peer
    /\ transport \in Transport
    /\ channel \in BOOLEAN
    /\ capability \in {"None", "Begun", "Complete"}
    /\ endPending \in BOOLEAN
    /\ media \in BOOLEAN
    /\ cap \in Capture
    /\ link \in {"Off", "Server", "Dialing", "Peer"}
    /\ approval \in Approval
    /\ available \in BOOLEAN
    /\ remoteAccess \in BOOLEAN
    /\ calls \in Seq(Call)

Init ==
    /\ sm = NewMachine
    /\ stop = [gen |-> 0, keep |-> FALSE, started |-> FALSE, early |-> FALSE]
    /\ pending = NoRequest
    /\ shutdown = NoShutdown
    /\ peer = [gen |-> 0, completion |-> 0, rollback |-> FALSE, late |-> FALSE]
    /\ transport = [phase |-> "Idle", gen |-> 0, ice |-> "New"]
    /\ channel = FALSE
    /\ capability = "None"
    /\ endPending = FALSE
    /\ media = FALSE
    /\ cap = NoCapture
    /\ link = "Off"
    /\ approval = NoApproval
    /\ available = FALSE
    /\ remoteAccess = TRUE
    /\ calls = <<>>

------------------------------------------------------------------------------
(* The session thread.                                                      *)

EventLoop == calls = <<>> /\ UNCHANGED calls

(* The call op is the next to make; what is left of it is "after".          *)
Called(op, after) ==
    /\ calls # <<>>
    /\ Head(calls).op = op
    /\ calls' = after \o Tail(calls)

(* A request is made by the user, within the bounds, or by                  *)
(* executePendingRequest.                                                   *)
WithinBounds == sm.gen < MaxGeneration /\ peer.gen < MaxPeerGeneration

Requested(op, after) ==
    \/ calls = <<>> /\ WithinBounds /\ calls' = after
    \/ Called(op, after)

------------------------------------------------------------------------------
(* KPeerLifecycleController and KWebRtcPeer.                                *)

InitializationOutcomes ==
    IF peer.rollback \/ transport.phase # "Idle" THEN {"Rejected"}
    ELSE {"Ready", "Failed"}

NextPeer(rollback) ==
    [gen |-> peer.gen + 1, completion |-> peer.completion,
     rollback |-> rollback, late |-> FALSE]

(* The generation moves on even when the transport rejects the call; a      *)
(* failed initialization starts its own rollback.                           *)
InitializePeer(outcome) ==
    /\ peer' = IF peer.rollback THEN peer ELSE NextPeer(outcome = "Failed")
    /\ transport' =
         CASE outcome = "Ready" ->
                [phase |-> "Ready", gen |-> 0, ice |-> "New"]
           [] outcome = "Failed" ->
                [phase |-> "ShuttingDown", gen |-> peer.gen + 1, ice |-> "New"]
           [] outcome = "Rejected" -> transport

(* Fault: the request is lost.                                              *)
LoseTransportShutdown(t, g) == t

RequestTransportShutdown(t, g) ==
    IF t.phase = "ShuttingDown" THEN t
    ELSE [phase |-> "ShuttingDown", gen |-> g, ice |-> "New"]

------------------------------------------------------------------------------
(* Stopping a session.                                                      *)

(* The shutdown coordinator waits for the capture service, if it was        *)
(* capturing, and for the peer.  A capture that is gone already answers     *)
(* inside the request.  (Fault: with a capture, the peer is not waited for.) *)
AwaitCaptureOrPeer(g, capturing) ==
    [active |-> TRUE, gen |-> g, capture |-> capturing, peer |-> ~capturing,
     late |-> FALSE]

AwaitResources(g, capturing) ==
    [active |-> TRUE, gen |-> g, capture |-> capturing, peer |-> TRUE,
     late |-> FALSE]

(* continueStoppingTeardown: everything the generation g holds is asked to  *)
(* go.                                                                      *)
TearDown(g, c) ==
    /\ shutdown' = AwaitResources(g, media /\ ~StopIsImmediate(c))
    /\ cap' = IF media THEN RequestStopCapture(c, g) ELSE c
    /\ media' = FALSE
    /\ capability' = "None"
    /\ channel' = FALSE
    /\ endPending' = FALSE
    /\ approval' = NoApproval
    /\ peer' = [peer EXCEPT !.completion = g]
    /\ transport' = RequestTransportShutdown(transport, peer.gen)

(* Fault: the session channel is taken to be open.                          *)
NotifiesBlindly(notify) == notify

CanNotify(notify) == notify /\ channel

(* The stop is early, the history field records, when a dial fails with a   *)
(* call still to be made after it.  Inside the completion of a rollback one *)
(* is: the report that the old transport has ended, which will be taken for *)
(* the end of the new one.                                                  *)
StopOf(keep, started) ==
    [gen |-> sm.gen, keep |-> keep, started |-> started,
     early |-> sm.state = "Connecting" /\ calls' # <<>>]

(* EndSession is sent, and the teardown is left to its answer.              *)
AwaitAnswer(keep, c) ==
    /\ stop' = StopOf(keep, FALSE)
    /\ endPending' = TRUE
    /\ approval' = IF sm.state \in SetupStates THEN NoApproval ELSE approval
    /\ cap' = c
    /\ UNCHANGED <<shutdown, channel, capability, media, peerVars>>

(* finishSession with a session to stop.  With bNotifyRemote and an open    *)
(* session channel the EndSession may be accepted for sending, or not.      *)
BeginStopping(keep, notify, c) ==
    /\ CanBeginStopping(sm)
    /\ sm' = MoveTo(sm, "Stopping")
    /\ available' = FALSE
    /\ \/ CanNotify(notify) /\ AwaitAnswer(keep, c)
       \/ /\ stop' = StopOf(keep, TRUE)
          /\ TearDown(sm.gen, c)

(* finishSession does nothing where there is nothing to stop or the stop is *)
(* under way.                                                               *)
FinishSessionWith(keep, notify, c) ==
    \/ BeginStopping(keep, notify, c)
    \/ /\ ~CanBeginStopping(sm)
       /\ cap' = c
       /\ UNCHANGED <<sm, available, stopVars, peerVars, flowVars, media>>

FinishSession(keep, notify) == FinishSessionWith(keep, notify, cap)

FinishRemotely == FinishSession(ShouldKeepListening(sm), FALSE)

ContinueStoppingTeardown ==
    /\ sm.state = "Stopping"
    /\ ~stop.started
    /\ stop' = [stop EXCEPT !.started = TRUE]
    /\ TearDown(stop.gen, cap)
    /\ UNCHANGED <<sm, available>>

(* The events that only end the session.                                    *)
FinishOn(condition, keep, notify) ==
    /\ EventLoop
    /\ condition
    /\ FinishSession(keep, notify)
    /\ UNCHANGED <<pending, link, remoteAccess>>

(* The events that move the state machine and nothing else.                 *)
MoveOn(condition, m) ==
    /\ EventLoop
    /\ condition
    /\ sm' = m
    /\ UNCHANGED <<available, stopVars, peerVars, flowVars, mediaVars, pending,
                   link, remoteAccess>>

------------------------------------------------------------------------------
(* Requests of the user.  A request that finds a session waits in "pending" *)
(* while the session is stopped; so does one that finds a peer being rolled *)
(* back.                                                                    *)

(* Fault: the request stays.                                                *)
KeepPendingRequest == UNCHANGED pending

ClearPendingRequest == pending' = NoRequest

Refused == sm.state = "ShutdownTimedOut" /\ UNCHANGED <<sessionVars, pending>>

Postponed(op) ==
    /\ sm.state # "ShutdownTimedOut"
    /\ pending' = op
    /\ \/ peer.rollback /\ UNCHANGED sessionVars
       \/ ~peer.rollback /\ sm.state # "Idle" /\ FinishSession(FALSE, TRUE)

Free == sm.state = "Idle" /\ ~peer.rollback

ChooseRole(r) ==
    /\ Requested(r, <<>>)
    /\ \/ Refused
       \/ (r # sm.role \/ peer.rollback) /\ Postponed(r)
       \/ /\ Free
          /\ sm' = SetRole(sm, r)
          /\ UNCHANGED <<available, stopVars, peerVars, flowVars, mediaVars,
                         pending>>
       \/ /\ r = sm.role /\ ~Free /\ ~peer.rollback
          /\ sm.state # "ShutdownTimedOut"
          /\ UNCHANGED <<sessionVars, pending>>
    /\ UNCHANGED <<link, remoteAccess>>

(* startSignalingServer.  A server that cannot listen leaves the state Idle *)
(* with the fresh peer on its way down.                                     *)
StartListening(outcome) ==
    \/ /\ outcome # "Ready"
       /\ InitializePeer(outcome)
       /\ UNCHANGED <<sm, available, link>>
    \/ /\ outcome = "Ready"
       /\ InitializePeer(outcome)
       /\ sm' = BeginListening(sm)
       /\ available' = TRUE
       /\ link' = "Server"
    \/ /\ outcome = "Ready" /\ ListenMayFail
       /\ peer' = NextPeer(FALSE)
       /\ transport' = [phase |-> "ShuttingDown", gen |-> peer.gen + 1,
                        ice |-> "New"]
       /\ available' = FALSE
       /\ link' = "Off"
       /\ UNCHANGED sm

StartSignalingServer ==
    /\ Requested("Listen", <<>>)
    /\ \/ Refused /\ UNCHANGED link
       \/ ~remoteAccess /\ UNCHANGED <<sessionVars, pending, link>>
       \/ remoteAccess /\ Postponed("Listen") /\ UNCHANGED link
       \/ /\ Free /\ remoteAccess
          /\ \E outcome \in InitializationOutcomes : StartListening(outcome)
          /\ UNCHANGED <<stopVars, flowVars, mediaVars, pending>>
    /\ UNCHANGED remoteAccess

(* connectSignaling.  Without a device identity the dial fails inside       *)
(* connectToHost.                                                           *)
ConnectSignaling ==
    /\ \/ Requested("Connect", <<>>) /\ Refused /\ UNCHANGED link
       \/ Requested("Connect", <<>>) /\ Postponed("Connect") /\ UNCHANGED link
       \/ /\ Free
          /\ \E outcome \in InitializationOutcomes :
                /\ InitializePeer(outcome)
                /\ \/ /\ outcome # "Ready"
                      /\ Requested("Connect", <<>>)
                      /\ link' = "Off"
                      /\ UNCHANGED sm
                   \/ /\ outcome = "Ready"
                      /\ Requested("Connect", <<>>)
                      /\ link' = "Dialing"
                      /\ sm' = BeginConnecting(sm)
                   \/ /\ outcome = "Ready" /\ IdentityMayFail
                      /\ Requested("Connect", <<CallTo("DialFailed")>>)
                      /\ link' = "Off"
                      /\ sm' = BeginConnecting(sm)
          /\ approval' = NoApproval
          /\ UNCHANGED <<available, stopVars, channel, capability, endPending,
                         mediaVars, pending>>
    /\ UNCHANGED remoteAccess

DialFailed ==
    /\ Called("DialFailed", <<>>)
    /\ sm.state = "Connecting"
    /\ FinishSession(FALSE, FALSE)
    /\ UNCHANGED <<pending, link, remoteAccess>>

(* disconnectSession drops the pending request, and during a rollback does  *)
(* no more.                                                                 *)
DisconnectSession ==
    /\ EventLoop
    /\ ClearPendingRequest
    /\ \/ peer.rollback /\ UNCHANGED sessionVars
       \/ ~peer.rollback /\ FinishSession(FALSE, TRUE)
    /\ UNCHANGED <<link, remoteAccess>>

(* applyApplicationSettings: forbidding remote access ends a controlled     *)
(* session; one that still waits for its approval is cancelled and not told *)
(* again.                                                                   *)
SetRemoteAccess ==
    /\ EventLoop
    /\ remoteAccess' = ~remoteAccess
    /\ \/ /\ remoteAccess /\ sm.role = "Controlled"
          /\ FinishSession(FALSE, ~(/\ sm.state \in SetupStates
                                    /\ approval # NoApproval))
       \/ /\ ~remoteAccess \/ sm.role = "Controller"
          /\ UNCHANGED sessionVars
    /\ UNCHANGED <<pending, link>>

StopStreaming ==
    FinishOn(sm.role = "Controlled" /\ HasActiveSession(sm), TRUE, TRUE)

EnterRemoteDesktop ==
    MoveOn(CanEnterRemoteDesktop(sm) /\ channel, SettleIn(sm, "Streaming"))

LeaveRemoteDesktop ==
    MoveOn(CanLeaveRemoteDesktop(sm), SettleIn(sm, "Connected"))

------------------------------------------------------------------------------
(* Signaling.                                                               *)

(* disconnectPeer, or the loss of the connection: a server stays up.        *)
WithoutPeer(l) ==
    IF l # "Peer" THEN l ELSE IF sm.role = "Controlled" THEN "Server" ELSE "Off"

OutgoingConnectionEstablished ==
    /\ EventLoop
    /\ link = "Dialing"
    /\ link' = "Peer"
    /\ \/ /\ sm.state = "Connecting"
          /\ sm' = BeginAuthenticatingIdentity(sm)
          /\ approval' = [side |-> "Outgoing", known |-> TRUE]
          /\ UNCHANGED <<available, stopVars, peerVars, channel, capability,
                         endPending, mediaVars>>
       \/ /\ sm.state = "Connecting" /\ SecurityMayRefuse
          /\ FinishSession(FALSE, FALSE)
       \/ sm.state # "Connecting" /\ UNCHANGED sessionVars
    /\ UNCHANGED <<pending, remoteAccess>>

OutgoingConnectionFailed ==
    /\ EventLoop
    /\ link = "Dialing"
    /\ link' = "Off"
    /\ \/ sm.state = "Connecting" /\ FinishSession(FALSE, FALSE)
       \/ sm.state # "Connecting" /\ UNCHANGED sessionVars
    /\ UNCHANGED <<pending, remoteAccess>>

(* Refused as it begins, the connection is dropped with the state back in   *)
(* Listening and the approval still there, and only then the availability   *)
(* is withdrawn as for a connection that lives on.                          *)
IncomingConnectionEstablished ==
    /\ EventLoop
    /\ link = "Server"
    /\ \/ /\ sm.state = "Listening" /\ sm.gen < MaxGeneration
          /\ \/ /\ sm' = BeginAuthenticatingIdentity(sm)
                /\ link' = "Peer"
             \/ /\ SecurityMayRefuse
                /\ sm' = RejectConnection(BeginAuthenticatingIdentity(sm))
                /\ UNCHANGED link
          /\ approval' = [side |-> "Incoming", known |-> FALSE]
          /\ available' = FALSE
          /\ UNCHANGED <<stopVars, peerVars, channel, capability, endPending,
                         mediaVars>>
       \/ /\ sm.state # "Listening"
          /\ link' = "Peer"
          /\ UNCHANGED sessionVars
    /\ UNCHANGED <<pending, remoteAccess>>

SignalingConnectionLost ==
    /\ EventLoop
    /\ link = "Peer"
    /\ link' = WithoutPeer(link)
    /\ \/ IsNegotiating(sm) /\ FinishRemotely
       \/ ~IsNegotiating(sm) /\ UNCHANGED sessionVars
    /\ UNCHANGED <<pending, remoteAccess>>

------------------------------------------------------------------------------
(* Identity and approval.                                                   *)

PairingRequested ==
    MoveOn(link = "Peer" /\ sm.state = "AuthenticatingIdentity",
           MoveTo(sm, "Pairing"))

IdentityAuthenticated ==
    MoveOn(link = "Peer" /\ sm.state \in {"AuthenticatingIdentity", "Pairing"},
           MoveTo(sm, "AwaitingApproval"))

(* incomingAccessAccepted, outgoingAccessAccepted.                          *)
Approve ==
    /\ sm.state = "AwaitingApproval"
    /\ sm' = MoveTo(sm, "Negotiating")
    /\ approval' = NoApproval
    /\ UNCHANGED <<available, stopVars, peerVars, channel, capability,
                   endPending, mediaVars, link>>

(* incomingAccessRejected, incomingSecurityRejected: the server listens     *)
(* again with the peer it already has.                                      *)
RejectIncoming ==
    /\ approval.side = "Incoming"
    /\ sm.state \in SetupStates
    /\ sm' = RejectConnection(sm)
    /\ approval' = NoApproval
    /\ available' = TRUE
    /\ link' = WithoutPeer(link)
    /\ UNCHANGED <<stopVars, peerVars, channel, capability, endPending,
                   mediaVars>>

RejectOutgoing ==
    /\ approval.side = "Outgoing"
    /\ sm.state \in SetupStates
    /\ FinishSession(FALSE, FALSE)
    /\ UNCHANGED link

(* handleAuthenticationRejected, while the security flow runs.              *)
SecurityRejected ==
    /\ EventLoop
    /\ sm.state \in {"AuthenticatingIdentity", "Pairing"}
    /\ RejectIncoming \/ RejectOutgoing
    /\ UNCHANGED <<pending, remoteAccess>>

(* The controller's request: by the settings it is accepted, rejected, or   *)
(* left to the user with its timer running.                                 *)
AccessRequestReceived ==
    /\ EventLoop
    /\ link = "Peer" /\ sm.state = "AwaitingApproval"
    /\ approval = [side |-> "Incoming", known |-> FALSE]
    /\ \/ remoteAccess /\ Approve
       \/ RejectIncoming
       \/ /\ remoteAccess
          /\ approval' = [approval EXCEPT !.known = TRUE]
          /\ UNCHANGED <<sm, available, stopVars, peerVars, channel, capability,
                         endPending, mediaVars, link>>
    /\ UNCHANGED <<pending, remoteAccess>>

(* respondIncomingAccessRequest, or the controller withdraws its request.   *)
IncomingDecided ==
    /\ EventLoop
    /\ approval = [side |-> "Incoming", known |-> TRUE]
    /\ sm.state = "AwaitingApproval"
    /\ Approve \/ RejectIncoming
    /\ UNCHANGED <<pending, remoteAccess>>

(* The controlled endpoint's answer, a busy reply included.                 *)
OutgoingDecided ==
    /\ EventLoop
    /\ link = "Peer" /\ sm.state = "AwaitingApproval"
    /\ approval.side = "Outgoing"
    /\ Approve \/ RejectOutgoing
    /\ UNCHANGED <<pending, remoteAccess>>

(* The timer acts on a request whose id is known, and on no other.  (Fault: *)
(* it acts only on one the user of the controlled endpoint may answer.)     *)
ApprovalDueWhileAwaiting == approval.known /\ sm.state = "AwaitingApproval"

ApprovalDue == approval.known

ApprovalTimeout ==
    /\ EventLoop
    /\ ApprovalDue
    /\ RejectIncoming \/ RejectOutgoing
    /\ UNCHANGED <<pending, remoteAccess>>

(* An invalid message rejects a request that awaits approval; elsewhere an  *)
(* unsupported version, or the last of too many, ends the session.          *)
InvalidSignalingMessage ==
    /\ EventLoop
    /\ link = "Peer"
    /\ \/ sm.state = "AwaitingApproval" /\ RejectIncoming
       \/ /\ sm.state # "AwaitingApproval" \/ sm.role = "Controller"
          /\ FinishRemotely
          /\ UNCHANGED link
    /\ UNCHANGED <<pending, remoteAccess>>

------------------------------------------------------------------------------
(* The peer connection.  Its events pass the callback gate only between     *)
(* initialize and requestShutdown.                                          *)

PeerReady == transport.phase = "Ready"

(* Offers, answers and candidates are routed in these states only.          *)
SignalingRouted ==
    sm.state \in {"Negotiating", "Connected", "Streaming", "Reconnecting"}

ConnectionRestored ==
    /\ EventLoop
    /\ PeerReady
    /\ transport.ice = "Down" \/ (transport.ice = "New" /\ SignalingRouted)
    /\ transport' = [transport EXCEPT !.ice = "Up"]
    /\ sm' = IF sm.state = "Reconnecting" THEN RestoreSession(sm) ELSE sm
    /\ UNCHANGED <<available, stopVars, peer, flowVars, mediaVars, pending, link,
                   remoteAccess>>

ConnectionInterrupted ==
    /\ EventLoop
    /\ PeerReady
    /\ transport.ice = "Up"
    /\ transport' = [transport EXCEPT !.ice = "Down"]
    /\ sm' = IF CanBeginReconnecting(sm) THEN BeginReconnecting(sm) ELSE sm
    /\ UNCHANGED <<available, stopVars, peer, flowVars, mediaVars, pending, link,
                   remoteAccess>>

(* connectionTerminated, inputBackpressureOverflow, protocolViolation.      *)
ConnectionTerminated ==
    FinishOn(PeerReady /\ HasActiveSession(sm) /\ SignalingRouted,
             ShouldKeepListening(sm), FALSE)

InputChannelClosed ==
    FinishOn(PeerReady /\ transport.ice # "New" /\ sm.state # "Stopping",
             ShouldKeepListening(sm), FALSE)

(* Fault: the timer stops with the signaling connection.                    *)
ReconnectTimeoutWithSignaling ==
    FinishOn(sm.state = "Reconnecting" /\ link = "Peer",
             ShouldKeepListening(sm), FALSE)

ReconnectTimeout ==
    FinishOn(sm.state = "Reconnecting", ShouldKeepListening(sm), FALSE)

------------------------------------------------------------------------------
(* The session channel.                                                     *)

SessionChannelOpened ==
    /\ EventLoop
    /\ PeerReady /\ transport.ice # "New" /\ ~channel
    /\ channel' = TRUE
    /\ capability' = "Begun"
    /\ UNCHANGED <<sm, available, stopVars, peerVars, endPending, approval,
                   mediaVars, pending, link, remoteAccess>>

(* Its close also fails the EndSession that waits for an answer.            *)
SessionChannelClosed ==
    /\ EventLoop
    /\ PeerReady /\ channel
    /\ \/ sm.state = "Stopping" /\ ContinueStoppingTeardown
       \/ sm.state # "Stopping" /\ FinishRemotely
    /\ UNCHANGED <<pending, link, remoteAccess>>

CapabilitiesReceived ==
    /\ EventLoop
    /\ channel /\ sm.state = "Negotiating"
    /\ \/ /\ capability' = "Complete"
          /\ sm' = SettleIn(sm, "Connected")
          /\ UNCHANGED <<available, stopVars, peerVars, channel, endPending,
                         approval, mediaVars>>
       \/ FinishRemotely
    /\ UNCHANGED <<pending, link, remoteAccess>>

CapabilityRejected ==
    FinishOn(channel /\ sm.state = "Negotiating", ShouldKeepListening(sm), FALSE)

CapabilityTimeout ==
    FinishOn(capability = "Begun" /\ sm.state = "Negotiating",
             ShouldKeepListening(sm), FALSE)

(* handleSessionMessage: any other message before the negotiation is        *)
(* complete is a violation of the protocol.                                 *)
SessionDataBeforeCapabilities ==
    FinishOn(channel /\ capability # "Complete", ShouldKeepListening(sm), FALSE)

EndSessionReceived == FinishOn(channel, ShouldKeepListening(sm), FALSE)

(* The dispatcher completes or times out the EndSession of a stop.          *)
EndSessionAnswered ==
    /\ EventLoop
    /\ endPending
    /\ ContinueStoppingTeardown
    /\ UNCHANGED <<pending, link, remoteAccess>>

(* Another command of a controller ran out of attempts.                     *)
SessionCommandTimeout ==
    FinishOn(channel /\ capability = "Complete" /\ sm.role = "Controller",
             ShouldKeepListening(sm), FALSE)

------------------------------------------------------------------------------
(* Streaming on the controlled endpoint.                                    *)

(* startStreaming by the user, and StartStreaming from the controller.      *)
StartStreaming ==
    /\ EventLoop
    /\ channel /\ CanStartControlledStreaming(sm)
    /\ media' = TRUE
    /\ cap' = IF media THEN cap ELSE StartCapture(cap)
    /\ sm' = SettleIn(sm, "Streaming")
    /\ UNCHANGED <<available, stopVars, peerVars, flowVars, pending, link,
                   remoteAccess>>

StopStreamingReceived ==
    /\ EventLoop
    /\ channel /\ capability = "Complete"
    /\ sm.role = "Controlled" /\ sm.state = "Streaming"
    /\ sm' = SettleIn(sm, "Connected")
    /\ cap' = IF media THEN RequestStopCapture(cap, sm.gen) ELSE cap
    /\ media' = FALSE
    /\ UNCHANGED <<available, stopVars, peerVars, flowVars, pending, link,
                   remoteAccess>>

CaptureFailure ==
    /\ EventLoop
    /\ cap.failed
    /\ LET c == [cap EXCEPT !.failed = FALSE] IN
       \/ /\ sm.role = "Controlled" /\ sm.state = "Streaming"
          /\ FinishSessionWith(TRUE, TRUE, c)
       \/ /\ ~(sm.role = "Controlled" /\ sm.state = "Streaming")
          /\ cap' = c
          /\ UNCHANGED <<sm, available, stopVars, peerVars, flowVars, media>>
    /\ UNCHANGED <<pending, link, remoteAccess>>

(* The worker thread runs beside the session thread.                        *)
WorkerStep(enabled, c) ==
    /\ enabled
    /\ cap' = c
    /\ UNCHANGED <<sm, available, stopVars, peerVars, flowVars, media, pending,
                   link, remoteAccess, calls>>

WorkerStarts == WorkerStep(CanStartWork(cap), StartWork(cap))

WorkerFinishes == WorkerStep(CanFinishWork(cap), FinishWork(cap))

WorkerFails == WorkerStep(CanFailWork(cap), FailWork(cap))

------------------------------------------------------------------------------
(* The end of a shutdown.                                                   *)

(* KShutdownCoordinator accepts the completion of its own generation only,  *)
(* and the session coordinator passes it on only while it is stopping.      *)
Awaited(g) ==
    /\ CanCompleteShutdown(sm)
    /\ shutdown.active
    /\ g = stop.gen
    /\ g = shutdown.gen

FinishCall(g) == [op |-> "FinishStopping", gen |-> g, late |-> shutdown.late]

(* KWebRtcPeer::shutdownFinished.  A teardown of another peer generation is *)
(* ignored; one that ends a rollback runs the request that waited for it    *)
(* before the completion of the session is reported.                        *)
TransportShutdownFinished ==
    /\ calls = <<>>
    /\ transport.phase = "ShuttingDown"
    /\ transport' = [transport EXCEPT !.phase = "Idle"]
    /\ LET reported == [op |-> "PeerFinished", gen |-> transport.gen,
                        late |-> FALSE] IN
       \/ /\ transport.gen # peer.gen
          /\ UNCHANGED <<peer, calls>>
       \/ /\ transport.gen = peer.gen /\ ~peer.rollback
          /\ calls' = <<reported>>
          /\ UNCHANGED peer
       \/ /\ transport.gen = peer.gen /\ peer.rollback
          /\ peer' = [peer EXCEPT !.rollback = FALSE, !.late = FALSE]
          /\ calls' = <<[op |-> "HandleRollback", gen |-> transport.gen,
                         late |-> peer.late], reported>>
    /\ UNCHANGED <<sm, available, stopVars, flowVars, mediaVars, pending, link,
                   remoteAccess>>

(* handlePeerInitializationRollbackFinished.                                *)
HandleRollback ==
    /\ \/ /\ Called("HandleRollback", <<>>)
          /\ Head(calls).late
          /\ sm' = IF sm.state = "ShutdownTimedOut" THEN Finish(sm, FALSE) ELSE sm
       \/ /\ Called("HandleRollback", <<CallTo("ExecutePending")>>)
          /\ ~Head(calls).late
          /\ UNCHANGED sm
    /\ UNCHANGED <<available, stopVars, peerVars, flowVars, mediaVars, pending,
                   link, remoteAccess>>

(* Fault: the request is not looked at.                                     *)
PendingCallsUnchecked == <<CallTo(pending)>>

PendingCalls == IF pending = NoRequest THEN <<>> ELSE <<CallTo(pending)>>

ExecutePendingRequest ==
    /\ \/ /\ peer.rollback
          /\ Called("ExecutePending", <<>>)
          /\ UNCHANGED pending
       \/ /\ ~peer.rollback
          /\ Called("ExecutePending", PendingCalls)
          /\ pending' = NoRequest
    /\ UNCHANGED <<sessionVars, link, remoteAccess>>

(* The rest of KPeerLifecycleController::handleShutdownFinished: whatever   *)
(* generation asked for a shutdown by now is taken to be the one that is    *)
(* answered.                                                                *)
PeerShutdownFinished ==
    /\ calls # <<>> /\ Head(calls).op = "PeerFinished"
    /\ peer' = [peer EXCEPT !.completion = 0]
    /\ LET g == IF peer.completion # 0 THEN peer.completion
                ELSE Head(calls).gen IN
       \/ /\ ~Awaited(g)
          /\ Called("PeerFinished", <<>>)
          /\ UNCHANGED shutdown
       \/ /\ Awaited(g) /\ shutdown.capture
          /\ Called("PeerFinished", <<>>)
          /\ shutdown' = [shutdown EXCEPT !.peer = FALSE]
       \/ /\ Awaited(g) /\ ~shutdown.capture
          /\ Called("PeerFinished", <<FinishCall(g)>>)
          /\ shutdown' = NoShutdown
    /\ UNCHANGED <<sm, available, stop, transport, flowVars, mediaVars, pending,
                   link, remoteAccess>>

(* KCaptureService::clearWorker with handleCaptureShutdownFinished.         *)
CaptureShutdownFinished ==
    /\ calls = <<>>
    /\ CanClearWorker(cap)
    /\ cap' = ClearWorker(cap)
    /\ \/ ~Awaited(cap.stopGen) /\ UNCHANGED <<shutdown, calls>>
       \/ /\ Awaited(cap.stopGen) /\ shutdown.peer
          /\ shutdown' = [shutdown EXCEPT !.capture = FALSE]
          /\ UNCHANGED calls
       \/ /\ Awaited(cap.stopGen) /\ ~shutdown.peer
          /\ shutdown' = NoShutdown
          /\ calls' = <<FinishCall(cap.stopGen)>>
    /\ UNCHANGED <<sm, available, stop, peerVars, flowVars, media, pending, link,
                   remoteAccess>>

(* finishStopping.  A controlled endpoint that keeps listening needs a new  *)
(* peer first; without one it goes Idle.                                    *)
FinishStopping ==
    /\ Called("FinishStopping", <<CallTo("ExecutePending")>>)
    /\ CanCompleteShutdown(sm)
    /\ Head(calls).gen = stop.gen
    /\ stop' = [stop EXCEPT !.started = FALSE, !.early = FALSE]
    /\ \/ /\ stop.keep /\ sm.role = "Controlled"
          /\ \E outcome \in InitializationOutcomes :
                /\ InitializePeer(outcome)
                /\ \/ /\ outcome = "Ready"
                      /\ sm' = Finish(sm, TRUE)
                      /\ available' = TRUE
                      /\ link' = WithoutPeer(link)
                      /\ UNCHANGED approval
                   \/ /\ outcome # "Ready"
                      /\ sm' = Finish(sm, FALSE)
                      /\ link' = "Off"
                      /\ approval' = NoApproval
                      /\ UNCHANGED available
       \/ /\ ~(stop.keep /\ sm.role = "Controlled")
          /\ sm' = Finish(sm, FALSE)
          /\ link' = "Off"
          /\ approval' = NoApproval
          /\ UNCHANGED <<available, peerVars>>
    /\ UNCHANGED <<shutdown, channel, capability, endPending, mediaVars, pending,
                   remoteAccess>>

(* Both watchdogs drop the pending request.  (Fault: the first watches the  *)
(* capture service only.)                                                   *)
WatchdogDueWithCapture == shutdown.capture /\ ~shutdown.late

WatchdogDue == shutdown.active /\ ~shutdown.late

StopWatchdog ==
    /\ EventLoop
    /\ WatchdogDue
    /\ shutdown' = [shutdown EXCEPT !.late = TRUE]
    /\ sm.state = "Stopping" /\ shutdown.gen = stop.gen
    /\ ClearPendingRequest
    /\ sm' = MoveTo(sm, "ShutdownTimedOut")
    /\ link' = IF sm.role = "Controlled" THEN WithoutPeer(link) ELSE "Off"
    /\ approval' = IF sm.role = "Controlled" THEN approval ELSE NoApproval
    /\ UNCHANGED <<available, stop, peerVars, channel, capability, endPending,
                   mediaVars, remoteAccess>>

RollbackTimeout ==
    /\ EventLoop
    /\ peer.rollback /\ ~peer.late
    /\ peer' = [peer EXCEPT !.late = TRUE]
    /\ ClearPendingRequest
    /\ sm' = IF sm.state = "Idle" THEN MoveTo(sm, "ShutdownTimedOut") ELSE sm
    /\ UNCHANGED <<available, stopVars, transport, flowVars, mediaVars, link,
                   remoteAccess>>

------------------------------------------------------------------------------
User ==
    \/ \E r \in Roles : ChooseRole(r)
    \/ StartSignalingServer \/ ConnectSignaling \/ DisconnectSession
    \/ SetRemoteAccess \/ StopStreaming
    \/ EnterRemoteDesktop \/ LeaveRemoteDesktop

Signaling ==
    \/ OutgoingConnectionEstablished \/ OutgoingConnectionFailed
    \/ IncomingConnectionEstablished \/ SignalingConnectionLost
    \/ PairingRequested \/ IdentityAuthenticated \/ SecurityRejected
    \/ AccessRequestReceived \/ IncomingDecided \/ OutgoingDecided
    \/ InvalidSignalingMessage

RemotePeer ==
    \/ ConnectionRestored \/ ConnectionInterrupted \/ ConnectionTerminated
    \/ InputChannelClosed \/ SessionChannelOpened \/ SessionChannelClosed
    \/ CapabilitiesReceived \/ CapabilityRejected
    \/ SessionDataBeforeCapabilities \/ EndSessionReceived
    \/ StartStreaming \/ StopStreamingReceived

Timers ==
    \/ ApprovalTimeout \/ CapabilityTimeout \/ ReconnectTimeout
    \/ SessionCommandTimeout \/ EndSessionAnswered
    \/ StopWatchdog \/ RollbackTimeout

Resources ==
    \/ TransportShutdownFinished \/ CaptureShutdownFinished \/ CaptureFailure
    \/ WorkerStarts \/ WorkerFinishes \/ WorkerFails

Calls ==
    \/ DialFailed \/ HandleRollback \/ ExecutePendingRequest
    \/ PeerShutdownFinished \/ FinishStopping

Next == User \/ Signaling \/ RemotePeer \/ Timers \/ Resources \/ Calls

Spec == Init /\ [][Next]_vars

(* What the event loop guarantees: a call that is due is made, a timer that *)
(* stays armed fires.  Nothing is promised of the network, of the user, or  *)
(* of the resources that are asked to go.                                   *)
Scheduling ==
    /\ WF_vars(Calls)
    /\ WF_vars(StopWatchdog)
    /\ WF_vars(RollbackTimeout)
    /\ WF_vars(EndSessionAnswered)
    /\ WF_vars(ReconnectTimeout)
    /\ WF_vars(ApprovalTimeout)

ScheduledSpec == Spec /\ Scheduling

------------------------------------------------------------------------------
(* Safety.                                                                  *)

(* The states that hold a peer connection.                                  *)
HoldsPeer ==
    \/ sm.state = "Listening" \/ HasActiveSession(sm)
    \/ sm.state = "Stopping" /\ ~stop.started

(* The transport is up exactly while the state machine is in a state that   *)
(* uses it: no session runs on a peer being torn down, and no peer outlives *)
(* its session (initializePeer and requestShutdown against every path of    *)
(* the state machine).                                                      *)
PeerMatchesState == PeerReady <=> HoldsPeer

(* A stop whose teardown has begun always has somebody left to finish it:   *)
(* the shutdown coordinator awaits this very generation, and each resource  *)
(* it awaits is still on its way down under the generations by which the    *)
(* completion will be recognized.                                           *)
CompletionIsComing ==
    (CanCompleteShutdown(sm) /\ stop.started /\ calls = <<>>) =>
        /\ shutdown.active
        /\ shutdown.gen = stop.gen
        /\ shutdown.peer \/ shutdown.capture
        /\ shutdown.peer => /\ transport.phase = "ShuttingDown"
                            /\ transport.gen = peer.gen
                            /\ peer.completion = stop.gen
        /\ shutdown.capture => /\ cap.thread # "None"
                               /\ cap.stopGen = stop.gen

(* A stop that waits for the answer to its EndSession still has the channel *)
(* and the command by which the answer, or its failure, can come.           *)
AnswerIsComing ==
    (sm.state = "Stopping" /\ ~stop.started) => (endPending /\ channel)

(* A request put off is kept only while something will run it later: a      *)
(* session being stopped or a peer being rolled back.                       *)
PendingIsServed ==
    (pending # NoRequest /\ calls = <<>>) =>
        sm.state = "Stopping" \/ peer.rollback

(* While a peer is rolled back there is no session, and the rollback's      *)
(* completion will be recognized.                                           *)
RollbackIsExclusive ==
    peer.rollback => /\ sm.state \in {"Idle", "ShutdownTimedOut"}
                     /\ transport.phase = "ShuttingDown"
                     /\ transport.gen = peer.gen
                     /\ ~shutdown.active

(* The screen is captured for the wire, now or after the worker in the way  *)
(* is gone, only for a session of the controlled endpoint that streams, or  *)
(* will stream again when the connection is restored, or is about to be     *)
(* torn down.                                                               *)
CaptureIsOwned ==
    (cap.accept \/ cap.restart) =>
        /\ media
        /\ sm.role = "Controlled"
        /\ \/ sm.state = "Streaming"
           \/ sm.state = "Reconnecting" /\ sm.restore
           \/ sm.state = "Stopping" /\ ~stop.started

(* The endpoint is announced as available, to LAN discovery among others,   *)
(* only while it listens with a server and no peer attached.                *)
AvailableMeansListening ==
    available => (sm.state = "Listening" /\ link = "Server")

(* What the endpoint lends to others, its screen and its address, it lends  *)
(* only in the states that are for it.                                      *)
ResourcesFollowSession == CaptureIsOwned /\ AvailableMeansListening

(* A connection under approval has its approval request, of the side the    *)
(* endpoint's role gives it, and the connection to answer it on.            *)
SetupHasApproval ==
    sm.state \in SetupStates =>
        /\ link = "Peer"
        /\ approval.side = IF sm.role = "Controlled" THEN "Incoming" ELSE "Outgoing"

(* A session is over only when the transport is: the state machine leaves   *)
(* Stopping and ShutdownTimedOut for a state that accepts new sessions only *)
(* with the old peer gone and no completion outstanding.  The one exception *)
(* is a dial that fails, for want of a device identity, inside the          *)
(* completion of a rollback: its stop is early, over while its peer is      *)
(* still on its way down, and leaves the endpoint Idle.                     *)
SessionOver == CanCompleteShutdown(sm) /\ ~CanCompleteShutdown(sm')

AllReleased == transport.phase = "Idle" /\ ~shutdown.active

OverEarly ==
    /\ stop.early /\ sm'.state = "Idle" /\ ~shutdown.active
    /\ transport.phase = "ShuttingDown" /\ UNCHANGED transport

EndsReleased == [][SessionOver => AllReleased \/ OverEarly]_vars

------------------------------------------------------------------------------
(* Liveness, under ScheduledSpec.                                           *)

(* No stop waits for a remote endpoint or a resource that never answers.    *)
StoppingEnds == sm.state = "Stopping" ~> sm.state # "Stopping"

(* A request put off is run or dropped.                                     *)
PendingSettles == pending # NoRequest ~> pending = NoRequest

(* An interrupted session is restored or ended.                             *)
ReconnectingEnds == sm.state = "Reconnecting" ~> sm.state # "Reconnecting"

(* An approval request whose id is known is answered in the end.            *)
KnownApprovalEnds == approval.known ~> ~approval.known

(* No user, request or interruption is left waiting.                        *)
WaitingEnds == PendingSettles /\ ReconnectingEnds /\ KnownApprovalEnds

(* An endpoint that timed out with only the transport outstanding becomes   *)
(* usable again, if the threads of the transport run.                       *)
LatePeerReleases ==
    WF_vars(TransportShutdownFinished) =>
        ((sm.state = "ShutdownTimedOut" /\ ~shutdown.capture)
            ~> sm.state # "ShutdownTimedOut")

------------------------------------------------------------------------------
(* What the repository says of the program, and the code does not do.       *)

(* A stop becomes Idle, or listens again, when all of its resources are     *)
(* released (the state diagram of docs/architecture/session-lifecycle.md).  *)
StopEndsReleased == [][SessionOver => AllReleased]_vars

==============================================================================
