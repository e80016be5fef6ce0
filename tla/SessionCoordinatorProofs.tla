----------------------- MODULE SessionCoordinatorProofs -----------------------
(***************************************************************************)
(* Proofs about SessionCoordinator, for every bound, every number of       *)
(* generations and every choice of what the environment may do.            *)
(*                                                                         *)
(* The safety properties are not inductive: between the steps of one       *)
(* callback they say nothing of the calls the session thread still owes,   *)
(* and a shutdown reported under the wrong generation would break them a   *)
(* few steps later.  IInv adds what is missing: the shape of "calls", the  *)
(* order in which a stop, a rollback and a postponed request go through    *)
(* their phases, and whose completion each of them waits for.  SidesInOrder *)
(* is inductive by itself (with TypeOK), so it is proved apart.            *)
(* CaptureInv and ListeningInv stand on both of them.  First come the types *)
(* and the lemmas about the operators the actions are built from.          *)
(***************************************************************************)
EXTENDS SessionCoordinator, SequenceTheorems, TLAPS

(* The types of what a session touches.                                     *)
SessionTypeOK ==
    /\ sm \in Machine
    /\ stop \in [gen : Nat, keep : BOOLEAN, started : BOOLEAN, early : BOOLEAN]
    /\ shutdown \in Shutdown
    /\ peer \in Peer
    /\ transport \in Transport
    /\ channel \in BOOLEAN
    /\ capability \in {"None", "Begun", "Complete"}
    /\ endPending \in BOOLEAN
    /\ media \in BOOLEAN
    /\ cap \in Capture
    /\ approval \in Approval
    /\ available \in BOOLEAN

LEMMA TypeParts ==
    ASSUME TypeOK
    PROVE  SessionTypeOK
BY DEF TypeOK, SessionTypeOK

LEMMA TypesTogether ==
    ASSUME SessionTypeOK',
           pending' \in Requests \cup {NoRequest},
           link' \in {"Off", "Server", "Dialing", "Peer"},
           remoteAccess' \in BOOLEAN,
           calls' \in Seq(Call)
    PROVE  TypeOK'
BY DEF TypeOK, SessionTypeOK

------------------------------------------------------------------------------
(* The operators the actions are built from.                                *)

LEMMA MachineFields ==
    ASSUME NEW m \in Machine
    PROVE  m.state \in States /\ m.role \in Roles /\ m.restore \in BOOLEAN /\ m.gen \in Nat
BY DEF Machine

LEMMA MoveTyping ==
    ASSUME NEW m \in Machine, NEW s \in States
    PROVE  MoveTo(m, s) \in Machine /\ SettleIn(m, s) \in Machine
BY DEF Machine, MoveTo, SettleIn

LEMMA MachineTyping ==
    ASSUME NEW m \in Machine
    PROVE  /\ \A r \in Roles : SetRole(m, r) \in Machine
           /\ BeginListening(m) \in Machine
           /\ BeginConnecting(m) \in Machine
           /\ BeginAuthenticatingIdentity(m) \in Machine
           /\ RejectConnection(m) \in Machine
           /\ BeginReconnecting(m) \in Machine
           /\ RestoreSession(m) \in Machine
           /\ \A keep \in BOOLEAN : Finish(m, keep) \in Machine
<1>0. m.state \in States /\ m.role \in Roles /\ m.restore \in BOOLEAN
      /\ m.gen \in Nat /\ m.gen + 1 \in Nat
  BY MachineFields
<1>1. {"Idle", "Listening", "Connecting", "AuthenticatingIdentity", "Connected",
       "Streaming", "Reconnecting"} \subseteq States
  BY DEF States, RestingStates, ActiveStates, NegotiatingStates, SetupStates
<1>2. \A r \in Roles : SetRole(m, r) \in Machine
  BY DEF Machine, SetRole
<1>3. BeginListening(m) \in Machine /\ BeginConnecting(m) \in Machine
  BY <1>0, <1>1 DEF Machine, BeginListening, BeginConnecting, Roles
<1>4. BeginAuthenticatingIdentity(m) \in Machine
  <2>1. CASE m.state = "Listening"
    BY <1>0, <1>1, <2>1 DEF Machine, BeginAuthenticatingIdentity
  <2>2. CASE m.state # "Listening"
    BY <1>0, <1>1, <2>2 DEF Machine, BeginAuthenticatingIdentity
  <2>. QED
    BY <2>1, <2>2
<1>5. BeginReconnecting(m) \in Machine
  BY <1>0, <1>1 DEF Machine, BeginReconnecting
<1>6. RejectConnection(m) \in Machine /\ RestoreSession(m) \in Machine
  BY <1>0, <1>1, MoveTyping DEF RejectConnection, RestoreSession
<1>7. \A keep \in BOOLEAN : Finish(m, keep) \in Machine
  BY <1>0, <1>1, MoveTyping DEF Finish
<1>. QED
  BY <1>2, <1>3, <1>4, <1>5, <1>6, <1>7

LEMMA CaptureTyping ==
    ASSUME NEW c \in Capture
    PROVE  /\ StartCapture(c) \in Capture
           /\ \A g \in Nat : RequestStopCapture(c, g) \in Capture
           /\ ClearWorker(c) \in Capture
           /\ StartWork(c) \in Capture
           /\ FinishWork(c) \in Capture
           /\ FailWork(c) \in Capture
           /\ [c EXCEPT !.failed = FALSE] \in Capture
           /\ StopIsImmediate(c) \in BOOLEAN
BY DEF Capture, NoCapture, StartCapture, RequestStopCapture, StopIsImmediate,
       ClearWorker, StartWork, FinishWork, FailWork

(* What is left to call is a sequence of calls.                             *)
LEMMA CallsTyping ==
    ASSUME calls \in Seq(Call), NEW op, NEW after \in Seq(Call), Called(op, after)
    PROVE  calls' \in Seq(Call)
<1>1. Tail(calls) \in Seq(Call)
  BY HeadTailProperties DEF Called
<1>. QED
  BY <1>1, ConcatProperties DEF Called

LEMMA RequestedTyping ==
    ASSUME calls \in Seq(Call), NEW op, NEW after \in Seq(Call), Requested(op, after)
    PROVE  calls' \in Seq(Call)
BY CallsTyping DEF Requested

LEMMA CallToTyping ==
    /\ <<>> \in Seq(Call)
    /\ \A op \in Requests \cup {"ExecutePending", "DialFailed"} :
          <<CallTo(op)>> \in Seq(Call)
BY DEF CallTo, Call

LEMMA CallPairTyping ==
    /\ \A a \in Call : <<a>> \in Seq(Call)
    /\ \A a, b \in Call : <<a, b>> \in Seq(Call)
OBVIOUS

LEMMA TearDownTyping ==
    ASSUME SessionTypeOK, NEW g \in Nat, NEW c \in Capture, TearDown(g, c)
    PROVE  /\ shutdown' \in Shutdown
           /\ peer' \in Peer
           /\ transport' \in Transport
           /\ cap' \in Capture
           /\ approval' \in Approval
           /\ channel' \in BOOLEAN
           /\ capability' \in {"None", "Begun", "Complete"}
           /\ endPending' \in BOOLEAN
           /\ media' \in BOOLEAN
<1>1. shutdown' \in Shutdown
  BY CaptureTyping DEF SessionTypeOK, TearDown, AwaitResources, Shutdown
<1>2. cap' \in Capture
  BY CaptureTyping DEF SessionTypeOK, TearDown
<1>3. peer' \in Peer /\ transport' \in Transport
  BY DEF SessionTypeOK, TearDown, RequestTransportShutdown, Peer, Transport
<1>. QED
  BY <1>1, <1>2, <1>3 DEF TearDown, Approval, NoApproval

LEMMA FinishTyping ==
    ASSUME SessionTypeOK, NEW keep \in BOOLEAN, NEW notify, NEW c \in Capture,
           FinishSessionWith(keep, notify, c)
    PROVE  SessionTypeOK'
<1>1. CASE BeginStopping(keep, notify, c)
  <2>1. sm' \in Machine /\ sm.gen \in Nat
    BY <1>1, MachineFields, MoveTyping DEF SessionTypeOK, BeginStopping, States
  <2>2. CASE AwaitAnswer(keep, c)
    <3>1. stop' \in [gen : Nat, keep : BOOLEAN, started : BOOLEAN, early : BOOLEAN]
      BY <2>1, <2>2 DEF AwaitAnswer, StopOf
    <3>2. approval' \in Approval
      BY <2>2 DEF AwaitAnswer, SessionTypeOK, Approval, NoApproval
    <3>. QED
      BY <1>1, <2>1, <2>2, <3>1, <3>2
      DEF AwaitAnswer, BeginStopping, SessionTypeOK, peerVars
  <2>3. CASE stop' = StopOf(keep, TRUE) /\ TearDown(sm.gen, c)
    <3>1. stop' \in [gen : Nat, keep : BOOLEAN, started : BOOLEAN, early : BOOLEAN]
      BY <2>1, <2>3 DEF StopOf
    <3>. QED
      BY <1>1, <2>1, <2>3, <3>1, TearDownTyping DEF SessionTypeOK, BeginStopping
  <2>. QED
    BY <1>1, <2>2, <2>3 DEF BeginStopping
<1>2. CASE ~BeginStopping(keep, notify, c)
  BY <1>2 DEF FinishSessionWith, SessionTypeOK, stopVars, peerVars, flowVars
<1>. QED
  BY <1>1, <1>2

LEMMA FinishKeepsTypes ==
    ASSUME TypeOK, NEW keep \in BOOLEAN, NEW notify, NEW c \in Capture,
           FinishSessionWith(keep, notify, c),
           UNCHANGED <<pending, link, remoteAccess, calls>>
    PROVE  TypeOK'
BY FinishTyping, TypeParts, TypesTogether DEF TypeOK

LEMMA FinishOnTyping ==
    ASSUME TypeOK, NEW condition, NEW keep \in BOOLEAN, NEW notify,
           FinishOn(condition, keep, notify)
    PROVE  TypeOK'
BY FinishKeepsTypes DEF FinishOn, FinishSession, EventLoop, TypeOK

LEMMA MoveOnTyping ==
    ASSUME TypeOK, NEW condition, NEW m \in Machine, MoveOn(condition, m)
    PROVE  TypeOK'
BY DEF MoveOn, EventLoop, TypeOK, stopVars, peerVars, flowVars, mediaVars

LEMMA NextPeerTyping ==
    ASSUME peer \in Peer
    PROVE  /\ \A rollback \in BOOLEAN : NextPeer(rollback) \in Peer
           /\ peer.gen + 1 \in Nat
BY DEF NextPeer, Peer

LEMMA InitializeTyping ==
    ASSUME peer \in Peer, transport \in Transport,
           NEW outcome \in InitializationOutcomes, InitializePeer(outcome)
    PROVE  peer' \in Peer /\ transport' \in Transport
<1>1. peer' \in Peer
  BY NextPeerTyping DEF InitializePeer
<1>2. outcome \in {"Ready", "Failed", "Rejected"}
  BY DEF InitializationOutcomes
<1>3. transport' \in Transport
  <2>1. CASE outcome = "Ready"
    BY <2>1 DEF InitializePeer, Transport
  <2>2. CASE outcome = "Failed"
    BY <2>2, NextPeerTyping DEF InitializePeer, Transport
  <2>3. CASE outcome = "Rejected"
    BY <2>3 DEF InitializePeer
  <2>. QED
    BY <1>2, <2>1, <2>2, <2>3
<1>. QED
  BY <1>1, <1>3

LEMMA KeepListeningTyping == ShouldKeepListening(sm) \in BOOLEAN
BY DEF ShouldKeepListening

LEMMA WithoutPeerTyping ==
    ASSUME link \in {"Off", "Server", "Dialing", "Peer"}
    PROVE  WithoutPeer(link) \in {"Off", "Server", "Dialing", "Peer"}
BY DEF WithoutPeer

LEMMA PostponedTyping ==
    ASSUME TypeOK, NEW op \in Requests, Postponed(op) \/ Refused
    PROVE  SessionTypeOK' /\ pending' \in Requests \cup {NoRequest}
<1>1. CASE UNCHANGED sessionVars
  BY <1>1 DEF Postponed, Refused, TypeOK, SessionTypeOK, sessionVars, stopVars,
              peerVars, flowVars, mediaVars
<1>2. CASE FinishSession(FALSE, TRUE)
  <2>1. SessionTypeOK /\ cap \in Capture
    BY TypeParts DEF SessionTypeOK
  <2>2. SessionTypeOK'
    BY <1>2, <2>1, FinishTyping DEF FinishSession
  <2>. QED
    BY <2>2 DEF Postponed, Refused, TypeOK
<1>. QED
  BY <1>1, <1>2 DEF Postponed, Refused

------------------------------------------------------------------------------
(* The actions.                                                             *)

LEMMA UserTyping == ASSUME TypeOK, User PROVE TypeOK'
<1>0. SessionTypeOK /\ cap \in Capture /\ sm \in Machine
  BY TypeParts DEF SessionTypeOK
<1>1. ASSUME NEW r \in Roles, ChooseRole(r) PROVE TypeOK'
  <2>1. r \in Requests
    BY DEF Roles, Requests
  <2>2. calls' \in Seq(Call)
    BY <1>1, RequestedTyping, CallToTyping DEF ChooseRole, TypeOK
  <2>3. SessionTypeOK' /\ pending' \in Requests \cup {NoRequest}
    <3>1. CASE Refused \/ Postponed(r)
      BY <2>1, <3>1, PostponedTyping
    <3>2. CASE ~(Refused \/ Postponed(r))
      BY <1>0, <1>1, <3>2, MachineTyping
      DEF ChooseRole, TypeOK, SessionTypeOK, sessionVars, stopVars, peerVars,
          flowVars, mediaVars
    <3>. QED
      BY <3>1, <3>2
  <2>. QED
    BY <1>1, <2>2, <2>3, TypesTogether DEF ChooseRole, TypeOK
<1>2. CASE StartSignalingServer
  <2>1. calls' \in Seq(Call)
    BY <1>2, RequestedTyping, CallToTyping DEF StartSignalingServer, TypeOK
  <2>2. CASE (Refused \/ Postponed("Listen")) /\ UNCHANGED link
    BY <1>2, <2>1, <2>2, PostponedTyping, TypesTogether
    DEF StartSignalingServer, TypeOK, Requests
  <2>3. CASE UNCHANGED <<sessionVars, pending, link>>
    BY <1>2, <2>1, <2>3
    DEF StartSignalingServer, TypeOK, sessionVars, stopVars, peerVars, flowVars,
        mediaVars
  <2>4. ASSUME NEW outcome \in InitializationOutcomes, StartListening(outcome),
               UNCHANGED <<stopVars, flowVars, mediaVars, pending, remoteAccess>>
        PROVE  TypeOK'
    <3>1. peer' \in Peer /\ transport' \in Transport
      <4>1. CASE InitializePeer(outcome)
        BY <4>1, InitializeTyping DEF TypeOK
      <4>2. CASE ~InitializePeer(outcome)
        <5>1. peer' = NextPeer(FALSE)
              /\ transport' = [phase |-> "ShuttingDown", gen |-> peer.gen + 1,
                                ice |-> "New"]
          BY <2>4, <4>2 DEF StartListening
        <5>2. NextPeer(FALSE) \in Peer /\ peer.gen + 1 \in Nat
          BY NextPeerTyping DEF TypeOK
        <5>. QED
          BY <5>1, <5>2 DEF Transport
      <4>. QED
        BY <4>1, <4>2
    <3>2. sm' \in Machine /\ available' \in BOOLEAN
          /\ link' \in {"Off", "Server", "Dialing", "Peer"}
      BY <2>4, MachineTyping DEF StartListening, TypeOK
    <3>. QED
      BY <2>1, <2>4, <3>1, <3>2 DEF TypeOK, stopVars, flowVars, mediaVars
  <2>. QED
    BY <1>2, <2>2, <2>3, <2>4 DEF StartSignalingServer
<1>3. CASE ConnectSignaling
  <2>1. calls' \in Seq(Call)
    BY <1>3, RequestedTyping, CallToTyping DEF ConnectSignaling, TypeOK
  <2>2. CASE (Refused \/ Postponed("Connect")) /\ UNCHANGED link
    BY <1>3, <2>1, <2>2, PostponedTyping, TypesTogether
    DEF ConnectSignaling, TypeOK, Requests
  <2>3. CASE ~((Refused \/ Postponed("Connect")) /\ UNCHANGED link)
    <3>1. PICK outcome \in InitializationOutcomes :
              /\ InitializePeer(outcome)
              /\ sm' = sm \/ sm' = BeginConnecting(sm)
              /\ link' \in {"Off", "Dialing"}
      BY <1>3, <2>3 DEF ConnectSignaling
    <3>2. peer' \in Peer /\ transport' \in Transport /\ sm' \in Machine
      BY <3>1, InitializeTyping, MachineTyping DEF TypeOK
    <3>3. /\ approval' = NoApproval
          /\ UNCHANGED <<available, stopVars, channel, capability, endPending,
                         mediaVars, pending>>
      BY <1>3, <2>3, Zenon DEF ConnectSignaling
    <3>4. approval' \in Approval
      BY <3>3 DEF Approval, NoApproval
    <3>. QED
      BY <1>3, <2>1, <3>1, <3>2, <3>3, <3>4
      DEF ConnectSignaling, TypeOK, stopVars, mediaVars
  <2>. QED
    BY <2>2, <2>3
<1>4. CASE DisconnectSession
  <2>1. SessionTypeOK'
    BY <1>0, <1>4, FinishTyping
    DEF DisconnectSession, FinishSession, SessionTypeOK, sessionVars, stopVars,
        peerVars, flowVars, mediaVars
  <2>. QED
    BY <1>4, <2>1, TypesTogether
    DEF DisconnectSession, ClearPendingRequest, EventLoop, TypeOK
<1>5. CASE SetRemoteAccess
  <2>1. SessionTypeOK'
    BY <1>0, <1>5, FinishTyping
    DEF SetRemoteAccess, FinishSession, SessionTypeOK, sessionVars, stopVars,
        peerVars, flowVars, mediaVars
  <2>. QED
    BY <1>5, <2>1, TypesTogether DEF SetRemoteAccess, EventLoop, TypeOK
<1>6. CASE StopStreaming
  BY <1>6, FinishOnTyping DEF StopStreaming
<1>7. CASE EnterRemoteDesktop \/ LeaveRemoteDesktop
  BY <1>0, <1>7, MoveOnTyping, MoveTyping
  DEF EnterRemoteDesktop, LeaveRemoteDesktop, States, ActiveStates
<1>. QED
  BY <1>1, <1>2, <1>3, <1>4, <1>5, <1>6, <1>7 DEF User

LEMMA RejectionTyping ==
    ASSUME TypeOK, RejectIncoming \/ RejectOutgoing
    PROVE  SessionTypeOK' /\ link' \in {"Off", "Server", "Dialing", "Peer"}
<1>0. SessionTypeOK /\ cap \in Capture /\ NoApproval \in Approval
  BY TypeParts DEF SessionTypeOK, NoApproval, Approval
<1>1. CASE RejectIncoming
  BY <1>0, <1>1, MachineTyping, WithoutPeerTyping
  DEF RejectIncoming, TypeOK, SessionTypeOK, stopVars, peerVars, mediaVars
<1>2. CASE RejectOutgoing
  BY <1>0, <1>2, FinishTyping DEF RejectOutgoing, FinishSession, TypeOK
<1>. QED
  BY <1>1, <1>2

LEMMA ApproveTyping ==
    ASSUME TypeOK, Approve
    PROVE  SessionTypeOK' /\ link' \in {"Off", "Server", "Dialing", "Peer"}
<1>0. "Negotiating" \in States /\ NoApproval \in Approval
  BY DEF States, ActiveStates, NegotiatingStates, NoApproval, Approval
<1>. QED
  BY <1>0, MoveTyping
  DEF Approve, TypeOK, SessionTypeOK, stopVars, peerVars, mediaVars

LEMMA ContinueTyping ==
    ASSUME TypeOK, ContinueStoppingTeardown
    PROVE  SessionTypeOK'
<1>1. SessionTypeOK /\ cap \in Capture /\ stop.gen \in Nat
  BY TypeParts DEF SessionTypeOK
<1>2. stop' \in [gen : Nat, keep : BOOLEAN, started : BOOLEAN, early : BOOLEAN]
  BY DEF ContinueStoppingTeardown, TypeOK
<1>. QED
  BY <1>1, <1>2, TearDownTyping DEF ContinueStoppingTeardown, SessionTypeOK

LEMMA FinishCallTyping ==
    ASSUME shutdown \in Shutdown, NEW g \in Nat
    PROVE  FinishCall(g) \in Call /\ <<FinishCall(g)>> \in Seq(Call)
<1>1. FinishCall(g) \in Call
  BY DEF FinishCall, Call, Shutdown
<1>. QED
  BY <1>1

LEMMA UnchangedTyping ==
    ASSUME TypeOK, UNCHANGED sessionVars
    PROVE  SessionTypeOK'
BY DEF TypeOK, SessionTypeOK, sessionVars, stopVars, peerVars, flowVars, mediaVars

LEMMA SignalingTyping == ASSUME TypeOK, Signaling PROVE TypeOK'
<1>0. /\ SessionTypeOK /\ cap \in Capture /\ sm \in Machine
      /\ WithoutPeer(link) \in {"Off", "Server", "Dialing", "Peer"}
  BY TypeParts, WithoutPeerTyping DEF SessionTypeOK, TypeOK
<1>1. ASSUME NEW keep \in BOOLEAN, NEW notify, FinishSession(keep, notify)
      PROVE  SessionTypeOK'
  BY <1>0, <1>1, FinishTyping DEF FinishSession
<1>2. ASSUME FinishRemotely PROVE SessionTypeOK'
  BY <1>1, <1>2, KeepListeningTyping DEF FinishRemotely
<1>3. CASE OutgoingConnectionEstablished
  <2>1. CASE sm.state = "Connecting" /\ ~FinishSession(FALSE, FALSE)
    <3>1. [side |-> "Outgoing", known |-> TRUE] \in Approval
      BY DEF Approval
    <3>. QED
      BY <1>0, <1>3, <2>1, <3>1, MachineTyping
      DEF OutgoingConnectionEstablished, EventLoop, TypeOK, stopVars, peerVars,
          mediaVars
  <2>2. CASE UNCHANGED sessionVars \/ FinishSession(FALSE, FALSE)
    BY <1>1, <1>3, <2>2, UnchangedTyping, TypesTogether
    DEF OutgoingConnectionEstablished, EventLoop, TypeOK
  <2>. QED
    BY <1>3, <2>1, <2>2 DEF OutgoingConnectionEstablished
<1>4. CASE OutgoingConnectionFailed
  BY <1>1, <1>4, UnchangedTyping, TypesTogether
  DEF OutgoingConnectionFailed, EventLoop, TypeOK
<1>5. CASE IncomingConnectionEstablished
  <2>1. CASE UNCHANGED sessionVars /\ link' = "Peer"
    BY <1>5, <2>1, UnchangedTyping, TypesTogether
    DEF IncomingConnectionEstablished, EventLoop, TypeOK
  <2>2. CASE ~(UNCHANGED sessionVars /\ link' = "Peer")
    <3>1. [side |-> "Incoming", known |-> FALSE] \in Approval
      BY DEF Approval
    <3>2. sm' \in Machine
      BY <1>0, <1>5, <2>2, MachineTyping DEF IncomingConnectionEstablished
    <3>. QED
      BY <1>5, <2>2, <3>1, <3>2
      DEF IncomingConnectionEstablished, EventLoop, TypeOK, stopVars, peerVars,
          mediaVars
  <2>. QED
    BY <2>1, <2>2
<1>6. CASE SignalingConnectionLost
  BY <1>0, <1>2, <1>6, UnchangedTyping, TypesTogether
  DEF SignalingConnectionLost, EventLoop, TypeOK
<1>7. CASE PairingRequested \/ IdentityAuthenticated
  <2>1. "Pairing" \in States /\ "AwaitingApproval" \in States
    BY DEF States, ActiveStates, NegotiatingStates, SetupStates
  <2>. QED
    BY <1>0, <1>7, <2>1, MoveOnTyping, MoveTyping
    DEF PairingRequested, IdentityAuthenticated
<1>8. CASE SecurityRejected \/ ApprovalTimeout
  BY <1>8, RejectionTyping, TypesTogether
  DEF SecurityRejected, ApprovalTimeout, EventLoop, TypeOK
<1>9. CASE AccessRequestReceived
  <2>1. CASE Approve \/ RejectIncoming
    BY <1>9, <2>1, ApproveTyping, RejectionTyping, TypesTogether
    DEF AccessRequestReceived, EventLoop, TypeOK
  <2>2. CASE ~(Approve \/ RejectIncoming)
    <3>1. approval' \in Approval
      BY <1>9, <2>2 DEF AccessRequestReceived, TypeOK, Approval
    <3>. QED
      BY <1>9, <2>2, <3>1
      DEF AccessRequestReceived, EventLoop, TypeOK, stopVars, peerVars, mediaVars
  <2>. QED
    BY <2>1, <2>2
<1>10. CASE IncomingDecided \/ OutgoingDecided
  BY <1>10, ApproveTyping, RejectionTyping, TypesTogether
  DEF IncomingDecided, OutgoingDecided, EventLoop, TypeOK
<1>11. CASE InvalidSignalingMessage
  <2>1. SessionTypeOK' /\ link' \in {"Off", "Server", "Dialing", "Peer"}
    BY <1>2, <1>11, RejectionTyping DEF InvalidSignalingMessage, TypeOK
  <2>. QED
    BY <1>11, <2>1, TypesTogether DEF InvalidSignalingMessage, EventLoop, TypeOK
<1>. QED
  BY <1>3, <1>4, <1>5, <1>6, <1>7, <1>8, <1>9, <1>10, <1>11 DEF Signaling

LEMMA RemotePeerTyping == ASSUME TypeOK, RemotePeer PROVE TypeOK'
<1>0. SessionTypeOK /\ cap \in Capture /\ sm \in Machine /\ transport \in Transport
  BY TypeParts DEF SessionTypeOK
<1>1. ASSUME FinishRemotely PROVE SessionTypeOK'
  BY <1>0, <1>1, FinishTyping, KeepListeningTyping DEF FinishRemotely, FinishSession
<1>2. CASE ConnectionRestored \/ ConnectionInterrupted
  <2>1. transport' \in Transport
    BY <1>0, <1>2 DEF ConnectionRestored, ConnectionInterrupted, Transport
  <2>2. sm' \in Machine
    BY <1>0, <1>2, MachineTyping DEF ConnectionRestored, ConnectionInterrupted
  <2>. QED
    BY <1>2, <2>1, <2>2
    DEF ConnectionRestored, ConnectionInterrupted, EventLoop, TypeOK, stopVars,
        flowVars, mediaVars
<1>3. CASE \/ ConnectionTerminated \/ InputChannelClosed \/ CapabilityRejected
           \/ SessionDataBeforeCapabilities \/ EndSessionReceived
  BY <1>3, FinishOnTyping, KeepListeningTyping
  DEF ConnectionTerminated, InputChannelClosed, CapabilityRejected,
      SessionDataBeforeCapabilities, EndSessionReceived
<1>4. CASE SessionChannelOpened
  BY <1>4
  DEF SessionChannelOpened, EventLoop, TypeOK, stopVars, peerVars, mediaVars
<1>5. CASE SessionChannelClosed
  <2>1. SessionTypeOK'
    BY <1>1, <1>5, ContinueTyping DEF SessionChannelClosed
  <2>. QED
    BY <1>5, <2>1, TypesTogether DEF SessionChannelClosed, EventLoop, TypeOK
<1>6. CASE CapabilitiesReceived
  <2>1. CASE FinishRemotely
    BY <1>1, <1>6, <2>1, TypesTogether DEF CapabilitiesReceived, EventLoop, TypeOK
  <2>2. CASE ~FinishRemotely
    <3>1. "Connected" \in States
      BY DEF States, ActiveStates
    <3>. QED
      BY <1>0, <1>6, <2>2, <3>1, MoveTyping
      DEF CapabilitiesReceived, EventLoop, TypeOK, stopVars, peerVars, mediaVars
  <2>. QED
    BY <2>1, <2>2
<1>7. CASE StartStreaming \/ StopStreamingReceived
  <2>1. "Connected" \in States /\ "Streaming" \in States /\ sm.gen \in Nat
    BY <1>0, MachineFields DEF States, ActiveStates
  <2>2. cap' \in Capture
    BY <1>0, <1>7, <2>1, CaptureTyping DEF StartStreaming, StopStreamingReceived
  <2>3. sm' \in Machine
    BY <1>0, <1>7, <2>1, MoveTyping DEF StartStreaming, StopStreamingReceived
  <2>. QED
    BY <1>7, <2>2, <2>3
    DEF StartStreaming, StopStreamingReceived, EventLoop, TypeOK, stopVars,
        peerVars, flowVars
<1>. QED
  BY <1>2, <1>3, <1>4, <1>5, <1>6, <1>7 DEF RemotePeer

LEMMA TimersTyping == ASSUME TypeOK, Timers PROVE TypeOK'
<1>1. "ShutdownTimedOut" \in States
  BY DEF States
<1>2. CASE ApprovalTimeout
  BY <1>2, SignalingTyping, RejectionTyping, TypesTogether
  DEF ApprovalTimeout, EventLoop, TypeOK
<1>3. CASE CapabilityTimeout \/ ReconnectTimeout \/ SessionCommandTimeout
  BY <1>3, FinishOnTyping, KeepListeningTyping
  DEF CapabilityTimeout, ReconnectTimeout, SessionCommandTimeout
<1>4. CASE EndSessionAnswered
  BY <1>4, ContinueTyping, TypesTogether DEF EndSessionAnswered, EventLoop, TypeOK
<1>5. CASE StopWatchdog
  <2>1. sm' \in Machine /\ shutdown' \in Shutdown
    BY <1>1, <1>5, MoveTyping DEF StopWatchdog, TypeOK, Shutdown
  <2>2. approval' \in Approval /\ link' \in {"Off", "Server", "Dialing", "Peer"}
    BY <1>5, WithoutPeerTyping DEF StopWatchdog, TypeOK, Approval, NoApproval
  <2>. QED
    BY <1>5, <2>1, <2>2
    DEF StopWatchdog, ClearPendingRequest, EventLoop, TypeOK, peerVars, mediaVars
<1>6. CASE RollbackTimeout
  <2>1. sm' \in Machine /\ peer' \in Peer
    BY <1>1, <1>6, MoveTyping DEF RollbackTimeout, TypeOK, Peer
  <2>. QED
    BY <1>6, <2>1
    DEF RollbackTimeout, ClearPendingRequest, EventLoop, TypeOK, stopVars, flowVars,
        mediaVars
<1>. QED
  BY <1>2, <1>3, <1>4, <1>5, <1>6 DEF Timers

LEMMA ResourcesTyping == ASSUME TypeOK, Resources PROVE TypeOK'
<1>0. SessionTypeOK /\ cap \in Capture /\ shutdown \in Shutdown /\ cap.stopGen \in Nat
      /\ NoShutdown \in Shutdown
  BY TypeParts DEF SessionTypeOK, Capture, Shutdown, NoShutdown
<1>1. CASE TransportShutdownFinished
  <2>1. transport' \in Transport /\ peer' \in Peer
    BY <1>1 DEF TransportShutdownFinished, TypeOK, Transport, Peer
  <2>2. calls' \in Seq(Call)
    <3> DEFINE finished == [op |-> "PeerFinished", gen |-> transport.gen, late |-> FALSE]
               rolled == [op |-> "HandleRollback", gen |-> transport.gen, late |-> peer.late]
    <3>1. finished \in Call /\ rolled \in Call
      BY DEF TypeOK, Transport, Peer, Call
    <3>2. \/ calls' = calls
          \/ calls' = <<finished>>
          \/ calls' = <<rolled, finished>>
      BY <1>1, Zenon DEF TransportShutdownFinished
    <3>3. calls \in Seq(Call)
      BY DEF TypeOK
    <3> HIDE DEF finished, rolled
    <3>. QED
      BY <3>1, <3>2, <3>3, CallPairTyping
  <2>. QED
    BY <1>1, <2>1, <2>2
    DEF TransportShutdownFinished, TypeOK, stopVars, flowVars, mediaVars
<1>2. CASE CaptureShutdownFinished
  <2>1. cap' \in Capture
    BY <1>0, <1>2, CaptureTyping DEF CaptureShutdownFinished
  <2>2. shutdown' \in Shutdown
    BY <1>0, <1>2 DEF CaptureShutdownFinished, Shutdown
  <2>3. calls' \in Seq(Call)
    <3>1. FinishCall(cap.stopGen) \in Call
      BY <1>0, FinishCallTyping
    <3>2. calls' = calls \/ calls' = <<FinishCall(cap.stopGen)>>
      BY <1>2, Zenon DEF CaptureShutdownFinished
    <3>. QED
      BY <3>1, <3>2, CallPairTyping DEF TypeOK
  <2>. QED
    BY <1>2, <2>1, <2>2, <2>3
    DEF CaptureShutdownFinished, TypeOK, peerVars, flowVars
<1>3. CASE CaptureFailure
  <2>1. [cap EXCEPT !.failed = FALSE] \in Capture
    BY <1>0, CaptureTyping
  <2>2. SessionTypeOK'
    BY <1>0, <1>3, <2>1, FinishTyping
    DEF CaptureFailure, SessionTypeOK, stopVars, peerVars, flowVars
  <2>. QED
    BY <1>3, <2>2, TypesTogether DEF CaptureFailure, EventLoop, TypeOK
<1>4. CASE WorkerStarts \/ WorkerFinishes \/ WorkerFails
  BY <1>0, <1>4, CaptureTyping
  DEF WorkerStarts, WorkerFinishes, WorkerFails, WorkerStep, TypeOK, stopVars,
      peerVars, flowVars
<1>. QED
  BY <1>1, <1>2, <1>3, <1>4 DEF Resources

LEMMA CallsGroupTyping == ASSUME TypeOK, Calls PROVE TypeOK'
<1>0. /\ SessionTypeOK /\ cap \in Capture /\ sm \in Machine /\ stop.keep \in BOOLEAN
      /\ shutdown \in Shutdown /\ NoShutdown \in Shutdown /\ NoApproval \in Approval
      /\ WithoutPeer(link) \in {"Off", "Server", "Dialing", "Peer"}
  BY TypeParts, WithoutPeerTyping
  DEF SessionTypeOK, TypeOK, Shutdown, NoShutdown, Approval, NoApproval
<1>1. CASE DialFailed
  <2>1. SessionTypeOK'
    BY <1>0, <1>1, FinishTyping DEF DialFailed, FinishSession
  <2>2. calls' \in Seq(Call)
    BY <1>1, CallsTyping, CallToTyping DEF DialFailed, TypeOK
  <2>. QED
    BY <1>1, <2>1, <2>2, TypesTogether DEF DialFailed, TypeOK
<1>2. CASE HandleRollback
  <2>1. calls' \in Seq(Call)
    BY <1>2, CallsTyping, CallToTyping DEF HandleRollback, TypeOK
  <2>2. sm' \in Machine
    BY <1>0, <1>2, MachineTyping DEF HandleRollback
  <2>. QED
    BY <1>2, <2>1, <2>2
    DEF HandleRollback, TypeOK, stopVars, peerVars, flowVars, mediaVars
<1>3. CASE ExecutePendingRequest
  <2>1. CASE Called("ExecutePending", <<>>)
    <3>1. calls' \in Seq(Call)
      BY <2>1, CallsTyping, CallToTyping DEF TypeOK
    <3>. QED
      BY <1>3, <3>1, UnchangedTyping, TypesTogether DEF ExecutePendingRequest, TypeOK
  <2>2. CASE Called("ExecutePending", PendingCalls)
    <3>1. PendingCalls \in Seq(Call)
      BY CallToTyping DEF PendingCalls, TypeOK
    <3>2. calls' \in Seq(Call)
      BY <2>2, <3>1, CallsTyping DEF TypeOK
    <3>. QED
      BY <1>3, <3>2, UnchangedTyping, TypesTogether DEF ExecutePendingRequest, TypeOK
  <2>. QED
    BY <1>3, <2>1, <2>2 DEF ExecutePendingRequest
<1>4. CASE PeerShutdownFinished
  <2>0. Head(calls) \in Call
    BY <1>4, HeadTailProperties DEF PeerShutdownFinished, TypeOK
  <2>1. peer' \in Peer
    BY <1>4 DEF PeerShutdownFinished, TypeOK, Peer
  <2>2. shutdown' \in Shutdown
    BY <1>0, <1>4 DEF PeerShutdownFinished, TypeOK, Shutdown
  <2>3. PICK g : /\ g = IF peer.completion # 0 THEN peer.completion
                        ELSE Head(calls).gen
                 /\ \/ Called("PeerFinished", <<>>)
                    \/ Called("PeerFinished", <<FinishCall(g)>>)
    BY <1>4, Zenon DEF PeerShutdownFinished
  <2>4. g \in Nat
    BY <2>0, <2>3 DEF TypeOK, Peer, Call
  <2>5. <<FinishCall(g)>> \in Seq(Call)
    BY <1>0, <2>4, FinishCallTyping
  <2>6. calls' \in Seq(Call)
    BY <2>3, <2>5, CallsTyping, CallToTyping DEF TypeOK
  <2>. QED
    BY <1>4, <2>1, <2>2, <2>6
    DEF PeerShutdownFinished, TypeOK, flowVars, mediaVars
<1>5. CASE FinishStopping
  <2>1. calls' \in Seq(Call)
    BY <1>5, CallsTyping, CallToTyping DEF FinishStopping, TypeOK, Requests
  <2>2. sm' \in Machine
    BY <1>0, <1>5, MachineTyping DEF FinishStopping
  <2>3. peer' \in Peer /\ transport' \in Transport
    BY <1>5, InitializeTyping DEF FinishStopping, peerVars, TypeOK
  <2>4. /\ approval' \in Approval /\ available' \in BOOLEAN
        /\ link' \in {"Off", "Server", "Dialing", "Peer"}
    BY <1>0, <1>5 DEF FinishStopping, TypeOK
  <2>. QED
    BY <1>5, <2>1, <2>2, <2>3, <2>4 DEF FinishStopping, TypeOK, mediaVars
<1>. QED
  BY <1>1, <1>2, <1>3, <1>4, <1>5 DEF Calls

(* Every variable keeps its type, whatever the bounds and the environment.  *)
THEOREM TypeCorrect == Spec => []TypeOK
<1>1. ASSUME Init PROVE TypeOK
  <2>1. sm \in Machine
    BY <1>1 DEF Init, NewMachine, Machine, States, RestingStates, Roles
  <2>2. shutdown \in Shutdown /\ peer \in Peer /\ transport \in Transport
    BY <1>1 DEF Init, NoShutdown, Shutdown, Peer, Transport
  <2>3. cap \in Capture /\ approval \in Approval
    BY <1>1 DEF Init, NoCapture, Capture, NoApproval, Approval
  <2>4. /\ stop \in [gen : Nat, keep : BOOLEAN, started : BOOLEAN, early : BOOLEAN]
        /\ calls \in Seq(Call)
    BY <1>1, CallToTyping DEF Init
  <2>. QED
    BY <1>1, <2>1, <2>2, <2>3, <2>4 DEF Init, TypeOK
<1>2. TypeOK /\ [Next]_vars => TypeOK'
  <2>1. ASSUME TypeOK, UNCHANGED vars PROVE TypeOK'
    BY <2>1
    DEF TypeOK, vars, sessionVars, stopVars, peerVars, flowVars, mediaVars
  <2>. QED
    BY <2>1, UserTyping, SignalingTyping, RemotePeerTyping, TimersTyping,
       ResourcesTyping, CallsGroupTyping
    DEF Next
<1>. QED
  BY <1>1, <1>2, PTL DEF Spec

------------------------------------------------------------------------------
(* The inductive invariants.                                                *)

Due(op) == calls # <<>> /\ Head(calls).op = op

(* The end of the transport's shutdown is known and not delivered yet.      *)
PeerReported == calls # <<>> /\ calls[Len(calls)].op = "PeerFinished"

(* At most two calls are due; a second one is the report of the transport,  *)
(* left while a rollback's completion runs what waited for it.              *)
CallsShape ==
    \/ calls = <<>>
    \/ \E a \in Call : calls = <<a>>
    \/ \E a, b \in Call :
          /\ calls = <<a, b>>
          /\ a.op \notin {"PeerFinished", "FinishStopping"}
          /\ b.op = "PeerFinished"
          /\ a.op \in {"HandleRollback", "DialFailed"}
             \/ (sm.state = "Idle" /\ ~peer.rollback)

(* A state with a session has a generation, and a stop has the session's.   *)
GenerationsInOrder ==
    /\ sm.state \notin {"Idle", "ShutdownTimedOut"} => sm.gen # 0
    /\ sm.state = "Stopping" => stop.gen = sm.gen
    /\ shutdown.active => stop.gen # 0
    /\ stop.started => sm.gen # 0

(* A teardown that has begun belongs to a stop, and is either awaited or    *)
(* about to be finished, never both.                                        *)
StopInOrder ==
    /\ shutdown.active => stop.started
    /\ stop.started => CanCompleteShutdown(sm)
    /\ stop.started => shutdown.active \/ Due("FinishStopping")
    /\ Due("FinishStopping") => /\ stop.started
                                /\ ~shutdown.active
                                /\ ~peer.rollback
                                /\ Head(calls).gen = stop.gen

(* A rollback and a teardown exclude each other; the watchdog of the        *)
(* rollback is what timed the endpoint out.                                 *)
RollbackInOrder ==
    /\ peer.rollback => /\ ~stop.started
                        /\ peer.late <=> sm.state = "ShutdownTimedOut"
    /\ Due("HandleRollback") =>
          /\ ~stop.started
          /\ ~peer.rollback
          /\ sm.state = IF Head(calls).late THEN "ShutdownTimedOut" ELSE "Idle"

(* CompletionIsComing, also in the middle of a callback.                    *)
ResourcesAwaited ==
    shutdown.active =>
        /\ shutdown.gen = stop.gen
        /\ shutdown.peer \/ shutdown.capture
        /\ shutdown.peer =>
              /\ peer.completion = stop.gen
              /\ \/ transport.phase = "ShuttingDown" /\ transport.gen = peer.gen
                 \/ PeerReported
        /\ shutdown.capture => cap.thread # "None" /\ cap.stopGen = stop.gen

(* PendingIsServed, also in the middle of a callback.                       *)
PendingInOrder ==
    pending # NoRequest =>
        /\ sm.state # "ShutdownTimedOut"
        /\ \/ sm.state = "Stopping"
           \/ peer.rollback
           \/ Due("HandleRollback")
           \/ Due("ExecutePending")

(* Which side of a connection the endpoint is on.                           *)
SidesInOrder ==
    /\ SetupHasApproval
    /\ sm.state = "Listening" => sm.role = "Controlled"
    /\ sm.state = "Connecting" => sm.role = "Controller"

(* Where the transport is known to be gone.  A stop is early only if it     *)
(* began with the report of another transport still to be delivered, and    *)
(* nothing is kept after it.                                                *)
Released ==
    /\ Due("HandleRollback") => transport.phase = "Idle"
    /\ stop.early => stop.started /\ ~stop.keep
    /\ ~stop.early =>
          /\ Due("FinishStopping") => transport.phase = "Idle"
          /\ shutdown.active /\ ~shutdown.peer => transport.phase = "Idle"
          /\ shutdown.active /\ PeerReported => transport.phase = "Idle"

IInv ==
    /\ PeerMatchesState
    /\ AnswerIsComing
    /\ RollbackIsExclusive
    /\ CallsShape
    /\ GenerationsInOrder
    /\ StopInOrder
    /\ RollbackInOrder
    /\ ResourcesAwaited
    /\ PendingInOrder
    /\ Released

------------------------------------------------------------------------------
(* The calls of the session thread.                                         *)

LEMMA NothingDue ==
    ASSUME calls = <<>>
    PROVE  ~PeerReported /\ \A op : ~Due(op)
BY DEF PeerReported, Due

LEMMA NothingDueNext ==
    ASSUME calls' = <<>>
    PROVE  ~PeerReported' /\ \A op : ~Due(op)'
BY DEF PeerReported, Due

LEMMA OneDue ==
    ASSUME NEW a \in Call, calls = <<a>>
    PROVE  /\ Head(calls) = a
           /\ \A op : Due(op) <=> a.op = op
           /\ PeerReported <=> a.op = "PeerFinished"
BY DEF PeerReported, Due

LEMMA OneDueNext ==
    ASSUME NEW a \in Call, calls' = <<a>>
    PROVE  /\ Head(calls)' = a
           /\ \A op : Due(op)' <=> a.op = op
           /\ PeerReported' <=> a.op = "PeerFinished"
BY DEF PeerReported, Due

LEMMA TwoDue ==
    ASSUME NEW a \in Call, NEW b \in Call, calls = <<a, b>>
    PROVE  /\ Head(calls) = a
           /\ \A op : Due(op) <=> a.op = op
           /\ PeerReported <=> b.op = "PeerFinished"
BY DEF PeerReported, Due

LEMMA TwoDueNext ==
    ASSUME NEW a \in Call, NEW b \in Call, calls' = <<a, b>>
    PROVE  /\ Head(calls)' = a
           /\ \A op : Due(op)' <=> a.op = op
           /\ PeerReported' <=> b.op = "PeerFinished"
BY DEF PeerReported, Due

LEMMA CalledLast ==
    ASSUME CallsShape, NEW op, Called(op, <<>>)
    PROVE  \/ \E a \in Call : /\ calls = <<a>>
                              /\ a.op = op
                              /\ calls' = <<>>
           \/ \E a, b \in Call : /\ calls = <<a, b>>
                                 /\ a.op = op
                                 /\ b.op = "PeerFinished"
                                 /\ calls' = <<b>>
<1>1. ASSUME NEW a \in Call, calls = <<a>> PROVE a.op = op /\ calls' = <<>>
  BY <1>1 DEF Called
<1>2. ASSUME NEW a \in Call, NEW b \in Call, calls = <<a, b>>
      PROVE  a.op = op /\ calls' = <<b>>
  BY <1>2 DEF Called
<1>. QED
  BY <1>1, <1>2 DEF CallsShape, Called

LEMMA CalledOn ==
    ASSUME CallsShape, NEW op, NEW x \in Call, Called(op, <<x>>)
    PROVE  \/ \E a \in Call : /\ calls = <<a>>
                              /\ a.op = op
                              /\ calls' = <<x>>
           \/ \E a, b \in Call : /\ calls = <<a, b>>
                                 /\ a.op = op
                                 /\ b.op = "PeerFinished"
                                 /\ calls' = <<x, b>>
<1>1. ASSUME NEW a \in Call, calls = <<a>> PROVE a.op = op /\ calls' = <<x>>
  BY <1>1 DEF Called
<1>2. ASSUME NEW a \in Call, NEW b \in Call, calls = <<a, b>>
      PROVE  a.op = op /\ calls' = <<x, b>>
  <2>1. Head(calls) = a /\ Tail(calls) = <<b>>
    BY <1>2
  <2>2. <<x>> \o <<b>> = <<x, b>>
    <3>1. <<x>> \in Seq(Call) /\ <<b>> \in Seq(Call) /\ Len(<<x>>) = 1 /\ Len(<<b>>) = 1
      OBVIOUS
    <3>2. /\ <<x>> \o <<b>> \in Seq(Call)
          /\ Len(<<x>> \o <<b>>) = 2
          /\ (<<x>> \o <<b>>)[1] = x
          /\ (<<x>> \o <<b>>)[2] = b
      BY <3>1, ConcatProperties
    <3>3. /\ <<x, b>> \in Seq(Call)
          /\ Len(<<x, b>>) = 2
          /\ <<x, b>>[1] = x
          /\ <<x, b>>[2] = b
      OBVIOUS
    <3>4. \A i \in 1 .. Len(<<x>> \o <<b>>) : (<<x>> \o <<b>>)[i] = <<x, b>>[i]
      <4>1. ASSUME NEW i \in 1 .. 2 PROVE i = 1 \/ i = 2
        OBVIOUS
      <4>. QED
        BY <3>2, <3>3, <4>1
    <3>. QED
      BY <3>2, <3>3, <3>4, SeqEqual
  <2>. QED
    BY <1>2, <2>1, <2>2 DEF Called
<1>. QED
  BY <1>1, <1>2 DEF CallsShape, Called

------------------------------------------------------------------------------
(* The kinds of steps.                                                      *)

InUse == ActiveStates \cup {"Listening"}

LEMMA InUseFacts ==
    ASSUME IInv, sm.state \in InUse
    PROVE  /\ ~CanCompleteShutdown(sm) /\ sm.state # "Idle"
           /\ ~stop.started /\ ~shutdown.active /\ ~peer.rollback
           /\ transport.phase = "Ready"
           /\ sm.gen # 0
           /\ calls = <<>> => pending = NoRequest
<1>1. ~CanCompleteShutdown(sm) /\ sm.state \notin {"Idle", "ShutdownTimedOut", "Stopping"}
  BY DEF InUse, CanCompleteShutdown, ActiveStates, NegotiatingStates, SetupStates
<1>2. ~stop.started /\ ~shutdown.active
  BY <1>1 DEF IInv, StopInOrder
<1>3. ~peer.rollback
  BY <1>1 DEF IInv, RollbackIsExclusive
<1>4. transport.phase = "Ready"
  BY DEF IInv, PeerMatchesState, PeerReady, HoldsPeer, HasActiveSession, InUse
<1>5. sm.gen # 0
  BY <1>1 DEF IInv, GenerationsInOrder
<1>6. calls = <<>> => pending = NoRequest
  BY <1>1, <1>3, NothingDue DEF IInv, PendingInOrder
<1>. QED
  BY <1>1, <1>2, <1>3, <1>4, <1>5, <1>6

(* A step within a session, which leaves the peer and the stop alone.       *)
LEMMA QuietStep ==
    ASSUME IInv, calls = <<>>, calls' = <<>>,
           sm.state \in InUse, sm'.state \in InUse, sm'.gen # 0,
           UNCHANGED <<stop, shutdown, peer, pending>>,
           transport'.phase = transport.phase
    PROVE  IInv'
<1>1. /\ ~stop'.started /\ ~shutdown'.active /\ ~peer'.rollback
      /\ transport'.phase = "Ready"
      /\ pending' = NoRequest
  BY InUseFacts
<1>2. /\ sm'.state \notin {"Idle", "ShutdownTimedOut", "Stopping"}
      /\ ~CanCompleteShutdown(sm)'
  BY DEF InUse, CanCompleteShutdown, ActiveStates, NegotiatingStates, SetupStates
<1>3. PeerMatchesState'
  BY <1>1 DEF PeerMatchesState, PeerReady, HoldsPeer, HasActiveSession, InUse
<1>4. CallsShape'
  BY DEF CallsShape
<1>. QED
  BY <1>1, <1>2, <1>3, <1>4, NothingDueNext
  DEF IInv, AnswerIsComing, RollbackIsExclusive, GenerationsInOrder, StopInOrder,
      RollbackInOrder, ResourcesAwaited, PendingInOrder, Released

(* A step that only hidden state notices.                                   *)
LEMMA HiddenStep ==
    ASSUME IInv,
           UNCHANGED <<sm, stop, shutdown, peer, pending, calls, endPending>>,
           transport'.phase = transport.phase, transport'.gen = transport.gen,
           channel => channel',
           shutdown.capture /\ shutdown.active =>
              (cap.thread # "None" => cap'.thread # "None") /\ cap'.stopGen = cap.stopGen
    PROVE  IInv'
<1>1. (\A op : Due(op)' <=> Due(op)) /\ (PeerReported' <=> PeerReported)
  BY DEF Due, PeerReported
<1>2. PeerMatchesState' /\ AnswerIsComing' /\ RollbackIsExclusive' /\ CallsShape'
  BY DEF IInv, PeerMatchesState, PeerReady, HoldsPeer, HasActiveSession,
         AnswerIsComing, RollbackIsExclusive, CallsShape
<1>3. GenerationsInOrder' /\ StopInOrder' /\ RollbackInOrder'
  BY <1>1
  DEF IInv, GenerationsInOrder, StopInOrder, RollbackInOrder, CanCompleteShutdown
<1>4. ResourcesAwaited' /\ PendingInOrder' /\ Released'
  BY <1>1 DEF IInv, ResourcesAwaited, PendingInOrder, Released
<1>. QED
  BY <1>2, <1>3, <1>4 DEF IInv

(* The teardown of a session begins.                                        *)
LEMMA TearDownStep ==
    ASSUME TypeOK, TypeOK', IInv, NEW c \in Capture,
           TearDown(sm.gen, c),
           sm.state \in InUse \/ (sm.state = "Stopping" /\ ~stop.started),
           sm'.state = "Stopping", sm'.gen = sm.gen,
           stop'.gen = sm.gen, stop'.started,
           \/ calls' = <<>> /\ ~stop'.early
           \/ /\ stop'.early /\ ~stop'.keep
              /\ \E b \in Call : calls' = <<b>> /\ b.op = "PeerFinished"
    PROVE  IInv'
<1>1. sm.gen # 0 /\ ~peer.rollback /\ transport.phase = "Ready"
  BY InUseFacts
  DEF IInv, GenerationsInOrder, RollbackIsExclusive, PeerMatchesState, HoldsPeer, PeerReady
<1>2. /\ transport'.phase = "ShuttingDown" /\ transport'.gen = peer'.gen
      /\ peer'.completion = sm.gen /\ ~peer'.rollback
  BY <1>1 DEF TearDown, RequestTransportShutdown, TypeOK, Peer
<1>3. /\ shutdown'.active /\ shutdown'.gen = sm.gen /\ shutdown'.peer
  BY DEF TearDown, AwaitResources
<1>4. shutdown'.capture => cap'.thread # "None" /\ cap'.stopGen = sm.gen
  BY DEF TearDown, AwaitResources, RequestStopCapture, StopIsImmediate, Capture
<1>5. /\ ~Due("FinishStopping")' /\ ~Due("HandleRollback")' /\ ~Due("DialFailed")'
      /\ CallsShape'
      /\ PeerReported' => stop'.early
  <2>1. CASE calls' = <<>>
    BY <2>1, NothingDueNext DEF CallsShape
  <2>2. CASE calls' # <<>>
    <3>1. PICK b \in Call : /\ calls' = <<b>>
                            /\ b.op = "PeerFinished"
                            /\ stop'.early
      BY <2>2
    <3>. QED
      BY <3>1, OneDueNext DEF CallsShape
  <2>. QED
    BY <2>1, <2>2
<1>6. PeerMatchesState' /\ AnswerIsComing' /\ RollbackIsExclusive'
  BY <1>2 DEF PeerMatchesState, PeerReady, HoldsPeer, HasActiveSession, AnswerIsComing,
              RollbackIsExclusive, ActiveStates, NegotiatingStates, SetupStates
<1>7. GenerationsInOrder' /\ StopInOrder' /\ RollbackInOrder'
  BY <1>1, <1>2, <1>3, <1>5
  DEF GenerationsInOrder, StopInOrder, RollbackInOrder, CanCompleteShutdown
<1>8. ResourcesAwaited' /\ PendingInOrder' /\ Released'
  BY <1>2, <1>3, <1>4, <1>5 DEF ResourcesAwaited, PendingInOrder, Released
<1>. QED
  BY <1>5, <1>6, <1>7, <1>8 DEF IInv

LEMMA StoppableIsInUse ==
    ASSUME TypeOK, CanBeginStopping(sm)
    PROVE  sm.state \in InUse
BY MachineFields DEF TypeOK, CanBeginStopping, InUse, States, RestingStates

(* A session is asked to stop, by an event or by a call.                    *)
LEMMA BeginStoppingStep ==
    ASSUME TypeOK, TypeOK', IInv, NEW keep, NEW notify, NEW c \in Capture,
           BeginStopping(keep, notify, c),
           \/ calls' = <<>>
           \/ /\ sm.state = "Connecting" /\ ~keep /\ ~notify
              /\ \E b \in Call : calls' = <<b>> /\ b.op = "PeerFinished"
    PROVE  IInv'
<1>1. sm.state \in InUse /\ sm'.state = "Stopping" /\ sm'.gen = sm.gen
  BY StoppableIsInUse, MachineFields DEF BeginStopping, MoveTo, TypeOK, Machine
<1>2. CASE stop' = StopOf(keep, TRUE) /\ TearDown(sm.gen, c)
  <2>1. /\ stop'.gen = sm.gen /\ stop'.started /\ stop'.keep = keep
        /\ stop'.early = (sm.state = "Connecting" /\ calls' # <<>>)
    BY <1>2 DEF StopOf
  <2>. QED
    BY <1>1, <1>2, <2>1, TearDownStep
<1>3. CASE CanNotify(notify) /\ AwaitAnswer(keep, c)
  <2>1. /\ stop'.gen = sm.gen /\ ~stop'.started /\ ~stop'.early
        /\ endPending' /\ channel'
        /\ UNCHANGED <<shutdown, peer, transport>>
    BY <1>3 DEF CanNotify, AwaitAnswer, StopOf, peerVars
  <2>2. /\ ~shutdown.active /\ ~peer.rollback /\ transport.phase = "Ready"
        /\ sm.gen # 0
    BY <1>1, InUseFacts
  <2>3. /\ ~Due("FinishStopping")' /\ ~Due("HandleRollback")' /\ ~Due("DialFailed")'
        /\ CallsShape'
    <3>1. CASE calls' = <<>>
      BY <3>1, NothingDueNext DEF CallsShape
    <3>2. CASE calls' # <<>>
      <4>1. PICK b \in Call : calls' = <<b>> /\ b.op = "PeerFinished"
        BY <3>2
      <4>. QED
        BY <4>1, OneDueNext DEF CallsShape
    <3>. QED
      BY <3>1, <3>2
  <2>4. PeerMatchesState' /\ AnswerIsComing' /\ RollbackIsExclusive'
    BY <1>1, <2>1, <2>2
    DEF PeerMatchesState, PeerReady, HoldsPeer, AnswerIsComing, RollbackIsExclusive
  <2>5. GenerationsInOrder' /\ StopInOrder' /\ RollbackInOrder'
    BY <1>1, <2>1, <2>2, <2>3
    DEF GenerationsInOrder, StopInOrder, RollbackInOrder, CanCompleteShutdown
  <2>6. ResourcesAwaited' /\ PendingInOrder' /\ Released'
    BY <1>1, <2>1, <2>2, <2>3 DEF ResourcesAwaited, PendingInOrder, Released
  <2>. QED
    BY <2>3, <2>4, <2>5, <2>6 DEF IInv
<1>. QED
  BY <1>2, <1>3 DEF BeginStopping

(* The events that at most end the session.                                 *)
LEMMA FinishStep ==
    ASSUME TypeOK, TypeOK', IInv, NEW keep, NEW notify, NEW c \in Capture,
           c.thread = cap.thread, c.stopGen = cap.stopGen,
           FinishSessionWith(keep, notify, c),
           calls = <<>>, UNCHANGED <<pending, calls>>
    PROVE  IInv'
<1>1. CASE BeginStopping(keep, notify, c)
  BY <1>1, BeginStoppingStep
<1>2. CASE ~BeginStopping(keep, notify, c)
  BY <1>2, HiddenStep DEF FinishSessionWith, stopVars, peerVars, flowVars
<1>. QED
  BY <1>1, <1>2

LEMMA FinishSessionStep ==
    ASSUME TypeOK, TypeOK', IInv, NEW keep, NEW notify,
           FinishSession(keep, notify),
           calls = <<>>, UNCHANGED <<pending, calls>>
    PROVE  IInv'
BY FinishStep DEF FinishSession, TypeOK

LEMMA FinishRemotelyStep ==
    ASSUME TypeOK, TypeOK', IInv, FinishRemotely,
           calls = <<>>, UNCHANGED <<pending, calls>>
    PROVE  IInv'
BY FinishSessionStep DEF FinishRemotely

LEMMA FinishOnStep ==
    ASSUME TypeOK, TypeOK', IInv, NEW condition, NEW keep, NEW notify,
           FinishOn(condition, keep, notify)
    PROVE  IInv'
BY FinishSessionStep DEF FinishOn, EventLoop

LEMMA MoveOnStep ==
    ASSUME TypeOK, IInv, NEW condition, NEW m,
           MoveOn(condition, m),
           sm.state \in InUse, m.state \in InUse, m.gen # 0
    PROVE  IInv'
BY QuietStep DEF MoveOn, EventLoop, stopVars, peerVars

LEMMA UnchangedStep ==
    ASSUME IInv, UNCHANGED sessionVars, UNCHANGED <<pending, calls>>
    PROVE  IInv'
BY HiddenStep DEF sessionVars, stopVars, peerVars, flowVars, mediaVars

(* A step of which only the calls, and with them the request put off,       *)
(* change.                                                                  *)
LEMMA CallStep ==
    ASSUME IInv,
           UNCHANGED <<sm, stop, shutdown, peer, transport, endPending, channel, cap>>,
           ~Due("FinishStopping"),
           ~Due("FinishStopping")', ~Due("HandleRollback")',
           PeerReported' <=> PeerReported,
           CallsShape', PendingInOrder'
    PROVE  IInv'
<1>1. PeerMatchesState' /\ AnswerIsComing' /\ RollbackIsExclusive'
  BY DEF IInv, PeerMatchesState, PeerReady, HoldsPeer, HasActiveSession,
         AnswerIsComing, RollbackIsExclusive
<1>2. GenerationsInOrder' /\ StopInOrder' /\ RollbackInOrder'
  BY DEF IInv, GenerationsInOrder, StopInOrder, RollbackInOrder, CanCompleteShutdown
<1>3. ResourcesAwaited' /\ Released'
  BY DEF IInv, ResourcesAwaited, Released
<1>. QED
  BY <1>1, <1>2, <1>3 DEF IInv

(* A step after which nothing is stopped: the endpoint is idle, or uses its *)
(* peer.                                                                    *)
LEMMA SettledStep ==
    ASSUME ~stop'.started, ~stop'.early, ~shutdown'.active,
           \/ /\ sm'.state = "Idle" /\ transport'.phase # "Ready"
              /\ peer'.rollback => /\ transport'.phase = "ShuttingDown"
                                   /\ transport'.gen = peer'.gen
                                   /\ ~peer'.late
           \/ /\ sm'.state \in InUse /\ transport'.phase = "Ready"
              /\ sm'.gen # 0 /\ ~peer'.rollback,
           ~Due("FinishStopping")', ~Due("HandleRollback")',
           CallsShape', PendingInOrder'
    PROVE  IInv'
<1>1. CASE sm'.state = "Idle"
  <2>1. PeerMatchesState' /\ AnswerIsComing' /\ RollbackIsExclusive'
    BY <1>1 DEF PeerMatchesState, PeerReady, HoldsPeer, HasActiveSession, AnswerIsComing,
                RollbackIsExclusive, InUse, ActiveStates, NegotiatingStates, SetupStates
  <2>2. GenerationsInOrder' /\ StopInOrder' /\ RollbackInOrder'
    BY <1>1 DEF GenerationsInOrder, StopInOrder, RollbackInOrder, InUse, ActiveStates,
                NegotiatingStates, SetupStates
  <2>. QED
    BY <2>1, <2>2 DEF IInv, ResourcesAwaited, Released
<1>2. CASE sm'.state # "Idle"
  <2>0. sm'.state \notin {"Idle", "ShutdownTimedOut", "Stopping"}
    BY <1>2 DEF InUse, ActiveStates, NegotiatingStates, SetupStates
  <2>1. PeerMatchesState' /\ AnswerIsComing' /\ RollbackIsExclusive'
    BY <1>2, <2>0 DEF PeerMatchesState, PeerReady, HoldsPeer, HasActiveSession,
                AnswerIsComing, RollbackIsExclusive, InUse
  <2>2. GenerationsInOrder' /\ StopInOrder' /\ RollbackInOrder'
    BY <1>2, <2>0 DEF GenerationsInOrder, StopInOrder, RollbackInOrder
  <2>. QED
    BY <2>1, <2>2 DEF IInv, ResourcesAwaited, Released
<1>. QED
  BY <1>1, <1>2

------------------------------------------------------------------------------
(* Requests.                                                                *)

LEMMA RequestNames ==
    \A op \in Requests : op \notin {"HandleRollback", "ExecutePending", "PeerFinished",
                                   "FinishStopping", "DialFailed"}
BY DEF Requests

(* A request that calls nothing further.                                    *)
LEMMA RequestedLast ==
    ASSUME IInv, NEW op \in Requests, Requested(op, <<>>)
    PROVE  /\ ~Due("FinishStopping") /\ ~Due("HandleRollback") /\ ~Due("ExecutePending")
           /\ ~Due("FinishStopping")' /\ ~Due("HandleRollback")'
           /\ ~Due("DialFailed")' /\ ~Due("ExecutePending")'
           /\ PeerReported' <=> PeerReported
           /\ \/ calls' = <<>>
              \/ /\ \E b \in Call : calls' = <<b>>
                 /\ sm.state = "Idle" /\ ~peer.rollback
<1>1. CASE calls = <<>>
  BY <1>1, NothingDue, NothingDueNext DEF Requested, Called
<1>2. CASE calls # <<>>
  <2>1. Called(op, <<>>)
    BY <1>2 DEF Requested
  <2>2. CASE \E a \in Call : calls = <<a>> /\ a.op = op /\ calls' = <<>>
    BY <2>2, OneDue, NothingDueNext, RequestNames
  <2>3. CASE \E a, b \in Call : /\ calls = <<a, b>>
                              /\ a.op = op
                              /\ b.op = "PeerFinished"
                              /\ calls' = <<b>>
    <3>1. PICK a \in Call, b \in Call : /\ calls = <<a, b>>
                                       /\ a.op = op
                                       /\ b.op = "PeerFinished"
                                       /\ calls' = <<b>>
      BY <2>3
    <3>2. sm.state = "Idle" /\ ~peer.rollback
      BY <3>1, RequestNames DEF IInv, CallsShape
    <3>. QED
      BY <3>1, <3>2, TwoDue, OneDueNext, RequestNames
  <2>. QED
    BY <2>1, <2>2, <2>3, CalledLast DEF IInv
<1>. QED
  BY <1>1, <1>2

LEMMA RefusedStep ==
    ASSUME IInv, NEW op \in Requests, Requested(op, <<>>), Refused
    PROVE  IInv'
<1>1. PendingInOrder'
  BY DEF Refused, sessionVars, IInv, PendingInOrder
<1>2. CallsShape'
  BY RequestedLast DEF CallsShape
<1>. QED
  BY <1>1, <1>2, RequestedLast, CallStep
  DEF Refused, sessionVars, stopVars, peerVars, flowVars, mediaVars

(* A request that finds nothing to do.                                      *)
LEMMA IgnoredStep ==
    ASSUME IInv, NEW op \in Requests, Requested(op, <<>>),
           UNCHANGED sessionVars, UNCHANGED pending
    PROVE  IInv'
<1>1. PendingInOrder'
  BY RequestedLast
  DEF sessionVars, stopVars, peerVars, IInv, PendingInOrder
<1>2. CallsShape'
  BY RequestedLast DEF CallsShape
<1>. QED
  BY <1>1, <1>2, RequestedLast, CallStep
  DEF sessionVars, stopVars, peerVars, flowVars, mediaVars

LEMMA PostponedStep ==
    ASSUME TypeOK, TypeOK', IInv, NEW op \in Requests, Requested(op, <<>>), Postponed(op)
    PROVE  IInv'
<1>1. /\ ~Due("FinishStopping") /\ ~Due("FinishStopping")' /\ ~Due("HandleRollback")'
      /\ ~Due("DialFailed")'
      /\ PeerReported' <=> PeerReported
      /\ CallsShape'
      /\ calls' = <<>>
  BY RequestedLast DEF CallsShape, Postponed
<1>2. CASE peer.rollback /\ UNCHANGED sessionVars
  <2>1. PendingInOrder'
    BY <1>2 DEF Postponed, PendingInOrder, sessionVars, peerVars
  <2>. QED
    BY <1>1, <1>2, <2>1, CallStep
    DEF sessionVars, stopVars, peerVars, flowVars, mediaVars
<1>3. CASE ~peer.rollback /\ sm.state # "Idle" /\ BeginStopping(FALSE, TRUE, cap)
  BY <1>1, <1>3, BeginStoppingStep DEF TypeOK
<1>4. CASE ~CanBeginStopping(sm) /\ ~peer.rollback /\ sm.state # "Idle"
  <2>1. sm.state = "Stopping"
    BY <1>4 DEF CanBeginStopping, Postponed
  <2>2. UNCHANGED <<sm, stop, shutdown, peer, transport, endPending, channel, cap>>
    BY <1>4 DEF Postponed, FinishSession, FinishSessionWith, BeginStopping, stopVars,
                peerVars, flowVars
  <2>3. PendingInOrder'
    BY <2>1, <2>2 DEF PendingInOrder
  <2>. QED
    BY <1>1, <2>2, <2>3, CallStep
<1>. QED
  BY <1>2, <1>3, <1>4
  DEF Postponed, FinishSession, FinishSessionWith, BeginStopping

(* A request that finds the endpoint free: what it starts from.             *)
LEMMA FreeFacts ==
    ASSUME IInv, Free
    PROVE  /\ ~stop.started /\ ~stop.early
           /\ ~shutdown.active /\ transport.phase # "Ready"
           /\ ~Due("HandleRollback") /\ ~Due("ExecutePending") => pending = NoRequest
<1>1. sm.state = "Idle" /\ ~peer.rollback
  BY DEF Free
<1>2. ~stop.started /\ ~stop.early /\ ~shutdown.active
  BY <1>1 DEF IInv, StopInOrder, Released, CanCompleteShutdown
<1>3. transport.phase # "Ready"
  BY <1>1 DEF IInv, PeerMatchesState, PeerReady, HoldsPeer, HasActiveSession,
              ActiveStates, NegotiatingStates, SetupStates
<1>. QED
  BY <1>1, <1>2, <1>3 DEF IInv, PendingInOrder

(* What a new peer looks like.                                              *)
LEMMA InitializeFacts ==
    ASSUME TypeOK, ~peer.rollback, transport.phase # "Ready",
           NEW outcome \in InitializationOutcomes, InitializePeer(outcome)
    PROVE  /\ outcome = "Ready" => transport'.phase = "Ready" /\ ~peer'.rollback
           /\ outcome # "Ready" => transport'.phase # "Ready"
           /\ peer'.rollback => /\ transport'.phase = "ShuttingDown"
                                /\ transport'.gen = peer'.gen
                                /\ ~peer'.late
           /\ outcome = "Ready" => transport.phase = "Idle"
           /\ outcome = "Failed" => transport.phase = "Idle"
<1>1. peer' = NextPeer(outcome = "Failed")
  BY DEF InitializePeer
<1>2. /\ peer'.gen = peer.gen + 1 /\ ~peer'.late
      /\ peer'.rollback <=> outcome = "Failed"
  BY <1>1 DEF NextPeer
<1>3. outcome \in {"Ready", "Failed", "Rejected"}
  BY DEF InitializationOutcomes
<1>4. CASE outcome = "Ready"
  BY <1>2, <1>4 DEF InitializePeer, InitializationOutcomes
<1>5. CASE outcome = "Failed"
  BY <1>2, <1>5 DEF InitializePeer, InitializationOutcomes
<1>6. CASE outcome = "Rejected"
  <2>1. transport' = transport
    BY <1>6 DEF InitializePeer
  <2>. QED
    BY <1>2, <1>6, <2>1
<1>. QED
  BY <1>3, <1>4, <1>5, <1>6

LEMMA NewSessionFacts ==
    ASSUME NEW m \in Machine
    PROVE  /\ BeginListening(m).state \in InUse /\ BeginListening(m).gen # 0
           /\ BeginConnecting(m).state \in InUse /\ BeginConnecting(m).gen # 0
BY MachineFields
DEF BeginListening, BeginConnecting, InUse, ActiveStates, NegotiatingStates

LEMMA ChooseRoleStep ==
    ASSUME TypeOK, TypeOK', IInv, NEW r \in Roles, ChooseRole(r)
    PROVE  IInv'
<1>1. r \in Requests /\ Requested(r, <<>>)
  BY DEF ChooseRole, Roles, Requests
<1>2. CASE Refused
  BY <1>1, <1>2, RefusedStep
<1>3. CASE Postponed(r)
  BY <1>1, <1>3, PostponedStep
<1>4. CASE UNCHANGED sessionVars /\ UNCHANGED pending
  BY <1>1, <1>4, IgnoredStep
<1>5. CASE /\ Free /\ sm' = SetRole(sm, r)
           /\ UNCHANGED <<available, stopVars, peerVars, flowVars, mediaVars, pending>>
  <2>1. sm'.state = "Idle"
    BY <1>5 DEF Free, SetRole, TypeOK, Machine
  <2>2. PendingInOrder'
    BY <1>1, <1>5, FreeFacts, RequestedLast DEF PendingInOrder
  <2>3. CallsShape'
    BY <1>1, <1>5, <2>1, RequestedLast DEF CallsShape, peerVars
  <2>. QED
    BY <1>1, <1>5, <2>1, <2>2, <2>3, FreeFacts, RequestedLast, SettledStep
    DEF Free, stopVars, peerVars
<1>. QED
  BY <1>2, <1>3, <1>4, <1>5 DEF ChooseRole

LEMMA StartSignalingServerStep ==
    ASSUME TypeOK, TypeOK', IInv, StartSignalingServer
    PROVE  IInv'
<1>1. "Listen" \in Requests /\ Requested("Listen", <<>>)
  BY DEF StartSignalingServer, Requests
<1>2. CASE Refused
  BY <1>1, <1>2, RefusedStep
<1>3. CASE Postponed("Listen")
  BY <1>1, <1>3, PostponedStep
<1>4. CASE UNCHANGED sessionVars /\ UNCHANGED pending
  BY <1>1, <1>4, IgnoredStep
<1>5. ASSUME Free, NEW outcome \in InitializationOutcomes, StartListening(outcome),
             UNCHANGED <<stopVars, flowVars, mediaVars, pending>>
      PROVE  IInv'
  <2>1. /\ ~stop.started /\ ~stop.early
        /\ ~shutdown.active /\ transport.phase # "Ready"
        /\ pending = NoRequest /\ sm.state = "Idle" /\ ~peer.rollback
    BY <1>1, <1>5, FreeFacts, RequestedLast DEF Free
  <2>2. \/ /\ sm'.state = "Idle" /\ transport'.phase # "Ready"
           /\ peer'.rollback => /\ transport'.phase = "ShuttingDown"
                                /\ transport'.gen = peer'.gen
                                /\ ~peer'.late
        \/ /\ sm'.state \in InUse /\ transport'.phase = "Ready"
           /\ sm'.gen # 0 /\ ~peer'.rollback
    <3>1. CASE InitializePeer(outcome) /\ outcome # "Ready" /\ UNCHANGED sm
      BY <1>5, <2>1, <3>1, InitializeFacts
    <3>2. CASE InitializePeer(outcome) /\ outcome = "Ready" /\ sm' = BeginListening(sm)
      BY <1>5, <2>1, <3>2, InitializeFacts, NewSessionFacts DEF TypeOK
    <3>3. CASE /\ peer' = NextPeer(FALSE)
               /\ transport' = [phase |-> "ShuttingDown", gen |-> peer.gen + 1,
                                ice |-> "New"]
               /\ UNCHANGED sm
      BY <2>1, <3>3 DEF NextPeer
    <3>. QED
      BY <1>5, <3>1, <3>2, <3>3 DEF StartListening
  <2>3. PendingInOrder'
    BY <1>5, <2>1 DEF PendingInOrder
  <2>4. /\ ~Due("FinishStopping")' /\ ~Due("HandleRollback")' /\ ~Due("DialFailed")'
        /\ CallsShape'
    BY <1>1, RequestedLast DEF CallsShape
  <2>. QED
    BY <1>5, <2>1, <2>2, <2>3, <2>4, SettledStep DEF stopVars
<1>. QED
  BY <1>2, <1>3, <1>4, <1>5 DEF StartSignalingServer

(* The dial that fails inside connectToHost leaves its report to be made.   *)
LEMMA RequestedOn ==
    ASSUME IInv, NEW op \in Requests, Requested(op, <<CallTo("DialFailed")>>)
    PROVE  /\ ~Due("FinishStopping") /\ ~Due("HandleRollback") /\ ~Due("ExecutePending")
           /\ ~Due("FinishStopping")' /\ ~Due("HandleRollback")'
           /\ CallsShape'
<1>0. CallTo("DialFailed") \in Call /\ CallTo("DialFailed").op = "DialFailed"
  BY DEF CallTo, Call
<1>1. CASE calls = <<>> /\ calls' = <<CallTo("DialFailed")>>
  BY <1>0, <1>1, NothingDue, OneDueNext DEF CallsShape
<1>2. CASE Called(op, <<CallTo("DialFailed")>>)
  <2>1. CASE \E a \in Call : /\ calls = <<a>>
                           /\ a.op = op
                           /\ calls' = <<CallTo("DialFailed")>>
    BY <1>0, <2>1, OneDue, OneDueNext, RequestNames DEF CallsShape
  <2>2. CASE \E a, b \in Call : /\ calls = <<a, b>>
                              /\ a.op = op
                              /\ b.op = "PeerFinished"
                              /\ calls' = <<CallTo("DialFailed"), b>>
    <3>1. PICK a \in Call, b \in Call : /\ calls = <<a, b>>
                                       /\ a.op = op
                                       /\ b.op = "PeerFinished"
                                       /\ calls' = <<CallTo("DialFailed"), b>>
      BY <2>2
    <3>2. CallsShape'
      BY <1>0, <3>1 DEF CallsShape
    <3>. QED
      BY <1>0, <3>1, <3>2, TwoDue, TwoDueNext, RequestNames
  <2>. QED
    BY <1>0, <1>2, <2>1, <2>2, CalledOn DEF IInv
<1>. QED
  BY <1>1, <1>2 DEF Requested

LEMMA ConnectSignalingStep ==
    ASSUME TypeOK, TypeOK', IInv, ConnectSignaling
    PROVE  IInv'
<1>1. "Connect" \in Requests
  BY DEF Requests
<1>2. CASE Requested("Connect", <<>>) /\ Refused
  BY <1>1, <1>2, RefusedStep
<1>3. CASE Requested("Connect", <<>>) /\ Postponed("Connect")
  BY <1>1, <1>3, PostponedStep
<1>4. ASSUME Free, NEW outcome \in InitializationOutcomes, InitializePeer(outcome),
             \/ /\ outcome # "Ready" /\ UNCHANGED sm
                /\ Requested("Connect", <<>>)
             \/ /\ outcome = "Ready" /\ sm' = BeginConnecting(sm)
                /\ \/ Requested("Connect", <<>>)
                   \/ IdentityMayFail /\ Requested("Connect", <<CallTo("DialFailed")>>),
             UNCHANGED <<stopVars, pending>>
      PROVE  IInv'
  <2>1. /\ ~Due("HandleRollback") /\ ~Due("ExecutePending")
        /\ ~Due("FinishStopping")' /\ ~Due("HandleRollback")'
    BY <1>1, <1>4, RequestedLast, RequestedOn
  <2>2. /\ ~stop.started /\ ~stop.early
        /\ ~shutdown.active /\ transport.phase # "Ready"
        /\ pending = NoRequest /\ sm.state = "Idle" /\ ~peer.rollback
    BY <1>4, <2>1, FreeFacts DEF Free
  <2>3. \/ /\ sm'.state = "Idle" /\ transport'.phase # "Ready"
           /\ peer'.rollback => /\ transport'.phase = "ShuttingDown"
                                /\ transport'.gen = peer'.gen
                                /\ ~peer'.late
        \/ /\ sm'.state \in InUse /\ transport'.phase = "Ready"
           /\ sm'.gen # 0 /\ ~peer'.rollback
    BY <1>4, <2>2, InitializeFacts, NewSessionFacts DEF TypeOK
  <2>4. PendingInOrder'
    BY <1>4, <2>2 DEF PendingInOrder
  <2>5. CallsShape'
    BY <1>1, <1>4, RequestedLast, RequestedOn DEF CallsShape
  <2>. QED
    BY <1>4, <2>1, <2>2, <2>3, <2>4, <2>5, SettledStep DEF stopVars
<1>. QED
  BY <1>2, <1>3, <1>4 DEF ConnectSignaling

LEMMA UserStep == ASSUME TypeOK, TypeOK', IInv, User PROVE IInv'
<1>1. CASE DisconnectSession
  <2>1. UNCHANGED calls /\ calls = <<>> /\ pending' = NoRequest
    BY <1>1 DEF DisconnectSession, EventLoop, ClearPendingRequest
  <2>2. CASE UNCHANGED sessionVars \/ (FinishSession(FALSE, TRUE) /\ ~CanBeginStopping(sm))
    <3>1. UNCHANGED <<sm, stop, shutdown, peer, transport, endPending, channel, cap>>
      BY <2>2 DEF FinishSession, FinishSessionWith, BeginStopping, sessionVars,
                  stopVars, peerVars, flowVars, mediaVars
    <3>2. PendingInOrder' /\ CallsShape'
      BY <2>1 DEF PendingInOrder, CallsShape
    <3>. QED
      BY <2>1, <3>1, <3>2, NothingDue, NothingDueNext, CallStep
  <2>3. CASE BeginStopping(FALSE, TRUE, cap)
    BY <2>1, <2>3, BeginStoppingStep DEF TypeOK
  <2>. QED
    BY <1>1, <2>2, <2>3
    DEF DisconnectSession, FinishSession, FinishSessionWith, BeginStopping
<1>2. CASE SetRemoteAccess
  BY <1>2, FinishSessionStep, UnchangedStep DEF SetRemoteAccess, EventLoop
<1>3. CASE StopStreaming
  BY <1>3, FinishOnStep DEF StopStreaming
<1>4. CASE EnterRemoteDesktop \/ LeaveRemoteDesktop
  <2>1. sm.state \in {"Connected", "Streaming"}
    BY <1>4 DEF EnterRemoteDesktop, LeaveRemoteDesktop, MoveOn, CanEnterRemoteDesktop,
                CanLeaveRemoteDesktop
  <2>2. sm.state \in InUse /\ sm.gen # 0
    BY <2>1, InUseFacts DEF InUse, ActiveStates
  <2>3. \A s \in {"Connected", "Streaming"} : SettleIn(sm, s).state \in InUse
                                           /\ SettleIn(sm, s).gen # 0
    BY <2>2 DEF SettleIn, InUse, ActiveStates, TypeOK, Machine
  <2>. QED
    BY <1>4, <2>2, <2>3, MoveOnStep DEF EnterRemoteDesktop, LeaveRemoteDesktop
<1>. QED
  BY <1>1, <1>2, <1>3, <1>4, ChooseRoleStep, StartSignalingServerStep,
     ConnectSignalingStep
  DEF User

------------------------------------------------------------------------------
(* Signaling.                                                               *)

LEMMA SetupInUse ==
    /\ SetupStates \subseteq InUse
    /\ {"Listening", "Connecting", "Negotiating", "AuthenticatingIdentity", "Pairing",
        "AwaitingApproval", "Connected", "Streaming", "Reconnecting"} \subseteq InUse
BY DEF SetupStates, InUse, ActiveStates, NegotiatingStates

(* Within a session, whatever the machine does next.                        *)
LEMMA SessionStep ==
    ASSUME TypeOK, IInv, calls = <<>>, calls' = <<>>,
           sm.state \in InUse, NEW s \in InUse,
           sm' = MoveTo(sm, s) \/ sm' = SettleIn(sm, s),
           UNCHANGED <<stop, shutdown, peer, pending>>,
           transport'.phase = transport.phase
    PROVE  IInv'
<1>1. sm'.state = s /\ sm'.gen = sm.gen
  BY DEF MoveTo, SettleIn, TypeOK, Machine
<1>. QED
  BY <1>1, InUseFacts, QuietStep

LEMMA ApproveStep ==
    ASSUME TypeOK, IInv, Approve, calls = <<>>, UNCHANGED <<pending, calls>>
    PROVE  IInv'
BY SetupInUse, SessionStep DEF Approve, stopVars, peerVars

LEMMA RejectionStep ==
    ASSUME TypeOK, TypeOK', IInv, SidesInOrder, RejectIncoming \/ RejectOutgoing,
           calls = <<>>, UNCHANGED <<pending, calls>>
    PROVE  IInv'
<1>1. CASE RejectIncoming
  <2>1. sm.role = "Controlled" /\ sm.state \in InUse
    BY <1>1, SetupInUse DEF RejectIncoming, SidesInOrder, SetupHasApproval
  <2>2. sm' = SettleIn(sm, "Listening")
    BY <1>1, <2>1 DEF RejectIncoming, RejectConnection
  <2>. QED
    BY <1>1, <2>1, <2>2, SetupInUse, SessionStep DEF RejectIncoming, stopVars, peerVars
<1>2. CASE RejectOutgoing
  BY <1>2, FinishSessionStep DEF RejectOutgoing
<1>. QED
  BY <1>1, <1>2

LEMMA SignalingStep == ASSUME TypeOK, TypeOK', IInv, SidesInOrder, Signaling PROVE IInv'
<1>1. CASE OutgoingConnectionEstablished
  <2>1. CASE sm.state = "Connecting" /\ sm' = BeginAuthenticatingIdentity(sm)
             /\ UNCHANGED <<stopVars, peerVars>>
    <3>1. sm' = MoveTo(sm, "AuthenticatingIdentity")
      BY <2>1 DEF BeginAuthenticatingIdentity, MoveTo, TypeOK, Machine
    <3>. QED
      BY <1>1, <2>1, <3>1, SetupInUse, SessionStep
      DEF OutgoingConnectionEstablished, EventLoop, stopVars, peerVars
  <2>. QED
    BY <1>1, <2>1, FinishSessionStep, UnchangedStep
    DEF OutgoingConnectionEstablished, EventLoop
<1>2. CASE OutgoingConnectionFailed
  BY <1>2, FinishSessionStep, UnchangedStep DEF OutgoingConnectionFailed, EventLoop
<1>3. CASE IncomingConnectionEstablished
  <2>1. CASE sm.state = "Listening"
    <3>1. sm.role = "Controlled" /\ sm.state \in InUse
      BY <2>1, SetupInUse DEF SidesInOrder
    <3>. DEFINE m == BeginAuthenticatingIdentity(sm)
    <3>3. /\ m \in Machine /\ m.state = "AuthenticatingIdentity"
          /\ m.role = "Controlled" /\ m.gen # 0
      <4>1. m = [sm EXCEPT !.state = "AuthenticatingIdentity", !.gen = sm.gen + 1]
        BY <2>1 DEF BeginAuthenticatingIdentity
      <4>2. sm \in Machine /\ sm.gen \in Nat
        BY MachineFields DEF TypeOK
      <4>. QED
        BY <3>1, <4>1, <4>2, MachineTyping DEF Machine
    <3>4. sm' = m \/ sm' = RejectConnection(m)
      BY <1>3, <2>1 DEF IncomingConnectionEstablished
    <3>5. RejectConnection(m).state = "Listening" /\ RejectConnection(m).gen = m.gen
      BY <3>3 DEF RejectConnection, SettleIn, Machine
    <3>6. sm'.state \in InUse /\ sm'.gen # 0
      BY <3>3, <3>4, <3>5, SetupInUse
    <3>. QED
      BY <1>3, <2>1, <3>1, <3>6, QuietStep
      DEF IncomingConnectionEstablished, EventLoop, stopVars, peerVars
  <2>2. CASE sm.state # "Listening"
    BY <1>3, <2>2, UnchangedStep DEF IncomingConnectionEstablished, EventLoop
  <2>. QED
    BY <2>1, <2>2
<1>4. CASE SignalingConnectionLost
  BY <1>4, FinishRemotelyStep, UnchangedStep DEF SignalingConnectionLost, EventLoop
<1>5. CASE PairingRequested \/ IdentityAuthenticated
  <2>1. sm.state \in InUse /\ calls = <<>> /\ calls' = <<>>
        /\ UNCHANGED <<stop, shutdown, peer, transport, pending>>
        /\ (sm' = MoveTo(sm, "Pairing") \/ sm' = MoveTo(sm, "AwaitingApproval"))
    BY <1>5, SetupInUse
    DEF PairingRequested, IdentityAuthenticated, MoveOn, EventLoop, stopVars, peerVars
  <2>. QED
    BY <2>1, SetupInUse, SessionStep
<1>6. CASE SecurityRejected
  BY <1>6, RejectionStep DEF SecurityRejected, EventLoop
<1>7. CASE AccessRequestReceived
  <2>1. CASE UNCHANGED <<sm, stopVars, peerVars, endPending, channel, mediaVars>>
    BY <1>7, <2>1, HiddenStep
    DEF AccessRequestReceived, EventLoop, stopVars, peerVars, mediaVars
  <2>. QED
    BY <1>7, <2>1, ApproveStep, RejectionStep DEF AccessRequestReceived, EventLoop
<1>8. CASE IncomingDecided \/ OutgoingDecided
  BY <1>8, ApproveStep, RejectionStep DEF IncomingDecided, OutgoingDecided, EventLoop
<1>9. CASE InvalidSignalingMessage
  BY <1>9, RejectionStep, FinishRemotelyStep DEF InvalidSignalingMessage, EventLoop
<1>. QED
  BY <1>1, <1>2, <1>3, <1>4, <1>5, <1>6, <1>7, <1>8, <1>9 DEF Signaling

------------------------------------------------------------------------------
(* The remote peer and the timers.                                          *)

LEMMA ContinueStep ==
    ASSUME TypeOK, TypeOK', IInv, ContinueStoppingTeardown,
           calls = <<>>, UNCHANGED <<pending, calls>>
    PROVE  IInv'
<1>1. stop.gen = sm.gen /\ sm' = sm
  BY DEF ContinueStoppingTeardown, IInv, GenerationsInOrder
<1>2. stop'.gen = sm.gen /\ stop'.started /\ ~stop'.early
  BY <1>1 DEF ContinueStoppingTeardown, TypeOK, IInv, Released
<1>. QED
  BY <1>1, <1>2, TearDownStep DEF ContinueStoppingTeardown, TypeOK

LEMMA RemotePeerStep == ASSUME TypeOK, TypeOK', IInv, RemotePeer PROVE IInv'
<1>1. CASE ConnectionRestored
  <2>1. transport'.phase = transport.phase /\ transport'.gen = transport.gen
    BY <1>1 DEF ConnectionRestored, TypeOK, Transport
  <2>2. CASE sm.state = "Reconnecting"
    BY <1>1, <2>1, <2>2, SetupInUse, SessionStep
    DEF ConnectionRestored, RestoreSession, EventLoop, stopVars
  <2>3. CASE sm.state # "Reconnecting"
    BY <1>1, <2>1, <2>3, HiddenStep
    DEF ConnectionRestored, EventLoop, stopVars, flowVars, mediaVars
  <2>. QED
    BY <2>2, <2>3
<1>2. CASE ConnectionInterrupted
  <2>1. transport'.phase = transport.phase /\ transport'.gen = transport.gen
    BY <1>2 DEF ConnectionInterrupted, TypeOK, Transport
  <2>2. CASE CanBeginReconnecting(sm)
    <3>1. sm.state \in InUse
      BY <2>2 DEF CanBeginReconnecting, HasActiveSession, InUse
    <3>2. sm'.state = "Reconnecting" /\ sm'.gen = sm.gen
      BY <1>2, <2>2 DEF ConnectionInterrupted, BeginReconnecting, TypeOK, Machine
    <3>. QED
      BY <1>2, <2>1, <3>1, <3>2, SetupInUse, InUseFacts, QuietStep
      DEF ConnectionInterrupted, EventLoop, stopVars
  <2>3. CASE ~CanBeginReconnecting(sm)
    BY <1>2, <2>1, <2>3, HiddenStep
    DEF ConnectionInterrupted, EventLoop, stopVars, flowVars, mediaVars
  <2>. QED
    BY <2>2, <2>3
<1>3. CASE \/ ConnectionTerminated \/ InputChannelClosed \/ CapabilityRejected
           \/ SessionDataBeforeCapabilities \/ EndSessionReceived
  BY <1>3, FinishOnStep
  DEF ConnectionTerminated, InputChannelClosed, CapabilityRejected,
      SessionDataBeforeCapabilities, EndSessionReceived
<1>4. CASE SessionChannelOpened
  BY <1>4, HiddenStep
  DEF SessionChannelOpened, EventLoop, stopVars, peerVars, mediaVars
<1>5. CASE SessionChannelClosed
  BY <1>5, ContinueStep, FinishRemotelyStep DEF SessionChannelClosed, EventLoop
<1>6. CASE CapabilitiesReceived
  BY <1>6, FinishRemotelyStep, SetupInUse, SessionStep
  DEF CapabilitiesReceived, EventLoop, stopVars, peerVars
<1>7. CASE StartStreaming
  BY <1>7, SetupInUse, SessionStep
  DEF StartStreaming, CanStartControlledStreaming, EventLoop, stopVars, peerVars
<1>8. CASE StopStreamingReceived
  BY <1>8, SetupInUse, SessionStep
  DEF StopStreamingReceived, EventLoop, stopVars, peerVars
<1>. QED
  BY <1>1, <1>2, <1>3, <1>4, <1>5, <1>6, <1>7, <1>8 DEF RemotePeer

LEMMA StopWatchdogStep == ASSUME TypeOK, TypeOK', IInv, StopWatchdog PROVE IInv'
<1>1. /\ shutdown.active /\ stop.started /\ sm.state = "Stopping"
      /\ sm'.state = "ShutdownTimedOut" /\ sm'.gen = sm.gen
      /\ ~peer.rollback
      /\ calls = <<>> /\ calls' = <<>> /\ pending' = NoRequest
      /\ UNCHANGED <<stop, peer, transport, cap>>
  BY DEF StopWatchdog, WatchdogDue, EventLoop, ClearPendingRequest, IInv, StopInOrder,
         RollbackIsExclusive, MoveTo, TypeOK, Machine, peerVars, mediaVars
<1>2. /\ shutdown'.active /\ shutdown'.gen = shutdown.gen
      /\ shutdown'.capture = shutdown.capture /\ shutdown'.peer = shutdown.peer
  BY <1>1 DEF StopWatchdog, TypeOK, Shutdown
<1>3. PeerMatchesState'
  BY <1>1 DEF IInv, PeerMatchesState, PeerReady, HoldsPeer, HasActiveSession, ActiveStates,
              NegotiatingStates, SetupStates
<1>4. AnswerIsComing' /\ RollbackIsExclusive' /\ CallsShape' /\ GenerationsInOrder'
  BY <1>1, <1>2
  DEF IInv, AnswerIsComing, RollbackIsExclusive, CallsShape, GenerationsInOrder
<1>5. StopInOrder' /\ RollbackInOrder' /\ PendingInOrder'
  BY <1>1, <1>2, NothingDueNext
  DEF StopInOrder, RollbackInOrder, PendingInOrder, CanCompleteShutdown
<1>6. ResourcesAwaited' /\ Released'
  BY <1>1, <1>2, NothingDue, NothingDueNext DEF IInv, ResourcesAwaited, Released
<1>. QED
  BY <1>3, <1>4, <1>5, <1>6 DEF IInv

LEMMA RollbackTimeoutStep == ASSUME TypeOK, TypeOK', IInv, RollbackTimeout PROVE IInv'
<1>1. /\ peer.rollback /\ ~peer.late /\ ~shutdown.active
      /\ ~stop.started /\ ~stop.early
      /\ sm.state = "Idle"
      /\ transport.phase = "ShuttingDown" /\ transport.gen = peer.gen
  BY DEF RollbackTimeout, IInv, RollbackIsExclusive, RollbackInOrder, Released
<1>2. /\ sm'.state = "ShutdownTimedOut"
      /\ peer'.late /\ peer'.rollback /\ peer'.gen = peer.gen
      /\ calls = <<>> /\ calls' = <<>> /\ pending' = NoRequest
      /\ UNCHANGED <<stop, shutdown, transport, cap>>
  BY <1>1 DEF RollbackTimeout, EventLoop, ClearPendingRequest, MoveTo, TypeOK, Machine,
              Peer, stopVars, mediaVars
<1>3. PeerMatchesState' /\ AnswerIsComing' /\ RollbackIsExclusive' /\ CallsShape'
  BY <1>1, <1>2 DEF PeerMatchesState, PeerReady, HoldsPeer, HasActiveSession, ActiveStates,
              NegotiatingStates, SetupStates, AnswerIsComing, RollbackIsExclusive,
              CallsShape
<1>4. GenerationsInOrder' /\ StopInOrder' /\ RollbackInOrder'
  BY <1>1, <1>2, NothingDueNext DEF GenerationsInOrder, StopInOrder, RollbackInOrder
<1>5. ResourcesAwaited' /\ PendingInOrder' /\ Released'
  BY <1>1, <1>2, NothingDueNext DEF ResourcesAwaited, PendingInOrder, Released
<1>. QED
  BY <1>3, <1>4, <1>5 DEF IInv

LEMMA TimersStep == ASSUME TypeOK, TypeOK', IInv, SidesInOrder, Timers PROVE IInv'
<1>1. CASE ApprovalTimeout
  BY <1>1, RejectionStep DEF ApprovalTimeout, EventLoop
<1>2. CASE CapabilityTimeout \/ ReconnectTimeout \/ SessionCommandTimeout
  BY <1>2, FinishOnStep DEF CapabilityTimeout, ReconnectTimeout, SessionCommandTimeout
<1>3. CASE EndSessionAnswered
  BY <1>3, ContinueStep DEF EndSessionAnswered, EventLoop
<1>. QED
  BY <1>1, <1>2, <1>3, StopWatchdogStep, RollbackTimeoutStep DEF Timers

------------------------------------------------------------------------------
(* Resources and calls.                                                     *)

LEMMA TransportShutdownFinishedStep ==
    ASSUME TypeOK, TypeOK', IInv, TransportShutdownFinished
    PROVE  IInv'
<1>. DEFINE reported == [op |-> "PeerFinished", gen |-> transport.gen, late |-> FALSE]
            rolledBack == [op |-> "HandleRollback", gen |-> transport.gen,
                           late |-> peer.late]
<1>1. /\ transport.phase = "ShuttingDown" /\ transport'.phase = "Idle"
      /\ transport'.gen = transport.gen
      /\ calls = <<>>
      /\ UNCHANGED <<sm, stop, shutdown, endPending, channel, cap, pending>>
  BY DEF TransportShutdownFinished, TypeOK, Transport, stopVars, flowVars, mediaVars
<1>2. reported \in Call /\ rolledBack \in Call
  BY DEF TypeOK, Transport, Peer, Call
<1>3. PeerMatchesState' /\ AnswerIsComing' /\ GenerationsInOrder'
  BY <1>1 DEF IInv, PeerMatchesState, PeerReady, HoldsPeer, HasActiveSession,
              AnswerIsComing, GenerationsInOrder
<1>4. ~Due("FinishStopping") /\ ~PeerReported
  BY <1>1, NothingDue
<1>5. CASE transport.gen # peer.gen
  <2>1. UNCHANGED <<peer, calls>>
    BY <1>5 DEF TransportShutdownFinished
  <2>2. ~peer.rollback /\ ~(shutdown.active /\ shutdown.peer)
    BY <1>4, <1>5 DEF IInv, RollbackIsExclusive, ResourcesAwaited
  <2>3. \A op : ~Due(op)'
    BY <1>1, <2>1, NothingDueNext
  <2>4. RollbackIsExclusive' /\ CallsShape' /\ StopInOrder' /\ RollbackInOrder'
    BY <1>1, <1>4, <2>1, <2>2, <2>3
    DEF IInv, RollbackIsExclusive, CallsShape, StopInOrder, RollbackInOrder,
        CanCompleteShutdown
  <2>5. ResourcesAwaited' /\ PendingInOrder' /\ Released'
    BY <1>1, <2>1, <2>2, <2>3, NothingDue
    DEF IInv, ResourcesAwaited, PendingInOrder, Released
  <2>. QED
    BY <1>3, <2>4, <2>5 DEF IInv
<1>6. CASE transport.gen = peer.gen /\ ~peer.rollback
  <2>1. calls' = <<reported>> /\ UNCHANGED peer
    BY <1>6, Zenon DEF TransportShutdownFinished
  <2>2. PeerReported' /\ \A op : Due(op)' <=> op = "PeerFinished"
    BY <1>2, <2>1, OneDueNext
  <2>3. RollbackIsExclusive' /\ StopInOrder' /\ RollbackInOrder'
    BY <1>1, <1>4, <1>6, <2>1, <2>2
    DEF IInv, RollbackIsExclusive, StopInOrder, RollbackInOrder, CanCompleteShutdown
  <2>4. ResourcesAwaited' /\ PendingInOrder' /\ Released'
    BY <1>1, <1>6, <2>1, <2>2, NothingDue
    DEF IInv, ResourcesAwaited, PendingInOrder, Released
  <2>5. CallsShape'
    BY <1>2, <2>1 DEF CallsShape
  <2>. QED
    BY <1>3, <2>3, <2>4, <2>5 DEF IInv
<1>7. CASE transport.gen = peer.gen /\ peer.rollback
  <2>1. calls' = <<rolledBack, reported>> /\ ~peer'.rollback
    BY <1>7 DEF TransportShutdownFinished, TypeOK, Peer
  <2>2. /\ Head(calls)' = rolledBack
        /\ \A op : Due(op)' <=> op = "HandleRollback"
    BY <1>2, <2>1, TwoDueNext
  <2>3. /\ ~stop.started /\ ~shutdown.active
        /\ peer.late <=> sm.state = "ShutdownTimedOut"
        /\ sm.state \in {"Idle", "ShutdownTimedOut"}
    BY <1>7 DEF IInv, RollbackIsExclusive, RollbackInOrder
  <2>4. RollbackIsExclusive' /\ StopInOrder'
    BY <1>1, <2>1, <2>2, <2>3 DEF RollbackIsExclusive, StopInOrder
  <2>5. RollbackInOrder'
    BY <1>1, <2>1, <2>2, <2>3 DEF RollbackInOrder
  <2>6. ResourcesAwaited' /\ PendingInOrder' /\ Released'
    BY <1>1, <2>1, <2>2, <2>3 DEF IInv, ResourcesAwaited, PendingInOrder, Released
  <2>7. CallsShape'
    BY <1>2, <2>1 DEF CallsShape
  <2>. QED
    BY <1>3, <2>4, <2>5, <2>6, <2>7 DEF IInv
<1>. QED
  BY <1>5, <1>6, <1>7

LEMMA CaptureShutdownFinishedStep ==
    ASSUME TypeOK, TypeOK', IInv, CaptureShutdownFinished
    PROVE  IInv'
<1>1. /\ calls = <<>>
      /\ UNCHANGED <<sm, stop, peer, transport, endPending, channel, pending>>
  BY DEF CaptureShutdownFinished, peerVars, flowVars
<1>2. shutdown.active /\ shutdown.capture => Awaited(cap.stopGen)
  BY DEF IInv, ResourcesAwaited, StopInOrder, Awaited
<1>3. CASE ~Awaited(cap.stopGen)
  BY <1>1, <1>2, <1>3, HiddenStep DEF CaptureShutdownFinished
<1>4. CASE Awaited(cap.stopGen)
  <2>1. /\ shutdown.active /\ stop.started /\ cap.stopGen = stop.gen
        /\ ~peer.rollback
    BY <1>4 DEF Awaited, IInv, StopInOrder, RollbackIsExclusive
  <2>2. PeerMatchesState' /\ AnswerIsComing' /\ RollbackIsExclusive'
    BY <1>1, <2>1
    DEF IInv, PeerMatchesState, PeerReady, HoldsPeer, HasActiveSession, AnswerIsComing,
        RollbackIsExclusive
  <2>3. CASE shutdown.peer
    <3>1. /\ UNCHANGED calls /\ shutdown' = [shutdown EXCEPT !.capture = FALSE]
      BY <1>4, <2>3 DEF CaptureShutdownFinished
    <3>2. /\ ~shutdown'.capture /\ shutdown'.peer /\ shutdown'.active
          /\ shutdown'.gen = shutdown.gen
      BY <2>1, <2>3, <3>1 DEF TypeOK, Shutdown
    <3>3. \A op : ~Due(op)'
      BY <1>1, <3>1, NothingDueNext
    <3>4. ~PeerReported /\ ~PeerReported'
      BY <1>1, <3>1, NothingDue, NothingDueNext
    <3>5. CallsShape' /\ GenerationsInOrder' /\ StopInOrder' /\ RollbackInOrder'
      BY <1>1, <2>1, <3>1, <3>2, <3>3
      DEF IInv, CallsShape, GenerationsInOrder, StopInOrder, RollbackInOrder,
          CanCompleteShutdown
    <3>6. ResourcesAwaited' /\ PendingInOrder' /\ Released'
      BY <1>1, <2>1, <2>3, <3>2, <3>3, <3>4, NothingDue
      DEF IInv, ResourcesAwaited, PendingInOrder, Released
    <3>. QED
      BY <2>2, <3>5, <3>6 DEF IInv
  <2>4. CASE ~shutdown.peer
    <3>1. calls' = <<FinishCall(cap.stopGen)>> /\ shutdown' = NoShutdown
      BY <1>4, <2>4 DEF CaptureShutdownFinished
    <3>2. /\ FinishCall(cap.stopGen) \in Call
          /\ FinishCall(cap.stopGen).op = "FinishStopping"
          /\ FinishCall(cap.stopGen).gen = stop.gen
      BY <2>1, FinishCallTyping DEF FinishCall, TypeOK, Capture
    <3>3. /\ Head(calls)'.gen = stop.gen
          /\ \A op : Due(op)' <=> op = "FinishStopping"
      BY <3>1, <3>2, OneDueNext
    <3>4. ~shutdown'.active
      BY <3>1 DEF NoShutdown
    <3>5. CallsShape'
      BY <3>1, <3>2 DEF CallsShape
    <3>6. GenerationsInOrder' /\ StopInOrder' /\ RollbackInOrder'
      BY <1>1, <2>1, <3>3, <3>4
      DEF IInv, GenerationsInOrder, StopInOrder, RollbackInOrder, CanCompleteShutdown
    <3>7. ResourcesAwaited' /\ PendingInOrder' /\ Released'
      BY <1>1, <2>1, <2>4, <3>3, <3>4, NothingDue
      DEF IInv, ResourcesAwaited, PendingInOrder, Released
    <3>. QED
      BY <2>2, <3>5, <3>6, <3>7 DEF IInv
  <2>. QED
    BY <2>3, <2>4
<1>. QED
  BY <1>3, <1>4

LEMMA PeerShutdownFinishedStep ==
    ASSUME TypeOK, TypeOK', IInv, PeerShutdownFinished
    PROVE  IInv'
<1>1. PICK a \in Call : calls = <<a>> /\ a.op = "PeerFinished"
  <2>1. Due("PeerFinished")
    BY DEF PeerShutdownFinished, Due
  <2>. QED
    BY <2>1, OneDue, TwoDue, NothingDue DEF IInv, CallsShape
<1>2. PeerReported /\ \A op : Due(op) <=> op = "PeerFinished"
  BY <1>1, OneDue
<1>3. /\ UNCHANGED <<sm, stop, transport, endPending, channel, cap, pending>>
      /\ peer'.gen = peer.gen /\ peer'.rollback = peer.rollback
      /\ peer'.late = peer.late /\ peer'.completion = 0
  BY DEF PeerShutdownFinished, TypeOK, Peer, flowVars, mediaVars
<1>4. PICK g : /\ peer.completion # 0 => g = peer.completion
               /\ \/ /\ ~Awaited(g)
                     /\ Called("PeerFinished", <<>>)
                     /\ UNCHANGED shutdown
                  \/ /\ Awaited(g) /\ shutdown.capture
                     /\ Called("PeerFinished", <<>>)
                     /\ shutdown' = [shutdown EXCEPT !.peer = FALSE]
                  \/ /\ Awaited(g) /\ ~shutdown.capture
                     /\ Called("PeerFinished", <<FinishCall(g)>>)
                     /\ shutdown' = NoShutdown
  BY DEF PeerShutdownFinished
<1>5. shutdown.active /\ shutdown.peer => Awaited(g)
  BY <1>4 DEF IInv, ResourcesAwaited, GenerationsInOrder, StopInOrder, Awaited
<1>6. PeerMatchesState' /\ AnswerIsComing'
  BY <1>3 DEF IInv, PeerMatchesState, PeerReady, HoldsPeer, HasActiveSession,
              AnswerIsComing
<1>7. CASE Called("PeerFinished", <<>>)
  <2>1. calls' = <<>>
    BY <1>1, <1>7 DEF Called
  <2>2. \A op : ~Due(op)'
    BY <2>1, NothingDueNext
  <2>3. /\ shutdown'.active = shutdown.active /\ shutdown'.gen = shutdown.gen
        /\ shutdown'.capture = shutdown.capture
        /\ shutdown'.active => ~shutdown'.peer /\ shutdown'.capture
    <3>1. CASE UNCHANGED shutdown /\ ~Awaited(g)
      BY <1>5, <3>1 DEF IInv, ResourcesAwaited
    <3>2. CASE shutdown.capture /\ shutdown' = [shutdown EXCEPT !.peer = FALSE]
      BY <3>2 DEF TypeOK, Shutdown
    <3>3. CASE Called("PeerFinished", <<FinishCall(g)>>)
      <4>1. calls' # <<>>
        BY <1>1, <3>3 DEF Called
      <4>. QED
        BY <2>1, <4>1
    <3>. QED
      BY <1>4, <3>1, <3>2, <3>3
  <2>4. RollbackIsExclusive' /\ CallsShape' /\ GenerationsInOrder'
    BY <1>3, <2>1, <2>3 DEF IInv, RollbackIsExclusive, CallsShape, GenerationsInOrder
  <2>5. StopInOrder' /\ RollbackInOrder'
    BY <1>2, <1>3, <2>2, <2>3 DEF IInv, StopInOrder, RollbackInOrder, CanCompleteShutdown
  <2>6. ResourcesAwaited' /\ PendingInOrder' /\ Released'
    BY <1>2, <1>3, <2>2, <2>3 DEF IInv, ResourcesAwaited, PendingInOrder, Released
  <2>. QED
    BY <1>6, <2>4, <2>5, <2>6 DEF IInv
<1>8. CASE /\ Awaited(g) /\ ~shutdown.capture
           /\ Called("PeerFinished", <<FinishCall(g)>>)
           /\ shutdown' = NoShutdown
  <2>1. shutdown.active /\ stop.started /\ g = stop.gen /\ ~peer.rollback /\ ~shutdown'.active
    BY <1>8 DEF Awaited, IInv, StopInOrder, RollbackIsExclusive, NoShutdown
  <2>2. /\ FinishCall(g) \in Call
        /\ FinishCall(g).op = "FinishStopping" /\ FinishCall(g).gen = stop.gen
    BY <2>1, FinishCallTyping DEF FinishCall, TypeOK
  <2>3. calls' = <<FinishCall(g)>>
    BY <1>1, <1>8, <2>2, CalledOn DEF IInv
  <2>4. /\ Head(calls)'.gen = stop.gen
        /\ \A op : Due(op)' <=> op = "FinishStopping"
    BY <2>2, <2>3, OneDueNext
  <2>5. RollbackIsExclusive' /\ GenerationsInOrder'
    BY <1>3, <2>1 DEF IInv, RollbackIsExclusive, GenerationsInOrder
  <2>6. StopInOrder' /\ RollbackInOrder'
    BY <1>3, <2>1, <2>4 DEF IInv, StopInOrder, RollbackInOrder, CanCompleteShutdown
  <2>7. ResourcesAwaited' /\ PendingInOrder' /\ Released'
    BY <1>2, <1>3, <2>1, <2>4 DEF IInv, ResourcesAwaited, PendingInOrder, Released
  <2>8. CallsShape'
    BY <2>2, <2>3 DEF CallsShape
  <2>. QED
    BY <1>6, <2>5, <2>6, <2>7, <2>8 DEF IInv
<1>. QED
  BY <1>4, <1>7, <1>8

(* The worker neither disappears nor forgets who stopped it.                *)
LEMMA WorkerSteps ==
    ASSUME NEW c \in Capture
    PROVE  /\ StartWork(c).thread # "None" /\ StartWork(c).stopGen = c.stopGen
           /\ FinishWork(c).thread # "None" /\ FinishWork(c).stopGen = c.stopGen
           /\ FailWork(c).thread # "None" /\ FailWork(c).stopGen = c.stopGen
<1>1. StartWork(c).thread # "None" /\ StartWork(c).stopGen = c.stopGen
  BY DEF StartWork, Capture
<1>2. FinishWork(c).thread # "None" /\ FinishWork(c).stopGen = c.stopGen
  BY DEF FinishWork, Capture
<1>3. FailWork(c).thread # "None" /\ FailWork(c).stopGen = c.stopGen
  BY DEF FailWork, Capture
<1>. QED
  BY <1>1, <1>2, <1>3

LEMMA ResourcesStep == ASSUME TypeOK, TypeOK', IInv, Resources PROVE IInv'
<1>1. CASE CaptureFailure
  <2>. DEFINE c == [cap EXCEPT !.failed = FALSE]
  <2>1. /\ c \in Capture /\ c.thread = cap.thread /\ c.stopGen = cap.stopGen
        /\ calls = <<>> /\ UNCHANGED <<pending, calls>>
    BY <1>1, CaptureTyping DEF CaptureFailure, EventLoop, TypeOK, Capture
  <2>2. \/ FinishSessionWith(TRUE, TRUE, c)
        \/ cap' = c /\ UNCHANGED <<sm, available, stopVars, peerVars, flowVars, media>>
    BY <1>1 DEF CaptureFailure
  <2>3. CASE FinishSessionWith(TRUE, TRUE, c)
    BY <2>1, <2>3, FinishStep
  <2>4. CASE cap' = c /\ UNCHANGED <<sm, available, stopVars, peerVars, flowVars, media>>
    BY <2>1, <2>4, HiddenStep DEF stopVars, peerVars, flowVars
  <2>. QED
    BY <2>2, <2>3, <2>4
<1>2. CASE WorkerStarts \/ WorkerFinishes \/ WorkerFails
  <2>1. /\ \/ cap' = StartWork(cap)
           \/ cap' = FinishWork(cap)
           \/ cap' = FailWork(cap)
        /\ UNCHANGED <<sm, stopVars, peerVars, flowVars, pending, calls>>
    BY <1>2 DEF WorkerStarts, WorkerFinishes, WorkerFails, WorkerStep
  <2>2. cap'.thread # "None" /\ cap'.stopGen = cap.stopGen
    BY <2>1, WorkerSteps DEF TypeOK
  <2>. QED
    BY <2>1, <2>2, HiddenStep DEF stopVars, peerVars, flowVars
<1>. QED
  BY <1>1, <1>2, TransportShutdownFinishedStep, CaptureShutdownFinishedStep DEF Resources

LEMMA DialFailedStep == ASSUME TypeOK, TypeOK', IInv, DialFailed PROVE IInv'
<1>2. \/ calls' = <<>>
      \/ \E b \in Call : calls' = <<b>> /\ b.op = "PeerFinished"
  BY CalledLast DEF DialFailed, IInv
<1>3. BeginStopping(FALSE, FALSE, cap)
  BY DEF DialFailed, FinishSession, FinishSessionWith, CanBeginStopping
<1>4. sm.state = "Connecting"
  BY DEF DialFailed
<1>. QED
  BY <1>2, <1>3, <1>4, BeginStoppingStep DEF TypeOK

(* The rollback of a peer is over: of an endpoint that is idle, or timed    *)
(* out waiting for it.                                                      *)
LEMMA HandleRollbackStep == ASSUME TypeOK, TypeOK', IInv, HandleRollback PROVE IInv'
<1>1. Due("HandleRollback")
  BY DEF HandleRollback, Called, Due
<1>2. /\ ~stop.started /\ ~stop.early
      /\ ~peer.rollback /\ transport.phase = "Idle"
      /\ sm.state = IF Head(calls).late THEN "ShutdownTimedOut" ELSE "Idle"
  BY <1>1 DEF IInv, RollbackInOrder, Released
<1>3. ~shutdown.active
  BY <1>2 DEF IInv, StopInOrder
<1>4. UNCHANGED <<stop, shutdown, peer, transport, pending>>
  BY DEF HandleRollback, stopVars, peerVars
<1>5. sm'.state = "Idle"
  BY <1>2 DEF HandleRollback, Finish, SettleIn, TypeOK, Machine
<1>6. CASE Called("HandleRollback", <<>>) /\ Head(calls).late
  <2>1. \/ calls' = <<>>
        \/ \E b \in Call : calls' = <<b>> /\ b.op = "PeerFinished"
    BY <1>6, CalledLast DEF IInv
  <2>2. /\ ~Due("FinishStopping")' /\ ~Due("HandleRollback")' /\ ~Due("DialFailed")'
        /\ CallsShape'
    BY <2>1, NothingDueNext, OneDueNext DEF CallsShape
  <2>3. PendingInOrder'
    BY <1>2, <1>4, <1>6 DEF IInv, PendingInOrder
  <2>. QED
    BY <1>2, <1>3, <1>4, <1>5, <2>2, <2>3, SettledStep
<1>7. CASE Called("HandleRollback", <<CallTo("ExecutePending")>>)
  <2>. DEFINE x == CallTo("ExecutePending")
  <2>0. x \in Call /\ x.op = "ExecutePending"
    BY DEF CallTo, Call
  <2>1. \/ calls' = <<x>>
        \/ \E b \in Call : calls' = <<x, b>> /\ b.op = "PeerFinished"
    BY <1>7, <2>0, CalledOn DEF IInv
  <2>2. /\ \A op : Due(op)' <=> op = "ExecutePending"
        /\ CallsShape'
    <3>1. CASE calls' = <<x>>
      BY <2>0, <3>1, OneDueNext DEF CallsShape
    <3>2. ASSUME NEW b \in Call, calls' = <<x, b>>, b.op = "PeerFinished"
          PROVE  (\A op : Due(op)' <=> op = "ExecutePending") /\ CallsShape'
      BY <1>2, <1>4, <1>5, <2>0, <3>2, TwoDueNext DEF CallsShape
    <3>. QED
      BY <2>1, <3>1, <3>2
  <2>3. PendingInOrder'
    BY <1>5, <2>2 DEF PendingInOrder
  <2>. QED
    BY <1>2, <1>3, <1>4, <1>5, <2>2, <2>3, SettledStep
<1>. QED
  BY <1>6, <1>7 DEF HandleRollback

(* The request put off is run, or found to be dropped.                      *)
LEMMA ExecutePendingRequestStep ==
    ASSUME TypeOK, TypeOK', IInv, ExecutePendingRequest
    PROVE  IInv'
<1>1. Due("ExecutePending")
  BY DEF ExecutePendingRequest, Called, Due
<1>2. /\ ~Due("FinishStopping")
      /\ UNCHANGED <<sm, stop, shutdown, peer, transport, endPending, channel, cap>>
  BY <1>1 DEF Due, ExecutePendingRequest, sessionVars, stopVars, peerVars, flowVars,
              mediaVars
<1>3. PendingInOrder'
  BY <1>2 DEF ExecutePendingRequest, IInv, PendingInOrder
<1>4. /\ ~Due("FinishStopping")' /\ ~Due("HandleRollback")' /\ ~Due("DialFailed")'
      /\ PeerReported' <=> PeerReported
      /\ CallsShape'
  <2>1. CASE Called("ExecutePending", <<>>)
    <3>1. CASE \E a \in Call : /\ calls = <<a>>
                             /\ a.op = "ExecutePending"
                             /\ calls' = <<>>
      BY <3>1, OneDue, NothingDueNext DEF CallsShape
    <3>2. CASE \E a, b \in Call : /\ calls = <<a, b>>
                                /\ a.op = "ExecutePending"
                                /\ b.op = "PeerFinished"
                                /\ calls' = <<b>>
      BY <3>2, TwoDue, OneDueNext DEF CallsShape
    <3>. QED
      BY <2>1, <3>1, <3>2, CalledLast DEF IInv
  <2>2. ASSUME pending # NoRequest, Called("ExecutePending", <<CallTo(pending)>>)
        PROVE  /\ ~Due("FinishStopping")' /\ ~Due("HandleRollback")' /\ ~Due("DialFailed")'
               /\ PeerReported' <=> PeerReported
               /\ CallsShape'
    <3>. DEFINE x == CallTo(pending)
    <3>0. x \in Call /\ x.op = pending /\ x.op \in Requests
      BY <2>2 DEF CallTo, Call, TypeOK
    <3>1. CASE \E a \in Call : calls = <<a>> /\ a.op = "ExecutePending" /\ calls' = <<x>>
      BY <3>0, <3>1, OneDue, OneDueNext, RequestNames DEF CallsShape
    <3>2. ASSUME NEW a \in Call, NEW b \in Call, calls = <<a, b>>,
                 a.op = "ExecutePending", b.op = "PeerFinished", calls' = <<x, b>>
          PROVE  /\ ~Due("FinishStopping")' /\ ~Due("HandleRollback")'
                 /\ ~Due("DialFailed")'
                 /\ PeerReported' <=> PeerReported
                 /\ CallsShape'
      <4>1. sm.state = "Idle" /\ ~peer.rollback
        BY <3>2 DEF IInv, CallsShape
      <4>2. CallsShape'
        BY <1>2, <3>0, <3>2, <4>1, RequestNames DEF CallsShape
      <4>. QED
        BY <3>0, <3>2, <4>2, TwoDue, TwoDueNext, RequestNames
    <3>. QED
      BY <2>2, <3>0, <3>1, <3>2, CalledOn DEF IInv
  <2>. QED
    BY <2>1, <2>2 DEF ExecutePendingRequest, PendingCalls
<1>. QED
  BY <1>2, <1>3, <1>4, CallStep

(* A stop is over: the endpoint is idle again, or listens with a new peer.  *)
LEMMA FinishStoppingStep == ASSUME TypeOK, TypeOK', IInv, FinishStopping PROVE IInv'
<1>. DEFINE x == CallTo("ExecutePending")
<1>0. x \in Call /\ x.op = "ExecutePending"
  BY DEF CallTo, Call
<1>1. Due("FinishStopping")
  BY DEF FinishStopping, Called, Due
<1>2. /\ stop.started /\ ~shutdown.active /\ ~peer.rollback /\ CanCompleteShutdown(sm)
  BY <1>1 DEF IInv, StopInOrder
<1>3. transport.phase # "Ready"
  BY <1>2 DEF IInv, PeerMatchesState, PeerReady, HoldsPeer, HasActiveSession,
              CanCompleteShutdown, ActiveStates, NegotiatingStates, SetupStates
<1>4. calls' = <<x>>
  <2>1. PICK a \in Call : calls = <<a>>
    BY <1>1, <1>2 DEF IInv, CallsShape, Due, CanCompleteShutdown
  <2>. QED
    BY <1>0, <2>1, CalledOn DEF FinishStopping, IInv
<1>5. /\ \A op : Due(op)' <=> op = "ExecutePending"
      /\ CallsShape'
  BY <1>0, <1>4, OneDueNext DEF CallsShape
<1>6. ~stop'.started /\ ~stop'.early /\ ~shutdown'.active /\ UNCHANGED pending
  BY <1>2 DEF FinishStopping, TypeOK
<1>7. sm.gen # 0 /\ sm \in Machine
  BY <1>2 DEF IInv, GenerationsInOrder, TypeOK
<1>8. \/ /\ sm'.state = "Idle" /\ transport'.phase # "Ready"
         /\ peer'.rollback => /\ transport'.phase = "ShuttingDown"
                              /\ transport'.gen = peer'.gen
                              /\ ~peer'.late
      \/ /\ sm'.state \in InUse /\ transport'.phase = "Ready"
         /\ sm'.gen # 0 /\ ~peer'.rollback
  <2>1. ASSUME NEW outcome \in InitializationOutcomes, InitializePeer(outcome),
               \/ outcome = "Ready" /\ sm' = Finish(sm, TRUE) /\ sm.role = "Controlled"
               \/ outcome # "Ready" /\ sm' = Finish(sm, FALSE)
        PROVE  \/ /\ sm'.state = "Idle" /\ transport'.phase # "Ready"
                  /\ peer'.rollback => /\ transport'.phase = "ShuttingDown"
                                       /\ transport'.gen = peer'.gen
                                       /\ ~peer'.late
               \/ /\ sm'.state \in InUse /\ transport'.phase = "Ready"
                  /\ sm'.gen # 0 /\ ~peer'.rollback
    <3>1. CASE outcome = "Ready"
      <4>1. sm'.state = "Listening" /\ sm'.gen # 0
        BY <1>7, <2>1, <3>1 DEF Finish, SettleIn, Machine
      <4>. QED
        BY <1>2, <1>3, <2>1, <3>1, <4>1, InitializeFacts, SetupInUse
    <3>2. CASE outcome # "Ready"
      <4>1. sm'.state = "Idle"
        BY <1>7, <2>1, <3>2 DEF Finish, SettleIn, Machine
      <4>. QED
        BY <1>2, <1>3, <2>1, <3>2, <4>1, InitializeFacts
    <3>. QED
      BY <3>1, <3>2
  <2>2. ASSUME sm' = Finish(sm, FALSE), UNCHANGED peerVars
        PROVE  sm'.state = "Idle" /\ transport'.phase # "Ready" /\ ~peer'.rollback
    BY <1>2, <1>3, <1>7, <2>2 DEF Finish, SettleIn, Machine, peerVars
  <2>. QED
    BY <2>1, <2>2 DEF FinishStopping
<1>9. PendingInOrder'
  BY <1>5, <1>8, SetupInUse DEF PendingInOrder, InUse, ActiveStates, NegotiatingStates,
     SetupStates
<1>. QED
  BY <1>5, <1>6, <1>8, <1>9, SettledStep

LEMMA CallsStep == ASSUME TypeOK, TypeOK', IInv, Calls PROVE IInv'
BY DialFailedStep, HandleRollbackStep, ExecutePendingRequestStep,
   PeerShutdownFinishedStep, FinishStoppingStep
DEF Calls

------------------------------------------------------------------------------
(* The two sides of a connection.                                           *)

SidedStates == SetupStates \cup {"Listening", "Connecting"}

LEMMA SidesKept ==
    ASSUME SidesInOrder, UNCHANGED <<sm, link, approval>>
    PROVE  SidesInOrder'
BY DEF SidesInOrder, SetupHasApproval

LEMMA SidesLeft ==
    ASSUME sm'.state \notin SidedStates
    PROVE  SidesInOrder'
BY DEF SidesInOrder, SetupHasApproval, SidedStates

LEMMA UnsidedStates ==
    {"Idle", "Stopping", "ShutdownTimedOut", "Negotiating", "Connected", "Streaming",
     "Reconnecting"} \cap SidedStates = {}
BY DEF SidedStates, SetupStates

LEMMA MachineMoves ==
    ASSUME NEW m \in Machine
    PROVE  \A s \in States : /\ MoveTo(m, s).state = s /\ MoveTo(m, s).role = m.role
                             /\ SettleIn(m, s).state = s /\ SettleIn(m, s).role = m.role
BY DEF MoveTo, SettleIn, Machine

LEMMA FinishLeavesSides ==
    ASSUME TypeOK, NEW keep, NEW notify, NEW c, FinishSessionWith(keep, notify, c)
    PROVE  SidesInOrder'
<1>1. sm'.state \in {"Idle", "Stopping", "ShutdownTimedOut"}
  BY DEF FinishSessionWith, BeginStopping, CanBeginStopping, MoveTo, TypeOK, Machine
<1>. QED
  BY <1>1, UnsidedStates, SidesLeft

LEMMA UserSides == ASSUME TypeOK, SidesInOrder, User PROVE SidesInOrder'
<1>1. ASSUME NEW keep, NEW notify, FinishSession(keep, notify) PROVE SidesInOrder'
  BY <1>1, FinishLeavesSides DEF FinishSession
<1>2. ASSUME UNCHANGED sessionVars, UNCHANGED link PROVE SidesInOrder'
  BY <1>2, SidesKept DEF sessionVars, flowVars
<1>3. ASSUME NEW op, Postponed(op), UNCHANGED link PROVE SidesInOrder'
  BY <1>1, <1>2, <1>3 DEF Postponed
<1>4. ASSUME NEW r \in Roles, ChooseRole(r) PROVE SidesInOrder'
  <2>1. CASE Free /\ sm' = SetRole(sm, r)
    <3>1. sm'.state = "Idle"
      BY <2>1 DEF Free, SetRole, TypeOK, Machine
    <3>. QED
      BY <3>1, UnsidedStates, SidesLeft
  <2>. QED
    BY <1>2, <1>3, <1>4, <2>1 DEF ChooseRole, Refused
<1>5. CASE StartSignalingServer
  <2>1. ASSUME Free, NEW outcome, StartListening(outcome) PROVE SidesInOrder'
    <3>1. CASE sm' = BeginListening(sm)
      BY <3>1 DEF BeginListening, SidesInOrder, SetupHasApproval, SetupStates
    <3>2. CASE UNCHANGED sm
      BY <2>1, <3>2, UnsidedStates, SidesLeft DEF Free
    <3>. QED
      BY <2>1, <3>1, <3>2 DEF StartListening
  <2>. QED
    BY <1>2, <1>3, <1>5, <2>1 DEF StartSignalingServer, Refused
<1>6. CASE ConnectSignaling
  <2>1. CASE sm' = BeginConnecting(sm)
    BY <2>1 DEF BeginConnecting, SidesInOrder, SetupHasApproval, SetupStates
  <2>2. CASE Free /\ UNCHANGED sm
    BY <2>2, UnsidedStates, SidesLeft DEF Free
  <2>. QED
    BY <1>2, <1>3, <1>6, <2>1, <2>2 DEF ConnectSignaling, Refused
<1>7. CASE DisconnectSession \/ SetRemoteAccess
  BY <1>1, <1>2, <1>7 DEF DisconnectSession, SetRemoteAccess
<1>8. CASE StopStreaming
  BY <1>1, <1>8 DEF StopStreaming, FinishOn
<1>9. CASE EnterRemoteDesktop \/ LeaveRemoteDesktop
  <2>1. sm'.state \in {"Connected", "Streaming"}
    BY <1>9 DEF EnterRemoteDesktop, LeaveRemoteDesktop, MoveOn, SettleIn, TypeOK, Machine
  <2>. QED
    BY <2>1, UnsidedStates, SidesLeft
<1>. QED
  BY <1>4, <1>5, <1>6, <1>7, <1>8, <1>9 DEF User

LEMMA RejectionSides ==
    ASSUME TypeOK, SidesInOrder, RejectIncoming \/ RejectOutgoing
    PROVE  SidesInOrder'
<1>1. CASE RejectIncoming
  <2>1. sm.role = "Controlled"
    BY <1>1 DEF RejectIncoming, SidesInOrder, SetupHasApproval
  <2>2. sm'.state = "Listening" /\ sm'.role = "Controlled"
    BY <1>1, <2>1 DEF RejectIncoming, RejectConnection, SettleIn, TypeOK, Machine
  <2>. QED
    BY <2>2 DEF SidesInOrder, SetupHasApproval, SetupStates
<1>2. CASE RejectOutgoing
  BY <1>2, FinishLeavesSides DEF RejectOutgoing, FinishSession
<1>. QED
  BY <1>1, <1>2

LEMMA ApproveSides == ASSUME TypeOK, Approve PROVE SidesInOrder'
<1>1. sm'.state = "Negotiating"
  BY DEF Approve, MoveTo, TypeOK, Machine
<1>. QED
  BY <1>1, UnsidedStates, SidesLeft

LEMMA SignalingSides == ASSUME TypeOK, SidesInOrder, Signaling PROVE SidesInOrder'
<1>1. ASSUME NEW keep, NEW notify, FinishSession(keep, notify) PROVE SidesInOrder'
  BY <1>1, FinishLeavesSides DEF FinishSession
<1>2. ASSUME UNCHANGED <<sm, approval>>, UNCHANGED link \/ sm.state \notin SetupStates
      PROVE  SidesInOrder'
  BY <1>2 DEF SidesInOrder, SetupHasApproval
<1>3. CASE OutgoingConnectionEstablished
  <2>1. CASE /\ sm.state = "Connecting" /\ sm' = BeginAuthenticatingIdentity(sm)
             /\ approval' = [side |-> "Outgoing", known |-> TRUE]
    <3>1. sm.role = "Controller"
      BY <2>1 DEF SidesInOrder
    <3>2. sm'.state = "AuthenticatingIdentity" /\ sm'.role = "Controller"
      BY <2>1, <3>1 DEF BeginAuthenticatingIdentity, TypeOK, Machine
    <3>. QED
      BY <1>3, <2>1, <3>2
      DEF OutgoingConnectionEstablished, SidesInOrder, SetupHasApproval
  <2>2. CASE UNCHANGED sessionVars
    <3>1. sm.state \notin SetupStates
      BY <1>3 DEF OutgoingConnectionEstablished, SidesInOrder, SetupHasApproval
    <3>. QED
      BY <1>2, <2>2, <3>1 DEF sessionVars, flowVars
  <2>. QED
    BY <1>1, <1>3, <2>1, <2>2 DEF OutgoingConnectionEstablished
<1>4. CASE OutgoingConnectionFailed
  <2>1. sm.state \notin SetupStates
    BY <1>4 DEF OutgoingConnectionFailed, SidesInOrder, SetupHasApproval
  <2>. QED
    BY <1>1, <1>2, <1>4, <2>1 DEF OutgoingConnectionFailed, sessionVars, flowVars
<1>5. CASE IncomingConnectionEstablished
  <2>1. CASE sm.state = "Listening"
    <3>. DEFINE m == BeginAuthenticatingIdentity(sm)
    <3>1. sm.role = "Controlled"
      BY <2>1 DEF SidesInOrder
    <3>2. m \in Machine /\ m.state = "AuthenticatingIdentity" /\ m.role = "Controlled"
      <4>1. m = [sm EXCEPT !.state = "AuthenticatingIdentity", !.gen = sm.gen + 1]
        BY <2>1 DEF BeginAuthenticatingIdentity
      <4>. QED
        BY <3>1, <4>1, MachineTyping DEF TypeOK, Machine
    <3>3. CASE sm' = m /\ link' = "Peer"
      BY <1>5, <2>1, <3>2, <3>3
      DEF IncomingConnectionEstablished, SidesInOrder, SetupHasApproval
    <3>4. CASE sm' = RejectConnection(m)
      <4>1. sm'.state = "Listening" /\ sm'.role = "Controlled"
        BY <3>2, <3>4 DEF RejectConnection, SettleIn, Machine
      <4>. QED
        BY <4>1 DEF SidesInOrder, SetupHasApproval, SetupStates
    <3>. QED
      BY <1>5, <2>1, <3>3, <3>4 DEF IncomingConnectionEstablished
  <2>2. CASE sm.state # "Listening"
    <3>1. sm.state \notin SetupStates
      BY <1>5 DEF IncomingConnectionEstablished, SidesInOrder, SetupHasApproval
    <3>. QED
      BY <1>2, <1>5, <2>2, <3>1 DEF IncomingConnectionEstablished, sessionVars, flowVars
  <2>. QED
    BY <2>1, <2>2
<1>6. CASE SignalingConnectionLost
  BY <1>1, <1>2, <1>6
  DEF SignalingConnectionLost, FinishRemotely, IsNegotiating, NegotiatingStates,
      sessionVars, flowVars
<1>7. CASE PairingRequested \/ IdentityAuthenticated
  <2>1. /\ sm.state \in SetupStates /\ UNCHANGED <<link, approval>>
        /\ sm' = MoveTo(sm, "Pairing") \/ sm' = MoveTo(sm, "AwaitingApproval")
    BY <1>7 DEF PairingRequested, IdentityAuthenticated, MoveOn, flowVars, SetupStates
  <2>2. sm'.state \in SetupStates /\ sm'.role = sm.role
    BY <2>1 DEF MoveTo, TypeOK, Machine, SetupStates
  <2>. QED
    BY <2>1, <2>2 DEF SidesInOrder, SetupHasApproval, SetupStates
<1>8. CASE SecurityRejected \/ IncomingDecided \/ OutgoingDecided
  BY <1>8, RejectionSides, ApproveSides DEF SecurityRejected, IncomingDecided, OutgoingDecided
<1>9. CASE AccessRequestReceived
  <2>1. CASE UNCHANGED <<sm, link>> /\ approval' = [approval EXCEPT !.known = TRUE]
    <3>1. approval'.side = approval.side
      BY <2>1 DEF TypeOK, Approval
    <3>. QED
      BY <2>1, <3>1 DEF SidesInOrder, SetupHasApproval
  <2>. QED
    BY <1>9, <2>1, RejectionSides, ApproveSides DEF AccessRequestReceived
<1>10. CASE InvalidSignalingMessage
  BY <1>1, <1>10, RejectionSides DEF InvalidSignalingMessage, FinishRemotely
<1>. QED
  BY <1>3, <1>4, <1>5, <1>6, <1>7, <1>8, <1>9, <1>10 DEF Signaling

LEMMA RemotePeerSides == ASSUME TypeOK, SidesInOrder, RemotePeer PROVE SidesInOrder'
<1>1. ASSUME NEW condition, NEW keep, NEW notify, FinishOn(condition, keep, notify)
      PROVE  SidesInOrder'
  BY <1>1, FinishLeavesSides DEF FinishOn, FinishSession
<1>2. ASSUME sm'.state \in {"Connected", "Streaming", "Reconnecting"} PROVE SidesInOrder'
  BY <1>2, UnsidedStates, SidesLeft
<1>3. CASE ConnectionRestored
  <2>1. CASE sm.state = "Reconnecting"
    <3>1. sm'.state \in {"Connected", "Streaming"}
      BY <1>3, <2>1 DEF ConnectionRestored, RestoreSession, SettleIn, TypeOK, Machine
    <3>. QED
      BY <1>2, <3>1
  <2>. QED
    BY <1>3, <2>1, SidesKept DEF ConnectionRestored, flowVars
<1>4. CASE ConnectionInterrupted
  <2>1. CASE CanBeginReconnecting(sm)
    <3>1. sm'.state = "Reconnecting"
      BY <1>4, <2>1 DEF ConnectionInterrupted, BeginReconnecting, TypeOK, Machine
    <3>. QED
      BY <1>2, <3>1
  <2>. QED
    BY <1>4, <2>1, SidesKept DEF ConnectionInterrupted, flowVars
<1>5. CASE \/ ConnectionTerminated \/ InputChannelClosed \/ CapabilityRejected
           \/ SessionDataBeforeCapabilities \/ EndSessionReceived
  BY <1>1, <1>5
  DEF ConnectionTerminated, InputChannelClosed, CapabilityRejected,
      SessionDataBeforeCapabilities, EndSessionReceived
<1>6. CASE SessionChannelOpened
  BY <1>6, SidesKept DEF SessionChannelOpened
<1>7. CASE SessionChannelClosed
  <2>1. CASE ContinueStoppingTeardown
    BY <2>1, UnsidedStates, SidesLeft DEF ContinueStoppingTeardown
  <2>. QED
    BY <1>7, <2>1, FinishLeavesSides DEF SessionChannelClosed, FinishRemotely, FinishSession
<1>8. CASE CapabilitiesReceived
  <2>1. CASE sm' = SettleIn(sm, "Connected")
    <3>1. sm'.state = "Connected"
      BY <2>1 DEF SettleIn, TypeOK, Machine
    <3>. QED
      BY <1>2, <3>1
  <2>. QED
    BY <1>8, <2>1, FinishLeavesSides DEF CapabilitiesReceived, FinishRemotely, FinishSession
<1>9. CASE StartStreaming \/ StopStreamingReceived
  <2>1. sm'.state \in {"Connected", "Streaming"}
    BY <1>9 DEF StartStreaming, StopStreamingReceived, SettleIn, TypeOK, Machine
  <2>. QED
    BY <1>2, <2>1
<1>. QED
  BY <1>3, <1>4, <1>5, <1>6, <1>7, <1>8, <1>9 DEF RemotePeer

LEMMA TimersSides == ASSUME TypeOK, SidesInOrder, Timers PROVE SidesInOrder'
<1>1. CASE ApprovalTimeout
  BY <1>1, RejectionSides DEF ApprovalTimeout
<1>2. CASE CapabilityTimeout \/ ReconnectTimeout \/ SessionCommandTimeout
  BY <1>2, FinishLeavesSides
  DEF CapabilityTimeout, ReconnectTimeout, SessionCommandTimeout, FinishOn, FinishSession
<1>3. CASE EndSessionAnswered
  BY <1>3, UnsidedStates, SidesLeft DEF EndSessionAnswered, ContinueStoppingTeardown
<1>4. CASE StopWatchdog
  <2>1. sm'.state = "ShutdownTimedOut"
    BY <1>4 DEF StopWatchdog, MoveTo, TypeOK, Machine
  <2>. QED
    BY <2>1, UnsidedStates, SidesLeft
<1>5. CASE RollbackTimeout
  <2>1. CASE sm.state = "Idle"
    <3>1. sm'.state = "ShutdownTimedOut"
      BY <1>5, <2>1 DEF RollbackTimeout, MoveTo, TypeOK, Machine
    <3>. QED
      BY <3>1, UnsidedStates, SidesLeft
  <2>. QED
    BY <1>5, <2>1, SidesKept DEF RollbackTimeout, flowVars
<1>. QED
  BY <1>1, <1>2, <1>3, <1>4, <1>5 DEF Timers

LEMMA ReleaseSides == ASSUME TypeOK, SidesInOrder, Resources \/ Calls PROVE SidesInOrder'
<1>1. CASE TransportShutdownFinished \/ CaptureShutdownFinished
  BY <1>1, SidesKept DEF TransportShutdownFinished, CaptureShutdownFinished, flowVars
<1>2. CASE CaptureFailure
  BY <1>2, FinishLeavesSides, SidesKept DEF CaptureFailure, flowVars
<1>3. CASE WorkerStarts \/ WorkerFinishes \/ WorkerFails
  BY <1>3, SidesKept DEF WorkerStarts, WorkerFinishes, WorkerFails, WorkerStep, flowVars
<1>4. CASE DialFailed
  BY <1>4, FinishLeavesSides DEF DialFailed, FinishSession
<1>5. CASE HandleRollback
  <2>1. CASE sm' = Finish(sm, FALSE)
    <3>1. sm'.state = "Idle"
      BY <2>1 DEF Finish, SettleIn, TypeOK, Machine
    <3>. QED
      BY <3>1, UnsidedStates, SidesLeft
  <2>. QED
    BY <1>5, <2>1, SidesKept DEF HandleRollback, flowVars
<1>6. CASE ExecutePendingRequest
  BY <1>6, SidesKept DEF ExecutePendingRequest, sessionVars, flowVars
<1>7. CASE PeerShutdownFinished
  BY <1>7, SidesKept DEF PeerShutdownFinished, flowVars
<1>8. CASE FinishStopping
  <2>1. CASE sm' = Finish(sm, FALSE)
    <3>1. sm'.state = "Idle"
      BY <2>1 DEF Finish, SettleIn, TypeOK, Machine
    <3>. QED
      BY <3>1, UnsidedStates, SidesLeft
  <2>2. CASE sm' = Finish(sm, TRUE) /\ sm.role = "Controlled"
    <3>1. sm'.state = "Listening" /\ sm'.role = "Controlled"
      BY <2>2 DEF Finish, SettleIn, TypeOK, Machine
    <3>. QED
      BY <3>1 DEF SidesInOrder, SetupHasApproval, SetupStates
  <2>. QED
    BY <1>8, <2>1, <2>2 DEF FinishStopping
<1>. QED
  BY <1>1, <1>2, <1>3, <1>4, <1>5, <1>6, <1>7, <1>8 DEF Resources, Calls

------------------------------------------------------------------------------
(* The theorems.                                                            *)

(* A connection under approval has its approval request, of the side its    *)
(* role gives it, and the signaling connection to answer it on; only a      *)
(* controlled endpoint listens, only a controller dials.                    *)
THEOREM SidesCorrect == Spec => []SidesInOrder
<1>1. Init => SidesInOrder
  BY DEF Init, NewMachine, SidesInOrder, SetupHasApproval, SetupStates
<1>2. TypeOK /\ SidesInOrder /\ [Next]_vars => SidesInOrder'
  <2>1. ASSUME SidesInOrder, UNCHANGED vars PROVE SidesInOrder'
    BY <2>1, SidesKept DEF vars, sessionVars, flowVars
  <2>. QED
    BY <2>1, UserSides, SignalingSides, RemotePeerSides, TimersSides, ReleaseSides
    DEF Next
<1>. QED
  BY <1>1, <1>2, TypeCorrect, PTL DEF Spec

(* The inductive invariant of a session and its end, for any number of      *)
(* sessions and whatever the environment may do.                            *)
THEOREM InvariantCorrect == Spec => []IInv
<1>1. Init => IInv
  <2>. SUFFICES ASSUME Init PROVE IInv
    OBVIOUS
  <2>1. calls = <<>> /\ sm.state = "Idle" /\ transport.phase = "Idle"
    BY DEF Init, NewMachine
  <2>2. /\ ~peer.rollback /\ ~stop.started /\ ~stop.early /\ ~shutdown.active
        /\ pending = NoRequest
    BY DEF Init, NoShutdown
  <2>3. PeerMatchesState /\ AnswerIsComing /\ RollbackIsExclusive /\ CallsShape
    BY <2>1, <2>2
    DEF PeerMatchesState, PeerReady, HoldsPeer, HasActiveSession, ActiveStates,
        NegotiatingStates, SetupStates, AnswerIsComing, RollbackIsExclusive, CallsShape
  <2>4. GenerationsInOrder /\ StopInOrder /\ RollbackInOrder
    BY <2>1, <2>2, NothingDue DEF GenerationsInOrder, StopInOrder, RollbackInOrder
  <2>5. ResourcesAwaited /\ PendingInOrder /\ Released
    BY <2>1, <2>2, NothingDue DEF ResourcesAwaited, PendingInOrder, Released
  <2>. QED
    BY <2>3, <2>4, <2>5 DEF IInv
<1>2. TypeOK /\ TypeOK' /\ SidesInOrder /\ IInv /\ [Next]_vars => IInv'
  <2>1. ASSUME IInv, UNCHANGED vars PROVE IInv'
    BY <2>1, UnchangedStep DEF vars
  <2>. QED
    BY <2>1, UserStep, SignalingStep, RemotePeerStep, TimersStep, ResourcesStep, CallsStep
    DEF Next
<1>. QED
  BY <1>1, <1>2, TypeCorrect, SidesCorrect, PTL DEF Spec

(* No session runs on a peer being torn down, and no peer outlives its      *)
(* session.                                                                 *)
THEOREM PeerCorrect == Spec => []PeerMatchesState
<1>1. IInv => PeerMatchesState
  BY DEF IInv
<1>. QED
  BY <1>1, InvariantCorrect, PTL

(* Whenever the event loop waits, a stop whose teardown has begun is still  *)
(* awaited under the generations by which its completion is recognized.     *)
THEOREM CompletionCorrect == Spec => []CompletionIsComing
<1>1. IInv => CompletionIsComing
  BY NothingDue DEF IInv, StopInOrder, ResourcesAwaited, CompletionIsComing
<1>. QED
  BY <1>1, InvariantCorrect, PTL

(* A stop that waits for the answer to its EndSession can still get it.     *)
THEOREM AnswerCorrect == Spec => []AnswerIsComing
<1>1. IInv => AnswerIsComing
  BY DEF IInv
<1>. QED
  BY <1>1, InvariantCorrect, PTL

(* No request is put off without something left to run it.                  *)
THEOREM PendingCorrect == Spec => []PendingIsServed
<1>1. IInv => PendingIsServed
  BY NothingDue DEF IInv, PendingInOrder, PendingIsServed
<1>. QED
  BY <1>1, InvariantCorrect, PTL

(* A rollback excludes a session, and its completion will be recognized.    *)
THEOREM RollbackCorrect == Spec => []RollbackIsExclusive
<1>1. IInv => RollbackIsExclusive
  BY DEF IInv
<1>. QED
  BY <1>1, InvariantCorrect, PTL

(* A connection under approval has its request and its connection.          *)
THEOREM ApprovalCorrect == Spec => []SetupHasApproval
<1>1. SidesInOrder => SetupHasApproval
  BY DEF SidesInOrder
<1>. QED
  BY <1>1, SidesCorrect, PTL

------------------------------------------------------------------------------
(* The end of a stop.                                                       *)

(* No step but these two leaves Stopping or ShutdownTimedOut for a state    *)
(* that accepts new sessions.                                               *)
StaysStopped == CanCompleteShutdown(sm) => CanCompleteShutdown(sm')

LEMMA FinishStaysStopped ==
    ASSUME TypeOK, NEW keep, NEW notify, NEW c,
           FinishSessionWith(keep, notify, c)
    PROVE  StaysStopped
BY DEF FinishSessionWith, BeginStopping, MoveTo, StaysStopped, CanCompleteShutdown,
       TypeOK, Machine

LEMMA FinishOnStaysStopped ==
    ASSUME TypeOK, NEW condition, NEW keep, NEW notify,
           FinishOn(condition, keep, notify)
    PROVE  StaysStopped
BY FinishStaysStopped DEF FinishOn, FinishSession

LEMMA RejectionStaysStopped ==
    ASSUME TypeOK, RejectIncoming \/ RejectOutgoing
    PROVE  StaysStopped
BY FinishStaysStopped
DEF RejectIncoming, RejectOutgoing, FinishSession, SetupStates, StaysStopped,
    CanCompleteShutdown

LEMMA UserStaysStopped == ASSUME TypeOK, User PROVE StaysStopped
<1>1. ASSUME UNCHANGED sessionVars PROVE StaysStopped
  BY <1>1 DEF sessionVars, StaysStopped
<1>2. ASSUME NEW op, Postponed(op) PROVE StaysStopped
  BY <1>1, <1>2, FinishStaysStopped DEF Postponed, FinishSession
<1>3. ASSUME Free PROVE StaysStopped
  BY <1>3 DEF Free, StaysStopped, CanCompleteShutdown
<1>4. ASSUME NEW r \in Roles, ChooseRole(r) PROVE StaysStopped
  BY <1>1, <1>2, <1>3, <1>4 DEF ChooseRole, Refused
<1>5. CASE StartSignalingServer
  BY <1>1, <1>2, <1>3, <1>5 DEF StartSignalingServer, Refused
<1>6. CASE ConnectSignaling
  BY <1>1, <1>2, <1>3, <1>6 DEF ConnectSignaling, Refused
<1>7. CASE DisconnectSession \/ SetRemoteAccess
  BY <1>1, <1>7, FinishStaysStopped
  DEF DisconnectSession, SetRemoteAccess, FinishSession
<1>8. CASE StopStreaming
  BY <1>8, FinishOnStaysStopped DEF StopStreaming
<1>9. CASE EnterRemoteDesktop \/ LeaveRemoteDesktop
  BY <1>9
  DEF EnterRemoteDesktop, LeaveRemoteDesktop, MoveOn, CanEnterRemoteDesktop,
      CanLeaveRemoteDesktop, StaysStopped, CanCompleteShutdown
<1>. QED
  BY <1>4, <1>5, <1>6, <1>7, <1>8, <1>9 DEF User

LEMMA SignalingStaysStopped == ASSUME TypeOK, Signaling PROVE StaysStopped
<1>1. ASSUME UNCHANGED sessionVars PROVE StaysStopped
  BY <1>1 DEF sessionVars, StaysStopped
<1>2. ASSUME NEW keep, NEW notify, FinishSession(keep, notify) PROVE StaysStopped
  BY <1>2, FinishStaysStopped DEF FinishSession
<1>3. CASE OutgoingConnectionEstablished \/ OutgoingConnectionFailed
  BY <1>1, <1>2, <1>3
  DEF OutgoingConnectionEstablished, OutgoingConnectionFailed, StaysStopped,
      CanCompleteShutdown
<1>4. CASE IncomingConnectionEstablished
  BY <1>1, <1>4
  DEF IncomingConnectionEstablished, StaysStopped, CanCompleteShutdown
<1>5. CASE SignalingConnectionLost
  BY <1>1, <1>2, <1>5 DEF SignalingConnectionLost, FinishRemotely
<1>6. CASE PairingRequested \/ IdentityAuthenticated
  BY <1>6
  DEF PairingRequested, IdentityAuthenticated, MoveOn, StaysStopped,
      CanCompleteShutdown
<1>7. CASE \/ SecurityRejected \/ AccessRequestReceived
           \/ IncomingDecided \/ OutgoingDecided
  BY <1>7, RejectionStaysStopped
  DEF SecurityRejected, AccessRequestReceived, IncomingDecided, OutgoingDecided,
      Approve, StaysStopped, CanCompleteShutdown
<1>8. CASE InvalidSignalingMessage
  BY <1>2, <1>8, RejectionStaysStopped DEF InvalidSignalingMessage, FinishRemotely
<1>. QED
  BY <1>3, <1>4, <1>5, <1>6, <1>7, <1>8 DEF Signaling

LEMMA RemotePeerStaysStopped == ASSUME TypeOK, RemotePeer PROVE StaysStopped
<1>1. ASSUME NEW keep, NEW notify, FinishSession(keep, notify) PROVE StaysStopped
  BY <1>1, FinishStaysStopped DEF FinishSession
<1>2. CASE ConnectionRestored \/ ConnectionInterrupted
  BY <1>2
  DEF ConnectionRestored, ConnectionInterrupted, CanBeginReconnecting,
      HasActiveSession, ActiveStates, NegotiatingStates, SetupStates, StaysStopped,
      CanCompleteShutdown
<1>3. CASE \/ ConnectionTerminated \/ InputChannelClosed \/ CapabilityRejected
           \/ SessionDataBeforeCapabilities \/ EndSessionReceived
  BY <1>3, FinishOnStaysStopped
  DEF ConnectionTerminated, InputChannelClosed, CapabilityRejected,
      SessionDataBeforeCapabilities, EndSessionReceived
<1>4. CASE SessionChannelOpened
  BY <1>4 DEF SessionChannelOpened, StaysStopped
<1>5. CASE SessionChannelClosed
  BY <1>1, <1>5
  DEF SessionChannelClosed, ContinueStoppingTeardown, FinishRemotely, StaysStopped
<1>6. CASE CapabilitiesReceived
  BY <1>1, <1>6
  DEF CapabilitiesReceived, FinishRemotely, StaysStopped, CanCompleteShutdown
<1>7. CASE StartStreaming \/ StopStreamingReceived
  BY <1>7
  DEF StartStreaming, StopStreamingReceived, CanStartControlledStreaming,
      StaysStopped, CanCompleteShutdown
<1>. QED
  BY <1>2, <1>3, <1>4, <1>5, <1>6, <1>7 DEF RemotePeer

LEMMA TimersStaysStopped == ASSUME TypeOK, Timers PROVE StaysStopped
<1>1. CASE ApprovalTimeout
  BY <1>1, RejectionStaysStopped DEF ApprovalTimeout
<1>2. CASE CapabilityTimeout \/ ReconnectTimeout \/ SessionCommandTimeout
  BY <1>2, FinishOnStaysStopped
  DEF CapabilityTimeout, ReconnectTimeout, SessionCommandTimeout
<1>3. CASE EndSessionAnswered
  BY <1>3 DEF EndSessionAnswered, ContinueStoppingTeardown, StaysStopped
<1>4. CASE StopWatchdog \/ RollbackTimeout
  BY <1>4
  DEF StopWatchdog, RollbackTimeout, MoveTo, StaysStopped, CanCompleteShutdown,
      TypeOK, Machine
<1>. QED
  BY <1>1, <1>2, <1>3, <1>4 DEF Timers

LEMMA ResourcesStaysStopped == ASSUME TypeOK, Resources PROVE StaysStopped
<1>1. CASE TransportShutdownFinished \/ CaptureShutdownFinished
  BY <1>1 DEF TransportShutdownFinished, CaptureShutdownFinished, StaysStopped
<1>2. CASE CaptureFailure
  BY <1>2, FinishStaysStopped DEF CaptureFailure, StaysStopped
<1>3. CASE WorkerStarts \/ WorkerFinishes \/ WorkerFails
  BY <1>3 DEF WorkerStarts, WorkerFinishes, WorkerFails, WorkerStep, StaysStopped
<1>. QED
  BY <1>1, <1>2, <1>3 DEF Resources

(* Of the calls, the two that end a stop find the transport gone and no     *)
(* completion outstanding; the end of an early stop finds it leaving, and   *)
(* leaves it so.                                                            *)
LEMMA CallsReleased ==
    ASSUME TypeOK, IInv, Calls
    PROVE  StaysStopped \/ AllReleased \/ OverEarly
<1>1. CASE DialFailed
  BY <1>1, FinishStaysStopped DEF DialFailed, FinishSession
<1>2. CASE ExecutePendingRequest \/ PeerShutdownFinished
  BY <1>2
  DEF ExecutePendingRequest, PeerShutdownFinished, sessionVars, StaysStopped
<1>3. CASE HandleRollback
  <2>1. Due("HandleRollback")
    BY <1>3 DEF HandleRollback, Called, Due
  <2>. QED
    BY <2>1 DEF IInv, Released, RollbackInOrder, StopInOrder, AllReleased
<1>4. CASE FinishStopping
  <2>1. Due("FinishStopping")
    BY <1>4 DEF FinishStopping, Called, Due
  <2>2. stop.started /\ ~shutdown.active /\ CanCompleteShutdown(sm)
    BY <2>1 DEF IInv, StopInOrder
  <2>3. CASE ~stop.early
    BY <2>1, <2>2, <2>3 DEF IInv, Released, AllReleased
  <2>4. CASE stop.early
    <3>1. sm' = Finish(sm, FALSE) /\ UNCHANGED transport
      BY <1>4, <2>4 DEF FinishStopping, IInv, Released, peerVars
    <3>2. sm'.state = "Idle"
      BY <3>1 DEF Finish, SettleIn, TypeOK, Machine
    <3>3. transport.phase # "Ready"
      BY <2>2 DEF IInv, PeerMatchesState, PeerReady, HoldsPeer, CanCompleteShutdown,
                  HasActiveSession, ActiveStates, NegotiatingStates, SetupStates
    <3>4. transport.phase \in {"Idle", "ShuttingDown"}
      BY <3>3 DEF TypeOK, Transport
    <3>. QED
      BY <2>2, <2>4, <3>1, <3>2, <3>4 DEF AllReleased, OverEarly
  <2>. QED
    BY <2>3, <2>4
<1>. QED
  BY <1>1, <1>2, <1>3, <1>4 DEF Calls

(* A session is over only when its transport is gone and nothing is awaited *)
(* any more, except after a dial that fails for want of an identity inside  *)
(* the completion of a rollback: that one ends Idle with its own transport  *)
(* still on its way down.                                                   *)
THEOREM ReleaseCorrect == Spec => EndsReleased
<1>1. TypeOK /\ IInv /\ [Next]_vars => [SessionOver => AllReleased \/ OverEarly]_vars
  BY UserStaysStopped, SignalingStaysStopped, RemotePeerStaysStopped,
     TimersStaysStopped, ResourcesStaysStopped, CallsReleased
  DEF Next, StaysStopped, SessionOver
<1>. QED
  BY <1>1, TypeCorrect, InvariantCorrect, PTL DEF Spec, EndsReleased

------------------------------------------------------------------------------
(* Who captures the screen.                                                 *)

(* A capture service without a worker promises nothing.                     *)
NoWorkerNoCapture == cap.thread = "None" => ~cap.accept /\ ~cap.restart

CaptureInv == CaptureIsOwned /\ NoWorkerNoCapture

(* The session for which the screen may be captured.                        *)
MayCapture ==
    /\ sm.role = "Controlled"
    /\ \/ sm.state = "Streaming"
       \/ sm.state = "Reconnecting" /\ sm.restore
       \/ sm.state = "Stopping" /\ ~stop.started

LEMMA CaptureStays ==
    ASSUME CaptureInv, UNCHANGED mediaVars, MayCapture => MayCapture'
    PROVE  CaptureInv'
BY DEF CaptureInv, CaptureIsOwned, NoWorkerNoCapture, MayCapture, mediaVars

LEMMA CaptureUntouched ==
    ASSUME CaptureInv, UNCHANGED <<sm, stop, media, cap>>
    PROVE  CaptureInv'
BY CaptureStays DEF MayCapture, mediaVars

(* Steps that begin and end in states without a capture of their own.       *)
LEMMA CaptureElsewhere ==
    ASSUME CaptureInv, UNCHANGED mediaVars,
           sm.state \notin {"Streaming", "Reconnecting", "Stopping"}
    PROVE  CaptureInv'
BY CaptureStays DEF MayCapture

LEMMA CaptureRefused ==
    ASSUME ~cap'.accept, ~cap'.restart
    PROVE  CaptureInv'
BY DEF CaptureInv, CaptureIsOwned, NoWorkerNoCapture

(* A stop of the capture takes back what was promised.                      *)
LEMMA StopTakesBack ==
    ASSUME CaptureInv, NEW c \in Capture, NEW g,
           c.accept = cap.accept, c.restart = cap.restart, c.thread = cap.thread,
           cap' = IF media THEN RequestStopCapture(c, g) ELSE c
    PROVE  ~cap'.accept /\ ~cap'.restart
BY DEF CaptureInv, CaptureIsOwned, NoWorkerNoCapture, RequestStopCapture,
       StopIsImmediate, Capture

LEMMA CaptureOfFinish ==
    ASSUME TypeOK, CaptureInv, NEW keep, NEW notify, NEW c \in Capture,
           c.accept = cap.accept, c.restart = cap.restart, c.thread = cap.thread,
           FinishSessionWith(keep, notify, c)
    PROVE  CaptureInv'
<1>1. ASSUME TearDown(sm.gen, c) PROVE CaptureInv'
  BY <1>1, StopTakesBack, CaptureRefused DEF TearDown
<1>2. ASSUME AwaitAnswer(keep, c), sm' = MoveTo(sm, "Stopping") PROVE CaptureInv'
  <2>1. /\ sm'.state = "Stopping" /\ sm'.role = sm.role /\ ~stop'.started
        /\ cap' = c /\ media' = media
    BY <1>2 DEF AwaitAnswer, StopOf, MoveTo, TypeOK, Machine
  <2>. QED
    BY <2>1 DEF CaptureInv, CaptureIsOwned, NoWorkerNoCapture
<1>3. CASE UNCHANGED <<sm, stop, media>> /\ cap' = c
  BY <1>3 DEF CaptureInv, CaptureIsOwned, NoWorkerNoCapture
<1>. QED
  BY <1>1, <1>2, <1>3 DEF FinishSessionWith, BeginStopping, stopVars

LEMMA CaptureOfFinishes ==
    ASSUME TypeOK, CaptureInv
    PROVE  /\ \A keep, notify : FinishSession(keep, notify) => CaptureInv'
           /\ FinishRemotely => CaptureInv'
           /\ \A condition, keep, notify :
                 FinishOn(condition, keep, notify) => CaptureInv'
BY CaptureOfFinish DEF FinishSession, FinishRemotely, FinishOn, TypeOK

LEMMA CaptureOfTearDown ==
    ASSUME TypeOK, CaptureInv, ContinueStoppingTeardown
    PROVE  CaptureInv'
BY StopTakesBack, CaptureRefused DEF ContinueStoppingTeardown, TearDown, TypeOK

LEMMA CaptureOfNothing ==
    ASSUME CaptureInv, UNCHANGED sessionVars
    PROVE  CaptureInv'
BY CaptureUntouched DEF sessionVars, stopVars, mediaVars

LEMMA CaptureOfPostponed ==
    ASSUME TypeOK, CaptureInv, NEW op, Postponed(op)
    PROVE  CaptureInv'
BY CaptureOfFinishes, CaptureOfNothing DEF Postponed

LEMMA UserCapture == ASSUME TypeOK, CaptureInv, User PROVE CaptureInv'
<1>1. ASSUME Free, UNCHANGED mediaVars PROVE CaptureInv'
  BY <1>1, CaptureElsewhere DEF Free
<1>2. CASE Refused
  BY <1>2, CaptureOfNothing DEF Refused
<1>3. ASSUME NEW r \in Roles, ChooseRole(r) PROVE CaptureInv'
  BY <1>1, <1>2, <1>3, CaptureOfPostponed, CaptureOfNothing DEF ChooseRole
<1>4. CASE StartSignalingServer
  BY <1>1, <1>2, <1>4, CaptureOfPostponed, CaptureOfNothing DEF StartSignalingServer
<1>5. CASE ConnectSignaling
  BY <1>1, <1>2, <1>5, CaptureOfPostponed DEF ConnectSignaling
<1>6. CASE DisconnectSession \/ SetRemoteAccess
  BY <1>6, CaptureOfFinishes, CaptureOfNothing DEF DisconnectSession, SetRemoteAccess
<1>7. CASE StopStreaming
  BY <1>7, CaptureOfFinishes DEF StopStreaming
<1>8. CASE EnterRemoteDesktop \/ LeaveRemoteDesktop
  BY <1>8, CaptureStays
  DEF EnterRemoteDesktop, LeaveRemoteDesktop, MoveOn, CanEnterRemoteDesktop,
      CanLeaveRemoteDesktop, MayCapture
<1>. QED
  BY <1>3, <1>4, <1>5, <1>6, <1>7, <1>8 DEF User

LEMMA CaptureOfRejection ==
    ASSUME TypeOK, CaptureInv, RejectIncoming \/ RejectOutgoing
    PROVE  CaptureInv'
BY CaptureElsewhere, CaptureOfFinishes DEF RejectIncoming, RejectOutgoing, SetupStates

LEMMA SignalingCapture == ASSUME TypeOK, CaptureInv, Signaling PROVE CaptureInv'
<1>1. CASE OutgoingConnectionEstablished \/ OutgoingConnectionFailed
  BY <1>1, CaptureElsewhere, CaptureOfFinishes, CaptureOfNothing
  DEF OutgoingConnectionEstablished, OutgoingConnectionFailed
<1>2. CASE IncomingConnectionEstablished
  BY <1>2, CaptureElsewhere, CaptureOfNothing DEF IncomingConnectionEstablished
<1>3. CASE SignalingConnectionLost
  BY <1>3, CaptureOfFinishes, CaptureOfNothing DEF SignalingConnectionLost
<1>4. CASE PairingRequested \/ IdentityAuthenticated
  BY <1>4, CaptureElsewhere DEF PairingRequested, IdentityAuthenticated, MoveOn
<1>5. CASE SecurityRejected \/ IncomingDecided \/ OutgoingDecided
  BY <1>5, CaptureElsewhere, CaptureOfRejection
  DEF SecurityRejected, IncomingDecided, OutgoingDecided, Approve
<1>6. CASE AccessRequestReceived
  BY <1>6, CaptureElsewhere, CaptureOfRejection DEF AccessRequestReceived, Approve
<1>7. CASE InvalidSignalingMessage
  BY <1>7, CaptureOfRejection, CaptureOfFinishes DEF InvalidSignalingMessage
<1>. QED
  BY <1>1, <1>2, <1>3, <1>4, <1>5, <1>6, <1>7 DEF Signaling

LEMMA RemotePeerCapture == ASSUME TypeOK, CaptureInv, RemotePeer PROVE CaptureInv'
<1>1. CASE ConnectionRestored
  <2>1. MayCapture => MayCapture'
    BY <1>1
    DEF ConnectionRestored, MayCapture, RestoreSession, SettleIn, TypeOK, Machine,
        stopVars
  <2>. QED
    BY <1>1, <2>1, CaptureStays DEF ConnectionRestored
<1>2. CASE ConnectionInterrupted
  <2>1. MayCapture => MayCapture'
    <3> DEFINE m == BeginReconnecting(sm)
    <3>1. /\ m.state = "Reconnecting" /\ m.role = sm.role
          /\ sm.state = "Streaming" => m.restore
      BY DEF BeginReconnecting, TypeOK, Machine
    <3>2. UNCHANGED stop
      BY <1>2 DEF ConnectionInterrupted, stopVars
    <3>3. CASE CanBeginReconnecting(sm)
      <4>1. sm' = m
        BY <1>2, <3>3 DEF ConnectionInterrupted
      <4>2. sm.state \notin {"Reconnecting", "Stopping"}
        BY <3>3 DEF CanBeginReconnecting, HasActiveSession, ActiveStates,
                    NegotiatingStates, SetupStates
      <4> HIDE DEF m
      <4>. QED
        BY <3>1, <4>1, <4>2 DEF MayCapture
    <3>4. CASE ~CanBeginReconnecting(sm)
      BY <1>2, <3>2, <3>4 DEF ConnectionInterrupted, MayCapture
    <3>. QED
      BY <3>3, <3>4
  <2>. QED
    BY <1>2, <2>1, CaptureStays DEF ConnectionInterrupted
<1>3. CASE \/ ConnectionTerminated \/ InputChannelClosed \/ CapabilityRejected
           \/ SessionDataBeforeCapabilities \/ EndSessionReceived
  BY <1>3, CaptureOfFinishes
  DEF ConnectionTerminated, InputChannelClosed, CapabilityRejected,
      SessionDataBeforeCapabilities, EndSessionReceived
<1>4. CASE SessionChannelOpened
  BY <1>4, CaptureUntouched DEF SessionChannelOpened, stopVars, mediaVars
<1>5. CASE SessionChannelClosed
  BY <1>5, CaptureOfTearDown, CaptureOfFinishes DEF SessionChannelClosed
<1>6. CASE CapabilitiesReceived
  BY <1>6, CaptureElsewhere, CaptureOfFinishes DEF CapabilitiesReceived
<1>7. CASE StartStreaming
  <2>1. /\ sm'.state = "Streaming" /\ sm'.role = "Controlled" /\ media'
        /\ cap' = IF media THEN cap ELSE StartCapture(cap)
    BY <1>7
    DEF StartStreaming, CanStartControlledStreaming, SettleIn, TypeOK, Machine
  <2>2. cap'.thread = "None" => ~cap'.accept /\ ~cap'.restart
    BY <2>1 DEF CaptureInv, NoWorkerNoCapture, StartCapture, TypeOK, Capture
  <2>. QED
    BY <2>1, <2>2 DEF CaptureInv, CaptureIsOwned, NoWorkerNoCapture
<1>8. CASE StopStreamingReceived
  BY <1>8, StopTakesBack, CaptureRefused DEF StopStreamingReceived, TypeOK
<1>. QED
  BY <1>1, <1>2, <1>3, <1>4, <1>5, <1>6, <1>7, <1>8 DEF RemotePeer

LEMMA TimersCapture ==
    ASSUME TypeOK, IInv, CaptureInv, Timers
    PROVE  CaptureInv'
<1>1. CASE ApprovalTimeout
  BY <1>1, CaptureOfRejection DEF ApprovalTimeout
<1>2. CASE CapabilityTimeout \/ ReconnectTimeout \/ SessionCommandTimeout
  BY <1>2, CaptureOfFinishes
  DEF CapabilityTimeout, ReconnectTimeout, SessionCommandTimeout
<1>3. CASE EndSessionAnswered
  BY <1>3, CaptureOfTearDown DEF EndSessionAnswered
<1>4. CASE StopWatchdog
  <2>1. sm.state = "Stopping" /\ stop.started
    BY <1>4 DEF StopWatchdog, WatchdogDue, IInv, StopInOrder
  <2>. QED
    BY <1>4, <2>1, CaptureStays DEF StopWatchdog, MayCapture
<1>5. CASE RollbackTimeout
  <2>1. sm.state \in {"Idle", "ShutdownTimedOut"}
    BY <1>5 DEF RollbackTimeout, IInv, RollbackIsExclusive
  <2>. QED
    BY <1>5, <2>1, CaptureElsewhere DEF RollbackTimeout
<1>. QED
  BY <1>1, <1>2, <1>3, <1>4, <1>5 DEF Timers

LEMMA ResourcesCapture ==
    ASSUME TypeOK, CaptureInv, Resources
    PROVE  CaptureInv'
<1>1. CASE TransportShutdownFinished
  BY <1>1, CaptureUntouched DEF TransportShutdownFinished, stopVars, mediaVars
<1>2. CASE CaptureShutdownFinished
  <2>1. cap' = ClearWorker(cap) /\ UNCHANGED <<sm, stop, media>>
    BY <1>2 DEF CaptureShutdownFinished
  <2>2. CASE cap.restart
    <3>1. cap'.thread = "Starting"
      BY <2>1, <2>2 DEF ClearWorker, StartCapture, NoCapture
    <3>. QED
      BY <2>1, <2>2, <3>1 DEF CaptureInv, CaptureIsOwned, NoWorkerNoCapture
  <2>3. CASE ~cap.restart
    BY <2>1, <2>3, CaptureRefused DEF ClearWorker, NoCapture
  <2>. QED
    BY <2>2, <2>3
<1>3. CASE CaptureFailure
  <2> DEFINE c == [cap EXCEPT !.failed = FALSE]
  <2>1. /\ c \in Capture /\ c.accept = cap.accept /\ c.restart = cap.restart
        /\ c.thread = cap.thread
    BY DEF TypeOK, Capture
  <2>2. CASE FinishSessionWith(TRUE, TRUE, c)
    BY <2>1, <2>2, CaptureOfFinish
  <2>3. CASE cap' = c /\ UNCHANGED <<sm, stop, media>>
    BY <2>1, <2>3 DEF CaptureInv, CaptureIsOwned, NoWorkerNoCapture
  <2>. QED
    BY <1>3, <2>2, <2>3 DEF CaptureFailure, stopVars
<1>4. ASSUME NEW c, UNCHANGED <<sm, stop, media>>, cap' = c,
             c.accept = cap.accept, c.restart = cap.restart, c.thread # "None"
      PROVE  CaptureInv'
  BY <1>4 DEF CaptureInv, CaptureIsOwned, NoWorkerNoCapture
<1>5. CASE WorkerStarts \/ WorkerFinishes \/ WorkerFails
  <2>1. ASSUME NEW c \in {StartWork(cap), FinishWork(cap), FailWork(cap)}
        PROVE  /\ c.accept = cap.accept /\ c.restart = cap.restart
               /\ c.thread # "None"
    BY DEF StartWork, FinishWork, FailWork, TypeOK, Capture
  <2>. QED
    BY <1>4, <1>5, <2>1
    DEF WorkerStarts, WorkerFinishes, WorkerFails, WorkerStep, stopVars
<1>. QED
  BY <1>1, <1>2, <1>3, <1>5 DEF Resources

LEMMA CallsCapture ==
    ASSUME TypeOK, IInv, CaptureInv, Calls
    PROVE  CaptureInv'
<1>1. CASE DialFailed
  BY <1>1, CaptureOfFinishes DEF DialFailed
<1>2. CASE HandleRollback
  <2>1. \/ UNCHANGED sm
        \/ sm.state = "ShutdownTimedOut"
    BY <1>2 DEF HandleRollback
  <2>. QED
    BY <1>2, <2>1, CaptureElsewhere, CaptureUntouched
    DEF HandleRollback, stopVars, mediaVars
<1>3. CASE ExecutePendingRequest
  BY <1>3, CaptureOfNothing DEF ExecutePendingRequest
<1>4. CASE PeerShutdownFinished
  BY <1>4, CaptureUntouched DEF PeerShutdownFinished, mediaVars
<1>5. CASE FinishStopping
  <2>1. Due("FinishStopping") /\ CanCompleteShutdown(sm) /\ UNCHANGED mediaVars
    BY <1>5 DEF FinishStopping, Called, Due
  <2>2. ~MayCapture
    BY <2>1 DEF MayCapture, CanCompleteShutdown, IInv, StopInOrder
  <2>. QED
    BY <2>1, <2>2, CaptureStays
<1>. QED
  BY <1>1, <1>2, <1>3, <1>4, <1>5 DEF Calls

(* The screen is captured for a session that streams, or may stream again,  *)
(* of the controlled endpoint, and for no other.                            *)
THEOREM CaptureCorrect == Spec => []CaptureIsOwned
<1>1. Init => CaptureInv
  BY DEF Init, NoCapture, CaptureInv, CaptureIsOwned, NoWorkerNoCapture
<1>2. TypeOK /\ IInv /\ CaptureInv /\ [Next]_vars => CaptureInv'
  <2>1. ASSUME TypeOK, IInv, CaptureInv, Next PROVE CaptureInv'
    BY <2>1, UserCapture, SignalingCapture, RemotePeerCapture, TimersCapture,
       ResourcesCapture, CallsCapture
    DEF Next
  <2>2. ASSUME CaptureInv, UNCHANGED vars PROVE CaptureInv'
    BY <2>2, CaptureOfNothing DEF vars
  <2>. QED
    BY <2>1, <2>2
<1>3. CaptureInv => CaptureIsOwned
  BY DEF CaptureInv
<1>. QED
  BY <1>1, <1>2, <1>3, TypeCorrect, InvariantCorrect, PTL DEF Spec

------------------------------------------------------------------------------
(* When the endpoint is announced.                                          *)

(* An endpoint that serves others, or has served them and still stops.      *)
Serving ==
    /\ sm.role = "Controlled"
    /\ sm.state \in InUse \/ sm.state = "Stopping" \/ stop.started

ServerStays == Serving => link \in {"Server", "Peer"}

ListeningInv == AvailableMeansListening /\ ServerStays

(* Steps that leave the connection alone.                                   *)
LEMMA ListeningKept ==
    ASSUME ListeningInv, UNCHANGED <<available, link>>,
           Serving' => Serving, sm.state = "Listening" => sm'.state = "Listening"
    PROVE  ListeningInv'
BY DEF ListeningInv, AvailableMeansListening, ServerStays

LEMMA ListeningUntouched ==
    ASSUME ListeningInv, UNCHANGED <<available, link, sm, stop>>
    PROVE  ListeningInv'
BY ListeningKept DEF Serving

(* Steps after which nothing is announced.                                  *)
LEMMA ListeningEnds ==
    ASSUME ~available', Serving' => link' \in {"Server", "Peer"}
    PROVE  ListeningInv'
BY DEF ListeningInv, AvailableMeansListening, ServerStays

LEMMA AvailableElsewhere ==
    ASSUME ListeningInv, sm.state # "Listening" \/ link # "Server"
    PROVE  ~available
BY DEF ListeningInv, AvailableMeansListening

LEMMA ListeningOfFinish ==
    ASSUME TypeOK, ListeningInv, NEW keep, NEW notify, NEW c,
           FinishSessionWith(keep, notify, c),
           Serving => link' \in {"Server", "Peer"}
    PROVE  ListeningInv'
<1>1. CASE BeginStopping(keep, notify, c)
  <2>1. ~available' /\ sm'.role = sm.role
    BY <1>1 DEF BeginStopping, MoveTo, TypeOK, Machine
  <2>2. sm.state \in InUse
    BY <1>1, StoppableIsInUse DEF BeginStopping
  <2>. QED
    BY <2>1, <2>2, ListeningEnds DEF Serving
<1>2. CASE ~BeginStopping(keep, notify, c)
  <2>1. UNCHANGED <<sm, stop, available>> /\ ~CanBeginStopping(sm)
    BY <1>2 DEF FinishSessionWith, stopVars
  <2>2. ~available
    BY <2>1, AvailableElsewhere DEF CanBeginStopping
  <2>. QED
    BY <2>1, <2>2, ListeningEnds DEF Serving
<1>. QED
  BY <1>1, <1>2

LEMMA ListeningOfFinishes ==
    ASSUME TypeOK, ListeningInv, UNCHANGED link
    PROVE  /\ \A keep, notify : FinishSession(keep, notify) => ListeningInv'
           /\ FinishRemotely => ListeningInv'
           /\ \A condition, keep, notify :
                 FinishOn(condition, keep, notify) => ListeningInv'
BY ListeningOfFinish DEF FinishSession, FinishRemotely, FinishOn, ListeningInv, ServerStays

LEMMA ListeningOfFinishOn ==
    ASSUME TypeOK, ListeningInv, NEW condition, NEW keep, NEW notify,
           FinishOn(condition, keep, notify)
    PROVE  ListeningInv'
BY ListeningOfFinishes DEF FinishOn

LEMMA ListeningOfNothing ==
    ASSUME ListeningInv, UNCHANGED <<sessionVars, link>>
    PROVE  ListeningInv'
BY ListeningUntouched DEF sessionVars, stopVars

LEMMA ListeningOfPostponed ==
    ASSUME TypeOK, ListeningInv, UNCHANGED link, NEW op, Postponed(op)
    PROVE  ListeningInv'
BY ListeningOfFinishes, ListeningOfNothing DEF Postponed

LEMMA ListeningOfMove ==
    ASSUME TypeOK, ListeningInv, NEW condition, NEW m, MoveOn(condition, m),
           sm.state \in ActiveStates, m.role = sm.role
    PROVE  ListeningInv'
<1>1. Serving' => Serving
  BY DEF MoveOn, Serving, InUse
<1>2. sm.state # "Listening"
  BY DEF ActiveStates, NegotiatingStates, SetupStates
<1>. QED
  BY <1>1, <1>2, ListeningKept DEF MoveOn

LEMMA UserListening ==
    ASSUME TypeOK, IInv, ListeningInv, User
    PROVE  ListeningInv'
<1>1. ASSUME Free PROVE ~stop.started /\ sm.state = "Idle" /\ ~available
  BY <1>1, FreeFacts, AvailableElsewhere DEF Free
<1>2. "Idle" \notin InUse
  BY DEF InUse, ActiveStates, NegotiatingStates, SetupStates
<1>3. ASSUME NEW r \in Roles, ChooseRole(r) PROVE ListeningInv'
  <2>1. ASSUME Free, sm' = SetRole(sm, r), UNCHANGED <<available, stopVars>>
        PROVE  ListeningInv'
    <3>1. sm'.state = "Idle"
      BY <1>1, <2>1 DEF SetRole, TypeOK, Machine
    <3>. QED
      BY <1>1, <1>2, <2>1, <3>1, ListeningEnds DEF stopVars, Serving
  <2>. QED
    BY <1>3, <2>1, ListeningOfPostponed, ListeningOfNothing DEF ChooseRole, Refused
<1>4. CASE StartSignalingServer
  <2>1. ASSUME Free, NEW outcome, StartListening(outcome), UNCHANGED stopVars
        PROVE  ListeningInv'
    <3>1. CASE UNCHANGED <<sm, available, link>>
      BY <2>1, <3>1, ListeningUntouched DEF stopVars
    <3>2. CASE sm' = BeginListening(sm) /\ available' /\ link' = "Server"
      BY <3>2 DEF BeginListening, ListeningInv, AvailableMeansListening, ServerStays
    <3>3. CASE UNCHANGED sm /\ ~available'
      BY <1>1, <1>2, <2>1, <3>3, ListeningEnds DEF stopVars, Serving
    <3>. QED
      BY <2>1, <3>1, <3>2, <3>3 DEF StartListening
  <2>. QED
    BY <1>4, <2>1, ListeningOfPostponed, ListeningOfNothing
    DEF StartSignalingServer, Refused
<1>5. CASE ConnectSignaling
  <2>1. ASSUME Free, UNCHANGED <<available, stopVars>>,
               UNCHANGED sm \/ sm' = BeginConnecting(sm)
        PROVE  ListeningInv'
    <3>1. ~Serving'
      BY <1>1, <1>2, <2>1 DEF stopVars, Serving, BeginConnecting
    <3>. QED
      BY <1>1, <2>1, <3>1, ListeningEnds
  <2>2. \/ Refused /\ UNCHANGED link
        \/ Postponed("Connect") /\ UNCHANGED link
        \/ /\ Free /\ UNCHANGED <<available, stopVars>>
           /\ UNCHANGED sm \/ sm' = BeginConnecting(sm)
    BY <1>5 DEF ConnectSignaling
  <2>. QED
    BY <2>1, <2>2, ListeningOfPostponed, ListeningOfNothing DEF Refused
<1>6. CASE DisconnectSession \/ SetRemoteAccess
  BY <1>6, ListeningOfFinishes, ListeningOfNothing
  DEF DisconnectSession, SetRemoteAccess
<1>7. CASE StopStreaming
  BY <1>7, ListeningOfFinishOn DEF StopStreaming
<1>8. CASE EnterRemoteDesktop \/ LeaveRemoteDesktop
  <2>1. sm.state \in ActiveStates
    BY <1>8
    DEF EnterRemoteDesktop, LeaveRemoteDesktop, MoveOn, CanEnterRemoteDesktop,
        CanLeaveRemoteDesktop, ActiveStates
  <2>2. \A st \in States : SettleIn(sm, st).role = sm.role
    BY DEF SettleIn, TypeOK, Machine
  <2>3. "Streaming" \in States /\ "Connected" \in States
    BY DEF States, ActiveStates
  <2>. QED
    BY <1>8, <2>1, <2>2, <2>3, ListeningOfMove DEF EnterRemoteDesktop, LeaveRemoteDesktop
<1>. QED
  BY <1>3, <1>4, <1>5, <1>6, <1>7, <1>8 DEF User

LEMMA ListeningOfRejection ==
    ASSUME TypeOK, IInv, SidesInOrder, ListeningInv,
           \/ RejectIncoming
           \/ RejectOutgoing
    PROVE  ListeningInv'
<1>1. CASE RejectIncoming
  <2>1. sm.role = "Controlled" /\ link = "Peer"
    BY <1>1 DEF RejectIncoming, SidesInOrder, SetupHasApproval
  <2>2. link' = "Server"
    BY <1>1, <2>1 DEF RejectIncoming, WithoutPeer
  <2>3. sm'.state = "Listening"
    BY <1>1, <2>1 DEF RejectIncoming, RejectConnection, SettleIn, TypeOK, Machine
  <2>. QED
    BY <2>2, <2>3 DEF ListeningInv, AvailableMeansListening, ServerStays
<1>2. CASE RejectOutgoing
  BY <1>2, ListeningOfFinishes DEF RejectOutgoing
<1>. QED
  BY <1>1, <1>2

LEMMA ListeningOfApproval ==
    ASSUME TypeOK, ListeningInv, Approve
    PROVE  ListeningInv'
<1>1. sm.state = "AwaitingApproval" /\ sm'.role = sm.role
      /\ UNCHANGED <<available, link, stop>>
  BY DEF Approve, MoveTo, TypeOK, Machine, stopVars
<1>2. Serving' => Serving
  BY <1>1 DEF Serving, InUse, ActiveStates, NegotiatingStates, SetupStates
<1>. QED
  BY <1>1, <1>2, ListeningKept

LEMMA SignalingListening ==
    ASSUME TypeOK, IInv, SidesInOrder, ListeningInv, Signaling
    PROVE  ListeningInv'
<1>1. CASE OutgoingConnectionEstablished
  <2>1. ~available /\ ~Serving
    BY <1>1, AvailableElsewhere
    DEF OutgoingConnectionEstablished, ListeningInv, ServerStays
  <2>2. CASE /\ sm.state = "Connecting" /\ sm' = BeginAuthenticatingIdentity(sm)
             /\ UNCHANGED <<available, stopVars>>
    <3>1. sm'.role = sm.role /\ sm.state \in InUse
      BY <2>2 DEF BeginAuthenticatingIdentity, TypeOK, Machine, InUse, ActiveStates,
                  NegotiatingStates
    <3>. QED
      BY <2>1, <2>2, <3>1, ListeningEnds DEF Serving, stopVars
  <2>3. CASE FinishSession(FALSE, FALSE)
    BY <2>1, <2>3, ListeningOfFinish DEF FinishSession
  <2>4. CASE UNCHANGED sessionVars
    BY <2>1, <2>4, ListeningEnds DEF sessionVars, stopVars, Serving
  <2>. QED
    BY <1>1, <2>2, <2>3, <2>4 DEF OutgoingConnectionEstablished
<1>2. CASE OutgoingConnectionFailed
  <2>1. ~available /\ ~Serving
    BY <1>2, AvailableElsewhere DEF OutgoingConnectionFailed, ListeningInv, ServerStays
  <2>2. CASE FinishSession(FALSE, FALSE)
    BY <2>1, <2>2, ListeningOfFinish DEF FinishSession
  <2>3. CASE UNCHANGED sessionVars
    BY <2>1, <2>3, ListeningEnds DEF sessionVars, stopVars, Serving
  <2>. QED
    BY <1>2, <2>2, <2>3 DEF OutgoingConnectionFailed
<1>3. CASE IncomingConnectionEstablished
  <2>1. link' \in {"Server", "Peer"}
    BY <1>3 DEF IncomingConnectionEstablished
  <2>2. ~available'
    BY <1>3, AvailableElsewhere DEF IncomingConnectionEstablished, sessionVars
  <2>. QED
    BY <2>1, <2>2, ListeningEnds
<1>4. CASE SignalingConnectionLost
  <2>1. Serving => link' \in {"Server", "Peer"}
    BY <1>4 DEF SignalingConnectionLost, WithoutPeer, Serving
  <2>2. ~available
    BY <1>4, AvailableElsewhere DEF SignalingConnectionLost
  <2>3. CASE FinishRemotely
    BY <2>1, <2>3, ListeningOfFinish DEF FinishRemotely, FinishSession
  <2>4. CASE UNCHANGED sessionVars
    BY <2>1, <2>2, <2>4, ListeningEnds DEF sessionVars, stopVars, Serving
  <2>. QED
    BY <1>4, <2>3, <2>4 DEF SignalingConnectionLost
<1>5. CASE PairingRequested \/ IdentityAuthenticated
  <2>1. \A st \in States : MoveTo(sm, st).role = sm.role
    BY DEF MoveTo, TypeOK, Machine
  <2>2. sm.state \in ActiveStates
    BY <1>5
    DEF PairingRequested, IdentityAuthenticated, MoveOn, ActiveStates,
        NegotiatingStates, SetupStates
  <2>3. "Pairing" \in States /\ "AwaitingApproval" \in States
    BY DEF States, ActiveStates, NegotiatingStates, SetupStates
  <2>. QED
    BY <1>5, <2>1, <2>2, <2>3, ListeningOfMove
    DEF PairingRequested, IdentityAuthenticated
<1>6. CASE SecurityRejected \/ IncomingDecided \/ OutgoingDecided
  BY <1>6, ListeningOfRejection, ListeningOfApproval
  DEF SecurityRejected, IncomingDecided, OutgoingDecided
<1>7. CASE AccessRequestReceived
  BY <1>7, ListeningOfRejection, ListeningOfApproval, ListeningUntouched
  DEF AccessRequestReceived, stopVars
<1>8. CASE InvalidSignalingMessage
  BY <1>8, ListeningOfRejection, ListeningOfFinishes DEF InvalidSignalingMessage
<1>. QED
  BY <1>1, <1>2, <1>3, <1>4, <1>5, <1>6, <1>7, <1>8 DEF Signaling

LEMMA ListeningOfSession ==
    ASSUME ListeningInv, UNCHANGED <<available, link, stop>>, sm'.role = sm.role,
           sm.state \in ActiveStates
    PROVE  ListeningInv'
<1>1. sm.state # "Listening" /\ (Serving' => Serving)
  BY DEF Serving, InUse, ActiveStates, NegotiatingStates, SetupStates
<1>. QED
  BY <1>1, ListeningKept

LEMMA ListeningOfTearDown ==
    ASSUME ListeningInv, ContinueStoppingTeardown, UNCHANGED link
    PROVE  ListeningInv'
<1>1. Serving' => Serving
  BY DEF ContinueStoppingTeardown, Serving
<1>. QED
  BY <1>1, ListeningKept DEF ContinueStoppingTeardown

LEMMA RemotePeerListening ==
    ASSUME TypeOK, ListeningInv, RemotePeer
    PROVE  ListeningInv'
<1>0. /\ RestoreSession(sm).role = sm.role /\ BeginReconnecting(sm).role = sm.role
      /\ SettleIn(sm, "Connected").role = sm.role
      /\ SettleIn(sm, "Streaming").role = sm.role
  BY DEF RestoreSession, SettleIn, BeginReconnecting, TypeOK, Machine
<1>1. CASE ConnectionRestored
  <2>1. CASE sm.state = "Reconnecting"
    BY <1>0, <1>1, <2>1, ListeningOfSession
    DEF ConnectionRestored, stopVars, ActiveStates
  <2>2. CASE sm.state # "Reconnecting"
    BY <1>1, <2>2, ListeningUntouched DEF ConnectionRestored, stopVars
  <2>. QED
    BY <2>1, <2>2
<1>2. CASE ConnectionInterrupted
  <2>1. CASE CanBeginReconnecting(sm)
    BY <1>0, <1>2, <2>1, ListeningOfSession
    DEF ConnectionInterrupted, stopVars, CanBeginReconnecting, HasActiveSession
  <2>2. CASE ~CanBeginReconnecting(sm)
    BY <1>2, <2>2, ListeningUntouched DEF ConnectionInterrupted, stopVars
  <2>. QED
    BY <2>1, <2>2
<1>3. CASE \/ ConnectionTerminated \/ InputChannelClosed \/ CapabilityRejected
           \/ SessionDataBeforeCapabilities \/ EndSessionReceived
  BY <1>3, ListeningOfFinishOn
  DEF ConnectionTerminated, InputChannelClosed, CapabilityRejected,
      SessionDataBeforeCapabilities, EndSessionReceived
<1>4. CASE SessionChannelOpened
  BY <1>4, ListeningUntouched DEF SessionChannelOpened, stopVars
<1>5. CASE SessionChannelClosed
  BY <1>5, ListeningOfTearDown, ListeningOfFinishes DEF SessionChannelClosed
<1>6. CASE CapabilitiesReceived
  <2>1. sm.state \in ActiveStates
    BY <1>6 DEF CapabilitiesReceived, ActiveStates, NegotiatingStates
  <2>. QED
    BY <1>0, <1>6, <2>1, ListeningOfSession, ListeningOfFinishes
    DEF CapabilitiesReceived, stopVars
<1>7. CASE StartStreaming \/ StopStreamingReceived
  <2>1. sm.state \in ActiveStates
    BY <1>7
    DEF StartStreaming, StopStreamingReceived, CanStartControlledStreaming,
        ActiveStates
  <2>. QED
    BY <1>0, <1>7, <2>1, ListeningOfSession
    DEF StartStreaming, StopStreamingReceived, stopVars
<1>. QED
  BY <1>1, <1>2, <1>3, <1>4, <1>5, <1>6, <1>7 DEF RemotePeer

LEMMA TimersListening ==
    ASSUME TypeOK, IInv, SidesInOrder, ListeningInv, Timers
    PROVE  ListeningInv'
<1>1. CASE ApprovalTimeout
  BY <1>1, ListeningOfRejection DEF ApprovalTimeout
<1>2. CASE CapabilityTimeout \/ ReconnectTimeout \/ SessionCommandTimeout
  BY <1>2, ListeningOfFinishOn
  DEF CapabilityTimeout, ReconnectTimeout, SessionCommandTimeout
<1>3. CASE EndSessionAnswered
  BY <1>3, ListeningOfTearDown DEF EndSessionAnswered
<1>4. CASE StopWatchdog
  <2>1. sm.state = "Stopping" /\ sm'.role = sm.role /\ UNCHANGED <<available, stop>>
    BY <1>4 DEF StopWatchdog, MoveTo, TypeOK, Machine
  <2>2. ~available
    BY <2>1, AvailableElsewhere
  <2>3. sm.role = "Controlled" => link' \in {"Server", "Peer"}
    BY <1>4, <2>1 DEF StopWatchdog, ListeningInv, ServerStays, Serving, WithoutPeer
  <2>. QED
    BY <2>1, <2>2, <2>3, ListeningEnds DEF Serving
<1>5. CASE RollbackTimeout
  <2>1. sm.state \in {"Idle", "ShutdownTimedOut"} /\ ~stop.started
    BY <1>5 DEF RollbackTimeout, IInv, RollbackIsExclusive, RollbackInOrder
  <2>2. sm' = sm \/ sm'.state = "ShutdownTimedOut"
    BY <1>5 DEF RollbackTimeout, MoveTo, TypeOK, Machine
  <2>3. ~available' /\ UNCHANGED stop
    BY <1>5, <2>1, AvailableElsewhere DEF RollbackTimeout, stopVars
  <2>4. ~Serving'
    BY <2>1, <2>2, <2>3
    DEF Serving, InUse, ActiveStates, NegotiatingStates, SetupStates
  <2>. QED
    BY <2>3, <2>4, ListeningEnds
<1>. QED
  BY <1>1, <1>2, <1>3, <1>4, <1>5 DEF Timers

LEMMA ResourcesListening ==
    ASSUME TypeOK, ListeningInv, Resources
    PROVE  ListeningInv'
<1>1. CASE TransportShutdownFinished \/ CaptureShutdownFinished
  BY <1>1, ListeningUntouched
  DEF TransportShutdownFinished, CaptureShutdownFinished, stopVars
<1>2. CASE CaptureFailure
  BY <1>2, ListeningOfFinish, ListeningUntouched
  DEF CaptureFailure, stopVars, ListeningInv, ServerStays
<1>3. CASE WorkerStarts \/ WorkerFinishes \/ WorkerFails
  BY <1>3, ListeningUntouched
  DEF WorkerStarts, WorkerFinishes, WorkerFails, WorkerStep, stopVars
<1>. QED
  BY <1>1, <1>2, <1>3 DEF Resources

LEMMA CallsListening ==
    ASSUME TypeOK, IInv, ListeningInv, Calls
    PROVE  ListeningInv'
<1>1. CASE DialFailed
  BY <1>1, ListeningOfFinishes DEF DialFailed
<1>2. CASE HandleRollback
  <2>1. Due("HandleRollback")
    BY <1>2 DEF HandleRollback, Called, Due
  <2>2. sm.state \in {"ShutdownTimedOut", "Idle"} /\ ~stop.started
    BY <2>1 DEF IInv, RollbackInOrder
  <2>3. sm' = sm \/ sm'.state = "Idle"
    BY <1>2 DEF HandleRollback, Finish, SettleIn, TypeOK, Machine
  <2>4. ~available' /\ UNCHANGED stop
    BY <1>2, <2>2, AvailableElsewhere DEF HandleRollback, stopVars
  <2>5. ~Serving'
    BY <2>2, <2>3, <2>4
    DEF Serving, InUse, ActiveStates, NegotiatingStates, SetupStates
  <2>. QED
    BY <2>4, <2>5, ListeningEnds
<1>3. CASE ExecutePendingRequest
  BY <1>3, ListeningOfNothing DEF ExecutePendingRequest
<1>4. CASE PeerShutdownFinished
  BY <1>4, ListeningUntouched DEF PeerShutdownFinished
<1>5. CASE FinishStopping
  <2>1. Due("FinishStopping") /\ CanCompleteShutdown(sm)
    BY <1>5 DEF FinishStopping, Called, Due
  <2>2. stop.started /\ ~available
    BY <2>1, AvailableElsewhere DEF IInv, StopInOrder, CanCompleteShutdown
  <2>3. ~stop'.started
    BY <1>5 DEF FinishStopping, TypeOK
  <2>4. CASE /\ sm.role = "Controlled" /\ sm' = Finish(sm, TRUE)
             /\ link' = WithoutPeer(link)
    <3>1. link' = "Server"
      BY <2>2, <2>4 DEF ListeningInv, ServerStays, Serving, WithoutPeer
    <3>2. sm'.state = "Listening"
      BY <2>4 DEF Finish, SettleIn, TypeOK, Machine
    <3>. QED
      BY <3>1, <3>2 DEF ListeningInv, AvailableMeansListening, ServerStays
  <2>5. CASE sm' = Finish(sm, FALSE) /\ UNCHANGED available
    <3>1. sm'.state = "Idle"
      BY <2>5 DEF Finish, SettleIn, TypeOK, Machine
    <3>2. ~Serving'
      BY <2>3, <3>1 DEF Serving, InUse, ActiveStates, NegotiatingStates, SetupStates
    <3>. QED
      BY <2>2, <2>5, <3>2, ListeningEnds
  <2>. QED
    BY <1>5, <2>4, <2>5 DEF FinishStopping
<1>. QED
  BY <1>1, <1>2, <1>3, <1>4, <1>5 DEF Calls

(* The endpoint is announced only while it listens with a server and no     *)
(* peer attached.  That a stop which will listen again still has its server *)
(* (ServerStays) is what makes it so.                                       *)
THEOREM AvailabilityCorrect == Spec => []AvailableMeansListening
<1>1. Init => ListeningInv
  BY DEF Init, NewMachine, ListeningInv, AvailableMeansListening, ServerStays, Serving
<1>2. TypeOK /\ IInv /\ SidesInOrder /\ ListeningInv /\ [Next]_vars => ListeningInv'
  <2>1. ASSUME TypeOK, IInv, SidesInOrder, ListeningInv, Next PROVE ListeningInv'
    BY <2>1, UserListening, SignalingListening, RemotePeerListening, TimersListening,
       ResourcesListening, CallsListening
    DEF Next
  <2>2. ASSUME ListeningInv, UNCHANGED vars PROVE ListeningInv'
    BY <2>2, ListeningOfNothing DEF vars
  <2>. QED
    BY <2>1, <2>2
<1>3. ListeningInv => AvailableMeansListening
  BY DEF ListeningInv
<1>. QED
  BY <1>1, <1>2, <1>3, TypeCorrect, InvariantCorrect, SidesCorrect, PTL DEF Spec

(* What the endpoint lends to others, its screen and its address, it lends  *)
(* only in the states that are for it.                                      *)
THEOREM ResourcesCorrect == Spec => []ResourcesFollowSession
<1>1. CaptureIsOwned /\ AvailableMeansListening => ResourcesFollowSession
  BY DEF ResourcesFollowSession
<1>. QED
  BY <1>1, CaptureCorrect, AvailabilityCorrect, PTL
==============================================================================
