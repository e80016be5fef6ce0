------------------------- MODULE SessionContractProofs -------------------------
(***************************************************************************)
(* KSessionCoordinator implements the SessionLifecycle contract, step by   *)
(* step: every step of the coordinator is a step of the contract or leaves *)
(* phase, transport, generation and early alone.                           *)
(*                                                                         *)
(* The contract says when a transport is up, so the steps rest on IInv: a  *)
(* stop keeps its transport until the teardown, a request that finds the   *)
(* endpoint free finds no transport up, a stop ends with the transport     *)
(* gone, or is an early one.                                               *)
(***************************************************************************)
EXTENDS SessionContract, SessionCoordinatorProofs

(* A step of the contract, a stutter included.                              *)
LifecycleStep == [Lifecycle!Next]_(Lifecycle!vars)

------------------------------------------------------------------------------
(* The refinement mapping.                                                  *)

LEMMA PhaseFacts ==
    ASSUME NEW m \in Machine
    PROVE  /\ m.state = "Idle" => PhaseOf(m) = "Idle"
           /\ m.state = "Listening" => PhaseOf(m) = "Listening"
           /\ m.state \in ActiveStates => PhaseOf(m) = "Active"
           /\ m.state = "Stopping" => PhaseOf(m) = "Stopping"
           /\ m.state = "ShutdownTimedOut" => PhaseOf(m) = "TimedOut"
BY DEF PhaseOf, HasActiveSession, ActiveStates, NegotiatingStates, SetupStates,
       RestingStates

LEMMA UseFacts ==
    ASSUME NEW t \in Transport
    PROVE  /\ t.phase = "Idle" => UseOf(t) = "Gone"
           /\ t.phase = "Ready" => UseOf(t) = "Up"
           /\ t.phase = "ShuttingDown" => UseOf(t) = "Leaving"
BY DEF UseOf, Transport

(* What the contract sees depends on these fields only.                     *)
LEMMA SamePhase ==
    ASSUME NEW m, NEW n, m.state = n.state
    PROVE  PhaseOf(m) = PhaseOf(n)
BY DEF PhaseOf, HasActiveSession

LEMMA SameUse ==
    ASSUME NEW t, NEW u, t.phase = u.phase
    PROVE  UseOf(t) = UseOf(u)
BY DEF UseOf

(* No step but a stop's beginning and end changes it.                       *)
EarlyKept == stop'.early = stop.early

LEMMA Hidden ==
    ASSUME PhaseOf(sm') = PhaseOf(sm), sm'.gen = sm.gen,
           UseOf(transport') = UseOf(transport), EarlyKept
    PROVE  LifecycleStep
BY DEF EarlyKept, LifecycleStep, Lifecycle!vars, Phase, TransportUse

LEMMA HiddenState ==
    ASSUME sm'.state = sm.state, sm'.gen = sm.gen,
           transport'.phase = transport.phase, EarlyKept
    PROVE  LifecycleStep
BY Hidden, SamePhase, SameUse

(* The steps within a session.                                              *)
LEMMA HiddenSession ==
    ASSUME TypeOK, TypeOK', sm.state \in ActiveStates, sm'.state \in ActiveStates,
           sm'.gen = sm.gen, transport'.phase = transport.phase, EarlyKept
    PROVE  LifecycleStep
BY Hidden, PhaseFacts, SameUse DEF TypeOK

------------------------------------------------------------------------------
(* The steps of the contract.                                               *)

LEMMA StopStep ==
    ASSUME TypeOK, TypeOK', sm.state \in InUse, sm'.state = "Stopping",
           sm'.gen = sm.gen, transport'.phase \in {"Ready", "ShuttingDown"},
           stop'.early \in BOOLEAN, stop'.early => sm.state = "Connecting"
    PROVE  LifecycleStep
<1>1. /\ PhaseOf(sm) \in {"Listening", "Active"} /\ PhaseOf(sm') = "Stopping"
      /\ sm.state = "Connecting" => PhaseOf(sm) = "Active"
  BY PhaseFacts DEF TypeOK, InUse, ActiveStates, NegotiatingStates
<1>2. UseOf(transport') \in {"Up", "Leaving"}
  BY UseFacts DEF TypeOK
<1>. QED
  BY <1>1, <1>2
  DEF LifecycleStep, Lifecycle!Next, Lifecycle!Stop, Phase, TransportUse

LEMMA TearDownIsStep ==
    ASSUME TypeOK, TypeOK', sm.state = "Stopping", UNCHANGED sm, EarlyKept,
           transport.phase = "Ready", transport'.phase = "ShuttingDown"
    PROVE  LifecycleStep
<1>1. PhaseOf(sm) = "Stopping" /\ PhaseOf(sm') = PhaseOf(sm)
  BY PhaseFacts DEF TypeOK
<1>2. UseOf(transport) = "Up" /\ UseOf(transport') = "Leaving"
  BY UseFacts DEF TypeOK
<1>. QED
  BY <1>1, <1>2
  DEF EarlyKept, LifecycleStep, Lifecycle!Next, Lifecycle!TearDown, Phase, TransportUse

(* A request that finds the endpoint free opens it, fails to, or is         *)
(* rejected.                                                                *)
LEMMA OpenStep ==
    ASSUME TypeOK, TypeOK', sm.state = "Idle", EarlyKept,
           \/ /\ sm'.state \in {"Listening", "Connecting"} /\ sm'.gen = sm.gen + 1
              /\ transport.phase = "Idle" /\ transport'.phase = "Ready"
           \/ /\ UNCHANGED sm
              /\ transport.phase = "Idle" /\ transport'.phase = "ShuttingDown"
    PROVE  LifecycleStep
<1>1. /\ PhaseOf(sm) = "Idle" /\ UseOf(transport) = "Gone"
      /\ sm'.state \in {"Listening", "Connecting"} =>
            PhaseOf(sm') \in {"Listening", "Active"}
      /\ transport'.phase = "Ready" => UseOf(transport') = "Up"
      /\ transport'.phase = "ShuttingDown" => UseOf(transport') = "Leaving"
  BY PhaseFacts, UseFacts DEF TypeOK, ActiveStates, NegotiatingStates
<1>. QED
  BY <1>1
  DEF EarlyKept, LifecycleStep, Lifecycle!Next, Lifecycle!Open,
      Lifecycle!FailToOpen, Phase, TransportUse

LEMMA FinishIsStep ==
    ASSUME TypeOK, TypeOK', CanCompleteShutdown(sm), sm'.gen = sm.gen,
           transport.phase = "Idle", ~stop'.early,
           \/ sm'.state = "Idle" /\ transport'.phase \in {"Idle", "ShuttingDown"}
           \/ sm'.state = "Listening" /\ transport'.phase = "Ready"
    PROVE  LifecycleStep
<1>1. PhaseOf(sm) \in {"Stopping", "TimedOut"} /\ UseOf(transport) = "Gone"
  BY PhaseFacts, UseFacts DEF TypeOK, CanCompleteShutdown
<1>2. \/ PhaseOf(sm') = "Idle" /\ UseOf(transport') \in {"Gone", "Leaving"}
      \/ PhaseOf(sm') = "Listening" /\ UseOf(transport') = "Up"
  BY PhaseFacts, UseFacts DEF TypeOK
<1>. QED
  BY <1>1, <1>2
  DEF TypeOK, LifecycleStep, Lifecycle!Next, Lifecycle!Finish, Phase, TransportUse

(* The end of an early stop.                                                *)
LEMMA FinishEarlyIsStep ==
    ASSUME TypeOK, TypeOK', CanCompleteShutdown(sm), sm'.gen = sm.gen,
           transport.phase = "ShuttingDown", UNCHANGED transport,
           sm'.state = "Idle", stop.early, ~stop'.early
    PROVE  LifecycleStep
<1>1. /\ PhaseOf(sm) \in {"Stopping", "TimedOut"} /\ PhaseOf(sm') = "Idle"
      /\ UseOf(transport) = "Leaving" /\ UseOf(transport') = UseOf(transport)
  BY PhaseFacts, UseFacts DEF TypeOK, CanCompleteShutdown
<1>. QED
  BY <1>1
  DEF TypeOK, LifecycleStep, Lifecycle!Next, Lifecycle!FinishEarly, Phase, TransportUse

------------------------------------------------------------------------------
(* finishSession, wherever it is called from.                               *)

LEMMA TearDownSheds ==
    ASSUME NEW g, NEW c, TearDown(g, c)
    PROVE  transport'.phase = "ShuttingDown"
BY DEF TearDown, RequestTransportShutdown

LEMMA FinishSessionIsStep ==
    ASSUME TypeOK, TypeOK', IInv, NEW keep, NEW notify, NEW c,
           FinishSessionWith(keep, notify, c)
    PROVE  LifecycleStep
<1>1. CASE BeginStopping(keep, notify, c)
  <2>1. sm.state \in InUse /\ sm'.state = "Stopping" /\ sm'.gen = sm.gen
    BY <1>1, StoppableIsInUse DEF BeginStopping, MoveTo, TypeOK, Machine
  <2>2. transport.phase = "Ready"
    BY <2>1, InUseFacts
  <2>3. transport'.phase \in {"Ready", "ShuttingDown"}
    BY <1>1, <2>2, TearDownSheds DEF BeginStopping, AwaitAnswer, peerVars
  <2>4. stop'.early = (sm.state = "Connecting" /\ calls' # <<>>)
    <3>1. \E started : stop' = StopOf(keep, started)
      BY <1>1 DEF BeginStopping, AwaitAnswer
    <3>. QED
      BY <3>1 DEF StopOf
  <2>5. stop'.early \in BOOLEAN
    BY DEF TypeOK
  <2>6. stop'.early => sm.state = "Connecting"
    BY <2>4
  <2>. QED
    BY <2>1, <2>3, <2>5, <2>6, StopStep
<1>2. CASE ~BeginStopping(keep, notify, c)
  BY <1>2, HiddenState DEF FinishSessionWith, stopVars, peerVars, EarlyKept
<1>. QED
  BY <1>1, <1>2

LEMMA FinishIsLifecycleStep ==
    ASSUME TypeOK, TypeOK', IInv
    PROVE  /\ \A keep, notify : FinishSession(keep, notify) => LifecycleStep
           /\ FinishRemotely => LifecycleStep
           /\ \A condition, keep, notify :
                 FinishOn(condition, keep, notify) => LifecycleStep
BY FinishSessionIsStep DEF FinishSession, FinishRemotely, FinishOn

LEMMA ContinueIsStep ==
    ASSUME TypeOK, TypeOK', IInv, ContinueStoppingTeardown
    PROVE  LifecycleStep
<1>1. sm.state = "Stopping" /\ UNCHANGED sm
  BY DEF ContinueStoppingTeardown
<1>2. transport.phase = "Ready"
  BY DEF ContinueStoppingTeardown, IInv, PeerMatchesState, PeerReady, HoldsPeer
<1>3. EarlyKept
  BY DEF ContinueStoppingTeardown, EarlyKept, TypeOK
<1>. QED
  BY <1>1, <1>2, <1>3, TearDownSheds, TearDownIsStep DEF ContinueStoppingTeardown

LEMMA UnchangedIsStep ==
    ASSUME UNCHANGED sessionVars
    PROVE  LifecycleStep
BY HiddenState DEF sessionVars, stopVars, peerVars, EarlyKept

LEMMA PostponedIsStep ==
    ASSUME TypeOK, TypeOK', IInv, NEW op, Postponed(op)
    PROVE  LifecycleStep
BY UnchangedIsStep, FinishIsLifecycleStep DEF Postponed

LEMMA MoveIsStep ==
    ASSUME TypeOK, TypeOK', NEW condition, NEW m, MoveOn(condition, m),
           sm.state \in ActiveStates, m.state \in ActiveStates, m.gen = sm.gen
    PROVE  LifecycleStep
BY HiddenSession DEF MoveOn, stopVars, peerVars, EarlyKept

------------------------------------------------------------------------------
(* The actions.                                                             *)

LEMMA ListeningIsStep ==
    ASSUME TypeOK, TypeOK', IInv, Free, EarlyKept,
           NEW outcome \in InitializationOutcomes, StartListening(outcome)
    PROVE  LifecycleStep
<1>1. sm.state = "Idle" /\ ~peer.rollback /\ transport.phase # "Ready"
  BY FreeFacts DEF Free
<1>2. outcome \in {"Ready", "Failed", "Rejected"}
      /\ (outcome \in {"Ready", "Failed"} => transport.phase = "Idle")
  BY DEF InitializationOutcomes
<1>3. CASE InitializePeer(outcome) /\ outcome # "Ready" /\ UNCHANGED sm
  <2>1. CASE outcome = "Failed"
    BY <1>1, <1>2, <1>3, <2>1, OpenStep DEF InitializePeer
  <2>2. CASE outcome = "Rejected"
    BY <1>3, <2>2, HiddenState DEF InitializePeer
  <2>. QED
    BY <1>2, <1>3, <2>1, <2>2
<1>4. CASE InitializePeer(outcome) /\ outcome = "Ready" /\ sm' = BeginListening(sm)
  <2>1. sm'.state = "Listening" /\ sm'.gen = sm.gen + 1
    BY <1>4 DEF BeginListening
  <2>2. transport'.phase = "Ready"
    BY <1>4 DEF InitializePeer
  <2>. QED
    BY <1>1, <1>2, <1>4, <2>1, <2>2, OpenStep
<1>5. CASE /\ outcome = "Ready" /\ UNCHANGED sm
           /\ transport' = [phase |-> "ShuttingDown", gen |-> peer.gen + 1,
                            ice |-> "New"]
  BY <1>1, <1>2, <1>5, OpenStep
<1>. QED
  BY <1>3, <1>4, <1>5 DEF StartListening

LEMMA DialingIsStep ==
    ASSUME TypeOK, TypeOK', IInv, Free, EarlyKept,
           NEW outcome \in InitializationOutcomes, InitializePeer(outcome),
           \/ outcome # "Ready" /\ UNCHANGED sm
           \/ outcome = "Ready" /\ sm' = BeginConnecting(sm)
    PROVE  LifecycleStep
<1>1. sm.state = "Idle" /\ ~peer.rollback
  BY DEF Free
<1>2. outcome \in {"Ready", "Failed", "Rejected"}
      /\ (outcome \in {"Ready", "Failed"} => transport.phase = "Idle")
  BY DEF InitializationOutcomes
<1>3. CASE outcome = "Ready"
  <2>1. sm'.state = "Connecting" /\ sm'.gen = sm.gen + 1
    BY <1>3 DEF BeginConnecting
  <2>2. transport'.phase = "Ready"
    BY <1>3 DEF InitializePeer
  <2>. QED
    BY <1>1, <1>2, <1>3, <2>1, <2>2, OpenStep
<1>4. CASE outcome = "Failed"
  BY <1>1, <1>2, <1>4, OpenStep DEF InitializePeer
<1>5. CASE outcome = "Rejected"
  BY <1>5, HiddenState DEF InitializePeer
<1>. QED
  BY <1>2, <1>3, <1>4, <1>5

LEMMA UserIsStep == ASSUME TypeOK, TypeOK', IInv, User PROVE LifecycleStep
<1>1. ASSUME NEW r \in Roles, ChooseRole(r) PROVE LifecycleStep
  <2>1. CASE Refused
    BY <2>1, UnchangedIsStep DEF Refused
  <2>2. CASE Postponed(r)
    BY <2>2, PostponedIsStep
  <2>3. CASE sm' = SetRole(sm, r) /\ UNCHANGED <<stopVars, peerVars>>
    <3>1. sm'.state = sm.state /\ sm'.gen = sm.gen
      BY <2>3 DEF SetRole, TypeOK, Machine
    <3>. QED
      BY <2>3, <3>1, HiddenState DEF stopVars, peerVars, EarlyKept
  <2>4. CASE UNCHANGED sessionVars
    BY <2>4, UnchangedIsStep
  <2>. QED
    BY <1>1, <2>1, <2>2, <2>3, <2>4 DEF ChooseRole
<1>2. CASE StartSignalingServer
  BY <1>2, UnchangedIsStep, PostponedIsStep, ListeningIsStep
  DEF StartSignalingServer, Refused, stopVars, EarlyKept
<1>3. CASE ConnectSignaling
  <2>1. \/ Refused
        \/ Postponed("Connect")
        \/ Free /\ EarlyKept /\ \E outcome \in InitializationOutcomes :
              /\ InitializePeer(outcome)
              /\ \/ outcome # "Ready" /\ UNCHANGED sm
                 \/ outcome = "Ready" /\ sm' = BeginConnecting(sm)
    BY <1>3 DEF ConnectSignaling, stopVars, EarlyKept
  <2>. QED
    BY <2>1, UnchangedIsStep, PostponedIsStep, DialingIsStep DEF Refused
<1>4. CASE DisconnectSession \/ SetRemoteAccess
  BY <1>4, UnchangedIsStep, FinishIsLifecycleStep
  DEF DisconnectSession, SetRemoteAccess
<1>5. CASE StopStreaming
  BY <1>5, FinishIsLifecycleStep DEF StopStreaming
<1>6. CASE EnterRemoteDesktop
  <2>1. sm.state = "Connected"
    BY <1>6 DEF EnterRemoteDesktop, MoveOn, CanEnterRemoteDesktop
  <2>2. SettleIn(sm, "Streaming").state = "Streaming"
        /\ SettleIn(sm, "Streaming").gen = sm.gen
    BY DEF SettleIn, TypeOK, Machine
  <2>. QED
    BY <1>6, <2>1, <2>2, MoveIsStep DEF EnterRemoteDesktop, ActiveStates
<1>7. CASE LeaveRemoteDesktop
  <2>1. sm.state = "Streaming"
    BY <1>7 DEF LeaveRemoteDesktop, MoveOn, CanLeaveRemoteDesktop
  <2>2. SettleIn(sm, "Connected").state = "Connected"
        /\ SettleIn(sm, "Connected").gen = sm.gen
    BY DEF SettleIn, TypeOK, Machine
  <2>. QED
    BY <1>7, <2>1, <2>2, MoveIsStep DEF LeaveRemoteDesktop, ActiveStates
<1>. QED
  BY <1>1, <1>2, <1>3, <1>4, <1>5, <1>6, <1>7 DEF User
(* A peer comes to a listening endpoint and stays, or is refused at once.   *)
LEMMA AdmitStep ==
    ASSUME TypeOK, TypeOK', sm.state = "Listening",
           sm'.state \in {"AuthenticatingIdentity", "Listening"},
           sm'.gen = sm.gen + 1, transport'.phase = transport.phase, EarlyKept
    PROVE  LifecycleStep
<1>1. PhaseOf(sm) = "Listening" /\ PhaseOf(sm') \in {"Active", "Listening"}
  BY PhaseFacts DEF TypeOK, ActiveStates, NegotiatingStates, SetupStates
<1>2. UseOf(transport') = UseOf(transport)
  BY SameUse
<1>. QED
  BY <1>1, <1>2
  DEF EarlyKept, LifecycleStep, Lifecycle!Next, Lifecycle!Admit, Phase, TransportUse

LEMMA RefuseStep ==
    ASSUME TypeOK, TypeOK', sm.state \in ActiveStates, sm'.state = "Listening",
           sm'.gen = sm.gen, transport'.phase = transport.phase, EarlyKept
    PROVE  LifecycleStep
<1>1. PhaseOf(sm) = "Active" /\ PhaseOf(sm') = "Listening"
  BY PhaseFacts DEF TypeOK
<1>2. UseOf(transport') = UseOf(transport)
  BY SameUse
<1>. QED
  BY <1>1, <1>2
  DEF EarlyKept, LifecycleStep, Lifecycle!Next, Lifecycle!Refuse, Phase, TransportUse

LEMMA SetupIsActive == SetupStates \subseteq ActiveStates
BY DEF ActiveStates, NegotiatingStates

(* Only the controlled side has an incoming request to refuse: it listens   *)
(* again.                                                                   *)
LEMMA RejectionIsStep ==
    ASSUME TypeOK, TypeOK', IInv, SidesInOrder, RejectIncoming \/ RejectOutgoing
    PROVE  LifecycleStep
<1>1. CASE RejectIncoming
  <2>1. sm.state \in ActiveStates /\ sm.role = "Controlled"
    BY <1>1, SetupIsActive DEF RejectIncoming, SidesInOrder, SetupHasApproval
  <2>2. sm' = RejectConnection(sm) /\ UNCHANGED transport /\ EarlyKept
    BY <1>1 DEF RejectIncoming, stopVars, peerVars, EarlyKept
  <2>3. sm'.state = "Listening" /\ sm'.gen = sm.gen
    BY <2>1, <2>2 DEF RejectConnection, SettleIn, TypeOK, Machine
  <2>. QED
    BY <2>1, <2>2, <2>3, RefuseStep
<1>2. CASE RejectOutgoing
  BY <1>2, FinishIsLifecycleStep DEF RejectOutgoing
<1>. QED
  BY <1>1, <1>2

LEMMA ApproveIsStep == ASSUME TypeOK, TypeOK', Approve PROVE LifecycleStep
<1>1. sm' = MoveTo(sm, "Negotiating") /\ UNCHANGED transport /\ EarlyKept
  BY DEF Approve, stopVars, peerVars, EarlyKept
<1>2. sm'.state = "Negotiating" /\ sm'.gen = sm.gen
  BY <1>1 DEF MoveTo, TypeOK, Machine
<1>. QED
  BY <1>1, <1>2, HiddenSession
  DEF Approve, ActiveStates, NegotiatingStates, SetupStates

LEMMA SignalingIsStep ==
    ASSUME TypeOK, TypeOK', IInv, SidesInOrder, Signaling
    PROVE  LifecycleStep
<1>1. CASE OutgoingConnectionEstablished
  <2>1. CASE /\ sm.state = "Connecting" /\ sm' = BeginAuthenticatingIdentity(sm)
             /\ UNCHANGED <<stopVars, peerVars>>
    <3>1. sm'.state = "AuthenticatingIdentity" /\ sm'.gen = sm.gen
      BY <2>1 DEF BeginAuthenticatingIdentity, TypeOK, Machine
    <3>. QED
      BY <2>1, <3>1, HiddenSession
      DEF stopVars, peerVars, EarlyKept, ActiveStates, NegotiatingStates, SetupStates
  <2>. QED
    BY <1>1, <2>1, FinishIsLifecycleStep, UnchangedIsStep
    DEF OutgoingConnectionEstablished
<1>2. CASE OutgoingConnectionFailed
  BY <1>2, FinishIsLifecycleStep, UnchangedIsStep DEF OutgoingConnectionFailed
<1>3. CASE IncomingConnectionEstablished
  <2>1. ASSUME sm.state = "Listening", UNCHANGED <<stopVars, peerVars>>,
               \/ sm' = BeginAuthenticatingIdentity(sm)
               \/ sm' = RejectConnection(BeginAuthenticatingIdentity(sm))
        PROVE  LifecycleStep
    <3> DEFINE m == BeginAuthenticatingIdentity(sm)
    <3>1. /\ m.state = "AuthenticatingIdentity" /\ m.gen = sm.gen + 1
          /\ m.role = sm.role /\ m \in Machine
      BY <2>1, MachineTyping DEF BeginAuthenticatingIdentity, TypeOK, Machine
    <3>2. sm.role = "Controlled"
      BY <2>1 DEF SidesInOrder
    <3>3. RejectConnection(m).state = "Listening" /\ RejectConnection(m).gen = m.gen
      BY <3>1, <3>2 DEF RejectConnection, SettleIn, Machine
    <3>. QED
      BY <2>1, <3>1, <3>3, AdmitStep DEF stopVars, peerVars, EarlyKept
  <2>. QED
    BY <1>3, <2>1, UnchangedIsStep DEF IncomingConnectionEstablished
<1>4. CASE SignalingConnectionLost
  BY <1>4, FinishIsLifecycleStep, UnchangedIsStep DEF SignalingConnectionLost
<1>5. CASE PairingRequested \/ IdentityAuthenticated
  <2>1. /\ MoveTo(sm, "Pairing").state = "Pairing"
        /\ MoveTo(sm, "AwaitingApproval").state = "AwaitingApproval"
        /\ MoveTo(sm, "Pairing").gen = sm.gen
        /\ MoveTo(sm, "AwaitingApproval").gen = sm.gen
    BY DEF MoveTo, TypeOK, Machine
  <2>2. sm.state \in ActiveStates
    BY <1>5, SetupIsActive
    DEF PairingRequested, IdentityAuthenticated, MoveOn, SetupStates
  <2>. QED
    BY <1>5, <2>1, <2>2, MoveIsStep, SetupIsActive
    DEF PairingRequested, IdentityAuthenticated, SetupStates
<1>6. CASE \/ SecurityRejected \/ IncomingDecided \/ OutgoingDecided
  BY <1>6, RejectionIsStep, ApproveIsStep
  DEF SecurityRejected, IncomingDecided, OutgoingDecided
<1>7. CASE AccessRequestReceived
  BY <1>7, RejectionIsStep, ApproveIsStep, HiddenState
  DEF AccessRequestReceived, stopVars, peerVars, EarlyKept
<1>8. CASE InvalidSignalingMessage
  BY <1>8, RejectionIsStep, FinishIsLifecycleStep DEF InvalidSignalingMessage
<1>. QED
  BY <1>1, <1>2, <1>3, <1>4, <1>5, <1>6, <1>7, <1>8 DEF Signaling

LEMMA RemotePeerIsStep ==
    ASSUME TypeOK, TypeOK', IInv, RemotePeer
    PROVE  LifecycleStep
<1>1. CASE ConnectionRestored
  <2>1. transport'.phase = transport.phase
    BY <1>1 DEF ConnectionRestored, TypeOK, Transport
  <2>2. CASE sm.state = "Reconnecting"
    <3>1. /\ RestoreSession(sm).state \in {"Streaming", "Connected"}
          /\ RestoreSession(sm).gen = sm.gen
      BY DEF RestoreSession, SettleIn, TypeOK, Machine
    <3>. QED
      BY <1>1, <2>1, <2>2, <3>1, HiddenSession
      DEF ConnectionRestored, stopVars, EarlyKept, ActiveStates
  <2>3. CASE sm.state # "Reconnecting"
    BY <1>1, <2>1, <2>3, HiddenState DEF ConnectionRestored, stopVars, EarlyKept
  <2>. QED
    BY <2>2, <2>3
<1>2. CASE ConnectionInterrupted
  <2>1. transport'.phase = transport.phase
    BY <1>2 DEF ConnectionInterrupted, TypeOK, Transport
  <2>2. CASE CanBeginReconnecting(sm)
    <3>1. /\ BeginReconnecting(sm).state = "Reconnecting"
          /\ BeginReconnecting(sm).gen = sm.gen
      BY DEF BeginReconnecting, TypeOK, Machine
    <3>2. sm.state \in ActiveStates
      BY <2>2 DEF CanBeginReconnecting, HasActiveSession
    <3>. QED
      BY <1>2, <2>1, <2>2, <3>1, <3>2, HiddenSession
      DEF ConnectionInterrupted, stopVars, EarlyKept, ActiveStates
  <2>3. CASE ~CanBeginReconnecting(sm)
    BY <1>2, <2>1, <2>3, HiddenState DEF ConnectionInterrupted, stopVars, EarlyKept
  <2>. QED
    BY <2>2, <2>3
<1>3. CASE \/ ConnectionTerminated \/ InputChannelClosed \/ CapabilityRejected
           \/ SessionDataBeforeCapabilities \/ EndSessionReceived
  BY <1>3, FinishIsLifecycleStep
  DEF ConnectionTerminated, InputChannelClosed, CapabilityRejected,
      SessionDataBeforeCapabilities, EndSessionReceived
<1>4. CASE SessionChannelOpened
  BY <1>4, HiddenState DEF SessionChannelOpened, stopVars, peerVars, EarlyKept
<1>5. CASE SessionChannelClosed
  BY <1>5, ContinueIsStep, FinishIsLifecycleStep DEF SessionChannelClosed
<1>6. CASE CapabilitiesReceived
  <2>1. SettleIn(sm, "Connected").state = "Connected"
        /\ SettleIn(sm, "Connected").gen = sm.gen
    BY DEF SettleIn, TypeOK, Machine
  <2>. QED
    BY <1>6, <2>1, FinishIsLifecycleStep, HiddenSession
    DEF CapabilitiesReceived, stopVars, peerVars, EarlyKept, ActiveStates, NegotiatingStates
<1>7. CASE StartStreaming \/ StopStreamingReceived
  <2>1. /\ SettleIn(sm, "Streaming").state = "Streaming"
        /\ SettleIn(sm, "Streaming").gen = sm.gen
        /\ SettleIn(sm, "Connected").state = "Connected"
        /\ SettleIn(sm, "Connected").gen = sm.gen
    BY DEF SettleIn, TypeOK, Machine
  <2>2. sm.state \in ActiveStates /\ UNCHANGED transport /\ EarlyKept
    BY <1>7
    DEF EarlyKept, stopVars, StartStreaming, StopStreamingReceived, CanStartControlledStreaming,
        ActiveStates, peerVars
  <2>3. sm' = SettleIn(sm, "Streaming") \/ sm' = SettleIn(sm, "Connected")
    BY <1>7 DEF StartStreaming, StopStreamingReceived
  <2>. QED
    BY <2>1, <2>2, <2>3, HiddenSession DEF ActiveStates
<1>. QED
  BY <1>1, <1>2, <1>3, <1>4, <1>5, <1>6, <1>7 DEF RemotePeer
(* Both watchdogs find the transport already on its way down.               *)
LEMMA TimeOutStep ==
    ASSUME TypeOK, TypeOK', sm'.state = "ShutdownTimedOut", sm'.gen = sm.gen,
           UNCHANGED transport, EarlyKept,
           \/ sm.state = "Stopping" /\ transport.phase # "Ready"
           \/ sm.state = "Idle" /\ transport.phase = "ShuttingDown"
    PROVE  LifecycleStep
<1>1. \/ PhaseOf(sm) = "Stopping" /\ UseOf(transport) # "Up"
      \/ PhaseOf(sm) = "Idle" /\ UseOf(transport) = "Leaving"
  BY PhaseFacts, UseFacts DEF TypeOK, Transport
<1>2. PhaseOf(sm') = "TimedOut"
  BY PhaseFacts DEF TypeOK
<1>. QED
  BY <1>1, <1>2
  DEF EarlyKept, LifecycleStep, Lifecycle!Next, Lifecycle!TimeOut, Phase, TransportUse

LEMMA TimersIsStep ==
    ASSUME TypeOK, TypeOK', IInv, SidesInOrder, Timers
    PROVE  LifecycleStep
<1>1. CASE ApprovalTimeout
  BY <1>1, RejectionIsStep DEF ApprovalTimeout
<1>2. CASE CapabilityTimeout \/ ReconnectTimeout \/ SessionCommandTimeout
  BY <1>2, FinishIsLifecycleStep
  DEF CapabilityTimeout, ReconnectTimeout, SessionCommandTimeout
<1>3. CASE EndSessionAnswered
  BY <1>3, ContinueIsStep DEF EndSessionAnswered
<1>4. CASE StopWatchdog
  <2>1. sm.state = "Stopping" /\ sm' = MoveTo(sm, "ShutdownTimedOut")
        /\ UNCHANGED transport /\ shutdown.active /\ EarlyKept
    BY <1>4 DEF StopWatchdog, WatchdogDue, peerVars, EarlyKept
  <2>2. transport.phase # "Ready"
    BY <2>1
    DEF IInv, StopInOrder, PeerMatchesState, PeerReady, HoldsPeer, HasActiveSession,
        ActiveStates, NegotiatingStates, SetupStates
  <2>3. sm'.state = "ShutdownTimedOut" /\ sm'.gen = sm.gen
    BY <2>1 DEF MoveTo, TypeOK, Machine
  <2>. QED
    BY <2>1, <2>2, <2>3, TimeOutStep
<1>5. CASE RollbackTimeout
  <2>1. transport.phase = "ShuttingDown" /\ UNCHANGED transport /\ EarlyKept
    BY <1>5 DEF stopVars, EarlyKept, RollbackTimeout, IInv, RollbackIsExclusive
  <2>2. CASE sm.state = "Idle"
    <3>1. sm'.state = "ShutdownTimedOut" /\ sm'.gen = sm.gen
      BY <1>5, <2>2 DEF RollbackTimeout, MoveTo, TypeOK, Machine
    <3>. QED
      BY <2>1, <2>2, <3>1, TimeOutStep
  <2>3. CASE sm.state # "Idle"
    BY <1>5, <2>1, <2>3, HiddenState DEF RollbackTimeout
  <2>. QED
    BY <2>2, <2>3
<1>. QED
  BY <1>1, <1>2, <1>3, <1>4, <1>5 DEF Timers

LEMMA ResourcesIsStep ==
    ASSUME TypeOK, TypeOK', IInv, Resources
    PROVE  LifecycleStep
<1>1. CASE TransportShutdownFinished
  <2>1. /\ transport.phase = "ShuttingDown" /\ transport'.phase = "Idle"
        /\ UNCHANGED sm /\ EarlyKept
    BY <1>1 DEF TransportShutdownFinished, stopVars, EarlyKept, TypeOK, Transport
  <2>2. UseOf(transport) = "Leaving" /\ UseOf(transport') = "Gone"
    BY <2>1, UseFacts DEF TypeOK
  <2>. QED
    BY <2>1, <2>2
    DEF EarlyKept, LifecycleStep, Lifecycle!Next, Lifecycle!Release, Phase, TransportUse
<1>2. CASE CaptureShutdownFinished
  BY <1>2, HiddenState DEF CaptureShutdownFinished, peerVars, EarlyKept
<1>3. CASE CaptureFailure
  BY <1>3, FinishSessionIsStep, HiddenState
  DEF CaptureFailure, stopVars, peerVars, EarlyKept
<1>4. CASE WorkerStarts \/ WorkerFinishes \/ WorkerFails
  BY <1>4, HiddenState DEF WorkerStarts, WorkerFinishes, WorkerFails, WorkerStep,
                           stopVars, peerVars, EarlyKept
<1>. QED
  BY <1>1, <1>2, <1>3, <1>4 DEF Resources

(* finishStopping, with the transport gone: to a new peer or to none; of an *)
(* early stop, with its transport leaving, to none.                         *)
LEMMA FinishStoppingIsStep ==
    ASSUME TypeOK, TypeOK', IInv, FinishStopping
    PROVE  LifecycleStep
<1>1. Due("FinishStopping") /\ CanCompleteShutdown(sm)
  BY DEF FinishStopping, Called, Due
<1>2. ~peer.rollback /\ ~stop'.early /\ transport.phase # "Ready"
  BY <1>1
  DEF FinishStopping, TypeOK, IInv, StopInOrder, PeerMatchesState, PeerReady, HoldsPeer,
      CanCompleteShutdown, HasActiveSession, ActiveStates, NegotiatingStates, SetupStates
<1>3. /\ Finish(sm, FALSE).state = "Idle" /\ Finish(sm, FALSE).gen = sm.gen
      /\ Finish(sm, TRUE).gen = sm.gen
      /\ sm.role = "Controlled" => Finish(sm, TRUE).state = "Listening"
  BY DEF Finish, SettleIn, TypeOK, Machine
<1>4. ASSUME NEW outcome \in InitializationOutcomes, InitializePeer(outcome),
             sm.role = "Controlled", transport.phase = "Idle",
             \/ outcome = "Ready" /\ sm' = Finish(sm, TRUE)
             \/ outcome # "Ready" /\ sm' = Finish(sm, FALSE)
      PROVE  LifecycleStep
  <2>1. outcome \in {"Ready", "Failed"}
    BY <1>2, <1>4 DEF InitializationOutcomes
  <2>2. /\ outcome = "Ready" => transport'.phase = "Ready"
        /\ outcome = "Failed" => transport'.phase = "ShuttingDown"
    BY <1>4 DEF InitializePeer
  <2>. QED
    BY <1>1, <1>2, <1>3, <1>4, <2>1, <2>2, FinishIsStep
<1>5. CASE sm' = Finish(sm, FALSE) /\ UNCHANGED peerVars /\ transport.phase = "Idle"
  BY <1>1, <1>2, <1>3, <1>5, FinishIsStep DEF peerVars
<1>6. CASE transport.phase = "Idle"
  BY <1>4, <1>5, <1>6 DEF FinishStopping
<1>7. CASE transport.phase # "Idle"
  <2>1. transport.phase = "ShuttingDown"
    BY <1>2, <1>7 DEF TypeOK, Transport
  <2>2. stop.early /\ ~stop.keep
    BY <1>1, <1>7 DEF IInv, Released
  <2>3. sm' = Finish(sm, FALSE) /\ UNCHANGED transport
    BY <2>2 DEF FinishStopping, peerVars
  <2>. QED
    BY <1>1, <1>2, <1>3, <2>1, <2>2, <2>3, FinishEarlyIsStep
<1>. QED
  BY <1>6, <1>7

LEMMA CallsIsStep ==
    ASSUME TypeOK, TypeOK', IInv, Calls
    PROVE  LifecycleStep
<1>1. CASE DialFailed
  BY <1>1, FinishIsLifecycleStep DEF DialFailed
<1>2. CASE HandleRollback
  <2>1. Due("HandleRollback") /\ UNCHANGED transport /\ EarlyKept
    BY <1>2 DEF HandleRollback, Called, Due, stopVars, peerVars, EarlyKept
  <2>2. CASE UNCHANGED sm
    BY <2>1, <2>2, HiddenState
  <2>3. CASE sm.state = "ShutdownTimedOut" /\ sm' = Finish(sm, FALSE)
    <3>1. sm'.state = "Idle" /\ sm'.gen = sm.gen
      BY <2>3 DEF Finish, SettleIn, TypeOK, Machine
    <3>2. transport.phase = "Idle" /\ ~stop'.early
      BY <2>1 DEF IInv, Released, RollbackInOrder, EarlyKept
    <3>. QED
      BY <2>1, <2>3, <3>1, <3>2, FinishIsStep DEF CanCompleteShutdown
  <2>. QED
    BY <1>2, <2>2, <2>3 DEF HandleRollback
<1>3. CASE ExecutePendingRequest
  BY <1>3, UnchangedIsStep DEF ExecutePendingRequest
<1>4. CASE PeerShutdownFinished
  BY <1>4, HiddenState DEF PeerShutdownFinished, EarlyKept
<1>5. CASE FinishStopping
  BY <1>5, FinishStoppingIsStep
<1>. QED
  BY <1>1, <1>2, <1>3, <1>4, <1>5 DEF Calls

------------------------------------------------------------------------------
(* The endpoint implements the contract, whatever fails: requests,          *)
(* failures, timeouts and late releases lead through the phases in the      *)
(* order the rest of the program relies on, a phase has the transport it    *)
(* needs and no other, and none begins before the old transport is gone.    *)
THEOREM ContractCorrect == Spec => ImplementsLifecycle
<1>1. Init => Lifecycle!Init
  <2>. SUFFICES ASSUME Init PROVE Lifecycle!Init
    OBVIOUS
  <2>1. sm \in Machine /\ sm.state = "Idle" /\ sm.gen = 0 /\ stop.early = FALSE
    BY DEF Init, NewMachine, Machine, States, RestingStates, Roles
  <2>2. transport \in Transport /\ transport.phase = "Idle"
    BY DEF Init, Transport
  <2>. QED
    BY <2>1, <2>2, PhaseFacts, UseFacts DEF Lifecycle!Init, Phase, TransportUse
<1>2. TypeOK /\ TypeOK' /\ IInv /\ SidesInOrder /\ [Next]_vars => LifecycleStep
  <2>1. ASSUME TypeOK, TypeOK', IInv, SidesInOrder, Next PROVE LifecycleStep
    BY <2>1, UserIsStep, SignalingIsStep, RemotePeerIsStep, TimersIsStep,
       ResourcesIsStep, CallsIsStep
    DEF Next
  <2>2. ASSUME UNCHANGED vars PROVE LifecycleStep
    BY <2>2, UnchangedIsStep DEF vars
  <2>. QED
    BY <2>1, <2>2
<1>. QED
  BY <1>1, <1>2, TypeCorrect, InvariantCorrect, SidesCorrect, PTL
  DEF Spec, LifecycleStep, ImplementsLifecycle, Lifecycle!Spec
================================================================================
