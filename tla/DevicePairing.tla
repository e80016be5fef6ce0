---------------------------- MODULE DevicePairing ----------------------------
(***************************************************************************)
(* Two devices authenticate each other over one TLS connection and agree   *)
(* to trust each other: KDeviceAuthenticationFlow, KPairingCommand and     *)
(* KPairingTransaction on each side, the KTrustedDeviceService it writes   *)
(* through, and the trust list commands of KSessionCoordinator, which      *)
(* write the same store past it.                                           *)
(*                                                                         *)
(* A handler runs to completion on its device's thread.  It is written as  *)
(* an operator from a side (a record) to the side it leaves, the messages  *)
(* it emits collected in the field "out"; the argument "bad" is the set of *)
(* outside calls that fail while it runs.                                  *)
(***************************************************************************)
EXTENDS Integers, FiniteSets, Sequences

CONSTANTS
    Device,         \* the two devices
    Scope,          \* permission scopes; a controller always requests them all
    ViewScreen,     \* the scope without which an attempt is rejected
    FileTransfer,   \* the scope that automatic access does not count
    Grant,          \* the scope sets the controlled user chooses among
    MaxAttempt,     \* bound: connections, hence request identifiers
    MaxFault,       \* bound: failing saves and other outside calls
    MaxCrash,       \* bound: process crashes
    MaxEdit         \* bound: commands of the trusted device list

ASSUME DevicesAssumption == IsFiniteSet(Device) /\ Cardinality(Device) = 2
ASSUME ScopesAssumption ==
    /\ {ViewScreen, FileTransfer} \subseteq Scope
    /\ Grant \subseteq SUBSET Scope
ASSUME BoundsAssumption == {MaxAttempt, MaxFault, MaxCrash, MaxEdit} \subseteq Nat

VARIABLES
    side,       \* per device: trust store, service memory, authentication flow
    link,       \* per device: its end of the TLS connection
    channel,    \* per device: the messages on their way to it
    initiator,  \* the device that opened the connection
    attempt,    \* the request identifier of the connection, 0 before the first
    history,    \* per device: what its user and its store did, for the properties
    crashes,
    edits

vars == <<side, link, channel, initiator, attempt, history, crashes, edits>>

Other(d) == CHOOSE e \in Device : e # d

Request == 0 .. MaxAttempt
Link == {"down", "secured", "open"}
Progress == {"helloSent", "helloReceived", "localDecision", "remoteDecision",
             "localPrepared", "remotePrepared", "localCommitted", "remoteCommitted"}
\* The outside calls that can fail: the saves of each phase, and the exporter.
Failure == {"prepare", "commit", "cleanup", "rollback", "exporter"}
Failures == {bad \in SUBSET Failure : Cardinality(bad) <= MaxFault}

\* What a device remembers of the other one, per pairing.  Identifiers grow
\* with time, so the order of "id" is that of nPairedAtMs.
TrustRecord == [id : 1 .. MaxAttempt, commitState : {"Pending", "Mutual"},
                limit : SUBSET Scope, revoked : BOOLEAN]

Message == [kind : {"Hello", "Decision", "Ready", "Committed", "Rejected", "Access"},
            request : 1 .. MaxAttempt, trust : Request, scopes : SUBSET Scope]

Flow == [request : Request, outgoing : BOOLEAN, active : BOOLEAN,
         authenticated : BOOLEAN, prompt : BOOLEAN, trusted : BOOLEAN,
         within : BOOLEAN, progress : SUBSET Progress,
         mine : SUBSET Scope, theirs : SUBSET Scope, effective : SUBSET Scope,
         access : {"none", "accepted", "asked", "denied"}]

\* KDeviceAuthenticationFlow::clear, with the command it resets.
IdleFlow == [request |-> 0, outgoing |-> FALSE, active |-> FALSE,
             authenticated |-> FALSE, prompt |-> FALSE, trusted |-> FALSE,
             within |-> FALSE, progress |-> {},
             mine |-> {}, theirs |-> {}, effective |-> {}, access |-> "none"]

Side == [stored : SUBSET TrustRecord, devices : SUBSET TrustRecord,
         before : SUBSET TrustRecord, transaction : Request,
         faults : 0 .. MaxFault, flow : Flow, out : {<<>>}]

NewSide == [stored |-> {}, devices |-> {}, before |-> {}, transaction |-> 0,
            faults |-> 0, flow |-> IdleFlow, out |-> <<>>]

-----------------------------------------------------------------------------
(* The trusted device service and its store.                               *)

Mutuals(records) == {r \in records : r.commitState = "Mutual"}
Oldest(records) == CHOOSE r \in records : \A q \in records : r.id <= q.id

\* The record find() answers with, as a set with at most one element.
Found(records) ==
    IF Mutuals(records) = {} THEN records ELSE {Oldest(Mutuals(records))}

\* What load() keeps of the file: the oldest mutual record, no pending one.
Recovered(records) ==
    IF Mutuals(records) = {} THEN {} ELSE {Oldest(Mutuals(records))}

MutualCommitId(records) ==
    IF Mutuals(records) = {} THEN 0 ELSE Oldest(Mutuals(records)).id

Fault(s) == [s EXCEPT !.faults = @ + 1]

Save(s, records) == [s EXCEPT !.devices = records, !.stored = records]

ClearTransaction(s) == [s EXCEPT !.before = {}, !.transaction = 0]

HasTransaction(s) == s.transaction # 0 /\ s.transaction = s.flow.request

\* Fault: nothing is recovered.
LoadAsIs(s) == ClearTransaction(Save(s, s.stored))

Load(s) == ClearTransaction(Save(s, Recovered(s.stored)))

\* Fault: the new record takes the place of the old one.
PrepareInPlace(s) ==
    [Save(s, {[id |-> s.flow.request, commitState |-> "Pending",
               limit |-> s.flow.effective, revoked |-> FALSE]})
        EXCEPT !.before = s.devices, !.transaction = s.flow.request]

Prepare(s) ==
    [Save(s, s.devices \cup {[id |-> s.flow.request, commitState |-> "Pending",
                              limit |-> s.flow.effective, revoked |-> FALSE]})
        EXCEPT !.before = s.devices, !.transaction = s.flow.request]

Commit(s) ==
    Save(s, {IF r.id = s.flow.request THEN [r EXCEPT !.commitState = "Mutual"] ELSE r :
                r \in s.devices})

\* A rollback whose save fails leaves the failed records and the transaction.
Rollback(s, bad) ==
    IF ~HasTransaction(s) THEN s
    ELSE IF "rollback" \in bad THEN Fault(s)
    ELSE ClearTransaction(Save(s, s.before))

UpdateAuthenticated(s, bad) ==
    IF Found(s.devices) = {} THEN s
    ELSE IF "cleanup" \in bad THEN Fault(s)
    ELSE Save(s, s.devices)

\* Fault: the replaced record stays.
CompleteBeside(s, bad) == IF HasTransaction(s) THEN ClearTransaction(s) ELSE s

\* The records the new one replaces leave the memory even if the save fails.
Complete(s, bad) ==
    LET kept == {r \in s.devices : r.id = s.flow.request}
    IN  IF ~HasTransaction(s) THEN s
        ELSE IF kept = s.devices THEN ClearTransaction(s)
        ELSE IF "cleanup" \in bad
        THEN [ClearTransaction(Fault(s)) EXCEPT !.devices = kept]
        ELSE ClearTransaction(Save(s, kept))

-----------------------------------------------------------------------------
(* The authentication flow.                                                *)

Has(s, flags) == flags \subseteq s.flow.progress
Mark(s, flag) == [s EXCEPT !.flow.progress = @ \cup {flag}]

Send(s, kind, trust, scopes) ==
    [s EXCEPT !.out = Append(@, [kind |-> kind, request |-> s.flow.request,
                                 trust |-> trust, scopes |-> scopes])]

Clear(s, bad) == [Rollback(s, bad) EXCEPT !.flow = IdleFlow]

\* fail(): roll back, tell the other side when there is a request to name, clear.
Fail(s, notify, bad) ==
    Clear(IF notify /\ s.flow.request # 0 THEN Send(s, "Rejected", 0, {}) ELSE s, bad)

\* Fault: the local commit is enough.
TryCompleteAlone(s, bad) ==
    IF ~Has(s, {"localCommitted"}) \/ s.flow.authenticated THEN s
    ELSE [Complete(s, bad) EXCEPT
             !.flow.trusted = TRUE, !.flow.within = TRUE,
             !.flow.authenticated = TRUE, !.flow.active = FALSE, !.flow.prompt = FALSE]

\* Both Committed messages are exchanged.  The context is overwritten as the
\* code does: trusted, and within trust whatever inspectPeerTrust found.  A
\* controller goes on with its access request.
TryComplete(s, bad) ==
    IF ~Has(s, {"localCommitted", "remoteCommitted"}) \/ s.flow.authenticated THEN s
    ELSE LET updated == IF s.flow.trusted THEN UpdateAuthenticated(s, bad) ELSE s
             done == [Complete(updated, bad) EXCEPT
                         !.flow.trusted = TRUE, !.flow.within = TRUE,
                         !.flow.authenticated = TRUE, !.flow.active = FALSE,
                         !.flow.prompt = FALSE]
         IN  IF s.flow.outgoing THEN Send(done, "Access", 0, {}) ELSE done

TryCommit(s, bad) ==
    IF ~Has(s, {"localPrepared", "remotePrepared"}) \/ Has(s, {"localCommitted"}) THEN s
    ELSE IF ~s.flow.trusted /\ "commit" \in bad THEN Fail(Fault(s), TRUE, bad)
    ELSE LET saved == IF s.flow.trusted THEN s ELSE Commit(s)
         IN  TryComplete(Send(Mark(saved, "localCommitted"), "Committed", 0,
                              s.flow.effective), bad)

TryPrepare(s, bad) ==
    LET effective == IF s.flow.outgoing THEN s.flow.theirs ELSE s.flow.mine
        agreed == [s EXCEPT !.flow.effective = effective]
        saved == IF s.flow.trusted THEN agreed ELSE Prepare(agreed)
    IN  IF ~Has(s, {"localDecision", "remoteDecision"}) \/ Has(s, {"localPrepared"}) THEN s
        ELSE IF ViewScreen \notin effective THEN Fail(s, TRUE, bad)
        ELSE IF ~s.flow.trusted /\ "prepare" \in bad THEN Fail(Fault(agreed), TRUE, bad)
        ELSE IF ~s.flow.trusted /\ s.transaction # 0 THEN Fail(agreed, TRUE, bad)
        ELSE TryComplete(TryCommit(Send(Mark(saved, "localPrepared"), "Ready", 0, effective),
                                   bad), bad)

SendDecision(s, scopes, bad) ==
    IF Has(s, {"localDecision"}) THEN s
    ELSE TryPrepare(Send([Mark(s, "localDecision") EXCEPT !.flow.mine = scopes],
                         "Decision", 0, scopes), bad)

\* Fault: only the controller names the pairing it remembers.
SendHelloOneWay(s) ==
    IF Has(s, {"helloSent"}) THEN s
    ELSE Send(Mark(s, "helloSent"), "Hello",
              IF s.flow.outgoing THEN MutualCommitId(s.devices) ELSE 0, Scope)

SendHello(s) ==
    IF Has(s, {"helloSent"}) THEN s
    ELSE Send(Mark(s, "helloSent"), "Hello", MutualCommitId(s.devices), Scope)

\* Fault: a trusted device gets every scope.
DecideFully(s, bad) ==
    IF s.flow.trusted THEN SendDecision(s, Scope, bad)
    ELSE [s EXCEPT !.flow.prompt = TRUE]

\* A device that both sides remember by the same pairing decides by itself;
\* any other one asks its user to compare the numbers.
Decide(s, bad) ==
    IF s.flow.trusted
    THEN SendDecision(s, IF s.flow.outgoing THEN Scope
                         ELSE UNION {r.limit : r \in Found(s.devices)}, bad)
    ELSE IF "exporter" \in bad THEN Fail(Fault(s), TRUE, bad)
    ELSE [s EXCEPT !.flow.prompt = TRUE]

\* Fault: any remembered pairing is trusted.
HandleHelloTrusting(s, m, bad) ==
    LET trusted == MutualCommitId(s.devices) # 0
    IN  Decide(SendHello([Mark(s, "helloReceived") EXCEPT
                             !.flow.request = m.request, !.flow.trusted = trusted,
                             !.flow.within = trusted]), bad)

\* A side sends one Hello per connection, so classifyHello answers New.
HandleHello(s, m, bad) ==
    LET known == Found(s.devices)
        trusted == MutualCommitId(s.devices) # 0 /\ MutualCommitId(s.devices) = m.trust
        heard == [Mark(s, "helloReceived") EXCEPT
                     !.flow.request = m.request,
                     !.flow.trusted = trusted,
                     !.flow.within = /\ trusted
                                     /\ \A r \in known : Scope \ {FileTransfer} \subseteq r.limit]
    IN  IF s.flow.outgoing /\ s.flow.request # m.request THEN s
        ELSE IF \E r \in known : r.revoked THEN Fail(heard, TRUE, bad)
        ELSE Decide(SendHello(heard), bad)

HandleDecision(s, m, bad) ==
    IF ~Has(s, {"helloReceived"}) \/ Has(s, {"remoteDecision"}) THEN s
    ELSE TryPrepare([Mark(s, "remoteDecision") EXCEPT !.flow.theirs = m.scopes], bad)

HandleReady(s, m, bad) ==
    IF m.scopes # (IF s.flow.outgoing THEN s.flow.theirs ELSE s.flow.mine)
    THEN Fail(s, TRUE, bad)
    ELSE IF ~Has(s, {"localDecision", "remoteDecision"}) THEN s
    ELSE TryCommit(TryPrepare(Mark(s, "remotePrepared"), bad), bad)

HandleCommitted(s, m, bad) ==
    IF \/ m.scopes # s.flow.effective
       \/ ~Has(s, {"localPrepared", "remotePrepared"})
    THEN s
    ELSE TryComplete(TryCommit(Mark(s, "remoteCommitted"), bad), bad)

\* handleMessage: an inactive flow, and a message of another request, drop it.
Drops(s, m) == ~s.flow.active \/ (m.kind # "Hello" /\ m.request # s.flow.request)

HandleMessage(s, m, bad) ==
    CASE Drops(s, m) -> s
      [] ~Drops(s, m) /\ m.kind = "Hello" -> HandleHello(s, m, bad)
      [] ~Drops(s, m) /\ m.kind = "Rejected" -> Fail(s, FALSE, bad)
      [] ~Drops(s, m) /\ m.kind = "Decision" -> HandleDecision(s, m, bad)
      [] ~Drops(s, m) /\ m.kind = "Ready" -> HandleReady(s, m, bad)
      [] ~Drops(s, m) /\ m.kind = "Committed" -> HandleCommitted(s, m, bad)

\* handleAccessMessage on the controlled side, "answer" from the settings.
HandleAccess(s, m, answer) ==
    IF s.flow.outgoing \/ ~s.flow.authenticated \/ s.flow.request # m.request THEN s
    ELSE [s EXCEPT !.flow.access =
             IF answer = "accepted" /\ ~(s.flow.trusted /\ s.flow.within)
             THEN "asked" ELSE answer]

-----------------------------------------------------------------------------
(* The behaviour of the two devices.                                       *)

Init ==
    /\ side = [d \in Device |-> NewSide]
    /\ link = [d \in Device |-> "down"]
    /\ channel = [d \in Device |-> <<>>]
    /\ initiator \in Device
    /\ attempt = 0
    /\ history = [d \in Device |-> [confirmed |-> {}, committed |-> {}, completed |-> {},
                                    revoked |-> {}]]
    /\ crashes = 0
    /\ edits = 0

Recorded(h, s) ==
    [h EXCEPT !.committed = @ \cup (IF Has(s, {"localCommitted"}) THEN {s.flow.request} ELSE {}),
              !.completed = @ \cup (IF s.flow.authenticated THEN {s.flow.request} ELSE {})]

\* Fault: later messages overtake earlier ones.
RunUnordered(d, s, inbox) ==
    /\ s.faults + side[Other(d)].faults <= MaxFault
    /\ side' = [side EXCEPT ![d] = [s EXCEPT !.out = <<>>]]
    /\ channel' = [channel EXCEPT
                      ![d] = inbox,
                      ![Other(d)] = IF link[Other(d)] = "down" THEN @ ELSE s.out \o @]

\* Device d is left as s by a handler that leaves "inbox" to be received.
Run(d, s, inbox) ==
    /\ s.faults + side[Other(d)].faults <= MaxFault
    /\ side' = [side EXCEPT ![d] = [s EXCEPT !.out = <<>>]]
    /\ channel' = [channel EXCEPT
                      ![d] = inbox,
                      ![Other(d)] = IF link[Other(d)] = "down" THEN @ ELSE @ \o s.out]

\* A TLS connection between two devices that are both free.
Connect(d) ==
    /\ \A e \in Device : link[e] = "down"
    /\ attempt < MaxAttempt
    /\ attempt' = attempt + 1
    /\ initiator' = d
    /\ link' = [e \in Device |-> "secured"]
    /\ channel' = [e \in Device |-> <<>>]
    /\ UNCHANGED <<side, history, crashes, edits>>

\* beginOutgoing and beginIncoming: clear, load the trust store, and say Hello
\* on the side that connected.
Begin(d) ==
    LET loaded == Load(Clear(side[d], {}))
        begun == [loaded EXCEPT !.flow.active = TRUE]
    IN  /\ link[d] = "secured"
        /\ link' = [link EXCEPT ![d] = "open"]
        /\ IF initiator = d
           THEN Run(d, SendHello([begun EXCEPT !.flow.outgoing = TRUE,
                                              !.flow.request = attempt]), channel[d])
           ELSE Run(d, begun, channel[d])
        /\ UNCHANGED <<initiator, attempt, history, crashes, edits>>

\* The identity, the store or the source's admission refuses the attempt.
BeginRefused(d) ==
    /\ link[d] = "secured"
    /\ link' = [link EXCEPT ![d] = "open"]
    /\ Run(d, Fault(Clear(side[d], {})), channel[d])
    /\ UNCHANGED <<initiator, attempt, history, crashes, edits>>

Receive(d) ==
    /\ link[d] = "open"
    /\ channel[d] # <<>>
    /\ Head(channel[d]).kind # "Access"
    /\ \E bad \in Failures :
          LET s == HandleMessage(side[d], Head(channel[d]), bad)
          IN  /\ Run(d, s, Tail(channel[d]))
              /\ history' = [history EXCEPT ![d] = Recorded(@, s)]
    /\ UNCHANGED <<link, initiator, attempt, crashes, edits>>

ReceiveAccess(d) ==
    /\ link[d] = "open"
    /\ channel[d] # <<>>
    /\ Head(channel[d]).kind = "Access"
    /\ \E answer \in {"accepted", "asked", "denied"} :
          Run(d, HandleAccess(side[d], Head(channel[d]), answer), Tail(channel[d]))
    /\ UNCHANGED <<link, initiator, attempt, history, crashes, edits>>

\* The user confirms the numbers; a controlled user also grants scopes.
Accept(d, granted) ==
    LET answered == [side[d] EXCEPT !.flow.prompt = FALSE]
        scopes == IF side[d].flow.outgoing THEN Scope ELSE granted
    IN  /\ side[d].flow.active
        /\ side[d].flow.prompt
        /\ \E bad \in Failures :
              IF ViewScreen \in scopes
              THEN LET s == SendDecision(answered, scopes, bad)
                   IN  /\ Run(d, s, channel[d])
                       /\ history' = [history EXCEPT
                                         ![d].confirmed = @ \cup {side[d].flow.request}]
              ELSE /\ Run(d, Fail(answered, TRUE, bad), channel[d])
                   /\ UNCHANGED history
        /\ UNCHANGED <<link, initiator, attempt, crashes, edits>>

\* The user rejects or cancels, or the timer that runs all along expires.
Abandon(d) ==
    /\ side[d].flow.active
    /\ \E bad \in Failures : Run(d, Fail(side[d], TRUE, bad), channel[d])
    /\ UNCHANGED <<link, initiator, attempt, history, crashes, edits>>

\* connectionLost: an unfinished flow is cancelled without a message, an
\* authenticated one is left as it is.  What the peer sent last is lost.
Lose(d) ==
    /\ link[d] # "down"
    /\ link' = [link EXCEPT ![d] = "down"]
    /\ \E bad \in Failures :
          Run(d, IF side[d].flow.active THEN Clear(side[d], bad) ELSE side[d], <<>>)
    /\ UNCHANGED <<initiator, attempt, history, crashes, edits>>

\* Fault: the loss of the other end goes unnoticed.
HangUpOwn(d) ==
    /\ link[d] = "open"
    /\ ~side[d].flow.active
    /\ ~side[d].flow.authenticated
    /\ Lose(d)

\* The coordinator closes a connection whose authentication failed, and the
\* transport notices that the other end is gone.
HangUp(d) ==
    /\ \/ /\ link[d] = "open"
          /\ ~side[d].flow.active
          /\ ~side[d].flow.authenticated
       \/ link[Other(d)] = "down"
    /\ Lose(d)

\* The process dies and starts again: the store is all it keeps.
Crash(d) ==
    /\ crashes < MaxCrash
    /\ crashes' = crashes + 1
    /\ link' = [link EXCEPT ![d] = "down"]
    /\ Run(d, [NewSide EXCEPT !.stored = side[d].stored, !.faults = side[d].faults], <<>>)
    /\ UNCHANGED <<initiator, attempt, history, edits>>

\* The commands of the trusted device list load the file, change it and save
\* it; the flow's copy in memory does not see them.
Edit(d, records) ==
    /\ edits < MaxEdit
    /\ edits' = edits + 1
    /\ side[d].stored # {}
    /\ side' = [side EXCEPT ![d].stored = records]
    /\ UNCHANGED <<link, channel, initiator, attempt, crashes>>

Revoke(d) ==
    /\ Edit(d, {[r EXCEPT !.revoked = TRUE] : r \in side[d].stored})
    /\ history' = [history EXCEPT
                      ![d].revoked = @ \cup {[id |-> r.id, at |-> attempt] :
                                              r \in Mutuals(side[d].stored)}]

RePair(d) == Edit(d, {}) /\ UNCHANGED history

UpdateLimit(d, limit) ==
    /\ \E r \in side[d].stored :
          Edit(d, (side[d].stored \ {r}) \cup {[r EXCEPT !.limit = limit \cup {ViewScreen}]})
    /\ UNCHANGED history

Next ==
    \E d \in Device :
        \/ Connect(d)
        \/ Begin(d)
        \/ BeginRefused(d)
        \/ Receive(d)
        \/ ReceiveAccess(d)
        \/ \E granted \in Grant : Accept(d, granted)
        \/ Abandon(d)
        \/ Lose(d)
        \/ Crash(d)
        \/ Revoke(d)
        \/ RePair(d)
        \/ \E limit \in Grant : UpdateLimit(d, limit)

\* Event loops run and the kernel reports a closed connection.  Nothing is
\* assumed of users or of the network.
Fairness ==
    \A d \in Device :
        /\ WF_vars(Receive(d))
        /\ WF_vars(ReceiveAccess(d))
        /\ WF_vars(HangUp(d))

Spec == Init /\ [][Next]_vars /\ Fairness

-----------------------------------------------------------------------------
\* Every variable has its type.
TypeOK ==
    /\ side \in [Device -> Side]
    /\ link \in [Device -> Link]
    /\ \A d \in Device : \A i \in DOMAIN channel[d] : channel[d][i] \in Message
    /\ initiator \in Device
    /\ attempt \in Request
    /\ crashes \in 0 .. MaxCrash
    /\ edits \in 0 .. MaxEdit

Records(d) == side[d].stored \cup side[d].devices

\* A device never holds a mutual record of a pairing that one of the two users
\* did not confirm, through crashes, failed saves and failed rollbacks.
TrustNeedsBothUsers ==
    \A d, e \in Device : \A r \in Mutuals(Records(d)) : r.id \in history[e].confirmed

\* Once both sides have heard each other's Hello, either both skip the prompt
\* or both ask their user.
SidesDecideAlike ==
    \A d, e \in Device :
        /\ side[d].flow.active /\ Has(side[d], {"helloReceived"})
        /\ side[e].flow.active /\ Has(side[e], {"helloReceived"})
        => side[d].flow.trusted = side[e].flow.trusted

\* A side reports authentication only when the other one has made its own
\* commit durable in the same attempt.
SuccessNeedsPeerCommit ==
    \A d \in Device :
        side[d].flow.authenticated =>
            side[d].flow.request \in history[Other(d)].committed

\* What the two sides of an attempt know of each other: whether to ask the user,
\* and that the other one has committed.
AttemptsAgree == SidesDecideAlike /\ SuccessNeedsPeerCommit

\* Two authenticated sides hold the same permissions, a part of what the
\* record of the controlled side allows.
PermissionsAgree ==
    \A d, e \in Device :
        /\ side[d].flow.authenticated
        /\ side[e].flow.authenticated
        /\ side[d].flow.request = side[e].flow.request
        => /\ side[d].flow.effective = side[e].flow.effective
           /\ ~side[d].flow.outgoing =>
                \E r \in Mutuals(side[d].devices) : side[d].flow.effective \subseteq r.limit

\* While a pairing is under way the mutual record it would replace stays on
\* disk, unless the user edits the list.
RollbackPointStaysOnDisk ==
    edits = 0 => \A d \in Device : HasTransaction(side[d]) =>
                    Mutuals(side[d].before) \subseteq side[d].stored

\* No history of failed saves leaves a file that the store would refuse to
\* load or to save: at most two mutual records and a pending one per device.
StoreStaysLoadable ==
    \A d \in Device :
        /\ Cardinality(Mutuals(side[d].stored)) <= 2
        /\ Cardinality(side[d].stored \ Mutuals(side[d].stored)) <= 1
        /\ \A r, q \in side[d].stored : r.id = q.id => r = q

\* Rejections, timeouts and lost connections leave the store as it was or with
\* the new record alone: only a crash or a failed save leaves a trace to recover.
OnlyFailuresNeedRecovery ==
    (crashes = 0 /\ \A d \in Device : side[d].faults = 0) =>
        \A d \in Device : side[d].transaction = 0 =>
            Recovered(side[d].stored) = side[d].stored

\* What the disk holds can be returned to, loaded, and needs no repair of its own.
StoreIsSound ==
    RollbackPointStaysOnDisk /\ StoreStaysLoadable /\ OnlyFailuresNeedRecovery

\* Two sides that authenticated in the same attempt remember each other by the
\* same pairing, unless a save failed or the list was edited.
AgreementIsDurable ==
    \A d, e \in Device :
        /\ edits = 0 /\ side[d].faults = 0 /\ side[e].faults = 0
        /\ side[d].flow.authenticated /\ side[e].flow.authenticated
        /\ side[d].flow.request = side[e].flow.request
        => MutualCommitId(side[d].stored) = MutualCommitId(side[e].stored)

\* An access request reaches a controlled side that is done authenticating.
AccessFollowsAuthentication ==
    \A d \in Device :
        link[d] = "open" /\ channel[d] # <<>> /\ Head(channel[d]).kind = "Access" =>
            ~side[d].flow.active

\* Two sides that are authenticated agree on what that means: the permissions,
\* the record, and that the access request comes after it.
AuthenticationIsAgreed ==
    PermissionsAgree /\ AgreementIsDurable /\ AccessFollowsAuthentication

\* When one side has authenticated and the other has not, the other one does
\* or their connection ends: neither is left with a peer that gave up.
HalfAuthenticationEnds ==
    \A d \in Device :
        (side[d].flow.authenticated /\ link[d] = "open"
            /\ side[d].flow.request = attempt /\ ~side[Other(d)].flow.authenticated)
        ~> (link[d] = "down" \/ side[Other(d)].flow.authenticated)

\* docs/architecture/session-lifecycle.md: automatic access is only for a
\* device that is not revoked, so not in an attempt begun after its revocation.
AutomaticAccessNeedsTrust ==
    \A d \in Device :
        side[d].flow.access = "accepted" =>
            \A r \in Found(side[d].devices), v \in history[d].revoked :
                v.id = r.id => side[d].flow.request <= v.at
=============================================================================
