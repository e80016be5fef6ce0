----------------------- MODULE DevicePairingInvariants -----------------------
(***************************************************************************)
(* The inductive invariants of DevicePairing, which DevicePairingProofs    *)
(* proves: IInv for the order of an attempt and for trust, StoreInv for    *)
(* the stores, and AgreeInv for what the two sides agree on.               *)
(***************************************************************************)
EXTENDS DevicePairing

(* A side while a handler runs, with what it has to send.                   *)
Handling == [stored : SUBSET TrustRecord, devices : SUBSET TrustRecord,
             before : SUBSET TrustRecord, transaction : Request,
             faults : Nat, flow : Flow, out : Seq(Message)]

(* What the users and the stores of a device did.                           *)
Past == [confirmed : SUBSET Request, committed : SUBSET Request,
         completed : SUBSET Request, revoked : SUBSET [id : Request, at : Request]]

Typed ==
    /\ TypeOK
    /\ channel \in [Device -> Seq(Message)]
    /\ history \in [Device -> Past]

(* Every mutual record a device has, or would go back to, is of "both".     *)
Sound(s, both) ==
    \A r \in s.stored \cup s.devices \cup s.before :
        r.commitState = "Mutual" => r.id \in both

(* What stands behind an attempt on one side: what its user confirmed, what *)
(* the peer's user did and what the peer made durable, over all attempts;   *)
(* whether this one asks no user; its direction; whether the peer's Hello   *)
(* is known; and the Hello that the handler under way has sent, if it has.  *)
Context == [attempt : 1 .. MaxAttempt, mine : SUBSET Request, theirs : SUBSET Request,
            durable : SUBSET Request, alone : BOOLEAN, outgoing : BOOLEAN,
            greeted : BOOLEAN, hello : SUBSET Message]

(* How far a flow has got, and what that says.                              *)
InOrder(s, c) ==
    LET p == s.flow.progress IN
    /\ p # {} => s.flow.request = c.attempt /\ (s.flow.active \/ s.flow.authenticated)
    /\ s.flow.active => /\ ~s.flow.authenticated
                        /\ s.flow.trusted = c.alone
                        /\ s.flow.outgoing = c.outgoing
                        /\ s.flow.request \in {0, c.attempt}
    /\ s.flow.authenticated => /\ "localCommitted" \in p
                               /\ s.flow.request \in c.durable
    /\ "localDecision" \in p =>
           {"helloSent", "helloReceived"} \subseteq p /\ (c.alone \/ c.attempt \in c.mine)
    /\ "remoteDecision" \in p => {"helloSent", "helloReceived"} \subseteq p
    /\ "localPrepared" \in p => {"localDecision", "remoteDecision"} \subseteq p
    /\ "remotePrepared" \in p =>
           {"localDecision", "remoteDecision"} \subseteq p /\ (c.alone \/ c.attempt \in c.theirs)
    /\ "localCommitted" \in p => {"localPrepared", "remotePrepared"} \subseteq p
    /\ "remoteCommitted" \in p =>
           {"localPrepared", "remotePrepared"} \subseteq p /\ c.attempt \in c.durable
    /\ s.flow.active /\ s.flow.prompt => {"helloSent", "helloReceived"} \subseteq p

Confirmed(d) == history[d].confirmed
Both(d) == Confirmed(d) \cap Confirmed(Other(d))
Active(d) == side[d].flow.active
Heard(d) == "helloReceived" \in side[d].flow.progress
Spoke(d) == "helloSent" \in side[d].flow.progress
Known(d) == MutualCommitId(side[d].devices)

(* What stands behind the attempt of d between two handlers.                *)
Behind(d) ==
    [attempt |-> attempt, mine |-> Confirmed(d), theirs |-> Confirmed(Other(d)),
     durable |-> history[Other(d)].committed, alone |-> side[d].flow.trusted,
     outgoing |-> initiator = d, greeted |-> Heard(d), hello |-> {}]

(* One side: its records, its success, and its attempt under way.           *)
SideSound(d) ==
    /\ Sound(side[d], Both(d))
    /\ side[d].flow.authenticated => side[d].flow.request \in history[Other(d)].committed
    /\ link[d] # "down" => attempt # 0
    /\ Active(d) =>
        /\ link[d] = "open"
        /\ InOrder(side[d], Behind(d))
        /\ side[d].flow.outgoing => side[d].flow.request = attempt /\ Spoke(d)
        /\ ~side[d].flow.outgoing => (Spoke(d) <=> Heard(d))
        /\ "localCommitted" \in side[d].flow.progress => attempt \in history[d].committed

HelloFirst(d) == channel[d] # <<>> /\ channel[d][1].kind = "Hello"

(* The peer's Hello makes d trust it. *)
WillTrust(d) ==
    HelloFirst(d) /\ Known(d) # 0 /\ channel[d][1].trust = Known(d)

(* The messages on their way to d, and what they say of the other side.     *)
ChannelSound(d) ==
    LET e == Other(d) IN
    /\ \A i \in DOMAIN channel[d] :
        /\ channel[d][i].request = attempt
        /\ channel[d][i].kind = "Hello" => i = 1
        /\ channel[d][i].kind = "Committed" => attempt \in history[e].committed
        /\ channel[d][i].kind \in {"Decision", "Ready"} =>
            /\ link[d] # "secured"
            /\ attempt \in Confirmed(e) \/ ~Active(d)
               \/ (Heard(d) /\ side[d].flow.trusted) \/ (~Heard(d) /\ WillTrust(d))
    /\ link[d] = "secured" => channel[e] = <<>>
    /\ Active(d) /\ ~Spoke(d) => channel[e] = <<>> /\ ~(Active(e) /\ Heard(e))
    /\ HelloFirst(d) =>
        /\ Active(d) => ~Heard(d)
        /\ Active(e) => Spoke(e)
        /\ Active(e) /\ ~Heard(e) => channel[d][1].trust = Known(e)
    /\ Active(e) /\ Heard(e) =>
        /\ link[d] # "secured"
        /\ Active(d) /\ Heard(d) => side[d].flow.trusted = side[e].flow.trusted
        /\ Active(d) /\ ~Heard(d) =>
              HelloFirst(d) /\ side[e].flow.trusted = WillTrust(d)

IInv == \A d \in Device : SideSound(d) /\ ChannelSound(d)

-----------------------------------------------------------------------------
(* The disk.                                                                *)

(* Records that a load would leave as they are.                             *)
Settled(records) ==
    \A r, q \in records : r.commitState = "Mutual" /\ r = q

(* Records the store neither refuses to load nor to save; at most two       *)
(* identifiers are those of mutual records.                                 *)
Loadable(records) ==
    /\ \A r, q \in records : r.id = q.id => r = q
    /\ \A r, q \in records : r.commitState = "Pending" /\ q.commitState = "Pending" => r = q
    /\ \E i, j \in Nat : \A r \in records : r.commitState = "Mutual" => r.id \in {i, j}

(* Every record of the first is one of the second, edited.                  *)
SameShape(records, others) ==
    \A r \in records : \E q \in others : r.id = q.id /\ r.commitState = q.commitState

(* The record of a transaction is new among those it would replace.         *)
IsNew(n, s) ==
    /\ n.id = s.transaction
    /\ s.devices = s.before \cup {n}
    /\ \A r \in s.before : r.id # n.id

(* What the service of a device holds, and what its store does: the memory  *)
(* is settled but for a transaction's record, and the disk follows it but   *)
(* for crashes, faults and edits.                                           *)
Stock(s, a, crashed, edited) ==
    /\ s \in Handling
    /\ \A r \in s.stored \cup s.devices \cup s.before : r.id <= a
    /\ Settled(s.before)
    /\ s.transaction = 0 => Settled(s.devices)
    /\ s.transaction # 0 => \E n \in TrustRecord : IsNew(n, s)
    /\ Loadable(s.stored)
    /\ ~crashed /\ s.faults = 0 => SameShape(s.stored, s.devices)
    /\ ~edited /\ s.transaction # 0 => s.before \subseteq s.stored

(* How far the flow has got with it.                                        *)
InStep(s, a) ==
    LET p == s.flow.progress IN
    /\ p # {} => s.flow.active \/ (s.flow.authenticated /\ "localCommitted" \in p)
    /\ "localCommitted" \in p => "localPrepared" \in p
    /\ s.flow.active =>
        /\ p # {} => s.flow.request = a
        /\ s.transaction # 0 <=> ("localPrepared" \in p /\ ~s.flow.trusted)
        /\ s.transaction # 0 =>
              /\ s.transaction = a
              /\ "localCommitted" \in p => s.devices = Mutuals(s.devices)
        /\ s.transaction = 0 => \A r \in s.devices : r.id # a

Stocked(s, a, crashed, edited) == Stock(s, a, crashed, edited) /\ InStep(s, a)

Crashed == crashes # 0
Edited == edits # 0

(* A device that has not begun the attempt holds no record of it.           *)
StoreSound(d) ==
    /\ Stocked(side[d], attempt, Crashed, Edited)
    /\ link[d] = "secured" => Stock(side[d], attempt - 1, Crashed, Edited)

StoreInv == \A d \in Device : StoreSound(d)

-----------------------------------------------------------------------------
(* What the two sides of a connection have to do with each other.           *)

(* The scopes a side goes by: those of the controlled device.               *)
Decided(s) == IF s.flow.outgoing THEN s.flow.theirs ELSE s.flow.mine
(* The flags of a flow: those of the users' decisions, all that follow, and *)
(* those the peer sets.                                                     *)
Decisions == {"localDecision", "remoteDecision"}
Exchanged == Decisions \cup {"localPrepared", "remotePrepared", "localCommitted", "remoteCommitted"}
Told == {"helloReceived", "remoteDecision", "remotePrepared", "remoteCommitted"}
(* The flow is under way, or has succeeded.                                 *)
Alive(s) == s.flow.active \/ s.flow.authenticated

(* A message of that kind and with such scopes is among the first ones of a *)
(* queue, or in it at all.                                                  *)
Before(q, i, kind, scopes) ==
    \E j \in DOMAIN q : j < i /\ q[j].kind = kind /\ q[j].scopes \in scopes
Holds(q, kind, scopes) ==
    \E j \in DOMAIN q : q[j].kind = kind /\ q[j].scopes \in scopes

(* What the records of a side say of its flow: of a trusting side, one       *)
(* allows what it grants; of another one, the new record is of the scopes    *)
(* agreed on, and mutual once it has committed; and the disk follows but for *)
(* edits and faults.                                                         *)
Own(s, edited) ==
    LET p == s.flow.progress IN
    /\ Alive(s) => edited \/ s.faults # 0 \/ s.stored = s.devices
    /\ s.flow.active =>
        /\ s.flow.prompt => ~s.flow.trusted
        /\ s.transaction # 0 <=> ("localPrepared" \in p /\ ~s.flow.trusted)
        /\ s.transaction # 0 => s.transaction = s.flow.request
        /\ s.flow.trusted /\ ~s.flow.outgoing /\ "localDecision" \in p =>
              \E r \in Mutuals(s.devices) : s.flow.mine \subseteq r.limit
        /\ ~s.flow.trusted /\ "localPrepared" \in p =>
              \E r \in s.devices : r.id = s.flow.request /\ r.limit = s.flow.effective
        /\ ~s.flow.trusted /\ "localCommitted" \in p =>
              \A r \in s.devices : r.id = s.flow.request => r.commitState = "Mutual"
    /\ s.flow.authenticated /\ ~s.flow.outgoing =>
          \E r \in Mutuals(s.devices) : s.flow.effective \subseteq r.limit

(* A side as a handler finds it, or as it is once it has noted what it was   *)
(* told.                                                                     *)
Starts(s) ==
    LET p == s.flow.progress IN
    /\ s \in Handling /\ s.out = <<>>
    /\ ~Alive(s) => s.flow = IdleFlow
    /\ s.flow.authenticated => ~s.flow.active /\ Exchanged \subseteq p
    /\ "localPrepared" \in p => Decisions \subseteq p /\ s.flow.effective = Decided(s)
    /\ "localCommitted" \in p => {"localPrepared", "remotePrepared"} \subseteq p

(* The attempt of the connection has left its mark on a side.               *)
Live(d) == side[d].flow.request = attempt /\ side[d].flow.progress # {}

(* A side between two handlers.                                             *)
Rest(d) ==
    LET f == side[d].flow IN
    /\ Starts(side[d]) /\ Own(side[d], edits # 0)
    /\ f.request <= attempt
    /\ f.progress # {} => f.request # 0
    /\ f.active => "remoteCommitted" \notin f.progress

(* Each message to a side under way comes after those it rests on.          *)
Messages(d) ==
    LET p == side[d].flow.progress
        q == channel[d]
    IN Active(d) => \A i \in DOMAIN q :
        /\ q[i].kind = "Decision" => Heard(d) \/ HelloFirst(d)
        /\ q[i].kind = "Ready" =>
            /\ "localDecision" \in p
            /\ "remoteDecision" \in p \/ Before(q, i, "Decision", SUBSET Scope)
        /\ q[i].kind = "Committed" =>
            /\ "localPrepared" \in p
            /\ \/ "remotePrepared" \in p /\ q[i].scopes = Decided(side[d])
               \/ Before(q, i, "Ready", {q[i].scopes})
        /\ q[i].kind = "Access" => Before(q, i, "Committed", SUBSET Scope)

(* What the peer has done, such a side knows or is about to learn; and what *)
(* the peer knows, it has done.                                             *)
Follows(d) ==
    LET p == side[d].flow.progress
        f == side[Other(d)].flow
        q == channel[d]
    IN Active(d) /\ Live(Other(d)) =>
        /\ "localDecision" \in f.progress =>
              "remoteDecision" \in p \/ Holds(q, "Decision", SUBSET Scope)
        /\ "localPrepared" \in f.progress =>
              "remotePrepared" \in p \/ Holds(q, "Ready", {f.effective})
        /\ "localCommitted" \in f.progress => Holds(q, "Committed", {f.effective})
        /\ "remoteDecision" \in f.progress => "localDecision" \in p
        /\ "remotePrepared" \in f.progress => "localPrepared" \in p

(* The messages on their way are of the side that sent them.                *)
Sent(d) ==
    LET f == side[d].flow
        q == channel[Other(d)]
    IN Live(d) => \A i \in DOMAIN q :
        /\ q[i].kind = "Decision" => "localDecision" \in f.progress
        /\ q[i].kind = "Ready" => "localPrepared" \in f.progress /\ q[i].scopes = f.effective
        /\ q[i].kind = "Committed" => "localCommitted" \in f.progress

(* A side that knows that its peer has prepared goes by the same scopes.    *)
Accords(d) ==
    LET f == side[d].flow
        g == side[Other(d)].flow
    IN /\ f.request = g.request
       /\ "remotePrepared" \in f.progress
       /\ "localPrepared" \in g.progress
       => Decided(side[d]) = g.effective

(* Nothing but a Hello, and the end, can come before an attempt has begun.  *)
Waits(d) ==
    LET e == Other(d)
        q == channel[d]
    IN link[d] = "secured" =>
        /\ \A i \in DOMAIN q : q[i].kind \in {"Hello", "Rejected"}
        /\ Live(e) => side[e].flow.progress \subseteq {"helloSent"}
        /\ side[d].flow.request < attempt

(* Which pairing the two sides remember each other by: the same one where a *)
(* side trusts the other, and after success that or the new one.            *)
Remembers(d) ==
    LET e == Other(d)
        f == side[d].flow
        g == side[Other(d)].flow
    IN /\ f.active /\ g.active /\ Heard(d) /\ f.trusted => Known(d) = Known(e)
       /\ f.authenticated /\ g.active /\ f.request = g.request =>
             Known(d) = IF g.trusted THEN Known(e) ELSE f.request
       /\ f.authenticated /\ g.authenticated /\ f.request = g.request => Known(d) = Known(e)

(* All that binds a side to its peer and to the messages it is sent.        *)
Bound(d) ==
    /\ Rest(d) /\ Messages(d) /\ Follows(d) /\ Sent(d)
    /\ Accords(d) /\ Waits(d) /\ Remembers(d)

AgreeInv == \A d \in Device : Bound(d)
=============================================================================
