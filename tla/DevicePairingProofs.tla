------------------------- MODULE DevicePairingProofs -------------------------
(***************************************************************************)
(* Proofs about DevicePairing, for every set of scopes and every bound on  *)
(* connections, failures, crashes and edits of the trusted device list.    *)
(*                                                                         *)
(* What the two sides agree on is not inductive: what one side may do next *)
(* depends on what the other one has sent and has not been received yet.   *)
(* IInv relates them.  SideSound says what a flow's progress implies on    *)
(* its own device, and that every mutual record it could ever go back to   *)
(* is of two users; ChannelSound says what a message on its way says of    *)
(* the side that sent it, and what the first one will make of the other.   *)
(*                                                                         *)
(* The handlers are operators from a side to a side, so their lemmas are   *)
(* about one side: "Fit" is kept by every helper, whatever fails meanwhile, *)
(* and says enough of the messages left in "out".  "Leaves" is what the    *)
(* step of a device needs of that for IInv, and StepKeepsOrder is proved   *)
(* once for all of them; only the Hello, which decides whether the users   *)
(* are asked, and the first step of a connection have proofs of their own. *)
(*                                                                         *)
(* The store is proved with an invariant of one side, StoreInv, which      *)
(* every handler keeps, and the agreement of the two sides with AgreeInv,  *)
(* which relates the flags of one side with those of the other and with    *)
(* the messages between them.  A handler first notes what a message tells  *)
(* ("Learns") and then acts on what it knows ("Talk" is what it may say    *)
(* then, "Hold" what it may hold); "Acts" is the step of a device made of  *)
(* the two, and the Acts lemmas are proved once for all handlers.          *)
(***************************************************************************)
EXTENDS DevicePairingInvariants, FiniteSetTheorems, WellFoundedInduction,
        NaturalsInduction, TLAPS

-----------------------------------------------------------------------------
(* What a handler keeps true of the side it changes.                        *)
Fit(s, c) ==
    /\ s \in Handling
    /\ Sound(s, c.mine \cap c.theirs)
    /\ InOrder(s, c)
    /\ s.flow.active /\ c.greeted =>
           {"helloSent", "helloReceived"} \subseteq s.flow.progress
    /\ c.hello # {} => s.out # <<>> /\ s.out[1] \in c.hello
    /\ \A i \in DOMAIN s.out :
           /\ s.out[i].request = c.attempt
           /\ s.out[i].kind = "Hello" => i = 1 /\ s.out[i] \in c.hello
           /\ s.out[i].kind \in {"Decision", "Ready"} => c.alone \/ c.attempt \in c.mine
           /\ s.out[i].kind = "Committed" =>
                  s.flow.request = c.attempt /\ "localCommitted" \in s.flow.progress

\* A new flow changes nothing else of a side.
LEMMA FlowChanges ==
    ASSUME NEW s \in Handling, NEW f \in Flow
    PROVE  /\ [s EXCEPT !.flow = f] \in Handling
           /\ [s EXCEPT !.flow = f].flow = f
           /\ [s EXCEPT !.flow = f].stored = s.stored
           /\ [s EXCEPT !.flow = f].devices = s.devices
           /\ [s EXCEPT !.flow = f].before = s.before
           /\ [s EXCEPT !.flow = f].out = s.out
           /\ [s EXCEPT !.flow = f].transaction = s.transaction
BY DEF Handling

\* Send appends one message and changes nothing else.
LEMMA SendAppends ==
    ASSUME NEW s \in Handling, NEW kind \in {"Hello", "Decision", "Ready", "Committed", "Rejected", "Access"},
           NEW trust \in Request, NEW scopes \in SUBSET Scope, s.flow.request # 0
    PROVE  /\ Send(s, kind, trust, scopes) \in Handling
           /\ Send(s, kind, trust, scopes).flow = s.flow
           /\ Send(s, kind, trust, scopes).devices = s.devices
           /\ Send(s, kind, trust, scopes).stored = s.stored
           /\ Send(s, kind, trust, scopes).before = s.before
           /\ Send(s, kind, trust, scopes).out =
                Append(s.out, [kind |-> kind, request |-> s.flow.request,
                               trust |-> trust, scopes |-> scopes])
<1>. DEFINE m == [kind |-> kind, request |-> s.flow.request,
                  trust |-> trust, scopes |-> scopes]
<1>1. m \in Message
  BY BoundsAssumption DEF Message, Request, Handling, Flow
<1>2. Append(s.out, m) \in Seq(Message)
  BY <1>1 DEF Handling
<1>. QED
  BY <1>2 DEF Send, Handling

\* Mark adds a flag to the progress and changes nothing else.
LEMMA MarkAdds ==
    ASSUME NEW s \in Handling, NEW flag \in Progress
    PROVE  /\ Mark(s, flag) \in Handling
           /\ Mark(s, flag).flow = [s.flow EXCEPT !.progress = @ \cup {flag}]
           /\ Mark(s, flag).devices = s.devices
           /\ Mark(s, flag).stored = s.stored
           /\ Mark(s, flag).before = s.before
           /\ Mark(s, flag).out = s.out
BY DEF Mark, Handling, Flow

\* An attempt has a request identifier that is not 0.
LEMMA AttemptsAreCounted ==
    /\ 0 \in Request
    /\ \A c \in Context : c.attempt \in 1 .. MaxAttempt /\ c.attempt \in Request /\ c.attempt # 0
BY BoundsAssumption DEF Request, Context

\* A change of the records alone.
LEMMA SideFits ==
    ASSUME NEW c \in Context, NEW s, Fit(s, c),
           NEW t \in Handling, t.flow = s.flow, t.out = s.out,
           Sound(t, c.mine \cap c.theirs)
    PROVE  Fit(t, c)
BY DEF Fit, InOrder

\* A message after the Hello, sent when the progress allows it.
LEMMA SendFits ==
    ASSUME NEW c \in Context, NEW s, Fit(s, c),
           NEW kind \in {"Decision", "Ready", "Committed", "Rejected", "Access"},
           NEW trust \in Request, NEW scopes \in SUBSET Scope,
           s.flow.request = c.attempt,
           kind \in {"Decision", "Ready"} => c.alone \/ c.attempt \in c.mine,
           kind = "Committed" => "localCommitted" \in s.flow.progress
    PROVE  Fit(Send(s, kind, trust, scopes), c)
<1>. DEFINE t == Send(s, kind, trust, scopes)
            m == [kind |-> kind, request |-> s.flow.request,
                  trust |-> trust, scopes |-> scopes]
<1>1. /\ t \in Handling /\ t.flow = s.flow /\ t.devices = s.devices
      /\ t.stored = s.stored /\ t.before = s.before /\ t.out = Append(s.out, m)
  <2>1. s \in Handling /\ s.flow.request # 0
    BY AttemptsAreCounted DEF Fit
  <2>. QED
    BY <2>1, SendAppends
<1>. HIDE DEF t
<1>2. /\ DOMAIN s.out = 1 .. Len(s.out) /\ Len(s.out) \in Nat
      /\ DOMAIN t.out = 1 .. Len(s.out) + 1
      /\ \A i \in DOMAIN s.out : t.out[i] = s.out[i]
      /\ t.out[Len(s.out) + 1] = m
  BY <1>1 DEF Fit, Handling
<1>3. \A i \in DOMAIN t.out :
         /\ t.out[i].request = c.attempt
         /\ t.out[i].kind = "Hello" => i = 1 /\ t.out[i] \in c.hello
         /\ t.out[i].kind \in {"Decision", "Ready"} => c.alone \/ c.attempt \in c.mine
         /\ t.out[i].kind = "Committed" =>
                t.flow.request = c.attempt /\ "localCommitted" \in t.flow.progress
  BY <1>1, <1>2 DEF Fit
<1>4. c.hello # {} => t.out # <<>> /\ t.out[1] \in c.hello
  BY <1>1, <1>2 DEF Fit
<1>5. Sound(t, c.mine \cap c.theirs) /\ InOrder(t, c)
  BY <1>1 DEF Fit, Sound, InOrder
<1>. QED
  BY <1>1, <1>3, <1>4, <1>5 DEF Fit, t

\* A flag is set when those it stands on are.
LEMMA FlagFits ==
    ASSUME NEW c \in Context, NEW s, Fit(s, c),
           NEW flag \in Progress, s.flow.request = c.attempt, s.flow.active,
           flag \in {"localDecision", "remoteDecision"} => c.greeted,
           flag = "localDecision" => c.alone \/ c.attempt \in c.mine,
           flag = "localPrepared" => {"localDecision", "remoteDecision"} \subseteq s.flow.progress,
           flag = "remotePrepared" =>
               {"localDecision", "remoteDecision"} \subseteq s.flow.progress /\ (c.alone \/ c.attempt \in c.theirs),
           flag = "localCommitted" => {"localPrepared", "remotePrepared"} \subseteq s.flow.progress,
           flag = "remoteCommitted" =>
               {"localPrepared", "remotePrepared"} \subseteq s.flow.progress /\ c.attempt \in c.durable
    PROVE  Fit(Mark(s, flag), c)
<1>. DEFINE t == Mark(s, flag)
<1>1. /\ t \in Handling /\ t.flow = [s.flow EXCEPT !.progress = @ \cup {flag}]
      /\ t.devices = s.devices /\ t.stored = s.stored /\ t.before = s.before /\ t.out = s.out
  BY MarkAdds DEF Fit
<1>2. /\ t.flow.progress = s.flow.progress \cup {flag} /\ t.flow.request = s.flow.request
      /\ t.flow.active = s.flow.active /\ t.flow.authenticated = s.flow.authenticated
      /\ t.flow.prompt = s.flow.prompt /\ t.flow.trusted = s.flow.trusted
      /\ t.flow.outgoing = s.flow.outgoing
  BY <1>1 DEF Fit, Handling, Flow
<1>. HIDE DEF t
<1>3. InOrder(t, c)
  BY <1>2 DEF Fit, InOrder
<1>. QED
  BY <1>1, <1>2, <1>3 DEF Fit, Sound, t

\* The fields of a flow that Fit does not look at.
LEMMA FlowFits ==
    ASSUME NEW c \in Context, NEW s, Fit(s, c),
           NEW t \in Handling, t.out = s.out, t.devices = s.devices,
           t.stored = s.stored, t.before = s.before,
           t.flow.progress = s.flow.progress, t.flow.request = s.flow.request,
           t.flow.active = s.flow.active, t.flow.authenticated = s.flow.authenticated,
           t.flow.trusted = s.flow.trusted, t.flow.outgoing = s.flow.outgoing,
           t.flow.prompt => s.flow.prompt \/ c.greeted
    PROVE  Fit(t, c)
BY DEF Fit, InOrder, Sound

-----------------------------------------------------------------------------
(* The trusted device service keeps the records sound.                      *)

\* Saves, failed saves and the end of a transaction keep sound records sound.
LEMMA SavesFit ==
    ASSUME NEW c \in Context, NEW s, Fit(s, c), NEW records \in SUBSET TrustRecord,
           \A r \in records : r.commitState = "Mutual" => r.id \in c.mine \cap c.theirs
    PROVE  /\ Fit(Save(s, records), c)
           /\ Fit(Fault(s), c)
           /\ Fit(ClearTransaction(s), c)
           /\ Save(s, records).flow = s.flow
           /\ Fault(s).flow = s.flow
           /\ ClearTransaction(s).flow = s.flow
           /\ Fault(s).devices = s.devices /\ ClearTransaction(s).devices = s.devices
           /\ Fault(s).before = s.before
<1>1. Save(s, records) \in Handling /\ Sound(Save(s, records), c.mine \cap c.theirs)
      /\ Save(s, records).flow = s.flow /\ Save(s, records).out = s.out
  BY DEF Save, Handling, Fit, Sound
<1>2. Fault(s) \in Handling /\ Sound(Fault(s), c.mine \cap c.theirs)
      /\ Fault(s).flow = s.flow /\ Fault(s).out = s.out
      /\ Fault(s).devices = s.devices /\ Fault(s).before = s.before
  BY DEF Fault, Handling, Fit, Sound
<1>3. ClearTransaction(s) \in Handling /\ Sound(ClearTransaction(s), c.mine \cap c.theirs)
      /\ ClearTransaction(s).flow = s.flow /\ ClearTransaction(s).out = s.out
      /\ ClearTransaction(s).devices = s.devices
  BY AttemptsAreCounted DEF ClearTransaction, Handling, Fit, Sound
<1>. QED
  BY <1>1, <1>2, <1>3, SideFits

\* Rollback, the touch of an old record, and the end of a commit.
LEMMA ServiceFits ==
    ASSUME NEW c \in Context, NEW s, Fit(s, c), NEW bad
    PROVE  /\ Fit(Rollback(s, bad), c) /\ Rollback(s, bad).flow = s.flow
           /\ Fit(UpdateAuthenticated(s, bad), c) /\ UpdateAuthenticated(s, bad).flow = s.flow
           /\ Fit(Complete(s, bad), c) /\ Complete(s, bad).flow = s.flow
<1>0. /\ s.devices \in SUBSET TrustRecord /\ s.before \in SUBSET TrustRecord
      /\ \A r \in s.devices \cup s.before :
            r.commitState = "Mutual" => r.id \in c.mine \cap c.theirs
  BY DEF Fit, Handling, Sound
<1>1. Fit(Rollback(s, bad), c) /\ Rollback(s, bad).flow = s.flow
  <2>1. /\ Fit(Save(s, s.before), c) /\ Save(s, s.before).flow = s.flow
        /\ Fit(Fault(s), c) /\ Fault(s).flow = s.flow
    BY <1>0, SavesFit
  <2>2. Fit(ClearTransaction(Save(s, s.before)), c)
        /\ ClearTransaction(Save(s, s.before)).flow = s.flow
    BY <2>1, <1>0, SavesFit
  <2>. QED
    BY <2>1, <2>2 DEF Rollback
<1>2. Fit(UpdateAuthenticated(s, bad), c) /\ UpdateAuthenticated(s, bad).flow = s.flow
  BY <1>0, SavesFit DEF UpdateAuthenticated
<1>3. Fit(Complete(s, bad), c) /\ Complete(s, bad).flow = s.flow
  <2>. DEFINE kept == {r \in s.devices : r.id = s.flow.request}
              failed == ClearTransaction(Fault(s))
              t == [failed EXCEPT !.devices = kept]
  <2>0. kept \in SUBSET s.devices
    OBVIOUS
  <2>1. Fit(ClearTransaction(s), c) /\ ClearTransaction(s).flow = s.flow
    BY <1>0, SavesFit
  <2>2. /\ Fit(Save(s, kept), c) /\ Save(s, kept).flow = s.flow
        /\ Fit(Fault(s), c) /\ Fault(s).flow = s.flow /\ Fault(s).devices = s.devices
    BY <1>0, <2>0, SavesFit
  <2>. HIDE DEF kept
  <2>3. Fit(ClearTransaction(Save(s, kept)), c) /\ ClearTransaction(Save(s, kept)).flow = s.flow
    BY <2>2, <1>0, SavesFit
  <2>4. Fit(failed, c) /\ failed.flow = s.flow /\ failed.devices = s.devices
    BY <2>2, <1>0, SavesFit
  <2>. HIDE DEF failed
  <2>5. t \in Handling /\ t.flow = s.flow /\ t.out = failed.out
        /\ Sound(t, c.mine \cap c.theirs)
    BY <2>4, <2>0, <1>0 DEF Fit, Handling, Sound
  <2>6. Fit(t, c)
    BY <2>4, <2>5, SideFits
  <2>. QED
    BY <2>1, <2>3, <2>5, <2>6 DEF Complete, kept, failed
<1>. QED
  BY <1>1, <1>2, <1>3

\* A commit needs both users, for it is not done in an attempt that asks none.
LEMMA CommitFits ==
    ASSUME NEW c \in Context, NEW s, Fit(s, c), s.flow.request = c.attempt, c.attempt \in c.mine \cap c.theirs
    PROVE  Fit(Commit(s), c) /\ Commit(s).flow = s.flow
<1>. DEFINE records == {IF r.id = s.flow.request THEN [r EXCEPT !.commitState = "Mutual"] ELSE r :
                           r \in s.devices}
<1>1. \A r \in s.devices : [r EXCEPT !.commitState = "Mutual"] \in TrustRecord
                           /\ [r EXCEPT !.commitState = "Mutual"].id = r.id
  BY DEF Fit, Handling, TrustRecord
<1>2. records \in SUBSET TrustRecord
  BY <1>1 DEF Fit, Handling
<1>3. \A r \in records : r.commitState = "Mutual" => r.id \in c.mine \cap c.theirs
  BY <1>1 DEF Fit, Sound
<1>. HIDE DEF records
<1>4. Fit(Save(s, records), c) /\ Save(s, records).flow = s.flow
  BY <1>2, <1>3, SavesFit
<1>. QED
  BY <1>4 DEF Commit, records

\* A pending record next to those there are.
LEMMA PrepareFits ==
    ASSUME NEW c \in Context, NEW s, Fit(s, c), s.flow.request = c.attempt
    PROVE  Fit(Prepare(s), c) /\ Prepare(s).flow = s.flow
<1>. DEFINE r == [id |-> s.flow.request, commitState |-> "Pending",
                  limit |-> s.flow.effective, revoked |-> FALSE]
            t == Save(s, s.devices \cup {r})
            u == [t EXCEPT !.before = s.devices, !.transaction = s.flow.request]
<1>1. r \in TrustRecord /\ r.commitState # "Mutual"
  BY AttemptsAreCounted DEF Fit, Handling, Flow, TrustRecord
<1>2. (s.devices \cup {r}) \in SUBSET TrustRecord
      /\ \A q \in s.devices \cup {r} : q.commitState = "Mutual" => q.id \in c.mine \cap c.theirs
  BY <1>1 DEF Fit, Handling, Sound
<1>. HIDE DEF r
<1>3. Fit(t, c) /\ t.flow = s.flow
  BY <1>2, SavesFit
<1>. HIDE DEF t
<1>4. u \in Handling /\ u.flow = s.flow /\ u.out = t.out /\ Sound(u, c.mine \cap c.theirs)
  BY <1>3 DEF Fit, Handling, Sound, Flow
<1>5. Fit(u, c)
  BY <1>3, <1>4, SideFits
<1>. QED
  BY <1>4, <1>5 DEF Prepare, t, r

-----------------------------------------------------------------------------
(* The handlers of an attempt whose Hello is known.                         *)

Quiet(s) == \A i \in DOMAIN s.out : s.out[i].kind # "Committed"

\* What follows at once of a side that fits.
LEMMA FlowsAreTyped ==
    ASSUME NEW c \in Context, NEW s, Fit(s, c)
    PROVE  /\ s \in Handling /\ s.flow \in Flow
           /\ s.flow.progress # {} => s.flow.request = c.attempt /\ s.flow.request # 0
           /\ s.flow.active => s.flow.request \in {0, c.attempt}
           /\ "localCommitted" \notin s.flow.progress => Quiet(s)
           /\ s.flow.progress # {} /\ "localCommitted" \notin s.flow.progress => s.flow.active
BY AttemptsAreCounted DEF Fit, Handling, InOrder, Quiet

\* KDeviceAuthenticationFlow::clear, before anything was committed.
LEMMA ClearFits ==
    ASSUME NEW c \in Context, NEW s, Fit(s, c), Quiet(s), NEW bad
    PROVE  Fit(Clear(s, bad), c) /\ Clear(s, bad).flow = IdleFlow
<1>. DEFINE r == Rollback(s, bad)
            t == [r EXCEPT !.flow = IdleFlow]
<1>1. Fit(r, c) /\ r.flow = s.flow
  BY ServiceFits
<1>2. IdleFlow \in Flow
  BY AttemptsAreCounted DEF IdleFlow, Flow
<1>3. r.out = s.out
  BY DEF Rollback, Fault, ClearTransaction, Save, Fit, Handling
<1>. HIDE DEF r
<1>4. /\ t \in Handling /\ t.flow = IdleFlow /\ t.stored = r.stored
      /\ t.devices = r.devices /\ t.before = r.before /\ t.out = r.out
  BY <1>1, <1>2 DEF Fit, Handling
<1>. HIDE DEF t
<1>5. InOrder(t, c)
  BY <1>4 DEF InOrder, IdleFlow
<1>6. Sound(t, c.mine \cap c.theirs)
  BY <1>1, <1>4 DEF Fit, Sound
<1>7. \A i \in DOMAIN t.out : t.out[i].kind # "Committed"
  BY <1>3, <1>4 DEF Quiet
<1>8. ~t.flow.active
  BY <1>4 DEF IdleFlow
<1>9. Fit(t, c)
  BY <1>1, <1>4, <1>5, <1>6, <1>7, <1>8 DEF Fit
<1>. QED
  BY <1>4, <1>9 DEF Clear, t, r

\* fail(), before anything was committed.
LEMMA FailFits ==
    ASSUME NEW c \in Context, NEW s, Fit(s, c), Quiet(s), s.flow.active, NEW notify \in BOOLEAN, NEW bad
    PROVE  Fit(Fail(s, notify, bad), c) /\ Fail(s, notify, bad).flow = IdleFlow
<1>. DEFINE t == Send(s, "Rejected", 0, {})
<1>1. CASE notify /\ s.flow.request # 0
  <2>1. s.flow.request = c.attempt
    BY <1>1, FlowsAreTyped
  <2>2. Fit(t, c)
    BY <2>1, SendFits, AttemptsAreCounted
  <2>3. t.out = Append(s.out, [kind |-> "Rejected", request |-> s.flow.request,
                               trust |-> 0, scopes |-> {}])
    <3>1. s \in Handling /\ s.flow.request # 0
      BY <1>1, FlowsAreTyped
    <3>. QED
      BY <3>1 DEF Send, Handling
  <2>4. Quiet(t)
    <3>1. s.out \in Seq(Message)
      BY FlowsAreTyped DEF Handling
    <3>2. /\ DOMAIN t.out = 1 .. Len(s.out) + 1 /\ DOMAIN s.out = 1 .. Len(s.out)
          /\ Len(s.out) \in Nat
          /\ \A i \in DOMAIN s.out : t.out[i] = s.out[i]
          /\ t.out[Len(s.out) + 1].kind = "Rejected"
      BY <2>3, <3>1
    <3>. HIDE DEF t
    <3>. QED
      BY <3>2 DEF Quiet
  <2>. QED
    BY <1>1, <2>2, <2>4, ClearFits DEF Fail
<1>2. CASE ~(notify /\ s.flow.request # 0)
  BY <1>2, ClearFits DEF Fail
<1>. QED
  BY <1>1, <1>2

\* fail() says nothing but Rejected.
LEMMA FailSays ==
    ASSUME NEW s \in Handling, s.out = <<>>, NEW notify \in BOOLEAN, NEW bad
    PROVE  \A i \in DOMAIN Fail(s, notify, bad).out : Fail(s, notify, bad).out[i].kind = "Rejected"
<1>. DEFINE t == IF notify /\ s.flow.request # 0 THEN Send(s, "Rejected", 0, {}) ELSE s
            m == [kind |-> "Rejected", request |-> s.flow.request,
                  trust |-> 0, scopes |-> {}]
<1>1. t \in [stored : SUBSET TrustRecord, devices : SUBSET TrustRecord,
             before : SUBSET TrustRecord, transaction : Request,
             faults : Nat, flow : Flow, out : {<<>>, <<m>>}]
  <2>1. Append(s.out, m) = <<m>>
    OBVIOUS
  <2>2. Send(s, "Rejected", 0, {}) = [s EXCEPT !.out = <<m>>]
    BY <2>1 DEF Send
  <2>. HIDE DEF m
  <2>. QED
    BY <2>2 DEF Handling
<1>2. t.out = <<>> \/ t.out = <<m>>
  BY <1>1
<1>3. Fail(s, notify, bad).out = t.out
  <2>1. Fail(s, notify, bad) = Clear(t, bad)
    BY DEF Fail
  <2>. HIDE DEF t, m
  <2>2. Clear(t, bad).out = Rollback(t, bad).out
    BY <1>1 DEF Clear, Rollback, Fault, ClearTransaction, Save
  <2>3. Rollback(t, bad).out = t.out
    BY <1>1 DEF Rollback, Fault, ClearTransaction, Save
  <2>. QED
    BY <2>1, <2>2, <2>3
<1>. HIDE DEF t
<1>4. m.kind = "Rejected"
  OBVIOUS
<1>. HIDE DEF m
<1>. QED
  BY <1>2, <1>3, <1>4

\* Success needs both commits.
LEMMA TryCompleteFits ==
    ASSUME NEW c \in Context, NEW s, Fit(s, c), NEW bad
    PROVE  Fit(TryComplete(s, bad), c)
<1>. SUFFICES ASSUME {"localCommitted", "remoteCommitted"} \subseteq s.flow.progress,
                     ~s.flow.authenticated
              PROVE  Fit(TryComplete(s, bad), c)
  BY DEF TryComplete, Has
<1>. DEFINE updated == IF s.flow.trusted THEN UpdateAuthenticated(s, bad) ELSE s
            completed == Complete(updated, bad)
            f == [completed.flow EXCEPT !.trusted = TRUE, !.within = TRUE,
                                        !.authenticated = TRUE, !.active = FALSE,
                                        !.prompt = FALSE]
            done == [completed EXCEPT !.flow = f]
<1>1. Fit(updated, c) /\ updated.flow = s.flow
  BY ServiceFits
<1>. HIDE DEF updated
<1>2. Fit(completed, c) /\ completed.flow = s.flow
  BY <1>1, ServiceFits
<1>. HIDE DEF completed
<1>3. /\ f \in Flow /\ f.progress = s.flow.progress /\ f.request = s.flow.request
      /\ f.authenticated /\ ~f.active /\ ~f.prompt /\ f.outgoing = s.flow.outgoing
  BY <1>2, FlowsAreTyped DEF Flow
<1>. HIDE DEF f
<1>4. /\ done \in Handling /\ done.flow = f /\ done.stored = completed.stored
      /\ done.devices = completed.devices /\ done.before = completed.before
      /\ done.out = completed.out
  BY <1>2, <1>3, FlowChanges DEF Fit
<1>. HIDE DEF done
<1>5. InOrder(done, c)
  BY <1>2, <1>3, <1>4 DEF Fit, InOrder
<1>6. Fit(done, c)
  BY <1>2, <1>3, <1>4, <1>5 DEF Fit, Sound
<1>7. done.flow.request = c.attempt
  BY <1>3, <1>4, FlowsAreTyped
<1>8. Fit(Send(done, "Access", 0, {}), c)
  BY <1>6, <1>7, SendFits, AttemptsAreCounted
<1>9. TryComplete(s, bad) = IF s.flow.outgoing THEN Send(done, "Access", 0, {}) ELSE done
  <2>1. done = [completed EXCEPT !.flow.trusted = TRUE, !.flow.within = TRUE,
                         !.flow.authenticated = TRUE, !.flow.active = FALSE,
                         !.flow.prompt = FALSE]
    BY DEF done, f
  <2>. QED
    BY <2>1 DEF TryComplete, Has, completed, updated
<1>. QED
  BY <1>6, <1>8, <1>9

\* A commit needs both prepared sides, hence both users or none.
LEMMA TryCommitFits ==
    ASSUME NEW c \in Context, NEW s, Fit(s, c), NEW bad
    PROVE  Fit(TryCommit(s, bad), c)
<1>. SUFFICES ASSUME {"localPrepared", "remotePrepared"} \subseteq s.flow.progress,
                     "localCommitted" \notin s.flow.progress
              PROVE  Fit(TryCommit(s, bad), c)
  BY DEF TryCommit, Has
<1>1. s.flow.active /\ s.flow.request = c.attempt /\ Quiet(s)
  BY FlowsAreTyped
<1>2. CASE ~s.flow.trusted /\ "commit" \in bad
  <2>1. Fit(Fault(s), c) /\ Fault(s).flow = s.flow /\ Fault(s).out = s.out
    <3>1. Fit(Fault(s), c) /\ Fault(s).flow = s.flow
      BY SavesFit DEF Fit, Handling, Sound
    <3>. QED
      BY <3>1, FlowsAreTyped DEF Fault, Handling
  <2>2. Quiet(Fault(s))
    BY <2>1, <1>1 DEF Quiet
  <2>. QED
    BY <1>1, <1>2, <2>1, <2>2, FailFits DEF TryCommit, Has
<1>3. CASE ~(~s.flow.trusted /\ "commit" \in bad)
  <2>. DEFINE saved == IF s.flow.trusted THEN s ELSE Commit(s)
              marked == Mark(saved, "localCommitted")
              sent == Send(marked, "Committed", 0, s.flow.effective)
  <2>1. Fit(saved, c) /\ saved.flow = s.flow
    <3>1. ~s.flow.trusted => c.attempt \in c.mine \cap c.theirs
      BY <1>1 DEF Fit, InOrder, Context
    <3>. QED
      BY <3>1, <1>1, CommitFits
  <2>. HIDE DEF saved
  <2>2. Fit(marked, c)
    BY <2>1, <1>1, FlagFits DEF Progress
  <2>3. marked.flow.request = c.attempt /\ "localCommitted" \in marked.flow.progress
    <3>1. saved \in Handling /\ saved.flow \in Flow
      BY <2>1, FlowsAreTyped
    <3>2. marked.flow = [saved.flow EXCEPT !.progress = @ \cup {"localCommitted"}]
      BY <3>1, MarkAdds DEF Progress
    <3>. QED
      BY <3>1, <3>2, <2>1, <1>1 DEF Flow
  <2>. HIDE DEF marked
  <2>4. Fit(sent, c)
    <3>1. s.flow.effective \in SUBSET Scope
      BY FlowsAreTyped DEF Flow
    <3>. QED
      BY <2>2, <2>3, <3>1, SendFits, AttemptsAreCounted
  <2>. HIDE DEF sent
  <2>5. Fit(TryComplete(sent, bad), c)
    BY <2>4, TryCompleteFits
  <2>. QED
    BY <1>3, <2>5 DEF TryCommit, Has, sent, marked, saved
<1>. QED
  BY <1>2, <1>3

\* A side prepares when both have decided, and commits only if the other has prepared.
LEMMA TryPrepareFits ==
    ASSUME NEW c \in Context, NEW s, Fit(s, c), NEW bad
    PROVE  /\ Fit(TryPrepare(s, bad), c)
           /\ "remotePrepared" \notin s.flow.progress =>
                  "localCommitted" \notin TryPrepare(s, bad).flow.progress
<1>0. "remotePrepared" \notin s.flow.progress => "localCommitted" \notin s.flow.progress
  BY DEF Fit, InOrder
<1>. DEFINE Short(t) == "remotePrepared" \notin s.flow.progress => "localCommitted" \notin t.flow.progress
<1>. SUFFICES ASSUME {"localDecision", "remoteDecision"} \subseteq s.flow.progress,
                     "localPrepared" \notin s.flow.progress
              PROVE  Fit(TryPrepare(s, bad), c) /\ Short(TryPrepare(s, bad))
  BY <1>0 DEF TryPrepare, Has
<1>00. "localCommitted" \notin IdleFlow.progress
  BY DEF IdleFlow
<1>. DEFINE effective == IF s.flow.outgoing THEN s.flow.theirs ELSE s.flow.mine
            agreed == [s EXCEPT !.flow.effective = effective]
            saved == IF s.flow.trusted THEN agreed ELSE Prepare(agreed)
            marked == Mark(saved, "localPrepared")
            sent == Send(marked, "Ready", 0, effective)
            committed == TryCommit(sent, bad)
<1>1. s.flow.active /\ s.flow.request = c.attempt /\ Quiet(s)
      /\ "localCommitted" \notin s.flow.progress
  BY FlowsAreTyped DEF Fit, InOrder
<1>2. effective \in SUBSET Scope
  BY FlowsAreTyped DEF Flow
<1>. HIDE DEF effective
<1>3. /\ agreed.flow \in Flow /\ agreed.flow.progress = s.flow.progress
      /\ agreed.flow.request = s.flow.request /\ agreed.flow.active = s.flow.active
      /\ agreed.flow.authenticated = s.flow.authenticated
      /\ agreed.flow.trusted = s.flow.trusted /\ agreed.flow.outgoing = s.flow.outgoing
      /\ agreed.flow.prompt = s.flow.prompt
      /\ agreed \in Handling /\ agreed.out = s.out /\ agreed.devices = s.devices
      /\ agreed.stored = s.stored /\ agreed.before = s.before
  BY <1>2, FlowsAreTyped DEF Flow, Handling
<1>. HIDE DEF agreed
<1>4. Fit(agreed, c) /\ Quiet(agreed)
  BY <1>1, <1>3, FlowFits DEF Quiet
<1>5. CASE ViewScreen \notin effective
  BY <1>00, <1>1, <1>5, FailFits DEF TryPrepare, Has, effective
<1>6. CASE ViewScreen \in effective /\ ~s.flow.trusted /\ "prepare" \in bad
  <2>1. Fit(Fault(agreed), c) /\ Fault(agreed).flow = agreed.flow
    BY <1>4, SavesFit DEF Fit, Handling, Sound
  <2>2. Fault(agreed).out = agreed.out
    BY <1>3 DEF Fault, Handling
  <2>3. Quiet(Fault(agreed)) /\ Fault(agreed).flow.active
    BY <1>1, <1>3, <1>4, <2>1, <2>2 DEF Quiet
  <2>4. Fit(Fail(Fault(agreed), TRUE, bad), c) /\ Fail(Fault(agreed), TRUE, bad).flow = IdleFlow
    BY <2>1, <2>3, FailFits
  <2>. QED
    BY <1>00, <1>6, <2>4 DEF TryPrepare, Has, effective, agreed
<1>7. CASE /\ ViewScreen \in effective /\ ~(~s.flow.trusted /\ "prepare" \in bad)
           /\ ~s.flow.trusted /\ s.transaction # 0
  <2>1. Fit(Fail(agreed, TRUE, bad), c) /\ Fail(agreed, TRUE, bad).flow = IdleFlow
    BY <1>1, <1>3, <1>4, FailFits
  <2>. QED
    BY <1>00, <1>7, <2>1 DEF TryPrepare, Has, effective, agreed
<1>8. CASE /\ ViewScreen \in effective /\ ~(~s.flow.trusted /\ "prepare" \in bad)
           /\ ~(~s.flow.trusted /\ s.transaction # 0)
  <2>1. Fit(saved, c) /\ saved.flow = agreed.flow
    BY <1>1, <1>3, <1>4, PrepareFits
  <2>. HIDE DEF saved
  <2>2. Fit(marked, c)
    BY <2>1, <1>1, <1>3, FlagFits DEF Progress
  <2>3. marked.flow.request = c.attempt /\ "localDecision" \in marked.flow.progress
        /\ marked.flow.progress = s.flow.progress \cup {"localPrepared"}
    <3>1. saved \in Handling /\ saved.flow \in Flow
      BY <2>1, FlowsAreTyped
    <3>2. marked.flow = [saved.flow EXCEPT !.progress = @ \cup {"localPrepared"}]
      BY <3>1, MarkAdds DEF Progress
    <3>. QED
      BY <3>1, <3>2, <2>1, <1>1, <1>3 DEF Flow
  <2>. HIDE DEF marked
  <2>4. c.alone \/ c.attempt \in c.mine
    BY <2>2, <2>3 DEF Fit, InOrder
  <2>5. Fit(sent, c) /\ sent.flow = marked.flow
    <3>1. Fit(sent, c)
      BY <2>2, <2>3, <2>4, <1>2, SendFits, AttemptsAreCounted
    <3>2. sent.flow = marked.flow
      BY <2>2, FlowsAreTyped DEF Send, Handling
    <3>. QED
      BY <3>1, <3>2
  <2>. HIDE DEF sent
  <2>6. Fit(TryComplete(committed, bad), c)
    BY <2>5, TryCommitFits, TryCompleteFits
  <2>7. TryPrepare(s, bad) = TryComplete(committed, bad)
    BY <1>8 DEF TryPrepare, Has, committed, sent, marked, saved, agreed, effective
  <2>8. Short(TryComplete(committed, bad))
    <3>1. "remotePrepared" \notin s.flow.progress =>
             "remotePrepared" \notin sent.flow.progress /\ "localCommitted" \notin sent.flow.progress
      BY <1>0, <2>3, <2>5
    <3>2. "remotePrepared" \notin s.flow.progress => committed = sent
      BY <3>1 DEF TryCommit, Has
    <3>. HIDE DEF committed
    <3>3. "remotePrepared" \notin s.flow.progress => TryComplete(committed, bad) = sent
      BY <3>1, <3>2 DEF TryComplete, Has
    <3>. QED
      BY <3>1, <3>3
  <2>. QED
    BY <2>6, <2>7, <2>8
<1>. QED
  BY <1>5, <1>6, <1>7, <1>8

\* A side decides by itself, or its user has just confirmed the numbers.
LEMMA SendDecisionFits ==
    ASSUME NEW c \in Context, NEW s, Fit(s, c), NEW scopes \in SUBSET Scope, NEW bad,
           s.flow.active, c.greeted, c.alone \/ c.attempt \in c.mine
    PROVE  /\ Fit(SendDecision(s, scopes, bad), c)
           /\ "localCommitted" \notin s.flow.progress =>
                  "localCommitted" \notin SendDecision(s, scopes, bad).flow.progress
<1>. DEFINE Short(t) == "localCommitted" \notin s.flow.progress => "localCommitted" \notin t.flow.progress
<1>. SUFFICES ASSUME "localDecision" \notin s.flow.progress
              PROVE  Fit(SendDecision(s, scopes, bad), c) /\ Short(SendDecision(s, scopes, bad))
  BY DEF SendDecision, Has
<1>0. "remotePrepared" \notin s.flow.progress
  BY DEF Fit, InOrder
<1>. DEFINE marked == Mark(s, "localDecision")
            t == [marked EXCEPT !.flow.mine = scopes]
            sent == Send(t, "Decision", 0, scopes)
<1>1. s.flow.request = c.attempt
  BY FlowsAreTyped DEF Fit
<1>2. Fit(marked, c)
  BY <1>1, FlagFits DEF Progress
<1>3. /\ marked.flow.request = c.attempt /\ marked.flow \in Flow
      /\ marked.flow.progress = s.flow.progress \cup {"localDecision"}
      /\ marked \in Handling
  <2>1. marked.flow = [s.flow EXCEPT !.progress = @ \cup {"localDecision"}]
    BY MarkAdds, FlowsAreTyped DEF Progress
  <2>. QED
    BY <2>1, <1>1, <1>2, FlowsAreTyped DEF Flow
<1>. HIDE DEF marked
<1>4. /\ t \in Handling /\ t.flow.progress = marked.flow.progress
      /\ t.flow.request = marked.flow.request /\ t.flow.active = marked.flow.active
      /\ t.flow.authenticated = marked.flow.authenticated
      /\ t.flow.trusted = marked.flow.trusted /\ t.flow.outgoing = marked.flow.outgoing
      /\ t.flow.prompt = marked.flow.prompt
      /\ t.out = marked.out /\ t.devices = marked.devices
      /\ t.stored = marked.stored /\ t.before = marked.before
  BY <1>3 DEF Flow, Handling
<1>. HIDE DEF t
<1>5. Fit(t, c)
  BY <1>2, <1>4, FlowFits
<1>6. Fit(sent, c) /\ sent.flow = t.flow
  <2>1. Fit(sent, c)
    BY <1>3, <1>4, <1>5, SendFits, AttemptsAreCounted
  <2>2. sent.flow = t.flow
    BY <1>4 DEF Send, Handling
  <2>. QED
    BY <2>1, <2>2
<1>. HIDE DEF sent
<1>7. Fit(TryPrepare(sent, bad), c) /\ Short(TryPrepare(sent, bad))
  <2>1. "remotePrepared" \notin sent.flow.progress
    BY <1>0, <1>3, <1>4, <1>6
  <2>. QED
    BY <1>6, <2>1, TryPrepareFits
<1>. QED
  BY <1>7 DEF SendDecision, Has, sent, t, marked

\* The handler of Decision.
LEMMA HandleDecisionFits ==
    ASSUME NEW c \in Context, NEW s, Fit(s, c), NEW m \in Message, NEW bad, s.flow.active, c.greeted
    PROVE  Fit(HandleDecision(s, m, bad), c)
<1>. DEFINE marked == Mark(s, "remoteDecision")
            t == [marked EXCEPT !.flow.theirs = m.scopes]
<1>1. s.flow.request = c.attempt
  BY FlowsAreTyped DEF Fit
<1>2. Fit(marked, c)
  BY <1>1, FlagFits DEF Progress
<1>. HIDE DEF marked
<1>3. marked.flow \in Flow /\ marked \in Handling /\ m.scopes \in SUBSET Scope
  BY <1>2, FlowsAreTyped DEF Message
<1>4. /\ t \in Handling /\ t.flow.progress = marked.flow.progress
      /\ t.flow.request = marked.flow.request /\ t.flow.active = marked.flow.active
      /\ t.flow.authenticated = marked.flow.authenticated
      /\ t.flow.trusted = marked.flow.trusted /\ t.flow.outgoing = marked.flow.outgoing
      /\ t.flow.prompt = marked.flow.prompt
      /\ t.out = marked.out /\ t.devices = marked.devices
      /\ t.stored = marked.stored /\ t.before = marked.before
  BY <1>3 DEF Flow, Handling
<1>. HIDE DEF t
<1>5. Fit(TryPrepare(t, bad), c)
  BY <1>2, <1>4, FlowFits, TryPrepareFits
<1>. QED
  BY <1>5 DEF HandleDecision, t, marked

\* The handler of Ready.
LEMMA HandleReadyFits ==
    ASSUME NEW c \in Context, NEW s, Fit(s, c), NEW m \in Message, NEW bad, s.flow.active, Quiet(s),
           c.alone \/ c.attempt \in c.theirs
    PROVE  Fit(HandleReady(s, m, bad), c)
<1>. DEFINE marked == Mark(s, "remotePrepared")
            ready == TryPrepare(marked, bad)
<1>1. Fit(Fail(s, TRUE, bad), c)
  BY FailFits
<1>2. ASSUME Has(s, {"localDecision", "remoteDecision"})
      PROVE  Fit(TryCommit(ready, bad), c)
  <2>1. s.flow.request = c.attempt
    BY <1>2, FlowsAreTyped DEF Has
  <2>2. Fit(marked, c)
    BY <1>2, <2>1, FlagFits DEF Progress, Has
  <2>. HIDE DEF marked
  <2>3. Fit(ready, c)
    BY <2>2, TryPrepareFits
  <2>. HIDE DEF ready
  <2>. QED
    BY <2>3, TryCommitFits
<1>. QED
  BY <1>1, <1>2 DEF HandleReady

\* The handler of Committed.
LEMMA HandleCommittedFits ==
    ASSUME NEW c \in Context, NEW s, Fit(s, c), NEW m \in Message, NEW bad, s.flow.active, c.attempt \in c.durable
    PROVE  Fit(HandleCommitted(s, m, bad), c)
<1>. DEFINE marked == Mark(s, "remoteCommitted")
            committed == TryCommit(marked, bad)
<1>1. ASSUME Has(s, {"localPrepared", "remotePrepared"})
      PROVE  Fit(TryComplete(committed, bad), c)
  <2>1. s.flow.request = c.attempt
    BY <1>1, FlowsAreTyped DEF Has
  <2>2. Fit(marked, c)
    BY <1>1, <2>1, FlagFits DEF Progress, Has
  <2>. HIDE DEF marked
  <2>3. Fit(committed, c)
    BY <2>2, TryCommitFits
  <2>. HIDE DEF committed
  <2>. QED
    BY <2>3, TryCompleteFits
<1>. QED
  BY <1>1 DEF HandleCommitted

-----------------------------------------------------------------------------
(* The record that stands for the peer, and the peer's Hello.               *)

\* There is a record of the smallest identifier.
LEMMA OldestExists ==
    ASSUME NEW records \in SUBSET TrustRecord, records # {}
    PROVE  Oldest(records) \in records
<1>. DEFINE ids == {r.id : r \in records}
<1>1. ids \subseteq Nat /\ ids # {}
  BY BoundsAssumption DEF TrustRecord
<1>2. PICK n \in ids : \A k \in ids : ~ (<<k, n>> \in OpToRel(<, Nat))
  BY <1>1, NatLessThanWellFounded, WFMin
<1>. HIDE DEF ids
<1>3. \A k \in ids : n <= k
  <2>1. \A k \in ids : ~ (k < n)
    BY <1>1, <1>2, Zenon DEF OpToRel
  <2>. QED
    BY <1>1, <2>1
<1>4. \E r \in records : \A q \in records : r.id <= q.id
  BY <1>3 DEF ids
<1>. QED
  BY <1>4 DEF Oldest

\* What find() and load() answer with is a record of the store.
LEMMA RecordsStandForPeer ==
    ASSUME NEW records \in SUBSET TrustRecord
    PROVE  /\ Mutuals(records) \subseteq records
           /\ Found(records) \subseteq records
           /\ Recovered(records) \subseteq records
           /\ MutualCommitId(records) \in Request
<1>1. Mutuals(records) \subseteq records /\ Mutuals(records) \in SUBSET TrustRecord
  BY DEF Mutuals
<1>2. Mutuals(records) # {} => Oldest(Mutuals(records)) \in Mutuals(records)
  BY <1>1, OldestExists
<1>3. \A r \in TrustRecord : r.id \in Request
  BY BoundsAssumption DEF TrustRecord, Request
<1>. QED
  BY <1>1, <1>2, <1>3, AttemptsAreCounted DEF Found, Recovered, MutualCommitId

\* A side that trusts decides, another one asks its user.
LEMMA DecideFits ==
    ASSUME NEW c \in Context, NEW s, Fit(s, c), Quiet(s), NEW bad,
           s.flow.active, c.greeted
    PROVE  Fit(Decide(s, bad), c)
<1>1. CASE s.flow.trusted
  <2>. DEFINE scopes == IF s.flow.outgoing THEN Scope ELSE UNION {r.limit : r \in Found(s.devices)}
  <2>1. s.devices \in SUBSET TrustRecord
    BY FlowsAreTyped DEF Handling
  <2>2. \A r \in Found(s.devices) : r.limit \in SUBSET Scope
    BY <2>1, RecordsStandForPeer DEF TrustRecord
  <2>3. scopes \in SUBSET Scope
    BY <2>2
  <2>. HIDE DEF scopes
  <2>4. c.alone
    BY <1>1 DEF Fit, InOrder
  <2>5. Fit(SendDecision(s, scopes, bad), c)
    BY <2>3, <2>4, SendDecisionFits
  <2>. QED
    BY <1>1, <2>5 DEF Decide, scopes
<1>2. CASE ~s.flow.trusted /\ "exporter" \in bad
  <2>1. Fit(Fault(s), c) /\ Fault(s).flow = s.flow
    BY SavesFit DEF Fit, Handling, Sound
  <2>2. Fault(s).out = s.out
    BY FlowsAreTyped DEF Fault, Handling
  <2>3. Quiet(Fault(s)) /\ Fault(s).flow.active
    BY <2>1, <2>2 DEF Quiet
  <2>4. Fit(Fail(Fault(s), TRUE, bad), c)
    BY <2>1, <2>3, FailFits
  <2>. QED
    BY <1>2, <2>4 DEF Decide
<1>3. CASE ~s.flow.trusted /\ "exporter" \notin bad
  <2>. DEFINE t == [s EXCEPT !.flow.prompt = TRUE]
  <2>1. /\ t \in Handling /\ t.out = s.out /\ t.devices = s.devices
        /\ t.stored = s.stored /\ t.before = s.before
        /\ t.flow.progress = s.flow.progress /\ t.flow.request = s.flow.request
        /\ t.flow.active = s.flow.active /\ t.flow.authenticated = s.flow.authenticated
        /\ t.flow.trusted = s.flow.trusted /\ t.flow.outgoing = s.flow.outgoing
    BY FlowsAreTyped DEF Handling, Flow
  <2>. HIDE DEF t
  <2>2. Fit(t, c)
    BY <2>1, FlowFits
  <2>. QED
    BY <1>3, <2>2 DEF Decide, t
<1>. QED
  BY <1>1, <1>2, <1>3

\* A Hello is taken, or the attempt fails without this side's own.
Answers(t, c) ==
    \/ Fit(t, c)
    \/ /\ ~t.flow.active
       /\ Fit(t, [c EXCEPT !.hello = {}])
       /\ \A i \in DOMAIN t.out : t.out[i].kind = "Rejected"

\* The attempt asks no user when both sides remember the other one by the same
\* pairing; a Hello that is answered is the first thing this side says.
LEMMA HandleHelloFits ==
    ASSUME NEW b \in Context, NEW c \in Context, NEW s, Fit(s, b), NEW bad,
           NEW m \in Message, m.request = c.attempt,
           b.attempt = c.attempt, b.mine = c.mine, b.theirs = c.theirs,
           b.durable = c.durable, b.outgoing = c.outgoing,
           s.flow.active, "helloReceived" \notin s.flow.progress, s.out = <<>>,
           s.flow.outgoing => s.flow.request = c.attempt,
           c.greeted,
           c.alone = (MutualCommitId(s.devices) # 0 /\ MutualCommitId(s.devices) = m.trust),
           c.hello = IF "helloSent" \in s.flow.progress THEN {}
                     ELSE {[kind |-> "Hello", request |-> c.attempt,
                            trust |-> MutualCommitId(s.devices), scopes |-> Scope]}
    PROVE  Answers(HandleHello(s, m, bad), c)
<1>. DEFINE known == Found(s.devices)
            trusted == MutualCommitId(s.devices) # 0 /\ MutualCommitId(s.devices) = m.trust
            within == trusted /\ \A r \in known : Scope \ {FileTransfer} \subseteq r.limit
            marked == Mark(s, "helloReceived")
            heard == [marked EXCEPT
                         !.flow.request = m.request,
                         !.flow.trusted = trusted,
                         !.flow.within = within]
            said == SendHello(heard)
            silent == [c EXCEPT !.hello = {}, !.greeted = FALSE]
<1>1. /\ s \in Handling /\ s.flow \in Flow /\ s.devices \in SUBSET TrustRecord
      /\ s.flow.progress \subseteq {"helloSent"}
      /\ MutualCommitId(s.devices) \in Request
  <2>1. s \in Handling /\ s.flow \in Flow
    BY FlowsAreTyped
  <2>2. s.flow.progress \subseteq {"helloSent"}
    BY <2>1 DEF Fit, InOrder, Flow, Progress
  <2>. QED
    BY <2>1, <2>2, RecordsStandForPeer DEF Handling
<1>2. /\ marked \in Handling /\ marked.devices = s.devices /\ marked.out = <<>>
      /\ marked.stored = s.stored /\ marked.before = s.before
      /\ marked.flow = [s.flow EXCEPT !.progress = @ \cup {"helloReceived"}]
  BY <1>1, MarkAdds DEF Progress
<1>. HIDE DEF marked
<1>3. trusted \in BOOLEAN /\ within \in BOOLEAN /\ c.attempt \in Request /\ c.attempt # 0
  BY AttemptsAreCounted
<1>. HIDE DEF trusted, within
<1>4. /\ heard \in Handling /\ heard.devices = s.devices /\ heard.out = <<>>
      /\ heard.stored = s.stored /\ heard.before = s.before
      /\ heard.flow \in Flow
  <2>1. marked.flow \in Flow /\ m.request \in Request
    BY <1>2, <1>3, FlowsAreTyped DEF Handling
  <2>. QED
    BY <1>2, <1>3, <2>1 DEF Handling, Flow
<1>5. /\ heard.flow.progress = s.flow.progress \cup {"helloReceived"}
      /\ heard.flow.request = c.attempt /\ heard.flow.active
      /\ heard.flow.authenticated = s.flow.authenticated
      /\ heard.flow.outgoing = s.flow.outgoing /\ heard.flow.prompt = s.flow.prompt
  BY <1>1, <1>2 DEF Handling, Flow
<1>6. heard.flow.trusted = c.alone
  <2>1. heard.flow.trusted = trusted
    BY <1>1, <1>2 DEF Handling, Flow
  <2>. QED
    BY <2>1 DEF trusted
<1>. HIDE DEF heard
<1>7. InOrder(heard, c) /\ InOrder(heard, silent)
  BY <1>1, <1>5, <1>6 DEF Fit, InOrder
<1>8. silent \in Context /\ [c EXCEPT !.hello = {}] \in Context
      /\ silent.mine = c.mine /\ silent.theirs = c.theirs
      /\ ~silent.greeted /\ silent.hello = {}
  BY DEF Context
<1>9. Sound(heard, c.mine \cap c.theirs)
  BY <1>4 DEF Fit, Sound
<1>10. CASE \E r \in known : r.revoked
  <2>1. Fit(heard, silent)
    BY <1>4, <1>7, <1>8, <1>9 DEF Fit
  <2>2. Quiet(heard)
    BY <1>4 DEF Quiet
  <2>. HIDE DEF silent
  <2>3. /\ Fit(Fail(heard, TRUE, bad), silent)
        /\ Fail(heard, TRUE, bad).flow = IdleFlow
    <3>1. silent \in Context /\ heard.flow.active /\ TRUE \in BOOLEAN
      BY <1>5, <1>8
    <3>. QED
      BY <2>1, <2>2, <3>1, FailFits
  <2>4. HandleHello(s, m, bad) = Fail(heard, TRUE, bad)
    BY <1>10 DEF HandleHello, heard, marked, within, trusted
  <2>5. ~IdleFlow.active
    BY DEF IdleFlow
  <2>6. Fit(Fail(heard, TRUE, bad), [c EXCEPT !.hello = {}])
    <3>. DEFINE t == Fail(heard, TRUE, bad)
    <3>1. ~t.flow.active
      BY <2>3, <2>5
    <3>2. Fit(t, silent)
      BY <2>3
    <3>. DEFINE e == [c EXCEPT !.hello = {}]
    <3>3. /\ e.attempt = silent.attempt /\ e.mine = silent.mine /\ e.theirs = silent.theirs
          /\ e.durable = silent.durable /\ e.alone = silent.alone
          /\ e.outgoing = silent.outgoing /\ e.hello = silent.hello
      BY DEF Context, silent
    <3>. HIDE DEF t, e
    <3>4. Fit(t, e)
      BY <3>1, <3>2, <3>3 DEF Fit, InOrder
    <3>. QED
      BY <3>4 DEF t, e
  <2>7. \A i \in DOMAIN Fail(heard, TRUE, bad).out :
           Fail(heard, TRUE, bad).out[i].kind = "Rejected"
    BY <1>4, FailSays
  <2>. QED
    BY <2>3, <2>4, <2>5, <2>6, <2>7 DEF Answers
<1>11. CASE ~\E r \in known : r.revoked
  <2>1. Fit(said, c) /\ said.flow.active /\ Quiet(said)
    <3>1. CASE "helloSent" \in s.flow.progress
      <4>1. said = heard
        BY <1>5, <3>1 DEF SendHello, Has
      <4>2. Fit(heard, c)
        BY <1>4, <1>5, <1>7, <1>9, <3>1 DEF Fit
      <4>. HIDE DEF said
      <4>. QED
        BY <4>1, <4>2, <1>4, <1>5 DEF Quiet
    <3>2. CASE "helloSent" \notin s.flow.progress
      <4>. DEFINE u == Mark(heard, "helloSent")
                  h == [kind |-> "Hello", request |-> u.flow.request,
                        trust |-> MutualCommitId(u.devices), scopes |-> Scope]
      <4>0. said = Send(u, "Hello", MutualCommitId(heard.devices), Scope)
        BY <1>5, <3>2 DEF SendHello, Has
      <4>1. /\ u \in Handling /\ u.devices = s.devices /\ u.out = <<>>
            /\ u.stored = s.stored /\ u.before = s.before
            /\ u.flow = [heard.flow EXCEPT !.progress = @ \cup {"helloSent"}]
        BY <1>4, MarkAdds DEF Progress
      <4>. HIDE DEF u
      <4>2. /\ u.flow.progress = {"helloSent", "helloReceived"}
            /\ u.flow.request = c.attempt /\ u.flow.active
            /\ u.flow.authenticated = heard.flow.authenticated
            /\ u.flow.outgoing = heard.flow.outgoing /\ u.flow.prompt = heard.flow.prompt
            /\ u.flow.trusted = heard.flow.trusted
        BY <1>1, <1>4, <1>5, <3>2, <4>1 DEF Flow
      <4>. HIDE DEF said
      <4>3. /\ said \in Handling /\ said.flow = u.flow /\ said.devices = u.devices
            /\ said.stored = u.stored /\ said.before = u.before
            /\ said.out = Append(u.out, h)
        <5>1. u.flow.request # 0 /\ u.devices = heard.devices
          BY <1>3, <1>4, <4>1, <4>2
        <5>2. Scope \in SUBSET Scope /\ MutualCommitId(u.devices) \in Request
          BY <1>1, <4>1
        <5>3. said = Send(u, "Hello", MutualCommitId(u.devices), Scope)
          BY <4>0, <5>1
        <5>4. said.out = Append(u.out, h)
          BY <4>1, <5>3 DEF Send, Handling
        <5>5. /\ said \in Handling /\ said.flow = u.flow /\ said.devices = u.devices
              /\ said.stored = u.stored /\ said.before = u.before
          <6>1. said \in Handling
            <7>1. h \in Message
              BY <1>3, <4>1, <4>2, <5>2, AttemptsAreCounted DEF Message, Request
            <7>2. said.out \in Seq(Message)
              BY <4>1, <5>4, <7>1
            <7>. HIDE DEF h
            <7>. QED
              BY <4>1, <5>3, <7>2 DEF Send, Handling
          <6>. QED
            BY <4>1, <5>3, <6>1 DEF Send, Handling
        <5>. QED
          BY <5>4, <5>5
      <4>4. DOMAIN said.out = {1} /\ said.out # <<>> /\ said.out[1] = h
        <5>. HIDE DEF h
        <5>. QED
          BY <4>1, <4>3
      <4>5. c.hello = {h} /\ h.request = c.attempt /\ h.kind = "Hello"
        BY <3>2, <4>1, <4>2
      <4>6. InOrder(said, c)
        BY <1>5, <1>6, <1>7, <4>2, <4>3 DEF InOrder
      <4>7. Sound(said, c.mine \cap c.theirs)
        BY <1>4, <1>9, <4>1, <4>3 DEF Sound
      <4>. HIDE DEF h
      <4>8. Fit(said, c)
        BY <4>2, <4>3, <4>4, <4>5, <4>6, <4>7 DEF Fit
      <4>. QED
        BY <4>2, <4>3, <4>4, <4>5, <4>8 DEF Quiet
    <3>. QED
      BY <3>1, <3>2
  <2>. HIDE DEF said
  <2>2. Fit(Decide(said, bad), c)
    BY <2>1, DecideFits
  <2>3. ~(s.flow.outgoing /\ s.flow.request # m.request)
    OBVIOUS
  <2>4. HandleHello(s, m, bad) = Decide(said, bad)
    BY <1>11, <2>3 DEF HandleHello, said, heard, marked, within, trusted
  <2>. QED
    BY <2>2, <2>4 DEF Answers
<1>. QED
  BY <1>10, <1>11 DEF Answers

-----------------------------------------------------------------------------
(* The two devices and the step of one of them.                             *)

\* There are a device, its peer, and no other one.
LEMMA TwoDevices ==
    ASSUME NEW d \in Device
    PROVE  /\ Other(d) \in Device /\ Other(d) # d
           /\ Other(Other(d)) = d
           /\ \A x \in Device : x = d \/ x = Other(d)
<1>1. IsFiniteSet(Device \ {d}) /\ Cardinality(Device \ {d}) = 1
  BY DevicesAssumption, FS_RemoveElement
<1>2. PICK e : Device \ {d} = {e}
  BY <1>1, FS_Singleton
<1>3. e \in Device /\ e # d /\ \A x \in Device : x = d \/ x = e
  BY <1>2
<1>4. Other(d) = e
  BY <1>3 DEF Other
<1>5. Other(e) = d
  BY <1>3 DEF Other
<1>. QED
  BY <1>3, <1>4, <1>5

\* What Run leaves of the two sides and of the two channels.
LEMMA RunEffect ==
    ASSUME Typed, NEW d \in Device, NEW t \in Handling, NEW inbox \in Seq(Message),
           Run(d, t, inbox)
    PROVE  /\ side' \in [Device -> Side] /\ channel' \in [Device -> Seq(Message)]
           /\ side'[d].flow = t.flow /\ side'[d].devices = t.devices
           /\ side'[d].stored = t.stored /\ side'[d].before = t.before
           /\ side'[Other(d)] = side[Other(d)]
           /\ channel'[d] = inbox
           /\ channel'[Other(d)] = IF link[Other(d)] = "down" THEN channel[Other(d)]
                                   ELSE channel[Other(d)] \o t.out
<1>. DEFINE u == [t EXCEPT !.out = <<>>]
<1>1. Other(d) \in Device /\ Other(d) # d /\ side \in [Device -> Side]
      /\ channel \in [Device -> Seq(Message)]
  BY TwoDevices DEF Typed, TypeOK
<1>2. t.faults \in 0 .. MaxFault
  BY <1>1, BoundsAssumption DEF Run, Handling, Side
<1>3. /\ u \in Side /\ u.flow = t.flow /\ u.devices = t.devices
      /\ u.stored = t.stored /\ u.before = t.before
  BY <1>2 DEF Handling, Side
<1>4. side' = [side EXCEPT ![d] = u]
  BY DEF Run
<1>. HIDE DEF u
<1>5. t.out \in Seq(Message)
  BY DEF Handling
<1>6. channel[Other(d)] \o t.out \in Seq(Message)
  BY <1>1, <1>5
<1>7. /\ channel' \in [Device -> Seq(Message)]
      /\ channel'[d] = inbox
      /\ channel'[Other(d)] = IF link[Other(d)] = "down" THEN channel[Other(d)]
                              ELSE channel[Other(d)] \o t.out
  BY <1>1, <1>6 DEF Run
<1>. QED
  BY <1>1, <1>3, <1>4, <1>7

Extends(new, old, out) == new = old \/ new = old \o out

\* The messages of a channel after a handler sent.
LEMMA Delivered ==
    ASSUME NEW old \in Seq(Message), NEW out \in Seq(Message),
           NEW new \in Seq(Message),
           Extends(new, old, out)
    PROVE  /\ \A i \in DOMAIN new : \/ i \in DOMAIN old /\ new[i] = old[i]
                                    \/ \E j \in DOMAIN out : new[i] = out[j]
           /\ old # <<>> => new # <<>> /\ new[1] = old[1]
           /\ old = <<>> /\ new # <<>> => \E j \in DOMAIN out : new[1] = out[j]
           /\ out = <<>> => new = old
<1>1. CASE new = old
  BY <1>1
<1>2. CASE new = old \o out
  <2>1. /\ Len(new) = Len(old) + Len(out) /\ DOMAIN new = 1 .. Len(new)
        /\ Len(old) \in Nat /\ Len(out) \in Nat
        /\ DOMAIN old = 1 .. Len(old) /\ DOMAIN out = 1 .. Len(out)
        /\ \A i \in 1 .. Len(new) :
              new[i] = IF i <= Len(old) THEN old[i] ELSE out[i - Len(old)]
    BY <1>2
  <2>2. \A i \in DOMAIN new : i > Len(old) => (i - Len(old)) \in DOMAIN out
    BY <2>1
  <2>3. \A i \in DOMAIN new : \/ i \in DOMAIN old /\ new[i] = old[i]
                              \/ \E j \in DOMAIN out : new[i] = out[j]
    BY <2>1, <2>2
  <2>4. old # <<>> => 1 \in DOMAIN old
    BY <2>1
  <2>5. new # <<>> => 1 \in DOMAIN new
    BY <1>2, <2>1
  <2>6. new = <<>> => old = <<>>
    BY <1>2, <2>1
  <2>. HIDE <1>2
  <2>7. out = <<>> => new = old
    BY <1>2
  <2>. QED
    <3>1. old # <<>> => new # <<>> /\ new[1] = old[1]
      BY <2>1, <2>4, <2>6
    <3>2. old = <<>> /\ new # <<>> => \E j \in DOMAIN out : new[1] = out[j]
      BY <2>3, <2>5
    <3>. QED
      BY <2>3, <2>7, <3>1, <3>2
<1>. QED
  BY <1>1, <1>2 DEF Extends

\* What is left of an inbox.
Left(inbox, all) == inbox = all \/ inbox = <<>> \/ (all # <<>> /\ inbox = Tail(all))

\* The messages of an inbox after a handler received.
LEMMA LeftBehind ==
    ASSUME NEW all \in Seq(Message), NEW inbox, Left(inbox, all)
    PROVE  /\ inbox \in Seq(Message)
           /\ \A i \in DOMAIN inbox :
                 (i \in DOMAIN all /\ inbox[i] = all[i])
                 \/ (inbox # all /\ i + 1 \in DOMAIN all /\ i + 1 # 1 /\ inbox[i] = all[i + 1])
           /\ all = <<>> => inbox = <<>>
           /\ inbox # <<>> => 1 \in DOMAIN inbox
<1>. /\ DOMAIN all = 1 .. Len(all) /\ Len(all) \in Nat
  OBVIOUS
<1>1. CASE inbox = all
  BY <1>1
<1>2. CASE inbox = <<>>
  BY <1>2
<1>3. CASE all # <<>> /\ inbox = Tail(all)
  <2>1. /\ inbox \in Seq(Message) /\ Len(inbox) = Len(all) - 1
        /\ DOMAIN inbox = 1 .. Len(inbox) /\ Len(all) > 0
        /\ \A i \in 1 .. Len(inbox) : inbox[i] = all[i + 1]
    BY <1>3
  <2>2. inbox # all
    BY <2>1
  <2>3. \A i \in DOMAIN inbox : i + 1 \in DOMAIN all /\ i + 1 # 1
    BY <2>1
  <2>4. inbox # <<>> => 1 \in DOMAIN inbox
    BY <2>1
  <2>. QED
    BY <1>3, <2>1, <2>2, <2>3, <2>4
<1>. QED
  BY <1>1, <1>2, <1>3 DEF Left

\* The step of its peer keeps a side sound.
LEMMA OtherStays ==
    ASSUME Typed, NEW e \in Device, SideSound(e), UNCHANGED <<attempt, initiator>>,
           side'[e] = side[e], link'[e] = link[e],
           Confirmed(e) \subseteq Confirmed(e)',
           Confirmed(Other(e)) \subseteq Confirmed(Other(e))',
           history[e].committed \subseteq history'[e].committed,
           history[Other(e)].committed \subseteq history'[Other(e)].committed
    PROVE  SideSound(e)'
<1>1. Sound(side'[e], Both(e)')
  BY DEF SideSound, Sound, Both
<1>2. side[e].flow.authenticated => side[e].flow.request \in history'[Other(e)].committed
  BY DEF SideSound
<1>3. Active(e) => InOrder(side[e], Behind(e)')
  <2>. DEFINE b == Behind(e)
              c == Behind(e)'
  <2>1. /\ c.attempt = b.attempt /\ c.alone = b.alone /\ c.outgoing = b.outgoing
        /\ b.mine \subseteq c.mine /\ b.theirs \subseteq c.theirs
        /\ b.durable \subseteq c.durable
    BY DEF Behind, Heard
  <2>2. Active(e) => InOrder(side[e], b)
    BY DEF SideSound
  <2>. HIDE DEF b, c
  <2>3. Active(e) => InOrder(side[e], c)
    BY <2>1, <2>2 DEF InOrder
  <2>. QED
    BY <2>3 DEF c
<1>. QED
  BY <1>1, <1>2, <1>3 DEF SideSound, Active, Spoke, Heard

-----------------------------------------------------------------------------
(* What device d may leave, when it is not its peer's Hello that it hears:  *)
(* "t" is its side and "inbox" what it has still to receive.                *)
Afterwards(d, alone) ==
    [attempt |-> attempt, mine |-> Confirmed(d)', theirs |-> Confirmed(Other(d))',
     durable |-> history'[Other(d)].committed, alone |-> alone,
     outgoing |-> initiator = d, greeted |-> TRUE, hello |-> {}]

Leaves(d, t, inbox) ==
    LET open == t.flow.active IN
    /\ t \in Handling
    /\ Left(inbox, channel[d])
    /\ Sound(t, Both(d)')
    /\ t.flow.authenticated => t.flow.request \in history[Other(d)].committed
    /\ open =>
        /\ Active(d)
        /\ link'[d] = "open"
        /\ InOrder(t, Afterwards(d, t.flow.trusted))
        /\ t.flow.trusted = side[d].flow.trusted
        /\ t.flow.outgoing = side[d].flow.outgoing
        /\ {"helloSent", "helloReceived"} \cap t.flow.progress
             = {"helloSent", "helloReceived"} \cap side[d].flow.progress
        /\ t.flow.outgoing => t.flow.request = attempt
        /\ "localCommitted" \in t.flow.progress => attempt \in history'[d].committed
    /\ open /\ ~Heard(d) =>
        /\ t.devices = side[d].devices
        /\ t.out = <<>>
        /\ inbox # channel[d] => ~HelloFirst(d)
    /\ \A i \in DOMAIN t.out :
        /\ t.out[i].request = attempt
        /\ t.out[i].kind # "Hello"
        /\ t.out[i].kind = "Committed" => attempt \in history'[d].committed
        /\ t.out[i].kind \in {"Decision", "Ready"} =>
               /\ Active(d) /\ Heard(d)
               /\ side[d].flow.trusted \/ attempt \in Confirmed(d)'

\* What such a step leaves of the history and of the links.
Keeps(d) ==
    /\ UNCHANGED <<attempt, initiator>>
    /\ link'[Other(d)] = link[Other(d)]
    /\ link'[d] # "secured"
    /\ link'[d] # "down" => link[d] # "down"
    /\ history'[Other(d)] = history[Other(d)]
    /\ history[d].confirmed \subseteq history'[d].confirmed
    /\ history[d].committed \subseteq history'[d].committed

\* InOrder looks at the flow alone.
LEMMA SameOrder ==
    ASSUME NEW s, NEW u, u.flow = s.flow, NEW b, NEW c, InOrder(s, b),
           c.attempt = b.attempt, c.mine = b.mine, c.theirs = b.theirs,
           c.durable = b.durable, c.alone = b.alone, c.outgoing = b.outgoing
    PROVE  InOrder(u, c)
BY DEF InOrder

\* The step of a device that leaves its side and its messages in order.
LEMMA StepKeepsOrder ==
    ASSUME Typed, IInv, NEW d \in Device, NEW t, NEW inbox,
           Leaves(d, t, inbox), Keeps(d), Run(d, t, inbox)
    PROVE  IInv'
<1>. DEFINE e == Other(d)
<1>1. e \in Device /\ e # d /\ Other(e) = d /\ \A x \in Device : x = d \/ x = e
  BY TwoDevices
<1>2. channel[d] \in Seq(Message) /\ channel[e] \in Seq(Message)
  BY <1>1 DEF Typed
<1>3. inbox \in Seq(Message) /\ t \in Handling /\ t.out \in Seq(Message)
  BY <1>2, LeftBehind DEF Leaves, Handling
<1>4. /\ side'[d].flow = t.flow /\ side'[d].devices = t.devices
      /\ side'[d].stored = t.stored /\ side'[d].before = t.before
      /\ side'[e] = side[e] /\ channel'[d] = inbox
      /\ channel'[e] = channel[e] \/ channel'[e] = channel[e] \o t.out
  BY <1>3, RunEffect
<1>5. SideSound(d) /\ SideSound(e) /\ ChannelSound(d) /\ ChannelSound(e)
  BY <1>1 DEF IInv
<1>. DEFINE in == channel[e]
            in2 == channel'[e]
<1>6. /\ \A i \in DOMAIN in2 : \/ i \in DOMAIN in /\ in2[i] = in[i]
                               \/ \E j \in DOMAIN t.out : in2[i] = t.out[j]
      /\ in # <<>> => in2 # <<>> /\ in2[1] = in[1]
      /\ in = <<>> /\ in2 # <<>> => \E j \in DOMAIN t.out : in2[1] = t.out[j]
      /\ t.out = <<>> => in2 = in
  <2>1. /\ in \in Seq(Message) /\ in2 \in Seq(Message)
        /\ Extends(in2, in, t.out)
    <3>1. in \in Seq(Message) /\ (in \o t.out) \in Seq(Message)
      BY <1>2, <1>3
    <3>. QED
      BY <1>4, <3>1 DEF Extends
  <2>. HIDE DEF in, in2
  <2>. QED
    BY <1>3, <2>1, Delivered
<1>7. /\ \A i \in DOMAIN inbox :
            (i \in DOMAIN channel[d] /\ inbox[i] = channel[d][i])
            \/ (inbox # channel[d] /\ i + 1 \in DOMAIN channel[d] /\ i + 1 # 1 /\ inbox[i] = channel[d][i + 1])
      /\ channel[d] = <<>> => inbox = <<>>
      /\ inbox # <<>> => 1 \in DOMAIN inbox
  BY <1>2, LeftBehind DEF Leaves
<1>. HIDE DEF e, in, in2
<1>8. SideSound(e)'
  BY <1>1, <1>4, <1>5, OtherStays DEF Keeps, Confirmed, e
<1>9. SideSound(d)'
  <2>1. InOrder(t, Afterwards(d, t.flow.trusted)) => InOrder(side'[d], Behind(d)')
    <3>. DEFINE b == Afterwards(d, t.flow.trusted)
                c == Behind(d)'
    <3>1. /\ c.attempt = b.attempt /\ c.mine = b.mine /\ c.theirs = b.theirs
          /\ c.durable = b.durable /\ c.alone = b.alone /\ c.outgoing = b.outgoing
      BY <1>4 DEF Behind, Afterwards, Keeps
    <3>. HIDE DEF b, c
    <3>2. InOrder(t, b) => InOrder(side'[d], c)
      BY <1>4, <3>1, SameOrder
    <3>. QED
      BY <3>2 DEF b, c
  <2>2. Sound(t, Both(d)') => Sound(side'[d], Both(d)')
    BY <1>4 DEF Sound
  <2>3. side[d].flow.outgoing /\ Active(d) => Spoke(d)
    BY <1>5 DEF SideSound
  <2>4. Active(d)' => /\ Active(d) /\ (Spoke(d)' <=> Spoke(d)) /\ (Heard(d)' <=> Heard(d))
                      /\ link'[d] = "open"
    BY <1>4, <1>5 DEF Leaves, Active, Spoke, Heard, SideSound, Keeps
  <2>5. side'[d].flow.authenticated => side'[d].flow.request \in history'[Other(d)].committed
    BY <1>4 DEF Leaves, Keeps
  <2>6. Active(d)' => /\ InOrder(side'[d], Behind(d)')
                      /\ side'[d].flow.outgoing => side'[d].flow.request = attempt' /\ Spoke(d)'
                      /\ ~side'[d].flow.outgoing => (Spoke(d)' <=> Heard(d)')
                      /\ "localCommitted" \in side'[d].flow.progress => attempt' \in history'[d].committed
    <3>1. Active(d)' => /\ t.flow.outgoing = side[d].flow.outgoing /\ InOrder(t, Afterwards(d, t.flow.trusted))
                        /\ t.flow.outgoing => t.flow.request = attempt
                        /\ "localCommitted" \in t.flow.progress => attempt \in history'[d].committed
      BY <1>4 DEF Leaves, Active
    <3>. QED
      BY <1>4, <1>5, <2>1, <2>3, <2>4, <3>1 DEF SideSound, Keeps
  <2>7. link'[d] # "down" => attempt' # 0
    BY <1>5 DEF SideSound, Keeps
  <2>. QED
    BY <1>4, <2>2, <2>4, <2>5, <2>6, <2>7 DEF SideSound, Leaves
\* What each side looks like to the other one.
<1>10. /\ Active(e)' <=> Active(e)
       /\ Heard(e)' <=> Heard(e)
       /\ Spoke(e)' <=> Spoke(e)
       /\ Known(e)' = Known(e)
       /\ side'[e].flow = side[e].flow
       /\ link'[e] = link[e] /\ link'[d] # "secured"
       /\ attempt' = attempt
       /\ history'[e] = history[e]
       /\ Confirmed(d) \subseteq Confirmed(d)' /\ Confirmed(e)' = Confirmed(e)
       /\ history[d].committed \subseteq history'[d].committed
  BY <1>4 DEF Active, Heard, Spoke, Known, Keeps, Confirmed, e
<1>11. Active(d)' => /\ Active(d) /\ (Heard(d)' <=> Heard(d)) /\ (Spoke(d)' <=> Spoke(d))
                     /\ side'[d].flow.trusted = side[d].flow.trusted
                     /\ ~Heard(d) => /\ Known(d)' = Known(d) /\ in2 = in
                                     /\ inbox # channel[d] => ~HelloFirst(d)
  BY <1>4, <1>6 DEF Leaves, Active, Heard, Spoke, Known
<1>12. HelloFirst(e)' <=> HelloFirst(e)
  BY <1>6 DEF HelloFirst, Leaves, in, in2
<1>13. HelloFirst(e) => in2[1] = in[1]
  BY <1>6 DEF HelloFirst, in
<1>14. WillTrust(e)' = WillTrust(e)
  BY <1>10, <1>12, <1>13 DEF WillTrust, in, in2
<1>15. HelloFirst(d)' => HelloFirst(d) /\ inbox = channel[d]
  <2>1. HelloFirst(d)' => 1 \in DOMAIN inbox /\ inbox[1].kind = "Hello"
    BY <1>4, <1>7 DEF HelloFirst
  <2>2. \A i \in DOMAIN channel[d] : channel[d][i].kind = "Hello" => i = 1
    BY <1>5 DEF ChannelSound
  <2>3. inbox # channel[d] => ~HelloFirst(d)'
    <3>. SUFFICES ASSUME inbox # channel[d], HelloFirst(d)' PROVE FALSE
      OBVIOUS
    <3>1. inbox # <<>> /\ channel[d] # <<>> /\ inbox = Tail(channel[d])
      BY <1>4, <1>7 DEF Leaves, Left, HelloFirst
    <3>2. 1 + 1 \in DOMAIN channel[d] /\ inbox[1] = channel[d][1 + 1]
      BY <1>2, <2>1, <3>1
    <3>. QED
      BY <2>1, <2>2, <3>2
  <2>. QED
    BY <1>4, <2>3 DEF HelloFirst
<1>16. HelloFirst(d)' => WillTrust(d)' = (Known(d)' # 0 /\ channel[d][1].trust = Known(d)')
  BY <1>4, <1>15 DEF WillTrust
<1>17. ChannelSound(d)'
  <2>1. \A i \in DOMAIN channel'[d] :
          /\ channel'[d][i].request = attempt'
          /\ channel'[d][i].kind = "Hello" => i = 1
          /\ channel'[d][i].kind = "Committed" => attempt' \in history'[e].committed
          /\ channel'[d][i].kind \in {"Decision", "Ready"} =>
              /\ link'[d] # "secured"
              /\ attempt' \in Confirmed(e)' \/ ~Active(d)'
                 \/ (Heard(d)' /\ side'[d].flow.trusted) \/ (~Heard(d)' /\ WillTrust(d)')
    <3>. SUFFICES ASSUME NEW i \in DOMAIN inbox
                  PROVE  /\ inbox[i].request = attempt
                         /\ inbox[i].kind = "Hello" => i = 1
                         /\ inbox[i].kind = "Committed" => attempt \in history[e].committed
                         /\ inbox[i].kind \in {"Decision", "Ready"} =>
                              attempt \in Confirmed(e) \/ ~Active(d)'
                              \/ (Heard(d)' /\ side'[d].flow.trusted) \/ (~Heard(d)' /\ WillTrust(d)')
      BY <1>4, <1>10
    <3>1. PICK k \in DOMAIN channel[d] :
             inbox[i] = channel[d][k] /\ (k = i \/ (k # 1 /\ inbox # channel[d]))
      BY <1>7
    <3>2. /\ channel[d][k].request = attempt
          /\ channel[d][k].kind = "Hello" => k = 1
          /\ channel[d][k].kind = "Committed" => attempt \in history[e].committed
          /\ channel[d][k].kind \in {"Decision", "Ready"} =>
                 attempt \in Confirmed(e) \/ ~Active(d)
                 \/ (Heard(d) /\ side[d].flow.trusted) \/ (~Heard(d) /\ WillTrust(d))
      BY <1>5 DEF ChannelSound, e
    <3>3. inbox[i].kind = "Hello" => i = 1
      BY <3>1, <3>2
    <3>4. Active(d)' /\ ~Heard(d) /\ WillTrust(d) => WillTrust(d)'
      BY <1>4, <1>11 DEF WillTrust, HelloFirst
    <3>. QED
      BY <1>11, <3>1, <3>2, <3>3, <3>4
  <2>2. Active(d)' /\ ~Spoke(d)' => channel'[e] = <<>> /\ ~(Active(e)' /\ Heard(e)')
    <3>1. Active(d) /\ ~Spoke(d) =>
             channel[e] = <<>> /\ ~Heard(d) /\ ~(Active(e) /\ Heard(e))
      BY <1>5 DEF ChannelSound, SideSound, e, InOrder
    <3>. QED
      BY <1>10, <1>11, <3>1 DEF in, in2
  <2>3. HelloFirst(d)' =>
          /\ Active(d)' => ~Heard(d)'
          /\ Active(e)' => Spoke(e)'
          /\ Active(e)' /\ ~Heard(e)' => channel'[d][1].trust = Known(e)'
    BY <1>4, <1>5, <1>10, <1>11, <1>15 DEF ChannelSound, e
  <2>4. Active(e)' /\ Heard(e)' =>
          /\ link'[d] # "secured"
          /\ Active(d)' /\ Heard(d)' => side'[d].flow.trusted = side'[e].flow.trusted
          /\ Active(d)' /\ ~Heard(d)' => HelloFirst(d)' /\ side'[e].flow.trusted = WillTrust(d)'
    <3>1. Active(e) /\ Heard(e) =>
          /\ Active(d) /\ Heard(d) => side[d].flow.trusted = side[e].flow.trusted
          /\ Active(d) /\ ~Heard(d) => HelloFirst(d) /\ side[e].flow.trusted = WillTrust(d)
      BY <1>5 DEF ChannelSound, e
    <3>2. Active(d)' /\ ~Heard(d) /\ HelloFirst(d) => HelloFirst(d)' /\ WillTrust(d)' = WillTrust(d)
      BY <1>4, <1>11 DEF WillTrust, HelloFirst
    <3>. QED
      BY <1>10, <1>11, <3>1, <3>2
  <2>. QED
    BY <1>10, <2>1, <2>2, <2>3, <2>4 DEF ChannelSound, e
<1>18. ChannelSound(e)'
  <2>0. /\ Active(d) /\ Heard(d) =>
            /\ link[e] # "secured"
            /\ Active(e) /\ Heard(e) => side[e].flow.trusted = side[d].flow.trusted
            /\ Active(e) /\ ~Heard(e) => HelloFirst(e) /\ side[d].flow.trusted = WillTrust(e)
        /\ link[e] = "secured" => channel[d] = <<>>
        /\ Active(e) /\ ~Spoke(e) => channel[d] = <<>> /\ ~(Active(d) /\ Heard(d))
        /\ HelloFirst(e) =>
            /\ Active(e) => ~Heard(e)
            /\ Active(d) => Spoke(d)
            /\ Active(d) /\ ~Heard(d) => in[1].trust = Known(d)
    BY <1>1, <1>5 DEF ChannelSound, in
  <2>1. ASSUME NEW i \in DOMAIN in2
        PROVE  /\ in2[i].request = attempt
               /\ in2[i].kind = "Hello" => i = 1
               /\ in2[i].kind = "Committed" => attempt \in history'[d].committed
               /\ in2[i].kind \in {"Decision", "Ready"} =>
                   /\ link[e] # "secured"
                   /\ attempt \in Confirmed(d)' \/ ~Active(e)
                      \/ (Heard(e) /\ side[e].flow.trusted) \/ (~Heard(e) /\ WillTrust(e))
    <3>1. CASE i \in DOMAIN in /\ in2[i] = in[i]
      <4>1. /\ in[i].request = attempt
            /\ in[i].kind = "Hello" => i = 1
            /\ in[i].kind = "Committed" => attempt \in history[d].committed
            /\ in[i].kind \in {"Decision", "Ready"} =>
                /\ link[e] # "secured"
                /\ attempt \in Confirmed(d) \/ ~Active(e)
                   \/ (Heard(e) /\ side[e].flow.trusted) \/ (~Heard(e) /\ WillTrust(e))
        BY <1>1, <1>5, <3>1 DEF ChannelSound, in
      <4>. QED
        BY <1>10, <3>1, <4>1
    <3>2. CASE \E j \in DOMAIN t.out : in2[i] = t.out[j]
      <4>1. /\ in2[i].request = attempt
            /\ in2[i].kind # "Hello"
            /\ in2[i].kind = "Committed" => attempt \in history'[d].committed
            /\ in2[i].kind \in {"Decision", "Ready"} =>
                   /\ Active(d) /\ Heard(d)
                   /\ side[d].flow.trusted \/ attempt \in Confirmed(d)'
        BY <3>2 DEF Leaves
      <4>2. side[d].flow.trusted /\ Active(d) /\ Heard(d) =>
               ~Active(e) \/ (Heard(e) /\ side[e].flow.trusted) \/ (~Heard(e) /\ WillTrust(e))
        BY <2>0
      <4>. QED
        BY <2>0, <4>1, <4>2
    <3>. QED
      BY <1>6, <3>1, <3>2
  <2>2. link'[e] = "secured" => channel'[d] = <<>>
    BY <1>4, <1>7, <1>10, <2>0
  <2>3. Active(e)' /\ ~Spoke(e)' => channel'[d] = <<>> /\ ~(Active(d)' /\ Heard(d)')
    BY <1>4, <1>7, <1>10, <1>11, <2>0
  <2>4. HelloFirst(e)' =>
          /\ Active(e)' => ~Heard(e)'
          /\ Active(d)' => Spoke(d)'
          /\ Active(d)' /\ ~Heard(d)' => in2[1].trust = Known(d)'
    BY <1>10, <1>11, <1>12, <1>13, <2>0
  <2>5. Active(d)' /\ Heard(d)' =>
          /\ link'[e] # "secured"
          /\ Active(e)' /\ Heard(e)' => side'[e].flow.trusted = side'[d].flow.trusted
          /\ Active(e)' /\ ~Heard(e)' => HelloFirst(e)' /\ side'[d].flow.trusted = WillTrust(e)'
    BY <1>10, <1>11, <1>12, <1>14, <2>0
  <2>6. \A i \in DOMAIN channel'[e] :
          /\ channel'[e][i].request = attempt'
          /\ channel'[e][i].kind = "Hello" => i = 1
          /\ channel'[e][i].kind = "Committed" => attempt' \in history'[d].committed
          /\ channel'[e][i].kind \in {"Decision", "Ready"} =>
              /\ link'[e] # "secured"
              /\ attempt' \in Confirmed(d)' \/ ~Active(e)'
                 \/ (Heard(e)' /\ side'[e].flow.trusted) \/ (~Heard(e)' /\ WillTrust(e)')
    BY <1>10, <1>14, <2>1 DEF in2
  <2>. QED
    BY <1>1, <2>2, <2>3, <2>4, <2>5, <2>6 DEF ChannelSound, in2
<1>. QED
  BY <1>1, <1>8, <1>9, <1>17, <1>18 DEF IInv

-----------------------------------------------------------------------------
(* What the device that moves starts from.                                  *)

\* The types of what a handler starts from.
LEMMA SidesAreHandled ==
    ASSUME Typed, NEW d \in Device
    PROVE  /\ side[d] \in Handling /\ side[d].out = <<>> /\ Quiet(side[d])
           /\ side[d].flow \in Flow /\ side[d].devices \in SUBSET TrustRecord
           /\ side[d].stored \in SUBSET TrustRecord /\ side[d].before \in SUBSET TrustRecord
           /\ channel[d] \in Seq(Message) /\ link[d] \in Link
           /\ history[d] \in Past /\ attempt \in Request
<1>1. side[d] \in Side /\ MaxFault \in Nat
  BY BoundsAssumption DEF Typed, TypeOK
<1>2. side[d].out = <<>>
  BY <1>1 DEF Side
<1>3. side[d].out \in Seq(Message)
  BY <1>2
<1>4. side[d] \in Handling
  BY <1>1, <1>3 DEF Side, Handling
<1>. QED
  BY <1>1, <1>2, <1>4 DEF Side, Quiet, Typed, TypeOK

\* Between two handlers the side of an attempt fits.
LEMMA ActiveFits ==
    ASSUME Typed, IInv, NEW d \in Device, Active(d)
    PROVE  Behind(d) \in Context /\ Fit(side[d], Behind(d))
<1>1. Other(d) \in Device
  BY TwoDevices
<1>2. SideSound(d) /\ attempt \in 1 .. MaxAttempt
  BY BoundsAssumption DEF IInv, SideSound, Typed, TypeOK, Request
<1>3. Behind(d) \in Context
  <2>1. /\ Confirmed(d) \in SUBSET Request /\ Confirmed(Other(d)) \in SUBSET Request
        /\ history[Other(d)].committed \in SUBSET Request
    BY <1>1 DEF Typed, Past, Confirmed
  <2>2. side[d].flow.trusted \in BOOLEAN
    BY SidesAreHandled DEF Flow
  <2>. QED
    BY <1>2, <2>1, <2>2 DEF Behind, Context, Heard
<1>4. /\ Behind(d).mine \cap Behind(d).theirs = Both(d) /\ Behind(d).hello = {}
      /\ Behind(d).greeted = Heard(d)
  BY DEF Behind, Both
<1>5. Heard(d) => {"helloSent", "helloReceived"} \subseteq side[d].flow.progress
  BY <1>2 DEF SideSound, Heard, Spoke
<1>6. Sound(side[d], Behind(d).mine \cap Behind(d).theirs) /\ InOrder(side[d], Behind(d))
  BY <1>2, <1>4 DEF SideSound
<1>7. side[d] \in Handling /\ DOMAIN side[d].out = {}
  BY SidesAreHandled
<1>. HIDE DEF Behind
<1>. QED
  BY <1>3, <1>4, <1>5, <1>6, <1>7 DEF Fit

\* A step within an attempt whose Hello is known, or one that ends it.
LEMMA HandledLeaves ==
    ASSUME Typed, IInv, NEW d \in Device, Active(d),
           NEW c \in Context, NEW t, Fit(t, c), NEW inbox, Left(inbox, channel[d]),
           c.attempt = attempt, c.mine = Confirmed(d)', c.theirs = Confirmed(Other(d))',
           c.durable = history[Other(d)].committed, c.alone = side[d].flow.trusted,
           c.outgoing = (initiator = d), c.greeted = Heard(d), c.hello = {},
           Keeps(d),
           t.flow.active => Heard(d) /\ link'[d] = "open",
           ~Heard(d) => \A i \in DOMAIN t.out : t.out[i].kind = "Rejected",
           t.flow.request = attempt /\ "localCommitted" \in t.flow.progress
               => attempt \in history'[d].committed
    PROVE  Leaves(d, t, inbox)
<1>1. t \in Handling /\ Sound(t, Both(d)')
  BY DEF Fit, Both
<1>2. t.flow.authenticated => t.flow.request \in history[Other(d)].committed
  BY DEF Fit, InOrder
<1>3. t.flow.active => InOrder(t, Afterwards(d, t.flow.trusted))
  <2>. DEFINE b == Afterwards(d, t.flow.trusted)
  <2>1. InOrder(t, c) /\ (t.flow.active => c.alone = t.flow.trusted)
    BY DEF Fit, InOrder
  <2>2. /\ b.attempt = c.attempt /\ b.mine = c.mine /\ b.theirs = c.theirs
        /\ b.durable = c.durable /\ b.outgoing = c.outgoing
        /\ t.flow.active => b.alone = c.alone
    BY <2>1 DEF Afterwards, Keeps
  <2>. HIDE DEF b
  <2>3. t.flow.active => InOrder(t, b)
    BY <2>1, <2>2, SameOrder
  <2>. QED
    BY <2>3 DEF b
<1>4. Fit(side[d], Behind(d)) /\ (Behind(d).greeted <=> Heard(d))
  BY ActiveFits DEF Behind
<1>5. t.flow.active =>
        /\ {"helloSent", "helloReceived"} \subseteq side[d].flow.progress
        /\ {"helloSent", "helloReceived"} \subseteq t.flow.progress
        /\ t.flow.request = attempt
        /\ t.flow.trusted = side[d].flow.trusted
        /\ t.flow.outgoing = side[d].flow.outgoing
  <2>1. t.flow.active => {"helloSent", "helloReceived"} \subseteq t.flow.progress
    BY DEF Fit
  <2>2. Heard(d) => {"helloSent", "helloReceived"} \subseteq side[d].flow.progress
    BY <1>4 DEF Fit, Active
  <2>3. t.flow.active => t.flow.request = attempt /\ t.flow.trusted = side[d].flow.trusted
                         /\ t.flow.outgoing = (initiator = d)
    BY <2>1 DEF Fit, InOrder
  <2>4. side[d].flow.outgoing = (initiator = d)
    BY <1>4 DEF Fit, InOrder, Active, Behind
  <2>. QED
    BY <2>1, <2>2, <2>3, <2>4
<1>6. \A i \in DOMAIN t.out :
        /\ t.out[i].request = attempt
        /\ t.out[i].kind # "Hello"
        /\ t.out[i].kind = "Committed" => attempt \in history'[d].committed
        /\ t.out[i].kind \in {"Decision", "Ready"} =>
               /\ Active(d) /\ Heard(d)
               /\ side[d].flow.trusted \/ attempt \in Confirmed(d)'
  BY DEF Fit
<1>. HIDE DEF Heard
<1>. QED
  BY <1>1, <1>2, <1>3, <1>5, <1>6 DEF Leaves

\* A device without an attempt under way, or one that drops a message.
LEMMA IdleLeaves ==
    ASSUME Typed, IInv, NEW d \in Device, Keeps(d),
           NEW inbox, Left(inbox, channel[d]),
           Active(d) => link'[d] = "open",
           Active(d) /\ ~Heard(d) => inbox = channel[d] \/ ~HelloFirst(d)
    PROVE  Leaves(d, side[d], inbox)
<1>. DEFINE s == side[d]
<1>1. s \in Handling /\ s.out = <<>> /\ SideSound(d)
  BY SidesAreHandled DEF IInv
<1>2. Sound(s, Both(d)')
  <2>1. Both(d) \subseteq Both(d)'
    BY DEF Both, Keeps, Confirmed
  <2>. QED
    BY <1>1, <2>1 DEF Sound, SideSound
<1>3. Active(d) => InOrder(s, Afterwards(d, s.flow.trusted))
  <2>. DEFINE b == Behind(d)
              c == Afterwards(d, s.flow.trusted)
  <2>1. /\ c.attempt = b.attempt /\ c.alone = b.alone /\ c.outgoing = b.outgoing
        /\ b.mine \subseteq c.mine /\ b.theirs = c.theirs /\ b.durable = c.durable
    BY DEF Behind, Afterwards, Keeps, Confirmed
  <2>2. Active(d) => InOrder(s, b)
    BY <1>1 DEF SideSound
  <2>. HIDE DEF b, c, s
  <2>3. Active(d) => InOrder(s, c)
    BY <2>1, <2>2 DEF InOrder
  <2>. QED
    BY <2>3 DEF c
<1>4. history[d].committed \subseteq history'[d].committed
  BY DEF Keeps
<1>. QED
  BY <1>1, <1>2, <1>3, <1>4 DEF Leaves, SideSound, Active

-----------------------------------------------------------------------------
(* The peer's Hello.                                                        *)

\* The step of a device that takes its peer's Hello.
LEMMA HelloKeepsOrder ==
    ASSUME Typed, IInv, NEW d \in Device, Active(d), HelloFirst(d), Keeps(d),
           link'[d] = "open", Confirmed(d)' = Confirmed(d),
           NEW c \in Context, NEW t, Fit(t, c), Run(d, t, Tail(channel[d])),
           c.attempt = attempt, c.mine = Confirmed(d), c.theirs = Confirmed(Other(d)),
           c.durable = history[Other(d)].committed, c.outgoing = (initiator = d), c.greeted,
           c.alone = (Known(d) # 0 /\ Known(d) = channel[d][1].trust),
           c.hello = IF Spoke(d) THEN {}
                     ELSE {[kind |-> "Hello", request |-> attempt,
                            trust |-> Known(d), scopes |-> Scope]},
           t.flow.request = attempt /\ "localCommitted" \in t.flow.progress
               => attempt \in history'[d].committed
    PROVE  IInv'
<1>. DEFINE e == Other(d)
            inbox == Tail(channel[d])
            in == channel[e]
            in2 == channel'[e]
            h == [kind |-> "Hello", request |-> attempt, trust |-> Known(d), scopes |-> Scope]
<1>1. e \in Device /\ e # d /\ Other(e) = d /\ \A x \in Device : x = d \/ x = e
  BY TwoDevices
<1>2. /\ channel[d] \in Seq(Message) /\ in \in Seq(Message) /\ inbox \in Seq(Message)
      /\ t \in Handling /\ t.out \in Seq(Message)
  BY <1>1 DEF Typed, HelloFirst, Fit, Handling
<1>3. /\ side'[d].flow = t.flow /\ side'[d].devices = t.devices
      /\ side'[d].stored = t.stored /\ side'[d].before = t.before
      /\ side'[e] = side[e] /\ channel'[d] = inbox
      /\ in2 = IF link[e] = "down" THEN in ELSE in \o t.out
  BY <1>2, RunEffect
<1>4. SideSound(d) /\ SideSound(e) /\ ChannelSound(d) /\ ChannelSound(e)
  BY <1>1 DEF IInv
<1>5. \A i \in DOMAIN inbox : i + 1 \in DOMAIN channel[d] /\ i + 1 # 1
                              /\ inbox[i] = channel[d][i + 1]
  <2>2. /\ DOMAIN channel[d] = 1 .. Len(channel[d]) /\ DOMAIN inbox = 1 .. Len(channel[d]) - 1
        /\ Len(channel[d]) \in Nat
        /\ \A i \in 1 .. Len(channel[d]) - 1 : inbox[i] = channel[d][i + 1]
    BY <1>2 DEF HelloFirst
  <2>. QED
    BY <2>2
<1>6. Extends(in2, in, t.out) /\ in2 \in Seq(Message)
  <2>1. (in \o t.out) \in Seq(Message)
    BY <1>2
  <2>. QED
    BY <1>2, <1>3, <2>1 DEF Extends
<1>. HIDE DEF e, in, in2, h, inbox
<1>7. SideSound(e)'
  BY <1>1, <1>3, <1>4, OtherStays DEF Keeps, Confirmed, e
<1>8. /\ ~Heard(d)
      /\ Active(e) => Spoke(e)
      /\ Active(e) /\ ~Heard(e) => channel[d][1].trust = Known(e)
      /\ Active(e) /\ Heard(e) => side[e].flow.trusted = WillTrust(d) /\ link[d] # "secured"
      /\ WillTrust(d) = c.alone
      /\ link[e] # "secured"
  <2>1. /\ ~Heard(d)
        /\ Active(e) => Spoke(e)
        /\ Active(e) /\ ~Heard(e) => channel[d][1].trust = Known(e)
        /\ Active(e) /\ Heard(e) => side[e].flow.trusted = WillTrust(d) /\ link[d] # "secured"
    BY <1>4 DEF ChannelSound, e
  <2>2. WillTrust(d) = c.alone
    BY DEF WillTrust
  <2>3. link[e] # "secured"
    BY <1>1, <1>4 DEF ChannelSound, HelloFirst
  <2>. QED
    BY <2>1, <2>2, <2>3
<1>9. /\ Active(e)' <=> Active(e)
      /\ Heard(e)' <=> Heard(e)
      /\ Spoke(e)' <=> Spoke(e)
      /\ Known(e)' = Known(e)
      /\ side'[e].flow = side[e].flow
      /\ link'[e] = link[e]
      /\ attempt' = attempt
      /\ history'[e] = history[e] /\ Confirmed(e)' = Confirmed(e)
      /\ history[d].committed \subseteq history'[d].committed
  BY <1>3 DEF Active, Heard, Spoke, Known, Keeps, Confirmed, e
<1>10. t.flow.active => /\ {"helloSent", "helloReceived"} \subseteq t.flow.progress
                        /\ t.flow.request = attempt /\ t.flow.trusted = c.alone
                        /\ t.flow.outgoing = (initiator = d)
  <2>1. t.flow.active => {"helloSent", "helloReceived"} \subseteq t.flow.progress
    BY DEF Fit
  <2>. QED
    BY <2>1 DEF Fit, InOrder
<1>11. Active(d)' => Heard(d)' /\ Spoke(d)' /\ side'[d].flow.trusted = c.alone
  BY <1>3, <1>10 DEF Active, Heard, Spoke
\* A peer that has not heard of this device opened the connection.
<1>12. Active(e) /\ ~Heard(e) => ~Spoke(d)
  <2>1. Active(e) /\ ~Heard(e) => initiator = e
    <3>1. Active(e) => (side[e].flow.outgoing <=> initiator = e)
      BY <1>4 DEF SideSound, InOrder, Behind, Active
    <3>2. Active(e) /\ ~side[e].flow.outgoing => (Spoke(e) <=> Heard(e))
      BY <1>4 DEF SideSound
    <3>. QED
      BY <1>8, <3>1, <3>2
  <2>2. initiator = e => ~side[d].flow.outgoing
    BY <1>1, <1>4 DEF SideSound, InOrder, Behind, Active
  <2>3. ~side[d].flow.outgoing => ~Spoke(d)
    BY <1>4, <1>8 DEF SideSound
  <2>. QED
    BY <2>1, <2>2, <2>3
<1>13. ~Spoke(d) => /\ in = <<>> /\ ~(Active(e) /\ Heard(e))
                    /\ in2 = <<>> \/ (in2 = t.out /\ t.out # <<>> /\ t.out[1] = h)
                    /\ link[e] # "down" => in2 = t.out /\ t.out # <<>> /\ t.out[1] = h
  <2>1. ~Spoke(d) => in = <<>> /\ ~(Active(e) /\ Heard(e))
    BY <1>4 DEF ChannelSound, e, in
  <2>2. ~Spoke(d) => t.out # <<>> /\ t.out[1] = h
    BY DEF Fit, h
  <2>3. in = <<>> => in \o t.out = t.out
    BY <1>2
  <2>. QED
    BY <1>3, <2>1, <2>2, <2>3
<1>14. Spoke(d) => /\ \A i \in DOMAIN t.out : t.out[i].kind # "Hello"
  BY DEF Fit
<1>15. /\ \A i \in DOMAIN in2 : \/ i \in DOMAIN in /\ in2[i] = in[i]
                                \/ \E j \in DOMAIN t.out : in2[i] = t.out[j]
       /\ in # <<>> => in2 # <<>> /\ in2[1] = in[1]
       /\ in = <<>> /\ in2 # <<>> => \E j \in DOMAIN t.out : in2[1] = t.out[j]
  BY <1>2, <1>6, Delivered
<1>16. Spoke(d) => /\ HelloFirst(e)' <=> HelloFirst(e)
                   /\ HelloFirst(e) => in2[1] = in[1]
                   /\ WillTrust(e)' = WillTrust(e)
  <2>1. Spoke(d) => /\ HelloFirst(e)' <=> HelloFirst(e)
                    /\ HelloFirst(e) => in2[1] = in[1]
    BY <1>14, <1>15 DEF HelloFirst, in, in2
  <2>. QED
    BY <1>9, <2>1 DEF WillTrust, in, in2
<1>17. Active(e) /\ ~Heard(e) => HelloFirst(e)' /\ WillTrust(e)' = c.alone
  <2>. SUFFICES ASSUME Active(e), ~Heard(e)
                PROVE  HelloFirst(e)' /\ WillTrust(e)' = c.alone
    OBVIOUS
  <2>1. link[e] = "open"
    BY <1>4 DEF SideSound
  <2>2. in2 # <<>> /\ in2[1] = h
    BY <1>12, <1>13, <2>1
  <2>3. HelloFirst(e)' /\ in2[1].trust = Known(d)
    BY <2>2 DEF HelloFirst, in2, h
  <2>. QED
    BY <1>8, <1>9, <2>3 DEF WillTrust, in2
<1>18. SideSound(d)'
  <2>1. InOrder(side'[d], Behind(d)') \/ ~t.flow.active
    <3>. DEFINE b == Behind(d)'
    <3>1. t.flow.active =>
            /\ c.attempt = b.attempt /\ c.mine = b.mine /\ c.theirs = b.theirs
            /\ c.durable = b.durable /\ c.alone = b.alone /\ c.outgoing = b.outgoing
      BY <1>3, <1>9, <1>10 DEF Behind, Keeps, e
    <3>2. InOrder(t, c)
      BY DEF Fit
    <3>. HIDE DEF b
    <3>3. t.flow.active => InOrder(side'[d], b)
      BY <1>3, <3>1, <3>2, SameOrder
    <3>. QED
      BY <3>3 DEF b
  <2>2. Sound(side'[d], Both(d)')
    <3>1. Sound(t, Both(d)')
      BY <1>9 DEF Fit, Both, e
    <3>. QED
      BY <1>3, <3>1 DEF Sound
  <2>3. side'[d].flow.authenticated => side'[d].flow.request \in history'[Other(d)].committed
    BY <1>3, <1>9 DEF Fit, InOrder, e
  <2>4. attempt' # 0
    BY <1>4, <1>9 DEF SideSound, Active
  <2>. QED
    BY <1>3, <1>9, <1>10, <1>11, <2>1, <2>2, <2>3, <2>4 DEF SideSound, Active
<1>19. ChannelSound(d)'
  <2>1. ASSUME NEW i \in DOMAIN inbox
        PROVE  /\ inbox[i].request = attempt
               /\ inbox[i].kind # "Hello"
               /\ inbox[i].kind = "Committed" => attempt \in history[e].committed
               /\ inbox[i].kind \in {"Decision", "Ready"} =>
                    attempt \in Confirmed(e) \/ c.alone
    <3>1. i + 1 \in DOMAIN channel[d] /\ i + 1 # 1 /\ inbox[i] = channel[d][i + 1]
      BY <1>5
    <3>2. /\ channel[d][i + 1].request = attempt
          /\ channel[d][i + 1].kind = "Hello" => i + 1 = 1
          /\ channel[d][i + 1].kind = "Committed" => attempt \in history[e].committed
          /\ channel[d][i + 1].kind \in {"Decision", "Ready"} =>
                 attempt \in Confirmed(e) \/ ~Active(d)
                 \/ (Heard(d) /\ side[d].flow.trusted) \/ (~Heard(d) /\ WillTrust(d))
      BY <1>4, <3>1 DEF ChannelSound, e
    <3>. QED
      BY <1>8, <3>1, <3>2
  <2>2. ~HelloFirst(d)'
    <3>1. inbox # <<>> => 1 \in DOMAIN inbox
      BY <1>2
    <3>. QED
      BY <1>3, <2>1, <3>1 DEF HelloFirst
  <2>3. \A i \in DOMAIN channel'[d] :
          /\ channel'[d][i].request = attempt'
          /\ channel'[d][i].kind = "Hello" => i = 1
          /\ channel'[d][i].kind = "Committed" => attempt' \in history'[e].committed
          /\ channel'[d][i].kind \in {"Decision", "Ready"} =>
              /\ link'[d] # "secured"
              /\ attempt' \in Confirmed(e)' \/ ~Active(d)'
                 \/ (Heard(d)' /\ side'[d].flow.trusted) \/ (~Heard(d)' /\ WillTrust(d)')
    BY <1>3, <1>9, <1>11, <2>1
  <2>4. Active(e)' /\ Heard(e)' /\ Active(d)' => side'[d].flow.trusted = side'[e].flow.trusted
    BY <1>8, <1>9, <1>11
  <2>. QED
    BY <1>11, <2>2, <2>3, <2>4 DEF ChannelSound, e
<1>20. ChannelSound(e)'
  <2>1. ASSUME NEW i \in DOMAIN in2
        PROVE  /\ in2[i].request = attempt
               /\ in2[i].kind = "Hello" => i = 1
               /\ in2[i].kind = "Committed" => attempt \in history'[d].committed
               /\ in2[i].kind \in {"Decision", "Ready"} =>
                   attempt \in Confirmed(d) \/ ~Active(e)
                      \/ (Heard(e) /\ side[e].flow.trusted) \/ (~Heard(e) /\ WillTrust(e)')
    <3>0. c.alone => ~Active(e) \/ (Heard(e) /\ side[e].flow.trusted)
                     \/ (~Heard(e) /\ WillTrust(e)')
      BY <1>8, <1>17
    <3>1. CASE Spoke(d) /\ i \in DOMAIN in /\ in2[i] = in[i]
      <4>1. /\ in[i].request = attempt
            /\ in[i].kind = "Hello" => i = 1
            /\ in[i].kind = "Committed" => attempt \in history[d].committed
            /\ in[i].kind \in {"Decision", "Ready"} =>
                attempt \in Confirmed(d) \/ ~Active(e)
                   \/ (Heard(e) /\ side[e].flow.trusted) \/ (~Heard(e) /\ WillTrust(e))
        BY <1>1, <1>4, <3>1 DEF ChannelSound, in
      <4>. QED
        BY <1>9, <1>16, <3>1, <4>1
    <3>2. CASE Spoke(d) /\ \E j \in DOMAIN t.out : in2[i] = t.out[j]
      <4>1. /\ in2[i].request = attempt
            /\ in2[i].kind # "Hello"
            /\ in2[i].kind = "Committed" => attempt \in history'[d].committed
            /\ in2[i].kind \in {"Decision", "Ready"} => c.alone \/ attempt \in Confirmed(d)
        BY <3>2 DEF Fit
      <4>. QED
        BY <3>0, <4>1
    <3>3. CASE ~Spoke(d)
      <4>1. i \in DOMAIN t.out /\ in2[i] = t.out[i]
        BY <1>13, <3>3
      <4>2. /\ in2[i].request = attempt
            /\ in2[i].kind = "Hello" => i = 1
            /\ in2[i].kind = "Committed" => attempt \in history'[d].committed
            /\ in2[i].kind \in {"Decision", "Ready"} => c.alone \/ attempt \in Confirmed(d)
        BY <4>1 DEF Fit
      <4>. QED
        BY <3>0, <4>2
    <3>. QED
      BY <1>15, <3>1, <3>2, <3>3
  <2>2. Active(e)' => Spoke(e)'
    BY <1>8, <1>9
  <2>3. HelloFirst(e)' /\ Active(e)' => ~Heard(e)'
    <3>1. Spoke(d) /\ HelloFirst(e)' /\ Active(e) => ~Heard(e)
      BY <1>4, <1>16 DEF ChannelSound
    <3>. QED
      BY <1>9, <1>13, <3>1
  <2>4. Active(d)' /\ Heard(d)' =>
          /\ link'[e] # "secured"
          /\ Active(e)' /\ Heard(e)' => side'[e].flow.trusted = side'[d].flow.trusted
          /\ Active(e)' /\ ~Heard(e)' => HelloFirst(e)' /\ side'[d].flow.trusted = WillTrust(e)'
    BY <1>8, <1>9, <1>11, <1>17
  <2>5. \A i \in DOMAIN channel'[e] :
          /\ channel'[e][i].request = attempt'
          /\ channel'[e][i].kind = "Hello" => i = 1
          /\ channel'[e][i].kind = "Committed" => attempt' \in history'[d].committed
          /\ channel'[e][i].kind \in {"Decision", "Ready"} =>
              /\ link'[e] # "secured"
              /\ attempt' \in Confirmed(d)' \/ ~Active(e)'
                 \/ (Heard(e)' /\ side'[e].flow.trusted) \/ (~Heard(e)' /\ WillTrust(e)')
    BY <1>8, <1>9, <2>1 DEF in2
  <2>. QED
    BY <1>1, <1>8, <1>9, <1>11, <2>2, <2>3, <2>4, <2>5 DEF ChannelSound
<1>. QED
  BY <1>1, <1>7, <1>18, <1>19, <1>20 DEF IInv

-----------------------------------------------------------------------------
(* The handlers as steps.                                                   *)

\* clear keeps sound records sound, also after success.
LEMMA ClearSound ==
    ASSUME NEW s \in Handling, NEW both, Sound(s, both), NEW bad
    PROVE  /\ Clear(s, bad) \in Handling /\ Sound(Clear(s, bad), both)
           /\ Clear(s, bad).flow = IdleFlow /\ Clear(s, bad).out = s.out
<1>. DEFINE r == Rollback(s, bad)
<1>1. r \in Handling /\ Sound(r, both) /\ r.out = s.out
  <2>1. /\ Fault(s) \in Handling /\ Sound(Fault(s), both) /\ Fault(s).out = s.out
    BY DEF Fault, Handling, Sound
  <2>. DEFINE u == Save(s, s.before)
              v == ClearTransaction(u)
  <2>2. /\ u \in Handling /\ Sound(u, both) /\ u.out = s.out
    BY DEF Save, Handling, Sound
  <2>. HIDE DEF u
  <2>3. v \in Handling /\ Sound(v, both) /\ v.out = u.out
    BY <2>2, AttemptsAreCounted DEF ClearTransaction, Handling, Sound
  <2>. QED
    BY <2>1, <2>2, <2>3 DEF Rollback, u
<1>2. IdleFlow \in Flow
  BY AttemptsAreCounted DEF IdleFlow, Flow
<1>. HIDE DEF r
<1>3. /\ [r EXCEPT !.flow = IdleFlow] \in Handling
      /\ [r EXCEPT !.flow = IdleFlow].flow = IdleFlow
      /\ [r EXCEPT !.flow = IdleFlow].out = r.out
      /\ [r EXCEPT !.flow = IdleFlow].stored = r.stored
      /\ [r EXCEPT !.flow = IdleFlow].devices = r.devices
      /\ [r EXCEPT !.flow = IdleFlow].before = r.before
  BY <1>1, <1>2, FlowChanges
<1>4. Sound([r EXCEPT !.flow = IdleFlow], both)
  BY <1>1, <1>3 DEF Sound
<1>. QED
  BY <1>1, <1>3, <1>4 DEF Clear, r

\* A side without a flow, that says nothing.
LEMMA RestLeaves ==
    ASSUME Typed, IInv, NEW d \in Device, Keeps(d), NEW inbox, Left(inbox, channel[d]),
           NEW t \in Handling, Sound(t, Both(d)), t.flow = IdleFlow, t.out = <<>>
    PROVE  Leaves(d, t, inbox)
<1>1. Both(d) \subseteq Both(d)'
  BY DEF Both, Keeps, Confirmed
<1>2. Sound(t, Both(d)')
  BY <1>1 DEF Sound
<1>. QED
  BY <1>2 DEF Leaves, IdleFlow

\* An attempt that fails.
LEMMA FailLeaves ==
    ASSUME Typed, IInv, NEW d \in Device, Active(d), Keeps(d),
           Confirmed(d)' = Confirmed(d),
           NEW inbox, Left(inbox, channel[d]), NEW notify \in BOOLEAN, NEW bad,
           NEW s, Fit(s, Behind(d)), s.flow.active, s.out = <<>>
    PROVE  Leaves(d, Fail(s, notify, bad), inbox) /\ Fail(s, notify, bad) \in Handling
<1>. DEFINE t == Fail(s, notify, bad)
            c == Behind(d)
<1>1. c \in Context /\ Fit(s, c) /\ Quiet(s) /\ s \in Handling
  <2>1. DOMAIN s.out = {}
    OBVIOUS
  <2>. QED
    BY <2>1, ActiveFits DEF Quiet, Fit
<1>2. /\ c.attempt = attempt /\ c.mine = Confirmed(d)' /\ c.theirs = Confirmed(Other(d))'
      /\ c.durable = history[Other(d)].committed /\ c.alone = side[d].flow.trusted
      /\ c.outgoing = (initiator = d) /\ c.greeted = Heard(d) /\ c.hello = {}
  BY DEF Behind, Keeps, Confirmed
<1>. HIDE DEF c
<1>3. Fit(t, c) /\ t.flow = IdleFlow
  BY <1>1, FailFits
<1>4. \A i \in DOMAIN t.out : t.out[i].kind = "Rejected"
  BY <1>1, FailSays
<1>5. ~t.flow.active /\ "localCommitted" \notin t.flow.progress
  BY <1>3 DEF IdleFlow
<1>. HIDE DEF t
<1>6. Leaves(d, t, inbox)
  BY <1>1, <1>2, <1>3, <1>4, <1>5, HandledLeaves
<1>. QED
  BY <1>3, <1>6 DEF t, Fit

\* A handler that goes on with an attempt whose Hello is known.
LEMMA GoesOnLeaves ==
    ASSUME Typed, IInv, NEW d \in Device, Active(d), Heard(d), Keeps(d),
           Confirmed(d)' = Confirmed(d), link'[d] = "open",
           NEW inbox, Left(inbox, channel[d]), NEW t, Fit(t, Behind(d)),
           t.flow.request = attempt /\ "localCommitted" \in t.flow.progress
               => attempt \in history'[d].committed
    PROVE  Leaves(d, t, inbox)
<1>. DEFINE c == Behind(d)
<1>1. c \in Context
  BY ActiveFits
<1>2. /\ c.attempt = attempt /\ c.mine = Confirmed(d)' /\ c.theirs = Confirmed(Other(d))'
      /\ c.durable = history[Other(d)].committed /\ c.alone = side[d].flow.trusted
      /\ c.outgoing = (initiator = d) /\ c.greeted = Heard(d) /\ c.hello = {}
  BY DEF Behind, Keeps, Confirmed
<1>3. Fit(t, c)
  OBVIOUS
<1>. HIDE DEF c
<1>. QED
  BY <1>1, <1>2, <1>3, HandledLeaves

\* What a received message leaves of the history.
LEMMA RecordedKeeps ==
    ASSUME Typed, NEW d \in Device, NEW t \in Handling, link[d] = "open",
           history' = [history EXCEPT ![d] = Recorded(@, t)],
           UNCHANGED <<link, initiator, attempt>>
    PROVE  /\ Keeps(d) /\ link'[d] = "open" /\ history' \in [Device -> Past]
           /\ Confirmed(d)' = Confirmed(d)
           /\ t.flow.request = attempt /\ "localCommitted" \in t.flow.progress
                => attempt \in history'[d].committed
<1>1. history[d] \in Past /\ t.flow.request \in Request /\ Other(d) \in Device /\ Other(d) # d
      /\ history \in [Device -> Past]
  BY SidesAreHandled, TwoDevices DEF Handling, Flow, Typed
<1>. DEFINE r == Recorded(history[d], t)
<1>2. /\ r \in Past /\ r.confirmed = history[d].confirmed
      /\ history[d].committed \subseteq r.committed
      /\ "localCommitted" \in t.flow.progress => t.flow.request \in r.committed
  BY <1>1 DEF Recorded, Past, Has
<1>3. history' = [history EXCEPT ![d] = r]
  OBVIOUS
<1>. HIDE DEF r
<1>4. history'[d] = r /\ history'[Other(d)] = history[Other(d)] /\ history' \in [Device -> Past]
  BY <1>1, <1>2, <1>3
<1>. QED
  BY <1>1, <1>2, <1>4 DEF Keeps, Confirmed

\* Device d has received the first message in its channel, and is left as t.
Hearing(d, t) ==
    /\ link[d] = "open"
    /\ channel[d] # <<>>
    /\ Run(d, t, Tail(channel[d]))
    /\ history' = [history EXCEPT ![d] = Recorded(@, t)]
    /\ UNCHANGED <<link, initiator, attempt>>

\* The same, with what was received.
LEMMA HearingKeeps ==
    ASSUME Typed, NEW d \in Device, NEW t \in Handling, Hearing(d, t)
    PROVE  /\ Keeps(d) /\ link'[d] = "open" /\ history' \in [Device -> Past]
           /\ Confirmed(d)' = Confirmed(d)
           /\ t.flow.request = attempt /\ "localCommitted" \in t.flow.progress
                => attempt \in history'[d].committed
           /\ Run(d, t, Tail(channel[d])) /\ Left(Tail(channel[d]), channel[d])
BY RecordedKeeps DEF Hearing, Left

\* The message is dropped.
LEMMA DroppedKeepsOrder ==
    ASSUME Typed, IInv, NEW d \in Device, Hearing(d, side[d]),
           Active(d) => ~HelloFirst(d)
    PROVE  IInv' /\ history' \in [Device -> Past] /\ side[d] \in Handling
<1>1. side[d] \in Handling
  BY SidesAreHandled
<1>2. /\ Keeps(d) /\ link'[d] = "open" /\ history' \in [Device -> Past]
      /\ Run(d, side[d], Tail(channel[d])) /\ Left(Tail(channel[d]), channel[d])
  BY <1>1, HearingKeeps
<1>3. Leaves(d, side[d], Tail(channel[d]))
  BY <1>2, IdleLeaves
<1>4. IInv'
  BY <1>2, <1>3, StepKeepsOrder
<1>. QED
  BY <1>1, <1>2, <1>4

\* The message makes the attempt fail.
LEMMA FailedKeepsOrder ==
    ASSUME Typed, IInv, NEW d \in Device, Active(d), NEW notify \in BOOLEAN, NEW bad,
           Hearing(d, Fail(side[d], notify, bad))
    PROVE  IInv' /\ history' \in [Device -> Past] /\ Fail(side[d], notify, bad) \in Handling
<1>. DEFINE t == Fail(side[d], notify, bad)
<1>1. Fit(side[d], Behind(d)) /\ side[d].flow.active /\ side[d].out = <<>>
      /\ Behind(d) \in Context /\ Quiet(side[d])
  BY ActiveFits, SidesAreHandled DEF Active
<1>2. t \in Handling
  <2>. HIDE DEF t
  <2>1. Fit(t, Behind(d))
    BY <1>1, FailFits DEF t
  <2>. QED
    BY <2>1 DEF Fit
<1>3. /\ Keeps(d) /\ history' \in [Device -> Past] /\ Confirmed(d)' = Confirmed(d)
      /\ Run(d, t, Tail(channel[d])) /\ Left(Tail(channel[d]), channel[d])
  BY <1>2, HearingKeeps
<1>4. Leaves(d, t, Tail(channel[d]))
  BY <1>1, <1>3, FailLeaves
<1>. HIDE DEF t
<1>5. IInv'
  BY <1>3, <1>4, StepKeepsOrder
<1>. QED
  BY <1>2, <1>3, <1>5 DEF t

\* The message takes the attempt further.
LEMMA GoneOnKeepsOrder ==
    ASSUME Typed, IInv, NEW d \in Device, Active(d), Heard(d), NEW t,
           Fit(t, Behind(d)), Hearing(d, t)
    PROVE  IInv' /\ history' \in [Device -> Past] /\ t \in Handling
<1>1. t \in Handling
  BY DEF Fit
<1>2. /\ Keeps(d) /\ link'[d] = "open" /\ history' \in [Device -> Past]
      /\ Confirmed(d)' = Confirmed(d)
      /\ t.flow.request = attempt /\ "localCommitted" \in t.flow.progress
           => attempt \in history'[d].committed
      /\ Run(d, t, Tail(channel[d])) /\ Left(Tail(channel[d]), channel[d])
  BY <1>1, HearingKeeps
<1>3. Leaves(d, t, Tail(channel[d]))
  BY <1>2, GoesOnLeaves
<1>4. IInv'
  BY <1>2, <1>3, StepKeepsOrder
<1>. QED
  BY <1>1, <1>2, <1>4

\* The first message is a Hello, and the attempt is under way.
LEMMA HelloKeepsAll ==
    ASSUME Typed, IInv, NEW d \in Device, Active(d), NEW bad,
           NEW m, m = channel[d][1], m \in Message, m.kind = "Hello", channel[d] # <<>>,
           NEW t, t = HandleHello(side[d], m, bad), Hearing(d, t)
    PROVE  IInv' /\ history' \in [Device -> Past] /\ t \in Handling
<1>. DEFINE s == side[d]
            e == Other(d)
            c == Behind(d)
            k == MutualCommitId(s.devices)
            h == [kind |-> "Hello", request |-> attempt, trust |-> k, scopes |-> Scope]
            b == [c EXCEPT !.greeted = TRUE, !.alone = (k # 0 /\ k = m.trust),
                           !.hello = IF Spoke(d) THEN {} ELSE {h}]
            b0 == [b EXCEPT !.hello = {}]
<1>1. /\ s \in Handling /\ s.out = <<>> /\ channel[d] \in Seq(Message)
      /\ SideSound(d) /\ ChannelSound(d) /\ s.devices \in SUBSET TrustRecord
  BY SidesAreHandled DEF IInv
<1>2. 1 \in DOMAIN channel[d] /\ HelloFirst(d)
  BY <1>1 DEF HelloFirst
<1>3. m.request = attempt /\ ~Heard(d)
  BY <1>1, <1>2 DEF ChannelSound
<1>4. /\ c \in Context /\ Fit(s, c) /\ c.attempt = attempt
      /\ c.theirs = Confirmed(e) /\ c.durable = history[e].committed
      /\ c.outgoing = (initiator = d) /\ c.mine = Confirmed(d)
  <2>1. c \in Context /\ Fit(s, c)
    BY ActiveFits
  <2>. QED
    BY <2>1 DEF Behind
<1>5. k \in Request /\ k = Known(d)
  BY <1>1, RecordsStandForPeer DEF Known
<1>6. h \in Message
  <2>. HIDE DEF k
  <2>1. attempt \in 1 .. MaxAttempt
    BY <1>4, AttemptsAreCounted
  <2>. QED
    BY <1>5, <2>1 DEF Message
<1>7. /\ b \in Context /\ b.attempt = attempt /\ b.mine = Confirmed(d) /\ b.theirs = Confirmed(e)
      /\ b.durable = history[e].committed /\ b.outgoing = (initiator = d) /\ b.greeted
      /\ b.alone = (k # 0 /\ k = m.trust) /\ b.hello = IF Spoke(d) THEN {} ELSE {h}
  <2>. HIDE DEF c, k, h, s, e
  <2>. QED
    BY <1>4, <1>6 DEF Context
<1>8. /\ s.flow.active /\ "helloReceived" \notin s.flow.progress
      /\ ("helloSent" \in s.flow.progress <=> Spoke(d))
      /\ s.flow.outgoing => s.flow.request = attempt
  BY <1>1, <1>3 DEF Heard, Spoke, Active, SideSound
<1>9. b.hello = IF "helloSent" \in s.flow.progress THEN {}
                ELSE {[kind |-> "Hello", request |-> b.attempt,
                       trust |-> MutualCommitId(s.devices), scopes |-> Scope]}
  <2>. HIDE DEF c, s, e, b
  <2>. QED
    BY <1>7, <1>8
<1>10. \/ Fit(t, b)
       \/ /\ ~t.flow.active /\ Fit(t, b0)
          /\ \A i \in DOMAIN t.out : t.out[i].kind = "Rejected"
  <2>1. /\ m.request = b.attempt /\ c.attempt = b.attempt /\ c.mine = b.mine
        /\ c.theirs = b.theirs /\ c.durable = b.durable /\ c.outgoing = b.outgoing
        /\ s.flow.outgoing => s.flow.request = b.attempt
        /\ b.greeted /\ b \in Context /\ c \in Context /\ Fit(s, c) /\ s.out = <<>>
        /\ b.alone = (MutualCommitId(s.devices) # 0 /\ MutualCommitId(s.devices) = m.trust)
    <3>. HIDE DEF c, s, e, b
    <3>. QED
      BY <1>1, <1>3, <1>4, <1>7, <1>8
  <2>. HIDE DEF c, s, e, k, h, b
  <2>2. Answers(HandleHello(s, m, bad), b)
    BY <1>8, <1>9, <2>1, HandleHelloFits
  <2>. QED
    BY <2>2 DEF s, Answers
<1>. HIDE DEF c, k, b
<1>11. CASE Fit(t, b)
  <2>1. t \in Handling
    BY <1>11 DEF Fit
  <2>2. /\ Keeps(d) /\ link'[d] = "open" /\ history' \in [Device -> Past]
        /\ Confirmed(d)' = Confirmed(d)
        /\ t.flow.request = attempt /\ "localCommitted" \in t.flow.progress
             => attempt \in history'[d].committed
        /\ Run(d, t, Tail(channel[d]))
    BY <2>1, HearingKeeps
  <2>3. /\ b.alone = (Known(d) # 0 /\ Known(d) = channel[d][1].trust)
        /\ b.hello = IF Spoke(d) THEN {}
                     ELSE {[kind |-> "Hello", request |-> attempt,
                            trust |-> Known(d), scopes |-> Scope]}
    BY <1>5, <1>7
  <2>4. IInv'
    BY <1>2, <1>7, <1>11, <2>2, <2>3, HelloKeepsOrder
  <2>. QED
    BY <2>1, <2>2, <2>4
<1>12. CASE /\ ~t.flow.active /\ Fit(t, b0)
            /\ \A i \in DOMAIN t.out : t.out[i].kind = "Rejected"
  <2>1. t \in Handling
    BY <1>12 DEF Fit
  <2>2. /\ Keeps(d) /\ history' \in [Device -> Past] /\ Confirmed(d)' = Confirmed(d)
        /\ Run(d, t, Tail(channel[d])) /\ Left(Tail(channel[d]), channel[d])
    BY <2>1, HearingKeeps
  <2>3. /\ b0.attempt = attempt /\ b0.mine = Confirmed(d) /\ b0.theirs = Confirmed(e)
        /\ b0.durable = history[e].committed
    BY <1>7 DEF Context
  <2>. HIDE DEF b0
  <2>4. Sound(t, Both(d)')
    <3>1. b0.mine \cap b0.theirs = Both(d)'
      BY <2>2, <2>3 DEF Both, Keeps, Confirmed
    <3>. QED
      BY <1>12, <3>1 DEF Fit
  <2>5. t.flow.authenticated => t.flow.request \in history[e].committed
    BY <1>12, <2>3 DEF Fit, InOrder
  <2>6. \A i \in DOMAIN t.out : t.out[i].request = attempt
    BY <1>12, <2>3 DEF Fit
  <2>7. Leaves(d, t, Tail(channel[d]))
    BY <1>12, <2>1, <2>2, <2>4, <2>5, <2>6 DEF Leaves
  <2>8. IInv'
    BY <2>2, <2>7, StepKeepsOrder
  <2>. QED
    BY <2>1, <2>2, <2>8
<1>. QED
  BY <1>10, <1>11, <1>12

\* KDeviceAuthenticationFlow::handleMessage, one case per kind of message.
LEMMA MessageKeepsOrder ==
    ASSUME Typed, IInv, NEW d \in Device, NEW m, m = Head(channel[d]), m.kind # "Access", NEW bad,
           NEW t, t = HandleMessage(side[d], m, bad), Hearing(d, t)
    PROVE  IInv' /\ history' \in [Device -> Past] /\ t \in Handling
<1>. DEFINE s == side[d]
            e == Other(d)
            c == Behind(d)
            Goal == IInv' /\ history' \in [Device -> Past] /\ t \in Handling
<1>1. /\ s \in Handling /\ channel[d] \in Seq(Message) /\ channel[d] # <<>>
      /\ SideSound(d) /\ ChannelSound(d)
  BY SidesAreHandled DEF IInv, Hearing
<1>2. m = channel[d][1] /\ 1 \in DOMAIN channel[d] /\ m \in Message
  BY <1>1
<1>3. /\ m.request = attempt
      /\ HelloFirst(d) => m.kind = "Hello"
      /\ m.kind = "Committed" => attempt \in history[e].committed
      /\ m.kind \in {"Decision", "Ready"} =>
            attempt \in Confirmed(e) \/ ~Active(d)
            \/ (Heard(d) /\ side[d].flow.trusted) \/ (~Heard(d) /\ WillTrust(d))
  BY <1>1, <1>2 DEF ChannelSound, HelloFirst
<1>4. t = s /\ (Active(d) => m.kind # "Hello") => Goal
  <2>1. Active(d) /\ m.kind # "Hello" => ~HelloFirst(d)
    BY <1>3
  <2>. QED
    BY <2>1, DroppedKeepsOrder
<1>5. Active(d) /\ (t = Fail(s, TRUE, bad) \/ t = Fail(s, FALSE, bad)) => Goal
  BY FailedKeepsOrder
<1>6. Active(d) /\ Heard(d) /\ Fit(t, c) => Goal
  BY GoneOnKeepsOrder
<1>7. CASE Drops(s, m)
  <2>1. t = s
    BY <1>7 DEF HandleMessage, Drops
  <2>2. Active(d) => m.kind # "Hello"
    BY <1>7 DEF Drops, Active
  <2>. QED
    BY <1>4, <2>1, <2>2
<1>8. ASSUME ~Drops(s, m)
      PROVE  /\ Active(d) /\ c \in Context /\ Fit(s, c) /\ c.attempt = attempt
             /\ c.greeted = Heard(d) /\ c.alone = s.flow.trusted
             /\ c.theirs = Confirmed(e) /\ c.durable = history[e].committed
             /\ Quiet(s) /\ s.flow.active /\ (s.flow.request = attempt \/ m.kind = "Hello")
             /\ InOrder(s, c)
  <2>1. Active(d) /\ s.flow.active /\ (s.flow.request = attempt \/ m.kind = "Hello")
    BY <1>3, <1>8 DEF Drops, Active
  <2>2. c \in Context /\ Fit(s, c) /\ InOrder(s, c)
    BY <2>1, ActiveFits DEF Fit
  <2>3. /\ c.attempt = attempt
        /\ c.greeted = Heard(d) /\ c.alone = s.flow.trusted
        /\ c.theirs = Confirmed(e) /\ c.durable = history[e].committed
    BY DEF Behind
  <2>4. Quiet(s)
    BY SidesAreHandled
  <2>. HIDE DEF s, c, e
  <2>. QED
    BY <2>1, <2>2, <2>3, <2>4
<1>9. CASE ~Drops(s, m) /\ m.kind = "Rejected"
  <2>1. t = Fail(s, FALSE, bad)
    BY <1>9 DEF HandleMessage
  <2>. QED
    BY <1>5, <1>8, <1>9, <2>1
<1>10. CASE ~Drops(s, m) /\ m.kind = "Decision"
  <2>1. t = HandleDecision(s, m, bad)
    BY <1>10 DEF HandleMessage
  <2>2. CASE Heard(d)
    <3>. HIDE DEF c, s, Goal
    <3>1. Fit(HandleDecision(s, m, bad), c)
      BY <1>2, <1>8, <1>10, <2>2, HandleDecisionFits
    <3>. QED
      BY <1>6, <1>8, <1>10, <2>1, <2>2, <3>1 DEF Goal
  <2>3. CASE ~Heard(d)
    <3>1. t = s
      BY <2>1, <2>3 DEF HandleDecision, Has, Heard
    <3>. QED
      BY <1>4, <1>10, <3>1
  <2>. QED
    BY <2>2, <2>3
<1>11. CASE ~Drops(s, m) /\ m.kind = "Ready"
  <2>1. t = HandleReady(s, m, bad)
    BY <1>11 DEF HandleMessage
  <2>2. CASE Heard(d)
    <3>. HIDE DEF c, s, e, Goal
    <3>1. c.alone \/ c.attempt \in c.theirs
      BY <1>3, <1>8, <1>11, <2>2 DEF s
    <3>2. Fit(HandleReady(s, m, bad), c)
      BY <1>2, <1>8, <1>11, <2>2, <3>1, HandleReadyFits
    <3>. QED
      BY <1>6, <1>8, <1>11, <2>1, <2>2, <3>2 DEF Goal
  <2>3. CASE ~Heard(d)
    <3>1. ~Has(s, {"localDecision", "remoteDecision"})
      BY <1>8, <1>11, <2>3 DEF Has, Heard, InOrder
    <3>2. t = s \/ t = Fail(s, TRUE, bad)
      BY <2>1, <3>1 DEF HandleReady
    <3>. HIDE DEF s, Goal
    <3>. QED
      BY <1>4, <1>5, <1>8, <1>11, <3>2 DEF Goal
  <2>. QED
    BY <2>2, <2>3
<1>12. CASE ~Drops(s, m) /\ m.kind = "Committed"
  <2>1. t = HandleCommitted(s, m, bad)
    BY <1>12 DEF HandleMessage
  <2>2. CASE Heard(d)
    <3>1. c.attempt \in c.durable
      BY <1>3, <1>8, <1>12, <2>2
    <3>. HIDE DEF c, s, Goal
    <3>2. Fit(HandleCommitted(s, m, bad), c)
      BY <1>2, <1>8, <1>12, <2>2, <3>1, HandleCommittedFits
    <3>. QED
      BY <1>6, <1>8, <1>12, <2>1, <2>2, <3>2 DEF Goal
  <2>3. CASE ~Heard(d)
    <3>1. ~Has(s, {"localPrepared", "remotePrepared"})
      BY <1>8, <1>12, <2>3 DEF Has, Heard, InOrder
    <3>2. t = s
      BY <2>1, <3>1 DEF HandleCommitted
    <3>. QED
      BY <1>4, <1>12, <3>2
  <2>. QED
    BY <2>2, <2>3
<1>13. CASE ~Drops(s, m) /\ m.kind = "Hello"
  <2>1. t = HandleHello(side[d], m, bad)
    BY <1>13 DEF HandleMessage
  <2>. HIDE DEF s, c, e
  <2>. QED
    BY <1>1, <1>2, <1>8, <1>13, <2>1, HelloKeepsAll
<1>14. m.kind \in {"Hello", "Decision", "Ready", "Committed", "Rejected"}
  BY <1>2 DEF Message
<1>. HIDE DEF s, c, e
<1>. QED
  BY <1>7, <1>9, <1>10, <1>11, <1>12, <1>13, <1>14

-----------------------------------------------------------------------------
(* The actions of one device keep the invariant and the types.              *)

\* The types after the step of a device.
LEMMA RunKeepsTypes ==
    ASSUME Typed, NEW d \in Device, NEW t \in Handling, NEW inbox \in Seq(Message),
           Run(d, t, inbox), link' \in [Device -> Link], history' \in [Device -> Past],
           UNCHANGED <<initiator, attempt, edits>>, crashes' \in 0 .. MaxCrash
    PROVE  Typed'
<1>1. side' \in [Device -> Side] /\ channel' \in [Device -> Seq(Message)]
  BY RunEffect
<1>2. \A x \in Device : \A i \in DOMAIN channel'[x] : channel'[x][i] \in Message
  BY <1>1
<1>. QED
  BY <1>1, <1>2 DEF Typed, TypeOK

\* A step that sends and receives, and leaves the rest alone.
LEMMA StepKeeps ==
    ASSUME Typed, IInv, NEW d \in Device, NEW t, NEW inbox,
           Leaves(d, t, inbox), Keeps(d), Run(d, t, inbox),
           link' \in [Device -> Link], history' \in [Device -> Past],
           UNCHANGED <<initiator, attempt, edits>>, crashes' \in 0 .. MaxCrash
    PROVE  IInv' /\ Typed'
<1>1. IInv'
  BY StepKeepsOrder
<1>2. t \in Handling /\ Left(inbox, channel[d])
  BY DEF Leaves
<1>3. channel[d] \in Seq(Message)
  BY SidesAreHandled
<1>4. inbox \in Seq(Message)
  BY <1>2, <1>3, LeftBehind
<1>. QED
  BY <1>1, <1>2, <1>4, RunKeepsTypes

\* The types of the variables.
LEMMA TypesOfState ==
    ASSUME Typed
    PROVE  /\ link \in [Device -> Link] /\ history \in [Device -> Past]
           /\ side \in [Device -> Side] /\ channel \in [Device -> Seq(Message)]
           /\ crashes \in 0 .. MaxCrash /\ edits \in 0 .. MaxEdit
           /\ attempt \in Request /\ initiator \in Device
BY DEF Typed, TypeOK

\* A step of d that leaves links and history alone.
LEMMA SameKeeps ==
    ASSUME NEW d \in Device, link[d] # "secured", UNCHANGED <<link, attempt, initiator, history>>
    PROVE  Keeps(d) /\ Confirmed(d)' = Confirmed(d)
BY DEF Keeps, Confirmed

\* A message of the authentication is received.
LEMMA ReceiveKeeps ==
    ASSUME Typed, IInv, NEW d \in Device, Receive(d)
    PROVE  IInv' /\ Typed'
<1>. DEFINE m == Head(channel[d])
<1>1. PICK bad \in Failures :
         /\ Run(d, HandleMessage(side[d], m, bad), Tail(channel[d]))
         /\ history' = [history EXCEPT ![d] = Recorded(@, HandleMessage(side[d], m, bad))]
  BY DEF Receive
<1>. DEFINE t == HandleMessage(side[d], m, bad)
<1>2. m.kind # "Access" /\ Hearing(d, t) /\ channel[d] # <<>>
      /\ UNCHANGED <<link, initiator, attempt, crashes, edits>>
  BY <1>1 DEF Receive, Hearing
<1>. HIDE DEF t
<1>3. IInv' /\ history' \in [Device -> Past] /\ t \in Handling
  BY <1>2, MessageKeepsOrder DEF t
<1>4. Tail(channel[d]) \in Seq(Message)
  BY <1>2, SidesAreHandled
<1>5. Run(d, t, Tail(channel[d]))
  BY <1>2 DEF Hearing
<1>6. Typed'
  BY <1>2, <1>3, <1>4, <1>5, TypesOfState, RunKeepsTypes
<1>. QED
  BY <1>3, <1>6

\* An access request is received.
LEMMA ReceiveAccessKeeps ==
    ASSUME Typed, IInv, NEW d \in Device, ReceiveAccess(d)
    PROVE  IInv' /\ Typed'
<1>. DEFINE m == Head(channel[d])
            s == side[d]
            inbox == Tail(channel[d])
<1>1. PICK answer \in {"accepted", "asked", "denied"} : Run(d, HandleAccess(s, m, answer), inbox)
  BY DEF ReceiveAccess
<1>. DEFINE t == HandleAccess(s, m, answer)
<1>2. /\ m.kind = "Access" /\ channel[d] # <<>> /\ link[d] = "open" /\ Run(d, t, inbox)
      /\ UNCHANGED <<link, initiator, attempt, history, crashes, edits>>
  BY <1>1 DEF ReceiveAccess
<1>3. /\ s \in Handling /\ s.out = <<>> /\ s.flow \in Flow /\ SideSound(d)
      /\ channel[d] \in Seq(Message)
  BY SidesAreHandled DEF IInv
<1>4. Keeps(d) /\ Confirmed(d)' = Confirmed(d) /\ Left(inbox, channel[d])
  BY <1>2, SameKeeps DEF Left
<1>5. ~HelloFirst(d)
  BY <1>2, <1>3 DEF HelloFirst
<1>6. Leaves(d, t, inbox)
  <2>1. CASE Active(d)
    <3>1. t = s
      BY <1>3, <2>1 DEF HandleAccess, SideSound, InOrder, Active
    <3>2. Leaves(d, side[d], inbox)
      BY <1>2, <1>4, <1>5, IdleLeaves
    <3>. QED
      BY <3>1, <3>2
  <2>2. CASE ~Active(d)
    <3>1. /\ t \in Handling /\ t.stored = s.stored /\ t.devices = s.devices
          /\ t.before = s.before /\ t.out = <<>> /\ ~t.flow.active
          /\ t.flow.authenticated = s.flow.authenticated /\ t.flow.request = s.flow.request
      BY <1>1, <1>3, <2>2 DEF HandleAccess, Handling, Flow, Active
    <3>. HIDE DEF t, inbox
    <3>2. Sound(t, Both(d)')
      <4>1. Both(d)' = Both(d)
        BY <1>2 DEF Both, Confirmed
      <4>. QED
        BY <1>3, <3>1, <4>1 DEF Sound, SideSound
    <3>3. DOMAIN t.out = {}
      BY <3>1
    <3>. QED
      BY <1>3, <1>4, <3>1, <3>2, <3>3 DEF Leaves, SideSound
  <2>. QED
    BY <2>1, <2>2
<1>. HIDE DEF t, inbox
<1>. QED
  BY <1>2, <1>4, <1>6, TypesOfState, StepKeeps

\* A user rejects or the timer expires.
LEMMA AbandonKeeps ==
    ASSUME Typed, IInv, NEW d \in Device, Abandon(d)
    PROVE  IInv' /\ Typed'
<1>1. PICK bad \in Failures : Run(d, Fail(side[d], TRUE, bad), channel[d])
  BY DEF Abandon
<1>2. Active(d) /\ UNCHANGED <<link, initiator, attempt, history, crashes, edits>>
  BY DEF Abandon, Active
<1>3. link[d] = "open"
  BY <1>2 DEF IInv, SideSound
<1>4. Keeps(d) /\ Confirmed(d)' = Confirmed(d) /\ Left(channel[d], channel[d])
  BY <1>2, <1>3, SameKeeps DEF Left
<1>5. Fit(side[d], Behind(d)) /\ side[d].flow.active /\ side[d].out = <<>>
  BY <1>2, ActiveFits, SidesAreHandled DEF Active
<1>6. Leaves(d, Fail(side[d], TRUE, bad), channel[d])
  BY <1>2, <1>4, <1>5, FailLeaves
<1>. QED
  BY <1>1, <1>2, <1>4, <1>6, TypesOfState, StepKeeps

\* The connection is lost.
LEMMA LoseKeeps ==
    ASSUME Typed, IInv, NEW d \in Device, Lose(d)
    PROVE  IInv' /\ Typed'
<1>1. PICK bad \in Failures :
         Run(d, IF side[d].flow.active THEN Clear(side[d], bad) ELSE side[d], <<>>)
  BY DEF Lose
<1>. DEFINE t == IF side[d].flow.active THEN Clear(side[d], bad) ELSE side[d]
<1>2. /\ link[d] # "down" /\ link' = [link EXCEPT ![d] = "down"]
      /\ UNCHANGED <<initiator, attempt, history, crashes, edits>>
  BY DEF Lose
<1>3. Other(d) \in Device /\ Other(d) # d
  BY TwoDevices
<1>4. Keeps(d) /\ link' \in [Device -> Link] /\ Left(<<>>, channel[d])
  BY <1>2, <1>3, TypesOfState DEF Keeps, Link, Left
<1>5. side[d] \in Handling /\ side[d].out = <<>> /\ SideSound(d)
  BY SidesAreHandled DEF IInv
<1>6. Leaves(d, t, <<>>)
  <2>1. CASE Active(d)
    <3>1. t = Clear(side[d], bad)
      BY <2>1 DEF Active
    <3>2. /\ t \in Handling /\ Sound(t, Both(d)) /\ t.flow = IdleFlow /\ t.out = <<>>
      BY <1>5, <3>1, ClearSound DEF SideSound
    <3>. HIDE DEF t
    <3>. QED
      BY <1>4, <3>2, RestLeaves
  <2>2. CASE ~Active(d)
    <3>1. t = side[d]
      BY <2>2 DEF Active
    <3>2. Leaves(d, side[d], <<>>)
      BY <1>4, <2>2, IdleLeaves
    <3>. QED
      BY <3>1, <3>2
  <2>. QED
    BY <2>1, <2>2
<1>7. Run(d, t, <<>>)
  BY <1>1
<1>. HIDE DEF t
<1>. QED
  BY <1>2, <1>4, <1>6, <1>7, TypesOfState, StepKeeps

\* The process dies.
LEMMA CrashKeeps ==
    ASSUME Typed, IInv, NEW d \in Device, Crash(d)
    PROVE  IInv' /\ Typed'
<1>. DEFINE t == [NewSide EXCEPT !.stored = side[d].stored, !.faults = side[d].faults]
<1>1. /\ crashes < MaxCrash /\ crashes' = crashes + 1
      /\ link' = [link EXCEPT ![d] = "down"] /\ Run(d, t, <<>>)
      /\ UNCHANGED <<initiator, attempt, history, edits>>
  BY DEF Crash
<1>2. Other(d) \in Device /\ Other(d) # d
  BY TwoDevices
<1>3. Keeps(d) /\ link' \in [Device -> Link] /\ Left(<<>>, channel[d])
  BY <1>1, <1>2, TypesOfState DEF Keeps, Link, Left
<1>4. side[d] \in Handling /\ SideSound(d)
  BY SidesAreHandled DEF IInv
<1>5. t \in Handling /\ t.flow = IdleFlow /\ t.out = <<>>
  <2>1. IdleFlow \in Flow
    BY AttemptsAreCounted DEF IdleFlow, Flow
  <2>. QED
    <3>1. side[d].stored \in SUBSET TrustRecord /\ side[d].faults \in Nat
      BY <1>4 DEF Handling
    <3>2. <<>> \in Seq(Message)
      OBVIOUS
    <3>3. NewSide \in Handling /\ NewSide.flow = IdleFlow /\ NewSide.out = <<>>
      BY <2>1, <3>2, AttemptsAreCounted DEF NewSide, Handling
    <3>. QED
      BY <3>1, <3>3 DEF Handling
<1>6. Sound(t, Both(d))
  BY <1>4 DEF NewSide, Sound, SideSound
<1>7. crashes' \in 0 .. MaxCrash
  BY <1>1, TypesOfState, BoundsAssumption
<1>. HIDE DEF t
<1>8. Leaves(d, t, <<>>)
  BY <1>3, <1>5, <1>6, RestLeaves
<1>. QED
  BY <1>1, <1>3, <1>7, <1>8, TypesOfState, StepKeeps

\* The attempt does not begin.
LEMMA BeginRefusedKeeps ==
    ASSUME Typed, IInv, NEW d \in Device, BeginRefused(d)
    PROVE  IInv' /\ Typed'
<1>. DEFINE u == Clear(side[d], {})
            t == Fault(u)
<1>1. /\ link[d] = "secured" /\ link' = [link EXCEPT ![d] = "open"] /\ Run(d, t, channel[d])
      /\ UNCHANGED <<initiator, attempt, history, crashes, edits>>
  BY DEF BeginRefused
<1>2. Other(d) \in Device /\ Other(d) # d
  BY TwoDevices
<1>3. Keeps(d) /\ link' \in [Device -> Link] /\ Left(channel[d], channel[d])
  BY <1>1, <1>2, TypesOfState DEF Keeps, Link, Left
<1>4. side[d] \in Handling /\ side[d].out = <<>> /\ SideSound(d)
  BY SidesAreHandled DEF IInv
<1>5. u \in Handling /\ Sound(u, Both(d)) /\ u.flow = IdleFlow /\ u.out = <<>>
  BY <1>4, ClearSound DEF SideSound
<1>. HIDE DEF u
<1>6. t \in Handling /\ Sound(t, Both(d)) /\ t.flow = IdleFlow /\ t.out = <<>>
  BY <1>5 DEF Fault, Handling, Sound
<1>. HIDE DEF t
<1>7. Leaves(d, t, channel[d])
  BY <1>3, <1>6, RestLeaves
<1>. QED
  BY <1>1, <1>3, <1>7, TypesOfState, StepKeeps

-----------------------------------------------------------------------------
(* The user of one device confirms the numbers.                             *)

\* What a side stands on when its user has just confirmed the numbers.
Standing(d, confirmed) == [Behind(d) EXCEPT !.mine = confirmed]

\* The side whose user has answered fits what is confirmed now.
LEMMA AnsweredFits ==
    ASSUME Typed, IInv, NEW d \in Device, Active(d), NEW confirmed \in SUBSET Request,
           Confirmed(d) \subseteq confirmed,
           NEW t, t = [side[d] EXCEPT !.flow.prompt = FALSE]
    PROVE  /\ Standing(d, confirmed) \in Context /\ Fit(t, Standing(d, confirmed))
           /\ Fit(t, Behind(d)) /\ t.out = <<>> /\ t.flow.active
           /\ t.flow.progress = side[d].flow.progress
<1>. DEFINE s == side[d]
            b == Behind(d)
            c == Standing(d, confirmed)
<1>1. /\ b \in Context /\ Fit(s, b) /\ b.mine = Confirmed(d) /\ s \in Handling
      /\ s.out = <<>> /\ s.flow \in Flow /\ s.flow.active
  BY ActiveFits, SidesAreHandled DEF Behind, Active
<1>. HIDE DEF b, s
<1>2. /\ t \in Handling /\ t.out = s.out /\ t.devices = s.devices
      /\ t.stored = s.stored /\ t.before = s.before
      /\ t.flow.progress = s.flow.progress /\ t.flow.request = s.flow.request
      /\ t.flow.active = s.flow.active /\ t.flow.authenticated = s.flow.authenticated
      /\ t.flow.trusted = s.flow.trusted /\ t.flow.outgoing = s.flow.outgoing
      /\ ~t.flow.prompt
  BY <1>1 DEF Flow, Handling, s
<1>3. Fit(t, b)
  BY <1>1, <1>2, FlowFits
<1>4. /\ c \in Context /\ c.mine = confirmed /\ b.mine \subseteq c.mine
      /\ c.attempt = b.attempt /\ c.theirs = b.theirs /\ c.durable = b.durable
      /\ c.alone = b.alone /\ c.outgoing = b.outgoing /\ c.greeted = b.greeted /\ c.hello = b.hello
  BY <1>1 DEF Standing, Context, b
<1>. HIDE DEF c
<1>5. Fit(t, c)
  <2>1. InOrder(t, c)
    BY <1>3, <1>4 DEF Fit, InOrder
  <2>2. Sound(t, c.mine \cap c.theirs)
    BY <1>3, <1>4 DEF Fit, Sound
  <2>. QED
    BY <1>3, <1>4, <2>1, <2>2 DEF Fit
<1>. QED
  BY <1>1, <1>2, <1>3, <1>4, <1>5 DEF b, c, s

\* The user answers.
LEMMA AcceptKeeps ==
    ASSUME Typed, IInv, NEW d \in Device, NEW granted \in Grant, Accept(d, granted)
    PROVE  IInv' /\ Typed'
<1>. DEFINE answered == [side[d] EXCEPT !.flow.prompt = FALSE]
            scopes == IF side[d].flow.outgoing THEN Scope ELSE granted
            confirmed == Confirmed(d) \cup {side[d].flow.request}
            c == Standing(d, confirmed)
<1>1. /\ Active(d) /\ side[d].flow.prompt
      /\ UNCHANGED <<link, initiator, attempt, crashes, edits>>
  BY DEF Accept, Active
<1>2. PICK bad \in Failures :
         \/ /\ Run(d, SendDecision(answered, scopes, bad), channel[d])
            /\ history' = [history EXCEPT ![d].confirmed = @ \cup {side[d].flow.request}]
         \/ /\ Run(d, Fail(answered, TRUE, bad), channel[d])
            /\ UNCHANGED history
  BY DEF Accept
<1>3. /\ side[d].flow \in Flow /\ SideSound(d) /\ link[d] = "open" /\ history[d] \in Past
      /\ history \in [Device -> Past] /\ Confirmed(d) \in SUBSET Request
  <2>1. side[d].flow \in Flow /\ SideSound(d) /\ history[d] \in Past
    BY SidesAreHandled DEF IInv
  <2>. QED
    BY <1>1, <2>1, TypesOfState DEF SideSound, Past, Confirmed
<1>4. side[d].flow.request = attempt /\ Heard(d)
  BY <1>1, <1>3 DEF SideSound, InOrder, Behind, Active, Heard
<1>5. confirmed \in SUBSET Request /\ Confirmed(d) \subseteq confirmed /\ attempt \in confirmed
  BY <1>3, <1>4 DEF Flow
<1>6. scopes \in SUBSET Scope
  BY ScopesAssumption
<1>. HIDE DEF scopes
<1>7. /\ c \in Context /\ Fit(answered, c) /\ Fit(answered, Behind(d))
      /\ answered.out = <<>> /\ answered.flow.active
      /\ answered.flow.progress = side[d].flow.progress
  <2>. HIDE DEF confirmed
  <2>. QED
    BY <1>1, <1>5, AnsweredFits
<1>. HIDE DEF answered
<1>8. Left(channel[d], channel[d])
  BY DEF Left
<1>9. CASE /\ Run(d, Fail(answered, TRUE, bad), channel[d])
           /\ UNCHANGED history
  <2>1. Keeps(d) /\ Confirmed(d)' = Confirmed(d)
    BY <1>1, <1>3, <1>9, SameKeeps
  <2>2. Leaves(d, Fail(answered, TRUE, bad), channel[d])
    BY <1>1, <1>7, <1>8, <2>1, FailLeaves
  <2>. QED
    BY <1>1, <1>9, <2>1, <2>2, TypesOfState, StepKeeps
<1>10. CASE /\ Run(d, SendDecision(answered, scopes, bad), channel[d])
            /\ history' = [history EXCEPT ![d].confirmed = @ \cup {side[d].flow.request}]
  <2>. DEFINE t == SendDecision(answered, scopes, bad)
  <2>1. Other(d) \in Device /\ Other(d) # d
    BY TwoDevices
  <2>2. /\ history' \in [Device -> Past] /\ history'[Other(d)] = history[Other(d)]
        /\ history'[d].confirmed = confirmed /\ history'[d].committed = history[d].committed
    BY <1>3, <1>5, <1>10, <2>1 DEF Past, Confirmed
  <2>3. Keeps(d) /\ Confirmed(d)' = confirmed /\ Confirmed(Other(d))' = Confirmed(Other(d))
    BY <1>1, <1>3, <2>2 DEF Keeps, Confirmed
  <2>4. /\ c.attempt = attempt /\ c.mine = Confirmed(d)' /\ c.theirs = Confirmed(Other(d))'
        /\ c.durable = history[Other(d)].committed /\ c.alone = side[d].flow.trusted
        /\ c.outgoing = (initiator = d) /\ c.greeted = Heard(d) /\ c.hello = {}
    <3>. HIDE DEF confirmed
    <3>. QED
      BY <2>3 DEF Standing, Behind
  <2>5. c.greeted /\ c.attempt \in c.mine
    BY <1>4, <1>5, <2>3, <2>4
  <2>. HIDE DEF c, confirmed
  <2>6. /\ Fit(t, c)
        /\ "localCommitted" \notin answered.flow.progress =>
              "localCommitted" \notin t.flow.progress
    BY <1>6, <1>7, <2>5, SendDecisionFits
  <2>7. "localCommitted" \in t.flow.progress => attempt \in history'[d].committed
    BY <1>1, <1>3, <1>7, <2>2, <2>6 DEF SideSound
  <2>8. link'[d] = "open"
    BY <1>1, <1>3
  <2>. HIDE DEF t
  <2>9. Leaves(d, t, channel[d])
    BY <1>1, <1>4, <1>7, <1>8, <2>3, <2>4, <2>6, <2>7, <2>8, HandledLeaves
  <2>10. Run(d, t, channel[d])
    BY <1>10 DEF t
  <2>. QED
    BY <1>1, <2>2, <2>3, <2>9, <2>10, TypesOfState, StepKeeps
<1>. QED
  BY <1>2, <1>9, <1>10

-----------------------------------------------------------------------------
(* A connection, its first step on a device, and the trust list.            *)

\* A connection is opened.
LEMMA ConnectKeeps ==
    ASSUME Typed, IInv, NEW d \in Device, Connect(d)
    PROVE  IInv' /\ Typed'
<1>1. /\ \A x \in Device : link[x] = "down"
      /\ attempt < MaxAttempt /\ attempt' = attempt + 1 /\ initiator' = d
      /\ link' = [x \in Device |-> "secured"] /\ channel' = [x \in Device |-> <<>>]
      /\ UNCHANGED <<side, history, crashes, edits>>
  BY DEF Connect
<1>2. attempt \in Nat /\ attempt' \in Request /\ attempt' # 0
  BY <1>1, TypesOfState, BoundsAssumption DEF Request
<1>3. Typed'
  <2>1. <<>> \in Seq(Message) /\ DOMAIN <<>> = {}
    OBVIOUS
  <2>2. channel' \in [Device -> Seq(Message)]
        /\ \A x \in Device : \A i \in DOMAIN channel'[x] : channel'[x][i] \in Message
    BY <1>1, <2>1
  <2>3. link' \in [Device -> Link]
    BY <1>1 DEF Link
  <2>. QED
    BY <1>1, <1>2, <2>2, <2>3 DEF Typed, TypeOK
<1>4. ASSUME NEW x \in Device
      PROVE  SideSound(x)' /\ ChannelSound(x)'
  <2>1. SideSound(x) /\ link[x] = "down" /\ Other(x) \in Device
    BY <1>1, TwoDevices DEF IInv
  <2>2. ~Active(x)' /\ ~Active(Other(x))'
    <3>1. SideSound(Other(x)) /\ link[Other(x)] = "down"
      BY <1>1, <2>1 DEF IInv
    <3>. QED
      BY <1>1, <2>1, <3>1 DEF SideSound, Active
  <2>3. SideSound(x)'
    <3>1. Sound(side'[x], Both(x)')
      BY <1>1, <2>1 DEF SideSound, Both, Confirmed
    <3>. QED
      BY <1>1, <1>2, <2>1, <2>2, <3>1 DEF SideSound
  <2>4. channel'[x] = <<>> /\ channel'[Other(x)] = <<>> /\ DOMAIN channel'[x] = {}
    BY <1>1, <2>1
  <2>5. ~HelloFirst(x)'
    BY <2>4 DEF HelloFirst
  <2>. QED
    BY <2>2, <2>3, <2>4, <2>5 DEF ChannelSound
<1>. QED
  BY <1>3, <1>4 DEF IInv

\* The command of the trust list that leaves "records" on the disk of d.
LEMMA EditKeeps ==
    ASSUME Typed, IInv, NEW d \in Device, NEW records \in SUBSET TrustRecord, Edit(d, records),
           \A r \in records : r.commitState = "Mutual" => r.id \in Both(d),
           history' \in [Device -> Past],
           \A x \in Device : /\ history'[x].confirmed = history[x].confirmed
                             /\ history'[x].committed = history[x].committed
    PROVE  IInv' /\ Typed'
<1>1. /\ edits < MaxEdit /\ edits' = edits + 1
      /\ side' = [side EXCEPT ![d].stored = records]
      /\ UNCHANGED <<link, channel, initiator, attempt, crashes>>
  BY DEF Edit
<1>2. /\ side \in [Device -> Side] /\ side[d] \in Side
  BY TypesOfState
<1>3. side' \in [Device -> Side]
  BY <1>1, <1>2 DEF Side
<1>4. Typed'
  BY <1>1, <1>3, BoundsAssumption DEF Typed, TypeOK
<1>5. \A x \in Device : /\ side'[x].flow = side[x].flow /\ side'[x].devices = side[x].devices
                        /\ side'[x].before = side[x].before
                        /\ x # d => side'[x].stored = side[x].stored
                        /\ x = d => side'[x].stored = records
  BY <1>1, <1>2, TypesOfState DEF Side
<1>6. ASSUME NEW x \in Device
      PROVE  /\ Active(x)' <=> Active(x)
             /\ Heard(x)' <=> Heard(x)
             /\ Spoke(x)' <=> Spoke(x)
             /\ Known(x)' = Known(x)
             /\ Confirmed(x)' = Confirmed(x)
             /\ Both(x)' = Both(x)
             /\ HelloFirst(x)' <=> HelloFirst(x)
             /\ WillTrust(x)' = WillTrust(x)
             /\ Other(x) \in Device
  <2>1. Other(x) \in Device
    BY TwoDevices
  <2>2. Confirmed(x)' = Confirmed(x) /\ Confirmed(Other(x))' = Confirmed(Other(x))
    BY <2>1 DEF Confirmed
  <2>3. Known(x)' = Known(x) /\ (HelloFirst(x)' <=> HelloFirst(x))
    BY <1>1, <1>5 DEF Known, HelloFirst
  <2>. QED
    BY <1>1, <1>5, <2>1, <2>2, <2>3 DEF Active, Heard, Spoke, Both, WillTrust
<1>7. ASSUME NEW x \in Device
      PROVE  SideSound(x)'
  <2>1. SideSound(x) /\ Other(x) \in Device
    BY <1>6 DEF IInv
  <2>2. Sound(side'[x], Both(x)')
    BY <1>5, <1>6, <2>1 DEF SideSound, Sound
  <2>3. Active(x) => InOrder(side'[x], Behind(x)')
    <3>. DEFINE b == Behind(x)
                c == Behind(x)'
    <3>1. /\ c.attempt = b.attempt /\ c.mine = b.mine /\ c.theirs = b.theirs
          /\ c.durable = b.durable /\ c.alone = b.alone /\ c.outgoing = b.outgoing
      BY <1>1, <1>5, <1>6, <2>1 DEF Behind
    <3>2. Active(x) => InOrder(side[x], b)
      BY <2>1 DEF SideSound
    <3>3. side'[x].flow = side[x].flow
      BY <1>5
    <3>. HIDE DEF b, c
    <3>4. Active(x) => InOrder(side'[x], c)
      BY <3>1, <3>2, <3>3, SameOrder
    <3>. QED
      BY <3>4 DEF c
  <2>. QED
    BY <1>1, <1>5, <1>6, <2>1, <2>2, <2>3 DEF SideSound
<1>8. ASSUME NEW x \in Device
      PROVE  ChannelSound(x)'
  <2>1. ChannelSound(x) /\ Other(x) \in Device
    BY <1>6 DEF IInv
  <2>2. /\ history'[Other(x)].committed = history[Other(x)].committed
        /\ side'[x].flow = side[x].flow /\ side'[Other(x)].flow = side[Other(x)].flow
        /\ Confirmed(Other(x))' = Confirmed(Other(x)) /\ Known(Other(x))' = Known(Other(x))
        /\ (Active(Other(x))' <=> Active(Other(x))) /\ (Heard(Other(x))' <=> Heard(Other(x)))
        /\ (Spoke(Other(x))' <=> Spoke(Other(x)))
    BY <1>5, <1>6, <2>1
  <2>3. /\ Active(x)' <=> Active(x)
        /\ Heard(x)' <=> Heard(x)
        /\ Spoke(x)' <=> Spoke(x)
        /\ HelloFirst(x)' <=> HelloFirst(x)
        /\ WillTrust(x)' = WillTrust(x)
    BY <1>6
  <2>4. channel' = channel /\ link' = link /\ attempt' = attempt
    BY <1>1
  <2>. DEFINE e == Other(x)
  <2>5. \A i \in DOMAIN channel'[x] :
          /\ channel'[x][i].request = attempt'
          /\ channel'[x][i].kind = "Hello" => i = 1
          /\ channel'[x][i].kind = "Committed" => attempt' \in history'[e].committed
          /\ channel'[x][i].kind \in {"Decision", "Ready"} =>
              /\ link'[x] # "secured"
              /\ attempt' \in Confirmed(e)' \/ ~Active(x)'
                 \/ (Heard(x)' /\ side'[x].flow.trusted) \/ (~Heard(x)' /\ WillTrust(x)')
    BY <2>1, <2>2, <2>3, <2>4 DEF ChannelSound
  <2>6. /\ link'[x] = "secured" => channel'[e] = <<>>
        /\ Active(x)' /\ ~Spoke(x)' => channel'[e] = <<>> /\ ~(Active(e)' /\ Heard(e)')
        /\ HelloFirst(x)' =>
            /\ Active(x)' => ~Heard(x)'
            /\ Active(e)' => Spoke(e)'
            /\ Active(e)' /\ ~Heard(e)' => channel'[x][1].trust = Known(e)'
    BY <2>1, <2>2, <2>3, <2>4 DEF ChannelSound
  <2>7. Active(e)' /\ Heard(e)' =>
        /\ link'[x] # "secured"
        /\ Active(x)' /\ Heard(x)' => side'[x].flow.trusted = side'[e].flow.trusted
        /\ Active(x)' /\ ~Heard(x)' => HelloFirst(x)' /\ side'[e].flow.trusted = WillTrust(x)'
    BY <2>1, <2>2, <2>3, <2>4 DEF ChannelSound
  <2>. QED
    BY <2>5, <2>6, <2>7 DEF ChannelSound
<1>. QED
  BY <1>4, <1>7, <1>8 DEF IInv

\* The three commands of the trust list.
LEMMA ListKeeps ==
    ASSUME Typed, IInv, NEW d \in Device,
           Revoke(d) \/ RePair(d) \/ (\E limit \in Grant : UpdateLimit(d, limit))
    PROVE  IInv' /\ Typed'
<1>1. /\ side[d].stored \in SUBSET TrustRecord /\ history \in [Device -> Past]
      /\ \A r \in side[d].stored : r.commitState = "Mutual" => r.id \in Both(d)
      /\ attempt \in Request
  BY SidesAreHandled, TypesOfState DEF IInv, SideSound, Sound
<1>2. CASE Revoke(d)
  <2>. DEFINE records == {[r EXCEPT !.revoked = TRUE] : r \in side[d].stored}
  <2>1. \A r \in TrustRecord : /\ [r EXCEPT !.revoked = TRUE] \in TrustRecord
                               /\ [r EXCEPT !.revoked = TRUE].id = r.id
                               /\ [r EXCEPT !.revoked = TRUE].commitState = r.commitState
    BY DEF TrustRecord
  <2>2. /\ records \in SUBSET TrustRecord
        /\ \A r \in records : r.commitState = "Mutual" => r.id \in Both(d)
    <3>1. ASSUME NEW q \in records
          PROVE  q \in TrustRecord /\ (q.commitState = "Mutual" => q.id \in Both(d))
      <4>1. PICK r \in side[d].stored : q = [r EXCEPT !.revoked = TRUE]
        OBVIOUS
      <4>. QED
        BY <1>1, <2>1, <4>1
    <3>. QED
      BY <3>1
  <2>. DEFINE old == {[id |-> r.id, at |-> attempt] : r \in Mutuals(side[d].stored)}
  <2>3. /\ Edit(d, records)
        /\ history' = [history EXCEPT ![d].revoked = @ \cup old]
    BY <1>2 DEF Revoke
  <2>4. old \in SUBSET [id : Request, at : Request]
    <3>1. \A r \in TrustRecord : r.id \in Request
      BY BoundsAssumption DEF TrustRecord, Request
    <3>. QED
      BY <1>1, <3>1 DEF Mutuals
  <2>. HIDE DEF old, records
  <2>5. /\ history' \in [Device -> Past]
        /\ \A x \in Device : /\ history'[x].confirmed = history[x].confirmed
                             /\ history'[x].committed = history[x].committed
    BY <1>1, <2>3, <2>4 DEF Past
  <2>. QED
    BY <2>2, <2>3, <2>5, EditKeeps
<1>3. CASE RePair(d)
  <2>1. Edit(d, {}) /\ UNCHANGED history
    BY <1>3 DEF RePair
  <2>2. {} \in SUBSET TrustRecord /\ \A r \in {} : r.commitState = "Mutual" => r.id \in Both(d)
    OBVIOUS
  <2>. QED
    BY <1>1, <2>1, <2>2, EditKeeps
<1>4. CASE \E limit \in Grant : UpdateLimit(d, limit)
  <2>1. PICK limit \in Grant, r \in side[d].stored :
           /\ Edit(d, (side[d].stored \ {r}) \cup {[r EXCEPT !.limit = limit \cup {ViewScreen}]})
           /\ UNCHANGED history
    BY <1>4 DEF UpdateLimit
  <2>. DEFINE u == [r EXCEPT !.limit = limit \cup {ViewScreen}]
              records == (side[d].stored \ {r}) \cup {u}
  <2>2. u \in TrustRecord /\ u.id = r.id /\ u.commitState = r.commitState
    BY <1>1, ScopesAssumption DEF TrustRecord
  <2>3. Edit(d, records) /\ UNCHANGED history
    BY <2>1
  <2>. HIDE DEF u
  <2>4. /\ records \in SUBSET TrustRecord
        /\ \A q \in records : q.commitState = "Mutual" => q.id \in Both(d)
    BY <1>1, <2>2
  <2>. HIDE DEF records
  <2>. QED
    BY <1>1, <2>3, <2>4, EditKeeps
<1>. QED
  BY <1>2, <1>3, <1>4

\* beginOutgoing and beginIncoming load the disk into an idle flow.
LEMMA LoadSound ==
    ASSUME NEW s \in Handling, NEW both, Sound(s, both)
    PROVE  /\ Load(s) \in Handling /\ Sound(Load(s), both)
           /\ Load(s).flow = s.flow /\ Load(s).out = s.out
<1>. DEFINE u == Save(s, Recovered(s.stored))
            v == ClearTransaction(u)
<1>1. Recovered(s.stored) \subseteq s.stored /\ s.stored \in SUBSET TrustRecord
  BY RecordsStandForPeer DEF Handling
<1>2. u \in Handling /\ Sound(u, both) /\ u.flow = s.flow /\ u.out = s.out
  BY <1>1 DEF Save, Handling, Sound
<1>. HIDE DEF u
<1>3. v \in Handling /\ Sound(v, both) /\ v.flow = u.flow /\ v.out = u.out
  BY <1>2, AttemptsAreCounted DEF ClearTransaction, Handling, Sound
<1>. QED
  BY <1>2, <1>3 DEF Load, u

\* What the first handler of a connection leaves, on the side that opened it
\* and on the other one.
Begun(t, d) ==
    /\ t \in Handling
    /\ Sound(t, Both(d))
    /\ t.flow.active /\ ~t.flow.authenticated /\ ~t.flow.prompt /\ ~t.flow.trusted
    /\ t.flow.outgoing = (initiator = d)
    /\ initiator = d =>
        /\ t.flow.request = attempt /\ t.flow.progress = {"helloSent"}
        /\ t.out = <<[kind |-> "Hello", request |-> attempt,
                      trust |-> MutualCommitId(t.devices), scopes |-> Scope]>>
    /\ initiator # d => t.flow.request = 0 /\ t.flow.progress = {} /\ t.out = <<>>

\* The handler that begins an attempt.
LEMMA BeginRuns ==
    ASSUME Typed, IInv, NEW d \in Device, Begin(d)
    PROVE  /\ link[d] = "secured" /\ link' = [link EXCEPT ![d] = "open"]
           /\ UNCHANGED <<initiator, attempt, history, crashes, edits>>
           /\ \E t : Begun(t, d) /\ Run(d, t, channel[d])
<1>. DEFINE u == Clear(side[d], {})
            loaded == Load(u)
            begun == [loaded EXCEPT !.flow.active = TRUE]
            first == [begun EXCEPT !.flow.outgoing = TRUE, !.flow.request = attempt]
            t == IF initiator = d THEN SendHello(first) ELSE begun
<1>1. /\ link[d] = "secured" /\ link' = [link EXCEPT ![d] = "open"]
      /\ UNCHANGED <<initiator, attempt, history, crashes, edits>>
      /\ Run(d, t, channel[d])
  BY DEF Begin
<1>2. side[d] \in Handling /\ side[d].out = <<>> /\ SideSound(d)
  BY SidesAreHandled DEF IInv
<1>3. u \in Handling /\ Sound(u, Both(d)) /\ u.flow = IdleFlow /\ u.out = <<>>
  BY <1>2, ClearSound DEF SideSound
<1>. HIDE DEF u
<1>4. loaded \in Handling /\ Sound(loaded, Both(d)) /\ loaded.flow = IdleFlow /\ loaded.out = <<>>
  BY <1>3, LoadSound
<1>. HIDE DEF loaded
<1>5. /\ begun \in Handling /\ begun.flow = [IdleFlow EXCEPT !.active = TRUE] /\ begun.out = <<>>
      /\ begun.devices = loaded.devices /\ begun.stored = loaded.stored /\ begun.before = loaded.before
      /\ begun.flow \in Flow
  BY <1>4 DEF Handling, Flow
<1>. HIDE DEF begun
<1>6. /\ begun.flow.active /\ ~begun.flow.authenticated /\ ~begun.flow.prompt
      /\ ~begun.flow.trusted /\ begun.flow.outgoing = FALSE
      /\ begun.flow.request = 0 /\ begun.flow.progress = {}
      /\ Sound(begun, Both(d))
  BY <1>4, <1>5 DEF IdleFlow, Sound
<1>7. CASE initiator # d
  <2>1. t = begun
    BY <1>7
  <2>2. Begun(begun, d)
    BY <1>5, <1>6, <1>7 DEF Begun
  <2>. QED
    BY <1>1, <2>1, <2>2
<1>8. CASE initiator = d
  <2>1. attempt \in Request /\ attempt # 0 /\ attempt \in 1 .. MaxAttempt
    BY <1>1, <1>2, TypesOfState, BoundsAssumption DEF SideSound, Request
  <2>2. /\ first \in Handling /\ first.out = <<>>
        /\ first.devices = begun.devices /\ first.stored = begun.stored
        /\ first.before = begun.before
        /\ first.flow.active /\ ~first.flow.authenticated /\ ~first.flow.prompt
        /\ ~first.flow.trusted /\ first.flow.outgoing = TRUE
        /\ first.flow.request = attempt /\ first.flow.progress = {}
    BY <1>5, <1>6, <2>1 DEF Handling, Flow
  <2>. HIDE DEF first
  <2>. DEFINE marked == Mark(first, "helloSent")
              k == MutualCommitId(first.devices)
              h == [kind |-> "Hello", request |-> attempt, trust |-> k, scopes |-> Scope]
  <2>3. /\ marked \in Handling /\ marked.flow = [first.flow EXCEPT !.progress = @ \cup {"helloSent"}]
        /\ marked.devices = first.devices /\ marked.stored = first.stored
        /\ marked.before = first.before /\ marked.out = first.out
    BY <2>2, MarkAdds DEF Progress
  <2>4. /\ marked.flow.active /\ ~marked.flow.authenticated /\ ~marked.flow.prompt
        /\ ~marked.flow.trusted /\ marked.flow.outgoing = TRUE
        /\ marked.flow.request = attempt /\ marked.flow.progress = {"helloSent"}
    BY <2>2, <2>3 DEF Handling, Flow
  <2>5. k \in Request
    BY <2>2, RecordsStandForPeer DEF Handling
  <2>6. SendHello(first) = Send(marked, "Hello", k, Scope)
    BY <2>2 DEF SendHello, Has
  <2>. DEFINE v == Send(marked, "Hello", k, Scope)
  <2>. HIDE DEF marked, k
  <2>7. /\ v \in Handling /\ v.flow = marked.flow /\ v.devices = marked.devices
        /\ v.stored = marked.stored /\ v.before = marked.before
        /\ v.out = Append(marked.out, [kind |-> "Hello", request |-> marked.flow.request,
                                       trust |-> k, scopes |-> Scope])
    <3>1. marked.flow.request # 0 /\ Scope \in SUBSET Scope /\ "Hello" \in {"Hello", "Decision", "Ready", "Committed", "Rejected", "Access"}
      BY <2>1, <2>4
    <3>2. v \in Handling
      BY <2>3, <2>5, <3>1, SendAppends
    <3>3. /\ v.flow = marked.flow /\ v.devices = marked.devices
          /\ v.stored = marked.stored /\ v.before = marked.before
          /\ v.out = Append(marked.out, [kind |-> "Hello", request |-> marked.flow.request,
                                         trust |-> k, scopes |-> Scope])
      BY <2>3 DEF Send, Handling
    <3>. QED
      BY <3>2, <3>3
  <2>. HIDE DEF v
  <2>8. v.out = <<[kind |-> "Hello", request |-> attempt, trust |-> MutualCommitId(v.devices),
                   scopes |-> Scope]>>
    BY <2>2, <2>3, <2>4, <2>7 DEF k
  <2>9. Sound(v, Both(d))
    BY <1>5, <1>6, <2>2, <2>3, <2>7 DEF Sound
  <2>10. Begun(v, d)
    BY <1>8, <2>4, <2>7, <2>8, <2>9 DEF Begun
  <2>11. Run(d, v, channel[d])
    BY <1>1, <1>8, <2>6 DEF v
  <2>. QED
    BY <1>1, <2>10, <2>11
<1>. QED
  BY <1>7, <1>8

\* The attempt begins.
LEMMA BeginKeeps ==
    ASSUME Typed, IInv, NEW d \in Device, Begin(d)
    PROVE  IInv' /\ Typed'
<1>. DEFINE e == Other(d)
            in2 == channel'[e]
<1>0. /\ link[d] = "secured" /\ link' = [link EXCEPT ![d] = "open"]
      /\ UNCHANGED <<initiator, attempt, history, crashes, edits>>
  BY BeginRuns
<1>1. PICK t : Begun(t, d) /\ Run(d, t, channel[d])
  BY BeginRuns
<1>2. e \in Device /\ e # d /\ Other(e) = d /\ \A x \in Device : x = d \/ x = e
  BY TwoDevices
<1>3. t \in Handling /\ channel[d] \in Seq(Message) /\ t.out \in Seq(Message)
  BY <1>1, SidesAreHandled DEF Begun, Handling
<1>4. /\ side'[d].flow = t.flow /\ side'[d].devices = t.devices
      /\ side'[d].stored = t.stored /\ side'[d].before = t.before
      /\ side'[e] = side[e] /\ channel'[d] = channel[d]
      /\ in2 = IF link[e] = "down" THEN channel[e] ELSE channel[e] \o t.out
  BY <1>1, <1>3, RunEffect
<1>5. Typed'
  <2>1. link' \in [Device -> Link] /\ history' \in [Device -> Past] /\ crashes' \in 0 .. MaxCrash
    BY <1>0, TypesOfState DEF Link
  <2>. QED
    BY <1>0, <1>1, <1>3, <2>1, RunKeepsTypes
<1>6. SideSound(d) /\ SideSound(e) /\ ChannelSound(d) /\ ChannelSound(e)
  BY <1>2 DEF IInv
<1>7. link'[d] = "open" /\ link'[e] = link[e] /\ attempt' = attempt
      /\ history' = history /\ initiator' = initiator /\ attempt # 0
  BY <1>0, <1>2, <1>6, TypesOfState DEF SideSound
<1>8. channel[e] = <<>> /\ ~(Active(e) /\ Heard(e))
  BY <1>0, <1>6 DEF ChannelSound
<1>9. in2 = <<>> \/ in2 = t.out
  BY <1>3, <1>4, <1>8
<1>. HIDE DEF e, in2
<1>10. /\ Active(d)' /\ ~Heard(d)'
       /\ Spoke(d)' <=> initiator = d
       /\ Known(d)' = MutualCommitId(t.devices)
       /\ Both(d)' = Both(d)
  BY <1>1, <1>4, <1>7 DEF Begun, Active, Heard, Spoke, Known, Both, Confirmed
<1>11. /\ Active(e)' <=> Active(e)
       /\ Heard(e)' <=> Heard(e)
       /\ Spoke(e)' <=> Spoke(e)
       /\ Known(e)' = Known(e)
  BY <1>4 DEF Active, Heard, Spoke, Known
<1>12. \A i \in DOMAIN in2 : /\ i = 1 /\ initiator = d /\ in2[i].kind = "Hello"
                             /\ in2[i].request = attempt /\ in2[i].trust = Known(d)'
  <2>. DEFINE h == [kind |-> "Hello", request |-> attempt,
                    trust |-> MutualCommitId(t.devices), scopes |-> Scope]
  <2>1. in2 = <<>> \/ (initiator = d /\ in2 = <<h>>)
    BY <1>1, <1>9 DEF Begun
  <2>2. h.kind = "Hello" /\ h.request = attempt /\ h.trust = Known(d)'
    BY <1>10
  <2>. HIDE DEF h
  <2>3. DOMAIN <<h>> = {1} /\ <<h>>[1] = h
    OBVIOUS
  <2>. QED
    BY <2>1, <2>2, <2>3
<1>13. SideSound(e)'
  BY <1>2, <1>4, <1>6, <1>7, OtherStays DEF Confirmed
<1>14. SideSound(d)'
  <2>1. Sound(side'[d], Both(d)')
    BY <1>1, <1>4, <1>10 DEF Begun, Sound
  <2>2. InOrder(side'[d], Behind(d)')
    BY <1>1, <1>4, <1>7 DEF Begun, InOrder, Behind
  <2>3. ~side'[d].flow.authenticated
    BY <1>1, <1>4 DEF Begun
  <2>4. /\ side'[d].flow.outgoing => side'[d].flow.request = attempt' /\ Spoke(d)'
        /\ ~side'[d].flow.outgoing => ~Spoke(d)'
    BY <1>1, <1>4, <1>7, <1>10 DEF Begun
  <2>5. "localCommitted" \notin side'[d].flow.progress
    BY <1>1, <1>4 DEF Begun
  <2>. QED
    BY <1>7, <1>10, <2>1, <2>2, <2>3, <2>4, <2>5 DEF SideSound
<1>15. ChannelSound(d)'
  <2>1. \A i \in DOMAIN channel'[d] :
          /\ channel'[d][i].request = attempt'
          /\ channel'[d][i].kind = "Hello" => i = 1
          /\ channel'[d][i].kind = "Committed" => attempt' \in history'[e].committed
          /\ channel'[d][i].kind \notin {"Decision", "Ready"}
    BY <1>0, <1>4, <1>6, <1>7 DEF ChannelSound, e
  <2>2. ~Spoke(d)' => channel'[e] = <<>>
    <3>1. ~Spoke(d)' => DOMAIN in2 = {}
      BY <1>10, <1>12
    <3>2. in2 # <<>> => in2 = t.out /\ t.out # <<>>
      BY <1>9
    <3>3. ~Spoke(d)' => t.out = <<>>
      BY <1>1, <1>10 DEF Begun
    <3>. QED
      BY <3>2, <3>3 DEF in2
  <2>3. HelloFirst(d)' =>
          /\ Active(e) => Spoke(e)
          /\ Active(e) /\ ~Heard(e) => channel'[d][1].trust = Known(e)
    BY <1>4, <1>6 DEF ChannelSound, HelloFirst, e
  <2>. QED
    BY <1>7, <1>8, <1>10, <1>11, <2>1, <2>2, <2>3 DEF ChannelSound, e
<1>16. ChannelSound(e)'
  <2>1. link[e] = "secured" => channel[d] = <<>>
    BY <1>2, <1>6 DEF ChannelSound
  <2>2. Active(e) /\ ~Spoke(e) => channel[d] = <<>>
    BY <1>2, <1>6 DEF ChannelSound
  <2>3. HelloFirst(e)' => initiator = d /\ in2[1].trust = Known(d)'
    <3>1. HelloFirst(e)' => 1 \in DOMAIN in2
      BY <1>3, <1>9 DEF HelloFirst, in2
    <3>. QED
      BY <1>12, <3>1
  <2>4. \A i \in DOMAIN channel'[e] : /\ i = 1 /\ channel'[e][i].kind = "Hello"
                                      /\ channel'[e][i].request = attempt'
    BY <1>7, <1>12 DEF in2
  <2>. QED
    BY <1>2, <1>4, <1>7, <1>8, <1>10, <1>11, <2>1, <2>2, <2>3, <2>4 DEF ChannelSound, in2
<1>. QED
  BY <1>2, <1>5, <1>13, <1>14, <1>15, <1>16 DEF IInv

-----------------------------------------------------------------------------
(* The specification.                                                       *)

\* The initial states.
LEMMA InitSound == Init => IInv /\ Typed
<1>. SUFFICES ASSUME Init PROVE IInv /\ Typed
  OBVIOUS
<1>1. /\ side = [d \in Device |-> NewSide] /\ link = [d \in Device |-> "down"]
      /\ channel = [d \in Device |-> <<>>] /\ initiator \in Device /\ attempt = 0
      /\ history = [d \in Device |-> [confirmed |-> {}, committed |-> {}, completed |-> {},
                                      revoked |-> {}]]
      /\ crashes = 0 /\ edits = 0
  BY DEF Init
<1>2. IdleFlow \in Flow
  BY AttemptsAreCounted DEF IdleFlow, Flow
<1>3. NewSide \in Side /\ 0 \in Request /\ 0 \in 0 .. MaxCrash /\ 0 \in 0 .. MaxEdit
  BY <1>2, AttemptsAreCounted, BoundsAssumption DEF NewSide, Side
<1>4. <<>> \in Seq(Message) /\ DOMAIN <<>> = {}
  OBVIOUS
<1>5. [confirmed |-> {}, committed |-> {}, completed |-> {}, revoked |-> {}] \in Past
  BY DEF Past
<1>6. Typed
  <2>1. \A d \in Device : \A i \in DOMAIN channel[d] : channel[d][i] \in Message
    BY <1>1, <1>4
  <2>. QED
    BY <1>1, <1>3, <1>4, <1>5, <2>1 DEF Typed, TypeOK, Link
<1>7. ASSUME NEW d \in Device
      PROVE  SideSound(d) /\ ChannelSound(d)
  <2>1. Other(d) \in Device
    BY TwoDevices
  <2>2. ~Active(d) /\ ~Active(Other(d))
    BY <1>1, <2>1 DEF Active, NewSide, IdleFlow
  <2>3. SideSound(d)
    BY <1>1, <2>2 DEF SideSound, Sound, NewSide, IdleFlow
  <2>4. channel[d] = <<>> /\ channel[Other(d)] = <<>> /\ DOMAIN channel[d] = {}
    BY <1>1, <1>4, <2>1
  <2>5. ~HelloFirst(d)
    BY <2>4 DEF HelloFirst
  <2>. QED
    BY <2>2, <2>3, <2>4, <2>5 DEF ChannelSound
<1>. QED
  BY <1>6, <1>7 DEF IInv

\* Every step.
LEMMA NextSound == IInv /\ Typed /\ [Next]_vars => IInv' /\ Typed'
<1>. SUFFICES ASSUME IInv, Typed, [Next]_vars PROVE IInv' /\ Typed'
  OBVIOUS
<1>1. ASSUME NEW d \in Device, Connect(d) PROVE IInv' /\ Typed'
  BY <1>1, ConnectKeeps
<1>2. ASSUME NEW d \in Device, Begin(d) PROVE IInv' /\ Typed'
  BY <1>2, BeginKeeps
<1>3. ASSUME NEW d \in Device, BeginRefused(d) PROVE IInv' /\ Typed'
  BY <1>3, BeginRefusedKeeps
<1>4. ASSUME NEW d \in Device, Receive(d) PROVE IInv' /\ Typed'
  BY <1>4, ReceiveKeeps
<1>5. ASSUME NEW d \in Device, ReceiveAccess(d) PROVE IInv' /\ Typed'
  BY <1>5, ReceiveAccessKeeps
<1>6. ASSUME NEW d \in Device, NEW granted \in Grant, Accept(d, granted) PROVE IInv' /\ Typed'
  BY <1>6, AcceptKeeps
<1>7. ASSUME NEW d \in Device, Abandon(d) PROVE IInv' /\ Typed'
  BY <1>7, AbandonKeeps
<1>8. ASSUME NEW d \in Device, Lose(d) PROVE IInv' /\ Typed'
  BY <1>8, LoseKeeps
<1>9. ASSUME NEW d \in Device, Crash(d) PROVE IInv' /\ Typed'
  BY <1>9, CrashKeeps
<1>10. ASSUME NEW d \in Device,
              Revoke(d) \/ RePair(d) \/ (\E limit \in Grant : UpdateLimit(d, limit))
       PROVE  IInv' /\ Typed'
  BY <1>10, ListKeeps
<1>11. ASSUME UNCHANGED vars PROVE IInv' /\ Typed'
  <2>1. UNCHANGED <<side, link, channel, initiator, attempt, history, crashes, edits>>
    BY <1>11 DEF vars
  <2>2. Typed'
    BY <2>1 DEF Typed, TypeOK
  <2>3. ASSUME NEW d \in Device
        PROVE  SideSound(d)' /\ ChannelSound(d)'
    <3>1. SideSound(d) /\ ChannelSound(d)
      BY DEF IInv
    <3>2. /\ Active(d)' <=> Active(d)
          /\ Behind(d)' = Behind(d)
          /\ Both(d)' = Both(d)
      BY <2>1 DEF Active, Behind, Both, Confirmed, Heard
    <3>3. SideSound(d)'
      BY <2>1, <3>1 DEF SideSound, Active, Behind, Both, Confirmed, Heard, Spoke
    <3>4. ChannelSound(d)'
      BY <2>1, <3>1 DEF ChannelSound, Active, Confirmed, Heard, Spoke, HelloFirst, WillTrust, Known
    <3>. QED
      BY <3>3, <3>4
  <2>. QED
    BY <2>2, <2>3 DEF IInv
<1>. QED
  BY <1>1, <1>2, <1>3, <1>4, <1>5, <1>6, <1>7, <1>8, <1>9, <1>10, <1>11 DEF Next

\* The inductive invariant: every variable has its type, and the two sides and
\* the messages between them are as the messages exchanged so far allow.
THEOREM OrderCorrect == Spec => [](IInv /\ Typed)
<1>1. Init => IInv /\ Typed
  BY InitSound
<1>2. IInv /\ Typed /\ [Next]_vars => IInv' /\ Typed'
  BY NextSound
<1>. QED
  BY <1>1, <1>2, PTL DEF Spec

\* No record of either device, on disk or in memory, is mutual unless both
\* users confirmed the numbers of its attempt.
THEOREM TrustCorrect == Spec => []TrustNeedsBothUsers
<1>1. IInv /\ Typed => TrustNeedsBothUsers
  <2>. SUFFICES ASSUME IInv, NEW d \in Device, NEW e \in Device,
                       NEW r \in Mutuals(Records(d))
                PROVE  r.id \in history[e].confirmed
    BY DEF TrustNeedsBothUsers
  <2>1. r \in Records(d) /\ r.commitState = "Mutual"
    BY DEF Mutuals
  <2>2. r.id \in Both(d)
    BY <2>1 DEF IInv, SideSound, Sound, Records
  <2>3. e = d \/ e = Other(d)
    BY TwoDevices
  <2>. QED
    BY <2>2, <2>3 DEF Both, Confirmed
<1>. QED
  BY <1>1, OrderCorrect, PTL

\* The two sides of an attempt know whether to ask their users alike, and one
\* that reports success has a peer that committed in the same attempt.
THEOREM AttemptsCorrect == Spec => []AttemptsAgree
<1>1. IInv /\ Typed => AttemptsAgree
  <2>. SUFFICES ASSUME IInv, Typed PROVE SidesDecideAlike /\ SuccessNeedsPeerCommit
    BY DEF AttemptsAgree
  <2>1. SuccessNeedsPeerCommit
    BY DEF SuccessNeedsPeerCommit, IInv, SideSound
  <2>2. ASSUME NEW d \in Device, NEW e \in Device,
               side[d].flow.active, Has(side[d], {"helloReceived"}),
               side[e].flow.active, Has(side[e], {"helloReceived"})
        PROVE  side[d].flow.trusted = side[e].flow.trusted
    <3>1. CASE e = Other(d)
      <4>1. ChannelSound(d) /\ Active(d) /\ Active(e) /\ Heard(d) /\ Heard(e)
        BY <2>2 DEF IInv, Active, Heard, Has
      <4>. QED
        BY <3>1, <4>1 DEF ChannelSound
    <3>. QED
      BY <3>1, TwoDevices
  <2>. QED
    BY <2>1, <2>2 DEF SidesDecideAlike
<1>. QED
  BY <1>1, OrderCorrect, PTL

-----------------------------------------------------------------------------
(* The disk.                                                                *)

\* What the stock depends on.
LEMMA StockStays ==
    ASSUME NEW s, NEW a, NEW crashed, NEW edited, Stock(s, a, crashed, edited),
           NEW t \in Handling, t.stored = s.stored, t.devices = s.devices,
           t.before = s.before, t.transaction = s.transaction,
           t.faults = 0 => s.faults = 0
    PROVE  Stock(t, a, crashed, edited)
BY DEF Stock, IsNew

\* Settled records, and settled ones with a new one, can be loaded.
LEMMA SettledLoadable ==
    ASSUME NEW records \in SUBSET TrustRecord, Settled(records),
           NEW n \in TrustRecord, \A r \in records : r.id # n.id
    PROVE  Loadable(records) /\ Loadable(records \cup {n}) /\ Loadable({n})
<1>1. \A r \in records \cup {n} : r.id \in Nat
  BY BoundsAssumption DEF TrustRecord
<1>2. PICK i \in Nat : \A r \in records : r.id = i
  <2>1. CASE records = {}
    BY <2>1
  <2>2. CASE records # {}
    <3>1. PICK q \in records : TRUE
      BY <2>2
    <3>. QED
      BY <3>1, <1>1 DEF Settled
  <2>. QED
    BY <2>1, <2>2
<1>3. \A r \in records \cup {n} : r.id \in {i, n.id}
  BY <1>2
<1>. QED
  BY <1>1, <1>2, <1>3 DEF Settled, Loadable

\* Memory that follows a service can be saved.
LEMMA DevicesLoadable ==
    ASSUME NEW s, NEW a, NEW crashed, NEW edited, Stock(s, a, crashed, edited)
    PROVE  Loadable(s.devices) /\ Loadable(s.before) /\ Loadable({})
<1>1. s.devices \in SUBSET TrustRecord /\ s.before \in SUBSET TrustRecord
  BY DEF Stock, Handling
<1>2. Loadable({})
  BY DEF Loadable
<1>3. ASSUME NEW records \in SUBSET TrustRecord, Settled(records) PROVE Loadable(records)
  <2>1. CASE records = {}
    BY <2>1, <1>2
  <2>2. CASE records # {}
    <3>1. PICK q \in records : TRUE
      BY <2>2
    <3>2. records = {} \cup {q}
      BY <3>1, <1>3 DEF Settled
    <3>3. Settled({}) /\ {} \in SUBSET TrustRecord
      BY DEF Settled
    <3>. QED
      BY <3>1, <3>2, <3>3, SettledLoadable
  <2>. QED
    BY <2>1, <2>2
<1>. QED
  BY <1>1, <1>2, <1>3, SettledLoadable DEF Stock, IsNew

\* A fault is counted.
LEMMA FaultCounts ==
    ASSUME NEW s \in Handling
    PROVE  /\ Fault(s) \in Handling /\ Fault(s).stored = s.stored /\ Fault(s).devices = s.devices
           /\ Fault(s).before = s.before /\ Fault(s).transaction = s.transaction
           /\ Fault(s).flow = s.flow /\ Fault(s).faults # 0
<1>1. Fault(s).faults = s.faults + 1 /\ s.faults \in Nat
  BY DEF Fault, Handling
<1>. QED
  BY <1>1 DEF Fault, Handling

\* A save that leaves the transaction as it is.
LEMMA SaveStock ==
    ASSUME NEW s, NEW a, NEW crashed, NEW edited, Stock(s, a, crashed, edited)
    PROVE  /\ Stock(Save(s, s.devices), a, crashed, edited)
           /\ Stock(Fault(s), a, crashed, edited)
           /\ Stock(ClearTransaction(Save(s, s.before)), a, crashed, edited)
<1>0. Loadable(s.devices) /\ Loadable(s.before) /\ 0 \in Request /\ s \in Handling
  BY DevicesLoadable, AttemptsAreCounted DEF Stock
<1>. DEFINE u == Save(s, s.devices)
            v == ClearTransaction(Save(s, s.before))
<1>1. /\ u \in Handling /\ u.stored = s.devices /\ u.devices = s.devices
      /\ u.before = s.before /\ u.transaction = s.transaction /\ u.faults = s.faults
  BY <1>0 DEF Save, Handling
<1>. HIDE DEF u
<1>2. Stock(u, a, crashed, edited)
  <2>1. s.transaction # 0 => (\E n \in TrustRecord : IsNew(n, u)) /\ s.before \subseteq s.devices
    BY <1>1 DEF Stock, IsNew
  <2>2. SameShape(s.devices, s.devices)
    BY DEF SameShape
  <2>. QED
    BY <1>0, <1>1, <2>1, <2>2 DEF Stock
<1>3. /\ v \in Handling /\ v.stored = s.before /\ v.devices = s.before
      /\ v.before = {} /\ v.transaction = 0 /\ v.faults = s.faults
  BY <1>0 DEF Save, ClearTransaction, Handling
<1>. HIDE DEF v
<1>4. Settled({})
  BY DEF Settled
<1>5. Stock(v, a, crashed, edited)
  BY <1>0, <1>3, <1>4 DEF Stock, IsNew, SameShape
<1>6. Stock(Fault(s), a, crashed, edited)
  BY <1>0, FaultCounts, StockStays
<1>. QED
  BY <1>2, <1>5, <1>6 DEF u, v

\* Rollback and the touch of a record.
LEMMA ServiceStock ==
    ASSUME NEW s, NEW a, NEW crashed, NEW edited, Stock(s, a, crashed, edited), NEW bad
    PROVE  /\ Stock(Rollback(s, bad), a, crashed, edited)
           /\ Stock(UpdateAuthenticated(s, bad), a, crashed, edited)
           /\ UpdateAuthenticated(s, bad).flow = s.flow
           /\ UpdateAuthenticated(s, bad).devices = s.devices
           /\ UpdateAuthenticated(s, bad).transaction = s.transaction
<1>1. Stock(Rollback(s, bad), a, crashed, edited)
  BY SaveStock DEF Rollback
<1>2. Stock(UpdateAuthenticated(s, bad), a, crashed, edited)
  BY SaveStock DEF UpdateAuthenticated
<1>3. /\ UpdateAuthenticated(s, bad).flow = s.flow
      /\ UpdateAuthenticated(s, bad).devices = s.devices
      /\ UpdateAuthenticated(s, bad).transaction = s.transaction
  BY DEF UpdateAuthenticated, Save, Fault, Stock, Handling
<1>. QED
  BY <1>1, <1>2, <1>3

\* The end of a transaction whose record is mutual by now.
LEMMA CompleteStock ==
    ASSUME NEW s, NEW a, NEW crashed, NEW edited, Stock(s, a, crashed, edited), NEW bad,
           HasTransaction(s) => s.devices = Mutuals(s.devices)
    PROVE  Stock(Complete(s, bad), a, crashed, edited)
<1>. SUFFICES ASSUME HasTransaction(s) PROVE Stock(Complete(s, bad), a, crashed, edited)
  BY DEF Complete
<1>. DEFINE kept == {r \in s.devices : r.id = s.flow.request}
            failed == [ClearTransaction(Fault(s)) EXCEPT !.devices = kept]
            saved == ClearTransaction(Save(s, kept))
            done == ClearTransaction(s)
<1>1. PICK n \in TrustRecord : IsNew(n, s)
  BY DEF Stock, HasTransaction
<1>2. kept = {n} /\ n \in s.devices /\ n.commitState = "Mutual"
  BY <1>1 DEF IsNew, HasTransaction, Mutuals
<1>3. s \in Handling /\ n.id <= a /\ 0 \in Request
  BY <1>1, <1>2, AttemptsAreCounted DEF Stock
<1>4. Settled(kept) /\ Settled({}) /\ SameShape(kept, kept)
  BY <1>2 DEF Settled, SameShape
<1>. HIDE DEF kept
<1>5. Loadable(kept)
  <2>1. {} \in SUBSET TrustRecord /\ \A r \in {} : r.id # n.id
    OBVIOUS
  <2>2. Loadable({n})
    BY <1>4, <2>1, SettledLoadable
  <2>. QED
    BY <1>2, <2>2
<1>6. Stock(failed, a, crashed, edited)
  <2>1. /\ failed \in Handling /\ failed.stored = s.stored /\ failed.devices = kept
        /\ failed.before = {} /\ failed.transaction = 0 /\ failed.faults = Fault(s).faults
        /\ Fault(s).faults # 0
    BY <1>2, <1>3, FaultCounts DEF ClearTransaction, Handling
  <2>. HIDE DEF failed
  <2>. QED
    BY <1>2, <1>3, <1>4, <2>1 DEF Stock
<1>7. Stock(saved, a, crashed, edited)
  <2>1. /\ saved \in Handling /\ saved.stored = kept /\ saved.devices = kept
        /\ saved.before = {} /\ saved.transaction = 0
    BY <1>2, <1>3 DEF ClearTransaction, Save, Handling
  <2>. HIDE DEF saved
  <2>. QED
    BY <1>2, <1>3, <1>4, <1>5, <2>1 DEF Stock
<1>8. ASSUME kept = s.devices PROVE Stock(done, a, crashed, edited)
  <2>1. /\ done \in Handling /\ done.stored = s.stored /\ done.devices = kept
        /\ done.before = {} /\ done.transaction = 0 /\ done.faults = s.faults
    BY <1>3, <1>8 DEF ClearTransaction, Handling
  <2>. HIDE DEF done
  <2>. QED
    BY <1>2, <1>3, <1>4, <1>8, <2>1 DEF Stock
<1>. QED
  BY <1>6, <1>7, <1>8 DEF Complete, kept

\* The record of the transaction becomes mutual.
LEMMA CommitStock ==
    ASSUME NEW s, NEW a, NEW crashed, NEW edited, Stock(s, a, crashed, edited),
           s.transaction # 0, s.transaction = s.flow.request
    PROVE  /\ Stock(Commit(s), a, crashed, edited)
           /\ Commit(s).transaction = s.transaction
           /\ Commit(s).flow = s.flow
           /\ Commit(s).devices = Mutuals(Commit(s).devices)
<1>. DEFINE records == {IF r.id = s.flow.request THEN [r EXCEPT !.commitState = "Mutual"] ELSE r :
                           r \in s.devices}
            t == Save(s, records)
<1>1. PICK n \in TrustRecord : IsNew(n, s)
  BY DEF Stock
<1>. DEFINE m == [n EXCEPT !.commitState = "Mutual"]
<1>2. m \in TrustRecord /\ m.id = n.id /\ m.commitState = "Mutual" /\ n.id <= a
  BY <1>1 DEF TrustRecord, IsNew, Stock
<1>. HIDE DEF m
<1>3. records = s.before \cup {m}
  BY <1>1 DEF IsNew, m
<1>. HIDE DEF records
<1>4. s \in Handling /\ s.before \in SUBSET TrustRecord /\ Settled(s.before)
      /\ \A r \in s.before : r.id # m.id
  BY <1>1, <1>2 DEF Stock, Handling, IsNew
<1>5. Loadable(records) /\ SameShape(records, records) /\ records = Mutuals(records)
      /\ records \in SUBSET TrustRecord
  BY <1>2, <1>3, <1>4, SettledLoadable DEF SameShape, Mutuals, Settled
<1>6. /\ t \in Handling /\ t.stored = records /\ t.devices = records /\ t.before = s.before
      /\ t.transaction = s.transaction /\ t.flow = s.flow
  BY <1>4, <1>5 DEF Save, Handling
<1>. HIDE DEF t
<1>7. IsNew(m, t)
  BY <1>1, <1>2, <1>3, <1>4, <1>6 DEF IsNew
<1>8. \A r \in t.stored \cup t.devices \cup t.before : r.id <= a
  BY <1>2, <1>3, <1>6 DEF Stock
<1>9. Stock(t, a, crashed, edited)
  BY <1>2, <1>3, <1>4, <1>5, <1>6, <1>7, <1>8 DEF Stock
<1>. QED
  BY <1>5, <1>6, <1>9 DEF Commit, t, records

\* A pending record joins the settled ones.
LEMMA PrepareStock ==
    ASSUME NEW s, NEW a, NEW crashed, NEW edited, Stock(s, a, crashed, edited),
           s.transaction = 0, s.flow.request = a, a \in 1 .. MaxAttempt,
           \A r \in s.devices : r.id # a
    PROVE  /\ Stock(Prepare(s), a, crashed, edited)
           /\ Prepare(s).transaction = a
           /\ Prepare(s).flow = s.flow
<1>. DEFINE n == [id |-> s.flow.request, commitState |-> "Pending",
                  limit |-> s.flow.effective, revoked |-> FALSE]
            records == s.devices \cup {n}
            t == [Save(s, records) EXCEPT !.before = s.devices, !.transaction = s.flow.request]
<1>1. s \in Handling /\ s.flow \in Flow /\ s.devices \in SUBSET TrustRecord /\ Settled(s.devices)
  BY DEF Stock, Handling
<1>2. n \in TrustRecord /\ n.id = a /\ a \in Nat /\ a \in Request /\ a # 0
  BY <1>1, BoundsAssumption DEF Flow, TrustRecord, Request
<1>. HIDE DEF n
<1>3. Loadable(records) /\ SameShape(records, records) /\ records \in SUBSET TrustRecord
  BY <1>1, <1>2, SettledLoadable DEF SameShape
<1>4. \A r \in records : r.id <= a
  BY <1>2 DEF Stock
<1>5. /\ t \in Handling /\ t.stored = records /\ t.devices = records /\ t.before = s.devices
      /\ t.transaction = a /\ t.flow = s.flow
  BY <1>1, <1>2, <1>3 DEF Save, Handling
<1>6. s.devices \subseteq records /\ records = s.devices \cup {n}
  OBVIOUS
<1>. HIDE DEF t, records
<1>7. IsNew(n, t)
  BY <1>2, <1>5, <1>6 DEF IsNew
<1>8. Stock(t, a, crashed, edited)
  BY <1>1, <1>2, <1>3, <1>4, <1>5, <1>6, <1>7 DEF Stock
<1>. QED
  BY <1>5, <1>8 DEF Prepare, t, records, n

\* The fields of a flow the store does not know of.
LEMMA StockedStays ==
    ASSUME NEW s, NEW a, NEW crashed, NEW edited, Stocked(s, a, crashed, edited),
           NEW t \in Handling, t.stored = s.stored, t.devices = s.devices,
           t.before = s.before, t.transaction = s.transaction, t.faults = s.faults,
           t.flow.progress = s.flow.progress, t.flow.request = s.flow.request,
           t.flow.active = s.flow.active, t.flow.authenticated = s.flow.authenticated,
           t.flow.trusted = s.flow.trusted
    PROVE  Stocked(t, a, crashed, edited)
<1>1. Stock(t, a, crashed, edited)
  BY StockStays DEF Stocked
<1>. QED
  BY <1>1 DEF Stocked, InStep

\* A message changes nothing.
LEMMA SendStocked ==
    ASSUME NEW s, NEW a, NEW crashed, NEW edited, Stocked(s, a, crashed, edited),
           NEW kind \in {"Hello", "Decision", "Ready", "Committed", "Rejected", "Access"},
           NEW trust \in Request, NEW scopes \in SUBSET Scope, s.flow.request # 0
    PROVE  /\ Stocked(Send(s, kind, trust, scopes), a, crashed, edited)
           /\ Send(s, kind, trust, scopes).flow = s.flow
           /\ Send(s, kind, trust, scopes).devices = s.devices
           /\ Send(s, kind, trust, scopes).transaction = s.transaction
<1>. DEFINE t == Send(s, kind, trust, scopes)
<1>1. s \in Handling
  BY DEF Stocked, Stock
<1>2. /\ t \in Handling /\ t.flow = s.flow /\ t.devices = s.devices
      /\ t.stored = s.stored /\ t.before = s.before
  BY <1>1, SendAppends
<1>3. t.transaction = s.transaction /\ t.faults = s.faults
  BY <1>1 DEF Send, Handling
<1>. HIDE DEF t
<1>4. Stocked(t, a, crashed, edited)
  BY <1>2, <1>3, StockedStays
<1>. QED
  BY <1>2, <1>3, <1>4 DEF t

\* Nor does a step of the flow that the store has no part in.
LEMMA MarkStocked ==
    ASSUME NEW s, NEW a, NEW crashed, NEW edited, Stocked(s, a, crashed, edited),
           NEW flag \in Progress \ {"localPrepared", "localCommitted"},
           s.flow.active, s.flow.request = a
    PROVE  Stocked(Mark(s, flag), a, crashed, edited)
<1>. DEFINE t == Mark(s, flag)
<1>1. s \in Handling /\ s.flow \in Flow
  BY DEF Stocked, Stock, Handling
<1>2. /\ t \in Handling /\ t.flow = [s.flow EXCEPT !.progress = @ \cup {flag}]
      /\ t.devices = s.devices /\ t.stored = s.stored /\ t.before = s.before
  BY <1>1, MarkAdds
<1>3. t.transaction = s.transaction /\ t.faults = s.faults
  BY <1>1 DEF Mark, Handling
<1>4. /\ t.flow.progress = s.flow.progress \cup {flag} /\ t.flow.request = a
      /\ t.flow.active /\ t.flow.trusted = s.flow.trusted
  BY <1>1, <1>2 DEF Flow
<1>. HIDE DEF t
<1>5. Stock(t, a, crashed, edited)
  BY <1>2, <1>3, StockStays DEF Stocked
<1>6. InStep(t, a)
  BY <1>2, <1>3, <1>4 DEF Stocked, InStep
<1>. QED
  BY <1>2, <1>4, <1>5, <1>6 DEF Stocked, t

LEMMA MarkGoesOn ==
    ASSUME NEW s \in Handling, NEW flag \in Progress
    PROVE  /\ Mark(s, flag).flow.request = s.flow.request
           /\ Mark(s, flag).flow.active = s.flow.active
BY DEF Mark, Handling, Flow

\* clear() and fail() leave no flow.
LEMMA ClearStocked ==
    ASSUME NEW s, NEW a, NEW crashed, NEW edited, Stock(s, a, crashed, edited), NEW bad
    PROVE  Stocked(Clear(s, bad), a, crashed, edited) /\ Clear(s, bad).flow = IdleFlow
<1>. DEFINE r == Rollback(s, bad)
            t == [r EXCEPT !.flow = IdleFlow]
<1>1. Stock(r, a, crashed, edited) /\ r \in Handling
  BY ServiceStock DEF Stock
<1>2. IdleFlow \in Flow
  BY AttemptsAreCounted DEF IdleFlow, Flow
<1>. HIDE DEF r
<1>3. /\ t \in Handling /\ t.flow = IdleFlow /\ t.stored = r.stored /\ t.faults = r.faults
      /\ t.devices = r.devices /\ t.before = r.before /\ t.transaction = r.transaction
  BY <1>1, <1>2 DEF Handling
<1>. HIDE DEF t
<1>4. Stock(t, a, crashed, edited)
  BY <1>1, <1>3, StockStays
<1>5. InStep(t, a)
  BY <1>3 DEF InStep, IdleFlow
<1>. QED
  BY <1>3, <1>4, <1>5 DEF Clear, Stocked, t, r

LEMMA FailStocked ==
    ASSUME NEW s, NEW a, NEW crashed, NEW edited, Stock(s, a, crashed, edited),
           NEW notify \in BOOLEAN, NEW bad
    PROVE  /\ Stocked(Fail(s, notify, bad), a, crashed, edited)
           /\ Fail(s, notify, bad).flow = IdleFlow
<1>. DEFINE t == Send(s, "Rejected", 0, {})
<1>1. CASE notify /\ s.flow.request # 0
  <2>1. s \in Handling /\ 0 \in Request /\ {} \in SUBSET Scope /\ s.flow.request # 0
    BY <1>1, AttemptsAreCounted DEF Stock
  <2>2. /\ t \in Handling /\ t.flow = s.flow /\ t.devices = s.devices
        /\ t.stored = s.stored /\ t.before = s.before
    BY <2>1, SendAppends
  <2>3. t.transaction = s.transaction /\ t.faults = s.faults
    BY <2>1 DEF Send, Handling
  <2>4. Stock(t, a, crashed, edited)
    <3>. HIDE DEF t
    <3>. QED
      BY <2>2, <2>3, StockStays
  <2>. QED
    BY <1>1, <2>4, ClearStocked DEF Fail
<1>2. CASE ~(notify /\ s.flow.request # 0)
  BY <1>2, ClearStocked DEF Fail
<1>. QED
  BY <1>1, <1>2

-----------------------------------------------------------------------------
(* The store through the handlers.                                          *)

\* Success ends the transaction, whose record is mutual by then.
LEMMA TryCompleteStocked ==
    ASSUME NEW s, NEW a, NEW crashed, NEW edited, Stocked(s, a, crashed, edited), NEW bad,
           a \in 1 .. MaxAttempt
    PROVE  Stocked(TryComplete(s, bad), a, crashed, edited)
<1>. SUFFICES ASSUME {"localCommitted", "remoteCommitted"} \subseteq s.flow.progress,
                     ~s.flow.authenticated
              PROVE  Stocked(TryComplete(s, bad), a, crashed, edited)
  BY DEF TryComplete, Has
<1>. DEFINE updated == IF s.flow.trusted THEN UpdateAuthenticated(s, bad) ELSE s
            completed == Complete(updated, bad)
            f == [completed.flow EXCEPT !.trusted = TRUE, !.within = TRUE,
                                        !.authenticated = TRUE, !.active = FALSE,
                                        !.prompt = FALSE]
            done == [completed EXCEPT !.flow = f]
<1>1. /\ s.flow.active /\ s.flow.request = a
      /\ s.transaction # 0 => s.devices = Mutuals(s.devices)
      /\ "localPrepared" \in s.flow.progress
  BY DEF Stocked, InStep
<1>2. /\ Stock(updated, a, crashed, edited) /\ updated.flow = s.flow
      /\ updated.devices = s.devices /\ updated.transaction = s.transaction
  BY ServiceStock DEF Stocked
<1>. HIDE DEF updated
<1>3. Stock(completed, a, crashed, edited)
  BY <1>1, <1>2, CompleteStock DEF HasTransaction
<1>4. completed.flow = s.flow
  BY <1>2 DEF Complete, ClearTransaction, Save, Fault, Stock, Handling
<1>. HIDE DEF completed
<1>5. s.flow \in Flow /\ completed \in Handling
  BY <1>3 DEF Stocked, Stock, Handling
<1>6. /\ f \in Flow /\ f.progress = s.flow.progress /\ f.request = a
      /\ f.authenticated /\ ~f.active
  BY <1>1, <1>4, <1>5 DEF Flow
<1>. HIDE DEF f
<1>7. /\ done \in Handling /\ done.flow = f /\ done.stored = completed.stored
      /\ done.devices = completed.devices /\ done.before = completed.before
      /\ done.transaction = completed.transaction
  BY <1>5, <1>6, FlowChanges
<1>8. done.faults = completed.faults
  BY <1>5 DEF Handling
<1>. HIDE DEF done
<1>9. Stocked(done, a, crashed, edited)
  <2>1. Stock(done, a, crashed, edited)
    BY <1>3, <1>7, <1>8, StockStays
  <2>2. InStep(done, a)
    BY <1>1, <1>6, <1>7 DEF InStep
  <2>. QED
    BY <2>1, <2>2 DEF Stocked
<1>10. Stocked(Send(done, "Access", 0, {}), a, crashed, edited)
  <2>1. done.flow.request # 0 /\ 0 \in Request /\ {} \in SUBSET Scope
    BY <1>6, <1>7, AttemptsAreCounted
  <2>. QED
    BY <1>9, <2>1, SendStocked
<1>11. TryComplete(s, bad) = IF s.flow.outgoing THEN Send(done, "Access", 0, {}) ELSE done
  <2>1. done = [completed EXCEPT !.flow.trusted = TRUE, !.flow.within = TRUE,
                         !.flow.authenticated = TRUE, !.flow.active = FALSE,
                         !.flow.prompt = FALSE]
    BY DEF done, f
  <2>. QED
    BY <2>1 DEF TryComplete, Has, completed, updated
<1>. QED
  BY <1>9, <1>10, <1>11

\* A commit makes the record of the transaction mutual, if there is one.
LEMMA TryCommitStocked ==
    ASSUME NEW s, NEW a, NEW crashed, NEW edited, Stocked(s, a, crashed, edited), NEW bad,
           a \in 1 .. MaxAttempt
    PROVE  Stocked(TryCommit(s, bad), a, crashed, edited)
<1>. SUFFICES ASSUME {"localPrepared", "remotePrepared"} \subseteq s.flow.progress,
                     "localCommitted" \notin s.flow.progress
              PROVE  Stocked(TryCommit(s, bad), a, crashed, edited)
  BY DEF TryCommit, Has
<1>1. /\ s.flow.active /\ s.flow.request = a
      /\ s.transaction # 0 <=> ~s.flow.trusted
      /\ s.transaction # 0 => s.transaction = a
      /\ s.transaction = 0 => \A r \in s.devices : r.id # a
      /\ Stock(s, a, crashed, edited) /\ s \in Handling /\ s.flow \in Flow
  BY DEF Stocked, InStep, Stock, Handling
<1>2. CASE ~s.flow.trusted /\ "commit" \in bad
  <2>1. Stock(Fault(s), a, crashed, edited)
    BY <1>1, SaveStock
  <2>. QED
    BY <1>2, <2>1, FailStocked DEF TryCommit, Has
<1>3. CASE ~(~s.flow.trusted /\ "commit" \in bad)
  <2>. DEFINE saved == IF s.flow.trusted THEN s ELSE Commit(s)
              marked == Mark(saved, "localCommitted")
              sent == Send(marked, "Committed", 0, s.flow.effective)
  <2>1. /\ Stock(saved, a, crashed, edited) /\ saved.flow = s.flow
        /\ saved.transaction = s.transaction
        /\ saved.transaction # 0 => saved.devices = Mutuals(saved.devices)
        /\ saved.transaction = 0 => \A r \in saved.devices : r.id # a
    BY <1>1, CommitStock
  <2>. HIDE DEF saved
  <2>2. saved \in Handling
    BY <2>1 DEF Stock
  <2>3. /\ marked \in Handling /\ marked.flow = [saved.flow EXCEPT !.progress = @ \cup {"localCommitted"}]
        /\ marked.devices = saved.devices /\ marked.stored = saved.stored
        /\ marked.before = saved.before
    BY <2>2, MarkAdds DEF Progress
  <2>4. marked.transaction = saved.transaction /\ marked.faults = saved.faults
    BY <2>2 DEF Mark, Handling
  <2>. HIDE DEF marked
  <2>5. /\ marked.flow.progress = s.flow.progress \cup {"localCommitted"}
        /\ marked.flow.request = a /\ marked.flow.active
        /\ marked.flow.trusted = s.flow.trusted
    BY <1>1, <2>1, <2>3 DEF Flow
  <2>6. Stocked(marked, a, crashed, edited)
    <3>1. Stock(marked, a, crashed, edited)
      BY <2>1, <2>3, <2>4, StockStays
    <3>2. InStep(marked, a)
      BY <1>1, <2>1, <2>3, <2>4, <2>5 DEF InStep
    <3>. QED
      BY <3>1, <3>2 DEF Stocked
  <2>7. Stocked(sent, a, crashed, edited)
    <3>1. s.flow.effective \in SUBSET Scope /\ 0 \in Request /\ marked.flow.request # 0
      BY <1>1, <2>5, AttemptsAreCounted DEF Flow
    <3>. QED
      BY <2>6, <3>1, SendStocked
  <2>. HIDE DEF sent
  <2>8. Stocked(TryComplete(sent, bad), a, crashed, edited)
    BY <2>7, TryCompleteStocked
  <2>. QED
    BY <1>3, <2>8 DEF TryCommit, Has, sent, marked, saved
<1>. QED
  BY <1>2, <1>3

\* A prepared record waits for the commit.
LEMMA TryPrepareStocked ==
    ASSUME NEW s, NEW a, NEW crashed, NEW edited, Stocked(s, a, crashed, edited), NEW bad,
           a \in 1 .. MaxAttempt
    PROVE  Stocked(TryPrepare(s, bad), a, crashed, edited)
<1>. SUFFICES ASSUME {"localDecision", "remoteDecision"} \subseteq s.flow.progress,
                     "localPrepared" \notin s.flow.progress
              PROVE  Stocked(TryPrepare(s, bad), a, crashed, edited)
  BY DEF TryPrepare, Has
<1>. DEFINE effective == IF s.flow.outgoing THEN s.flow.theirs ELSE s.flow.mine
            agreed == [s EXCEPT !.flow.effective = effective]
            saved == IF s.flow.trusted THEN agreed ELSE Prepare(agreed)
            marked == Mark(saved, "localPrepared")
            sent == Send(marked, "Ready", 0, effective)
<1>1. /\ s.flow.active /\ s.flow.request = a /\ s.transaction = 0
      /\ "localCommitted" \notin s.flow.progress
      /\ \A r \in s.devices : r.id # a
      /\ Stock(s, a, crashed, edited) /\ s \in Handling /\ s.flow \in Flow
  BY DEF Stocked, InStep, Stock, Handling
<1>2. effective \in SUBSET Scope
  BY <1>1 DEF Flow
<1>. HIDE DEF effective
<1>3. /\ agreed \in Handling /\ agreed.flow = [s.flow EXCEPT !.effective = effective]
      /\ agreed.stored = s.stored /\ agreed.devices = s.devices /\ agreed.before = s.before
      /\ agreed.transaction = s.transaction /\ agreed.faults = s.faults
  BY <1>1, <1>2 DEF Handling, Flow
<1>. HIDE DEF agreed
<1>4. /\ agreed.flow.progress = s.flow.progress /\ agreed.flow.request = a
      /\ agreed.flow.active /\ agreed.flow.trusted = s.flow.trusted
  BY <1>1, <1>3 DEF Flow
<1>5. Stock(agreed, a, crashed, edited)
  BY <1>1, <1>3, StockStays
<1>6. Stocked(Fail(s, TRUE, bad), a, crashed, edited)
  BY <1>1, FailStocked
<1>7. Stocked(Fail(agreed, TRUE, bad), a, crashed, edited)
  BY <1>5, FailStocked
<1>8. Stocked(Fail(Fault(agreed), TRUE, bad), a, crashed, edited)
  <2>1. Stock(Fault(agreed), a, crashed, edited)
    BY <1>5, SaveStock
  <2>. QED
    BY <2>1, FailStocked
<1>9. Stocked(TryComplete(TryCommit(sent, bad), bad), a, crashed, edited)
  <2>1. /\ Stock(saved, a, crashed, edited) /\ saved.flow = agreed.flow
        /\ saved.transaction # 0 <=> ~s.flow.trusted
        /\ saved.transaction # 0 => saved.transaction = a
        /\ saved.transaction = 0 => \A r \in saved.devices : r.id # a
    <3>1. CASE s.flow.trusted
      BY <1>1, <1>3, <1>5, <3>1
    <3>2. CASE ~s.flow.trusted
      <4>1. /\ Stock(Prepare(agreed), a, crashed, edited)
            /\ Prepare(agreed).transaction = a
            /\ Prepare(agreed).flow = agreed.flow
        BY <1>1, <1>3, <1>4, <1>5, PrepareStock
      <4>2. a # 0
        OBVIOUS
      <4>. QED
        BY <3>2, <4>1, <4>2
    <3>. QED
      BY <3>1, <3>2
  <2>. HIDE DEF saved
  <2>2. saved \in Handling
    BY <2>1 DEF Stock
  <2>3. /\ marked \in Handling /\ marked.flow = [saved.flow EXCEPT !.progress = @ \cup {"localPrepared"}]
        /\ marked.devices = saved.devices /\ marked.stored = saved.stored
        /\ marked.before = saved.before
    BY <2>2, MarkAdds DEF Progress
  <2>4. marked.transaction = saved.transaction /\ marked.faults = saved.faults
    BY <2>2 DEF Mark, Handling
  <2>. HIDE DEF marked
  <2>5. /\ marked.flow.progress = s.flow.progress \cup {"localPrepared"}
        /\ marked.flow.request = a /\ marked.flow.active
        /\ marked.flow.trusted = s.flow.trusted
    <3>1. agreed.flow \in Flow
      BY <1>3 DEF Handling
    <3>. QED
      BY <1>4, <2>1, <2>3, <3>1 DEF Flow
  <2>6. Stocked(marked, a, crashed, edited)
    <3>1. Stock(marked, a, crashed, edited)
      BY <2>1, <2>3, <2>4, StockStays
    <3>2. InStep(marked, a)
      BY <1>1, <2>1, <2>3, <2>4, <2>5 DEF InStep
    <3>. QED
      BY <3>1, <3>2 DEF Stocked
  <2>7. Stocked(sent, a, crashed, edited)
    <3>1. 0 \in Request /\ marked.flow.request # 0
      BY <2>5, AttemptsAreCounted
    <3>. QED
      BY <1>2, <2>6, <3>1, SendStocked
  <2>. HIDE DEF sent
  <2>. QED
    BY <2>7, TryCommitStocked, TryCompleteStocked
<1>. QED
  BY <1>6, <1>7, <1>8, <1>9 DEF TryPrepare, Has, sent, marked, saved, agreed, effective

LEMMA SendDecisionStocked ==
    ASSUME NEW s, NEW a, NEW crashed, NEW edited, Stocked(s, a, crashed, edited), NEW bad,
           a \in 1 .. MaxAttempt, NEW scopes \in SUBSET Scope,
           s.flow.active, s.flow.request = a
    PROVE  Stocked(SendDecision(s, scopes, bad), a, crashed, edited)
<1>. DEFINE marked == Mark(s, "localDecision")
            t == [marked EXCEPT !.flow.mine = scopes]
            sent == Send(t, "Decision", 0, scopes)
<1>1. Stocked(marked, a, crashed, edited) /\ marked.flow.request = a
  <2>1. "localDecision" \in Progress \ {"localPrepared", "localCommitted"}
    BY DEF Progress
  <2>2. Stocked(Mark(s, "localDecision"), a, crashed, edited)
    BY <2>1, MarkStocked
  <2>3. Mark(s, "localDecision").flow.request = a
    BY <2>1, MarkGoesOn DEF Stocked, Stock
  <2>. QED
    BY <2>2, <2>3
<1>. HIDE DEF marked
<1>2. marked \in Handling /\ marked.flow \in Flow
  BY <1>1 DEF Stocked, Stock, Handling
<1>3. /\ t \in Handling /\ t.flow.progress = marked.flow.progress
      /\ t.flow.request = marked.flow.request /\ t.flow.active = marked.flow.active
      /\ t.flow.authenticated = marked.flow.authenticated
      /\ t.flow.trusted = marked.flow.trusted
      /\ t.devices = marked.devices /\ t.transaction = marked.transaction
      /\ t.stored = marked.stored /\ t.before = marked.before /\ t.faults = marked.faults
  BY <1>2 DEF Flow, Handling
<1>. HIDE DEF t
<1>4. Stocked(t, a, crashed, edited)
  BY <1>1, <1>3, StockedStays
<1>5. Stocked(sent, a, crashed, edited)
  <2>1. 0 \in Request /\ t.flow.request # 0
    BY <1>1, <1>3, AttemptsAreCounted
  <2>. QED
    BY <1>4, <2>1, SendStocked
<1>. HIDE DEF sent
<1>6. Stocked(TryPrepare(sent, bad), a, crashed, edited)
  BY <1>5, TryPrepareStocked
<1>. QED
  BY <1>6 DEF SendDecision, Has, sent, t, marked

LEMMA DecideStocked ==
    ASSUME NEW s, NEW a, NEW crashed, NEW edited, Stocked(s, a, crashed, edited), NEW bad,
           a \in 1 .. MaxAttempt, s.flow.active, s.flow.request = a
    PROVE  Stocked(Decide(s, bad), a, crashed, edited)
<1>. DEFINE t == [s EXCEPT !.flow.prompt = TRUE]
            scopes == IF s.flow.outgoing THEN Scope ELSE UNION {r.limit : r \in Found(s.devices)}
<1>1. s \in Handling /\ s.flow \in Flow /\ s.devices \in SUBSET TrustRecord
  BY DEF Stocked, Stock, Handling
<1>2. CASE s.flow.trusted
  <2>1. Found(s.devices) \subseteq s.devices
    <3>1. CASE Mutuals(s.devices) = {}
      BY <3>1 DEF Found
    <3>2. CASE Mutuals(s.devices) # {}
      <4>1. Mutuals(s.devices) \in SUBSET TrustRecord
        BY <1>1 DEF Mutuals
      <4>2. Oldest(Mutuals(s.devices)) \in Mutuals(s.devices)
        BY <3>2, <4>1, OldestExists
      <4>. QED
        BY <3>2, <4>2 DEF Found, Mutuals
    <3>. QED
      BY <3>1, <3>2
  <2>2. \A r \in Found(s.devices) : r.limit \in SUBSET Scope
    BY <1>1, <2>1 DEF TrustRecord
  <2>3. scopes \in SUBSET Scope
    BY <2>2
  <2>. HIDE DEF scopes
  <2>4. Stocked(SendDecision(s, scopes, bad), a, crashed, edited)
    BY <2>3, SendDecisionStocked
  <2>. QED
    BY <1>2, <2>4 DEF Decide, scopes
<1>3. Stocked(Fail(Fault(s), TRUE, bad), a, crashed, edited)
  <2>1. Stock(Fault(s), a, crashed, edited)
    BY SaveStock DEF Stocked
  <2>. QED
    BY <2>1, FailStocked
<1>4. Stocked(t, a, crashed, edited)
  <2>1. /\ t \in Handling /\ t.flow.progress = s.flow.progress
        /\ t.flow.request = s.flow.request /\ t.flow.active = s.flow.active
        /\ t.flow.authenticated = s.flow.authenticated
        /\ t.flow.trusted = s.flow.trusted
        /\ t.devices = s.devices /\ t.transaction = s.transaction
        /\ t.stored = s.stored /\ t.before = s.before /\ t.faults = s.faults
    BY <1>1 DEF Flow, Handling
  <2>. HIDE DEF t
  <2>. QED
    BY <2>1, StockedStays
<1>. QED
  BY <1>2, <1>3, <1>4 DEF Decide

LEMMA HandleDecisionStocked ==
    ASSUME NEW s, NEW a, NEW crashed, NEW edited, Stocked(s, a, crashed, edited), NEW bad,
           a \in 1 .. MaxAttempt, s.flow.active, NEW m \in Message
    PROVE  Stocked(HandleDecision(s, m, bad), a, crashed, edited)
<1>. SUFFICES ASSUME "helloReceived" \in s.flow.progress
              PROVE  Stocked(HandleDecision(s, m, bad), a, crashed, edited)
  BY DEF HandleDecision, Has
<1>. DEFINE marked == Mark(s, "remoteDecision")
            t == [marked EXCEPT !.flow.theirs = m.scopes]
<1>1. Stocked(marked, a, crashed, edited) /\ marked.flow.request = a
  <2>1. "remoteDecision" \in Progress \ {"localPrepared", "localCommitted"}
    BY DEF Progress
  <2>2. s.flow.request = a
    BY DEF Stocked, InStep
  <2>3. Stocked(Mark(s, "remoteDecision"), a, crashed, edited)
    BY <2>1, <2>2, MarkStocked
  <2>4. Mark(s, "remoteDecision").flow.request = a
    BY <2>1, <2>2, MarkGoesOn DEF Stocked, Stock
  <2>. QED
    BY <2>3, <2>4
<1>. HIDE DEF marked
<1>2. marked \in Handling /\ marked.flow \in Flow /\ m.scopes \in SUBSET Scope
  BY <1>1 DEF Stocked, Stock, Handling, Message
<1>3. /\ t \in Handling /\ t.flow.progress = marked.flow.progress
      /\ t.flow.request = marked.flow.request /\ t.flow.active = marked.flow.active
      /\ t.flow.authenticated = marked.flow.authenticated
      /\ t.flow.trusted = marked.flow.trusted
      /\ t.devices = marked.devices /\ t.transaction = marked.transaction
      /\ t.stored = marked.stored /\ t.before = marked.before /\ t.faults = marked.faults
  BY <1>2 DEF Flow, Handling
<1>. HIDE DEF t
<1>4. Stocked(TryPrepare(t, bad), a, crashed, edited)
  BY <1>1, <1>3, StockedStays, TryPrepareStocked
<1>. QED
  BY <1>4 DEF HandleDecision, t, marked

LEMMA HandleReadyStocked ==
    ASSUME NEW s, NEW a, NEW crashed, NEW edited, Stocked(s, a, crashed, edited), NEW bad,
           a \in 1 .. MaxAttempt, s.flow.active, NEW m \in Message
    PROVE  Stocked(HandleReady(s, m, bad), a, crashed, edited)
<1>1. Stocked(Fail(s, TRUE, bad), a, crashed, edited)
  BY FailStocked DEF Stocked
<1>2. ASSUME Has(s, {"localDecision", "remoteDecision"})
      PROVE  Stocked(TryCommit(TryPrepare(Mark(s, "remotePrepared"), bad), bad), a, crashed, edited)
  <2>1. "remotePrepared" \in Progress \ {"localPrepared", "localCommitted"}
    BY DEF Progress
  <2>2. s.flow.request = a
    BY <1>2 DEF Stocked, InStep, Has
  <2>3. Stocked(Mark(s, "remotePrepared"), a, crashed, edited)
    BY <2>1, <2>2, MarkStocked
  <2>. QED
    BY <2>3, TryPrepareStocked, TryCommitStocked
<1>. QED
  BY <1>1, <1>2 DEF HandleReady

LEMMA HandleCommittedStocked ==
    ASSUME NEW s, NEW a, NEW crashed, NEW edited, Stocked(s, a, crashed, edited), NEW bad,
           a \in 1 .. MaxAttempt, s.flow.active, NEW m \in Message
    PROVE  Stocked(HandleCommitted(s, m, bad), a, crashed, edited)
<1>1. ASSUME Has(s, {"localPrepared", "remotePrepared"})
      PROVE  Stocked(TryComplete(TryCommit(Mark(s, "remoteCommitted"), bad), bad), a, crashed, edited)
  <2>1. "remoteCommitted" \in Progress \ {"localPrepared", "localCommitted"}
    BY DEF Progress
  <2>2. s.flow.request = a
    BY <1>1 DEF Stocked, InStep, Has
  <2>3. Stocked(Mark(s, "remoteCommitted"), a, crashed, edited)
    BY <2>1, <2>2, MarkStocked
  <2>. QED
    BY <2>3, TryCommitStocked, TryCompleteStocked
<1>. QED
  BY <1>1 DEF HandleCommitted

\* A Hello, sent or heard, comes before any record of the attempt.
LEMMA SendHelloStocked ==
    ASSUME NEW s, NEW a, NEW crashed, NEW edited, Stocked(s, a, crashed, edited),
           a \in 1 .. MaxAttempt, s.flow.active, s.flow.request = a
    PROVE  /\ Stocked(SendHello(s), a, crashed, edited)
           /\ SendHello(s).flow.active /\ SendHello(s).flow.request = a
<1>1. CASE Has(s, {"helloSent"})
  BY <1>1 DEF SendHello
<1>2. CASE ~Has(s, {"helloSent"})
  <2>. DEFINE t == Mark(s, "helloSent")
              k == MutualCommitId(s.devices)
  <2>1. /\ Stocked(t, a, crashed, edited)
        /\ t.flow.active /\ t.flow.request = a
    <3>1. "helloSent" \in Progress \ {"localPrepared", "localCommitted"}
      BY DEF Progress
    <3>2. Stocked(Mark(s, "helloSent"), a, crashed, edited)
      BY <3>1, MarkStocked
    <3>3. Mark(s, "helloSent").flow.request = a /\ Mark(s, "helloSent").flow.active
      BY <3>1, MarkGoesOn DEF Stocked, Stock
    <3>. QED
      BY <3>2, <3>3
  <2>. HIDE DEF t
  <2>2. k \in Request
    <3>1. s.devices \in SUBSET TrustRecord
      BY DEF Stocked, Stock, Handling
    <3>2. Mutuals(s.devices) \in SUBSET TrustRecord
      BY <3>1 DEF Mutuals
    <3>3. CASE Mutuals(s.devices) = {}
      BY <3>3, AttemptsAreCounted DEF MutualCommitId
    <3>4. CASE Mutuals(s.devices) # {}
      <4>1. Oldest(Mutuals(s.devices)) \in TrustRecord
        BY <3>2, <3>4, OldestExists
      <4>2. Oldest(Mutuals(s.devices)).id \in 1 .. MaxAttempt
        BY <4>1 DEF TrustRecord
      <4>3. 1 .. MaxAttempt \subseteq Request
        BY BoundsAssumption DEF Request
      <4>. QED
        BY <3>4, <4>2, <4>3 DEF MutualCommitId
    <3>. QED
      BY <3>3, <3>4
  <2>. HIDE DEF k
  <2>3. t.flow.request # 0 /\ Scope \in SUBSET Scope
    BY <2>1
  <2>4. /\ Stocked(Send(t, "Hello", k, Scope), a, crashed, edited)
        /\ Send(t, "Hello", k, Scope).flow = t.flow
    BY <2>1, <2>2, <2>3, SendStocked
  <2>. QED
    BY <1>2, <2>1, <2>4 DEF SendHello, t, k
<1>. QED
  BY <1>1, <1>2

LEMMA HandleHelloStocked ==
    ASSUME NEW s, NEW a, NEW crashed, NEW edited, Stocked(s, a, crashed, edited), NEW bad,
           a \in 1 .. MaxAttempt, s.flow.active, NEW m \in Message, m.request = a,
           "localPrepared" \notin s.flow.progress
    PROVE  Stocked(HandleHello(s, m, bad), a, crashed, edited)
<1>. DEFINE known == Found(s.devices)
            trusted == MutualCommitId(s.devices) # 0 /\ MutualCommitId(s.devices) = m.trust
            within == trusted /\ \A r \in known : Scope \ {FileTransfer} \subseteq r.limit
            marked == Mark(s, "helloReceived")
            heard == [marked EXCEPT
                         !.flow.request = m.request,
                         !.flow.trusted = trusted,
                         !.flow.within = within]
<1>1. /\ s \in Handling /\ s.flow \in Flow /\ s.transaction = 0
      /\ "localCommitted" \notin s.flow.progress
      /\ \A r \in s.devices : r.id # a
      /\ Stock(s, a, crashed, edited)
  BY DEF Stocked, Stock, InStep, Handling
<1>2. /\ marked \in Handling /\ marked.devices = s.devices
      /\ marked.stored = s.stored /\ marked.before = s.before
      /\ marked.flow = [s.flow EXCEPT !.progress = @ \cup {"helloReceived"}]
  BY <1>1, MarkAdds DEF Progress
<1>3. marked.transaction = s.transaction /\ marked.faults = s.faults
  BY <1>1 DEF Mark, Handling
<1>. HIDE DEF marked
<1>4. trusted \in BOOLEAN /\ within \in BOOLEAN /\ a \in Request /\ a # 0
  BY BoundsAssumption DEF Request
<1>. HIDE DEF trusted, within
<1>5. /\ heard \in Handling /\ heard.devices = s.devices
      /\ heard.stored = s.stored /\ heard.before = s.before
      /\ heard.transaction = s.transaction /\ heard.faults = s.faults
      /\ heard.flow \in Flow
  <2>1. marked.flow \in Flow /\ m.request \in Request
    BY <1>2, <1>4 DEF Handling
  <2>. QED
    BY <1>2, <1>3, <1>4, <2>1 DEF Handling, Flow
<1>6. /\ heard.flow.progress = s.flow.progress \cup {"helloReceived"}
      /\ heard.flow.request = a /\ heard.flow.active
  BY <1>1, <1>2 DEF Handling, Flow
<1>. HIDE DEF heard
<1>7. Stocked(heard, a, crashed, edited)
  <2>1. Stock(heard, a, crashed, edited)
    BY <1>1, <1>5, StockStays
  <2>2. InStep(heard, a)
    BY <1>1, <1>5, <1>6 DEF InStep
  <2>. QED
    BY <2>1, <2>2 DEF Stocked
<1>8. Stocked(Fail(heard, TRUE, bad), a, crashed, edited)
  BY <1>7, FailStocked DEF Stocked
<1>9. Stocked(Decide(SendHello(heard), bad), a, crashed, edited)
  BY <1>6, <1>7, SendHelloStocked, DecideStocked
<1>. QED
  BY <1>8, <1>9 DEF HandleHello, heard, marked, within, trusted

LEMMA HandleMessageStocked ==
    ASSUME NEW s, NEW a, NEW crashed, NEW edited, Stocked(s, a, crashed, edited), NEW bad,
           NEW m \in Message, m.kind # "Access",
           s.flow.active => a \in 1 .. MaxAttempt,
           s.flow.active /\ m.kind = "Hello" =>
               m.request = a /\ "localPrepared" \notin s.flow.progress
    PROVE  Stocked(HandleMessage(s, m, bad), a, crashed, edited)
<1>1. m.kind \in {"Hello", "Decision", "Ready", "Committed", "Rejected"}
  BY DEF Message
<1>2. CASE Drops(s, m)
  <2>1. HandleMessage(s, m, bad) = s
    BY <1>1, <1>2 DEF HandleMessage
  <2>. QED
    BY <2>1
<1>3. CASE ~Drops(s, m)
  <2>1. s.flow.active /\ a \in 1 .. MaxAttempt
    BY <1>3 DEF Drops
  <2>2. CASE m.kind = "Hello"
    <3>1. HandleMessage(s, m, bad) = HandleHello(s, m, bad)
      BY <1>3, <2>2 DEF HandleMessage
    <3>. QED
      BY <2>1, <2>2, <3>1, HandleHelloStocked
  <2>3. CASE m.kind = "Rejected"
    <3>1. HandleMessage(s, m, bad) = Fail(s, FALSE, bad)
      BY <1>3, <2>3 DEF HandleMessage
    <3>. QED
      BY <3>1, FailStocked DEF Stocked
  <2>4. CASE m.kind = "Decision"
    <3>1. HandleMessage(s, m, bad) = HandleDecision(s, m, bad)
      BY <1>3, <2>4 DEF HandleMessage
    <3>. QED
      BY <2>1, <3>1, HandleDecisionStocked
  <2>5. CASE m.kind = "Ready"
    <3>1. HandleMessage(s, m, bad) = HandleReady(s, m, bad)
      BY <1>3, <2>5 DEF HandleMessage
    <3>. QED
      BY <2>1, <3>1, HandleReadyStocked
  <2>6. CASE m.kind = "Committed"
    <3>1. HandleMessage(s, m, bad) = HandleCommitted(s, m, bad)
      BY <1>3, <2>6 DEF HandleMessage
    <3>. QED
      BY <2>1, <3>1, HandleCommittedStocked
  <2>. QED
    BY <1>1, <2>2, <2>3, <2>4, <2>5, <2>6
<1>. QED
  BY <1>2, <1>3

-----------------------------------------------------------------------------
(* The store through the steps.                                             *)

\* The stock of an earlier attempt is one of a later attempt.
LEMMA StockGrows ==
    ASSUME NEW s, NEW a \in Int, NEW b \in Int, a <= b,
           NEW crashed, NEW edited, NEW crashed2, NEW edited2,
           ~crashed2 => ~crashed, ~edited2 => ~edited, Stock(s, a, crashed, edited)
    PROVE  Stock(s, b, crashed2, edited2)
<1>1. \A r \in s.stored \cup s.devices \cup s.before : r.id <= b
  <2>. SUFFICES ASSUME NEW r \in s.stored \cup s.devices \cup s.before PROVE r.id <= b
    OBVIOUS
  <2>1. r \in TrustRecord /\ r.id <= a
    BY DEF Stock, Handling
  <2>2. r.id \in Int
    BY <2>1 DEF TrustRecord
  <2>. QED
    BY <2>1, <2>2
<1>. QED
  BY <1>1 DEF Stock

\* What a device leaves behind is what its handler left.
LEMMA RunStocked ==
    ASSUME Typed, NEW d \in Device, NEW t \in Handling, NEW inbox, Run(d, t, inbox),
           NEW a, NEW crashed, NEW edited, Stocked(t, a, crashed, edited)
    PROVE  Stocked(side'[d], a, crashed, edited) /\ side'[Other(d)] = side[Other(d)]
<1>. DEFINE u == [t EXCEPT !.out = <<>>]
<1>1. Other(d) \in Device /\ Other(d) # d /\ side \in [Device -> Side]
  BY TwoDevices DEF Typed, TypeOK
<1>2. <<>> \in Seq(Message)
  OBVIOUS
<1>3. /\ u \in Handling /\ u.flow = t.flow /\ u.devices = t.devices
      /\ u.stored = t.stored /\ u.before = t.before
      /\ u.transaction = t.transaction /\ u.faults = t.faults
  BY <1>2 DEF Handling
<1>4. side' = [side EXCEPT ![d] = u]
  BY DEF Run
<1>. HIDE DEF u
<1>5. Stocked(u, a, crashed, edited)
  BY <1>3, StockedStays
<1>. QED
  BY <1>1, <1>4, <1>5

\* A step of one device leaves the store of the other one.
LEMMA StepStocked ==
    ASSUME StoreInv, Typed, NEW d \in Device,
           link'[d] # "secured", link'[Other(d)] = link[Other(d)],
           attempt' = attempt, ~Crashed' => ~Crashed, ~Edited' => ~Edited,
           side'[Other(d)] = side[Other(d)], Stocked(side'[d], attempt, Crashed', Edited')
    PROVE  StoreInv'
<1>1. Other(d) \in Device /\ \A x \in Device : x = d \/ x = Other(d)
  BY TwoDevices
<1>2. attempt \in Int
  BY DEF Typed, TypeOK, Request
<1>3. StoreSound(d)'
  BY DEF StoreSound
<1>4. StoreSound(Other(d))'
  <2>1. StoreSound(Other(d))
    BY <1>1 DEF StoreInv
  <2>2. Stock(side[Other(d)], attempt, Crashed', Edited')
    BY <1>2, <2>1, StockGrows DEF StoreSound, Stocked
  <2>3. link[Other(d)] = "secured" => Stock(side[Other(d)], attempt - 1, Crashed', Edited')
    BY <1>2, <2>1, StockGrows DEF StoreSound
  <2>. QED
    BY <2>1, <2>2, <2>3 DEF StoreSound, Stocked
<1>. QED
  BY <1>1, <1>3, <1>4 DEF StoreInv

\* A message of the attempt.
LEMMA ReceiveStocked ==
    ASSUME StoreInv, IInv, Typed, NEW d \in Device, Receive(d)
    PROVE  StoreInv'
<1>1. PICK bad \in Failures : Run(d, HandleMessage(side[d], Head(channel[d]), bad), Tail(channel[d]))
  BY DEF Receive
<1>. DEFINE m == Head(channel[d])
            t == HandleMessage(side[d], m, bad)
<1>2. /\ link[d] = "open" /\ channel[d] # <<>> /\ m.kind # "Access"
      /\ UNCHANGED <<link, attempt, crashes, edits>>
  BY DEF Receive
<1>3. channel[d] \in Seq(Message)
  BY SidesAreHandled
<1>4. m \in Message /\ m = channel[d][1] /\ 1 \in DOMAIN channel[d]
  BY <1>2, <1>3
<1>. HIDE DEF m
<1>5. Stocked(side[d], attempt, Crashed, Edited) /\ SideSound(d) /\ ChannelSound(d)
  BY DEF StoreInv, StoreSound, IInv
<1>6. attempt \in 1 .. MaxAttempt
  BY <1>2, <1>5, BoundsAssumption DEF SideSound, Typed, TypeOK, Request
<1>7. ASSUME side[d].flow.active, m.kind = "Hello"
      PROVE  m.request = attempt /\ "localPrepared" \notin side[d].flow.progress
  <2>1. HelloFirst(d) /\ Active(d)
    BY <1>2, <1>4, <1>7 DEF HelloFirst, Active
  <2>2. ~Heard(d)
    BY <1>5, <2>1 DEF ChannelSound
  <2>3. InOrder(side[d], Behind(d))
    BY <1>5, <2>1 DEF SideSound
  <2>4. "localPrepared" \notin side[d].flow.progress
    BY <2>2, <2>3 DEF Heard, InOrder
  <2>. QED
    BY <1>4, <1>5, <2>4 DEF ChannelSound
<1>8. Stocked(t, attempt, Crashed, Edited)
  BY <1>2, <1>4, <1>5, <1>6, <1>7, HandleMessageStocked
<1>. HIDE DEF t
<1>9. t \in Handling
  BY <1>8 DEF Stocked, Stock
<1>10. Run(d, t, Tail(channel[d]))
  BY <1>1 DEF t, m
<1>11. Stocked(side'[d], attempt, Crashed, Edited) /\ side'[Other(d)] = side[Other(d)]
  BY <1>8, <1>9, <1>10, RunStocked
<1>. QED
  BY <1>2, <1>11, StepStocked DEF Crashed, Edited

LEMMA ReceiveAccessStocked ==
    ASSUME StoreInv, Typed, NEW d \in Device, ReceiveAccess(d)
    PROVE  StoreInv'
<1>1. PICK answer \in {"accepted", "asked", "denied"} :
         Run(d, HandleAccess(side[d], Head(channel[d]), answer), Tail(channel[d]))
  BY DEF ReceiveAccess
<1>. DEFINE s == side[d]
            t == HandleAccess(s, Head(channel[d]), answer)
<1>2. link[d] = "open" /\ UNCHANGED <<link, attempt, crashes, edits>>
  BY DEF ReceiveAccess
<1>3. Stocked(s, attempt, Crashed, Edited) /\ s \in Handling /\ s.flow \in Flow
  BY SidesAreHandled DEF StoreInv, StoreSound
<1>. HIDE DEF s
<1>4. ASSUME NEW x \in {"accepted", "asked", "denied"}
      PROVE  Stocked([s EXCEPT !.flow.access = x], attempt, Crashed, Edited)
  <2>. DEFINE u == [s EXCEPT !.flow.access = x]
  <2>1. /\ u \in Handling /\ u.flow.progress = s.flow.progress
        /\ u.flow.request = s.flow.request /\ u.flow.active = s.flow.active
        /\ u.flow.authenticated = s.flow.authenticated
        /\ u.flow.trusted = s.flow.trusted
        /\ u.devices = s.devices /\ u.transaction = s.transaction
        /\ u.stored = s.stored /\ u.before = s.before /\ u.faults = s.faults
    BY <1>3 DEF Flow, Handling
  <2>. HIDE DEF u
  <2>2. Stocked(u, attempt, Crashed, Edited)
    BY <1>3, <2>1, StockedStays
  <2>. QED
    BY <2>2 DEF u
<1>5. Stocked(t, attempt, Crashed, Edited)
  BY <1>3, <1>4 DEF HandleAccess
<1>. HIDE DEF t
<1>6. t \in Handling
  BY <1>5 DEF Stocked, Stock
<1>7. Run(d, t, Tail(channel[d]))
  BY <1>1 DEF t, s
<1>8. Stocked(side'[d], attempt, Crashed, Edited) /\ side'[Other(d)] = side[Other(d)]
  BY <1>5, <1>6, <1>7, RunStocked
<1>. QED
  BY <1>2, <1>8, StepStocked DEF Crashed, Edited

\* The user answers, gives up, or the timer expires.
LEMMA AcceptStocked ==
    ASSUME StoreInv, IInv, Typed, NEW d \in Device, NEW granted \in Grant, Accept(d, granted)
    PROVE  StoreInv'
<1>. DEFINE s == side[d]
            answered == [s EXCEPT !.flow.prompt = FALSE]
            scopes == IF s.flow.outgoing THEN Scope ELSE granted
<1>1. /\ s.flow.active /\ s.flow.prompt /\ UNCHANGED <<link, attempt, crashes, edits>>
      /\ \E bad \in Failures :
            \/ Run(d, SendDecision(answered, scopes, bad), channel[d])
            \/ Run(d, Fail(answered, TRUE, bad), channel[d])
  BY DEF Accept
<1>2. /\ Stocked(s, attempt, Crashed, Edited) /\ s \in Handling /\ s.flow \in Flow
      /\ SideSound(d) /\ scopes \in SUBSET Scope
  BY SidesAreHandled, ScopesAssumption DEF StoreInv, StoreSound, IInv
<1>3. s.flow.request = attempt /\ link[d] = "open" /\ attempt # 0
  BY <1>1, <1>2 DEF SideSound, Active, InOrder, Behind
<1>4. attempt \in 1 .. MaxAttempt
  BY <1>3, BoundsAssumption DEF Typed, TypeOK, Request
<1>. HIDE DEF s, scopes
<1>5. /\ answered \in Handling /\ answered.flow.progress = s.flow.progress
      /\ answered.flow.request = s.flow.request /\ answered.flow.active = s.flow.active
      /\ answered.flow.authenticated = s.flow.authenticated
      /\ answered.flow.trusted = s.flow.trusted
      /\ answered.devices = s.devices /\ answered.transaction = s.transaction
      /\ answered.stored = s.stored /\ answered.before = s.before
      /\ answered.faults = s.faults
  BY <1>2 DEF Flow, Handling
<1>. HIDE DEF answered
<1>6. Stocked(answered, attempt, Crashed, Edited)
  BY <1>2, <1>5, StockedStays
<1>7. PICK bad \in Failures :
         \/ Run(d, SendDecision(answered, scopes, bad), channel[d])
         \/ Run(d, Fail(answered, TRUE, bad), channel[d])
  BY <1>1 DEF s, answered
<1>8. /\ Stocked(SendDecision(answered, scopes, bad), attempt, Crashed, Edited)
      /\ Stocked(Fail(answered, TRUE, bad), attempt, Crashed, Edited)
  <2>1. answered.flow.active /\ answered.flow.request = attempt
    BY <1>1, <1>3, <1>5
  <2>. QED
    BY <1>2, <1>4, <1>6, <2>1, SendDecisionStocked, FailStocked DEF Stocked
<1>9. Stocked(side'[d], attempt, Crashed, Edited) /\ side'[Other(d)] = side[Other(d)]
  BY <1>7, <1>8, RunStocked DEF Stocked, Stock
<1>. QED
  BY <1>1, <1>3, <1>9, StepStocked DEF Crashed, Edited

LEMMA AbandonStocked ==
    ASSUME StoreInv, IInv, Typed, NEW d \in Device, Abandon(d)
    PROVE  StoreInv'
<1>1. PICK bad \in Failures : Run(d, Fail(side[d], TRUE, bad), channel[d])
  BY DEF Abandon
<1>2. side[d].flow.active /\ UNCHANGED <<link, attempt, crashes, edits>>
  BY DEF Abandon
<1>3. Stocked(side[d], attempt, Crashed, Edited) /\ link[d] = "open"
  BY <1>2 DEF StoreInv, StoreSound, IInv, SideSound, Active
<1>4. Stocked(Fail(side[d], TRUE, bad), attempt, Crashed, Edited)
  BY <1>3, FailStocked DEF Stocked
<1>5. Stocked(side'[d], attempt, Crashed, Edited) /\ side'[Other(d)] = side[Other(d)]
  BY <1>1, <1>4, RunStocked DEF Stocked, Stock
<1>. QED
  BY <1>2, <1>3, <1>5, StepStocked DEF Crashed, Edited

\* The connection is lost.
LEMMA LoseStocked ==
    ASSUME StoreInv, Typed, NEW d \in Device, Lose(d)
    PROVE  StoreInv'
<1>1. PICK bad \in Failures :
         Run(d, IF side[d].flow.active THEN Clear(side[d], bad) ELSE side[d], <<>>)
  BY DEF Lose
<1>2. link' = [link EXCEPT ![d] = "down"] /\ UNCHANGED <<attempt, crashes, edits>>
  BY DEF Lose
<1>3. Stocked(side[d], attempt, Crashed, Edited)
  BY DEF StoreInv, StoreSound
<1>4. Stocked(Clear(side[d], bad), attempt, Crashed, Edited)
  BY <1>3, ClearStocked DEF Stocked
<1>5. Stocked(side'[d], attempt, Crashed, Edited) /\ side'[Other(d)] = side[Other(d)]
  <2>. DEFINE t == IF side[d].flow.active THEN Clear(side[d], bad) ELSE side[d]
  <2>1. Stocked(t, attempt, Crashed, Edited) /\ Run(d, t, <<>>)
    BY <1>1, <1>3, <1>4
  <2>. HIDE DEF t
  <2>. QED
    BY <2>1, RunStocked DEF Stocked, Stock
<1>6. link'[d] = "down" /\ link'[Other(d)] = link[Other(d)]
  BY <1>2, TwoDevices DEF Typed, TypeOK
<1>. QED
  BY <1>2, <1>5, <1>6, StepStocked DEF Crashed, Edited

\* The process starts again with what the disk holds.
LEMMA CrashStocked ==
    ASSUME StoreInv, Typed, NEW d \in Device, Crash(d)
    PROVE  StoreInv'
<1>. DEFINE s == side[d]
            t == [NewSide EXCEPT !.stored = s.stored, !.faults = s.faults]
<1>1. /\ link' = [link EXCEPT ![d] = "down"] /\ UNCHANGED <<attempt, edits>>
      /\ crashes' = crashes + 1 /\ Run(d, t, <<>>)
  BY DEF Crash
<1>2. Crashed'
  BY <1>1 DEF Crashed, Typed, TypeOK
<1>3. Stocked(s, attempt, Crashed, Edited) /\ s \in Handling
  BY SidesAreHandled DEF StoreInv, StoreSound
<1>4. /\ t \in Handling /\ t.stored = s.stored /\ t.devices = {} /\ t.before = {}
      /\ t.transaction = 0 /\ t.flow = IdleFlow
  <2>1. IdleFlow \in Flow /\ 0 \in Request /\ <<>> \in Seq(Message)
    BY AttemptsAreCounted DEF IdleFlow, Flow
  <2>. QED
    BY <1>3, <2>1 DEF NewSide, Handling
<1>. HIDE DEF t
<1>5. Stock(t, attempt, Crashed', Edited')
  <2>1. \A r \in t.stored \cup t.devices \cup t.before : r.id <= attempt
    BY <1>3, <1>4 DEF Stocked, Stock
  <2>2. Loadable(t.stored)
    BY <1>3, <1>4 DEF Stocked, Stock
  <2>3. Settled({})
    BY DEF Settled
  <2>. QED
    BY <1>2, <1>4, <2>1, <2>2, <2>3 DEF Stock
<1>6. InStep(t, attempt)
  BY <1>4 DEF InStep, IdleFlow
<1>7. Stocked(side'[d], attempt, Crashed', Edited') /\ side'[Other(d)] = side[Other(d)]
  BY <1>1, <1>4, <1>5, <1>6, RunStocked DEF Stocked
<1>8. link'[d] = "down" /\ link'[Other(d)] = link[Other(d)]
  BY <1>1, TwoDevices DEF Typed, TypeOK
<1>9. ~Edited' => ~Edited
  BY <1>1 DEF Edited
<1>. QED
  BY <1>1, <1>2, <1>7, <1>8, <1>9, StepStocked

\* An attempt that is refused at once.
LEMMA BeginRefusedStocked ==
    ASSUME StoreInv, Typed, NEW d \in Device, BeginRefused(d)
    PROVE  StoreInv'
<1>. DEFINE u == Clear(side[d], {})
<1>1. /\ Run(d, Fault(u), channel[d])
      /\ link' = [link EXCEPT ![d] = "open"] /\ UNCHANGED <<attempt, crashes, edits>>
  BY DEF BeginRefused
<1>2. Stocked(u, attempt, Crashed, Edited) /\ u.flow = IdleFlow
  BY ClearStocked DEF StoreInv, StoreSound, Stocked
<1>. HIDE DEF u
<1>3. u \in Handling
  BY <1>2 DEF Stocked, Stock
<1>4. Stocked(Fault(u), attempt, Crashed, Edited) /\ Fault(u) \in Handling
  <2>1. Stock(Fault(u), attempt, Crashed, Edited) /\ Fault(u).flow = IdleFlow
    BY <1>2, <1>3, SaveStock, FaultCounts DEF Stocked
  <2>2. InStep(Fault(u), attempt)
    BY <2>1 DEF InStep, IdleFlow
  <2>. QED
    BY <2>1, <2>2 DEF Stocked, Stock
<1>5. Stocked(side'[d], attempt, Crashed, Edited) /\ side'[Other(d)] = side[Other(d)]
  BY <1>1, <1>4, RunStocked
<1>6. link'[d] = "open" /\ link'[Other(d)] = link[Other(d)]
  BY <1>1, TwoDevices DEF Typed, TypeOK
<1>. QED
  BY <1>1, <1>5, <1>6, StepStocked DEF Crashed, Edited

\* What a load keeps is settled.
LEMMA LoadStock ==
    ASSUME NEW s, NEW a, NEW crashed, NEW edited, Stock(s, a, crashed, edited)
    PROVE  /\ Stock(Load(s), a, crashed, edited)
           /\ Load(s).transaction = 0 /\ Load(s).flow = s.flow
<1>. DEFINE records == Recovered(s.stored)
            t == Load(s)
<1>1. s \in Handling /\ s.stored \in SUBSET TrustRecord
  BY DEF Stock, Handling
<1>2. records \subseteq s.stored /\ Settled(records)
  <2>1. records \subseteq Mutuals(s.stored)
    <3>1. Mutuals(s.stored) \in SUBSET TrustRecord
      BY <1>1 DEF Mutuals
    <3>. QED
      BY <3>1, OldestExists DEF Recovered
  <2>2. \A r, q \in records : r = q
    BY DEF Recovered
  <2>. QED
    BY <2>1, <2>2 DEF Mutuals, Settled
<1>. HIDE DEF records
<1>3. /\ t \in Handling /\ t.stored = records /\ t.devices = records /\ t.before = {}
      /\ t.transaction = 0 /\ t.flow = s.flow
  BY <1>1, <1>2, AttemptsAreCounted DEF Load, ClearTransaction, Save, Handling, records
<1>. HIDE DEF t
<1>4. \A r \in records : r.id <= a
  BY <1>2 DEF Stock
<1>5. Loadable(records) /\ SameShape(records, records) /\ Settled({})
  BY <1>2 DEF Stock, Loadable, SameShape, Settled
<1>6. Stock(t, a, crashed, edited)
  BY <1>2, <1>3, <1>4, <1>5 DEF Stock
<1>. QED
  BY <1>3, <1>6 DEF t

LEMMA BeginStocked ==
    ASSUME StoreInv, IInv, Typed, NEW d \in Device, Begin(d)
    PROVE  StoreInv'
<1>. DEFINE u == Clear(side[d], {})
            loaded == Load(u)
            begun == [loaded EXCEPT !.flow.active = TRUE]
            first == [begun EXCEPT !.flow.outgoing = TRUE, !.flow.request = attempt]
            t == IF initiator = d THEN SendHello(first) ELSE begun
<1>1. /\ link[d] = "secured" /\ link' = [link EXCEPT ![d] = "open"]
      /\ UNCHANGED <<attempt, crashes, edits>>
      /\ Run(d, t, channel[d])
  BY DEF Begin
<1>2. attempt \in 1 .. MaxAttempt /\ attempt - 1 \in Int /\ attempt \in Int
  <2>1. attempt # 0 /\ attempt \in Request
    BY <1>1 DEF IInv, SideSound, Typed, TypeOK
  <2>. QED
    BY <2>1, BoundsAssumption DEF Request
<1>3. Stock(u, attempt - 1, Crashed, Edited) /\ u.flow = IdleFlow
  BY <1>1, ClearStocked DEF StoreInv, StoreSound, Stocked
<1>. HIDE DEF u
<1>4. /\ Stock(loaded, attempt - 1, Crashed, Edited) /\ loaded.flow = IdleFlow
      /\ loaded.transaction = 0
  BY <1>3, LoadStock
<1>. HIDE DEF loaded
<1>5. /\ Stock(loaded, attempt, Crashed, Edited) /\ loaded \in Handling
      /\ \A r \in loaded.devices : r.id # attempt
  <2>1. Stock(loaded, attempt, Crashed, Edited) /\ loaded \in Handling
    <3>1. attempt - 1 <= attempt
      BY <1>2
    <3>2. Stock(loaded, attempt, Crashed, Edited)
      BY <1>2, <1>4, <3>1, StockGrows
    <3>. QED
      BY <3>2 DEF Stock
  <2>2. ASSUME NEW r \in loaded.devices PROVE r.id # attempt
    <3>1. r.id <= attempt - 1
      BY <1>4 DEF Stock
    <3>. QED
      BY <1>2, <3>1
  <2>. QED
    BY <2>1, <2>2
<1>6. /\ begun \in Handling /\ begun.stored = loaded.stored
      /\ begun.devices = loaded.devices /\ begun.before = loaded.before
      /\ begun.transaction = 0 /\ begun.faults = loaded.faults
      /\ begun.flow = [IdleFlow EXCEPT !.active = TRUE]
  <2>1. loaded.flow \in Flow
    BY <1>5 DEF Handling
  <2>. QED
    BY <1>4, <1>5, <2>1 DEF Handling, Flow
<1>. HIDE DEF begun
<1>7. begun.flow.progress = {} /\ begun.flow.active /\ begun.flow \in Flow
  BY <1>6 DEF IdleFlow, Handling
<1>8. Stocked(begun, attempt, Crashed, Edited)
  <2>1. Stock(begun, attempt, Crashed, Edited)
    BY <1>4, <1>5, <1>6, StockStays
  <2>2. InStep(begun, attempt)
    BY <1>5, <1>6, <1>7 DEF InStep
  <2>. QED
    BY <2>1, <2>2 DEF Stocked
<1>9. Stocked(SendHello(first), attempt, Crashed, Edited)
  <2>1. attempt \in Request
    BY <1>2, BoundsAssumption DEF Request
  <2>2. /\ first \in Handling /\ first.stored = begun.stored
        /\ first.devices = begun.devices /\ first.before = begun.before
        /\ first.transaction = 0 /\ first.faults = begun.faults
        /\ first.flow.progress = {} /\ first.flow.active /\ first.flow.request = attempt
    BY <1>6, <1>7, <2>1 DEF Handling, Flow
  <2>. HIDE DEF first
  <2>3. Stock(first, attempt, Crashed, Edited)
    BY <1>6, <1>8, <2>2, StockStays DEF Stocked
  <2>4. InStep(first, attempt)
    BY <1>5, <1>6, <2>2 DEF InStep
  <2>. QED
    BY <1>2, <2>2, <2>3, <2>4, SendHelloStocked DEF Stocked
<1>10. Stocked(t, attempt, Crashed, Edited) /\ t \in Handling
  <2>1. Stocked(t, attempt, Crashed, Edited)
    BY <1>8, <1>9
  <2>. QED
    BY <2>1 DEF Stocked, Stock
<1>. HIDE DEF t
<1>11. Stocked(side'[d], attempt, Crashed, Edited) /\ side'[Other(d)] = side[Other(d)]
  BY <1>1, <1>10, RunStocked
<1>12. link'[d] = "open" /\ link'[Other(d)] = link[Other(d)]
  BY <1>1, TwoDevices DEF Typed, TypeOK
<1>. QED
  BY <1>1, <1>11, <1>12, StepStocked DEF Crashed, Edited

\* A new connection has a new identifier.
LEMMA ConnectStocked ==
    ASSUME StoreInv, IInv, Typed, NEW d \in Device, Connect(d)
    PROVE  StoreInv'
<1>1. /\ \A e \in Device : link[e] = "down"
      /\ attempt' = attempt + 1 /\ UNCHANGED <<side, crashes, edits>>
  BY DEF Connect
<1>2. attempt \in Int /\ attempt' \in Int /\ attempt' - 1 = attempt /\ attempt <= attempt'
  BY <1>1 DEF Typed, TypeOK, Request
<1>. SUFFICES ASSUME NEW e \in Device PROVE StoreSound(e)'
  BY DEF StoreInv
<1>3. Stocked(side[e], attempt, Crashed, Edited) /\ ~side[e].flow.active
  BY <1>1 DEF StoreInv, StoreSound, IInv, SideSound, Active
<1>4. Stock(side[e], attempt', Crashed, Edited)
  BY <1>2, <1>3, StockGrows DEF Stocked
<1>5. InStep(side[e], attempt')
  BY <1>3 DEF Stocked, InStep
<1>6. Stock(side[e], attempt' - 1, Crashed, Edited)
  BY <1>2, <1>3 DEF Stocked
<1>7. side'[e] = side[e] /\ Crashed' = Crashed /\ Edited' = Edited
  BY <1>1 DEF Crashed, Edited
<1>. QED
  BY <1>4, <1>5, <1>6, <1>7 DEF StoreSound, Stocked

\* A command of the list changes the records it keeps, not their number.
LEMMA EditStock ==
    ASSUME NEW s, NEW a, NEW crashed, NEW edited, Stock(s, a, crashed, edited),
           NEW records \in SUBSET TrustRecord, SameShape(records, s.stored),
           \A r, q \in records : r.id = q.id => r = q,
           NEW t \in Handling, t.stored = records, t.devices = s.devices,
           t.before = s.before, t.transaction = s.transaction, t.faults = s.faults
    PROVE  Stock(t, a, crashed, TRUE)
<1>1. Loadable(records)
  <2>1. ASSUME NEW r \in records, NEW q \in records,
               r.commitState = "Pending", q.commitState = "Pending"
        PROVE  r = q
    <3>1. PICK x \in s.stored : r.id = x.id /\ r.commitState = x.commitState
      BY DEF SameShape
    <3>2. PICK y \in s.stored : q.id = y.id /\ q.commitState = y.commitState
      BY DEF SameShape
    <3>3. x = y
      BY <2>1, <3>1, <3>2 DEF Stock, Loadable
    <3>. QED
      BY <3>1, <3>2, <3>3
  <2>2. PICK i \in Nat, j \in Nat : \A r \in s.stored : r.commitState = "Mutual" => r.id \in {i, j}
    BY DEF Stock, Loadable
  <2>3. \A r \in records : r.commitState = "Mutual" => r.id \in {i, j}
    BY <2>2 DEF SameShape
  <2>. QED
    BY <2>1, <2>3 DEF Loadable
<1>2. \A r \in t.stored \cup t.devices \cup t.before : r.id <= a
  <2>1. \A r \in records : r.id <= a
    BY DEF SameShape, Stock
  <2>. QED
    BY <2>1 DEF Stock
<1>3. ~crashed /\ t.faults = 0 => SameShape(t.stored, t.devices)
  BY DEF Stock, SameShape
<1>4. t.transaction # 0 => \E n \in TrustRecord : IsNew(n, t)
  BY DEF Stock, IsNew
<1>. QED
  BY <1>1, <1>2, <1>3, <1>4 DEF Stock

LEMMA EditStocked ==
    ASSUME StoreInv, Typed, NEW d \in Device, NEW records \in SUBSET TrustRecord,
           Edit(d, records), SameShape(records, side[d].stored),
           \A r, q \in records : r.id = q.id => r = q
    PROVE  StoreInv'
<1>. DEFINE s == side[d]
            t == [s EXCEPT !.stored = records]
<1>1. /\ edits' = edits + 1 /\ UNCHANGED <<link, attempt, crashes>>
      /\ side' = [side EXCEPT ![d] = t]
  BY DEF Edit
<1>2. Edited' <=> TRUE
  BY <1>1 DEF Edited, Typed, TypeOK
<1>3. /\ s \in Handling /\ attempt \in Int /\ Other(d) \in Device /\ Other(d) # d
      /\ \A x \in Device : x = d \/ x = Other(d)
  BY SidesAreHandled, TwoDevices DEF Request
<1>4. /\ Stocked(s, attempt, Crashed, Edited)
      /\ link[d] = "secured" => Stock(s, attempt - 1, Crashed, Edited)
  BY DEF StoreInv, StoreSound
<1>5. side'[d] = t /\ side'[Other(d)] = side[Other(d)]
  BY <1>1, <1>3 DEF Typed, TypeOK
<1>6. SameShape(records, s.stored)
  OBVIOUS
<1>. HIDE DEF s
<1>7. /\ t \in Handling /\ t.stored = records /\ t.devices = s.devices /\ t.before = s.before
      /\ t.transaction = s.transaction /\ t.faults = s.faults /\ t.flow = s.flow
  BY <1>3 DEF Handling
<1>. HIDE DEF t
<1>8. Stock(t, attempt, Crashed, TRUE) /\ InStep(t, attempt)
  <2>1. Stock(t, attempt, Crashed, TRUE)
    BY <1>4, <1>6, <1>7, EditStock DEF Stocked
  <2>. QED
    BY <2>1, <1>4, <1>7 DEF Stocked, InStep
<1>9. link[d] = "secured" => Stock(t, attempt - 1, Crashed, TRUE)
  BY <1>4, <1>6, <1>7, EditStock
<1>10. link' = link /\ attempt' = attempt /\ (Crashed' <=> Crashed)
  BY <1>1 DEF Crashed
<1>11. StoreSound(d)'
  BY <1>2, <1>5, <1>8, <1>9, <1>10 DEF StoreSound, Stocked, Stock
<1>12. StoreSound(Other(d))'
  <2>1. StoreSound(Other(d))
    BY <1>3 DEF StoreInv
  <2>. QED
    BY <1>2, <1>5, <1>10, <2>1 DEF StoreSound, Stocked, Stock
<1>. QED
  BY <1>3, <1>11, <1>12 DEF StoreInv

LEMMA ListStocked ==
    ASSUME StoreInv, Typed, NEW d \in Device,
           Revoke(d) \/ RePair(d) \/ (\E limit \in Grant : UpdateLimit(d, limit))
    PROVE  StoreInv'
<1>. DEFINE stored == side[d].stored
<1>1. stored \in SUBSET TrustRecord
  BY SidesAreHandled
<1>2. \A r, q \in stored : r.id = q.id => r = q
  BY DEF StoreInv, StoreSound, Stocked, Stock, Loadable
<1>3. CASE Revoke(d)
  <2>. DEFINE records == {[r EXCEPT !.revoked = TRUE] : r \in stored}
  <2>1. Edit(d, records)
    BY <1>3 DEF Revoke
  <2>2. records \in SUBSET TrustRecord
    BY <1>1 DEF TrustRecord
  <2>3. SameShape(records, stored)
    BY <1>1 DEF SameShape, TrustRecord
  <2>4. ASSUME NEW r \in records, NEW q \in records, r.id = q.id PROVE r = q
    <3>1. PICK x \in stored : r = [x EXCEPT !.revoked = TRUE]
      OBVIOUS
    <3>2. PICK y \in stored : q = [y EXCEPT !.revoked = TRUE]
      OBVIOUS
    <3>3. r.id = x.id /\ q.id = y.id
      BY <1>1, <3>1, <3>2 DEF TrustRecord
    <3>. QED
      BY <1>2, <2>4, <3>1, <3>2, <3>3
  <2>. HIDE DEF records
  <2>. QED
    BY <2>1, <2>2, <2>3, <2>4, EditStocked
<1>4. CASE RePair(d)
  <2>1. Edit(d, {}) /\ SameShape({}, stored)
    BY <1>4 DEF RePair, SameShape
  <2>. QED
    BY <2>1, EditStocked
<1>5. ASSUME NEW limit \in Grant, UpdateLimit(d, limit) PROVE StoreInv'
  <2>1. PICK r \in stored :
           Edit(d, (stored \ {r}) \cup {[r EXCEPT !.limit = limit \cup {ViewScreen}]})
    BY <1>5 DEF UpdateLimit
  <2>. DEFINE n == [r EXCEPT !.limit = limit \cup {ViewScreen}]
              records == (stored \ {r}) \cup {n}
  <2>2. limit \cup {ViewScreen} \in SUBSET Scope
    BY ScopesAssumption
  <2>3. n \in TrustRecord /\ n.id = r.id /\ n.commitState = r.commitState
    BY <1>1, <2>2 DEF TrustRecord
  <2>4. Edit(d, records)
    BY <2>1
  <2>. HIDE DEF n
  <2>5. records \in SUBSET TrustRecord /\ SameShape(records, stored)
    BY <1>1, <2>3 DEF SameShape
  <2>6. \A q, x \in records : q.id = x.id => q = x
    BY <1>2, <2>3
  <2>. QED
    BY <2>4, <2>5, <2>6, EditStocked
<1>. QED
  BY <1>3, <1>4, <1>5

LEMMA InitStocked == Init => StoreInv
<1>. SUFFICES ASSUME Init, NEW d \in Device PROVE StoreSound(d)
  BY DEF StoreInv
<1>1. side[d] = NewSide /\ link[d] = "down"
  BY DEF Init
<1>2. side[d] \in Handling
  BY InitSound, SidesAreHandled
<1>3. Stock(side[d], attempt, Crashed, Edited)
  BY <1>1, <1>2 DEF Stock, NewSide, Settled, Loadable, SameShape
<1>4. InStep(side[d], attempt)
  BY <1>1 DEF InStep, NewSide, IdleFlow
<1>. QED
  BY <1>1, <1>3, <1>4 DEF StoreSound, Stocked

LEMMA NextStocked == StoreInv /\ IInv /\ Typed /\ [Next]_vars => StoreInv'
<1>. SUFFICES ASSUME StoreInv, IInv, Typed, [Next]_vars PROVE StoreInv'
  OBVIOUS
<1>1. ASSUME NEW d \in Device, Connect(d) PROVE StoreInv'
  BY <1>1, ConnectStocked
<1>2. ASSUME NEW d \in Device, Begin(d) PROVE StoreInv'
  BY <1>2, BeginStocked
<1>3. ASSUME NEW d \in Device, BeginRefused(d) PROVE StoreInv'
  BY <1>3, BeginRefusedStocked
<1>4. ASSUME NEW d \in Device, Receive(d) PROVE StoreInv'
  BY <1>4, ReceiveStocked
<1>5. ASSUME NEW d \in Device, ReceiveAccess(d) PROVE StoreInv'
  BY <1>5, ReceiveAccessStocked
<1>6. ASSUME NEW d \in Device, NEW granted \in Grant, Accept(d, granted) PROVE StoreInv'
  BY <1>6, AcceptStocked
<1>7. ASSUME NEW d \in Device, Abandon(d) PROVE StoreInv'
  BY <1>7, AbandonStocked
<1>8. ASSUME NEW d \in Device, Lose(d) PROVE StoreInv'
  BY <1>8, LoseStocked
<1>9. ASSUME NEW d \in Device, Crash(d) PROVE StoreInv'
  BY <1>9, CrashStocked
<1>10. ASSUME NEW d \in Device,
              Revoke(d) \/ RePair(d) \/ (\E limit \in Grant : UpdateLimit(d, limit))
       PROVE  StoreInv'
  BY <1>10, ListStocked
<1>11. ASSUME UNCHANGED vars PROVE StoreInv'
  BY <1>11 DEF vars, StoreInv, StoreSound, Crashed, Edited
<1>. QED
  BY <1>1, <1>2, <1>3, <1>4, <1>5, <1>6, <1>7, <1>8, <1>9, <1>10, <1>11 DEF Next

\* A set whose elements are all the same.
LEMMA AtMostOne ==
    ASSUME NEW S, \A x, y \in S : x = y
    PROVE  IsFiniteSet(S) /\ Cardinality(S) \in {0, 1}
<1>1. CASE S = {}
  BY <1>1, FS_EmptySet
<1>2. CASE S # {}
  <2>1. PICK x : x \in S
    BY <1>2
  <2>2. S = {x}
    BY <2>1
  <2>. QED
    BY <2>2, FS_Singleton
<1>. QED
  BY <1>1, <1>2

\* The disk always holds what a device would go back to, a file that can be
\* loaded, and nothing to repair but after a crash or a failed save.
THEOREM StoreCorrect == Spec => []StoreIsSound
<1>1. StoreInv /\ Typed => StoreIsSound
  <2>. SUFFICES ASSUME StoreInv, Typed PROVE StoreIsSound
    OBVIOUS
  <2>1. \A d \in Device : Stock(side[d], attempt, Crashed, Edited) /\ side[d] \in Handling
    BY DEF StoreInv, StoreSound, Stocked, Stock
  <2>2. RollbackPointStaysOnDisk
    BY <2>1 DEF RollbackPointStaysOnDisk, Stock, Edited, HasTransaction, Mutuals
  <2>3. StoreStaysLoadable
    <3>. SUFFICES ASSUME NEW d \in Device
                  PROVE  /\ Cardinality(Mutuals(side[d].stored)) <= 2
                         /\ Cardinality(side[d].stored \ Mutuals(side[d].stored)) <= 1
                         /\ \A r, q \in side[d].stored : r.id = q.id => r = q
      BY DEF StoreStaysLoadable
    <3>. DEFINE stored == side[d].stored
    <3>1. Loadable(stored) /\ stored \in SUBSET TrustRecord
      BY <2>1 DEF Stock, Handling
    <3>. HIDE DEF stored
    <3>2. PICK i \in Nat, j \in Nat : \A r \in stored : r.commitState = "Mutual" => r.id \in {i, j}
      BY <3>1 DEF Loadable
    <3>. DEFINE X == {r \in Mutuals(stored) : r.id = i}
                Y == {r \in Mutuals(stored) : r.id = j}
                Z == stored \ Mutuals(stored)
    <3>3. IsFiniteSet(X) /\ Cardinality(X) \in {0, 1}
      <4>1. \A x, y \in X : x = y
        BY <3>1 DEF Loadable, Mutuals
      <4>. HIDE DEF X
      <4>. QED
        BY <4>1, AtMostOne
    <3>4. IsFiniteSet(Y) /\ Cardinality(Y) \in {0, 1}
      <4>1. \A x, y \in Y : x = y
        BY <3>1 DEF Loadable, Mutuals
      <4>. HIDE DEF Y
      <4>. QED
        BY <4>1, AtMostOne
    <3>5. Cardinality(Z) \in {0, 1}
      <4>1. \A x, y \in Z : x = y
        BY <3>1 DEF Loadable, Mutuals, TrustRecord
      <4>. HIDE DEF Z
      <4>. QED
        BY <4>1, AtMostOne
    <3>6. Mutuals(stored) = X \cup Y
      BY <3>2 DEF Mutuals
    <3>. HIDE DEF X, Y, Z
    <3>7. Cardinality(X \cup Y) <= 2
      <4>1. Cardinality(X \cup Y) = Cardinality(X) + Cardinality(Y) - Cardinality(X \cap Y)
        BY <3>3, <3>4, FS_Union
      <4>2. Cardinality(X \cap Y) \in Nat
        BY <3>3, FS_Intersection, FS_CardinalityType
      <4>. QED
        BY <3>3, <3>4, <4>1, <4>2
    <3>8. Cardinality(Z) <= 1
      BY <3>5
    <3>. QED
      BY <3>1, <3>6, <3>7, <3>8 DEF Loadable, Z, stored
  <2>4. OnlyFailuresNeedRecovery
    <3>. SUFFICES ASSUME crashes = 0, NEW d \in Device, side[d].faults = 0, side[d].transaction = 0
                  PROVE  Recovered(side[d].stored) = side[d].stored
      BY DEF OnlyFailuresNeedRecovery
    <3>. DEFINE stored == side[d].stored
    <3>1. \A r, q \in stored : r.commitState = "Mutual" /\ r = q
      <4>1. /\ SameShape(stored, side[d].devices) /\ Settled(side[d].devices)
            /\ \A r, q \in stored : r.id = q.id => r = q
        BY <2>1 DEF Stock, Crashed, Loadable
      <4>. QED
        BY <4>1 DEF SameShape, Settled
    <3>2. stored \in SUBSET TrustRecord
      BY <2>1 DEF Handling
    <3>. HIDE DEF stored
    <3>3. Mutuals(stored) = stored
      BY <3>1 DEF Mutuals
    <3>4. Recovered(stored) = stored
      <4>1. CASE stored = {}
        BY <4>1, <3>3 DEF Recovered
      <4>2. CASE stored # {}
        <5>1. Oldest(stored) \in stored
          BY <3>2, <4>2, OldestExists
        <5>2. stored = {Oldest(stored)}
          BY <3>1, <5>1
        <5>. QED
          BY <3>3, <4>2, <5>2 DEF Recovered
      <4>. QED
        BY <4>1, <4>2
    <3>. QED
      BY <3>4 DEF stored
  <2>. QED
    BY <2>2, <2>3, <2>4 DEF StoreIsSound
<1>2. Init => StoreInv
  BY InitStocked
<1>3. StoreInv /\ (IInv /\ Typed) /\ [Next]_vars => StoreInv'
  BY NextStocked
<1>. QED
  BY <1>1, <1>2, <1>3, OrderCorrect, PTL DEF Spec

-----------------------------------------------------------------------------
(* What authentication means to both sides.                                 *)

\* One message more.
LEMMA AppendHolds ==
    ASSUME NEW q \in Seq(Message), NEW m \in Message, NEW r, r = Append(q, m)
    PROVE  /\ r \in Seq(Message)
           /\ \A i \in DOMAIN r : (i \in DOMAIN q /\ r[i] = q[i]) \/ (r[i] = m /\ i = Len(q) + 1)
           /\ \A i \in DOMAIN q : \A kind, scopes : Before(q, i, kind, scopes) => Before(r, i, kind, scopes)
           /\ \A kind, scopes : Holds(q, kind, scopes) =>
                                  Before(r, Len(q) + 1, kind, scopes) /\ Holds(r, kind, scopes)
           /\ Holds(r, m.kind, {m.scopes})
<1>1. /\ r \in Seq(Message) /\ Len(q) \in Nat /\ Len(r) = Len(q) + 1
      /\ DOMAIN q = 1 .. Len(q) /\ DOMAIN r = 1 .. Len(r)
      /\ \A i \in DOMAIN q : r[i] = q[i]
      /\ r[Len(r)] = m
  OBVIOUS
<1>2. \A i \in DOMAIN r : (i \in DOMAIN q /\ r[i] = q[i]) \/ (r[i] = m /\ i = Len(q) + 1)
  BY <1>1
<1>3. \A i \in DOMAIN q : i \in DOMAIN r /\ r[i] = q[i] /\ i < Len(q) + 1
  BY <1>1
<1>4. Len(q) + 1 \in DOMAIN r /\ r[Len(q) + 1] = m
  BY <1>1
<1>5. \A i \in DOMAIN q : \A kind, scopes : Before(q, i, kind, scopes) => Before(r, i, kind, scopes)
  BY <1>3 DEF Before
<1>6. \A kind, scopes : Holds(q, kind, scopes) =>
          Before(r, Len(q) + 1, kind, scopes) /\ Holds(r, kind, scopes)
  BY <1>3 DEF Holds, Before
<1>7. Holds(r, m.kind, {m.scopes})
  BY <1>4 DEF Holds
<1>. QED
  BY <1>1, <1>2, <1>5, <1>6, <1>7

\* The messages of a handler follow those on their way.
LEMMA JoinHolds ==
    ASSUME NEW q \in Seq(Message), NEW out \in Seq(Message), NEW r, r = q \o out
    PROVE  /\ r \in Seq(Message)
           /\ \A i \in DOMAIN r : \/ i \in DOMAIN q /\ r[i] = q[i]
                                  \/ i - Len(q) \in DOMAIN out /\ r[i] = out[i - Len(q)]
           /\ \A i \in DOMAIN q : \A kind, scopes : Before(q, i, kind, scopes) => Before(r, i, kind, scopes)
           /\ \A i \in DOMAIN out : \A kind, scopes :
                 Holds(q, kind, scopes) \/ Before(out, i, kind, scopes)
                     => Before(r, i + Len(q), kind, scopes)
           /\ \A kind, scopes : Holds(q, kind, scopes) \/ Holds(out, kind, scopes) =>
                                  Holds(r, kind, scopes)
<1>1. /\ r \in Seq(Message) /\ Len(q) \in Nat /\ Len(out) \in Nat /\ Len(r) = Len(q) + Len(out)
      /\ DOMAIN q = 1 .. Len(q) /\ DOMAIN out = 1 .. Len(out) /\ DOMAIN r = 1 .. Len(r)
      /\ \A i \in 1 .. Len(r) : r[i] = IF i <= Len(q) THEN q[i] ELSE out[i - Len(q)]
  OBVIOUS
<1>2. \A i \in DOMAIN r : \/ i \in DOMAIN q /\ r[i] = q[i]
                          \/ i - Len(q) \in DOMAIN out /\ r[i] = out[i - Len(q)]
  BY <1>1
<1>3. \A i \in DOMAIN q : i \in DOMAIN r /\ r[i] = q[i]
  BY <1>1
<1>4. \A i \in DOMAIN out : i + Len(q) \in DOMAIN r /\ r[i + Len(q)] = out[i]
  BY <1>1
<1>5. /\ \A i \in DOMAIN q, j \in DOMAIN out : i < j + Len(q)
      /\ \A i \in DOMAIN out, j \in DOMAIN out : i < j => i + Len(q) < j + Len(q)
  BY <1>1
<1>6. \A i \in DOMAIN q : \A kind, scopes : Before(q, i, kind, scopes) => Before(r, i, kind, scopes)
  BY <1>3 DEF Before
<1>7. ASSUME NEW i \in DOMAIN out, NEW kind, NEW scopes,
             Holds(q, kind, scopes) \/ Before(out, i, kind, scopes)
      PROVE  Before(r, i + Len(q), kind, scopes)
  <2>1. CASE Holds(q, kind, scopes)
    BY <1>3, <1>5, <2>1 DEF Holds, Before
  <2>2. CASE Before(out, i, kind, scopes)
    <3>1. PICK j \in DOMAIN out : j < i /\ out[j].kind = kind /\ out[j].scopes \in scopes
      BY <2>2 DEF Before
    <3>. QED
      BY <1>4, <1>5, <3>1 DEF Before
  <2>. QED
    BY <1>7, <2>1, <2>2
<1>8. ASSUME NEW kind, NEW scopes, Holds(q, kind, scopes) \/ Holds(out, kind, scopes)
      PROVE  Holds(r, kind, scopes)
  BY <1>3, <1>4, <1>8 DEF Holds
<1>. QED
  BY <1>1, <1>2, <1>6, <1>7, <1>8

\* The first message is received.
LEMMA TailHolds ==
    ASSUME NEW q \in Seq(Message), q # <<>>, NEW r, r = Tail(q)
    PROVE  /\ r \in Seq(Message) /\ q[1] \in Message /\ 1 \in DOMAIN q
           /\ \A i \in DOMAIN r : i + 1 \in DOMAIN q /\ r[i] = q[i + 1]
           /\ \A i \in DOMAIN r : \A kind, scopes :
                 Before(q, i + 1, kind, scopes) =>
                    (q[1].kind = kind /\ q[1].scopes \in scopes) \/ Before(r, i, kind, scopes)
           /\ \A kind, scopes : Holds(q, kind, scopes) =>
                 (q[1].kind = kind /\ q[1].scopes \in scopes) \/ Holds(r, kind, scopes)
<1>1. /\ r \in Seq(Message) /\ Len(q) \in Nat /\ Len(q) >= 1 /\ Len(r) = Len(q) - 1
      /\ DOMAIN q = 1 .. Len(q) /\ DOMAIN r = 1 .. Len(r)
      /\ \A i \in 1 .. Len(r) : r[i] = q[i + 1]
      /\ q[1] \in Message
  OBVIOUS
<1>2. \A i \in DOMAIN r : i + 1 \in DOMAIN q /\ r[i] = q[i + 1]
  BY <1>1
<1>3. \A j \in DOMAIN q : j = 1 \/ (j - 1 \in DOMAIN r /\ r[j - 1] = q[j])
  BY <1>1
<1>4. ASSUME NEW i \in DOMAIN r, NEW kind, NEW scopes, Before(q, i + 1, kind, scopes)
      PROVE  (q[1].kind = kind /\ q[1].scopes \in scopes) \/ Before(r, i, kind, scopes)
  <2>1. PICK j \in DOMAIN q : j < i + 1 /\ q[j].kind = kind /\ q[j].scopes \in scopes
    BY <1>4 DEF Before
  <2>2. CASE j # 1
    <3>1. j - 1 \in DOMAIN r /\ r[j - 1] = q[j]
      BY <1>3, <2>2
    <3>2. j - 1 < i
      BY <1>1, <2>1
    <3>. QED
      BY <2>1, <3>1, <3>2 DEF Before
  <2>. QED
    BY <2>1, <2>2
<1>5. ASSUME NEW kind, NEW scopes, Holds(q, kind, scopes)
      PROVE  (q[1].kind = kind /\ q[1].scopes \in scopes) \/ Holds(r, kind, scopes)
  BY <1>3, <1>5 DEF Holds
<1>. QED
  BY <1>1, <1>2, <1>4, <1>5

(* What a handler does that began with a flow of "was", "effective" and     *)
(* "decided", and may learn of the peer what is "known": the messages it    *)
(* sends are those its flags stand for, and each comes after the message it *)
(* rests on.                                                                *)
Talk(s, c) ==
    LET p == s.flow.progress IN
    /\ s \in Handling
    /\ ~Alive(s) => s.flow = IdleFlow
    /\ Alive(s) =>
        /\ s.flow.request = c.request /\ c.was \subseteq p
        /\ p \cap Told \subseteq c.known
        /\ s.flow.authenticated => ~s.flow.active /\ Exchanged \subseteq p
        /\ "localPrepared" \in p => Decisions \subseteq p /\ s.flow.effective = Decided(s)
        /\ "localCommitted" \in p => {"localPrepared", "remotePrepared"} \subseteq p
        /\ "localPrepared" \in c.was => s.flow.effective = c.effective
        /\ Decisions \subseteq c.was => Decided(s) = c.decided
        /\ "localDecision" \in p =>
              "localDecision" \in c.was \/ Holds(s.out, "Decision", SUBSET Scope)
        /\ "localPrepared" \in p =>
              "localPrepared" \in c.was \/ Holds(s.out, "Ready", {s.flow.effective})
        /\ "localCommitted" \in p =>
              "localCommitted" \in c.was \/ Holds(s.out, "Committed", {s.flow.effective})
        /\ \A i \in DOMAIN s.out :
            /\ s.out[i].kind = "Decision" => "localDecision" \in p
            /\ s.out[i].kind = "Ready" =>
                  "localPrepared" \in p /\ s.out[i].scopes = s.flow.effective
            /\ s.out[i].kind = "Committed" => "localCommitted" \in p
    /\ \A i \in DOMAIN s.out :
        /\ s.out[i].kind = "Ready" =>
            /\ "remoteDecision" \in c.known
            /\ "localDecision" \in c.was \/ Before(s.out, i, "Decision", SUBSET Scope)
        /\ s.out[i].kind = "Committed" =>
            /\ "remotePrepared" \in c.known
            /\ \/ "localPrepared" \in c.was /\ s.out[i].scopes = c.effective
               \/ Before(s.out, i, "Ready", {s.out[i].scopes})
        /\ s.out[i].kind = "Access" =>
              "localCommitted" \in c.was \/ Before(s.out, i, "Committed", SUBSET Scope)

\* What the other fields of a side hold does not matter.
LEMMA TalkStays ==
    ASSUME NEW c, NEW s, Talk(s, c), NEW t \in Handling, t.out = s.out,
           t.flow.request = s.flow.request, t.flow.progress = s.flow.progress,
           t.flow.active = s.flow.active, t.flow.authenticated = s.flow.authenticated,
           t.flow.effective = s.flow.effective, t.flow.outgoing = s.flow.outgoing,
           t.flow.mine = s.flow.mine, t.flow.theirs = s.flow.theirs,
           Alive(s) \/ t.flow = s.flow
    PROVE  Talk(t, c)
<1>1. Decided(t) = Decided(s) /\ (Alive(t) <=> Alive(s))
  BY DEF Decided, Alive
<1>. QED
  BY <1>1 DEF Talk

\* Save, fault and the end of a transaction are among them.
LEMMA ServiceTalks ==
    ASSUME NEW s \in Handling, NEW bad
    PROVE  /\ Rollback(s, bad) \in Handling /\ Rollback(s, bad).flow = s.flow
           /\ Rollback(s, bad).out = s.out
           /\ UpdateAuthenticated(s, bad) \in Handling /\ UpdateAuthenticated(s, bad).flow = s.flow
           /\ UpdateAuthenticated(s, bad).out = s.out
           /\ Complete(s, bad) \in Handling /\ Complete(s, bad).flow = s.flow
           /\ Complete(s, bad).out = s.out
           /\ Fault(s) \in Handling /\ Fault(s).flow = s.flow /\ Fault(s).out = s.out
<1>0. 0 \in Request /\ s.devices \in SUBSET TrustRecord /\ s.before \in SUBSET TrustRecord
  BY AttemptsAreCounted DEF Handling
<1>1. Fault(s) \in Handling /\ Fault(s).flow = s.flow /\ Fault(s).out = s.out
  BY DEF Fault, Handling
<1>2. ASSUME NEW u \in Handling
      PROVE  /\ ClearTransaction(u) \in Handling /\ ClearTransaction(u).flow = u.flow
             /\ ClearTransaction(u).out = u.out
  BY <1>0 DEF ClearTransaction, Handling
<1>3. ASSUME NEW records \in SUBSET TrustRecord
      PROVE  /\ Save(s, records) \in Handling /\ Save(s, records).flow = s.flow
             /\ Save(s, records).out = s.out
  BY DEF Save, Handling
<1>4. /\ Rollback(s, bad) \in Handling /\ Rollback(s, bad).flow = s.flow
      /\ Rollback(s, bad).out = s.out
  BY <1>0, <1>1, <1>2, <1>3 DEF Rollback
<1>5. /\ UpdateAuthenticated(s, bad) \in Handling /\ UpdateAuthenticated(s, bad).flow = s.flow
      /\ UpdateAuthenticated(s, bad).out = s.out
  BY <1>0, <1>1, <1>3 DEF UpdateAuthenticated
<1>6. /\ Complete(s, bad) \in Handling /\ Complete(s, bad).flow = s.flow
      /\ Complete(s, bad).out = s.out
  <2>. DEFINE kept == {r \in s.devices : r.id = s.flow.request}
              v == [ClearTransaction(Fault(s)) EXCEPT !.devices = kept]
  <2>1. kept \in SUBSET TrustRecord
    BY <1>0
  <2>. HIDE DEF kept
  <2>2. v \in Handling /\ v.flow = s.flow /\ v.out = s.out
    BY <1>1, <1>2, <2>1 DEF Handling
  <2>3. /\ ClearTransaction(Save(s, kept)) \in Handling
        /\ ClearTransaction(Save(s, kept)).flow = s.flow
        /\ ClearTransaction(Save(s, kept)).out = s.out
    BY <1>2, <1>3, <2>1
  <2>. HIDE DEF v
  <2>. QED
    BY <1>2, <2>2, <2>3 DEF Complete, kept, v
<1>. QED
  BY <1>1, <1>4, <1>5, <1>6

\* A message that rests on nothing, or on the commit.
LEMMA SendTalks ==
    ASSUME NEW c, NEW s, Talk(s, c), Alive(s), s.flow.request # 0,
           NEW kind \in {"Hello", "Rejected", "Access"},
           kind = "Access" => "localCommitted" \in s.flow.progress,
           NEW trust \in Request, NEW scopes \in SUBSET Scope
    PROVE  Talk(Send(s, kind, trust, scopes), c)
<1>. DEFINE m == [kind |-> kind, request |-> s.flow.request, trust |-> trust, scopes |-> scopes]
            t == Send(s, kind, trust, scopes)
<1>1. s \in Handling /\ kind \in {"Hello", "Decision", "Ready", "Committed", "Rejected", "Access"}
  BY DEF Talk
<1>2. t \in Handling /\ t.flow = s.flow /\ t.out = Append(s.out, m)
  BY <1>1, SendAppends
<1>3. m \in Message /\ m.kind = kind /\ s.out \in Seq(Message)
  BY <1>1, BoundsAssumption DEF Message, Request, Handling, Flow
<1>. HIDE DEF m, t
<1>4. /\ \A i \in DOMAIN t.out : (i \in DOMAIN s.out /\ t.out[i] = s.out[i])
                                 \/ (t.out[i] = m /\ i = Len(s.out) + 1)
      /\ \A i \in DOMAIN s.out : \A k, x : Before(s.out, i, k, x) => Before(t.out, i, k, x)
      /\ \A k, x : Holds(s.out, k, x) =>
                      Before(t.out, Len(s.out) + 1, k, x) /\ Holds(t.out, k, x)
  <2>1. \A i \in DOMAIN t.out : (i \in DOMAIN s.out /\ t.out[i] = s.out[i])
                                 \/ (t.out[i] = m /\ i = Len(s.out) + 1)
    BY <1>2, <1>3, AppendHolds
  <2>2. \A i \in DOMAIN s.out : \A k, x : Before(s.out, i, k, x) => Before(t.out, i, k, x)
    BY <1>2, <1>3, AppendHolds
  <2>3. \A k, x : Holds(s.out, k, x) =>
                      Before(t.out, Len(s.out) + 1, k, x) /\ Holds(t.out, k, x)
    BY <1>2, <1>3, AppendHolds
  <2>. QED
    BY <2>1, <2>2, <2>3
<1>5. Decided(t) = Decided(s) /\ Alive(t)
  BY <1>2 DEF Decided, Alive
<1>6. /\ "localDecision" \in t.flow.progress =>
            "localDecision" \in c.was \/ Holds(t.out, "Decision", SUBSET Scope)
      /\ "localPrepared" \in t.flow.progress =>
            "localPrepared" \in c.was \/ Holds(t.out, "Ready", {t.flow.effective})
      /\ "localCommitted" \in t.flow.progress =>
            "localCommitted" \in c.was \/ Holds(t.out, "Committed", {t.flow.effective})
  BY <1>2, <1>4 DEF Talk
<1>7. ASSUME NEW i \in DOMAIN t.out
      PROVE  /\ t.out[i].kind = "Decision" => "localDecision" \in t.flow.progress
             /\ t.out[i].kind = "Ready" =>
                   "localPrepared" \in t.flow.progress /\ t.out[i].scopes = t.flow.effective
             /\ t.out[i].kind = "Committed" => "localCommitted" \in t.flow.progress
  BY <1>2, <1>3, <1>4 DEF Talk
<1>8. ASSUME NEW i \in DOMAIN t.out
      PROVE  /\ t.out[i].kind = "Ready" =>
                 /\ "remoteDecision" \in c.known
                 /\ "localDecision" \in c.was \/ Before(t.out, i, "Decision", SUBSET Scope)
             /\ t.out[i].kind = "Committed" =>
                 /\ "remotePrepared" \in c.known
                 /\ \/ "localPrepared" \in c.was /\ t.out[i].scopes = c.effective
                    \/ Before(t.out, i, "Ready", {t.out[i].scopes})
             /\ t.out[i].kind = "Access" =>
                   "localCommitted" \in c.was \/ Before(t.out, i, "Committed", SUBSET Scope)
  <2>1. CASE i \in DOMAIN s.out /\ t.out[i] = s.out[i]
    BY <1>4, <2>1 DEF Talk
  <2>2. CASE t.out[i] = m /\ i = Len(s.out) + 1
    <3>1. m.kind = "Access" =>
             "localCommitted" \in c.was \/ Holds(s.out, "Committed", {s.flow.effective})
      BY <1>3 DEF Talk
    <3>2. Holds(s.out, "Committed", {s.flow.effective}) => Holds(s.out, "Committed", SUBSET Scope)
      <4>1. s.flow.effective \in SUBSET Scope
        BY <1>1 DEF Handling, Flow
      <4>. QED
        BY <4>1 DEF Holds
    <3>. QED
      BY <1>3, <1>4, <2>2, <3>1, <3>2
  <2>. QED
    BY <1>4, <2>1, <2>2
<1>9. Talk(t, c)
  BY <1>2, <1>5, <1>6, <1>7, <1>8 DEF Talk
<1>. QED
  BY <1>9 DEF t

\* A flag and the message that stands for it.
LEMMA AnnounceTalks ==
    ASSUME NEW c, NEW s, Talk(s, c), s.flow.active, NEW flag, flag \notin s.flow.progress,
           NEW m \in Message, NEW u \in Handling, u.out = Append(s.out, m),
           u.flow.request = s.flow.request, u.flow.active,
           u.flow.authenticated = s.flow.authenticated, u.flow.outgoing = s.flow.outgoing,
           u.flow.theirs = s.flow.theirs, u.flow.progress = s.flow.progress \cup {flag},
           \/ /\ flag = "localDecision" /\ m.kind = "Decision"
              /\ "localPrepared" \notin s.flow.progress
           \/ /\ flag = "localPrepared" /\ m.kind = "Ready" /\ Decisions \subseteq s.flow.progress
              /\ u.flow.mine = s.flow.mine
              /\ u.flow.effective = Decided(s) /\ m.scopes = Decided(s)
           \/ /\ flag = "localCommitted" /\ m.kind = "Committed"
              /\ {"localPrepared", "remotePrepared"} \subseteq s.flow.progress
              /\ u.flow.mine = s.flow.mine
              /\ u.flow.effective = s.flow.effective /\ m.scopes = s.flow.effective
    PROVE  Talk(u, c)
<1>. DEFINE p == s.flow.progress
            q == u.flow.progress
<1>1. /\ s \in Handling /\ s.out \in Seq(Message) /\ Alive(s) /\ Alive(u)
      /\ ~s.flow.authenticated /\ s.flow.request = c.request /\ c.was \subseteq p
      /\ m.scopes \in SUBSET Scope
  BY DEF Talk, Handling, Alive, Message
<1>2. \A i \in DOMAIN u.out : (i \in DOMAIN s.out /\ u.out[i] = s.out[i])
                              \/ (u.out[i] = m /\ i = Len(s.out) + 1)
  BY <1>1, AppendHolds
<1>3. \A i \in DOMAIN s.out : \A k, x : Before(s.out, i, k, x) => Before(u.out, i, k, x)
  BY <1>1, AppendHolds
<1>4. \A k, x : Holds(s.out, k, x) =>
                   Before(u.out, Len(s.out) + 1, k, x) /\ Holds(u.out, k, x)
  BY <1>1, AppendHolds
<1>5. Holds(u.out, m.kind, {m.scopes})
  BY <1>1, AppendHolds
<1>6. Holds(u.out, m.kind, SUBSET Scope)
  BY <1>1, <1>5 DEF Holds
<1>7. /\ p \cap Told \subseteq c.known
      /\ "localPrepared" \in p => Decisions \subseteq p /\ s.flow.effective = Decided(s)
      /\ "localCommitted" \in p => {"localPrepared", "remotePrepared"} \subseteq p
      /\ "localPrepared" \in c.was => s.flow.effective = c.effective
      /\ Decisions \subseteq c.was => Decided(s) = c.decided
  BY <1>1 DEF Talk
<1>8. /\ "localDecision" \in p =>
            "localDecision" \in c.was \/ Holds(u.out, "Decision", SUBSET Scope)
      /\ "localPrepared" \in p =>
            "localPrepared" \in c.was \/ Holds(u.out, "Ready", {s.flow.effective})
      /\ "localCommitted" \in p =>
            "localCommitted" \in c.was \/ Holds(u.out, "Committed", {s.flow.effective})
  BY <1>1, <1>4 DEF Talk
<1>9. \A i \in DOMAIN s.out :
         /\ s.out[i].kind = "Decision" => "localDecision" \in p
         /\ s.out[i].kind = "Ready" => "localPrepared" \in p /\ s.out[i].scopes = s.flow.effective
         /\ s.out[i].kind = "Committed" => "localCommitted" \in p
  BY <1>1 DEF Talk
<1>10. ASSUME NEW i \in DOMAIN s.out
       PROVE  /\ s.out[i].kind = "Ready" =>
                  /\ "remoteDecision" \in c.known
                  /\ "localDecision" \in c.was \/ Before(u.out, i, "Decision", SUBSET Scope)
              /\ s.out[i].kind = "Committed" =>
                  /\ "remotePrepared" \in c.known
                  /\ \/ "localPrepared" \in c.was /\ s.out[i].scopes = c.effective
                     \/ Before(u.out, i, "Ready", {s.out[i].scopes})
              /\ s.out[i].kind = "Access" =>
                    "localCommitted" \in c.was \/ Before(u.out, i, "Committed", SUBSET Scope)
  BY <1>3 DEF Talk
<1>11. "localDecision" \in p =>
          "localDecision" \in c.was \/ Before(u.out, Len(s.out) + 1, "Decision", SUBSET Scope)
  BY <1>1, <1>4 DEF Talk
<1>12. "localPrepared" \in p =>
          "localPrepared" \in c.was \/ Before(u.out, Len(s.out) + 1, "Ready", {s.flow.effective})
  BY <1>1, <1>4 DEF Talk
<1>13. Decided(u) = IF s.flow.outgoing THEN s.flow.theirs ELSE u.flow.mine
  BY DEF Decided
<1>14. Decided(s) = IF s.flow.outgoing THEN s.flow.theirs ELSE s.flow.mine
  BY DEF Decided
<1>15. CASE flag = "localDecision"
  <2>1. m.kind = "Decision" /\ "localPrepared" \notin p /\ "localCommitted" \notin p
    BY <1>7, <1>15
  <2>2. /\ "localDecision" \in q /\ "localPrepared" \notin q /\ "localCommitted" \notin q
        /\ "localDecision" \notin c.was /\ "localPrepared" \notin c.was
        /\ c.was \subseteq q
        /\ q \cap Told \subseteq c.known
    BY <1>1, <1>7, <1>15, <2>1 DEF Told
  <2>3. ASSUME NEW i \in DOMAIN u.out
        PROVE  /\ u.out[i].kind # "Ready" /\ u.out[i].kind # "Committed"
               /\ u.out[i].kind = "Access" =>
                    "localCommitted" \in c.was \/ Before(u.out, i, "Committed", SUBSET Scope)
    BY <1>2, <1>9, <1>10, <2>1
  <2>4. ~(Decisions \subseteq c.was)
    BY <2>2 DEF Decisions
  <2>. QED
    BY <1>1, <1>6, <2>1, <2>2, <2>3, <2>4 DEF Talk
<1>16. CASE flag = "localPrepared"
  <2>1. /\ m.kind = "Ready" /\ Decisions \subseteq p /\ u.flow.mine = s.flow.mine
        /\ u.flow.effective = Decided(s) /\ m.scopes = Decided(s)
    BY <1>16
  <2>2. /\ Decisions \subseteq q /\ "localPrepared" \in q /\ "localCommitted" \notin q
        /\ "localPrepared" \notin c.was /\ Decided(u) = Decided(s)
        /\ c.was \subseteq q /\ "remoteDecision" \in c.known
        /\ q \cap Told \subseteq c.known
    BY <1>1, <1>7, <1>13, <1>14, <1>16, <2>1 DEF Decisions, Told
  <2>3. ASSUME NEW i \in DOMAIN u.out
        PROVE  /\ u.out[i].kind = "Decision" => "localDecision" \in q
               /\ u.out[i].kind = "Ready" =>
                    /\ u.out[i].scopes = u.flow.effective
                    /\ "localDecision" \in c.was \/ Before(u.out, i, "Decision", SUBSET Scope)
               /\ u.out[i].kind # "Committed"
               /\ u.out[i].kind = "Access" =>
                    "localCommitted" \in c.was \/ Before(u.out, i, "Committed", SUBSET Scope)
    BY <1>2, <1>7, <1>9, <1>10, <1>11, <1>16, <2>1 DEF Decisions
  <2>4. "localDecision" \in c.was \/ Holds(u.out, "Decision", SUBSET Scope)
    BY <1>8, <2>1 DEF Decisions
  <2>. QED
    BY <1>1, <1>5, <1>7, <2>1, <2>2, <2>3, <2>4 DEF Talk
<1>17. CASE flag = "localCommitted"
  <2>1. /\ m.kind = "Committed" /\ {"localPrepared", "remotePrepared"} \subseteq p
        /\ u.flow.mine = s.flow.mine
        /\ u.flow.effective = s.flow.effective /\ m.scopes = s.flow.effective
    BY <1>17
  <2>2. /\ {"localPrepared", "remotePrepared", "localCommitted"} \subseteq q
        /\ "localCommitted" \notin c.was /\ Decided(u) = Decided(s)
        /\ Decisions \subseteq q /\ u.flow.effective = Decided(u)
        /\ c.was \subseteq q /\ "remotePrepared" \in c.known
        /\ q \cap Told \subseteq c.known
    BY <1>1, <1>7, <1>13, <1>14, <1>17, <2>1 DEF Told
  <2>3. ASSUME NEW i \in DOMAIN u.out
        PROVE  /\ u.out[i].kind = "Decision" => "localDecision" \in q
               /\ u.out[i].kind = "Ready" => u.out[i].scopes = u.flow.effective
               /\ u.out[i].kind = "Ready" =>
                    /\ "remoteDecision" \in c.known
                    /\ "localDecision" \in c.was \/ Before(u.out, i, "Decision", SUBSET Scope)
               /\ u.out[i].kind = "Committed" =>
                    \/ "localPrepared" \in c.was /\ u.out[i].scopes = c.effective
                    \/ Before(u.out, i, "Ready", {u.out[i].scopes})
               /\ u.out[i].kind = "Access" =>
                    "localCommitted" \in c.was \/ Before(u.out, i, "Committed", SUBSET Scope)
    BY <1>2, <1>7, <1>9, <1>10, <1>12, <1>17, <2>1
  <2>4. /\ "localDecision" \in c.was \/ Holds(u.out, "Decision", SUBSET Scope)
        /\ "localPrepared" \in c.was \/ Holds(u.out, "Ready", {u.flow.effective})
    BY <1>7, <1>8, <2>1 DEF Decisions
  <2>. QED
    BY <1>1, <1>5, <1>7, <2>1, <2>2, <2>3, <2>4 DEF Talk
<1>. QED
  BY <1>15, <1>16, <1>17

-----------------------------------------------------------------------------
(* The records of a side under way.                                         *)

(* What a side holds, and what a handler changes of it: nothing while it    *)
(* trusts its peer, or has not prepared; after success without trust the    *)
(* new record is the only one.                                              *)
Hold(s, c) ==
    /\ Own(s, c.edited)
    /\ Alive(s) /\ c.alone => s.devices = c.devices
    /\ s.flow.active =>
        /\ s.flow.trusted = c.alone
        /\ "localPrepared" \notin s.flow.progress => s.devices = c.devices
    /\ s.flow.authenticated /\ ~c.alone => MutualCommitId(s.devices) = s.flow.request

\* A side without a flow holds to nothing.
LEMMA IdleHolds ==
    ASSUME NEW c, NEW s, s.flow = IdleFlow
    PROVE  Hold(s, c)
BY DEF Hold, Own, Alive, IdleFlow

\* What else the flow says does not matter.
LEMMA HoldStays ==
    ASSUME NEW c, NEW s, Hold(s, c), NEW t, t.devices = s.devices, t.stored = s.stored,
           t.transaction = s.transaction, t.faults = s.faults,
           t.flow.progress = s.flow.progress, t.flow.request = s.flow.request,
           t.flow.active = s.flow.active, t.flow.authenticated = s.flow.authenticated,
           t.flow.trusted = s.flow.trusted, t.flow.outgoing = s.flow.outgoing,
           t.flow.mine = s.flow.mine, t.flow.effective = s.flow.effective,
           t.flow.active /\ t.flow.prompt => s.flow.prompt \/ ~s.flow.trusted
    PROVE  Hold(t, c)
BY DEF Hold, Own, Alive

\* Nor do the messages.
LEMMA SendHolds ==
    ASSUME NEW c, NEW s \in Handling, NEW kind, NEW trust, NEW scopes
    PROVE  /\ Hold(s, c) => Hold(Send(s, kind, trust, scopes), c)
           /\ Send(s, kind, trust, scopes).flow = s.flow
           /\ Send(s, kind, trust, scopes).devices = s.devices
           /\ Send(s, kind, trust, scopes).faults = s.faults
           /\ Send(s, kind, trust, scopes).transaction = s.transaction
<1>. DEFINE t == Send(s, kind, trust, scopes)
<1>1. /\ t.flow = s.flow /\ t.devices = s.devices /\ t.stored = s.stored
      /\ t.transaction = s.transaction /\ t.faults = s.faults
  BY DEF Send, Handling
<1>. HIDE DEF t
<1>2. Hold(s, c) => Hold(t, c)
  BY <1>1, HoldStays
<1>. QED
  BY <1>1, <1>2 DEF t

\* clear() and fail() leave no flow.
LEMMA ClearConducts ==
    ASSUME NEW c, NEW s, Talk(s, c), NEW bad
    PROVE  Talk(Clear(s, bad), c) /\ Hold(Clear(s, bad), c) /\ Clear(s, bad).flow = IdleFlow
           /\ Clear(s, bad).out = s.out
<1>. DEFINE r == Rollback(s, bad)
            t == [r EXCEPT !.flow = IdleFlow]
<1>1. s \in Handling
  BY DEF Talk
<1>2. r \in Handling /\ r.out = s.out
  BY <1>1, ServiceTalks
<1>. HIDE DEF r
<1>3. IdleFlow \in Flow
  BY AttemptsAreCounted DEF IdleFlow, Flow
<1>4. t \in Handling /\ t.flow = IdleFlow /\ t.out = s.out
  BY <1>2, <1>3, FlowChanges
<1>. HIDE DEF t
<1>5. ~Alive(t)
  BY <1>4 DEF Alive, IdleFlow
<1>6. Talk(t, c)
  BY <1>4, <1>5 DEF Talk
<1>7. Hold(t, c)
  BY <1>4, IdleHolds
<1>. QED
  BY <1>4, <1>6, <1>7 DEF Clear, t, r

\* An attempt that fails says nothing and is over.
LEMMA FailConducts ==
    ASSUME NEW c, NEW s, Talk(s, c), s.flow.active, NEW notify \in BOOLEAN, NEW bad
    PROVE  /\ Talk(Fail(s, notify, bad), c) /\ Hold(Fail(s, notify, bad), c)
           /\ Fail(s, notify, bad).flow = IdleFlow
<1>. DEFINE t == Send(s, "Rejected", 0, {})
<1>1. CASE notify /\ s.flow.request # 0
  <2>1. Alive(s) /\ 0 \in Request /\ {} \in SUBSET Scope
    BY AttemptsAreCounted DEF Alive
  <2>2. Talk(t, c)
    BY <1>1, <2>1, SendTalks
  <2>. HIDE DEF t
  <2>3. Fail(s, notify, bad) = Clear(t, bad)
    BY <1>1 DEF Fail, t
  <2>. QED
    BY <2>2, <2>3, ClearConducts
<1>2. CASE ~(notify /\ s.flow.request # 0)
  <2>1. Fail(s, notify, bad) = Clear(s, bad)
    BY <1>2 DEF Fail
  <2>. QED
    BY <2>1, ClearConducts
<1>. QED
  BY <1>1, <1>2

\* The same after a fault.
LEMMA FaultConducts ==
    ASSUME NEW c, NEW s, Talk(s, c)
    PROVE  Talk(Fault(s), c) /\ Fault(s).flow = s.flow
<1>1. s \in Handling
  BY DEF Talk
<1>2. Fault(s) \in Handling /\ Fault(s).flow = s.flow /\ Fault(s).out = s.out
  BY <1>1, ServiceTalks
<1>. QED
  BY <1>2, TalkStays

\* The identifier a device knows its peer by, when all records are of it.
LEMMA KnownByOne ==
    ASSUME NEW records \in SUBSET TrustRecord, NEW r \in records, NEW n,
           \A q \in records : q.id = n /\ q.commitState = "Mutual"
    PROVE  MutualCommitId(records) = n /\ Mutuals(records) = records
<1>1. Mutuals(records) = records /\ Mutuals(records) # {}
  BY DEF Mutuals
<1>2. Oldest(Mutuals(records)) \in records
  BY <1>1, OldestExists
<1>. QED
  BY <1>1, <1>2 DEF MutualCommitId

\* What success leaves of the records: those there were, or the new one alone.
LEMMA CompletedRecords ==
    ASSUME NEW s \in Handling, NEW bad, NEW edited, Own(s, edited), s.flow.active,
           {"localPrepared", "localCommitted"} \subseteq s.flow.progress, s.flow.request # 0,
           NEW updated, updated = IF s.flow.trusted THEN UpdateAuthenticated(s, bad) ELSE s,
           NEW done, done = Complete(updated, bad)
    PROVE  /\ done \in Handling /\ done.flow = s.flow /\ done.out = s.out
           /\ edited \/ done.faults # 0 \/ done.stored = done.devices
           /\ s.flow.trusted => done.devices = s.devices
           /\ ~s.flow.trusted =>
                /\ MutualCommitId(done.devices) = s.flow.request
                /\ \E r \in Mutuals(done.devices) : s.flow.effective = r.limit
<1>1. /\ updated \in Handling /\ updated.flow = s.flow /\ updated.out = s.out
  BY ServiceTalks
<1>2. /\ updated.devices = s.devices /\ updated.transaction = s.transaction
      /\ edited \/ updated.faults # 0 \/ updated.stored = updated.devices
  <2>1. CASE updated = s
    BY <2>1 DEF Own, Alive
  <2>2. CASE updated = Fault(s)
    <3>1. Fault(s).faults # 0
      BY FaultCounts
    <3>. QED
      BY <2>2, <3>1, FaultCounts
  <2>3. CASE updated = Save(s, s.devices)
    BY <2>3 DEF Save, Handling
  <2>. QED
    BY <2>1, <2>2, <2>3 DEF UpdateAuthenticated
<1>3. done \in Handling /\ done.flow = s.flow /\ done.out = s.out
  BY <1>1, ServiceTalks
<1>4. CASE s.flow.trusted
  <2>1. ~HasTransaction(updated)
    BY <1>2, <1>4 DEF HasTransaction, Own
  <2>. QED
    BY <1>2, <1>3, <1>4, <2>1 DEF Complete
<1>5. CASE ~s.flow.trusted
  <2>. DEFINE kept == {r \in s.devices : r.id = s.flow.request}
  <2>1. updated = s /\ HasTransaction(s)
    BY <1>5 DEF HasTransaction, Own
  <2>2. PICK n \in kept : n.limit = s.flow.effective
    BY <1>5 DEF Own
  <2>3. /\ kept \in SUBSET TrustRecord
        /\ \A r \in kept : r.id = s.flow.request /\ r.commitState = "Mutual"
    BY <1>5 DEF Own, Handling
  <2>. HIDE DEF kept
  <2>4. MutualCommitId(kept) = s.flow.request /\ Mutuals(kept) = kept
    BY <2>2, <2>3, KnownByOne
  <2>5. done.devices = kept /\ (edited \/ done.faults # 0 \/ done.stored = done.devices)
    <3>1. CASE kept = s.devices
      <4>1. done = ClearTransaction(s)
        BY <2>1, <3>1 DEF Complete, kept
      <4>2. done.devices = s.devices /\ done.stored = s.stored /\ done.faults = s.faults
        BY <4>1 DEF ClearTransaction, Handling
      <4>. QED
        BY <3>1, <4>2 DEF Own, Alive
    <3>2. CASE kept # s.devices /\ "cleanup" \in bad
      <4>1. done = [ClearTransaction(Fault(s)) EXCEPT !.devices = kept]
        BY <2>1, <3>2 DEF Complete, kept
      <4>2. Fault(s) \in Handling /\ Fault(s).faults # 0
        BY FaultCounts
      <4>3. /\ ClearTransaction(Fault(s)) \in Handling
            /\ ClearTransaction(Fault(s)).faults = Fault(s).faults
        BY <4>2, AttemptsAreCounted DEF ClearTransaction, Handling
      <4>4. done.devices = kept /\ done.faults = Fault(s).faults
        BY <4>1, <4>3 DEF Handling
      <4>. QED
        BY <4>2, <4>4
    <3>3. CASE kept # s.devices /\ "cleanup" \notin bad
      <4>1. done = ClearTransaction(Save(s, kept))
        BY <2>1, <3>3 DEF Complete, kept
      <4>2. done.devices = kept /\ done.stored = kept
        BY <4>1 DEF ClearTransaction, Save, Handling
      <4>. QED
        BY <4>2
    <3>. QED
      BY <3>1, <3>2, <3>3
  <2>. QED
    BY <1>3, <1>5, <2>2, <2>4, <2>5
<1>. QED
  BY <1>4, <1>5

\* Success.
LEMMA TryCompleteConducts ==
    ASSUME NEW c, NEW s, Talk(s, c), Hold(s, c), c.request # 0, NEW bad
    PROVE  /\ Talk(TryComplete(s, bad), c) /\ Hold(TryComplete(s, bad), c)
           /\ {"localCommitted", "remoteCommitted"} \subseteq s.flow.progress =>
                 ~TryComplete(s, bad).flow.active
           /\ ~s.flow.active => TryComplete(s, bad) = s
<1>1. CASE ~({"localCommitted", "remoteCommitted"} \subseteq s.flow.progress) \/ s.flow.authenticated
  <2>1. TryComplete(s, bad) = s
    BY <1>1 DEF TryComplete, Has
  <2>2. s.flow.authenticated => ~s.flow.active
    BY DEF Talk, Alive
  <2>. QED
    BY <1>1, <2>1, <2>2
<1>2. CASE {"localCommitted", "remoteCommitted"} \subseteq s.flow.progress /\ ~s.flow.authenticated
  <2>. DEFINE updated == IF s.flow.trusted THEN UpdateAuthenticated(s, bad) ELSE s
              completed == Complete(updated, bad)
              f == [completed.flow EXCEPT !.trusted = TRUE, !.within = TRUE,
                                          !.authenticated = TRUE, !.active = FALSE,
                                          !.prompt = FALSE]
              done == [completed EXCEPT !.flow = f]
  <2>1. Alive(s) /\ s.flow.active
    BY <1>2 DEF Talk, Alive, IdleFlow
  <2>2. /\ s \in Handling /\ s.flow \in Flow /\ s.flow.request = c.request
        /\ {"localPrepared", "remotePrepared"} \subseteq s.flow.progress
        /\ Decisions \subseteq s.flow.progress /\ s.flow.effective = Decided(s)
    BY <1>2, <2>1 DEF Talk, Handling
  <2>3. Own(s, c.edited) /\ s.flow.trusted = c.alone
    BY <2>1 DEF Hold
  <2>4. /\ completed \in Handling /\ completed.flow = s.flow /\ completed.out = s.out
        /\ c.edited \/ completed.faults # 0 \/ completed.stored = completed.devices
        /\ c.alone => completed.devices = s.devices
        /\ ~c.alone =>
             /\ MutualCommitId(completed.devices) = s.flow.request
             /\ \E r \in Mutuals(completed.devices) : s.flow.effective = r.limit
    BY <1>2, <2>1, <2>2, <2>3, CompletedRecords
  <2>. HIDE DEF completed
  <2>5. /\ f \in Flow /\ f.progress = s.flow.progress /\ f.request = s.flow.request
        /\ f.authenticated /\ ~f.active /\ f.outgoing = s.flow.outgoing /\ f.mine = s.flow.mine
        /\ f.theirs = s.flow.theirs /\ f.effective = s.flow.effective
    BY <2>2, <2>4 DEF Flow
  <2>. HIDE DEF f
  <2>6. /\ done \in Handling /\ done.flow = f /\ done.stored = completed.stored
        /\ done.devices = completed.devices /\ done.out = s.out
    BY <2>4, <2>5, FlowChanges
  <2>7. done.faults = completed.faults
    BY <2>4 DEF Handling
  <2>. HIDE DEF done
  <2>8. Alive(done) /\ Decided(done) = Decided(s)
    BY <2>5, <2>6 DEF Alive, Decided
  <2>9. Exchanged \subseteq s.flow.progress
    BY <1>2, <2>2 DEF Exchanged
  <2>10. Talk(done, c)
    BY <2>1, <2>2, <2>5, <2>6, <2>8, <2>9 DEF Talk
  <2>11. Hold(done, c)
    <3>1. c.alone => done.devices = c.devices
      BY <2>1, <2>4, <2>6 DEF Hold
    <3>2. ~s.flow.outgoing => \E r \in Mutuals(done.devices) : s.flow.effective \subseteq r.limit
      <4>1. CASE c.alone
        <5>1. ~s.flow.outgoing => s.flow.effective = s.flow.mine
          BY <2>2 DEF Decided
        <5>2. ~s.flow.outgoing => \E r \in Mutuals(s.devices) : s.flow.mine \subseteq r.limit
          BY <2>1, <2>2, <2>3, <4>1 DEF Own, Decisions
        <5>. QED
          BY <2>4, <2>6, <4>1, <5>1, <5>2
      <4>2. CASE ~c.alone
        BY <2>4, <2>6, <4>2
      <4>. QED
        BY <4>1, <4>2
    <3>. QED
      BY <2>4, <2>5, <2>6, <2>7, <3>1, <3>2 DEF Hold, Own
  <2>12. /\ Talk(Send(done, "Access", 0, {}), c) /\ Hold(Send(done, "Access", 0, {}), c)
         /\ Send(done, "Access", 0, {}).flow = done.flow
    <3>1. /\ 0 \in Request /\ {} \in SUBSET Scope /\ done.flow.request # 0
          /\ "localCommitted" \in done.flow.progress
      BY <1>2, <2>2, <2>5, <2>6, AttemptsAreCounted
    <3>. QED
      BY <2>6, <2>8, <2>10, <2>11, <3>1, SendTalks, SendHolds
  <2>13. TryComplete(s, bad) = IF s.flow.outgoing THEN Send(done, "Access", 0, {}) ELSE done
    <3>1. done = [completed EXCEPT !.flow.trusted = TRUE, !.flow.within = TRUE,
                           !.flow.authenticated = TRUE, !.flow.active = FALSE,
                           !.flow.prompt = FALSE]
      BY DEF done, f
    <3>. QED
      BY <1>2, <3>1 DEF TryComplete, Has, completed
  <2>. QED
    BY <2>1, <2>5, <2>6, <2>10, <2>11, <2>12, <2>13
<1>. QED
  BY <1>1, <1>2

\* The record of the pairing becomes mutual.
LEMMA CommittedRecords ==
    ASSUME NEW s \in Handling, NEW edited, Own(s, edited), s.flow.active, ~s.flow.trusted,
           "localPrepared" \in s.flow.progress
    PROVE  /\ Commit(s) \in Handling /\ Commit(s).flow = s.flow /\ Commit(s).out = s.out
           /\ Commit(s).transaction = s.transaction /\ Commit(s).stored = Commit(s).devices
           /\ \E r \in Commit(s).devices : r.id = s.flow.request /\ r.limit = s.flow.effective
           /\ \A r \in Commit(s).devices : r.id = s.flow.request => r.commitState = "Mutual"
<1>. DEFINE Made(r) == IF r.id = s.flow.request THEN [r EXCEPT !.commitState = "Mutual"] ELSE r
            records == {Made(r) : r \in s.devices}
<1>1. \A r \in s.devices : /\ Made(r) \in TrustRecord /\ Made(r).id = r.id /\ Made(r).limit = r.limit
                           /\ r.id = s.flow.request => Made(r).commitState = "Mutual"
  BY DEF TrustRecord, Handling
<1>2. PICK n \in s.devices : n.id = s.flow.request /\ n.limit = s.flow.effective
  BY DEF Own
<1>. HIDE DEF Made
<1>3. /\ records \in SUBSET TrustRecord
      /\ \E r \in records : r.id = s.flow.request /\ r.limit = s.flow.effective
      /\ \A r \in records : r.id = s.flow.request => r.commitState = "Mutual"
  BY <1>1, <1>2
<1>4. Commit(s) = Save(s, records)
  BY DEF Commit, Made
<1>. HIDE DEF records
<1>5. /\ Save(s, records) \in Handling /\ Save(s, records).flow = s.flow
      /\ Save(s, records).out = s.out /\ Save(s, records).transaction = s.transaction
      /\ Save(s, records).stored = records /\ Save(s, records).devices = records
  BY <1>3 DEF Save, Handling
<1>. QED
  BY <1>3, <1>4, <1>5

\* A commit.
LEMMA TryCommitConducts ==
    ASSUME NEW c, NEW s, Talk(s, c), Hold(s, c), c.request # 0, NEW bad
    PROVE  /\ Talk(TryCommit(s, bad), c) /\ Hold(TryCommit(s, bad), c)
           /\ {"localPrepared", "remotePrepared", "remoteCommitted"} \subseteq s.flow.progress
              /\ "localCommitted" \notin s.flow.progress => ~TryCommit(s, bad).flow.active
           /\ ~s.flow.active => TryCommit(s, bad) = s
<1>1. CASE ~({"localPrepared", "remotePrepared"} \subseteq s.flow.progress)
           \/ "localCommitted" \in s.flow.progress
  BY <1>1 DEF TryCommit, Has
<1>2. CASE {"localPrepared", "remotePrepared"} \subseteq s.flow.progress
           /\ "localCommitted" \notin s.flow.progress
  <2>1. Alive(s) /\ s.flow.active /\ ~s.flow.authenticated
    BY <1>2 DEF Talk, Alive, IdleFlow, Exchanged
  <2>2. /\ s \in Handling /\ s.flow \in Flow /\ s.flow.request = c.request
        /\ Decisions \subseteq s.flow.progress /\ s.flow.effective = Decided(s)
    BY <1>2, <2>1 DEF Talk, Handling
  <2>3. Own(s, c.edited) /\ s.flow.trusted = c.alone
    BY <2>1 DEF Hold
  <2>4. CASE ~s.flow.trusted /\ "commit" \in bad
    <3>1. Talk(Fault(s), c) /\ Fault(s).flow.active
      BY <2>1, FaultConducts
    <3>2. TryCommit(s, bad) = Fail(Fault(s), TRUE, bad)
      BY <1>2, <2>4 DEF TryCommit, Has
    <3>3. /\ Talk(Fail(Fault(s), TRUE, bad), c) /\ Hold(Fail(Fault(s), TRUE, bad), c)
          /\ Fail(Fault(s), TRUE, bad).flow = IdleFlow
      BY <3>1, FailConducts
    <3>4. ~IdleFlow.active
      BY DEF IdleFlow
    <3>. QED
      BY <2>1, <3>2, <3>3, <3>4
  <2>5. CASE ~(~s.flow.trusted /\ "commit" \in bad)
    <3>. DEFINE saved == IF s.flow.trusted THEN s ELSE Commit(s)
                marked == Mark(saved, "localCommitted")
                m == [kind |-> "Committed", request |-> marked.flow.request,
                      trust |-> 0, scopes |-> s.flow.effective]
                sent == Send(marked, "Committed", 0, s.flow.effective)
    <3>1. /\ saved \in Handling /\ saved.flow = s.flow /\ saved.out = s.out
          /\ saved.transaction = s.transaction
          /\ c.edited \/ saved.faults # 0 \/ saved.stored = saved.devices
          /\ s.flow.trusted => saved.devices = s.devices
          /\ ~s.flow.trusted =>
               /\ \E r \in saved.devices : r.id = s.flow.request /\ r.limit = s.flow.effective
               /\ \A r \in saved.devices : r.id = s.flow.request => r.commitState = "Mutual"
      <4>1. CASE s.flow.trusted
        BY <2>1, <2>2, <2>3, <4>1 DEF Own
      <4>2. CASE ~s.flow.trusted
        BY <1>2, <2>1, <2>2, <2>3, <4>2, CommittedRecords
      <4>. QED
        BY <4>1, <4>2
    <3>. HIDE DEF saved
    <3>2. /\ marked \in Handling /\ marked.flow = [saved.flow EXCEPT !.progress = @ \cup {"localCommitted"}]
          /\ marked.devices = saved.devices /\ marked.stored = saved.stored
          /\ marked.out = saved.out
      BY <3>1, MarkAdds DEF Progress
    <3>3. marked.transaction = saved.transaction /\ marked.faults = saved.faults
      BY <3>1 DEF Mark, Handling
    <3>. HIDE DEF marked
    <3>4. /\ marked.flow.progress = s.flow.progress \cup {"localCommitted"}
          /\ marked.flow.request = c.request /\ marked.flow.active /\ ~marked.flow.authenticated
          /\ marked.flow.authenticated = s.flow.authenticated
          /\ marked.flow.trusted = s.flow.trusted /\ marked.flow.outgoing = s.flow.outgoing
          /\ marked.flow.prompt = s.flow.prompt /\ marked.flow.mine = s.flow.mine
          /\ marked.flow.theirs = s.flow.theirs /\ marked.flow.effective = s.flow.effective
      BY <2>1, <2>2, <3>1, <3>2 DEF Flow
    <3>5. Hold(marked, c)
      <4>1. Own(marked, c.edited)
        <5>1. /\ s.flow.prompt => ~s.flow.trusted
              /\ s.transaction # 0 <=> ("localPrepared" \in s.flow.progress /\ ~s.flow.trusted)
              /\ s.transaction # 0 => s.transaction = s.flow.request
              /\ s.flow.trusted /\ ~s.flow.outgoing /\ "localDecision" \in s.flow.progress =>
                    \E r \in Mutuals(s.devices) : s.flow.mine \subseteq r.limit
          BY <2>1, <2>3 DEF Own
        <5>2. s.flow.request = marked.flow.request
          BY <2>2, <3>4
        <5>. QED
          BY <3>1, <3>2, <3>3, <3>4, <5>1, <5>2 DEF Own
      <4>2. c.alone => marked.devices = c.devices
        BY <2>1, <2>3, <3>1, <3>2 DEF Hold
      <4>. QED
        BY <1>2, <2>3, <3>4, <4>1, <4>2 DEF Hold
    <3>6. Talk(sent, c) /\ Hold(sent, c) /\ sent.flow = marked.flow
      <4>1. /\ s.flow.effective \in SUBSET Scope /\ 0 \in Request
            /\ marked.flow.request \in 1 .. MaxAttempt /\ marked.flow.request # 0
            /\ "Committed" \in {"Hello", "Decision", "Ready", "Committed", "Rejected", "Access"}
        BY <2>2, <3>4, AttemptsAreCounted, BoundsAssumption DEF Flow, Request
      <4>2. sent \in Handling /\ sent.flow = marked.flow /\ sent.out = Append(s.out, m)
        <5>1. marked \in Handling /\ marked.out = s.out
          BY <3>1, <3>2
        <5>2. sent \in Handling /\ sent.flow = marked.flow /\ sent.out = Append(marked.out, m)
          BY <4>1, <5>1, SendAppends
        <5>. QED
          BY <5>1, <5>2
      <4>3. m \in Message /\ m.kind = "Committed" /\ m.scopes = s.flow.effective
        BY <4>1 DEF Message
      <4>4. Hold(sent, c)
        BY <3>2, <3>5, SendHolds
      <4>. HIDE DEF sent, m
      <4>5. Talk(sent, c)
        <5>1. /\ sent.flow.request = s.flow.request /\ sent.flow.active
              /\ sent.flow.authenticated = s.flow.authenticated
              /\ sent.flow.outgoing = s.flow.outgoing /\ sent.flow.theirs = s.flow.theirs
              /\ sent.flow.progress = s.flow.progress \cup {"localCommitted"}
              /\ sent.flow.mine = s.flow.mine /\ sent.flow.effective = s.flow.effective
          BY <2>2, <3>4, <4>2
        <5>. QED
          BY <1>2, <2>1, <4>2, <4>3, <5>1, AnnounceTalks
      <4>. QED
        BY <4>2, <4>4, <4>5
    <3>. HIDE DEF sent
    <3>7. /\ Talk(TryComplete(sent, bad), c) /\ Hold(TryComplete(sent, bad), c)
          /\ "remoteCommitted" \in s.flow.progress => ~TryComplete(sent, bad).flow.active
      BY <3>4, <3>6, TryCompleteConducts
    <3>8. TryCommit(s, bad) = TryComplete(sent, bad)
      BY <1>2, <2>5 DEF TryCommit, Has, sent, marked, saved
    <3>. QED
      BY <2>1, <3>7, <3>8
  <2>. QED
    BY <2>4, <2>5
<1>3. "localCommitted" \notin s.flow.progress /\ ~s.flow.active =>
         ~({"localPrepared", "remotePrepared"} \subseteq s.flow.progress)
  BY DEF Talk, Alive, IdleFlow, Exchanged
<1>. QED
  BY <1>1, <1>2, <1>3

\* A record of the pairing joins those there are.
LEMMA PreparedRecords ==
    ASSUME NEW s \in Handling, s.flow.request \in 1 .. MaxAttempt
    PROVE  /\ Prepare(s) \in Handling /\ Prepare(s).flow = s.flow /\ Prepare(s).out = s.out
           /\ Prepare(s).transaction = s.flow.request /\ Prepare(s).stored = Prepare(s).devices
           /\ \E r \in Prepare(s).devices : r.id = s.flow.request /\ r.limit = s.flow.effective
<1>. DEFINE n == [id |-> s.flow.request, commitState |-> "Pending",
                  limit |-> s.flow.effective, revoked |-> FALSE]
            records == s.devices \cup {n}
            saved == Save(s, records)
            prepared == [saved EXCEPT !.before = s.devices, !.transaction = s.flow.request]
<1>1. n \in TrustRecord /\ n.id = s.flow.request /\ n.limit = s.flow.effective
  BY DEF TrustRecord, Handling, Flow
<1>. HIDE DEF n
<1>2. records \in SUBSET TrustRecord /\ n \in records
  BY <1>1 DEF Handling
<1>. HIDE DEF records
<1>3. /\ saved \in Handling /\ saved.flow = s.flow /\ saved.out = s.out
      /\ saved.stored = records /\ saved.devices = records
  BY <1>2 DEF Save, Handling
<1>. HIDE DEF saved
<1>4. s.devices \in SUBSET TrustRecord /\ s.flow.request \in Request
  BY DEF Handling, Flow
<1>5. /\ prepared \in Handling /\ prepared.flow = saved.flow /\ prepared.out = saved.out
      /\ prepared.stored = saved.stored /\ prepared.devices = saved.devices
      /\ prepared.transaction = s.flow.request
  BY <1>3, <1>4 DEF Handling
<1>6. Prepare(s) = prepared
  BY DEF Prepare, saved, records, n
<1>. HIDE DEF prepared
<1>. QED
  BY <1>1, <1>2, <1>3, <1>5, <1>6

\* A side prepares.
LEMMA TryPrepareConducts ==
    ASSUME NEW c, NEW s, Talk(s, c), Hold(s, c), c.request # 0, NEW bad
    PROVE  /\ Talk(TryPrepare(s, bad), c) /\ Hold(TryPrepare(s, bad), c)
           /\ ~s.flow.active => TryPrepare(s, bad) = s
<1>1. CASE ~({"localDecision", "remoteDecision"} \subseteq s.flow.progress)
           \/ "localPrepared" \in s.flow.progress
  BY <1>1 DEF TryPrepare, Has
<1>2. CASE {"localDecision", "remoteDecision"} \subseteq s.flow.progress
           /\ "localPrepared" \notin s.flow.progress
  <2>. DEFINE effective == Decided(s)
              agreed == [s EXCEPT !.flow.effective = effective]
              saved == IF s.flow.trusted THEN agreed ELSE Prepare(agreed)
              marked == Mark(saved, "localPrepared")
              m == [kind |-> "Ready", request |-> marked.flow.request,
                    trust |-> 0, scopes |-> effective]
              sent == Send(marked, "Ready", 0, effective)
  <2>1. Alive(s) /\ s.flow.active /\ ~s.flow.authenticated /\ "localCommitted" \notin s.flow.progress
    BY <1>2 DEF Talk, Alive, IdleFlow, Exchanged
  <2>2. /\ s \in Handling /\ s.flow \in Flow /\ s.flow.request = c.request
        /\ s.flow.request \in 1 .. MaxAttempt
    BY <2>1, BoundsAssumption DEF Talk, Handling, Flow, Request
  <2>3. /\ Own(s, c.edited) /\ s.flow.trusted = c.alone /\ s.transaction = 0
    BY <1>2, <2>1 DEF Hold, Own
  <2>4. effective \in SUBSET Scope
    BY <2>2 DEF Decided, Flow
  <2>5. effective = IF s.flow.outgoing THEN s.flow.theirs ELSE s.flow.mine
    BY DEF Decided
  <2>. HIDE DEF effective
  <2>6. /\ agreed \in Handling /\ agreed.flow = [s.flow EXCEPT !.effective = effective]
        /\ agreed.stored = s.stored /\ agreed.devices = s.devices /\ agreed.out = s.out
        /\ agreed.transaction = s.transaction /\ agreed.faults = s.faults
    BY <2>2, <2>4 DEF Handling, Flow
  <2>. HIDE DEF agreed
  <2>7. /\ agreed.flow \in Flow /\ agreed.flow.progress = s.flow.progress
        /\ agreed.flow.request = s.flow.request /\ agreed.flow.active
        /\ agreed.flow.active = s.flow.active
        /\ agreed.flow.authenticated = s.flow.authenticated
        /\ agreed.flow.trusted = s.flow.trusted /\ agreed.flow.outgoing = s.flow.outgoing
        /\ agreed.flow.prompt = s.flow.prompt /\ agreed.flow.mine = s.flow.mine
        /\ agreed.flow.theirs = s.flow.theirs /\ agreed.flow.effective = effective
    BY <2>1, <2>2, <2>4, <2>6 DEF Flow
  <2>8. Talk(agreed, c)
    <3>1. Decided(agreed) = Decided(s) /\ Alive(agreed)
      BY <2>1, <2>7 DEF Decided, Alive
    <3>2. "localPrepared" \notin c.was /\ ~("localCommitted" \in s.flow.progress)
      BY <1>2, <2>1 DEF Talk
    <3>3. \A i \in DOMAIN s.out : s.out[i].kind # "Ready"
      BY <1>2, <2>1 DEF Talk
    <3>4. /\ agreed.flow.request = c.request /\ c.was \subseteq agreed.flow.progress
          /\ agreed.flow.progress \cap Told \subseteq c.known
          /\ ~agreed.flow.authenticated
          /\ Decisions \subseteq c.was => Decided(agreed) = c.decided
          /\ "localDecision" \in agreed.flow.progress =>
                "localDecision" \in c.was \/ Holds(s.out, "Decision", SUBSET Scope)
      BY <2>1, <2>7, <3>1 DEF Talk
    <3>5. /\ "localPrepared" \notin agreed.flow.progress
          /\ "localCommitted" \notin agreed.flow.progress
      BY <1>2, <2>1, <2>7
    <3>6. \A i \in DOMAIN s.out :
             /\ s.out[i].kind = "Decision" => "localDecision" \in agreed.flow.progress
             /\ s.out[i].kind # "Committed"
      BY <2>1, <2>7 DEF Talk
    <3>7. \A i \in DOMAIN s.out :
        /\ s.out[i].kind = "Access" =>
              "localCommitted" \in c.was \/ Before(s.out, i, "Committed", SUBSET Scope)
      BY DEF Talk
    <3>8. agreed \in Handling /\ agreed.out = s.out
      BY <2>6
    <3>. HIDE DEF Decisions
    <3>. QED
      BY <3>1, <3>2, <3>3, <3>4, <3>5, <3>6, <3>7, <3>8 DEF Talk
  <2>9. /\ Talk(Fail(s, TRUE, bad), c) /\ Hold(Fail(s, TRUE, bad), c)
    BY <2>1, FailConducts
  <2>10. /\ Talk(Fail(agreed, TRUE, bad), c) /\ Hold(Fail(agreed, TRUE, bad), c)
    BY <2>7, <2>8, FailConducts
  <2>11. /\ Talk(Fail(Fault(agreed), TRUE, bad), c) /\ Hold(Fail(Fault(agreed), TRUE, bad), c)
    <3>1. Talk(Fault(agreed), c) /\ Fault(agreed).flow.active
      BY <2>7, <2>8, FaultConducts
    <3>. QED
      BY <3>1, FailConducts
  <2>12. /\ Talk(TryComplete(TryCommit(sent, bad), bad), c)
         /\ Hold(TryComplete(TryCommit(sent, bad), bad), c)
    <3>1. /\ saved \in Handling /\ saved.flow = agreed.flow /\ saved.out = s.out
          /\ c.edited \/ saved.faults # 0 \/ saved.stored = saved.devices
          /\ s.flow.trusted => saved.devices = s.devices /\ saved.transaction = 0
          /\ ~s.flow.trusted =>
               /\ saved.transaction = s.flow.request
               /\ \E r \in saved.devices : r.id = s.flow.request /\ r.limit = effective
      <4>1. CASE s.flow.trusted
        BY <2>1, <2>3, <2>6, <4>1 DEF Own
      <4>2. CASE ~s.flow.trusted
        <5>1. agreed.flow.request \in 1 .. MaxAttempt
          BY <2>2, <2>7
        <5>2. /\ Prepare(agreed) \in Handling /\ Prepare(agreed).flow = agreed.flow
              /\ Prepare(agreed).out = agreed.out
              /\ Prepare(agreed).transaction = agreed.flow.request
              /\ Prepare(agreed).stored = Prepare(agreed).devices
              /\ \E r \in Prepare(agreed).devices :
                    r.id = agreed.flow.request /\ r.limit = agreed.flow.effective
          BY <2>6, <5>1, PreparedRecords
        <5>. QED
          BY <2>6, <2>7, <4>2, <5>2
      <4>. QED
        BY <4>1, <4>2
    <3>. HIDE DEF saved
    <3>2. /\ marked \in Handling /\ marked.flow = [saved.flow EXCEPT !.progress = @ \cup {"localPrepared"}]
          /\ marked.devices = saved.devices /\ marked.stored = saved.stored
          /\ marked.out = saved.out
      BY <3>1, MarkAdds DEF Progress
    <3>3. marked.transaction = saved.transaction /\ marked.faults = saved.faults
      BY <3>1 DEF Mark, Handling
    <3>. HIDE DEF marked
    <3>4. /\ marked.flow.progress = s.flow.progress \cup {"localPrepared"}
          /\ marked.flow.request = s.flow.request /\ marked.flow.active
          /\ marked.flow.authenticated = s.flow.authenticated
          /\ marked.flow.trusted = s.flow.trusted /\ marked.flow.outgoing = s.flow.outgoing
          /\ marked.flow.prompt = s.flow.prompt /\ marked.flow.mine = s.flow.mine
          /\ marked.flow.theirs = s.flow.theirs /\ marked.flow.effective = effective
      BY <2>1, <2>7, <3>1, <3>2 DEF Flow
    <3>5. Hold(marked, c)
      <4>1. Own(marked, c.edited)
        <5>1. /\ s.flow.prompt => ~s.flow.trusted
              /\ s.flow.trusted /\ ~s.flow.outgoing /\ "localDecision" \in s.flow.progress =>
                    \E r \in Mutuals(s.devices) : s.flow.mine \subseteq r.limit
          BY <2>1, <2>3 DEF Own
        <5>2. s.flow.request # 0 /\ ~marked.flow.authenticated
          BY <2>1, <2>2, <3>4
        <5>. QED
          BY <2>1, <3>1, <3>2, <3>3, <3>4, <5>1, <5>2 DEF Own
      <4>2. c.alone => marked.devices = c.devices
        BY <2>1, <2>3, <3>1, <3>2 DEF Hold
      <4>. QED
        BY <2>1, <2>3, <3>4, <4>1, <4>2 DEF Hold
    <3>6. Talk(sent, c) /\ Hold(sent, c)
      <4>1. /\ 0 \in Request
            /\ marked.flow.request \in 1 .. MaxAttempt /\ marked.flow.request # 0
            /\ "Ready" \in {"Hello", "Decision", "Ready", "Committed", "Rejected", "Access"}
        BY <2>2, <3>4, AttemptsAreCounted
      <4>2. sent \in Handling /\ sent.flow = marked.flow /\ sent.out = Append(s.out, m)
        <5>1. marked \in Handling /\ marked.out = s.out
          BY <3>1, <3>2
        <5>2. sent \in Handling /\ sent.flow = marked.flow /\ sent.out = Append(marked.out, m)
          BY <2>4, <4>1, <5>1, SendAppends
        <5>. QED
          BY <5>1, <5>2
      <4>3. m \in Message /\ m.kind = "Ready" /\ m.scopes = Decided(s)
        <5>1. m.scopes = effective /\ m.kind = "Ready" /\ m \in Message
          BY <2>4, <4>1 DEF Message
        <5>. QED
          BY <5>1 DEF effective
      <4>4. Hold(sent, c)
        BY <3>2, <3>5, SendHolds
      <4>. HIDE DEF sent, m
      <4>5. Talk(sent, c)
        <5>1. /\ sent.flow.request = s.flow.request /\ sent.flow.active
              /\ sent.flow.authenticated = s.flow.authenticated
              /\ sent.flow.outgoing = s.flow.outgoing /\ sent.flow.theirs = s.flow.theirs
              /\ sent.flow.progress = s.flow.progress \cup {"localPrepared"}
              /\ sent.flow.mine = s.flow.mine /\ sent.flow.effective = Decided(s)
          BY <3>4, <4>2 DEF effective
        <5>2. Decisions \subseteq s.flow.progress
          BY <1>2 DEF Decisions
        <5>. QED
          BY <1>2, <2>1, <4>2, <4>3, <5>1, <5>2, AnnounceTalks
      <4>. QED
        BY <4>4, <4>5
    <3>. HIDE DEF sent
    <3>7. Talk(TryCommit(sent, bad), c) /\ Hold(TryCommit(sent, bad), c)
      BY <3>6, TryCommitConducts
    <3>. QED
      BY <3>7, TryCompleteConducts
  <2>13. \/ TryPrepare(s, bad) = Fail(s, TRUE, bad)
         \/ TryPrepare(s, bad) = Fail(agreed, TRUE, bad)
         \/ TryPrepare(s, bad) = Fail(Fault(agreed), TRUE, bad)
         \/ TryPrepare(s, bad) = TryComplete(TryCommit(sent, bad), bad)
    BY <1>2, <2>5 DEF TryPrepare, Has, sent, marked, saved, agreed
  <2>. QED
    BY <2>1, <2>9, <2>10, <2>11, <2>12, <2>13
<1>3. "localPrepared" \notin s.flow.progress /\ ~s.flow.active =>
         ~({"localDecision", "remoteDecision"} \subseteq s.flow.progress)
  BY DEF Talk, Alive, IdleFlow, Exchanged
<1>. QED
  BY <1>1, <1>2, <1>3

-----------------------------------------------------------------------------
(* What the peer has told, and the handlers that go on from there.          *)

(* What such a side stands on from then on.                                 *)
Since(s, edited) ==
    [request |-> s.flow.request, was |-> s.flow.progress, known |-> s.flow.progress,
     effective |-> s.flow.effective, decided |-> Decided(s),
     alone |-> s.flow.trusted \/ s.flow.authenticated, devices |-> s.devices, edited |-> edited]

\* A handler that has not said or done anything yet.
LEMMA StartConducts ==
    ASSUME NEW s, Starts(s), NEW edited, Own(s, edited),
           NEW c, c = Since(s, edited)
    PROVE  Talk(s, c) /\ Hold(s, c)
<1>1. /\ c.request = s.flow.request /\ c.was = s.flow.progress /\ c.known = s.flow.progress
      /\ c.effective = s.flow.effective /\ c.decided = Decided(s)
      /\ c.alone = (s.flow.trusted \/ s.flow.authenticated) /\ c.devices = s.devices
      /\ c.edited = edited
  BY DEF Since
<1>2. s.flow.active => s.flow.trusted = c.alone
  <2>1. s.flow.trusted \in BOOLEAN
    BY DEF Starts, Handling, Flow
  <2>. QED
    BY <1>1, <2>1 DEF Starts
<1>3. Hold(s, c)
  BY <1>1, <1>2 DEF Hold
<1>4. DOMAIN s.out = {}
  BY DEF Starts
<1>5. Talk(s, c)
  BY <1>1, <1>4 DEF Talk, Starts
<1>. QED
  BY <1>3, <1>5

\* A side decides.
LEMMA SendDecisionConducts ==
    ASSUME NEW c, NEW s, Talk(s, c), Hold(s, c), c.request # 0, NEW bad, s.flow.active,
           NEW scopes \in SUBSET Scope,
           s.flow.trusted /\ ~s.flow.outgoing => \E r \in Mutuals(s.devices) : scopes \subseteq r.limit
    PROVE  /\ Talk(SendDecision(s, scopes, bad), c) /\ Hold(SendDecision(s, scopes, bad), c)
           /\ "remoteDecision" \notin s.flow.progress => SendDecision(s, scopes, bad).flow.active
<1>1. CASE "localDecision" \in s.flow.progress
  BY <1>1 DEF SendDecision, Has
<1>2. CASE "localDecision" \notin s.flow.progress
  <2>. DEFINE marked == Mark(s, "localDecision")
              t == [marked EXCEPT !.flow.mine = scopes]
              m == [kind |-> "Decision", request |-> t.flow.request, trust |-> 0, scopes |-> scopes]
              sent == Send(t, "Decision", 0, scopes)
  <2>1. /\ s \in Handling /\ s.flow \in Flow /\ s.flow.request = c.request
        /\ s.flow.request \in 1 .. MaxAttempt /\ ~s.flow.authenticated
        /\ "localPrepared" \notin s.flow.progress /\ "localCommitted" \notin s.flow.progress
    BY <1>2, BoundsAssumption DEF Talk, Handling, Flow, Request, Alive, Decisions
  <2>2. /\ marked \in Handling /\ marked.flow = [s.flow EXCEPT !.progress = @ \cup {"localDecision"}]
        /\ marked.devices = s.devices /\ marked.stored = s.stored /\ marked.out = s.out
    BY <2>1, MarkAdds DEF Progress
  <2>3. marked.transaction = s.transaction /\ marked.faults = s.faults
    BY <2>1 DEF Mark, Handling
  <2>. HIDE DEF marked
  <2>4. /\ marked.flow \in Flow /\ marked.flow.progress = s.flow.progress \cup {"localDecision"}
        /\ marked.flow.request = s.flow.request /\ marked.flow.active = s.flow.active
        /\ marked.flow.authenticated = s.flow.authenticated
        /\ marked.flow.trusted = s.flow.trusted /\ marked.flow.outgoing = s.flow.outgoing
        /\ marked.flow.prompt = s.flow.prompt /\ marked.flow.theirs = s.flow.theirs
        /\ marked.flow.effective = s.flow.effective
    BY <2>1, <2>2 DEF Flow, Progress
  <2>5. /\ t \in Handling /\ t.flow = [marked.flow EXCEPT !.mine = scopes]
        /\ t.devices = marked.devices /\ t.stored = marked.stored /\ t.out = marked.out
        /\ t.transaction = marked.transaction /\ t.faults = marked.faults
    BY <2>2, <2>4 DEF Handling, Flow
  <2>. HIDE DEF t
  <2>6. /\ t.flow.progress = s.flow.progress \cup {"localDecision"}
        /\ t.flow.request = s.flow.request /\ t.flow.active
        /\ t.flow.authenticated = s.flow.authenticated
        /\ t.flow.trusted = s.flow.trusted /\ t.flow.outgoing = s.flow.outgoing
        /\ t.flow.prompt = s.flow.prompt /\ t.flow.theirs = s.flow.theirs
        /\ t.flow.mine = scopes
    BY <2>4, <2>5 DEF Flow
  <2>7. Hold(t, c)
    <3>1. Own(t, c.edited)
      <4>1. /\ s.flow.prompt => ~s.flow.trusted
            /\ s.transaction # 0 <=> ("localPrepared" \in s.flow.progress /\ ~s.flow.trusted)
            /\ s.transaction # 0 => s.transaction = s.flow.request
            /\ c.edited \/ s.faults # 0 \/ s.stored = s.devices
        BY DEF Hold, Own, Alive
      <4>. QED
        BY <2>1, <2>2, <2>3, <2>5, <2>6, <4>1 DEF Own
    <3>2. s.devices = c.devices /\ s.flow.trusted = c.alone
      BY <2>1 DEF Hold
    <3>. QED
      BY <2>1, <2>2, <2>5, <2>6, <3>1, <3>2 DEF Hold
  <2>8. Talk(sent, c) /\ Hold(sent, c) /\ sent.flow = t.flow
    <3>1. /\ 0 \in Request
          /\ t.flow.request \in 1 .. MaxAttempt /\ t.flow.request # 0
          /\ "Decision" \in {"Hello", "Decision", "Ready", "Committed", "Rejected", "Access"}
      BY <2>1, <2>6, AttemptsAreCounted
    <3>2. sent \in Handling /\ sent.flow = t.flow /\ sent.out = Append(s.out, m)
      <4>1. t \in Handling /\ t.out = s.out
        BY <2>2, <2>5
      <4>2. sent \in Handling /\ sent.flow = t.flow /\ sent.out = Append(t.out, m)
        BY <3>1, <4>1, SendAppends
      <4>. QED
        BY <4>1, <4>2
    <3>3. m \in Message /\ m.kind = "Decision"
      BY <3>1 DEF Message
    <3>4. Hold(sent, c)
      BY <2>5, <2>7, SendHolds
    <3>. HIDE DEF sent, m
    <3>5. /\ sent.flow.request = s.flow.request /\ sent.flow.active
          /\ sent.flow.authenticated = s.flow.authenticated
          /\ sent.flow.outgoing = s.flow.outgoing /\ sent.flow.theirs = s.flow.theirs
          /\ sent.flow.progress = s.flow.progress \cup {"localDecision"}
      BY <2>6, <3>2
    <3>6. Talk(sent, c)
      BY <1>2, <2>1, <3>2, <3>3, <3>5, AnnounceTalks
    <3>. QED
      BY <3>2, <3>4, <3>6
  <2>. HIDE DEF sent
  <2>9. Talk(TryPrepare(sent, bad), c) /\ Hold(TryPrepare(sent, bad), c)
    BY <2>8, TryPrepareConducts
  <2>10. "remoteDecision" \notin s.flow.progress => TryPrepare(sent, bad) = sent
    <3>1. "remoteDecision" \notin s.flow.progress =>
             ~({"localDecision", "remoteDecision"} \subseteq sent.flow.progress)
      BY <2>6, <2>8
    <3>2. ~({"localDecision", "remoteDecision"} \subseteq sent.flow.progress) =>
             TryPrepare(sent, bad) = sent
      BY DEF TryPrepare, Has
    <3>. QED
      BY <3>1, <3>2
  <2>11. SendDecision(s, scopes, bad) = TryPrepare(sent, bad)
    BY <1>2 DEF SendDecision, Has, sent, t, marked
  <2>. QED
    BY <2>6, <2>8, <2>9, <2>10, <2>11
<1>. QED
  BY <1>1, <1>2

(* What a side has come to know from a message.                             *)
Learns(s, u, m) ==
    LET p == s.flow.progress
        q == u.flow.progress
    IN /\ p \subseteq q /\ q \subseteq p \cup {"helloReceived", "remoteDecision", "remotePrepared", "remoteCommitted"}
       /\ p # {} => u.flow.request = s.flow.request
       /\ u.flow.effective = s.flow.effective
       /\ Decisions \subseteq p => Decided(u) = Decided(s)
       /\ "helloReceived" \in q => "helloReceived" \in p \/ m.kind = "Hello"
       /\ "remoteDecision" \in q => "remoteDecision" \in p \/ m.kind = "Decision"
       /\ "remotePrepared" \in q =>
             "remotePrepared" \in p \/ (m.kind = "Ready" /\ m.scopes = Decided(u))
       /\ "remoteCommitted" \in q => "remoteCommitted" \in p \/ m.kind = "Committed"
       /\ u.devices = s.devices /\ u.flow.active = s.flow.active
       /\ s.flow.active \/ u = s
       /\ u.flow.trusted = IF m.kind = "Hello" /\ "helloReceived" \notin p
                           THEN MutualCommitId(s.devices) # 0 /\ MutualCommitId(s.devices) = m.trust
                           ELSE s.flow.trusted

(* A handler acts on it, and an attempt that goes on has taken the message. *)
Leads(s, u, m, t, edited) ==
    /\ Starts(u) /\ Learns(s, u, m)
    /\ Talk(t, Since(u, edited)) /\ Hold(t, Since(u, edited))
    /\ t.flow.active =>
        /\ u.flow.active
        /\ "remoteCommitted" \notin u.flow.progress
        /\ m.kind = "Hello" => "helloReceived" \in u.flow.progress
        /\ m.kind = "Decision" => "remoteDecision" \in u.flow.progress
        /\ m.kind = "Ready" => "remotePrepared" \in u.flow.progress /\ m.scopes = Decided(u)
        /\ m.kind # "Committed"
    /\ ~t.flow.active /\ "helloReceived" \notin s.flow.progress =>
          \A i \in DOMAIN t.out : t.out[i].kind # "Decision"
(* The side "t" is what some handler leaves of "s" and the message.           *)
Answered(s, m, t, edited) == \E u : Leads(s, u, m, t, edited)

\* A flag that the peer has set: nothing else changes.
LEMMA MarkStarts ==
    ASSUME NEW s, Starts(s), NEW edited, Own(s, edited), s.flow.active, s.flow.request # 0,
           NEW flag \in {"remotePrepared", "remoteCommitted"},
           NEW u, u = Mark(s, flag)
    PROVE  /\ Starts(u) /\ Own(u, edited) /\ u.flow.active /\ u.flow.request # 0
           /\ u.flow.progress = s.flow.progress \cup {flag}
           /\ u.flow.request = s.flow.request /\ u.flow.effective = s.flow.effective
           /\ Decided(u) = Decided(s) /\ u.devices = s.devices
           /\ u.flow.trusted = s.flow.trusted /\ u.flow.active = s.flow.active
<1>1. /\ s \in Handling /\ s.flow \in Flow /\ s.out = <<>> /\ ~s.flow.authenticated
  BY DEF Starts, Handling
<1>2. /\ u \in Handling /\ u.flow = [s.flow EXCEPT !.progress = @ \cup {flag}]
      /\ u.devices = s.devices /\ u.stored = s.stored /\ u.out = s.out
  <2>1. flag \in Progress
    BY DEF Progress
  <2>. QED
    BY <1>1, <2>1, MarkAdds
<1>3. u.transaction = s.transaction /\ u.faults = s.faults
  BY <1>1 DEF Mark, Handling
<1>4. /\ u.flow.progress = s.flow.progress \cup {flag}
      /\ u.flow.request = s.flow.request /\ u.flow.active = s.flow.active
      /\ u.flow.authenticated = s.flow.authenticated
      /\ u.flow.trusted = s.flow.trusted /\ u.flow.outgoing = s.flow.outgoing
      /\ u.flow.prompt = s.flow.prompt /\ u.flow.theirs = s.flow.theirs
      /\ u.flow.effective = s.flow.effective /\ u.flow.mine = s.flow.mine
  BY <1>1, <1>2 DEF Flow
<1>5. Decided(u) = Decided(s)
  BY <1>4 DEF Decided
<1>6. Own(u, edited)
  BY <1>1, <1>2, <1>3, <1>4 DEF Own, Alive
<1>7. Starts(u)
  BY <1>1, <1>2, <1>4, <1>5 DEF Starts, Alive, Decisions
<1>. QED
  BY <1>2, <1>4, <1>5, <1>6, <1>7

\* An attempt that fails.
LEMMA FailAnswers ==
    ASSUME NEW s, Starts(s), NEW edited, Own(s, edited), s.flow.active,
           NEW m, m.kind # "Hello", NEW notify \in BOOLEAN, NEW bad
    PROVE  Answered(s, m, Fail(s, notify, bad), edited)
<1>. DEFINE c == Since(s, edited)
            t == Fail(s, notify, bad)
<1>1. Talk(s, c)
  BY StartConducts
<1>. HIDE DEF c
<1>2. Talk(t, c) /\ Hold(t, c) /\ t.flow = IdleFlow
  BY <1>1, FailConducts
<1>3. \A i \in DOMAIN t.out : t.out[i].kind = "Rejected"
  BY FailSays DEF Starts
<1>4. ~t.flow.active
  BY <1>2 DEF IdleFlow
<1>. HIDE DEF t
<1>5. Learns(s, s, m)
  BY DEF Learns
<1>. QED
  BY <1>2, <1>3, <1>4, <1>5 DEF Answered, Leads, c, t

\* Decision.
LEMMA HandleDecisionAnswers ==
    ASSUME NEW s, Starts(s), NEW edited, Own(s, edited), s.flow.active, s.flow.request # 0,
           {"helloReceived"} \subseteq s.flow.progress, "remoteCommitted" \notin s.flow.progress,
           NEW m \in Message, m.kind = "Decision", NEW bad
    PROVE  Answered(s, m, HandleDecision(s, m, bad), edited)
<1>1. CASE "remoteDecision" \in s.flow.progress
  <2>1. HandleDecision(s, m, bad) = s
    BY <1>1 DEF HandleDecision, Has
  <2>2. Talk(s, Since(s, edited)) /\ Hold(s, Since(s, edited))
    BY StartConducts
  <2>3. Learns(s, s, m)
    BY DEF Learns
  <2>. QED
    BY <1>1, <2>1, <2>2, <2>3 DEF Answered, Leads
<1>2. CASE "remoteDecision" \notin s.flow.progress
  <2>. DEFINE marked == Mark(s, "remoteDecision")
              u == [marked EXCEPT !.flow.theirs = m.scopes]
              c == Since(u, edited)
              t == TryPrepare(u, bad)
  <2>1. /\ s \in Handling /\ s.flow \in Flow /\ s.out = <<>> /\ ~s.flow.authenticated
        /\ "localPrepared" \notin s.flow.progress /\ "localCommitted" \notin s.flow.progress
        /\ m.scopes \in SUBSET Scope
    BY <1>2 DEF Starts, Handling, Decisions, Message
  <2>2. /\ marked \in Handling /\ marked.flow = [s.flow EXCEPT !.progress = @ \cup {"remoteDecision"}]
        /\ marked.devices = s.devices /\ marked.stored = s.stored /\ marked.out = s.out
    BY <2>1, MarkAdds DEF Progress
  <2>3. marked.transaction = s.transaction /\ marked.faults = s.faults
    BY <2>1 DEF Mark, Handling
  <2>. HIDE DEF marked
  <2>4. /\ marked.flow \in Flow /\ marked.flow.progress = s.flow.progress \cup {"remoteDecision"}
        /\ marked.flow.request = s.flow.request /\ marked.flow.active = s.flow.active
        /\ marked.flow.authenticated = s.flow.authenticated
        /\ marked.flow.trusted = s.flow.trusted /\ marked.flow.outgoing = s.flow.outgoing
        /\ marked.flow.prompt = s.flow.prompt /\ marked.flow.mine = s.flow.mine
        /\ marked.flow.effective = s.flow.effective
    BY <2>1, <2>2 DEF Flow, Progress
  <2>5. /\ u \in Handling /\ u.flow = [marked.flow EXCEPT !.theirs = m.scopes]
        /\ u.devices = marked.devices /\ u.stored = marked.stored /\ u.out = marked.out
        /\ u.transaction = marked.transaction /\ u.faults = marked.faults
    BY <2>1, <2>2, <2>4 DEF Handling, Flow
  <2>. HIDE DEF u
  <2>6. /\ u.flow.progress = s.flow.progress \cup {"remoteDecision"}
        /\ u.flow.request = s.flow.request /\ u.flow.active = s.flow.active
        /\ u.flow.authenticated = s.flow.authenticated
        /\ u.flow.trusted = s.flow.trusted /\ u.flow.outgoing = s.flow.outgoing
        /\ u.flow.prompt = s.flow.prompt /\ u.flow.mine = s.flow.mine
        /\ u.flow.effective = s.flow.effective
    BY <2>4, <2>5 DEF Flow
  <2>7. Own(u, edited)
    BY <2>1, <2>2, <2>3, <2>5, <2>6 DEF Own, Alive
  <2>8. Starts(u)
    BY <2>1, <2>2, <2>5, <2>6 DEF Starts, Alive
  <2>9. Learns(s, u, m)
    <3>1. ~(Decisions \subseteq s.flow.progress)
      BY <1>2 DEF Decisions
    <3>. QED
      BY <2>2, <2>5, <2>6, <3>1 DEF Learns
  <2>10. Talk(u, c) /\ Hold(u, c) /\ c.request # 0
    BY <2>6, <2>7, <2>8, StartConducts DEF Since
  <2>. HIDE DEF c
  <2>11. Talk(t, c) /\ Hold(t, c)
    BY <2>10, TryPrepareConducts
  <2>. HIDE DEF t
  <2>12. HandleDecision(s, m, bad) = t
    BY <1>2 DEF HandleDecision, Has, t, u, marked
  <2>. QED
    BY <2>6, <2>8, <2>9, <2>11, <2>12 DEF Answered, Leads, c
<1>. QED
  BY <1>1, <1>2

\* Ready.
LEMMA HandleReadyAnswers ==
    ASSUME NEW s, Starts(s), NEW edited, Own(s, edited), s.flow.active, s.flow.request # 0,
           Decisions \subseteq s.flow.progress, "helloReceived" \in s.flow.progress,
           "remoteCommitted" \notin s.flow.progress,
           NEW m \in Message, m.kind = "Ready", NEW bad
    PROVE  Answered(s, m, HandleReady(s, m, bad), edited)
<1>1. CASE m.scopes # Decided(s)
  <2>1. HandleReady(s, m, bad) = Fail(s, TRUE, bad)
    BY <1>1 DEF HandleReady, Decided
  <2>. QED
    BY <2>1, FailAnswers
<1>2. CASE m.scopes = Decided(s)
  <2>. DEFINE u == Mark(s, "remotePrepared")
              c == Since(u, edited)
              v == TryPrepare(u, bad)
              t == TryCommit(v, bad)
  <2>1. /\ Starts(u) /\ Own(u, edited) /\ u.flow.active /\ u.flow.request # 0
        /\ u.flow.progress = s.flow.progress \cup {"remotePrepared"}
        /\ u.flow.request = s.flow.request /\ u.flow.effective = s.flow.effective
        /\ Decided(u) = Decided(s) /\ u.devices = s.devices
        /\ u.flow.trusted = s.flow.trusted /\ u.flow.active = s.flow.active
    BY MarkStarts
  <2>. HIDE DEF u
  <2>2. Learns(s, u, m)
    BY <1>2, <2>1 DEF Learns
  <2>3. Talk(u, c) /\ Hold(u, c) /\ c.request # 0
    BY <2>1, StartConducts DEF Since
  <2>. HIDE DEF c
  <2>4. Talk(v, c) /\ Hold(v, c)
    BY <2>3, TryPrepareConducts
  <2>. HIDE DEF v
  <2>5. Talk(t, c) /\ Hold(t, c)
    BY <2>3, <2>4, TryCommitConducts
  <2>. HIDE DEF t
  <2>6. HandleReady(s, m, bad) = t
    BY <1>2 DEF HandleReady, Has, Decided, Decisions, t, v, u
  <2>. QED
    BY <1>2, <2>1, <2>2, <2>5, <2>6 DEF Answered, Leads, c
<1>. QED
  BY <1>1, <1>2

\* Committed.
LEMMA HandleCommittedAnswers ==
    ASSUME NEW s, Starts(s), NEW edited, Own(s, edited), s.flow.active, s.flow.request # 0,
           {"localPrepared", "remotePrepared"} \subseteq s.flow.progress,
           "helloReceived" \in s.flow.progress,
           NEW m \in Message, m.kind = "Committed", m.scopes = Decided(s), NEW bad
    PROVE  Answered(s, m, HandleCommitted(s, m, bad), edited)
<1>. DEFINE u == Mark(s, "remoteCommitted")
            c == Since(u, edited)
            v == TryCommit(u, bad)
            t == TryComplete(v, bad)
<1>1. /\ Starts(u) /\ Own(u, edited) /\ u.flow.active /\ u.flow.request # 0
      /\ u.flow.progress = s.flow.progress \cup {"remoteCommitted"}
      /\ u.flow.request = s.flow.request /\ u.flow.effective = s.flow.effective
      /\ Decided(u) = Decided(s) /\ u.devices = s.devices
      /\ u.flow.trusted = s.flow.trusted /\ u.flow.active = s.flow.active
  BY MarkStarts
<1>. HIDE DEF u
<1>2. Learns(s, u, m)
  BY <1>1 DEF Learns
<1>3. Talk(u, c) /\ Hold(u, c) /\ c.request # 0
  BY <1>1, StartConducts DEF Since
<1>. HIDE DEF c
<1>4. /\ Talk(v, c) /\ Hold(v, c)
      /\ "localCommitted" \notin u.flow.progress => ~v.flow.active
  BY <1>1, <1>3, TryCommitConducts
<1>5. "localCommitted" \in u.flow.progress => v = u
  BY DEF TryCommit, Has
<1>. HIDE DEF v
<1>6. /\ Talk(t, c) /\ Hold(t, c)
      /\ {"localCommitted", "remoteCommitted"} \subseteq v.flow.progress => ~t.flow.active
      /\ ~v.flow.active => t = v
  BY <1>3, <1>4, TryCompleteConducts
<1>. HIDE DEF t
<1>7. ~t.flow.active
  BY <1>1, <1>4, <1>5, <1>6
<1>8. HandleCommitted(s, m, bad) = t
  <2>1. m.scopes = s.flow.effective
    BY DEF Starts
  <2>. QED
    BY <2>1 DEF HandleCommitted, Has, t, v, u
<1>. QED
  BY <1>1, <1>2, <1>6, <1>7, <1>8 DEF Answered, Leads, c

\* A side that fails before it has decided has not said that it has.
LEMMA FailDecidesNothing ==
    ASSUME NEW c, NEW s, Talk(s, c), s.flow.active, "localDecision" \notin s.flow.progress,
           NEW notify \in BOOLEAN, NEW bad
    PROVE  \A i \in DOMAIN Fail(s, notify, bad).out : Fail(s, notify, bad).out[i].kind # "Decision"
<1>. DEFINE t == Send(s, "Rejected", 0, {})
            m == [kind |-> "Rejected", request |-> s.flow.request, trust |-> 0, scopes |-> {}]
<1>1. /\ s \in Handling /\ s.out \in Seq(Message) /\ s.flow.request \in Request
      /\ \A i \in DOMAIN s.out : s.out[i].kind # "Decision"
  BY DEF Talk, Alive, Handling, Flow
<1>2. CASE notify /\ s.flow.request # 0
  <2>1. Alive(s) /\ 0 \in Request /\ {} \in SUBSET Scope
    BY AttemptsAreCounted DEF Alive
  <2>2. Talk(t, c)
    BY <1>2, <2>1, SendTalks
  <2>3. t.out = Append(s.out, m)
    BY <1>1 DEF Send, Handling
  <2>4. m \in Message /\ m.kind = "Rejected"
    BY <1>1, <1>2, <2>1, BoundsAssumption DEF Message, Request
  <2>. HIDE DEF m
  <2>5. \A i \in DOMAIN t.out : (i \in DOMAIN s.out /\ t.out[i] = s.out[i])
                                \/ (t.out[i] = m /\ i = Len(s.out) + 1)
    BY <1>1, <2>3, <2>4, AppendHolds
  <2>. HIDE DEF t
  <2>6. Fail(s, notify, bad) = Clear(t, bad)
    BY <1>2 DEF Fail, t
  <2>7. Clear(t, bad).out = t.out
    BY <2>2, ClearConducts
  <2>. QED
    BY <1>1, <2>4, <2>5, <2>6, <2>7
<1>3. CASE ~(notify /\ s.flow.request # 0)
  <2>1. Fail(s, notify, bad) = Clear(s, bad)
    BY <1>3 DEF Fail
  <2>2. Clear(s, bad).out = s.out
    BY ClearConducts
  <2>. QED
    BY <1>1, <2>1, <2>2
<1>. QED
  BY <1>2, <1>3

\* A side that trusts decides, another one asks its user.
LEMMA DecideConducts ==
    ASSUME NEW c, NEW s, Talk(s, c), Hold(s, c), c.request # 0, NEW bad, s.flow.active,
           "localDecision" \notin s.flow.progress, "remoteDecision" \notin s.flow.progress,
           s.flow.trusted => Mutuals(s.devices) # {}
    PROVE  /\ Talk(Decide(s, bad), c) /\ Hold(Decide(s, bad), c)
           /\ ~Decide(s, bad).flow.active =>
                 \A i \in DOMAIN Decide(s, bad).out : Decide(s, bad).out[i].kind # "Decision"
<1>1. s \in Handling /\ s.flow \in Flow /\ s.devices \in SUBSET TrustRecord
  BY DEF Talk, Handling
<1>2. CASE s.flow.trusted
  <2>. DEFINE n == Oldest(Mutuals(s.devices))
              scopes == IF s.flow.outgoing THEN Scope ELSE UNION {r.limit : r \in Found(s.devices)}
  <2>1. n \in Mutuals(s.devices) /\ Found(s.devices) = {n} /\ n \in TrustRecord
    <3>1. Mutuals(s.devices) \in SUBSET TrustRecord
      BY <1>1 DEF Mutuals
    <3>2. n \in Mutuals(s.devices)
      BY <1>2, <3>1, OldestExists
    <3>. QED
      BY <1>2, <3>1, <3>2 DEF Found
  <2>. HIDE DEF n
  <2>2. UNION {r.limit : r \in Found(s.devices)} = n.limit
    BY <2>1
  <2>3. scopes \in SUBSET Scope /\ (~s.flow.outgoing => scopes = n.limit)
    BY <2>1, <2>2 DEF TrustRecord
  <2>. HIDE DEF scopes
  <2>4. s.flow.trusted /\ ~s.flow.outgoing => \E r \in Mutuals(s.devices) : scopes \subseteq r.limit
    BY <2>1, <2>3
  <2>5. /\ Talk(SendDecision(s, scopes, bad), c) /\ Hold(SendDecision(s, scopes, bad), c)
        /\ SendDecision(s, scopes, bad).flow.active
    BY <2>3, <2>4, SendDecisionConducts
  <2>6. Decide(s, bad) = SendDecision(s, scopes, bad)
    BY <1>2 DEF Decide, scopes
  <2>. QED
    BY <2>5, <2>6
<1>3. CASE ~s.flow.trusted /\ "exporter" \in bad
  <2>1. Talk(Fault(s), c) /\ Fault(s).flow = s.flow
    BY FaultConducts
  <2>2. /\ Talk(Fail(Fault(s), TRUE, bad), c) /\ Hold(Fail(Fault(s), TRUE, bad), c)
        /\ \A i \in DOMAIN Fail(Fault(s), TRUE, bad).out :
              Fail(Fault(s), TRUE, bad).out[i].kind # "Decision"
    BY <2>1, FailConducts, FailDecidesNothing
  <2>3. Decide(s, bad) = Fail(Fault(s), TRUE, bad)
    BY <1>3 DEF Decide
  <2>. QED
    BY <2>2, <2>3
<1>4. CASE ~s.flow.trusted /\ "exporter" \notin bad
  <2>. DEFINE t == [s EXCEPT !.flow.prompt = TRUE]
  <2>1. /\ t \in Handling /\ t.out = s.out /\ t.devices = s.devices
        /\ t.stored = s.stored /\ t.transaction = s.transaction /\ t.faults = s.faults
        /\ t.flow.progress = s.flow.progress /\ t.flow.request = s.flow.request
        /\ t.flow.active = s.flow.active /\ t.flow.authenticated = s.flow.authenticated
        /\ t.flow.trusted = s.flow.trusted /\ t.flow.outgoing = s.flow.outgoing
        /\ t.flow.mine = s.flow.mine /\ t.flow.theirs = s.flow.theirs
        /\ t.flow.effective = s.flow.effective
    BY <1>1 DEF Handling, Flow
  <2>. HIDE DEF t
  <2>2. Talk(t, c)
    BY <2>1, TalkStays DEF Alive
  <2>3. Hold(t, c)
    BY <1>4, <2>1, HoldStays
  <2>4. Decide(s, bad) = t
    BY <1>4 DEF Decide, t
  <2>. QED
    BY <2>1, <2>2, <2>3, <2>4
<1>. QED
  BY <1>2, <1>3, <1>4

\* The Hello of a side.
LEMMA SendHelloConducts ==
    ASSUME NEW c, NEW s, Talk(s, c), Hold(s, c), c.request # 0, s.flow.active
    PROVE  /\ Talk(SendHello(s), c) /\ Hold(SendHello(s), c)
           /\ SendHello(s).flow.active /\ SendHello(s).flow.trusted = s.flow.trusted
           /\ SendHello(s).devices = s.devices
           /\ SendHello(s).flow.progress \subseteq s.flow.progress \cup {"helloSent"}
<1>1. CASE "helloSent" \in s.flow.progress
  BY <1>1 DEF SendHello, Has
<1>2. CASE "helloSent" \notin s.flow.progress
  <2>. DEFINE marked == Mark(s, "helloSent")
              k == MutualCommitId(s.devices)
              sent == Send(marked, "Hello", k, Scope)
  <2>1. s \in Handling /\ s.flow \in Flow /\ s.flow.request = c.request /\ k \in Request
    BY RecordsStandForPeer DEF Talk, Handling, Alive
  <2>2. /\ marked \in Handling /\ marked.flow = [s.flow EXCEPT !.progress = @ \cup {"helloSent"}]
        /\ marked.devices = s.devices /\ marked.stored = s.stored /\ marked.out = s.out
    BY <2>1, MarkAdds DEF Progress
  <2>3. marked.transaction = s.transaction /\ marked.faults = s.faults
    BY <2>1 DEF Mark, Handling
  <2>4. SendHello(s) = sent
    <3>1. MutualCommitId(marked.devices) = k
      BY <2>2
    <3>. QED
      BY <1>2 DEF SendHello, Has
  <2>. HIDE DEF marked, k
  <2>5. /\ marked.flow.progress = s.flow.progress \cup {"helloSent"}
        /\ marked.flow.request = s.flow.request /\ marked.flow.active = s.flow.active
        /\ marked.flow.authenticated = s.flow.authenticated
        /\ marked.flow.trusted = s.flow.trusted /\ marked.flow.outgoing = s.flow.outgoing
        /\ marked.flow.prompt = s.flow.prompt /\ marked.flow.mine = s.flow.mine
        /\ marked.flow.theirs = s.flow.theirs /\ marked.flow.effective = s.flow.effective
    BY <2>1, <2>2 DEF Flow
  <2>6. Decided(marked) = Decided(s) /\ Alive(marked)
    BY <2>5 DEF Decided, Alive
  <2>7. Talk(marked, c)
    <3>. DEFINE q == marked.flow.progress
    <3>1. Alive(s)
      BY DEF Alive
    <3>2. /\ marked.flow.request = c.request /\ c.was \subseteq q
          /\ q \cap Told \subseteq c.known
          /\ ~marked.flow.authenticated
      BY <2>5, <3>1 DEF Talk, Told
    <3>3. /\ "localPrepared" \in q => Decisions \subseteq q /\ marked.flow.effective = Decided(marked)
          /\ "localCommitted" \in q => {"localPrepared", "remotePrepared"} \subseteq q
          /\ "localPrepared" \in c.was => marked.flow.effective = c.effective
          /\ Decisions \subseteq c.was => Decided(marked) = c.decided
      BY <2>5, <2>6, <3>1 DEF Talk
    <3>4. /\ "localDecision" \in q =>
                "localDecision" \in c.was \/ Holds(marked.out, "Decision", SUBSET Scope)
          /\ "localPrepared" \in q =>
                "localPrepared" \in c.was \/ Holds(marked.out, "Ready", {marked.flow.effective})
          /\ "localCommitted" \in q =>
                "localCommitted" \in c.was \/ Holds(marked.out, "Committed", {marked.flow.effective})
      BY <2>2, <2>5, <3>1 DEF Talk
    <3>5. \A i \in DOMAIN marked.out :
            /\ marked.out[i].kind = "Decision" => "localDecision" \in q
            /\ marked.out[i].kind = "Ready" =>
                  "localPrepared" \in q /\ marked.out[i].scopes = marked.flow.effective
            /\ marked.out[i].kind = "Committed" => "localCommitted" \in q
      BY <2>2, <2>5, <3>1 DEF Talk
    <3>6. \A i \in DOMAIN marked.out :
            /\ marked.out[i].kind = "Ready" =>
                /\ "remoteDecision" \in c.known
                /\ "localDecision" \in c.was \/ Before(marked.out, i, "Decision", SUBSET Scope)
            /\ marked.out[i].kind = "Committed" =>
                /\ "remotePrepared" \in c.known
                /\ \/ "localPrepared" \in c.was /\ marked.out[i].scopes = c.effective
                   \/ Before(marked.out, i, "Ready", {marked.out[i].scopes})
            /\ marked.out[i].kind = "Access" =>
                  "localCommitted" \in c.was \/ Before(marked.out, i, "Committed", SUBSET Scope)
      BY <2>2 DEF Talk
    <3>. QED
      BY <2>2, <2>6, <3>2, <3>3, <3>4, <3>5, <3>6 DEF Talk
  <2>8. Hold(marked, c)
    BY <2>2, <2>3, <2>5 DEF Hold, Own, Alive
  <2>9. Scope \in SUBSET Scope /\ marked.flow.request # 0
    BY <2>1, <2>5
  <2>10. Talk(sent, c)
    BY <2>1, <2>6, <2>7, <2>9, SendTalks
  <2>11. Hold(sent, c) /\ sent.flow = marked.flow /\ sent.devices = marked.devices
    BY <2>2, <2>8, SendHolds
  <2>. QED
    BY <2>2, <2>4, <2>5, <2>10, <2>11
<1>. QED
  BY <1>1, <1>2

\* Hello.
LEMMA HandleHelloAnswers ==
    ASSUME NEW s, Starts(s), NEW edited, Own(s, edited), s.flow.active, ~s.flow.prompt,
           s.flow.progress \subseteq {"helloSent"},
           NEW m \in Message, m.kind = "Hello", NEW bad,
           s.flow.progress # {} \/ s.flow.outgoing => s.flow.request = m.request
    PROVE  Answered(s, m, HandleHello(s, m, bad), edited)
<1>. DEFINE known == Found(s.devices)
            trusted == MutualCommitId(s.devices) # 0 /\ MutualCommitId(s.devices) = m.trust
            within == trusted /\ \A r \in known : Scope \ {FileTransfer} \subseteq r.limit
            marked == Mark(s, "helloReceived")
            u == [marked EXCEPT
                         !.flow.request = m.request,
                         !.flow.trusted = trusted,
                         !.flow.within = within]
            c == Since(u, edited)
            failed == Fail(u, TRUE, bad)
            greeting == SendHello(u)
            decided == Decide(greeting, bad)
            t == HandleHello(s, m, bad)
<1>1. /\ s \in Handling /\ s.flow \in Flow /\ s.out = <<>> /\ ~s.flow.authenticated
      /\ s.transaction = 0 /\ m.request \in 1 .. MaxAttempt /\ m.request \in Request /\ m.request # 0
  BY BoundsAssumption DEF Starts, Own, Handling, Message, Request
<1>2. /\ marked \in Handling /\ marked.devices = s.devices
      /\ marked.stored = s.stored /\ marked.out = s.out
      /\ marked.flow = [s.flow EXCEPT !.progress = @ \cup {"helloReceived"}]
  BY <1>1, MarkAdds DEF Progress
<1>3. marked.transaction = s.transaction /\ marked.faults = s.faults
  BY <1>1 DEF Mark, Handling
<1>4. t = IF \E r \in known : r.revoked THEN failed ELSE decided
  BY DEF HandleHello
<1>. HIDE DEF marked, t
<1>5. trusted \in BOOLEAN /\ within \in BOOLEAN
  OBVIOUS
<1>6. trusted => Mutuals(s.devices) # {}
  BY DEF MutualCommitId
<1>7. trusted = (MutualCommitId(s.devices) # 0 /\ MutualCommitId(s.devices) = m.trust)
  OBVIOUS
<1>. HIDE DEF trusted, within
<1>8. /\ u \in Handling /\ u.devices = s.devices /\ u.stored = s.stored
      /\ u.transaction = s.transaction /\ u.faults = s.faults
      /\ u.out = <<>> /\ u.flow \in Flow
  <2>1. marked.flow \in Flow
    BY <1>2 DEF Handling
  <2>. QED
    BY <1>1, <1>2, <1>3, <1>5, <2>1 DEF Handling, Flow
<1>9. /\ u.flow.progress = s.flow.progress \cup {"helloReceived"}
      /\ u.flow.request = m.request /\ u.flow.active = s.flow.active
      /\ u.flow.authenticated = s.flow.authenticated
      /\ u.flow.trusted = trusted /\ u.flow.outgoing = s.flow.outgoing
      /\ u.flow.prompt = s.flow.prompt /\ u.flow.effective = s.flow.effective
  BY <1>1, <1>2, <1>5 DEF Handling, Flow
<1>. HIDE DEF u
<1>10. Starts(u)
  BY <1>1, <1>8, <1>9 DEF Starts, Alive
<1>11. Own(u, edited)
  <2>1. edited \/ s.faults # 0 \/ s.stored = s.devices
    BY DEF Own, Alive
  <2>2. /\ "localPrepared" \notin u.flow.progress /\ "localDecision" \notin u.flow.progress
        /\ "localCommitted" \notin u.flow.progress
    BY <1>9
  <2>. QED
    BY <1>1, <1>8, <1>9, <2>1, <2>2 DEF Own
<1>12. Learns(s, u, m)
  <2>1. ~(Decisions \subseteq s.flow.progress)
    BY DEF Decisions
  <2>2. s.flow.progress # {} => u.flow.request = s.flow.request
    BY <1>9
  <2>3. "helloReceived" \notin s.flow.progress
    OBVIOUS
  <2>4. /\ "remoteDecision" \notin u.flow.progress /\ "remotePrepared" \notin u.flow.progress
        /\ "remoteCommitted" \notin u.flow.progress
    BY <1>9
  <2>. QED
    BY <1>7, <1>8, <1>9, <2>1, <2>2, <2>3, <2>4 DEF Learns
<1>13. Talk(u, c) /\ Hold(u, c) /\ c.request # 0
  BY <1>1, <1>9, <1>10, <1>11, StartConducts DEF Since
<1>14. c.was = u.flow.progress /\ u.flow.active
  BY <1>9 DEF Since
<1>. HIDE DEF c
<1>15. /\ Talk(failed, c) /\ Hold(failed, c) /\ failed.flow = IdleFlow
       /\ \A i \in DOMAIN failed.out : failed.out[i].kind # "Decision"
  <2>1. "localDecision" \notin u.flow.progress
    BY <1>9
  <2>. QED
    BY <1>13, <1>14, <2>1, FailConducts, FailDecidesNothing
<1>. HIDE DEF failed
<1>16. /\ Talk(greeting, c) /\ Hold(greeting, c) /\ greeting.flow.active
       /\ greeting.flow.trusted = trusted /\ greeting.devices = s.devices
       /\ greeting.flow.progress \subseteq u.flow.progress \cup {"helloSent"}
  BY <1>8, <1>9, <1>13, <1>14, SendHelloConducts
<1>. HIDE DEF greeting
<1>17. /\ Talk(decided, c) /\ Hold(decided, c)
       /\ ~decided.flow.active => \A i \in DOMAIN decided.out : decided.out[i].kind # "Decision"
  <2>1. /\ "localDecision" \notin greeting.flow.progress
        /\ "remoteDecision" \notin greeting.flow.progress
    BY <1>9, <1>16
  <2>2. greeting.flow.trusted => Mutuals(greeting.devices) # {}
    BY <1>6, <1>16
  <2>. QED
    BY <1>13, <1>16, <2>1, <2>2, DecideConducts
<1>. HIDE DEF decided
<1>18. Talk(t, c) /\ Hold(t, c)
  BY <1>4, <1>15, <1>17
<1>19. ~t.flow.active => \A i \in DOMAIN t.out : t.out[i].kind # "Decision"
  BY <1>4, <1>15, <1>17
<1>20. "helloReceived" \in u.flow.progress /\ "remoteCommitted" \notin u.flow.progress
  BY <1>9
<1>21. Answered(s, m, t, edited)
  BY <1>10, <1>12, <1>14, <1>18, <1>19, <1>20 DEF Answered, Leads, c
<1>. QED
  BY <1>21 DEF t

-----------------------------------------------------------------------------
(* What the two sides of a connection have to do with each other.           *)

(* The step of a device that goes from "side[d]" to "u", when it notes what  *)
(* the message "m" tells, if there is one, and then to "t".                 *)
Acts(d, u, m, t, inbox) ==
    /\ Leads(side[d], u, m, t, edits # 0)
    /\ Run(d, t, inbox)
    /\ UNCHANGED <<attempt, edits>>
    /\ link'[Other(d)] = link[Other(d)] /\ link'[d] # "secured"
    /\ t.flow.active => Active(d)
    /\ ~Active(d) => t.out = <<>> /\ t.flow.progress \subseteq side[d].flow.progress
    /\ \/ inbox = channel[d] /\ m.kind = "None"
       \/ channel[d] # <<>> /\ inbox = Tail(channel[d]) /\ m = channel[d][1]
       \/ Left(inbox, channel[d]) /\ m.kind = "None" /\ ~t.flow.active

\* The state before and after such a step.
LEMMA ActsRun ==
    ASSUME Typed, NEW d \in Device, NEW u, NEW m, NEW t, NEW inbox,
           Acts(d, u, m, t, inbox), NEW e, e = Other(d)
    PROVE  /\ e \in Device /\ e # d /\ Other(e) = d
           /\ t \in Handling /\ t.out \in Seq(Message) /\ inbox \in Seq(Message)
           /\ channel[d] \in Seq(Message) /\ channel[e] \in Seq(Message)
           /\ \A i \in DOMAIN inbox : \E k \in DOMAIN channel[d] : inbox[i] = channel[d][k]
           /\ side'[d].flow = t.flow /\ side'[d].devices = t.devices
           /\ side'[d].stored = t.stored /\ side'[d].faults = t.faults
           /\ side'[d].transaction = t.transaction /\ side'[d].out = <<>>
           /\ side'[d] \in Handling
           /\ side'[e] = side[e]
           /\ channel'[d] = inbox
           /\ channel'[e] = IF link[e] = "down" THEN channel[e] ELSE channel[e] \o t.out
           /\ (Active(d)' <=> t.flow.active) /\ (Active(e)' <=> Active(e))
           /\ (Heard(d)' <=> "helloReceived" \in t.flow.progress) /\ (Heard(e)' <=> Heard(e))
           /\ Known(e)' = Known(e) /\ Known(d)' = MutualCommitId(t.devices)
           /\ (Live(e)' <=> Live(e)) /\ (Live(d)' <=> t.flow.request = attempt /\ t.flow.progress # {})
           /\ attempt' = attempt
<1>. DEFINE v == [t EXCEPT !.out = <<>>]
<1>1. e \in Device /\ e # d /\ Other(e) = d
  BY TwoDevices
<1>2. t \in Handling
  BY DEF Acts, Leads, Talk
<1>3. t.out \in Seq(Message) /\ channel[d] \in Seq(Message) /\ channel[e] \in Seq(Message)
  BY <1>1, <1>2, SidesAreHandled DEF Handling
<1>4. Left(inbox, channel[d])
  BY DEF Acts, Left
<1>5. /\ inbox \in Seq(Message)
      /\ \A i \in DOMAIN inbox : \E k \in DOMAIN channel[d] : inbox[i] = channel[d][k]
  BY <1>3, <1>4, LeftBehind
<1>6. /\ side \in [Device -> Side] /\ channel \in [Device -> Seq(Message)]
  BY TypesOfState
<1>7. side' = [side EXCEPT ![d] = v]
  BY DEF Acts, Run
<1>8. /\ v.flow = t.flow /\ v.devices = t.devices /\ v.stored = t.stored /\ v.faults = t.faults
      /\ v.transaction = t.transaction /\ v.out = <<>> /\ v \in Handling
  <2>1. <<>> \in Seq(Message)
    OBVIOUS
  <2>. QED
    BY <1>2, <2>1 DEF Handling
<1>. HIDE DEF v
<1>9. side'[d] = v /\ side'[e] = side[e]
  BY <1>1, <1>6, <1>7
<1>10. /\ channel'[d] = inbox
       /\ channel'[e] = IF link[e] = "down" THEN channel[e] ELSE channel[e] \o t.out
  BY <1>1, <1>6 DEF Acts, Run
<1>11. attempt' = attempt
  BY DEF Acts
<1>. QED
  BY <1>1, <1>2, <1>3, <1>5, <1>8, <1>9, <1>10, <1>11 DEF Active, Heard, Known, Live

\* What such a step does to the flow.
LEMMA LeadsGrow ==
    ASSUME NEW s, NEW u, NEW m, NEW t, NEW edited, Leads(s, u, m, t, edited)
    PROVE  /\ s.flow.progress \subseteq u.flow.progress
           /\ ~Alive(t) => /\ t.flow.progress = {} /\ t.flow.request = 0
                           /\ ~t.flow.active /\ ~t.flow.authenticated
           /\ t.flow.progress # {} => Alive(t)
           /\ Alive(t) =>
                /\ t.flow.request = u.flow.request
                /\ u.flow.progress \subseteq t.flow.progress
                /\ t.flow.progress \cap Told \subseteq u.flow.progress
                /\ s.flow.progress # {} => t.flow.request = s.flow.request
                /\ Decisions \subseteq u.flow.progress => Decided(t) = Decided(u)
                /\ Decisions \subseteq s.flow.progress => Decided(t) = Decided(s)
                /\ "localPrepared" \in u.flow.progress => t.flow.effective = s.flow.effective
           /\ t.flow.active => ~t.flow.authenticated
           /\ t.flow.authenticated => Exchanged \subseteq t.flow.progress
           /\ s.flow.active \/ u = s
           /\ u.flow.effective = s.flow.effective
<1>. DEFINE c == Since(u, edited)
<1>1. /\ c.request = u.flow.request /\ c.was = u.flow.progress /\ c.known = u.flow.progress
      /\ c.effective = u.flow.effective /\ c.decided = Decided(u)
  BY DEF Since
<1>2. Talk(t, c) /\ Learns(s, u, m)
  BY DEF Leads
<1>. HIDE DEF c
<1>3. /\ ~Alive(t) => t.flow = IdleFlow
      /\ t.flow.active => ~t.flow.authenticated
      /\ t.flow.authenticated => Exchanged \subseteq t.flow.progress
  BY <1>2 DEF Talk, Alive
<1>4. ~Alive(t) => /\ t.flow.progress = {} /\ t.flow.request = 0
                   /\ ~t.flow.active /\ ~t.flow.authenticated
  BY <1>3 DEF IdleFlow, Alive
<1>5. Alive(t) =>
         /\ t.flow.request = u.flow.request
         /\ u.flow.progress \subseteq t.flow.progress
         /\ t.flow.progress \cap Told \subseteq u.flow.progress
         /\ "localPrepared" \in u.flow.progress => t.flow.effective = u.flow.effective
         /\ Decisions \subseteq u.flow.progress => Decided(t) = Decided(u)
  BY <1>1, <1>2 DEF Talk
<1>6. /\ s.flow.progress \subseteq u.flow.progress
      /\ s.flow.progress # {} => u.flow.request = s.flow.request
      /\ u.flow.effective = s.flow.effective
      /\ Decisions \subseteq s.flow.progress => Decided(u) = Decided(s)
      /\ s.flow.active \/ u = s
  BY <1>2 DEF Learns
<1>. QED
  BY <1>3, <1>4, <1>5, <1>6

\* The message it takes fits in with what has been exchanged.
LEMMA ActsHear ==
    ASSUME Typed, IInv, IInv', AgreeInv, NEW d \in Device, NEW u, NEW m, NEW t, NEW inbox,
           Acts(d, u, m, t, inbox), NEW p, p = side[d].flow.progress
    PROVE  /\ m.kind # "None" => 1 \in DOMAIN channel[d] /\ m = channel[d][1]
           /\ Active(d) =>
                /\ side[d].flow.request \in {0, attempt}
                /\ p # {} => Live(d)
                /\ m.kind = "Decision" => Heard(d)
                /\ m.kind = "Ready" => Decisions \subseteq p
                /\ m.kind = "Committed" =>
                      {"localPrepared", "remotePrepared"} \subseteq p /\ m.scopes = Decided(side[d])
                /\ m.kind # "Access"
                /\ t.flow.progress # {} => t.flow.request = attempt
                /\ t.flow.authenticated => Decisions \cup {"localPrepared"} \subseteq p /\ Heard(d)
           /\ ~Active(d) /\ t.flow.authenticated => side[d].flow.authenticated
<1>. DEFINE q == channel[d]
            e == Other(d)
<1>1. /\ e \in Device /\ q \in Seq(Message) /\ side'[d].flow = t.flow
      /\ Active(d)' <=> t.flow.active
      /\ attempt' = attempt
  BY ActsRun
<1>2. Rest(d) /\ Messages(d) /\ SideSound(d) /\ SideSound(d)'
  BY DEF AgreeInv, Bound, IInv
<1>3. m.kind # "None" => q # <<>> /\ m = q[1]
  BY DEF Acts
<1>4. q # <<>> => 1 \in DOMAIN q
  BY <1>1
<1>5. Active(d) => /\ side[d].flow.request \in {0, attempt}
                   /\ p # {} => Live(d)
                   /\ ~side[d].flow.authenticated
  BY <1>2 DEF SideSound, InOrder, Behind, Active, Live
<1>6. \A kind, scopes : ~Before(q, 1, kind, scopes)
  BY <1>1 DEF Before
<1>7. ASSUME Active(d), m.kind # "None"
      PROVE  /\ m.kind = "Decision" => Heard(d)
             /\ m.kind = "Ready" => Decisions \subseteq p
             /\ m.kind = "Committed" =>
                   {"localPrepared", "remotePrepared"} \subseteq p /\ m.scopes = Decided(side[d])
             /\ m.kind # "Access"
  BY <1>2, <1>3, <1>4, <1>6, <1>7 DEF Messages, HelloFirst, Decisions
<1>8. /\ p \subseteq u.flow.progress
      /\ t.flow.progress # {} => Alive(t)
      /\ Alive(t) =>
           /\ t.flow.request = u.flow.request
           /\ t.flow.progress \cap Told \subseteq u.flow.progress
           /\ p # {} => t.flow.request = side[d].flow.request
      /\ t.flow.active => ~t.flow.authenticated
      /\ t.flow.authenticated => Exchanged \subseteq t.flow.progress
      /\ side[d].flow.active \/ u = side[d]
  BY LeadsGrow DEF Acts
<1>9. t.flow.active /\ t.flow.progress # {} => t.flow.request = attempt
  BY <1>1, <1>2 DEF SideSound, InOrder, Behind, Active
<1>10. ASSUME Active(d), t.flow.authenticated
       PROVE  Decisions \cup {"localPrepared"} \subseteq p /\ Heard(d) /\ t.flow.request = attempt
  <2>1. {"remotePrepared", "remoteCommitted"} \subseteq u.flow.progress
    BY <1>8, <1>10 DEF Exchanged, Told, Alive
  <2>2. {"remotePrepared", "remoteCommitted"} \subseteq p \/ m.kind \in {"Ready", "Committed"}
    BY <2>1 DEF Acts, Leads, Learns
  <2>3. InOrder(side[d], Behind(d))
    BY <1>2, <1>10 DEF SideSound
  <2>4. "remoteCommitted" \notin p
    BY <1>2, <1>10 DEF Rest, Active
  <2>5. "remoteCommitted" \in p \/ m.kind = "Committed"
    BY <2>1 DEF Acts, Leads, Learns
  <2>6. "localPrepared" \in p
    BY <1>7, <1>10, <2>4, <2>5
  <2>7. Decisions \subseteq p /\ Heard(d)
    BY <2>3, <2>6 DEF InOrder, Decisions, Heard
  <2>. QED
    BY <1>5, <1>8, <1>10, <2>6, <2>7 DEF Live, Alive
<1>11. ASSUME ~Active(d), t.flow.authenticated
       PROVE  side[d].flow.authenticated
  <2>1. p # {}
    BY <1>8, <1>11 DEF Acts, Exchanged
  <2>. QED
    BY <1>2, <1>11, <2>1 DEF Rest, Starts, Alive, IdleFlow, Active
<1>12. Active(d) /\ t.flow.progress # {} => t.flow.request = attempt
  BY <1>8, <1>9, <1>10 DEF Alive
<1>13. m.kind # "None" => 1 \in DOMAIN channel[d] /\ m = channel[d][1]
  BY <1>3, <1>4
<1>14. Active(d) => /\ m.kind = "Decision" => Heard(d)
                    /\ m.kind = "Ready" => Decisions \subseteq p
                    /\ m.kind = "Committed" =>
                         {"localPrepared", "remotePrepared"} \subseteq p /\ m.scopes = Decided(side[d])
                    /\ m.kind # "Access"
  BY <1>7
<1>. QED
  BY <1>5, <1>10, <1>11, <1>12, <1>13, <1>14

\* What a side knows of a peer that is under way, the peer has done.
LEMMA ActsTold ==
    ASSUME Typed, IInv, IInv', AgreeInv, NEW d \in Device, NEW u, NEW m, NEW t, NEW inbox,
           Acts(d, u, m, t, inbox), NEW e, e = Other(d), Active(e),
           side[d].flow.progress # {} => Live(d)
    PROVE  /\ "remoteDecision" \in u.flow.progress => "localDecision" \in side[e].flow.progress
           /\ "remotePrepared" \in u.flow.progress => "localPrepared" \in side[e].flow.progress
<1>. DEFINE p == side[d].flow.progress
            f == side[e].flow
<1>1. e \in Device /\ Other(e) = d
  BY ActsRun
<1>2. Follows(e) /\ Sent(e) /\ SideSound(e) /\ ChannelSound(e)
  BY <1>1 DEF AgreeInv, Bound, IInv
<1>3. m.kind # "None" => 1 \in DOMAIN channel[d] /\ m = channel[d][1]
  BY ActsHear
<1>4. /\ "remoteDecision" \in p => "localDecision" \in f.progress
      /\ "remotePrepared" \in p => "localPrepared" \in f.progress
  BY <1>1, <1>2 DEF Follows
<1>5. m.kind # "None" => Live(e)
  <2>1. channel[d] # <<>> => Spoke(e)
    BY <1>1, <1>2 DEF ChannelSound
  <2>2. f.progress # {} => Live(e)
    BY <1>2 DEF SideSound, InOrder, Behind, Live
  <2>3. 1 \in DOMAIN channel[d] => channel[d] # <<>>
    OBVIOUS
  <2>. QED
    BY <1>3, <2>1, <2>2, <2>3 DEF Spoke
<1>6. /\ m.kind = "Decision" => "localDecision" \in f.progress
      /\ m.kind = "Ready" => "localPrepared" \in f.progress
  BY <1>1, <1>2, <1>3, <1>5 DEF Sent
<1>7. /\ "remoteDecision" \in u.flow.progress => "remoteDecision" \in p \/ m.kind = "Decision"
      /\ "remotePrepared" \in u.flow.progress => "remotePrepared" \in p \/ m.kind = "Ready"
  BY DEF Acts, Leads, Learns
<1>. QED
  BY <1>4, <1>6, <1>7

\* Each side is left in order.
LEMMA ActsRest ==
    ASSUME Typed, IInv, IInv', AgreeInv, NEW d \in Device, NEW u, NEW m, NEW t, NEW inbox,
           Acts(d, u, m, t, inbox)
    PROVE  Rest(d)' /\ Rest(Other(d))'
<1>. DEFINE e == Other(d)
            edited == edits # 0
            c == Since(u, edited)
            v == side'[d]
<1>1. /\ e \in Device /\ t \in Handling
      /\ v.flow = t.flow /\ v.devices = t.devices /\ v.stored = t.stored /\ v.faults = t.faults
      /\ v.transaction = t.transaction /\ v.out = <<>> /\ v \in Handling
      /\ side'[e] = side[e] /\ attempt' = attempt
  BY ActsRun
<1>2. edits' = edits
  BY DEF Acts
<1>3. Rest(e)'
  <2>1. Rest(e)
    BY <1>1 DEF AgreeInv, Bound
  <2>. QED
    BY <1>1, <1>2, <2>1 DEF Rest
<1>4. Talk(t, c) /\ Hold(t, c) /\ c.edited = edited
  BY DEF Acts, Leads, Since
<1>. HIDE DEF c
<1>5. Own(t, edited)
  BY <1>4 DEF Hold
<1>. HIDE DEF v
<1>6. Own(v, edited)
  BY <1>1, <1>5 DEF Own, Alive
<1>7. Starts(v)
  <2>1. Decided(v) = Decided(t) /\ (Alive(v) <=> Alive(t))
    BY <1>1 DEF Decided, Alive
  <2>2. /\ ~Alive(t) => t.flow = IdleFlow
        /\ Alive(t) =>
             /\ t.flow.authenticated => ~t.flow.active /\ Exchanged \subseteq t.flow.progress
             /\ "localPrepared" \in t.flow.progress =>
                   Decisions \subseteq t.flow.progress /\ t.flow.effective = Decided(t)
             /\ "localCommitted" \in t.flow.progress =>
                   {"localPrepared", "remotePrepared"} \subseteq t.flow.progress
    BY <1>4 DEF Talk
  <2>3. ~Alive(t) => t.flow.progress = {} /\ ~t.flow.authenticated
    BY <2>2 DEF IdleFlow, Alive
  <2>. QED
    BY <1>1, <2>1, <2>2, <2>3 DEF Starts
<1>8. Rest(d) /\ SideSound(d) /\ SideSound(d)' /\ attempt \in Nat
  <2>1. attempt \in Nat
    BY TypesOfState, BoundsAssumption DEF Request
  <2>. QED
    BY <2>1 DEF AgreeInv, Bound, IInv
<1>9. /\ ~Alive(t) => t.flow.progress = {} /\ t.flow.request = 0 /\ ~t.flow.active
      /\ Alive(t) => t.flow.progress \cap Told \subseteq u.flow.progress
      /\ Alive(t) /\ side[d].flow.progress # {} => t.flow.request = side[d].flow.request
      /\ side[d].flow.active \/ u = side[d]
      /\ t.flow.authenticated => Exchanged \subseteq t.flow.progress
  BY LeadsGrow DEF Acts
<1>10. /\ Active(d) /\ t.flow.progress # {} => t.flow.request = attempt
       /\ ~Active(d) /\ t.flow.authenticated => side[d].flow.authenticated
  BY ActsHear
<1>11. t.flow.active => /\ "remoteCommitted" \notin t.flow.progress
                        /\ t.flow.request \in {0, attempt} /\ attempt # 0
  <2>1. t.flow.active => "remoteCommitted" \notin u.flow.progress
    BY DEF Acts, Leads
  <2>2. t.flow.active => t.flow.request \in {0, attempt}
    BY <1>1, <1>8 DEF SideSound, InOrder, Behind, Active, v
  <2>3. Active(d) => attempt # 0
    BY <1>8 DEF SideSound
  <2>4. t.flow.active => Active(d) /\ "remoteCommitted" \notin t.flow.progress
    BY <1>9, <2>1 DEF Acts, Told, Alive
  <2>. QED
    BY <2>2, <2>3, <2>4
<1>12. t.flow.authenticated => t.flow.request <= attempt /\ t.flow.request # 0
  <2>1. CASE Active(d)
    <3>1. attempt # 0
      BY <1>8, <2>1 DEF SideSound
    <3>. QED
      BY <1>8, <1>9, <1>10, <2>1, <3>1 DEF Exchanged
  <2>2. CASE ~Active(d)
    <3>1. t.flow.authenticated => side[d].flow.progress # {}
      BY <1>9, <1>10, <2>2 DEF Acts, Exchanged
    <3>. QED
      BY <1>8, <1>9, <3>1 DEF Rest, Alive
  <2>. QED
    BY <2>1, <2>2
<1>13. t.flow.request <= attempt /\ (t.flow.progress # {} => t.flow.request # 0)
  BY <1>8, <1>9, <1>10, <1>11, <1>12 DEF Alive, Acts
<1>14. Rest(d)'
  BY <1>1, <1>2, <1>6, <1>7, <1>11, <1>13 DEF Rest, v
<1>. QED
  BY <1>3, <1>14

\* The messages left to a device that goes on still come in order.
LEMMA ActsLeaveMessages ==
    ASSUME Typed, IInv, IInv', AgreeInv, NEW d \in Device, NEW u, NEW m, NEW t, NEW inbox,
           Acts(d, u, m, t, inbox), t.flow.active
    PROVE  /\ Messages(d)'
           /\ \A kind, scopes : Holds(channel[d], kind, scopes) =>
                 Holds(inbox, kind, scopes) \/ (m.kind = kind /\ m.scopes \in scopes)
<1>. DEFINE q == channel[d]
            s == side[d]
            p == side[d].flow.progress
            after == t.flow.progress
<1>1. /\ q \in Seq(Message) /\ side'[d].flow = t.flow /\ channel'[d] = inbox
      /\ Heard(d)' <=> "helloReceived" \in after
  BY ActsRun
<1>2. Active(d) /\ m.kind # "Committed"
  BY DEF Acts, Leads
<1>3. Messages(d) /\ Rest(d)
  BY DEF AgreeInv, Bound
<1>4. Alive(t)
  BY DEF Alive
<1>5. p \subseteq after
  BY <1>4, LeadsGrow DEF Acts
<1>6. /\ m.kind = "Hello" => "helloReceived" \in after
      /\ m.kind = "Decision" => "remoteDecision" \in after
      /\ m.kind = "Ready" => "remotePrepared" \in after /\ m.scopes = Decided(u)
  <2>1. /\ m.kind = "Hello" => "helloReceived" \in u.flow.progress
        /\ m.kind = "Decision" => "remoteDecision" \in u.flow.progress
        /\ m.kind = "Ready" => "remotePrepared" \in u.flow.progress /\ m.scopes = Decided(u)
    BY DEF Acts, Leads
  <2>2. u.flow.progress \subseteq after
    BY <1>4, LeadsGrow DEF Acts
  <2>. QED
    BY <2>1, <2>2
<1>7. "localPrepared" \in p => Decided(t) = Decided(s) /\ Decided(u) = Decided(s)
  <2>1. "localPrepared" \in p => Decisions \subseteq p
    BY <1>3 DEF Rest, Starts
  <2>2. Decisions \subseteq p => Decided(t) = Decided(s)
    BY <1>4, LeadsGrow DEF Acts
  <2>3. Decisions \subseteq p => Decided(u) = Decided(s)
    BY DEF Acts, Leads, Learns
  <2>. QED
    BY <2>1, <2>2, <2>3
<1>8. Decided(side'[d]) = Decided(t)
  BY <1>1 DEF Decided
<1>9. \A i \in DOMAIN q :
        /\ q[i].kind = "Decision" => "helloReceived" \in p \/ HelloFirst(d)
        /\ q[i].kind = "Ready" =>
            /\ "localDecision" \in p
            /\ "remoteDecision" \in p \/ Before(q, i, "Decision", SUBSET Scope)
        /\ q[i].kind = "Committed" =>
            /\ "localPrepared" \in p
            /\ \/ "remotePrepared" \in p /\ q[i].scopes = Decided(s)
               \/ Before(q, i, "Ready", {q[i].scopes})
        /\ q[i].kind = "Access" => Before(q, i, "Committed", SUBSET Scope)
  BY <1>2, <1>3 DEF Messages, Heard
<1>10. CASE inbox = q /\ m.kind = "None"
  <2>1. HelloFirst(d)' <=> HelloFirst(d)
    BY <1>1, <1>10 DEF HelloFirst
  <2>2. \A i \in DOMAIN inbox :
          /\ inbox[i].kind = "Decision" => Heard(d)' \/ HelloFirst(d)'
          /\ inbox[i].kind = "Ready" =>
              /\ "localDecision" \in after
              /\ "remoteDecision" \in after \/ Before(inbox, i, "Decision", SUBSET Scope)
          /\ inbox[i].kind = "Committed" =>
              /\ "localPrepared" \in after
              /\ \/ "remotePrepared" \in after /\ inbox[i].scopes = Decided(t)
                 \/ Before(inbox, i, "Ready", {inbox[i].scopes})
          /\ inbox[i].kind = "Access" => Before(inbox, i, "Committed", SUBSET Scope)
    BY <1>1, <1>5, <1>7, <1>9, <1>10, <2>1
  <2>3. Messages(d)'
    BY <1>1, <1>8, <2>2 DEF Messages
  <2>. QED
    BY <1>10, <2>3
<1>11. CASE q # <<>> /\ inbox = Tail(q) /\ m = q[1]
  <2>1. /\ \A i \in DOMAIN inbox : i + 1 \in DOMAIN q /\ inbox[i] = q[i + 1]
        /\ \A i \in DOMAIN inbox : \A kind, scopes :
              Before(q, i + 1, kind, scopes) =>
                 (m.kind = kind /\ m.scopes \in scopes) \/ Before(inbox, i, kind, scopes)
        /\ \A kind, scopes : Holds(q, kind, scopes) =>
              (m.kind = kind /\ m.scopes \in scopes) \/ Holds(inbox, kind, scopes)
    BY <1>1, <1>11, TailHolds
  <2>2. HelloFirst(d) => "helloReceived" \in after
    BY <1>6, <1>11 DEF HelloFirst
  <2>3. ASSUME NEW i \in DOMAIN inbox
        PROVE  /\ inbox[i].kind = "Decision" => "helloReceived" \in after
               /\ inbox[i].kind = "Ready" =>
                   /\ "localDecision" \in after
                   /\ "remoteDecision" \in after \/ Before(inbox, i, "Decision", SUBSET Scope)
               /\ inbox[i].kind = "Committed" =>
                   /\ "localPrepared" \in after
                   /\ \/ "remotePrepared" \in after /\ inbox[i].scopes = Decided(t)
                      \/ Before(inbox, i, "Ready", {inbox[i].scopes})
               /\ inbox[i].kind = "Access" => Before(inbox, i, "Committed", SUBSET Scope)
    <3>. DEFINE k == i + 1
    <3>1. k \in DOMAIN q /\ inbox[i] = q[k]
      BY <2>1
    <3>2. \A kind, scopes : Before(q, k, kind, scopes) =>
             (m.kind = kind /\ m.scopes \in scopes) \/ Before(inbox, i, kind, scopes)
      BY <2>1
    <3>. HIDE DEF k, q, s, p, after
    <3>3. inbox[i].kind = "Decision" => "helloReceived" \in after
      BY <1>5, <1>9, <2>2, <3>1
    <3>4. inbox[i].kind = "Ready" =>
             /\ "localDecision" \in after
             /\ "remoteDecision" \in after \/ Before(inbox, i, "Decision", SUBSET Scope)
      BY <1>5, <1>6, <1>9, <3>1, <3>2
    <3>5. inbox[i].kind = "Committed" =>
             /\ "localPrepared" \in after
             /\ \/ "remotePrepared" \in after /\ inbox[i].scopes = Decided(t)
                \/ Before(inbox, i, "Ready", {inbox[i].scopes})
      BY <1>5, <1>6, <1>7, <1>9, <3>1, <3>2
    <3>6. inbox[i].kind = "Access" => Before(inbox, i, "Committed", SUBSET Scope)
      BY <1>2, <1>9, <3>1, <3>2
    <3>. QED
      BY <3>3, <3>4, <3>5, <3>6
  <2>4. Messages(d)'
    BY <1>1, <1>8, <2>3 DEF Messages
  <2>. QED
    BY <2>1, <2>4
<1>. QED
  BY <1>10, <1>11 DEF Acts

\* The messages to its peer come in order, too.
LEMMA ActsSendMessages ==
    ASSUME Typed, IInv, IInv', AgreeInv, NEW d \in Device, NEW u, NEW m, NEW t, NEW inbox,
           Acts(d, u, m, t, inbox)
    PROVE  Messages(Other(d))'
<1>. DEFINE e == Other(d)
            q == channel[e]
            r == channel'[e]
            f == side[e].flow
            out == t.out
            s == side[d]
            p == side[d].flow.progress
            c == Since(u, edits # 0)
<1>. SUFFICES ASSUME Active(e)' PROVE Messages(e)'
  BY DEF Messages
<1>1. /\ e \in Device /\ Other(e) = d /\ q \in Seq(Message) /\ out \in Seq(Message)
      /\ side'[e] = side[e] /\ r = IF link[e] = "down" THEN q ELSE q \o out
      /\ Heard(e)' <=> Heard(e)
      /\ Active(e)' <=> Active(e)
      /\ Active(d)' <=> t.flow.active
      /\ Heard(d)' <=> "helloReceived" \in t.flow.progress
  BY ActsRun
<1>2. /\ Messages(e) /\ Follows(e) /\ Accords(e) /\ Rest(e) /\ Rest(d)
      /\ SideSound(e) /\ ChannelSound(e) /\ ChannelSound(e)' /\ SideSound(d)'
  BY <1>1 DEF AgreeInv, Bound, IInv
<1>3. r = q \o out
  BY <1>1, <1>2 DEF SideSound
<1>. HIDE DEF q, r, out
<1>4. /\ r \in Seq(Message)
      /\ \A i \in DOMAIN r : \/ i \in DOMAIN q /\ r[i] = q[i]
                             \/ i - Len(q) \in DOMAIN out /\ r[i] = out[i - Len(q)]
      /\ \A i \in DOMAIN q : \A kind, scopes : Before(q, i, kind, scopes) => Before(r, i, kind, scopes)
      /\ \A i \in DOMAIN out : \A kind, scopes :
            Holds(q, kind, scopes) \/ Before(out, i, kind, scopes)
                => Before(r, i + Len(q), kind, scopes)
      /\ \A kind, scopes : Holds(q, kind, scopes) \/ Holds(out, kind, scopes) =>
                             Holds(r, kind, scopes)
  <2>1. q \in Seq(Message) /\ out \in Seq(Message)
    BY <1>1 DEF q, out
  <2>. QED
    BY <1>3, <2>1, JoinHolds, ZenonT(60)
<1>5. HelloFirst(e) => HelloFirst(e)'
  <2>1. q # <<>> => r # <<>> /\ r[1] = q[1]
    BY <1>1, <1>3, <1>4, Delivered DEF Extends
  <2>. QED
    BY <2>1 DEF HelloFirst, q, r
<1>6. out # <<>> => Active(d) /\ (p # {} => Live(d))
  BY ActsHear DEF Acts, out
<1>7. out # <<>> =>
        /\ "remoteDecision" \in u.flow.progress => "localDecision" \in f.progress
        /\ "remotePrepared" \in u.flow.progress => "localPrepared" \in f.progress
  BY <1>1, <1>6, ActsTold
<1>8. Talk(t, c) /\ c.known = u.flow.progress /\ c.was = u.flow.progress
      /\ c.effective = s.flow.effective
  BY LeadsGrow DEF Acts, Leads, Since
<1>9. \A i \in DOMAIN q :
        /\ q[i].kind = "Decision" => Heard(e) \/ HelloFirst(e)
        /\ q[i].kind = "Ready" =>
            /\ "localDecision" \in f.progress
            /\ "remoteDecision" \in f.progress \/ Before(q, i, "Decision", SUBSET Scope)
        /\ q[i].kind = "Committed" =>
            /\ "localPrepared" \in f.progress
            /\ \/ "remotePrepared" \in f.progress /\ q[i].scopes = Decided(side[e])
               \/ Before(q, i, "Ready", {q[i].scopes})
        /\ q[i].kind = "Access" => Before(q, i, "Committed", SUBSET Scope)
  BY <1>1, <1>2 DEF Messages, q
<1>. HIDE DEF c, e, f
\* What has been said before this step.
<1>10. out # <<>> =>
         /\ "localDecision" \in u.flow.progress =>
               "remoteDecision" \in f.progress \/ Holds(q, "Decision", SUBSET Scope)
         /\ "localPrepared" \in u.flow.progress =>
               ("remotePrepared" \in f.progress /\ Decided(side[e]) = s.flow.effective)
               \/ Holds(q, "Ready", {s.flow.effective})
         /\ "localCommitted" \in u.flow.progress => Holds(q, "Committed", SUBSET Scope)
  <2>. SUFFICES ASSUME out # <<>>
                PROVE  /\ "localDecision" \in u.flow.progress =>
                             "remoteDecision" \in f.progress \/ Holds(q, "Decision", SUBSET Scope)
                       /\ "localPrepared" \in u.flow.progress =>
                             ("remotePrepared" \in f.progress /\ Decided(side[e]) = s.flow.effective)
                             \/ Holds(q, "Ready", {s.flow.effective})
                       /\ "localCommitted" \in u.flow.progress => Holds(q, "Committed", SUBSET Scope)
    OBVIOUS
  <2>1. \A flag \in {"localDecision", "localPrepared", "localCommitted"} :
           flag \in u.flow.progress => flag \in p
    BY DEF Acts, Leads, Learns
  <2>3. p # {} =>
          /\ "localDecision" \in p =>
                "remoteDecision" \in f.progress \/ Holds(q, "Decision", SUBSET Scope)
          /\ "localPrepared" \in p =>
                "remotePrepared" \in f.progress \/ Holds(q, "Ready", {s.flow.effective})
          /\ "localCommitted" \in p => Holds(q, "Committed", {s.flow.effective})
    BY <1>1, <1>2, <1>6 DEF Follows, f, q
  <2>4. "remotePrepared" \in f.progress /\ "localPrepared" \in p =>
           Decided(side[e]) = s.flow.effective
    <3>1. Live(d) /\ Active(e) /\ f.progress # {} => f.request = s.flow.request
      BY <1>2 DEF Live, SideSound, InOrder, Behind, f
    <3>. QED
      BY <1>1, <1>2, <1>6, <3>1 DEF Accords, f
  <2>5. s.flow.effective \in SUBSET Scope
    BY <1>2 DEF Rest, Starts, Handling, Flow
  <2>6. Holds(q, "Committed", {s.flow.effective}) => Holds(q, "Committed", SUBSET Scope)
    BY <2>5 DEF Holds
  <2>. QED
    BY <2>1, <2>3, <2>4, <2>6
<1>11. ASSUME NEW i \in DOMAIN out
       PROVE  /\ out[i].kind = "Decision" => Heard(e) \/ HelloFirst(e)'
              /\ out[i].kind = "Ready" =>
                  /\ "localDecision" \in f.progress
                  /\ "remoteDecision" \in f.progress \/ Before(r, i + Len(q), "Decision", SUBSET Scope)
              /\ out[i].kind = "Committed" =>
                  /\ "localPrepared" \in f.progress
                  /\ \/ "remotePrepared" \in f.progress /\ out[i].scopes = Decided(side[e])
                     \/ Before(r, i + Len(q), "Ready", {out[i].scopes})
              /\ out[i].kind = "Access" => Before(r, i + Len(q), "Committed", SUBSET Scope)
  <2>1. out # <<>>
    BY <1>11
  <2>2. /\ out[i].kind = "Ready" =>
            /\ "remoteDecision" \in u.flow.progress
            /\ "localDecision" \in u.flow.progress \/ Before(out, i, "Decision", SUBSET Scope)
        /\ out[i].kind = "Committed" =>
            /\ "remotePrepared" \in u.flow.progress
            /\ \/ "localPrepared" \in u.flow.progress /\ out[i].scopes = s.flow.effective
               \/ Before(out, i, "Ready", {out[i].scopes})
        /\ out[i].kind = "Access" =>
              "localCommitted" \in u.flow.progress \/ Before(out, i, "Committed", SUBSET Scope)
    BY <1>8 DEF Talk, out
  <2>3. out[i].kind = "Decision" => Heard(e) \/ HelloFirst(e)'
    <3>1. CASE t.flow.active
      <4>1. out[i].kind = "Decision" => "localDecision" \in t.flow.progress
        BY <1>8, <3>1 DEF Talk, Alive, out
      <4>2. "localDecision" \in t.flow.progress => Heard(d)'
        <5>1. side'[d].flow = t.flow
          BY ActsRun
        <5>. QED
          BY <1>1, <1>2, <3>1, <5>1 DEF SideSound, InOrder
      <4>3. Heard(d)' => Heard(e)' \/ HelloFirst(e)'
        BY <1>1, <1>2, <3>1 DEF ChannelSound
      <4>. QED
        BY <1>1, <4>1, <4>2, <4>3
    <3>2. CASE ~t.flow.active
      <4>1. out[i].kind = "Decision" => Heard(d)
        BY <3>2 DEF Acts, Leads, Heard, out
      <4>2. Heard(d) => Heard(e) \/ HelloFirst(e)
        BY <1>1, <1>2, <1>6, <2>1 DEF ChannelSound
      <4>. QED
        BY <1>5, <4>1, <4>2
    <3>. QED
      BY <3>1, <3>2
  <2>4. out[i].kind = "Ready" =>
          /\ "localDecision" \in f.progress
          /\ "remoteDecision" \in f.progress \/ Before(r, i + Len(q), "Decision", SUBSET Scope)
    BY <1>4, <1>7, <1>10, <2>1, <2>2
  <2>5. out[i].kind = "Committed" =>
          /\ "localPrepared" \in f.progress
          /\ \/ "remotePrepared" \in f.progress /\ out[i].scopes = Decided(side[e])
             \/ Before(r, i + Len(q), "Ready", {out[i].scopes})
    BY <1>4, <1>7, <1>10, <2>1, <2>2
  <2>6. out[i].kind = "Access" => Before(r, i + Len(q), "Committed", SUBSET Scope)
    BY <1>4, <1>10, <2>1, <2>2
  <2>. QED
    BY <2>3, <2>4, <2>5, <2>6
<1>12. ASSUME NEW i \in DOMAIN r
       PROVE  /\ r[i].kind = "Decision" => Heard(e) \/ HelloFirst(e)'
              /\ r[i].kind = "Ready" =>
                  /\ "localDecision" \in f.progress
                  /\ "remoteDecision" \in f.progress \/ Before(r, i, "Decision", SUBSET Scope)
              /\ r[i].kind = "Committed" =>
                  /\ "localPrepared" \in f.progress
                  /\ \/ "remotePrepared" \in f.progress /\ r[i].scopes = Decided(side[e])
                     \/ Before(r, i, "Ready", {r[i].scopes})
              /\ r[i].kind = "Access" => Before(r, i, "Committed", SUBSET Scope)
  <2>1. CASE i \in DOMAIN q /\ r[i] = q[i]
    BY <1>4, <1>5, <1>9, <2>1
  <2>2. CASE i - Len(q) \in DOMAIN out /\ r[i] = out[i - Len(q)]
    <3>. DEFINE k == i - Len(q)
    <3>1. k + Len(q) = i
      BY <1>1, <1>4
    <3>2. k \in DOMAIN out /\ r[i] = out[k]
      BY <2>2
    <3>. HIDE DEF k
    <3>. QED
      BY <1>11, <3>1, <3>2
  <2>. QED
    BY <1>4, <2>1, <2>2
<1>. QED
  BY <1>1, <1>12 DEF Messages, r, f, e

\* A device that goes on has still to learn what it does not know.
LEMMA ActsFollow ==
    ASSUME Typed, IInv, IInv', AgreeInv, NEW d \in Device, NEW u, NEW m, NEW t, NEW inbox,
           Acts(d, u, m, t, inbox)
    PROVE  Follows(d)'
<1>. DEFINE e == Other(d)
            f == side[e].flow
            p == side[d].flow.progress
            after == t.flow.progress
<1>. SUFFICES ASSUME Active(d)', Live(e)' PROVE Follows(d)'
  BY DEF Follows
<1>1. /\ e \in Device /\ side'[e] = side[e] /\ side'[d].flow = t.flow /\ channel'[d] = inbox
      /\ t.flow.active /\ Live(e) /\ Active(d)
  <2>1. /\ e \in Device /\ side'[e] = side[e] /\ side'[d].flow = t.flow /\ channel'[d] = inbox
        /\ t.flow.active /\ Live(e)
    BY ActsRun
  <2>. QED
    BY <2>1 DEF Acts
<1>2. Follows(d) /\ m.kind # "Committed"
  BY <1>1 DEF AgreeInv, Bound, Acts, Leads
<1>3. Alive(t)
  BY <1>1 DEF Alive
<1>4. p \subseteq u.flow.progress /\ u.flow.progress \subseteq after
  BY <1>3, LeadsGrow DEF Acts
<1>5. /\ m.kind = "Decision" => "remoteDecision" \in after
      /\ m.kind = "Ready" => "remotePrepared" \in after
  BY <1>1, <1>4 DEF Acts, Leads
<1>6. \A kind, scopes : Holds(channel[d], kind, scopes) =>
         Holds(inbox, kind, scopes) \/ (m.kind = kind /\ m.scopes \in scopes)
  BY <1>1, ActsLeaveMessages
<1>7. /\ "localDecision" \in f.progress =>
            "remoteDecision" \in p \/ Holds(channel[d], "Decision", SUBSET Scope)
      /\ "localPrepared" \in f.progress =>
            "remotePrepared" \in p \/ Holds(channel[d], "Ready", {f.effective})
      /\ "localCommitted" \in f.progress => Holds(channel[d], "Committed", {f.effective})
      /\ "remoteDecision" \in f.progress => "localDecision" \in p
      /\ "remotePrepared" \in f.progress => "localPrepared" \in p
  BY <1>1, <1>2 DEF Follows
<1>. HIDE DEF f
<1>8. /\ "localDecision" \in f.progress =>
            "remoteDecision" \in after \/ Holds(inbox, "Decision", SUBSET Scope)
      /\ "localPrepared" \in f.progress =>
            "remotePrepared" \in after \/ Holds(inbox, "Ready", {f.effective})
  BY <1>4, <1>5, <1>6, <1>7
<1>9. "localCommitted" \in f.progress => Holds(inbox, "Committed", {f.effective})
  BY <1>2, <1>6, <1>7
<1>10. /\ "remoteDecision" \in f.progress => "localDecision" \in after
       /\ "remotePrepared" \in f.progress => "localPrepared" \in after
  BY <1>4, <1>7
<1>. QED
  BY <1>1, <1>8, <1>9, <1>10 DEF Follows, f

\* Its peer knows what it has done, or is about to learn.
LEMMA ActsLead ==
    ASSUME Typed, IInv, IInv', AgreeInv, NEW d \in Device, NEW u, NEW m, NEW t, NEW inbox,
           Acts(d, u, m, t, inbox)
    PROVE  Follows(Other(d))'
<1>. DEFINE e == Other(d)
            q == channel[e]
            r == channel'[e]
            g == side[e].flow.progress
            s == side[d]
            p == side[d].flow.progress
            after == t.flow.progress
            out == t.out
            c == Since(u, edits # 0)
<1>1. /\ e \in Device /\ Other(e) = d /\ q \in Seq(Message) /\ out \in Seq(Message)
      /\ side'[e] = side[e] /\ r = IF link[e] = "down" THEN q ELSE q \o out
      /\ side'[d].flow = t.flow /\ attempt' = attempt
      /\ Active(e)' <=> Active(e)
      /\ Live(d)' <=> t.flow.request = attempt /\ after # {}
  BY ActsRun
<1>. SUFFICES ASSUME Active(e), t.flow.request = attempt, after # {}
              PROVE  /\ "localDecision" \in after =>
                           "remoteDecision" \in g \/ Holds(r, "Decision", SUBSET Scope)
                     /\ "localPrepared" \in after =>
                           "remotePrepared" \in g \/ Holds(r, "Ready", {t.flow.effective})
                     /\ "localCommitted" \in after => Holds(r, "Committed", {t.flow.effective})
                     /\ "remoteDecision" \in after => "localDecision" \in g
                     /\ "remotePrepared" \in after => "localPrepared" \in g
  BY <1>1 DEF Follows
<1>2. Follows(e) /\ SideSound(e) /\ Rest(d)
  BY <1>1 DEF AgreeInv, Bound, IInv
<1>3. r = q \o out
  BY <1>1, <1>2 DEF SideSound
<1>. HIDE DEF q, r, out
<1>4. \A kind, scopes : Holds(q, kind, scopes) \/ Holds(out, kind, scopes) => Holds(r, kind, scopes)
  BY <1>1, <1>3, JoinHolds, ZenonT(60)
<1>5. /\ Alive(t)
      /\ p \subseteq u.flow.progress
      /\ after \cap Told \subseteq u.flow.progress
      /\ p # {} => t.flow.request = s.flow.request
      /\ "localPrepared" \in u.flow.progress => t.flow.effective = s.flow.effective
  BY LeadsGrow DEF Acts
<1>6. p # {} => Live(d)
  BY <1>5 DEF Live
<1>7. /\ "remoteDecision" \in u.flow.progress => "localDecision" \in g
      /\ "remotePrepared" \in u.flow.progress => "localPrepared" \in g
  BY <1>6, ActsTold
<1>8. \A flag \in {"localDecision", "localPrepared", "localCommitted"} :
         flag \in u.flow.progress => flag \in p
  BY DEF Acts, Leads, Learns
<1>9. /\ "localDecision" \in p =>
            "remoteDecision" \in g \/ Holds(q, "Decision", SUBSET Scope)
      /\ "localPrepared" \in p =>
            "remotePrepared" \in g \/ Holds(q, "Ready", {s.flow.effective})
      /\ "localCommitted" \in p => Holds(q, "Committed", {s.flow.effective})
  BY <1>1, <1>2, <1>6 DEF Follows, q
<1>10. "localCommitted" \in p => "localPrepared" \in p
  BY <1>2 DEF Rest, Starts
<1>11. Talk(t, c) /\ c.was = u.flow.progress
  BY DEF Acts, Leads, Since
<1>. HIDE DEF c
<1>12. /\ "localDecision" \in after =>
             "localDecision" \in u.flow.progress \/ Holds(out, "Decision", SUBSET Scope)
       /\ "localPrepared" \in after =>
             "localPrepared" \in u.flow.progress \/ Holds(out, "Ready", {t.flow.effective})
       /\ "localCommitted" \in after =>
             "localCommitted" \in u.flow.progress \/ Holds(out, "Committed", {t.flow.effective})
  BY <1>5, <1>11 DEF Talk, out
<1>. HIDE DEF g, p, after
<1>13. "localDecision" \in after =>
          "remoteDecision" \in g \/ Holds(r, "Decision", SUBSET Scope)
  BY <1>4, <1>8, <1>9, <1>12
<1>14. "localPrepared" \in after =>
          "remotePrepared" \in g \/ Holds(r, "Ready", {t.flow.effective})
  BY <1>4, <1>5, <1>8, <1>9, <1>12
<1>15. "localCommitted" \in after => Holds(r, "Committed", {t.flow.effective})
  BY <1>4, <1>5, <1>8, <1>9, <1>10, <1>12
<1>16. /\ "remoteDecision" \in after => "localDecision" \in g
       /\ "remotePrepared" \in after => "localPrepared" \in g
  BY <1>5, <1>7 DEF Told
<1>. QED
  BY <1>13, <1>14, <1>15, <1>16

\* What is on its way is of the side that sent it.
LEMMA ActsSent ==
    ASSUME Typed, IInv, IInv', AgreeInv, NEW d \in Device, NEW u, NEW m, NEW t, NEW inbox,
           Acts(d, u, m, t, inbox)
    PROVE  Sent(d)' /\ Sent(Other(d))'
<1>. DEFINE e == Other(d)
            q == channel[e]
            r == channel'[e]
            s == side[d]
            p == side[d].flow.progress
            after == t.flow.progress
            out == t.out
            c == Since(u, edits # 0)
<1>1. /\ e \in Device /\ Other(e) = d /\ q \in Seq(Message) /\ out \in Seq(Message)
      /\ r = IF link[e] = "down" THEN q ELSE q \o out
      /\ side'[e] = side[e] /\ side'[d].flow = t.flow /\ channel'[d] = inbox
      /\ \A i \in DOMAIN inbox : \E k \in DOMAIN channel[d] : inbox[i] = channel[d][k]
      /\ Live(e)' <=> Live(e)
      /\ Live(d)' <=> t.flow.request = attempt /\ after # {}
  BY ActsRun
<1>2. Sent(d) /\ Sent(e) /\ ChannelSound(d) /\ Rest(d)
  BY <1>1 DEF AgreeInv, Bound, IInv
<1>3. Sent(e)'
  BY <1>1, <1>2 DEF Sent
<1>4. CASE ~Live(d)'
  BY <1>3, <1>4 DEF Sent
<1>5. CASE Live(d)'
  <2>1. /\ Alive(t)
        /\ p \subseteq u.flow.progress /\ u.flow.progress \subseteq after
        /\ after \cap Told \subseteq u.flow.progress
        /\ p # {} => t.flow.request = s.flow.request
        /\ "localPrepared" \in u.flow.progress => t.flow.effective = s.flow.effective
    BY <1>1, <1>5, LeadsGrow DEF Acts
  <2>2. p # {} => Live(d)
    BY <1>1, <1>5, <2>1 DEF Live
  <2>3. p = {} => q = <<>>
    <3>1. ~Active(d) => p # {}
      BY <1>1, <1>5 DEF Acts
    <3>. QED
      BY <1>2, <3>1 DEF ChannelSound, Spoke
  <2>4. Talk(t, c)
    BY DEF Acts, Leads
  <2>. HIDE DEF c, q, r, out
  <2>5. \A i \in DOMAIN out :
          /\ out[i].kind = "Decision" => "localDecision" \in after
          /\ out[i].kind = "Ready" => "localPrepared" \in after /\ out[i].scopes = t.flow.effective
          /\ out[i].kind = "Committed" => "localCommitted" \in after
    BY <2>1, <2>4 DEF Talk, out
  <2>6. \A i \in DOMAIN q :
          /\ q[i].kind = "Decision" => "localDecision" \in after
          /\ q[i].kind = "Ready" => "localPrepared" \in after /\ q[i].scopes = t.flow.effective
          /\ q[i].kind = "Committed" => "localCommitted" \in after
    BY <1>2, <2>1, <2>2, <2>3 DEF Sent, q
  <2>7. \A i \in DOMAIN r : \/ i \in DOMAIN q /\ r[i] = q[i]
                            \/ \E j \in DOMAIN out : r[i] = out[j]
    <3>1. r \in Seq(Message) /\ Extends(r, q, out)
      BY <1>1 DEF Extends
    <3>. QED
      BY <1>1, <3>1, Delivered
  <2>8. \A i \in DOMAIN r :
          /\ r[i].kind = "Decision" => "localDecision" \in after
          /\ r[i].kind = "Ready" => "localPrepared" \in after /\ r[i].scopes = t.flow.effective
          /\ r[i].kind = "Committed" => "localCommitted" \in after
    BY <2>5, <2>6, <2>7
  <2>9. Sent(d)'
    BY <1>1, <2>8 DEF Sent, r
  <2>. QED
    BY <1>3, <2>9
<1>. QED
  BY <1>4, <1>5

\* The sides go by the same scopes still.
LEMMA ActsAccord ==
    ASSUME Typed, IInv, IInv', AgreeInv, NEW d \in Device, NEW u, NEW m, NEW t, NEW inbox,
           Acts(d, u, m, t, inbox)
    PROVE  Accords(d)' /\ Accords(Other(d))'
<1>. DEFINE e == Other(d)
            s == side[d]
            f == side[d].flow
            p == side[d].flow.progress
            g == side[e].flow
            after == t.flow.progress
<1>1. /\ e \in Device /\ Other(e) = d
      /\ side'[e] = side[e] /\ side'[d].flow = t.flow
  BY ActsRun
<1>2. /\ Accords(d) /\ Accords(e) /\ Sent(e) /\ Follows(d) /\ Rest(d) /\ Rest(e)
      /\ SideSound(d)
  BY <1>1 DEF AgreeInv, Bound, IInv
<1>3. /\ p \subseteq u.flow.progress
      /\ after # {} => Alive(t)
      /\ Alive(t) =>
           /\ u.flow.progress \subseteq after
           /\ after \cap Told \subseteq u.flow.progress
           /\ p # {} => t.flow.request = f.request
           /\ Decisions \subseteq u.flow.progress => Decided(t) = Decided(u)
           /\ Decisions \subseteq p => Decided(t) = Decided(s)
           /\ "localPrepared" \in u.flow.progress => t.flow.effective = f.effective
  BY LeadsGrow DEF Acts
<1>4. /\ m.kind # "None" => 1 \in DOMAIN channel[d] /\ m = channel[d][1]
      /\ Active(d) => /\ m.kind = "Ready" => Decisions \subseteq p
                      /\ after # {} => t.flow.request = attempt
                      /\ p # {} => Live(d)
  BY ActsHear
<1>5. Decided(side'[d]) = Decided(t)
  BY <1>1 DEF Decided
\* This side, told that its peer has prepared.
<1>6. ASSUME t.flow.request = g.request, "remotePrepared" \in after, "localPrepared" \in g.progress
      PROVE  Decided(t) = g.effective
  <2>1. Alive(t) /\ "remotePrepared" \in u.flow.progress
    BY <1>3, <1>6 DEF Told
  <2>2. CASE "remotePrepared" \in p
    <3>1. Decisions \subseteq p
      <4>1. Active(d) => Decisions \subseteq p
        BY <1>2, <2>2 DEF SideSound, InOrder, Decisions
      <4>2. ~Active(d) => f.authenticated
        BY <1>2, <2>2 DEF Rest, Starts, Alive, IdleFlow, Active
      <4>3. f.authenticated => Decisions \subseteq p
        BY <1>2 DEF Rest, Starts, Exchanged
      <4>. QED
        BY <4>1, <4>2, <4>3
    <3>2. f.request = g.request
      BY <1>3, <1>6, <2>1, <2>2
    <3>3. Decided(s) = g.effective
      BY <1>2, <1>6, <2>2, <3>2 DEF Accords
    <3>. QED
      BY <1>3, <2>1, <3>1, <3>3
  <2>3. CASE "remotePrepared" \notin p
    <3>1. m.kind = "Ready" /\ m.scopes = Decided(u)
      BY <2>1, <2>3 DEF Acts, Leads, Learns
    <3>2. Active(d)
      BY <2>1, <2>3 DEF Acts, Leads, Learns, Active
    <3>3. Decisions \subseteq u.flow.progress /\ Decided(t) = Decided(u)
      BY <1>3, <1>4, <2>1, <3>1, <3>2
    <3>4. Live(e)
      BY <1>4, <1>6, <3>2 DEF Live
    <3>5. channel[d][1].kind = "Ready" => channel[d][1].scopes = g.effective
      BY <1>1, <1>2, <1>4, <3>1, <3>4 DEF Sent
    <3>. QED
      BY <1>4, <3>1, <3>3, <3>5
  <2>. QED
    BY <2>2, <2>3
\* The peer, told that this side has prepared.
<1>7. ASSUME g.request = t.flow.request, "remotePrepared" \in g.progress, "localPrepared" \in after
      PROVE  Decided(side[e]) = t.flow.effective
  <2>1. Alive(t)
    BY <1>3, <1>7
  <2>2. "localPrepared" \in p
    <3>1. CASE ~Active(d)
      BY <1>7, <3>1 DEF Acts
    <3>2. CASE Active(d)
      <4>1. Live(e)
        BY <1>4, <1>7, <3>2 DEF Live
      <4>. QED
        BY <1>2, <1>7, <3>2, <4>1 DEF Follows
    <3>. QED
      BY <3>1, <3>2
  <2>3. g.request = f.request /\ t.flow.effective = f.effective
    BY <1>3, <1>7, <2>1, <2>2
  <2>. QED
    BY <1>1, <1>2, <1>7, <2>2, <2>3 DEF Accords
<1>8. Accords(d)'
  BY <1>1, <1>5, <1>6 DEF Accords
<1>9. Accords(e)'
  BY <1>1, <1>7 DEF Accords
<1>. QED
  BY <1>8, <1>9

\* A peer whose attempt has not begun hears no more than a Hello.
LEMMA ActsWait ==
    ASSUME Typed, IInv, IInv', AgreeInv, NEW d \in Device, NEW u, NEW m, NEW t, NEW inbox,
           Acts(d, u, m, t, inbox)
    PROVE  Waits(d)' /\ Waits(Other(d))'
<1>. DEFINE e == Other(d)
            q == channel[e]
            r == channel'[e]
            p == side[d].flow.progress
            after == t.flow.progress
            out == t.out
            c == Since(u, edits # 0)
<1>1. /\ e \in Device /\ Other(e) = d /\ q \in Seq(Message) /\ out \in Seq(Message)
      /\ r = IF link[e] = "down" THEN q ELSE q \o out
      /\ side'[e] = side[e] /\ side'[d].flow = t.flow /\ channel'[d] = inbox
      /\ Active(d)' <=> t.flow.active
      /\ Heard(d)' <=> "helloReceived" \in after
      /\ Live(d)' <=> t.flow.request = attempt /\ after # {}
      /\ attempt' = attempt
  BY ActsRun
<1>2. link'[d] # "secured" /\ link'[e] = link[e]
  BY DEF Acts
<1>3. Waits(d)'
  BY <1>2 DEF Waits
<1>4. CASE link[e] # "secured"
  BY <1>2, <1>3, <1>4 DEF Waits
<1>5. CASE link[e] = "secured"
  <2>1. Waits(e) /\ ChannelSound(e) /\ ChannelSound(e)' /\ SideSound(d) /\ SideSound(d)' /\ Rest(d)
    BY <1>1 DEF AgreeInv, Bound, IInv
  <2>2. channel[d] = <<>> /\ ~(Active(d) /\ Heard(d)) /\ ~(Active(d)' /\ Heard(d)')
    BY <1>1, <1>2, <1>5, <2>1 DEF ChannelSound
  <2>3. m.kind = "None"
    BY <2>2 DEF Acts
  <2>4. /\ \A i \in DOMAIN q : q[i].kind \in {"Hello", "Rejected"}
        /\ Live(d) => p \subseteq {"helloSent"}
        /\ side[e].flow.request < attempt
    BY <1>1, <1>5, <2>1 DEF Waits
  <2>5. u.flow.progress \cap Told \subseteq p
    BY <2>3 DEF Acts, Leads, Learns, Told
  <2>6. /\ Alive(t) => after \cap Told \subseteq u.flow.progress
        /\ Alive(t) /\ p # {} => t.flow.request = side[d].flow.request
        /\ after # {} => Alive(t)
        /\ t.flow.authenticated => Exchanged \subseteq after
    BY LeadsGrow DEF Acts
  <2>7. Active(d) /\ p # {} => Live(d)
    BY ActsHear
  <2>8. Live(d)' => after \subseteq {"helloSent"}
    <3>. SUFFICES ASSUME Live(d)' PROVE after \subseteq {"helloSent"}
      OBVIOUS
    <3>1. Alive(t) /\ t.flow.request = attempt /\ after \cap Told \subseteq p
      BY <1>1, <2>5, <2>6
    <3>2. p # {} => Live(d)
      BY <2>6, <3>1 DEF Live
    <3>3. "remoteDecision" \notin after
      BY <2>4, <3>1, <3>2 DEF Told
    <3>4. t.flow.active
      BY <2>6, <3>1, <3>3 DEF Alive, Exchanged, Decisions
    <3>5. "helloReceived" \notin after
      BY <1>1, <2>2, <3>4
    <3>6. InOrder(side'[d], Behind(d)') /\ after \subseteq Progress
      <4>1. t.flow.progress \in SUBSET Progress
        <5>1. t \in Handling
          BY ActsRun
        <5>. QED
          BY <5>1 DEF Handling, Flow
      <4>. QED
        BY <1>1, <2>1, <3>4, <4>1 DEF SideSound
    <3>. QED
      BY <1>1, <3>5, <3>6 DEF InOrder, Progress
  <2>9. ASSUME NEW i \in DOMAIN out
        PROVE  out[i].kind \in {"Hello", "Rejected"}
    <3>1. Active(d)
      BY <2>9 DEF Acts
    <3>2. p \subseteq {"helloSent"}
      BY <2>4, <2>7, <3>1
    <3>3. Talk(t, c) /\ c.known = u.flow.progress /\ c.was = u.flow.progress
      BY DEF Acts, Leads, Since
    <3>. HIDE DEF c
    <3>4. out[i].kind # "Ready"
      BY <2>5, <3>2, <3>3 DEF Talk, Told
    <3>5. \A j \in DOMAIN out : out[j].kind # "Committed"
      BY <2>5, <3>2, <3>3 DEF Talk, Told
    <3>6. out[i].kind # "Access"
      <4>1. "localCommitted" \notin u.flow.progress
        BY <3>2 DEF Acts, Leads, Learns
      <4>. QED
        BY <3>3, <3>5, <4>1 DEF Talk, Before
    <3>7. out[i].kind # "Decision"
      <4>1. CASE t.flow.active
        <5>1. out[i].kind = "Decision" => "localDecision" \in after
          BY <3>3, <4>1 DEF Talk, Alive
        <5>2. "localDecision" \in after => Heard(d)'
          BY <1>1, <2>1, <4>1 DEF SideSound, InOrder
        <5>. QED
          BY <1>1, <2>2, <4>1, <5>1, <5>2
      <4>2. CASE ~t.flow.active
        BY <3>2, <4>2 DEF Acts, Leads
      <4>. QED
        BY <4>1, <4>2
    <3>8. out[i] \in Message
      BY <1>1
    <3>. QED
      BY <3>4, <3>5, <3>6, <3>7, <3>8 DEF Message
  <2>. HIDE DEF q, r, out
  <2>10. \A i \in DOMAIN r : r[i].kind \in {"Hello", "Rejected"}
    <3>1. r \in Seq(Message) /\ Extends(r, q, out)
      BY <1>1 DEF Extends
    <3>2. \A i \in DOMAIN r : \/ i \in DOMAIN q /\ r[i] = q[i]
                              \/ \E j \in DOMAIN out : r[i] = out[j]
      BY <1>1, <3>1, Delivered
    <3>. QED
      BY <2>4, <2>9, <3>2
  <2>11. Waits(e)'
    BY <1>1, <2>4, <2>8, <2>10 DEF Waits, r
  <2>. QED
    BY <1>3, <2>11
<1>. QED
  BY <1>4, <1>5

\* The sides remember each other by the same pairing.
LEMMA ActsRemember ==
    ASSUME Typed, IInv, IInv', AgreeInv, NEW d \in Device, NEW u, NEW m, NEW t, NEW inbox,
           Acts(d, u, m, t, inbox)
    PROVE  Remembers(d)' /\ Remembers(Other(d))'
<1>. DEFINE e == Other(d)
            f == side[d].flow
            p == side[d].flow.progress
            g == side[e].flow
            after == t.flow.progress
            now == MutualCommitId(t.devices)
            c == Since(u, edits # 0)
<1>1. /\ e \in Device /\ Other(e) = d
      /\ side'[e] = side[e] /\ side'[d].flow = t.flow
      /\ Active(d)' <=> t.flow.active
      /\ Active(e)' <=> Active(e)
      /\ Heard(d)' <=> "helloReceived" \in after
      /\ Heard(e)' <=> Heard(e)
      /\ Known(e)' = Known(e) /\ Known(d)' = now
  BY ActsRun
<1>2. /\ Remembers(d) /\ Remembers(e) /\ Follows(d) /\ Rest(d) /\ Rest(e)
      /\ SideSound(d) /\ SideSound(e) /\ SideSound(d)'
      /\ ChannelSound(d) /\ ChannelSound(e) /\ ChannelSound(d)' /\ ChannelSound(e)'
  BY <1>1 DEF AgreeInv, Bound, IInv
<1>3. /\ p \subseteq u.flow.progress
      /\ after # {} => Alive(t)
      /\ Alive(t) =>
           /\ u.flow.progress \subseteq after
           /\ after \cap Told \subseteq u.flow.progress
           /\ t.flow.request = u.flow.request
           /\ p # {} => t.flow.request = f.request
      /\ t.flow.active => ~t.flow.authenticated
      /\ t.flow.authenticated => Exchanged \subseteq after
      /\ f.active \/ u = side[d]
  BY LeadsGrow DEF Acts
<1>4. /\ m.kind # "None" => 1 \in DOMAIN channel[d] /\ m = channel[d][1]
      /\ Active(d) => /\ p # {} => Live(d)
                      /\ f.request \in {0, attempt}
                      /\ after # {} => t.flow.request = attempt
                      /\ t.flow.authenticated => Decisions \cup {"localPrepared"} \subseteq p /\ Heard(d)
      /\ ~Active(d) /\ t.flow.authenticated => f.authenticated
  BY ActsHear
<1>5. t.flow.active => Active(d)
  BY DEF Acts
\* The records, while d trusts its peer or has not prepared, and after success.
<1>6. /\ Alive(t) /\ (u.flow.trusted \/ u.flow.authenticated) => now = Known(d)
      /\ t.flow.active => (t.flow.trusted <=> u.flow.trusted \/ u.flow.authenticated)
      /\ t.flow.active /\ "localPrepared" \notin after => now = Known(d)
      /\ t.flow.authenticated /\ ~(u.flow.trusted \/ u.flow.authenticated) => now = t.flow.request
  <2>1. /\ c.alone = (u.flow.trusted \/ u.flow.authenticated) /\ c.devices = u.devices
        /\ u.devices = side[d].devices /\ Hold(t, c)
    BY DEF Acts, Leads, Learns, Since
  <2>. HIDE DEF c
  <2>2. /\ Alive(t) /\ c.alone => t.devices = c.devices
        /\ t.flow.active =>
            /\ t.flow.trusted = c.alone
            /\ "localPrepared" \notin after => t.devices = c.devices
        /\ t.flow.authenticated /\ ~c.alone => now = t.flow.request
    BY <2>1 DEF Hold
  <2>. QED
    BY <2>1, <2>2 DEF Known
<1>7. /\ "helloReceived" \in u.flow.progress => Heard(d) \/ m.kind = "Hello"
      /\ Heard(d) \/ m.kind # "Hello" => u.flow.trusted = f.trusted
      /\ ~Heard(d) /\ m.kind = "Hello" =>
            u.flow.trusted = (Known(d) # 0 /\ Known(d) = m.trust)
  BY DEF Acts, Leads, Learns, Heard, Known
<1>8. Active(d) => ~u.flow.authenticated
  BY DEF Acts, Leads, Learns, Starts, Active
<1>9. ~Active(d) /\ f.authenticated => u.flow.authenticated /\ p # {}
  BY <1>2, <1>3 DEF Active, Rest, Starts, Exchanged
<1>. HIDE DEF c, now
\* A side that has heard the other one.
<1>10. Active(d) /\ Heard(d) /\ f.trusted /\ Active(e) => Known(d) = Known(e)
  BY <1>1, <1>2 DEF Remembers, Active
<1>11. Active(e) /\ Heard(e) /\ g.trusted /\ Active(d) => Known(e) = Known(d)
  BY <1>1, <1>2 DEF Remembers, Active
\* What d makes of the other side.
<1>12. ASSUME t.flow.active, Active(e), "helloReceived" \in after, t.flow.trusted
       PROVE  now = Known(e)
  <2>1. Active(d) /\ Alive(t) /\ "helloReceived" \in u.flow.progress
    BY <1>3, <1>5, <1>12 DEF Alive, Told
  <2>2. u.flow.trusted /\ now = Known(d)
    BY <1>6, <1>8, <1>12, <2>1
  <2>3. CASE Heard(d)
    BY <1>7, <1>10, <1>12, <2>1, <2>2, <2>3
  <2>4. CASE ~Heard(d)
    <3>1. m.kind = "Hello" /\ m = channel[d][1] /\ HelloFirst(d)
      BY <1>4, <1>7, <2>1, <2>4 DEF HelloFirst
    <3>2. Known(d) # 0 /\ Known(d) = channel[d][1].trust
      BY <1>7, <2>2, <2>4, <3>1
    <3>3. ~Heard(e) => channel[d][1].trust = Known(e)
      BY <1>1, <1>2, <1>12, <3>1 DEF ChannelSound
    <3>4. Heard(e) => g.trusted
      <4>1. Heard(e) => side[e].flow.trusted = WillTrust(d)
        BY <1>1, <1>2, <1>12, <2>1, <2>4 DEF ChannelSound
      <4>2. WillTrust(d)
        BY <3>1, <3>2 DEF WillTrust
      <4>. QED
        BY <4>1, <4>2
    <3>. QED
      BY <1>11, <1>12, <2>1, <2>2, <3>2, <3>3, <3>4
  <2>. QED
    BY <2>3, <2>4
\* What the other side has made of d.
<1>13. ASSUME t.flow.active, Active(e), Heard(e), g.trusted
       PROVE  now = Known(e)
  <2>1. "localPrepared" \in after => t.flow.trusted
    <3>1. "localPrepared" \in after => Heard(d)'
      BY <1>1, <1>2, <1>13 DEF SideSound, InOrder
    <3>2. Heard(d)' => t.flow.trusted = g.trusted
      BY <1>1, <1>2, <1>13 DEF ChannelSound
    <3>. QED
      BY <1>13, <3>1, <3>2
  <2>2. Active(d) /\ Alive(t)
    BY <1>5, <1>13 DEF Alive
  <2>3. now = Known(d)
    BY <1>6, <1>13, <2>1, <2>2
  <2>. QED
    BY <1>11, <1>13, <2>2, <2>3
\* The success of d.
<1>14. ASSUME t.flow.authenticated, Active(e), t.flow.request = g.request
       PROVE  now = IF g.trusted THEN Known(e) ELSE t.flow.request
  <2>1. Alive(t) /\ after # {} /\ "remotePrepared" \in u.flow.progress
    BY <1>3, <1>14 DEF Alive, Exchanged, Told
  <2>2. CASE ~Active(d)
    <3>1. f.authenticated /\ now = Known(d) /\ t.flow.request = f.request
      BY <1>3, <1>4, <1>6, <1>9, <1>14, <2>1, <2>2
    <3>. QED
      BY <1>1, <1>2, <1>14, <3>1 DEF Remembers, Active
  <2>3. CASE Active(d)
    <3>1. Heard(d) /\ p # {}
      BY <1>4, <1>14, <2>3
    <3>2. u.flow.trusted = f.trusted /\ ~u.flow.authenticated
      BY <1>7, <1>8, <2>3, <3>1
    <3>3. "localPrepared" \in g.progress
      BY <1>4, <1>14, <2>1, <2>3, ActsTold
    <3>4. Heard(e)
      BY <1>2, <1>14, <3>3 DEF SideSound, InOrder, Heard
    <3>5. f.trusted = g.trusted
      BY <1>1, <1>2, <1>14, <2>3, <3>1, <3>4 DEF ChannelSound
    <3>6. f.trusted \in BOOLEAN
      BY <1>2 DEF Rest, Starts, Handling, Flow
    <3>. QED
      BY <1>6, <1>10, <1>14, <2>1, <2>3, <3>1, <3>2, <3>5, <3>6
  <2>. QED
    BY <2>2, <2>3
\* The success of the other side.
<1>15. g.authenticated => g.progress # {} /\ g.request # 0 /\ "remoteDecision" \in g.progress
  BY <1>2 DEF Rest, Starts, Exchanged, Decisions
<1>16. ASSUME g.authenticated, t.flow.active, g.request = t.flow.request
       PROVE  Known(e) = IF t.flow.trusted THEN now ELSE g.request
  <2>1. Active(d) /\ Alive(t)
    BY <1>5, <1>16 DEF Alive
  <2>2. g.request = attempt
    <3>0. attempt' = attempt
      BY ActsRun
    <3>1. t.flow.request \in {0, attempt}
      BY <1>1, <1>2, <1>16, <3>0 DEF SideSound, InOrder, Behind, Active
    <3>. QED
      BY <1>15, <1>16, <3>1
  <2>3. Live(e)
    BY <1>15, <1>16, <2>2 DEF Live
  <2>4. "localDecision" \in p
    BY <1>1, <1>2, <1>15, <1>16, <2>1, <2>3 DEF Follows
  <2>5. Heard(d)
    BY <1>2, <2>1, <2>4 DEF SideSound, InOrder, Heard
  <2>6. f.request = g.request
    BY <1>3, <1>16, <2>1, <2>4
  <2>7. Known(e) = IF f.trusted THEN Known(d) ELSE g.request
    BY <1>1, <1>2, <1>16, <2>1, <2>6 DEF Remembers, Active
  <2>8. u.flow.trusted = f.trusted /\ ~u.flow.authenticated
    BY <1>7, <1>8, <2>1, <2>5
  <2>. QED
    BY <1>6, <1>16, <2>1, <2>7, <2>8
\* The success of both.
<1>17. ASSUME t.flow.authenticated, g.authenticated, t.flow.request = g.request
       PROVE  now = Known(e)
  <2>1. Alive(t)
    BY <1>17 DEF Alive
  <2>2. CASE ~Active(d)
    <3>1. f.authenticated /\ now = Known(d) /\ t.flow.request = f.request
      BY <1>3, <1>4, <1>6, <1>9, <1>17, <2>1, <2>2
    <3>. QED
      BY <1>1, <1>2, <1>17, <3>1 DEF Remembers
  <2>3. CASE Active(d)
    <3>1. Heard(d) /\ p # {} /\ t.flow.request = f.request
      BY <1>3, <1>4, <1>17, <2>1, <2>3
    <3>2. u.flow.trusted = f.trusted /\ ~u.flow.authenticated
      BY <1>7, <1>8, <2>3, <3>1
    <3>3. Known(e) = IF f.trusted THEN Known(d) ELSE g.request
      BY <1>1, <1>2, <1>17, <2>3, <3>1 DEF Remembers, Active
    <3>. QED
      BY <1>6, <1>17, <2>1, <3>2, <3>3
  <2>. QED
    BY <2>2, <2>3
<1>18. Remembers(d)'
  <2>1. t.flow.active /\ Active(e) /\ "helloReceived" \in after /\ t.flow.trusted => now = Known(e)
    BY <1>12
  <2>2. t.flow.authenticated /\ Active(e) /\ t.flow.request = g.request =>
           now = IF g.trusted THEN Known(e) ELSE t.flow.request
    BY <1>14
  <2>3. t.flow.authenticated /\ g.authenticated /\ t.flow.request = g.request => now = Known(e)
    BY <1>17
  <2>. QED
    BY <1>1, <2>1, <2>2, <2>3 DEF Remembers, Active
<1>19. Remembers(e)'
  <2>1. t.flow.active /\ Active(e) /\ Heard(e) /\ g.trusted => now = Known(e)
    BY <1>13
  <2>2. g.authenticated /\ t.flow.active /\ g.request = t.flow.request =>
           Known(e) = IF t.flow.trusted THEN now ELSE g.request
    BY <1>16
  <2>3. t.flow.authenticated /\ g.authenticated /\ t.flow.request = g.request => now = Known(e)
    BY <1>17
  <2>. QED
    BY <1>1, <2>1, <2>2, <2>3 DEF Remembers, Active
<1>. QED
  BY <1>18, <1>19

\* A handler keeps both sides bound.
LEMMA ActsKeep ==
    ASSUME Typed, IInv, IInv', AgreeInv, NEW d \in Device, NEW u, NEW m, NEW t, NEW inbox,
           Acts(d, u, m, t, inbox)
    PROVE  AgreeInv'
<1>. DEFINE e == Other(d)
<1>1. \A x \in Device : x = d \/ x = e
  BY TwoDevices
<1>2. Follows(d)' /\ Follows(e)'
  BY ActsFollow, ActsLead
<1>3. Messages(d)' /\ Messages(e)'
  <2>1. Messages(e)'
    BY ActsSendMessages
  <2>2. t.flow.active => Messages(d)'
    BY ActsLeaveMessages
  <2>3. Active(d)' <=> t.flow.active
    BY ActsRun
  <2>4. ~t.flow.active => Messages(d)'
    BY <2>3 DEF Messages
  <2>. QED
    BY <2>1, <2>2, <2>4
<1>4. Rest(d)' /\ Rest(e)'
  BY ActsRest
<1>5. Sent(d)' /\ Sent(e)'
  BY ActsSent
<1>6. Accords(d)' /\ Accords(e)'
  BY ActsAccord
<1>7. Waits(d)' /\ Waits(e)'
  BY ActsWait
<1>8. Remembers(d)' /\ Remembers(e)'
  BY ActsRemember
<1>9. Bound(d)' /\ Bound(e)'
  BY <1>2, <1>3, <1>4, <1>5, <1>6, <1>7, <1>8 DEF Bound
<1>. HIDE DEF e
<1>. QED
  BY <1>1, <1>9 DEF AgreeInv

-----------------------------------------------------------------------------
(* Each action is such a step, but for those that begin an attempt or edit  *)
(* the list.                                                                *)
None == [kind |-> "None"]

\* A side that is left alone, or loses its flow.
LEMMA QuietLeads ==
    ASSUME NEW d \in Device, Rest(d), NEW m, NEW t,
           m.kind \notin {"Hello", "Decision", "Ready", "Committed"},
           t = side[d] \/ (t \in Handling /\ t.flow = IdleFlow /\ t.out = <<>>)
    PROVE  /\ Leads(side[d], side[d], m, t, edits # 0)
           /\ t.out = <<>> /\ t.flow.progress \subseteq side[d].flow.progress
           /\ t.flow.active => Active(d)
<1>. DEFINE s == side[d]
            edited == edits # 0
            c == Since(s, edited)
<1>1. /\ Starts(s) /\ Own(s, edited) /\ s.out = <<>>
      /\ s.flow.active => "remoteCommitted" \notin s.flow.progress
  BY DEF Rest, Starts
<1>2. Talk(s, c) /\ Hold(s, c)
  BY <1>1, StartConducts
<1>. HIDE DEF c
<1>3. Learns(s, s, m)
  BY DEF Learns
<1>4. CASE t = s
  <2>1. DOMAIN t.out = {}
    BY <1>1, <1>4
  <2>. QED
    BY <1>1, <1>2, <1>3, <1>4, <2>1 DEF Leads, c, Active
<1>5. CASE t \in Handling /\ t.flow = IdleFlow /\ t.out = <<>>
  <2>1. ~Alive(t) /\ ~t.flow.active /\ t.flow.progress = {} /\ DOMAIN t.out = {}
    BY <1>5 DEF IdleFlow, Alive
  <2>2. Talk(t, c)
    BY <1>5, <2>1 DEF Talk
  <2>3. Hold(t, c)
    BY <1>5, IdleHolds
  <2>. QED
    BY <1>1, <1>3, <1>5, <2>1, <2>2, <2>3 DEF Leads, c
<1>. QED
  BY <1>4, <1>5

\* A user rejects, or the timer expires.
LEMMA AbandonAgrees ==
    ASSUME Typed, IInv, IInv', AgreeInv, NEW d \in Device, Abandon(d)
    PROVE  AgreeInv'
<1>1. PICK bad \in Failures : Run(d, Fail(side[d], TRUE, bad), channel[d])
  BY DEF Abandon
<1>. DEFINE t == Fail(side[d], TRUE, bad)
<1>2. /\ Active(d) /\ UNCHANGED <<link, attempt, edits>>
      /\ Starts(side[d]) /\ Own(side[d], edits # 0) /\ link[d] = "open"
  BY DEF Abandon, Active, AgreeInv, Bound, Rest, IInv, SideSound
<1>3. Answered(side[d], None, t, edits # 0)
  BY <1>2, FailAnswers DEF None, Active
<1>. HIDE DEF t
<1>4. PICK u : Leads(side[d], u, None, t, edits # 0)
  BY <1>3 DEF Answered
<1>5. Acts(d, u, None, t, channel[d])
  BY <1>1, <1>2, <1>4 DEF Acts, None, t
<1>. QED
  BY <1>5, ActsKeep

\* A device that has no attempt under way, or ends it without a word.
LEMMA QuietAgrees ==
    ASSUME Typed, IInv, IInv', AgreeInv, NEW d \in Device, NEW t, NEW inbox,
           Run(d, t, inbox), Left(inbox, channel[d]),
           (t = side[d] /\ ~Active(d)) \/ (t \in Handling /\ t.flow = IdleFlow /\ t.out = <<>>),
           UNCHANGED <<attempt, edits>>,
           link'[Other(d)] = link[Other(d)], link'[d] # "secured"
    PROVE  AgreeInv'
<1>1. Rest(d)
  BY DEF AgreeInv, Bound
<1>2. None.kind = "None"
  BY DEF None
<1>3. /\ Leads(side[d], side[d], None, t, edits # 0)
      /\ t.out = <<>> /\ t.flow.progress \subseteq side[d].flow.progress
  BY <1>1, <1>2, QuietLeads
<1>4. ~t.flow.active
  BY DEF Active, IdleFlow
<1>5. Acts(d, side[d], None, t, inbox)
  BY <1>2, <1>3, <1>4 DEF Acts
<1>. QED
  BY <1>5, ActsKeep

\* The connection is lost.
LEMMA LoseAgrees ==
    ASSUME Typed, IInv, IInv', AgreeInv, NEW d \in Device, Lose(d)
    PROVE  AgreeInv'
<1>1. PICK bad \in Failures :
         Run(d, IF side[d].flow.active THEN Clear(side[d], bad) ELSE side[d], <<>>)
  BY DEF Lose
<1>. DEFINE t == IF side[d].flow.active THEN Clear(side[d], bad) ELSE side[d]
<1>2. Run(d, t, <<>>)
  BY <1>1
<1>3. /\ link' = [link EXCEPT ![d] = "down"] /\ UNCHANGED <<attempt, edits>>
      /\ Other(d) \in Device /\ Other(d) # d /\ link \in [Device -> Link]
  BY TwoDevices, TypesOfState DEF Lose
<1>4. link'[Other(d)] = link[Other(d)] /\ link'[d] # "secured"
  BY <1>3
<1>5. Left(<<>>, channel[d])
  BY DEF Left
<1>6. (t = side[d] /\ ~Active(d)) \/ (t \in Handling /\ t.flow = IdleFlow /\ t.out = <<>>)
  <2>1. side[d] \in Handling /\ side[d].out = <<>> /\ SideSound(d)
    BY SidesAreHandled DEF IInv
  <2>2. Sound(side[d], Both(d))
    BY <2>1 DEF SideSound
  <2>3. /\ Clear(side[d], bad) \in Handling
        /\ Clear(side[d], bad).flow = IdleFlow /\ Clear(side[d], bad).out = side[d].out
    BY <2>1, <2>2, ClearSound
  <2>. QED
    BY <2>1, <2>3 DEF Active
<1>. HIDE DEF t
<1>. QED
  BY <1>2, <1>3, <1>4, <1>5, <1>6, QuietAgrees

\* The process dies.
LEMMA CrashAgrees ==
    ASSUME Typed, IInv, IInv', AgreeInv, NEW d \in Device, Crash(d)
    PROVE  AgreeInv'
<1>. DEFINE t == [NewSide EXCEPT !.stored = side[d].stored, !.faults = side[d].faults]
<1>1. /\ link' = [link EXCEPT ![d] = "down"] /\ Run(d, t, <<>>) /\ UNCHANGED <<attempt, edits>>
      /\ Other(d) \in Device /\ Other(d) # d /\ link \in [Device -> Link]
  BY TwoDevices, TypesOfState DEF Crash
<1>2. link'[Other(d)] = link[Other(d)] /\ link'[d] # "secured"
  BY <1>1
<1>3. Left(<<>>, channel[d])
  BY DEF Left
<1>4. t \in Handling /\ t.flow = IdleFlow /\ t.out = <<>>
  <2>1. IdleFlow \in Flow
    BY AttemptsAreCounted DEF IdleFlow, Flow
  <2>2. side[d].stored \in SUBSET TrustRecord /\ side[d].faults \in Nat
    BY SidesAreHandled DEF Handling
  <2>3. <<>> \in Seq(Message)
    OBVIOUS
  <2>4. NewSide \in Handling /\ NewSide.flow = IdleFlow /\ NewSide.out = <<>>
    BY <2>1, <2>3, AttemptsAreCounted DEF NewSide, Handling
  <2>. QED
    BY <2>2, <2>4 DEF Handling
<1>. HIDE DEF t
<1>. QED
  BY <1>1, <1>2, <1>3, <1>4, QuietAgrees

\* The attempt does not begin.
LEMMA BeginRefusedAgrees ==
    ASSUME Typed, IInv, IInv', AgreeInv, NEW d \in Device, BeginRefused(d)
    PROVE  AgreeInv'
<1>. DEFINE v == Clear(side[d], {})
            t == Fault(v)
<1>1. /\ link' = [link EXCEPT ![d] = "open"] /\ Run(d, t, channel[d])
      /\ UNCHANGED <<attempt, edits>>
      /\ Other(d) \in Device /\ Other(d) # d /\ link \in [Device -> Link]
  BY TwoDevices, TypesOfState DEF BeginRefused
<1>2. link'[Other(d)] = link[Other(d)] /\ link'[d] # "secured"
  BY <1>1
<1>3. Left(channel[d], channel[d])
  BY DEF Left
<1>4. t \in Handling /\ t.flow = IdleFlow /\ t.out = <<>>
  <2>1. side[d] \in Handling /\ side[d].out = <<>> /\ Sound(side[d], Both(d))
    BY SidesAreHandled DEF IInv, SideSound
  <2>2. v \in Handling /\ v.flow = IdleFlow /\ v.out = <<>>
    BY <2>1, ClearSound
  <2>. HIDE DEF v
  <2>. QED
    BY <2>2, ServiceTalks
<1>. HIDE DEF t
<1>. QED
  BY <1>1, <1>2, <1>3, <1>4, QuietAgrees

\* An access request is received: only a side that has authenticated answers.
LEMMA ReceiveAccessAgrees ==
    ASSUME Typed, IInv, IInv', AgreeInv, NEW d \in Device, ReceiveAccess(d)
    PROVE  AgreeInv'
<1>. DEFINE m == Head(channel[d])
            s == side[d]
            c == Since(s, edits # 0)
            inbox == Tail(channel[d])
<1>1. PICK answer \in {"accepted", "asked", "denied"} : Run(d, HandleAccess(s, m, answer), inbox)
  BY DEF ReceiveAccess
<1>. DEFINE t == HandleAccess(s, m, answer)
<1>2. /\ m.kind = "Access" /\ channel[d] # <<>> /\ link[d] = "open" /\ Run(d, t, inbox)
      /\ UNCHANGED <<link, attempt, edits>>
  BY <1>1 DEF ReceiveAccess
<1>3. /\ s \in Handling /\ s.out = <<>> /\ s.flow \in Flow /\ channel[d] \in Seq(Message)
      /\ Rest(d) /\ Messages(d)
  BY SidesAreHandled DEF AgreeInv, Bound
<1>4. ~Active(d)
  <2>1. m = channel[d][1] /\ 1 \in DOMAIN channel[d]
    BY <1>2, <1>3
  <2>2. ~Before(channel[d], 1, "Committed", SUBSET Scope)
    BY <1>3 DEF Before
  <2>. QED
    BY <1>2, <1>3, <2>1, <2>2 DEF Messages
<1>5. /\ t \in Handling /\ t.stored = s.stored /\ t.devices = s.devices
      /\ t.out = <<>> /\ t.transaction = s.transaction /\ t.faults = s.faults
      /\ t.flow.active = s.flow.active /\ t.flow.authenticated = s.flow.authenticated
      /\ t.flow.request = s.flow.request /\ t.flow.progress = s.flow.progress
      /\ t.flow.effective = s.flow.effective /\ t.flow.outgoing = s.flow.outgoing
      /\ t.flow.mine = s.flow.mine /\ t.flow.theirs = s.flow.theirs
      /\ t.flow.trusted = s.flow.trusted
      /\ Alive(s) \/ t.flow = s.flow
  <2>1. CASE t = s
    BY <1>3, <2>1
  <2>2. CASE t # s
    <3>1. /\ s.flow.authenticated
          /\ \E a \in {"accepted", "asked", "denied"} : t = [s EXCEPT !.flow.access = a]
      BY <1>1, <1>3, <2>2 DEF HandleAccess
    <3>2. PICK a \in {"accepted", "asked", "denied"} : t = [s EXCEPT !.flow.access = a]
      BY <3>1
    <3>. HIDE DEF t
    <3>3. /\ t \in Handling /\ t.stored = s.stored /\ t.devices = s.devices
          /\ t.out = <<>> /\ t.transaction = s.transaction /\ t.faults = s.faults
          /\ t.flow = [s.flow EXCEPT !.access = a]
      BY <1>3, <3>2 DEF Handling, Flow
    <3>. QED
      BY <1>3, <3>1, <3>3 DEF Flow, Alive
  <2>. QED
    BY <2>1, <2>2
<1>. HIDE DEF t, inbox
<1>6. Starts(s) /\ Own(s, edits # 0)
  BY <1>3 DEF Rest
<1>7. Talk(s, c) /\ Hold(s, c)
  BY <1>6, StartConducts
<1>. HIDE DEF c
<1>8. Talk(t, c)
  BY <1>3, <1>5, <1>7, TalkStays
<1>9. Hold(t, c)
  BY <1>4, <1>5, <1>7, HoldStays DEF Active
<1>10. Learns(s, s, None)
  BY DEF Learns, None
<1>11. ~t.flow.active /\ DOMAIN t.out = {}
  BY <1>4, <1>5 DEF Active
<1>12. Leads(s, s, None, t, edits # 0)
  BY <1>6, <1>8, <1>9, <1>10, <1>11 DEF Leads, c
<1>13. link'[Other(d)] = link[Other(d)] /\ link'[d] # "secured"
  BY <1>2
<1>14. Left(inbox, channel[d])
  BY <1>2 DEF Left, inbox
<1>15. Acts(d, s, None, t, inbox)
  BY <1>2, <1>5, <1>11, <1>12, <1>13, <1>14 DEF Acts, None
<1>. QED
  BY <1>15, ActsKeep

\* A message of the authentication is answered.
LEMMA MessageAnswers ==
    ASSUME Typed, IInv, AgreeInv, NEW d \in Device, Active(d), channel[d] # <<>>,
           NEW m, m = channel[d][1], m.kind # "Access", NEW bad
    PROVE  Answered(side[d], m, HandleMessage(side[d], m, bad), edits # 0)
<1>. DEFINE s == side[d]
            edited == edits # 0
            p == s.flow.progress
            t == HandleMessage(s, m, bad)
<1>1. /\ channel[d] \in Seq(Message) /\ s \in Handling /\ s.out = <<>> /\ s.flow \in Flow
      /\ Rest(d) /\ Messages(d) /\ SideSound(d) /\ ChannelSound(d)
  BY SidesAreHandled DEF AgreeInv, Bound, IInv
<1>2. m \in Message /\ 1 \in DOMAIN channel[d]
  BY <1>1
<1>3. m.request = attempt /\ attempt # 0
  BY <1>1, <1>2 DEF ChannelSound, SideSound, Active
<1>4. /\ Starts(s) /\ Own(s, edited) /\ s.flow.active
      /\ "remoteCommitted" \notin p
      /\ p # {} => s.flow.request = attempt
      /\ s.flow.request \in {0, attempt}
      /\ s.flow.outgoing => s.flow.request = attempt
      /\ InOrder(s, Behind(d))
  BY <1>1 DEF Rest, SideSound, InOrder, Behind, Active
<1>5. \A kind, scopes : ~Before(channel[d], 1, kind, scopes)
  BY <1>1 DEF Before
<1>6. /\ m.kind = "Decision" => Heard(d) \/ HelloFirst(d)
      /\ m.kind = "Ready" => {"localDecision", "remoteDecision"} \subseteq p
      /\ m.kind = "Committed" =>
            {"localPrepared", "remotePrepared"} \subseteq p /\ m.scopes = Decided(s)
  BY <1>1, <1>2, <1>5 DEF Messages
<1>7. /\ "localDecision" \in p => "helloReceived" \in p
      /\ "localPrepared" \in p => "localDecision" \in p
      /\ s.flow.prompt => "helloReceived" \in p
      /\ p \subseteq {"helloSent"} \/ "helloReceived" \in p
  BY <1>1, <1>4 DEF InOrder, Flow, Progress
<1>8. CASE m.kind = "Hello"
  <2>1. ~Heard(d)
    BY <1>1, <1>8 DEF ChannelSound, HelloFirst
  <2>2. t = HandleHello(s, m, bad)
    BY <1>4, <1>8 DEF HandleMessage, Drops
  <2>3. p \subseteq {"helloSent"} /\ ~s.flow.prompt
    BY <1>7, <2>1 DEF Heard
  <2>. HIDE DEF t
  <2>4. Answered(s, m, HandleHello(s, m, bad), edited)
    BY <1>2, <1>3, <1>4, <1>8, <2>3, HandleHelloAnswers
  <2>. QED
    BY <2>2, <2>4 DEF t
<1>9. CASE m.kind = "Rejected"
  <2>1. CASE s.flow.request = attempt
    <3>1. t = Fail(s, FALSE, bad)
      BY <1>3, <1>4, <1>9, <2>1 DEF HandleMessage, Drops
    <3>. HIDE DEF t
    <3>2. Answered(s, m, Fail(s, FALSE, bad), edited)
      BY <1>4, <1>9, FailAnswers
    <3>. QED
      BY <3>1, <3>2 DEF t
  <2>2. CASE s.flow.request # attempt
    <3>1. t = s
      BY <1>3, <1>9, <2>2 DEF HandleMessage, Drops
    <3>. HIDE DEF t
    <3>2. Leads(s, s, m, s, edited)
      <4>1. Talk(s, Since(s, edited)) /\ Hold(s, Since(s, edited))
        BY <1>4, StartConducts
      <4>2. Learns(s, s, m)
        BY <1>9 DEF Learns
      <4>. QED
        BY <1>4, <1>9, <4>1, <4>2 DEF Leads
    <3>. QED
      BY <3>1, <3>2 DEF Answered, t
  <2>. QED
    BY <2>1, <2>2
<1>10. CASE m.kind \in {"Decision", "Ready", "Committed"}
  <2>1. "helloReceived" \in p
    BY <1>6, <1>7, <1>10 DEF Heard, HelloFirst
  <2>2. s.flow.request = attempt /\ s.flow.request # 0
    BY <1>3, <1>4, <2>1
  <2>3. ~Drops(s, m)
    BY <1>3, <1>4, <2>2 DEF Drops
  <2>4. CASE m.kind = "Decision"
    <3>1. t = HandleDecision(s, m, bad)
      BY <2>3, <2>4 DEF HandleMessage
    <3>. HIDE DEF t
    <3>2. Answered(s, m, HandleDecision(s, m, bad), edited)
      BY <1>2, <1>4, <2>1, <2>2, <2>4, HandleDecisionAnswers
    <3>. QED
      BY <3>1, <3>2 DEF t
  <2>5. CASE m.kind = "Ready"
    <3>1. t = HandleReady(s, m, bad)
      BY <2>3, <2>5 DEF HandleMessage
    <3>. HIDE DEF t
    <3>2. Decisions \subseteq p
      BY <1>6, <2>5 DEF Decisions
    <3>3. Answered(s, m, HandleReady(s, m, bad), edited)
      BY <1>2, <1>4, <2>1, <2>2, <2>5, <3>2, HandleReadyAnswers
    <3>. QED
      BY <3>1, <3>3 DEF t
  <2>6. CASE m.kind = "Committed"
    <3>1. t = HandleCommitted(s, m, bad)
      BY <2>3, <2>6 DEF HandleMessage
    <3>. HIDE DEF t
    <3>2. Answered(s, m, HandleCommitted(s, m, bad), edited)
      BY <1>2, <1>4, <1>6, <2>1, <2>2, <2>6, HandleCommittedAnswers
    <3>. QED
      BY <3>1, <3>2 DEF t
  <2>. QED
    BY <1>10, <2>4, <2>5, <2>6
<1>11. m.kind \in {"Hello", "Decision", "Ready", "Committed", "Rejected"}
  BY <1>2 DEF Message
<1>. QED
  BY <1>8, <1>9, <1>10, <1>11

\* A message of the authentication is received.
LEMMA ReceiveAgrees ==
    ASSUME Typed, IInv, IInv', AgreeInv, NEW d \in Device, Receive(d)
    PROVE  AgreeInv'
<1>. DEFINE m == Head(channel[d])
            inbox == Tail(channel[d])
<1>1. PICK bad \in Failures : Run(d, HandleMessage(side[d], m, bad), inbox)
  BY DEF Receive
<1>. DEFINE t == HandleMessage(side[d], m, bad)
<1>2. /\ m.kind # "Access" /\ channel[d] # <<>> /\ link[d] = "open" /\ Run(d, t, inbox)
      /\ UNCHANGED <<link, attempt, edits>>
  BY <1>1 DEF Receive
<1>3. channel[d] \in Seq(Message) /\ m = channel[d][1] /\ Left(inbox, channel[d])
  BY <1>2, SidesAreHandled DEF Left
<1>4. link'[Other(d)] = link[Other(d)] /\ link'[d] # "secured"
  BY <1>2
<1>5. CASE ~Active(d)
  <2>1. t = side[d]
    BY <1>5 DEF HandleMessage, Drops, Active
  <2>. HIDE DEF t, inbox
  <2>. QED
    BY <1>2, <1>3, <1>4, <1>5, <2>1, QuietAgrees
<1>6. CASE Active(d)
  <2>. HIDE DEF inbox, m
  <2>1. Answered(side[d], m, t, edits # 0)
    BY <1>2, <1>3, <1>6, MessageAnswers
  <2>. HIDE DEF t
  <2>2. PICK u : Leads(side[d], u, m, t, edits # 0)
    BY <2>1 DEF Answered
  <2>3. Acts(d, u, m, t, inbox)
    BY <1>2, <1>3, <1>4, <1>6, <2>2 DEF Acts, inbox
  <2>. QED
    BY <2>3, ActsKeep
<1>. QED
  BY <1>5, <1>6

\* The user answers.
LEMMA AcceptAgrees ==
    ASSUME Typed, IInv, IInv', AgreeInv, NEW d \in Device, NEW granted \in Grant, Accept(d, granted)
    PROVE  AgreeInv'
<1>. DEFINE s == side[d]
            edited == edits # 0
            p == s.flow.progress
            u == [s EXCEPT !.flow.prompt = FALSE]
            c == Since(u, edited)
            scopes == IF s.flow.outgoing THEN Scope ELSE granted
<1>1. /\ Active(d) /\ s.flow.prompt /\ UNCHANGED <<link, attempt, edits>>
  BY DEF Accept, Active
<1>2. PICK bad \in Failures :
         \/ Run(d, SendDecision(u, scopes, bad), channel[d])
         \/ Run(d, Fail(u, TRUE, bad), channel[d])
  BY DEF Accept
<1>3. /\ s \in Handling /\ s.out = <<>> /\ s.flow \in Flow /\ Rest(d) /\ SideSound(d)
  BY SidesAreHandled DEF AgreeInv, Bound, IInv
<1>4. /\ link[d] = "open" /\ "helloReceived" \in p /\ s.flow.request # 0
      /\ s.flow.active /\ ~s.flow.authenticated /\ "remoteCommitted" \notin p
      /\ Starts(s) /\ Own(s, edited) /\ ~s.flow.trusted
  BY <1>1, <1>3 DEF SideSound, InOrder, Active, Rest, Own
<1>5. scopes \in SUBSET Scope
  BY ScopesAssumption
<1>. HIDE DEF scopes
<1>6. /\ u \in Handling /\ u.out = <<>> /\ u.stored = s.stored /\ u.devices = s.devices
      /\ u.transaction = s.transaction /\ u.faults = s.faults
      /\ u.flow = [s.flow EXCEPT !.prompt = FALSE]
  BY <1>3 DEF Handling, Flow
<1>. HIDE DEF u
<1>7. /\ u.flow.request = s.flow.request /\ u.flow.progress = p
      /\ u.flow.active = s.flow.active /\ u.flow.authenticated = s.flow.authenticated
      /\ u.flow.effective = s.flow.effective /\ u.flow.outgoing = s.flow.outgoing
      /\ u.flow.mine = s.flow.mine /\ u.flow.theirs = s.flow.theirs
      /\ u.flow.trusted = s.flow.trusted /\ u.flow.prompt = FALSE
  BY <1>3, <1>6 DEF Flow
<1>8. Decided(u) = Decided(s)
  BY <1>7 DEF Decided
<1>9. Starts(u)
  BY <1>4, <1>6, <1>7, <1>8 DEF Starts, Alive
<1>10. Own(u, edited)
  BY <1>4, <1>6, <1>7 DEF Own, Alive
<1>11. Learns(s, u, None)
  BY <1>4, <1>6, <1>7, <1>8 DEF Learns, None
<1>12. Talk(u, c) /\ Hold(u, c) /\ c.request # 0
  BY <1>4, <1>7, <1>9, <1>10, StartConducts DEF Since
<1>. HIDE DEF c
<1>13. ASSUME NEW t, Talk(t, c), Hold(t, c), Run(d, t, channel[d])
       PROVE  AgreeInv'
  <2>1. Leads(s, u, None, t, edited)
    BY <1>4, <1>7, <1>9, <1>11, <1>13 DEF Leads, c, None
  <2>2. link'[Other(d)] = link[Other(d)] /\ link'[d] # "secured"
    BY <1>1, <1>4
  <2>3. Acts(d, u, None, t, channel[d])
    BY <1>1, <1>13, <2>1, <2>2 DEF Acts, None
  <2>. QED
    BY <2>3, ActsKeep
<1>14. Talk(SendDecision(u, scopes, bad), c) /\ Hold(SendDecision(u, scopes, bad), c)
  <2>1. u.flow.active /\ ~(u.flow.trusted /\ ~u.flow.outgoing)
    BY <1>4, <1>7
  <2>. QED
    BY <1>5, <1>12, <2>1, SendDecisionConducts
<1>15. Talk(Fail(u, TRUE, bad), c) /\ Hold(Fail(u, TRUE, bad), c)
  <2>1. u.flow.active
    BY <1>4, <1>7
  <2>. QED
    BY <1>12, <2>1, FailConducts
<1>. QED
  BY <1>2, <1>13, <1>14, <1>15

-----------------------------------------------------------------------------
(* A connection, its first step on a device, and the trust list.            *)

\* The trust list: nothing but the disk changes, and it may differ then.
LEMMA EditAgrees ==
    ASSUME Typed, Typed', IInv, IInv', AgreeInv, NEW d \in Device, NEW records, Edit(d, records)
    PROVE  AgreeInv'
<1>1. /\ edits' = edits + 1 /\ edits \in Nat
      /\ side' = [side EXCEPT ![d].stored = records]
      /\ UNCHANGED <<link, channel, initiator, attempt, crashes>>
  BY TypesOfState, BoundsAssumption DEF Edit
<1>2. /\ side \in [Device -> Side] /\ edits' # 0
  BY <1>1, TypesOfState
<1>3. \A x \in Device : /\ side'[x].flow = side[x].flow /\ side'[x].devices = side[x].devices
                        /\ side'[x].transaction = side[x].transaction
                        /\ side'[x].faults = side[x].faults /\ side'[x].out = side[x].out
  BY <1>1, <1>2 DEF Side
<1>4. ASSUME NEW x \in Device
      PROVE  Bound(x)'
  <2>. DEFINE e == Other(x)
              s == side[x]
              u == side'[x]
  <2>1. e \in Device /\ Bound(x) /\ Bound(e)
    BY TwoDevices DEF AgreeInv
  <2>. HIDE DEF e
  <2>2. /\ u.flow = s.flow /\ u.devices = s.devices /\ u.transaction = s.transaction
        /\ u.faults = s.faults /\ u.out = s.out
        /\ side'[e].flow = side[e].flow /\ side'[e].devices = side[e].devices
    BY <1>3, <2>1
  <2>3. /\ u \in Handling
        /\ Active(x)' <=> Active(x)
        /\ Heard(x)' <=> Heard(x)
        /\ HelloFirst(x)' <=> HelloFirst(x)
        /\ Decided(u) = Decided(s)
        /\ Live(x)' <=> Live(x)
        /\ Live(e)' <=> Live(e)
        /\ Active(e)' <=> Active(e)
        /\ Heard(e)' <=> Heard(e)
        /\ Known(e)' = Known(e) /\ Known(x)' = Known(x)
        /\ channel' = channel /\ link' = link /\ attempt' = attempt
    <3>1. u \in Handling
      <4>1. u \in Side /\ s \in Handling /\ s.out = <<>>
        BY SidesAreHandled DEF Typed, TypeOK
      <4>. QED
        BY <2>2, <4>1 DEF Side, Handling
    <3>. QED
      BY <1>1, <2>2, <3>1 DEF Active, Heard, HelloFirst, Decided, Live, Known
  <2>4. Rest(x)'
    <3>1. Starts(u)
      BY <2>1, <2>2, <2>3 DEF Bound, Rest, Starts, Alive
    <3>2. Own(u, TRUE)
      BY <2>1, <2>2 DEF Bound, Rest, Own, Alive
    <3>. QED
      BY <1>2, <2>1, <2>2, <2>3, <3>1, <3>2 DEF Bound, Rest
  <2>5. Messages(x)'
    BY <2>1, <2>2, <2>3 DEF Bound, Messages
  <2>6. Follows(x)'
    BY <2>1, <2>2, <2>3 DEF Bound, Follows, e
  <2>7. Sent(x)'
    BY <2>1, <2>2, <2>3 DEF Bound, Sent, e
  <2>8. Accords(x)'
    BY <2>1, <2>2, <2>3 DEF Bound, Accords, e
  <2>9. Waits(x)'
    BY <2>1, <2>2, <2>3 DEF Bound, Waits, e
  <2>10. Remembers(x)'
    BY <2>1, <2>2, <2>3 DEF Bound, Remembers, e
  <2>. QED
    BY <2>4, <2>5, <2>6, <2>7, <2>8, <2>9, <2>10 DEF Bound
<1>. QED
  BY <1>4 DEF AgreeInv

\* The user edits the trusted device list of a device.
LEMMA ListAgrees ==
    ASSUME Typed, Typed', IInv, IInv', AgreeInv, NEW d \in Device,
           Revoke(d) \/ RePair(d) \/ (\E limit \in Grant : UpdateLimit(d, limit))
    PROVE  AgreeInv'
<1>1. \E records : Edit(d, records)
  BY DEF Revoke, RePair, UpdateLimit
<1>. QED
  BY <1>1, EditAgrees

\* A connection is opened: no side has an attempt under way.
LEMMA ConnectAgrees ==
    ASSUME Typed, IInv, IInv', AgreeInv, NEW d \in Device, Connect(d)
    PROVE  AgreeInv'
<1>1. /\ \A x \in Device : link[x] = "down"
      /\ attempt' = attempt + 1 /\ attempt \in Nat
      /\ channel' = [x \in Device |-> <<>>]
      /\ UNCHANGED <<side, edits>>
  BY TypesOfState, BoundsAssumption DEF Connect, Request
<1>2. ASSUME NEW x \in Device
      PROVE  /\ ~Active(x)' /\ ~Live(x)' /\ side[x].flow.request < attempt' /\ Rest(x)'
             /\ Bound(x) /\ channel'[x] = <<>>
  <2>1. Bound(x) /\ SideSound(x) /\ side[x].flow.request \in Nat
    BY SidesAreHandled DEF AgreeInv, IInv, Flow, Request
  <2>2. ~Active(x)'
    BY <1>1, <2>1 DEF SideSound, Active
  <2>3. side[x].flow.request <= attempt
    BY <2>1 DEF Bound, Rest
  <2>4. side[x].flow.request < attempt' /\ side[x].flow.request <= attempt'
    BY <1>1, <2>1, <2>3
  <2>5. ~Live(x)'
    BY <1>1, <2>1, <2>4 DEF Live
  <2>6. Rest(x)'
    BY <1>1, <2>1, <2>4 DEF Bound, Rest
  <2>. QED
    BY <1>1, <2>1, <2>2, <2>4, <2>5, <2>6
<1>3. ASSUME NEW x \in Device
      PROVE  Bound(x)'
  <2>. DEFINE e == Other(x)
  <2>1. e \in Device
    BY TwoDevices
  <2>2. /\ ~Active(x)' /\ ~Live(x)' /\ side[x].flow.request < attempt' /\ Rest(x)'
        /\ Bound(x) /\ channel'[x] = <<>> /\ DOMAIN channel'[x] = {}
        /\ ~Active(e)' /\ ~Live(e)'
    BY <1>2, <2>1
  <2>. HIDE DEF e
  <2>3. Messages(x)' /\ Follows(x)' /\ Sent(x)'
    BY <2>2 DEF Messages, Follows, Sent
  <2>4. Accords(x)'
    BY <1>1, <2>2 DEF Bound, Accords
  <2>5. Waits(x)'
    BY <1>1, <2>2 DEF Waits, e
  <2>6. Remembers(x)'
    BY <1>1, <2>2 DEF Bound, Remembers, Active, Known, Heard
  <2>. QED
    BY <2>2, <2>3, <2>4, <2>5, <2>6 DEF Bound
<1>. QED
  BY <1>3 DEF AgreeInv

\* What the first handler of a connection leaves of the records.
LEMMA BeginLoads ==
    ASSUME Typed, IInv, NEW d \in Device, Begin(d)
    PROVE  side'[d].stored = side'[d].devices /\ side'[d].transaction = 0
<1>. DEFINE u == Clear(side[d], {})
            v == Save(u, Recovered(u.stored))
            loaded == ClearTransaction(v)
            begun == [loaded EXCEPT !.flow.active = TRUE]
            first == [begun EXCEPT !.flow.outgoing = TRUE, !.flow.request = attempt]
            w == IF initiator = d THEN SendHello(first) ELSE begun
<1>1. Run(d, w, channel[d])
  BY DEF Begin, Load
<1>2. side[d] \in Handling /\ Sound(side[d], Both(d))
  BY SidesAreHandled DEF IInv, SideSound
<1>3. u \in Handling
  BY <1>2, ClearSound
<1>. HIDE DEF u
<1>4. v.stored = v.devices /\ DOMAIN v = DOMAIN u
  BY <1>3 DEF Save, Handling
<1>5. DOMAIN u = {"stored", "devices", "before", "transaction", "faults", "flow", "out"}
  BY <1>3 DEF Handling
<1>. HIDE DEF v
<1>6. /\ loaded.stored = loaded.devices /\ loaded.transaction = 0
  BY <1>4, <1>5 DEF ClearTransaction
<1>7. DOMAIN loaded = DOMAIN u
  BY <1>4 DEF ClearTransaction
<1>. HIDE DEF loaded
<1>8. begun.stored = begun.devices /\ begun.transaction = 0 /\ DOMAIN begun = DOMAIN u
  BY <1>6, <1>7
<1>. HIDE DEF begun
<1>9. first.stored = first.devices /\ first.transaction = 0 /\ DOMAIN first = DOMAIN u
  BY <1>8
<1>. HIDE DEF first
<1>10. /\ SendHello(first).stored = first.stored /\ SendHello(first).devices = first.devices
       /\ SendHello(first).transaction = first.transaction
  BY <1>5, <1>9 DEF SendHello, Mark, Send
<1>11. w.stored = w.devices /\ w.transaction = 0 /\ DOMAIN w = DOMAIN u
  BY <1>5, <1>8, <1>9, <1>10 DEF SendHello, Mark, Send
<1>. HIDE DEF w
<1>12. side'[d] = [w EXCEPT !.out = <<>>]
  BY <1>1, TypesOfState DEF Run
<1>. QED
  BY <1>5, <1>11, <1>12

\* The attempt begins: its peer has said no more than Hello.
LEMMA BeginAgrees ==
    ASSUME Typed, IInv, IInv', AgreeInv, NEW d \in Device, Begin(d)
    PROVE  AgreeInv'
<1>. DEFINE e == Other(d)
            s == side'[d]
            p == s.flow.progress
            in2 == channel'[e]
<1>1. /\ link[d] = "secured" /\ link' = [link EXCEPT ![d] = "open"]
      /\ UNCHANGED <<initiator, attempt, history, crashes, edits>>
  BY BeginRuns
<1>2. PICK t : Begun(t, d) /\ Run(d, t, channel[d])
  BY BeginRuns
<1>3. e \in Device /\ e # d /\ Other(e) = d /\ \A x \in Device : x = d \/ x = e
  BY TwoDevices
<1>. HIDE DEF e
<1>4. /\ t \in Handling /\ t.out \in Seq(Message)
      /\ channel[d] \in Seq(Message) /\ side[d] \in Handling
      /\ side \in [Device -> Side] /\ link \in [Device -> Link] /\ attempt \in Nat
  BY <1>2, SidesAreHandled, TypesOfState, BoundsAssumption DEF Begun, Handling, Request
<1>5. /\ s.flow = t.flow /\ s.devices = t.devices
      /\ side'[e] = side[e] /\ channel'[d] = channel[d]
      /\ in2 = IF link[e] = "down" THEN channel[e] ELSE channel[e] \o t.out
  BY <1>2, <1>3, <1>4, RunEffect DEF e
<1>6. s = [t EXCEPT !.out = <<>>]
  BY <1>2, <1>4 DEF Run
<1>7. s \in Handling /\ s.out = <<>>
  <2>1. <<>> \in Seq(Message)
    OBVIOUS
  <2>. QED
    BY <1>4, <1>6, <2>1 DEF Handling
<1>. HIDE DEF s
<1>8. Bound(d) /\ Bound(e) /\ SideSound(d) /\ ChannelSound(d)
  BY <1>3 DEF AgreeInv, IInv
<1>9. /\ channel[e] = <<>> /\ ~(Active(e) /\ Heard(e)) /\ attempt # 0
  BY <1>1, <1>8 DEF ChannelSound, SideSound, e
<1>10. /\ \A i \in DOMAIN channel[d] : channel[d][i].kind \in {"Hello", "Rejected"}
       /\ Live(e) => side[e].flow.progress \subseteq {"helloSent"}
  BY <1>1, <1>8 DEF Bound, Waits, e
<1>11. /\ s.flow.active /\ ~s.flow.authenticated /\ ~s.flow.prompt /\ ~s.flow.trusted
       /\ p \subseteq {"helloSent"} /\ s.flow.request \in {0, attempt}
       /\ p # {} => s.flow.request = attempt
       /\ s.flow.request <= attempt
  BY <1>2, <1>4, <1>5 DEF Begun
<1>12. in2 = <<>> \/ in2 = t.out
  BY <1>4, <1>5, <1>9
<1>13. \A i \in DOMAIN in2 : in2[i].kind = "Hello"
  <2>. DEFINE h == [kind |-> "Hello", request |-> attempt,
                    trust |-> MutualCommitId(t.devices), scopes |-> Scope]
  <2>1. in2 = <<>> \/ in2 = <<h>>
    BY <1>2, <1>12 DEF Begun
  <2>2. h.kind = "Hello"
    OBVIOUS
  <2>. HIDE DEF h, in2
  <2>. QED
    BY <2>1, <2>2
<1>14. s.stored = s.devices /\ s.transaction = 0
  BY BeginLoads DEF s
<1>15. /\ link'[d] = "open" /\ link'[e] = link[e] /\ attempt' = attempt /\ edits' = edits
       /\ Active(d)' /\ (Active(e)' <=> Active(e))
       /\ ~Heard(d)' /\ (Heard(e)' <=> Heard(e))
       /\ Live(e)' <=> Live(e)
  BY <1>1, <1>3, <1>4, <1>5, <1>11 DEF Active, Heard, Live, s
<1>16. ~(side[e].flow.authenticated /\ side[e].flow.request = s.flow.request)
  <2>1. side[e].flow.authenticated =>
          /\ "localPrepared" \in side[e].flow.progress
          /\ side[e].flow.request # 0
    BY <1>8 DEF Bound, Rest, Starts, Exchanged
  <2>. QED
    BY <1>10, <1>11, <2>1 DEF Live
<1>. HIDE DEF in2
<1>17. Bound(d)'
  <2>1. Rest(d)'
    <3>1. Starts(s)
      BY <1>7, <1>11 DEF Starts, Alive
    <3>2. Own(s, edits # 0)
      BY <1>11, <1>14 DEF Own
    <3>3. "remoteCommitted" \notin p
      BY <1>11
    <3>. QED
      BY <1>9, <1>11, <1>15, <3>1, <3>2, <3>3 DEF Rest, s
  <2>2. Messages(d)'
    BY <1>5, <1>10 DEF Messages
  <2>3. Follows(d)'
    BY <1>3, <1>5, <1>10, <1>15 DEF Follows, e
  <2>4. Sent(d)'
    BY <1>13 DEF Sent, in2, e
  <2>5. Accords(d)'
    BY <1>11 DEF Accords, s
  <2>6. Waits(d)'
    BY <1>15 DEF Waits
  <2>7. Remembers(d)'
    BY <1>11, <1>15 DEF Remembers, s
  <2>. QED
    BY <2>1, <2>2, <2>3, <2>4, <2>5, <2>6, <2>7 DEF Bound
<1>18. Bound(e)'
  <2>1. Rest(e)'
    BY <1>5, <1>8, <1>15 DEF Bound, Rest
  <2>2. Messages(e)'
    BY <1>13 DEF Messages, in2
  <2>3. Follows(e)'
    BY <1>3, <1>11 DEF Follows, s
  <2>4. Sent(e)'
    BY <1>3, <1>5, <1>10 DEF Sent
  <2>5. Accords(e)'
    BY <1>3, <1>11 DEF Accords, s
  <2>6. Waits(e)'
    <3>1. link[e] = "secured" => side[e].flow.request < attempt
      BY <1>8 DEF Bound, Waits
    <3>. QED
      BY <1>3, <1>5, <1>11, <1>13, <1>15, <3>1 DEF Waits, in2, s
  <2>7. Remembers(e)'
    BY <1>3, <1>5, <1>9, <1>11, <1>15, <1>16 DEF Remembers, Active, s
  <2>. QED
    BY <2>1, <2>2, <2>3, <2>4, <2>5, <2>6, <2>7 DEF Bound
<1>. QED
  BY <1>3, <1>17, <1>18 DEF AgreeInv

-----------------------------------------------------------------------------
(* The specification.                                                       *)

\* No device has begun an attempt at first.
LEMMA InitAgrees == Init => AgreeInv
<1>. SUFFICES ASSUME Init, NEW d \in Device PROVE Bound(d)
  BY DEF AgreeInv
<1>. DEFINE e == Other(d)
<1>1. e \in Device
  BY TwoDevices
<1>2. /\ side[d] = NewSide /\ side[e] = NewSide /\ link[d] = "down" /\ attempt = 0
      /\ channel[d] = <<>> /\ DOMAIN channel[d] = {}
  BY <1>1 DEF Init
<1>3. side[d] \in Handling
  BY InitSound, SidesAreHandled
<1>. HIDE DEF e
<1>4. /\ side[d].flow = IdleFlow /\ side[d].out = <<>> /\ side[e].flow = IdleFlow
  BY <1>2 DEF NewSide
<1>5. ~Active(d) /\ ~Live(d) /\ ~Alive(side[d])
  BY <1>4 DEF Active, Live, Alive, IdleFlow
<1>6. Rest(d)
  BY <1>2, <1>3, <1>4, <1>5 DEF Rest, Starts, Own, Alive, IdleFlow
<1>7. Messages(d) /\ Follows(d) /\ Sent(d)
  BY <1>5 DEF Messages, Follows, Sent
<1>8. Accords(d)
  BY <1>4 DEF Accords, IdleFlow
<1>9. Waits(d)
  BY <1>2 DEF Waits
<1>10. Remembers(d)
  BY <1>4 DEF Remembers, IdleFlow
<1>. QED
  BY <1>6, <1>7, <1>8, <1>9, <1>10 DEF Bound

\* No step of the system breaks what binds the two sides.
LEMMA NextAgrees == AgreeInv /\ IInv /\ Typed /\ [Next]_vars => AgreeInv'
<1>. SUFFICES ASSUME AgreeInv, IInv, Typed, [Next]_vars PROVE AgreeInv'
  OBVIOUS
<1>0. IInv' /\ Typed'
  BY NextSound
<1>1. ASSUME NEW d \in Device, Connect(d) PROVE AgreeInv'
  BY <1>0, <1>1, ConnectAgrees
<1>2. ASSUME NEW d \in Device, Begin(d) PROVE AgreeInv'
  BY <1>0, <1>2, BeginAgrees
<1>3. ASSUME NEW d \in Device, BeginRefused(d) PROVE AgreeInv'
  BY <1>0, <1>3, BeginRefusedAgrees
<1>4. ASSUME NEW d \in Device, Receive(d) PROVE AgreeInv'
  BY <1>0, <1>4, ReceiveAgrees
<1>5. ASSUME NEW d \in Device, ReceiveAccess(d) PROVE AgreeInv'
  BY <1>0, <1>5, ReceiveAccessAgrees
<1>6. ASSUME NEW d \in Device, NEW granted \in Grant, Accept(d, granted) PROVE AgreeInv'
  BY <1>0, <1>6, AcceptAgrees
<1>7. ASSUME NEW d \in Device, Abandon(d) PROVE AgreeInv'
  BY <1>0, <1>7, AbandonAgrees
<1>8. ASSUME NEW d \in Device, Lose(d) PROVE AgreeInv'
  BY <1>0, <1>8, LoseAgrees
<1>9. ASSUME NEW d \in Device, Crash(d) PROVE AgreeInv'
  BY <1>0, <1>9, CrashAgrees
<1>10. ASSUME NEW d \in Device,
              Revoke(d) \/ RePair(d) \/ (\E limit \in Grant : UpdateLimit(d, limit))
       PROVE  AgreeInv'
  BY <1>0, <1>10, ListAgrees
<1>11. ASSUME UNCHANGED vars PROVE AgreeInv'
  <2>1. UNCHANGED <<side, link, channel, attempt, edits>>
    BY <1>11 DEF vars
  <2>2. ASSUME NEW d \in Device PROVE Bound(d)'
    <3>1. Bound(d)
      BY DEF AgreeInv
    <3>2. Rest(d)' /\ Messages(d)' /\ Follows(d)'
      BY <2>1, <3>1 DEF Bound, Rest, Messages, Follows, Live, Active, Heard, HelloFirst
    <3>3. Sent(d)' /\ Accords(d)' /\ Waits(d)' /\ Remembers(d)'
      BY <2>1, <3>1 DEF Bound, Sent, Accords, Waits, Remembers, Live, Heard, Known
    <3>. QED
      BY <3>2, <3>3 DEF Bound
  <2>. QED
    BY <2>2 DEF AgreeInv
<1>. QED
  BY <1>1, <1>2, <1>3, <1>4, <1>5, <1>6, <1>7, <1>8, <1>9, <1>10, <1>11 DEF Next

\* Two sides that have authenticated in the same attempt hold the permissions
\* the controlled one decided on, within what its record allows, and remember
\* each other by the same pairing; no access request comes before that.
THEOREM AgreementCorrect == Spec => []AuthenticationIsAgreed
<1>1. Init => AgreeInv
  BY InitAgrees
<1>2. AgreeInv /\ IInv /\ Typed /\ [Next]_vars => AgreeInv'
  BY NextAgrees
<1>3. AgreeInv /\ IInv /\ Typed => AuthenticationIsAgreed
  <2>. SUFFICES ASSUME AgreeInv, IInv, Typed PROVE AuthenticationIsAgreed
    OBVIOUS
  <2>1. ASSUME NEW d \in Device, side[d].flow.authenticated
        PROVE  /\ Exchanged \subseteq side[d].flow.progress
               /\ side[d].flow.effective = Decided(side[d])
               /\ Own(side[d], edits # 0)
    BY <2>1 DEF AgreeInv, Bound, Rest, Starts, Exchanged
  <2>2. PermissionsAgree
    <3>. SUFFICES ASSUME NEW d \in Device, NEW e \in Device,
                         side[d].flow.authenticated, side[e].flow.authenticated,
                         side[d].flow.request = side[e].flow.request
                  PROVE  /\ side[d].flow.effective = side[e].flow.effective
                         /\ ~side[d].flow.outgoing =>
                              \E r \in Mutuals(side[d].devices) : side[d].flow.effective \subseteq r.limit
      BY DEF PermissionsAgree
    <3>1. side[d].flow.effective = side[e].flow.effective
      <4>1. CASE e = Other(d)
        <5>1. Accords(d)
          BY DEF AgreeInv, Bound
        <5>. QED
          BY <2>1, <4>1, <5>1 DEF Accords, Exchanged
      <4>. QED
        BY <4>1, TwoDevices
    <3>. QED
      BY <2>1, <3>1 DEF Own
  <2>3. AgreementIsDurable
    <3>. SUFFICES ASSUME NEW d \in Device, NEW e \in Device,
                         edits = 0, side[d].faults = 0, side[e].faults = 0,
                         side[d].flow.authenticated, side[e].flow.authenticated,
                         side[d].flow.request = side[e].flow.request
                  PROVE  MutualCommitId(side[d].stored) = MutualCommitId(side[e].stored)
      BY DEF AgreementIsDurable
    <3>1. side[d].stored = side[d].devices /\ side[e].stored = side[e].devices
      BY <2>1 DEF Own, Alive
    <3>2. CASE e = Other(d)
      BY <3>1, <3>2 DEF AgreeInv, Bound, Remembers, Known
    <3>. QED
      BY <3>2, TwoDevices
  <2>4. AccessFollowsAuthentication
    <3>. SUFFICES ASSUME NEW d \in Device, channel[d] # <<>>, Head(channel[d]).kind = "Access"
                  PROVE  ~side[d].flow.active
      BY DEF AccessFollowsAuthentication
    <3>1. channel[d] \in Seq(Message) /\ Messages(d)
      BY SidesAreHandled DEF AgreeInv, Bound
    <3>2. 1 \in DOMAIN channel[d] /\ channel[d][1].kind = "Access"
      BY <3>1
    <3>3. ~Before(channel[d], 1, "Committed", SUBSET Scope)
      BY <3>1 DEF Before
    <3>. QED
      BY <3>1, <3>2, <3>3 DEF Messages, Active
  <2>. QED
    BY <2>2, <2>3, <2>4 DEF AuthenticationIsAgreed
<1>. QED
  BY <1>1, <1>2, <1>3, OrderCorrect, PTL DEF Spec
==============================================================================
