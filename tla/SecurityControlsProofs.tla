------------------------ MODULE SecurityControlsProofs ------------------------
(***************************************************************************)
(* Proofs about SecurityControls: what a privacy mode shows is so, a       *)
(* command is executed once and its end reported once, and what the user   *)
(* wished is what happens to the workstation and what is remembered.       *)
(***************************************************************************)
EXTENDS SecurityControls, SequenceTheorems, TLAPS

(* The messages and the types.                                               *)

PrivacyStatuses == [state : {"Inactive", "Active", "Failed"}, effective : Modes]

CommandMessages ==
    {m \in [id : 0 .. MaxCommands, type : CommandTypes, arg : Modes \union Actions] :
        /\ m.id = EndId <=> m.type = "End"
        /\ m.type = "Mode" => m.arg \in Modes
        /\ m.type = "Action" => m.arg \in Actions}

EndMessages == {m \in CommandMessages : m.type = "End"}

ResultMessages == [id : 0 .. MaxCommands, type : {"Result"}, arg : {"ok", "refused"}]

StatusMessages == [id : {EndId}, type : {"ModeState"}, arg : PrivacyStatuses]

\* What an end may read.
MessagesTo(e) ==
    IF e = Controlled THEN CommandMessages \union ResultMessages
    ELSE EndMessages \union ResultMessages \union StatusMessages

AnyMessages == CommandMessages \union ResultMessages \union StatusMessages

Waiting == [command : CommandMessages, attempts : {1, 2}]

ChannelTyped ==
    /\ wire \in [Ends -> Seq(AnyMessages)]
    /\ \A e \in Ends :
          /\ Len(wire[e]) <= WireLimit
          /\ \A i \in 1 .. Len(wire[e]) : wire[e][i] \in MessagesTo(e)

PendingTyped ==
    /\ pending \in [Ends -> SUBSET Waiting]
    /\ \A p \in pending[Controlled] : p.command \in EndMessages

ResultsTyped ==
    /\ results \in [Ends -> Seq(ResultMessages)]
    /\ \A e \in Ends : Len(results[e]) <= CacheLimit

SessionTyped ==
    /\ session \in 0 .. MaxSessions
    /\ phase \in [Ends -> Phases] /\ restore \in [Ends -> {"Connected", "Streaming"}]

CountsTyped ==
    /\ nextId \in 1 .. MaxCommands + 1 /\ troubles \in 0 .. MaxTroubles
    /\ reports \in [Ids -> Nat] /\ executed \in [Ids -> Nat]
    /\ locks \in [1 .. MaxSessions -> Nat]

HostTyped ==
    /\ privacy \in PrivacyStatuses /\ seen \in PrivacyStatuses
    /\ screen \in [overlay : BOOLEAN, off : BOOLEAN]
    /\ emergency \in BOOLEAN /\ lost \in BOOLEAN
    /\ action \in [armed : Actions, streamed : BOOLEAN, consumed : BOOLEAN]

UserTyped ==
    /\ applied \in BOOLEAN /\ DOMAIN asked \subseteq Ids
    /\ preference \in [mode : Modes, action : Actions]
    /\ wishes \in [asked : 0 .. MaxCommands, confirmed : 0 .. MaxCommands, arg : Actions,
                   streamed : BOOLEAN]

Typed == ChannelTyped /\ PendingTyped /\ ResultsTyped /\ SessionTyped /\ CountsTyped
         /\ HostTyped /\ UserTyped

(* Who waits for what.                                                       *)

\* An end is awaited while stopping, and nothing once the session is torn down.
EndsInOrder ==
    \A e \in Ends :
      /\ \A p \in pending[e] : p.command.type = "End" => phase[e] = "Stopping"
      /\ ~IsOpen(e) => pending[e] = {} /\ results[e] = <<>>

\* The last status on its way, or the one last seen, is the host's.
StatusIsComing ==
    LET w == wire[Controller] IN
    (~lost /\ \A e \in Ends : phase[e] \in Live) =>
      /\ (\A i \in 1 .. Len(w) : w[i].type # "ModeState") => seen = privacy
      /\ \A i \in 1 .. Len(w) :
           /\ w[i].type = "ModeState"
           /\ \A j \in i + 1 .. Len(w) : w[j].type # "ModeState"
           => w[i].arg = privacy

OneEach ==
    \A p, q \in pending[Controller] :
      p.command.id # EndId /\ p.command.id = q.command.id => p = q

ReportsExact ==
    \A id \in Ids :
      reports[id] + (IF Waits(Controller, id) THEN 1 ELSE 0) = (IF id < nextId THEN 1 ELSE 0)

WaitingKnown == \A p \in pending[Controller] : p.command.id < nextId

(* Execution.                                                                *)

IsOrder(m) == m.type \in CommandTypes \ {"End"}

HasId(s, k) == \E i \in 1 .. Len(s) : s[i].id = k

Travelling(w, k) == \E h \in 1 .. Len(w) : IsOrder(w[h]) /\ w[h].id = k

\* With the messages w on their way, the command at i comes for the first time.
FreshIn(w, i, ex) ==
    /\ \A k \in Ids : k >= w[i].id => ex[k] = 0
    /\ \A h \in 1 .. i - 1 : IsOrder(w[h]) => w[h].id < w[i].id

\* It is a copy of one before it, or of one whose result is in the cache r.
CopyIn(w, i, r) ==
    \/ HasId(r, w[i].id)
    \/ \E h \in 1 .. i - 1 : IsOrder(w[h]) /\ w[h].id = w[i].id

OrdersIn(w, r, ex) ==
    \A i \in 1 .. Len(w) : IsOrder(w[i]) => FreshIn(w, i, ex) \/ CopyIn(w, i, r)

\* A copy is not far behind its command, and no command is new after an end.
CloseIn(w) ==
    \A i \in 1 .. Len(w) : \A h \in 1 .. i - 1 :
      IsOrder(w[h]) /\ IsOrder(w[i]) => w[h].id - w[i].id <= CacheLimit - 2

LateIn(w, n) ==
    \A i \in 1 .. Len(w) : \A h \in 1 .. i - 1 :
      w[h].type = "End" /\ IsOrder(w[i]) => n - w[i].id < CacheLimit

KnownIn(w, n) == \A i \in 1 .. Len(w) : w[i].id < n

\* A command that may still be copied is on its way or in the cache, and few
\* enough were sent after it.
MayCopy(p) == p.attempts = 1 /\ p.command.id # EndId

SentIn(ps, w, r) ==
    \A p \in ps : MayCopy(p) => HasId(r, p.command.id) \/ Travelling(w, p.command.id)

RecentIn(ps, n) == \A p \in ps : MayCopy(p) => n - p.command.id < CacheLimit

\* The cache is in the order of the ids but for the answer to an end.
EndBetween(r, i, j) == \E h \in i + 1 .. j - 1 : r[h].id = EndId

SpacedIn(r) ==
    /\ \A i, j \in 1 .. Len(r) : r[i].id = EndId /\ r[j].id = EndId => i = j
    /\ \A i, j \in 1 .. Len(r) :
          i < j /\ r[i].id # EndId /\ r[j].id # EndId =>
            r[j].id - r[i].id >= j - i - (IF EndBetween(r, i, j) THEN 1 ELSE 0)

OnceIn(ex, n) == \A k \in Ids : ex[k] <= 1 /\ (k >= n => ex[k] = 0)

\* What an answer is about was executed.
DoneIn(s, ex) == \A i \in 1 .. Len(s) : s[i].id # EndId => ex[s[i].id] = 1

\* An end is sent by a controller that stops.
EndSent ==
    \A i \in 1 .. Len(wire[Controlled]) :
      wire[Controlled][i].type = "End" => phase[Controller] \notin Live

ExecutionInv ==
    LET w == wire[Controlled]
        r == results[Controlled]
    IN /\ IsOpen(Controlled) => OrdersIn(w, r, executed) /\ SentIn(pending[Controller], w, r)
       /\ CloseIn(w) /\ LateIn(w, nextId) /\ KnownIn(w, nextId) /\ EndSent
       /\ RecentIn(pending[Controller], nextId) /\ SpacedIn(r)
       /\ OnceIn(executed, nextId) /\ DoneIn(wire[Controller], executed) /\ DoneIn(r, executed)

(* Wishes.                                                                   *)

\* The command that waits under an id is the one that travels under it.
SameCommand ==
    \A p \in pending[Controller] : \A i \in 1 .. Len(wire[Controlled]) :
      IsOrder(wire[Controlled][i]) /\ wire[Controlled][i].id = p.command.id
        => wire[Controlled][i] = p.command

Answered(k) ==
    \/ \E i \in 1 .. Len(wire[Controller]) :
          wire[Controller][i].id = k /\ wire[Controller][i].arg = "ok"
    \/ \E j \in 1 .. Len(results[Controlled]) :
          results[Controlled][j].id = k /\ results[Controlled][j].arg = "ok"

AnsweredInForce ==
    \A p \in pending[Controller] :
      p.command.id # EndId /\ Answered(p.command.id) => p.command.arg \in inForce

StreamsNoted ==
    /\ wishes.streamed = action.streamed
    /\ phase[Controlled] = "Streaming" => action.streamed
    /\ phase[Controlled] = "Reconnecting" /\ restore[Controlled] = "Streaming"
         => action.streamed

LocksInOrder ==
    /\ \A n \in DOMAIN locks : locks[n] <= 1 /\ (n > session => locks[n] = 0)
    /\ ~action.consumed /\ session > 0 => locks[session] = 0
    /\ phase[Controlled] # "Down" => ~action.consumed /\ session > 0
    /\ phase[Controlled] = "Down" /\ session > 0 => action.consumed

\* What becomes, or became, of a wish.
Prevails(arg) ==
    IF action.consumed
    THEN locks[session] = (IF arg = "lock" /\ action.streamed THEN 1 ELSE 0)
    ELSE action.armed = arg

IsWish(m) == m.type = "Action"

WishInForce ==
    /\ wishes.asked < nextId
    /\ \A p \in pending[Controller] :
          /\ IsWish(p.command) => p.command.id <= wishes.asked
          /\ p.command.id # EndId /\ p.command.id = wishes.asked => IsWish(p.command)
    /\ \A i \in 1 .. Len(wire[Controlled]) :
          IsWish(wire[Controlled][i]) => wire[Controlled][i].id <= wishes.asked
    /\ wishes.confirmed = EndId => wishes.arg = "none"
    /\ wishes.confirmed # EndId => executed[wishes.confirmed] = 1
    /\ wishes.confirmed = wishes.asked => Prevails(wishes.arg)
    /\ \A p \in pending[Controller] :
          p.command.id # EndId /\ p.command.id = wishes.asked /\ Answered(p.command.id)
            => Prevails(p.command.arg)

WishInv == SameCommand /\ AnsweredInForce /\ StreamsNoted /\ LocksInOrder /\ WishInForce
           /\ RememberedWasInForce

------------------------------------------------------------------------------
(* What is sent.                                                             *)

Sent(w, ms) ==
    LET room == WireLimit - Len(w)
    IN w \o SubSeq(ms, 1, IF room < Len(ms) THEN room ELSE Len(ms))

\* x is w with the first messages of ms behind it: all that find room.
Extends(w, ms, x) ==
    /\ Len(x) \in Len(w) .. Len(w) + Len(ms) /\ Len(x) <= WireLimit
    /\ Len(x) < Len(w) + Len(ms) => Len(x) = WireLimit
    /\ \A i \in 1 .. Len(w) : x[i] = w[i]
    /\ \A i \in 1 .. Len(x) - Len(w) : x[Len(w) + i] = ms[i]

\* What end e may have on its way, and wait for.
Sendable(e, v, ps) ==
    /\ v \in Seq(AnyMessages) /\ Len(v) <= WireLimit
    /\ \A i \in 1 .. Len(v) : v[i] \in MessagesTo(Peer(e))
    /\ ps \in SUBSET Waiting
    /\ e = Controlled => \A p \in ps : p.command \in EndMessages

Letter(v, ps) == [wire |-> v, pending |-> ps]

LEMMA SentExtends ==
    ASSUME NEW S, NEW w \in Seq(S), NEW ms \in Seq(S), Len(w) <= WireLimit
    PROVE  Sent(w, ms) \in Seq(S) /\ Extends(w, ms, Sent(w, ms))
<1> DEFINE room == WireLimit - Len(w)
           k == IF room < Len(ms) THEN room ELSE Len(ms)
           t == SubSeq(ms, 1, k)
<1>1. k \in 0 .. Len(ms) /\ Len(w) + k <= WireLimit /\ Len(w) \in Nat
      /\ (k < Len(ms) => Len(w) + k = WireLimit)
  BY BoundAssumption
<1>2. t \in Seq(S) /\ Len(t) = k /\ \A i \in 1 .. k : t[i] = ms[i]
  BY <1>1, SubSeqProperties
<1>3. Sent(w, ms) = w \o t
  BY DEF Sent
<1> HIDE DEF k, t
<1>4. w \o t \in Seq(S) /\ Len(w \o t) = Len(w) + k
      /\ (\A i \in 1 .. Len(w) : (w \o t)[i] = w[i])
      /\ (\A i \in 1 .. k : (w \o t)[Len(w) + i] = t[i])
  BY <1>1, <1>2
<1> QED
  BY <1>1, <1>2, <1>3, <1>4 DEF Extends

LEMMA TransmitsSent ==
    ASSUME NEW v, NEW ps, NEW ms
    PROVE  Transmits(Letter(v, ps), ms) = Letter(Sent(v, ms), ps)
<1> DEFINE o == Letter(v, ps)
           k == IF WireLimit - Len(v) < Len(ms) THEN WireLimit - Len(v) ELSE Len(ms)
           x == v \o SubSeq(ms, 1, k)
<1>1. o.wire = v
  BY DEF Letter
<1>2. Transmits(o, ms) = [o EXCEPT !.wire = x]
  BY <1>1 DEF Transmits
<1> HIDE DEF x
<1>3. [o EXCEPT !.wire = x] = Letter(x, ps)
  BY DEF Letter
<1> QED
  BY <1>2, <1>3 DEF Sent, x

LEMMA OutIsSendable ==
    ASSUME Typed, NEW e \in Ends
    PROVE  /\ Out(e) = Letter(wire[Peer(e)], pending[e])
           /\ Sendable(e, wire[Peer(e)], pending[e])
BY DEF Typed, ChannelTyped, PendingTyped, Out, Letter, Sendable, Peer, Ends

LEMMA SendsMore ==
    ASSUME NEW e \in Ends, NEW v, NEW ps, Sendable(e, v, ps),
           NEW ms \in Seq(AnyMessages), \A i \in 1 .. Len(ms) : ms[i] \in MessagesTo(Peer(e))
    PROVE  Sendable(e, Sent(v, ms), ps)
<1>1. v \in Seq(AnyMessages) /\ Len(v) <= WireLimit
  BY DEF Sendable
<1>2. Sent(v, ms) \in Seq(AnyMessages) /\ Extends(v, ms, Sent(v, ms))
  BY <1>1, SentExtends
<1>3. ASSUME NEW i \in 1 .. Len(Sent(v, ms)) PROVE Sent(v, ms)[i] \in MessagesTo(Peer(e))
  <2>1. CASE i <= Len(v)
    <3>1. Len(v) \in Nat /\ i \in 1 .. Len(v)
      BY <1>1, <1>2, <2>1
    <3>2. Sent(v, ms)[i] = v[i]
      BY <1>2, <3>1 DEF Extends
    <3> QED
      BY <3>1, <3>2 DEF Sendable
  <2>2. CASE i > Len(v)
    <3>1. i - Len(v) \in 1 .. Len(ms) /\ Sent(v, ms)[Len(v) + (i - Len(v))] = ms[i - Len(v)]
      BY <1>1, <1>2, <2>2 DEF Extends
    <3> QED
      BY <1>1, <3>1
  <2> QED
    BY <1>1, <2>1, <2>2
<1> QED
  BY <1>2, <1>3 DEF Extends, Sendable

LEMMA SendsLess ==
    ASSUME NEW e, NEW v, NEW ps, Sendable(e, v, ps), NEW qs \in SUBSET ps
    PROVE  Sendable(e, v, qs)
BY DEF Sendable

EndCommand == Command(EndId, "End", "none")

LEMMA EndIsMessage ==
    /\ EndCommand \in EndMessages /\ EndCommand \in CommandMessages
    /\ EndCommand \in AnyMessages /\ \A e \in Ends : EndCommand \in MessagesTo(e)
BY BoundAssumption
DEF EndCommand, Command, EndId, EndMessages, CommandMessages, AnyMessages, MessagesTo,
    CommandTypes, Actions, Modes, Ends, Controlled, Controller

LEMMA SentOne ==
    ASSUME NEW v \in Seq(AnyMessages), Len(v) < WireLimit, NEW c \in AnyMessages
    PROVE  Sent(v, <<c>>) = Append(v, c) /\ Len(Sent(v, <<c>>)) - Len(v) = 1
<1> DEFINE x == Sent(v, <<c>>)
<1>1. Len(v) \in Nat /\ WireLimit \in Nat /\ Len(v) <= WireLimit
  BY BoundAssumption
<1>2. <<c>> \in Seq(AnyMessages) /\ Len(<<c>>) = 1 /\ <<c>>[1] = c
  OBVIOUS
<1>3. x \in Seq(AnyMessages) /\ Extends(v, <<c>>, x)
  BY <1>1, <1>2, SentExtends
<1>4. Len(x) = Len(v) + 1
  BY <1>1, <1>2, <1>3 DEF Extends
<1>5. x[Len(v) + 1] = c /\ \A i \in 1 .. Len(v) : x[i] = v[i]
  BY <1>1, <1>2, <1>3, <1>4 DEF Extends
<1> HIDE DEF x
<1>6. x = Append(v, c)
  BY <1>1, <1>3, <1>4, <1>5
<1> QED
  BY <1>1, <1>4, <1>6 DEF x

LEMMA CommandsSent ==
    ASSUME NEW v \in Seq(AnyMessages), Len(v) <= WireLimit, NEW ps,
           NEW cs \in Seq(CommandMessages)
    PROVE  SendCommands(Letter(v, ps), cs) =
             Letter(Sent(v, cs),
                    ps \union {[command |-> cs[i], attempts |-> 1] :
                                  i \in 1 .. Len(Sent(v, cs)) - Len(v)})
<1> DEFINE x == Sent(v, cs)
           new == {x[i] : i \in Len(v) + 1 .. Len(x)}
           ws == {[command |-> c, attempts |-> 1] : c \in new}
           us == {[command |-> cs[i], attempts |-> 1] : i \in 1 .. Len(x) - Len(v)}
<1>1. x \in Seq(AnyMessages) /\ Extends(v, cs, x)
  <2>1. cs \in Seq(AnyMessages)
    BY SeqMonotonic, CommandMessages \subseteq AnyMessages DEF AnyMessages
  <2> QED
    BY <2>1, SentExtends
<1>2. Len(x) \in Nat /\ Len(v) \in Nat
  BY <1>1
<1>3. Transmits(Letter(v, ps), cs) = Letter(x, ps)
  BY TransmitsSent
<1>4. Letter(x, ps).wire = x /\ Letter(v, ps).wire = v
      /\ [Letter(x, ps) EXCEPT !.pending = @ \union ws] = Letter(x, ps \union ws)
  <2> HIDE DEF x, ws
  <2>1. Letter(x, ps).wire = x /\ Letter(v, ps).wire = v
    BY DEF Letter
  <2> DEFINE y == ps \union ws
  <2>2. Letter(x, ps).pending \union ws = y
    BY DEF Letter
  <2>3. [Letter(x, ps) EXCEPT !.pending = Letter(x, ps).pending \union ws]
          = [Letter(x, ps) EXCEPT !.pending = y]
    BY <2>2
  <2> HIDE DEF y
  <2>4. [Letter(x, ps) EXCEPT !.pending = y] = Letter(x, y)
    BY DEF Letter
  <2>5. [Letter(x, ps) EXCEPT !.pending = @ \union ws] = Letter(x, y)
    BY <2>3, <2>4
  <2> QED
    BY <2>1, <2>5 DEF y
<1>5. SendCommands(Letter(v, ps), cs) = Letter(x, ps \union ws)
  <2> HIDE DEF x
  <2> QED
    BY <1>3, <1>4 DEF SendCommands
<1>6. \A i \in 1 .. Len(x) - Len(v) : x[Len(v) + i] = cs[i]
  BY <1>1 DEF Extends
<1> HIDE DEF x
<1>7. new = {cs[i] : i \in 1 .. Len(x) - Len(v)}
  <2>1. ASSUME NEW i \in Len(v) + 1 .. Len(x)
        PROVE  i - Len(v) \in 1 .. Len(x) - Len(v) /\ x[i] = cs[i - Len(v)]
    <3>1. i - Len(v) \in 1 .. Len(x) - Len(v) /\ Len(v) + (i - Len(v)) = i
      BY <1>2
    <3> QED
      BY <3>1, <1>6
  <2>2. ASSUME NEW i \in 1 .. Len(x) - Len(v)
        PROVE  Len(v) + i \in Len(v) + 1 .. Len(x) /\ x[Len(v) + i] = cs[i]
    BY <1>2, <1>6
  <2>3. \A m \in new : m \in {cs[i] : i \in 1 .. Len(x) - Len(v)}
    BY <2>1
  <2>4. \A m \in {cs[i] : i \in 1 .. Len(x) - Len(v)} : m \in new
    BY <2>2
  <2> QED
    BY <2>3, <2>4
<1>8. ws = us
  BY <1>7
<1> QED
  BY <1>5, <1>8 DEF x

\* Entering Stopping with an EndSession to answer.
Stops(e, v, ps) ==
    /\ Len(v) < WireLimit
    /\ phase' = [phase EXCEPT ![e] = "Stopping"]
    /\ wire' = [wire EXCEPT ![Peer(e)] = Append(v, EndCommand)]
    /\ pending' = [pending EXCEPT ![e] = ps \union {[command |-> EndCommand, attempts |-> 1]}]
    /\ UNCHANGED <<results, reports>>

\* A session that is torn down.
Tears(e, v, ps) ==
    /\ phase' = [phase EXCEPT ![e] = "Tearing"]
    /\ wire' = [wire EXCEPT ![Peer(e)] = v, ![e] = <<>>]
    /\ pending' = [pending EXCEPT ![e] = {}]
    /\ results' = [results EXCEPT ![e] = <<>>]
    /\ Reported({p.command.id : p \in ps})

LEMMA TeardownTears ==
    ASSUME NEW e, NEW v, NEW ps, Teardown(e, Letter(v, ps))
    PROVE  Tears(e, v, ps)
BY DEF Teardown, Tears, Letter

LEMMA FinishGives ==
    ASSUME NEW e \in Ends, NEW v, NEW ps, NEW notify, Sendable(e, v, ps),
           FinishSession(e, Letter(v, ps), notify)
    PROVE  LetGo(e) /\ ((notify /\ Stops(e, v, ps)) \/ Tears(e, v, ps))
<1>1. LetGo(e)
  BY DEF FinishSession
<1>2. CASE ~(notify /\ Accepts(Letter(v, ps)))
  BY <1>1, <1>2, TeardownTears DEF FinishSession
<1>3. CASE notify /\ Accepts(Letter(v, ps))
  <2> DEFINE x == Sent(v, <<EndCommand>>)
  <2>1. v \in Seq(AnyMessages) /\ Len(v) <= WireLimit /\ Len(v) < WireLimit /\ Len(v) \in Nat
    BY <1>3 DEF Sendable, Accepts, Letter
  <2>2. <<EndCommand>> \in Seq(CommandMessages) /\ <<EndCommand>> \in Seq(AnyMessages)
        /\ Len(<<EndCommand>>) = 1 /\ <<EndCommand>>[1] = EndCommand
    BY EndIsMessage
  <2>3. x = Append(v, EndCommand) /\ Len(x) - Len(v) = 1
    BY <2>1, EndIsMessage, SentOne
  <2>6. SendCommands(Letter(v, ps), <<EndCommand>>) =
          Letter(x, ps \union {[command |-> <<EndCommand>>[i], attempts |-> 1] :
                                  i \in 1 .. Len(x) - Len(v)})
    BY <2>1, <2>2, CommandsSent
  <2> HIDE DEF x
  <2>8. {[command |-> <<EndCommand>>[i], attempts |-> 1] : i \in 1 .. Len(x) - Len(v)}
          = {[command |-> EndCommand, attempts |-> 1]}
    BY <2>2, <2>3
  <2>9. phase' = [phase EXCEPT ![e] = "Stopping"]
        /\ Sends(e, Letter(x, ps \union {[command |-> EndCommand, attempts |-> 1]}))
        /\ UNCHANGED <<results, reports>>
    BY <1>3, <2>6, <2>8 DEF FinishSession, EndCommand
  <2> QED
    BY <1>1, <1>3, <2>1, <2>3, <2>9 DEF Stops, Sends, Letter
<1> QED
  BY <1>2, <1>3

------------------------------------------------------------------------------
(* The host.                                                                 *)

HostState(p, s, says) == [privacy |-> p, screen |-> s, says |-> says]

Screens == [overlay : BOOLEAN, off : BOOLEAN]

LEMMA RestoresMode ==
    ASSUME NEW p, NEW s \in Screens, NEW says, NEW mode, NEW wakes \in BOOLEAN
    PROVE  RestoreMode(HostState(p, s, says), mode, wakes) =
             HostState(p, [overlay |-> s.overlay /\ mode # "overlay",
                           off |-> s.off /\ ~(mode = "displayoff" /\ wakes)], says)
<1> DEFINE h == HostState(p, s, says)
<1>1. CASE mode = "overlay"
  BY <1>1 DEF RestoreMode, HostState, Screens
<1>2. CASE mode = "displayoff" /\ wakes
  BY <1>2 DEF RestoreMode, HostState, Screens
<1>3. CASE mode # "overlay" /\ ~(mode = "displayoff" /\ wakes)
  <2>1. RestoreMode(h, mode, wakes) = h
    BY <1>3 DEF RestoreMode
  <2>2. s = [overlay |-> s.overlay /\ mode # "overlay",
             off |-> s.off /\ ~(mode = "displayoff" /\ wakes)]
    BY <1>3 DEF Screens
  <2> QED
    BY <2>1, <2>2 DEF HostState
<1> QED
  BY <1>1, <1>2, <1>3

LEMMA SetsState ==
    ASSUME NEW p \in PrivacyStatuses, NEW s, NEW says, NEW state
    PROVE  SetState(HostState(p, s, says), state) =
             HostState([state |-> state, effective |-> p.effective], s,
                       <<Status([state |-> state, effective |-> p.effective])>>)
<1> DEFINE q == [state |-> state, effective |-> p.effective]
<1>1. [HostState(p, s, says) EXCEPT !.privacy.state = state] = HostState(q, s, says)
  BY DEF HostState, PrivacyStatuses
<1>2. Publish(HostState(q, s, says)) = HostState(q, s, <<Status(q)>>)
  BY DEF Publish, HostState
<1> QED
  BY <1>1, <1>2 DEF SetState

LEMMA TakesEffect ==
    ASSUME NEW p \in PrivacyStatuses, NEW s, NEW says, NEW mode
    PROVE  [HostState(p, s, says) EXCEPT !.privacy.effective = mode] =
             HostState([state |-> p.state, effective |-> mode], s, says)
BY DEF HostState, PrivacyStatuses

\* What a host is after a reset.
LEMMA Resets ==
    ASSUME HostTyped, NEW wakes \in BOOLEAN
    PROVE  LET p == [state |-> IF wakes THEN "Inactive" ELSE "Failed",
                     effective |-> "disabled"]
           IN Reset(Host, wakes) =
                HostState(p, [overlay |-> FALSE, off |-> screen.off /\ ~wakes], <<Status(p)>>)
<1> DEFINE p == [state |-> IF wakes THEN "Inactive" ELSE "Failed", effective |-> "disabled"]
           s1 == [overlay |-> screen.overlay /\ "overlay" # "overlay",
                  off |-> screen.off /\ ~("overlay" = "displayoff" /\ wakes)]
           s2 == [overlay |-> s1.overlay /\ "displayoff" # "overlay",
                  off |-> s1.off /\ ~("displayoff" = "displayoff" /\ wakes)]
           q == [state |-> privacy.state, effective |-> "disabled"]
<1>1. privacy \in PrivacyStatuses /\ screen \in Screens /\ Host = HostState(privacy, screen, <<>>)
  BY DEF HostTyped, Host, HostState, Screens
<1>2. RestoreMode(Host, "overlay", wakes) = HostState(privacy, s1, <<>>) /\ s1 \in Screens
  BY <1>1, RestoresMode DEF Screens
<1>3. RestoreMode(HostState(privacy, s1, <<>>), "displayoff", wakes)
        = HostState(privacy, s2, <<>>)
  BY <1>2, RestoresMode
<1>4. s2 = [overlay |-> FALSE, off |-> screen.off /\ ~wakes]
  BY <1>1 DEF Screens
<1>5. q \in PrivacyStatuses
  BY <1>1 DEF PrivacyStatuses, Modes
<1> HIDE DEF s1, s2
<1>6. [HostState(privacy, s2, <<>>) EXCEPT !.privacy.effective = "disabled"]
        = HostState(q, s2, <<>>)
  BY <1>1, TakesEffect
<1>7. SetState(HostState(q, s2, <<>>), p.state) = HostState(p, s2, <<Status(p)>>)
  BY <1>5, SetsState
<1>8. Reset(Host, wakes) = SetState(HostState(q, s2, <<>>), p.state)
  BY <1>2, <1>3, <1>6 DEF Reset
<1> QED
  BY <1>4, <1>7, <1>8

\* What a host is after a mode was set, or not.
ModeSet(h) ==
    /\ h.privacy \in PrivacyStatuses /\ h.screen \in Screens
    /\ h.says = <<Status(h.privacy)>>
    /\ h.privacy.effective = "overlay" =>
         h.screen.overlay \/ (privacy.effective = "overlay" /\ h.screen.overlay = screen.overlay)
    /\ (screen.overlay => privacy.effective = "overlay")
         => (h.screen.overlay => h.privacy.effective = "overlay")

LEMMA SetsMode ==
    ASSUME HostTyped, NEW mode \in Modes, NEW takes \in BOOLEAN, NEW wakes \in BOOLEAN
    PROVE  ModeSet(SetMode(Host, mode, takes, wakes))
<1> DEFINE old == privacy.effective
           s1 == [overlay |-> screen.overlay /\ old # "overlay",
                  off |-> screen.off /\ ~(old = "displayoff" /\ wakes)]
           q == [state |-> privacy.state, effective |-> "disabled"]
           h == SetMode(Host, mode, takes, wakes)
           left == HostState(q, s1, <<>>)
<1>1. privacy \in PrivacyStatuses /\ screen \in Screens /\ Host = HostState(privacy, screen, <<>>)
  BY DEF HostTyped, Host, HostState, Screens
<1>2. RestoreMode(Host, old, wakes) = HostState(privacy, s1, <<>>) /\ s1 \in Screens
      /\ s1.overlay = (screen.overlay /\ old # "overlay")
  BY <1>1, RestoresMode DEF Screens
<1>3. q \in PrivacyStatuses /\ q.effective = "disabled"
  BY <1>1 DEF PrivacyStatuses, Modes
<1> HIDE DEF s1, q
<1>4. [RestoreMode(Host, old, wakes) EXCEPT !.privacy.effective = "disabled"] = left
  BY <1>1, <1>2, TakesEffect DEF q
<1>5. Host.privacy = privacy /\ Host.screen = screen /\ privacy \in PrivacyStatuses
      /\ old \in Modes /\ screen \in Screens
  BY <1>1 DEF Host, PrivacyStatuses
<1>6. CASE mode = old /\ privacy.state \in {"Active", "Inactive"}
  <2>1. h = Publish(Host)
    BY <1>5, <1>6 DEF SetMode
  <2>2. Publish(Host) = HostState(privacy, screen, <<Status(privacy)>>)
    BY <1>1 DEF Publish, HostState
  <2> QED
    BY <1>5, <2>1, <2>2 DEF ModeSet, HostState
<1>7. CASE ~(mode = old /\ privacy.state \in {"Active", "Inactive"}) /\ old = "displayoff" /\ ~wakes
  <2> DEFINE p == [state |-> "Failed", effective |-> privacy.effective]
  <2>1. h = SetState(Host, "Failed")
    BY <1>5, <1>7 DEF SetMode
  <2>2. SetState(Host, "Failed") = HostState(p, screen, <<Status(p)>>)
    BY <1>1, SetsState
  <2>3. p \in PrivacyStatuses /\ p.effective = privacy.effective
    BY <1>5 DEF PrivacyStatuses
  <2> HIDE DEF p
  <2> QED
    BY <1>5, <2>1, <2>2, <2>3 DEF ModeSet, HostState
<1>8. CASE /\ ~(mode = old /\ privacy.state \in {"Active", "Inactive"})
           /\ ~(old = "displayoff" /\ ~wakes)
  <2>1. ASSUME NEW state \in {"Inactive", "Failed"}, h = SetState(left, state)
        PROVE  ModeSet(h)
    <3> DEFINE p == [state |-> state, effective |-> "disabled"]
    <3>1. SetState(left, state) = HostState(p, s1, <<Status(p)>>)
      BY <1>3, SetsState
    <3>2. p \in PrivacyStatuses /\ p.effective = "disabled"
      BY DEF PrivacyStatuses, Modes
    <3>3. h.privacy = p /\ h.screen = s1 /\ h.says = <<Status(p)>>
      <4> HIDE DEF p, h
      <4> QED
        BY <2>1, <3>1 DEF HostState
    <3> HIDE DEF p, h, left
    <3>4. ~(h.privacy.effective = "overlay")
      BY <3>2, <3>3
    <3>5. (screen.overlay => old = "overlay") => ~h.screen.overlay
      BY <1>2, <3>3
    <3> QED
      BY <1>2, <3>2, <3>3, <3>4, <3>5 DEF ModeSet
  <2>2. CASE mode = "disabled"
    <3>1. h = SetState(left, "Inactive")
      BY <1>4, <1>5, <1>8, <2>2 DEF SetMode
    <3> QED
      BY <2>1, <3>1
  <2>3. CASE mode # "disabled" /\ ~takes
    <3>1. h = SetState(left, "Failed")
      BY <1>4, <1>5, <1>8, <2>3 DEF SetMode
    <3> QED
      BY <2>1, <3>1
  <2>4. CASE mode # "disabled" /\ takes
    <3> DEFINE s2 == IF mode = "overlay" THEN [s1 EXCEPT !.overlay = TRUE]
                     ELSE [s1 EXCEPT !.off = TRUE]
               p == [state |-> "Active", effective |-> mode]
               r == [state |-> q.state, effective |-> mode]
    <3>1. s2 \in Screens /\ (mode = "overlay" => s2.overlay)
          /\ (mode # "overlay" => s2.overlay = s1.overlay)
      BY <1>2 DEF Screens
    <3>2. ApplyMode(left, mode) = HostState(q, s2, <<>>)
      <4>1. CASE mode = "overlay"
        BY <1>2, <4>1 DEF ApplyMode, HostState, Screens
      <4>2. CASE mode # "overlay"
        BY <1>2, <4>2 DEF ApplyMode, HostState, Screens
      <4> QED
        BY <4>1, <4>2
    <3> HIDE DEF s2
    <3>3. [ApplyMode(left, mode) EXCEPT !.privacy.effective = mode] = HostState(r, s2, <<>>)
      BY <1>3, <3>2, TakesEffect
    <3>4. r \in PrivacyStatuses
      BY <1>3 DEF PrivacyStatuses
    <3>5. SetState(HostState(r, s2, <<>>), "Active") = HostState(p, s2, <<Status(p)>>)
      BY <3>4, SetsState
    <3>6. h = SetState([ApplyMode(left, mode) EXCEPT !.privacy.effective = mode], "Active")
      <4> HIDE DEF left
      <4> QED
        BY <1>4, <1>5, <1>8, <2>4 DEF SetMode
    <3>7. p \in PrivacyStatuses /\ p.effective = mode
      BY DEF PrivacyStatuses
    <3>8. h.privacy = p /\ h.screen = s2 /\ h.says = <<Status(p)>>
      <4> HIDE DEF p, r, h, left
      <4> QED
        BY <3>3, <3>5, <3>6 DEF HostState
    <3> HIDE DEF p, h, left
    <3>9. h.privacy.effective = "overlay" => h.screen.overlay
      BY <3>1, <3>7, <3>8
    <3>10. (screen.overlay => old = "overlay")
             => (h.screen.overlay => h.privacy.effective = "overlay")
      <4>1. CASE mode = "overlay"
        BY <3>7, <3>8, <4>1
      <4>2. CASE mode # "overlay"
        BY <1>2, <3>1, <3>8, <4>2
      <4> QED
        BY <4>1, <4>2
    <3>11. h.privacy \in PrivacyStatuses /\ h.screen \in Screens
           /\ h.says = <<Status(h.privacy)>>
      BY <3>1, <3>7, <3>8
    <3> QED
      BY <3>9, <3>10, <3>11 DEF ModeSet, h
  <2> QED
    BY <2>2, <2>3, <2>4
<1> QED
  BY <1>6, <1>7, <1>8

------------------------------------------------------------------------------
(* Types.                                                                    *)

LEMMA TwoEnds ==
    /\ Ends = {Controller, Controlled} /\ Controller # Controlled
    /\ Controller \in Ends /\ Controlled \in Ends
    /\ Peer(Controller) = Controlled /\ Peer(Controlled) = Controller
    /\ \A e \in Ends : Peer(e) \in Ends /\ Peer(e) # e
BY DEF Ends, Controller, Controlled, Peer

LEMMA LetsGo ==
    ASSUME HostTyped, NEW e \in Ends, LetGo(e)
    PROVE  /\ e = Controlled =>
                /\ privacy' \in PrivacyStatuses /\ privacy'.effective = "disabled"
                /\ screen' \in Screens /\ screen'.overlay = FALSE
                /\ UNCHANGED <<asked, applied>>
           /\ e # Controlled =>
                asked' = NoAsked /\ applied' = FALSE /\ UNCHANGED <<privacy, screen>>
<1>1. CASE e = Controlled
  <2>1. PICK wakes \in BOOLEAN :
            /\ privacy' = Reset(Host, wakes).privacy /\ screen' = Reset(Host, wakes).screen
            /\ UNCHANGED <<asked, applied>>
    BY <1>1 DEF LetGo
  <2> DEFINE p == [state |-> IF wakes THEN "Inactive" ELSE "Failed",
                   effective |-> "disabled"]
  <2>2. Reset(Host, wakes) =
          HostState(p, [overlay |-> FALSE, off |-> screen.off /\ ~wakes], <<Status(p)>>)
    BY Resets
  <2>3. p \in PrivacyStatuses /\ p.effective = "disabled"
    BY DEF PrivacyStatuses, Modes
  <2> HIDE DEF p
  <2> QED
    BY <1>1, <2>1, <2>2, <2>3 DEF HostState, Screens, HostTyped
<1>2. CASE e # Controlled
  BY <1>2 DEF LetGo
<1> QED
  BY <1>1, <1>2

\* The parts of the types that the end of a session has to do with.
SessionPart == phase \in [Ends -> Phases] /\ reports \in [Ids -> Nat]

HostPart == privacy \in PrivacyStatuses /\ screen \in Screens

AskedPart == applied \in BOOLEAN /\ DOMAIN asked \subseteq Ids

ExchangeTyped == ChannelTyped /\ PendingTyped

LEMMA ReportedTyped ==
    ASSUME reports \in [Ids -> Nat], NEW ids, Reported(ids)
    PROVE  reports' \in [Ids -> Nat]
BY DEF Reported

\* An end whose channel holds v sends.
LEMMA SendingTyped ==
    ASSUME Typed, NEW e \in Ends, NEW v, NEW ps, Sendable(e, v, ps),
           wire' = [wire EXCEPT ![Peer(e)] = v], pending' = [pending EXCEPT ![e] = ps]
    PROVE  ExchangeTyped'
<1>1. wire \in [Ends -> Seq(AnyMessages)] /\ pending \in [Ends -> SUBSET Waiting]
  BY DEF Typed, ChannelTyped, PendingTyped
<1>2. wire' \in [Ends -> Seq(AnyMessages)] /\ pending' \in [Ends -> SUBSET Waiting]
  BY <1>1 DEF Sendable
<1>3. \A f \in Ends : Len(wire'[f]) <= WireLimit
                      /\ \A i \in 1 .. Len(wire'[f]) : wire'[f][i] \in MessagesTo(f)
  BY <1>1 DEF Typed, ChannelTyped, Sendable
<1>4. \A p \in pending'[Controlled] : p.command \in EndMessages
  BY <1>1, TwoEnds DEF Typed, PendingTyped, Sendable
<1> QED
  BY <1>2, <1>3, <1>4 DEF ExchangeTyped, ChannelTyped, PendingTyped

\* It reads a message, too.
LEMMA ReadingTyped ==
    ASSUME Typed, NEW e \in Ends, NEW v, NEW ps, Sendable(e, v, ps),
           wire[e] # <<>>, Reads(e, Letter(v, ps))
    PROVE  ExchangeTyped'
<1>1. wire \in [Ends -> Seq(AnyMessages)] /\ pending \in [Ends -> SUBSET Waiting]
      /\ Peer(e) \in Ends /\ Peer(e) # e
  BY TwoEnds DEF Typed, ChannelTyped, PendingTyped
<1>2. wire' = [wire EXCEPT ![e] = Tail(wire[e]), ![Peer(e)] = v]
      /\ pending' = [pending EXCEPT ![e] = ps]
  BY DEF Reads, Letter
<1>3. wire' \in [Ends -> Seq(AnyMessages)] /\ pending' \in [Ends -> SUBSET Waiting]
      /\ wire'[Peer(e)] = v /\ wire'[e] = Tail(wire[e])
      /\ pending'[e] = ps /\ pending'[Peer(e)] = pending[Peer(e)]
  <2>1. Tail(wire[e]) \in Seq(AnyMessages)
    BY <1>1
  <2>2. v \in Seq(AnyMessages) /\ ps \in SUBSET Waiting
    BY DEF Sendable
  <2> QED
    BY <1>1, <1>2, <2>1, <2>2
<1>4. /\ Len(Tail(wire[e])) = Len(wire[e]) - 1
      /\ \A i \in 1 .. Len(wire[e]) - 1 : Tail(wire[e])[i] = wire[e][i + 1]
      /\ Len(wire[e]) \in Nat
  BY <1>1
<1>5. \A i \in 1 .. Len(wire'[e]) : wire'[e][i] \in MessagesTo(e)
  BY <1>3, <1>4 DEF Typed, ChannelTyped
<1>6. Len(wire'[e]) <= WireLimit
  BY <1>3, <1>4, BoundAssumption DEF Typed, ChannelTyped
<1>7. \A f \in Ends : Len(wire'[f]) <= WireLimit
                      /\ \A i \in 1 .. Len(wire'[f]) : wire'[f][i] \in MessagesTo(f)
  BY <1>3, <1>5, <1>6, TwoEnds DEF Sendable
<1>8. \A p \in pending'[Controlled] : p.command \in EndMessages
  BY <1>3, TwoEnds DEF Typed, PendingTyped, Sendable
<1> QED
  BY <1>3, <1>7, <1>8 DEF ExchangeTyped, ChannelTyped, PendingTyped

LEMMA StoppingTyped ==
    ASSUME Typed, NEW e \in Ends, NEW v, NEW ps, Sendable(e, v, ps), Stops(e, v, ps)
    PROVE  ExchangeTyped' /\ ResultsTyped' /\ SessionPart'
<1> DEFINE x == Append(v, EndCommand)
           qs == ps \union {[command |-> EndCommand, attempts |-> 1]}
<1>1. v \in Seq(AnyMessages) /\ Len(v) \in Nat /\ EndCommand \in AnyMessages
  BY EndIsMessage DEF Sendable
<1>2. x \in Seq(AnyMessages) /\ Len(x) = Len(v) + 1 /\ x[Len(v) + 1] = EndCommand
      /\ \A i \in 1 .. Len(v) : x[i] = v[i]
  BY <1>1
<1>3. Len(x) <= WireLimit
  BY <1>1, <1>2, BoundAssumption DEF Stops
<1>4. \A i \in 1 .. Len(x) : x[i] \in MessagesTo(Peer(e))
  <2> TAKE i \in 1 .. Len(x)
  <2>1. CASE i \in 1 .. Len(v)
    BY <1>2, <2>1 DEF Sendable
  <2>2. CASE i = Len(v) + 1
    BY <1>2, <2>2, EndIsMessage, TwoEnds
  <2> QED
    BY <1>1, <1>2, <2>1, <2>2
<1>5. [command |-> EndCommand, attempts |-> 1] \in Waiting
  BY EndIsMessage DEF Waiting
<1>6. Sendable(e, x, qs)
  <2> HIDE DEF x
  <2> QED
    BY <1>2, <1>3, <1>4, <1>5, EndIsMessage DEF Sendable
<1>7. ExchangeTyped'
  <2> HIDE DEF x, qs
  <2>1. wire' = [wire EXCEPT ![Peer(e)] = x] /\ pending' = [pending EXCEPT ![e] = qs]
    BY DEF Stops, x, qs
  <2> QED
    BY <1>6, <2>1, SendingTyped
<1> QED
  BY <1>7 DEF Typed, Stops, ResultsTyped, SessionPart, SessionTyped, CountsTyped, Phases

LEMMA TearingTyped ==
    ASSUME Typed, NEW e \in Ends, NEW v, NEW ps, Sendable(e, v, ps), Tears(e, v, ps)
    PROVE  ExchangeTyped' /\ ResultsTyped' /\ SessionPart'
<1>1. wire \in [Ends -> Seq(AnyMessages)] /\ pending \in [Ends -> SUBSET Waiting]
      /\ results \in [Ends -> Seq(ResultMessages)]
      /\ Peer(e) \in Ends /\ Peer(e) # e
  BY TwoEnds DEF Typed, ChannelTyped, PendingTyped, ResultsTyped
<1>2. <<>> \in Seq(AnyMessages) /\ <<>> \in Seq(ResultMessages) /\ Len(<<>>) = 0
  OBVIOUS
<1>3. wire' \in [Ends -> Seq(AnyMessages)] /\ pending' \in [Ends -> SUBSET Waiting]
      /\ wire'[Peer(e)] = v /\ wire'[e] = <<>>
      /\ pending'[e] = {} /\ pending'[Peer(e)] = pending[Peer(e)]
  BY <1>1, <1>2 DEF Sendable, Tears
<1>4. \A f \in Ends : Len(wire'[f]) <= WireLimit
                      /\ \A i \in 1 .. Len(wire'[f]) : wire'[f][i] \in MessagesTo(f)
  BY <1>2, <1>3, TwoEnds, BoundAssumption DEF Sendable
<1>5. \A p \in pending'[Controlled] : p.command \in EndMessages
  BY <1>3, TwoEnds DEF Typed, PendingTyped
<1>6. results' \in [Ends -> Seq(ResultMessages)]
      /\ \A f \in Ends : Len(results'[f]) <= CacheLimit
  BY <1>1, <1>2, BoundAssumption DEF Tears, Typed, ResultsTyped
<1>7. reports' \in [Ids -> Nat]
  BY ReportedTyped DEF Tears, Typed, CountsTyped
<1>8. phase' \in [Ends -> Phases]
  BY DEF Tears, Typed, SessionTyped, Phases
<1> QED
  BY <1>3, <1>4, <1>5, <1>6, <1>7, <1>8
  DEF ExchangeTyped, ChannelTyped, PendingTyped, ResultsTyped, SessionPart

LEMMA FinishTyped ==
    ASSUME Typed, NEW e \in Ends, NEW v, NEW ps, NEW notify, Sendable(e, v, ps),
           FinishSession(e, Letter(v, ps), notify)
    PROVE  ExchangeTyped' /\ ResultsTyped' /\ SessionPart' /\ HostPart' /\ AskedPart'
<1>1. LetGo(e) /\ (Stops(e, v, ps) \/ Tears(e, v, ps))
  BY FinishGives
<1>2. ExchangeTyped' /\ ResultsTyped' /\ SessionPart'
  BY <1>1, StoppingTyped, TearingTyped
<1>3. HostTyped /\ UserTyped
  BY DEF Typed
<1>4. HostPart' /\ AskedPart'
  <2>1. DOMAIN NoAsked = {}
    BY DEF NoAsked
  <2> QED
    BY <1>1, <1>3, <2>1, LetsGo DEF HostPart, AskedPart, HostTyped, UserTyped, Screens
<1> QED
  BY <1>2, <1>4

------------------------------------------------------------------------------
(* What the steps do that run on a timer.                                    *)

\* The command of p is sent once more.
Resends(e, p) ==
    /\ Len(wire[Peer(e)]) < WireLimit
    /\ wire' = [wire EXCEPT ![Peer(e)] = Append(wire[Peer(e)], p.command)]
    /\ pending' = [pending EXCEPT ![e] = (pending[e] \ {p})
                                           \union {[command |-> p.command, attempts |-> 2]}]
    /\ UNCHANGED <<phase, results, preference, asked, applied, wishes, reports>>

\* It is given up, and that is reported.
GivesUp(e, p) ==
    /\ wire' = wire /\ pending' = [pending EXCEPT ![e] = pending[e] \ {p}]
    /\ Reported({p.command.id}) /\ Fails(p.command)
    /\ UNCHANGED <<phase, results, applied>>

LEMMA RestIs ==
    ASSUME NEW e, NEW p
    PROVE  [Out(e) EXCEPT !.pending = @ \ {p}] = Letter(wire[Peer(e)], pending[e] \ {p})
<1> DEFINE y == pending[e] \ {p}
<1>1. Out(e).pending \ {p} = y
  BY DEF Out
<1>2. [Out(e) EXCEPT !.pending = Out(e).pending \ {p}] = [Out(e) EXCEPT !.pending = y]
  BY <1>1
<1> HIDE DEF y
<1>3. [Out(e) EXCEPT !.pending = y] = Letter(wire[Peer(e)], y)
  BY DEF Out, Letter
<1>4. [Out(e) EXCEPT !.pending = @ \ {p}] = Letter(wire[Peer(e)], y)
  BY <1>2, <1>3
<1> QED
  BY <1>4 DEF y

LEMMA SendsGives ==
    ASSUME NEW e, NEW v, NEW ps, Sends(e, Letter(v, ps))
    PROVE  /\ wire' = [wire EXCEPT ![Peer(e)] = v]
           /\ pending' = [pending EXCEPT ![e] = ps]
BY DEF Sends, Letter

LEMMA RetryGives ==
    ASSUME Typed, NEW e \in Ends, Retry(e)
    PROVE  /\ UNCHANGED <<sessionUnchanged, hostVars, seen, executed, inForce, lost>>
           /\ \E p \in pending[e] :
                /\ p.attempts = 1 /\ SecondPasses(e, p)
                /\ \/ Resends(e, p)
                   \/ /\ p.command.type = "End"
                      /\ Tears(e, wire[Peer(e)], pending[e] \ {p})
                      /\ UNCHANGED <<asked, preference, applied, wishes>>
                   \/ p.command.type # "End" /\ GivesUp(e, p)
<1>1. PICK p \in pending[e] :
        LET rest == [Out(e) EXCEPT !.pending = @ \ {p}]
            o == [Transmits(rest, <<p.command>>)
                    EXCEPT !.pending = @ \union {[p EXCEPT !.attempts = 2]}]
        IN /\ p.attempts = 1 /\ SecondPasses(e, p)
           /\ IF Accepts(rest)
              THEN Sends(e, o)
                   /\ UNCHANGED <<phase, results, preference, asked, applied, wishes, reports>>
              ELSE IF p.command.type = "End"
              THEN /\ Teardown(e, rest)
                   /\ UNCHANGED <<asked, preference, applied, wishes>>
              ELSE /\ Sends(e, rest) /\ Reported({p.command.id})
                   /\ Fails(p.command)
                   /\ UNCHANGED <<phase, results, applied>>
           /\ UNCHANGED <<sessionUnchanged, hostVars, seen, executed, inForce, lost>>
  BY DEF Retry
<1> DEFINE w == wire[Peer(e)]
           qs == pending[e] \ {p}
           again == [command |-> p.command, attempts |-> 2]
<1>2. [Out(e) EXCEPT !.pending = @ \ {p}] = Letter(w, qs)
  BY RestIs
<1>3. w \in Seq(AnyMessages) /\ wire \in [Ends -> Seq(AnyMessages)] /\ p \in Waiting
      /\ Len(w) <= WireLimit /\ Len(w) \in Nat
  BY TwoEnds DEF Typed, ChannelTyped, PendingTyped
<1>4. [p EXCEPT !.attempts = 2] = again /\ p.command \in AnyMessages
  BY <1>3 DEF Waiting, AnyMessages
<1>5. CASE Len(w) < WireLimit
  <2> DEFINE x == Append(w, p.command)
  <2> HIDE DEF qs, w
  <2>0. Sent(w, <<p.command>>) = x
    BY <1>3, <1>4, <1>5, SentOne
  <2>1. Transmits(Letter(w, qs), <<p.command>>) = Letter(x, qs)
    BY <2>0, TransmitsSent
  <2> HIDE DEF x, again, qs, w
  <2>2. [Letter(x, qs) EXCEPT !.pending = Letter(x, qs).pending \union {again}]
          = Letter(x, qs \union {again})
    BY DEF Letter
  <2>3. [Transmits(Letter(w, qs), <<p.command>>)
           EXCEPT !.pending = @ \union {[p EXCEPT !.attempts = 2]}]
          = Letter(x, qs \union {again})
    BY <1>4, <2>1, <2>2
  <2>4. Accepts(Letter(w, qs))
    BY <1>5 DEF Accepts, Letter
  <2>5. Sends(e, Letter(x, qs \union {again}))
        /\ UNCHANGED <<phase, results, preference, asked, applied, wishes, reports>>
    BY <1>1, <1>2, <2>3, <2>4
  <2>6. wire' = [wire EXCEPT ![Peer(e)] = x] /\ pending' = [pending EXCEPT ![e] = qs \union {again}]
    BY <2>5, SendsGives
  <2>7. Resends(e, p)
    BY <1>5, <2>5, <2>6 DEF Resends, x, again, qs, w
  <2> QED
    BY <1>1, <2>7
<1>6. CASE ~(Len(w) < WireLimit)
  <2>1. ~Accepts(Letter(w, qs))
    BY <1>6 DEF Accepts, Letter
  <2>2. CASE p.command.type = "End"
    BY <1>1, <1>2, <2>1, <2>2, TeardownTears
  <2>3. CASE p.command.type # "End"
    <3>1. Sends(e, Letter(w, qs)) /\ Reported({p.command.id}) /\ Fails(p.command)
          /\ UNCHANGED <<phase, results, applied>>
      BY <1>1, <1>2, <2>1, <2>3
    <3>2. wire' = wire
      BY <1>3, <3>1, SendsGives, TwoEnds
    <3>3. pending' = [pending EXCEPT ![e] = qs]
      BY <3>1, SendsGives
    <3>4. GivesUp(e, p)
      BY <3>1, <3>2, <3>3 DEF GivesUp
    <3> QED
      BY <1>1, <2>3, <3>4
  <2> QED
    BY <2>2, <2>3
<1> QED
  BY <1>5, <1>6

LEMMA TimeoutGives ==
    ASSUME NEW e \in Ends, Timeout(e)
    PROVE  /\ UNCHANGED <<sessionUnchanged, emergency, action, locks, seen, executed, inForce,
                          lost>>
           /\ \E p \in pending[e] :
                /\ p.attempts = 2 /\ SecondPasses(e, p)
                /\ \/ /\ p.command.type = "End"
                      /\ Tears(e, wire[Peer(e)], pending[e] \ {p})
                      /\ UNCHANGED <<privacy, screen, asked, applied, preference, wishes>>
                   \/ /\ p.command.type # "End" /\ UNCHANGED <<privacy, screen>>
                      /\ Sends(e, Letter(wire[Peer(e)], pending[e] \ {p}))
                      /\ Reported({p.command.id}) /\ Fails(p.command)
                      /\ UNCHANGED <<phase, results, applied>>
                   \/ /\ p.command.type # "End" /\ phase[e] # "Stopping"
                      /\ FinishSession(e, Letter(wire[Peer(e)], pending[e]), FALSE)
                      /\ UNCHANGED <<preference, wishes>>
<1>1. PICK p \in pending[e] :
        LET rest == [Out(e) EXCEPT !.pending = @ \ {p}]
        IN /\ p.attempts = 2 /\ SecondPasses(e, p)
           /\ IF p.command.type = "End"
              THEN /\ Teardown(e, rest)
                   /\ UNCHANGED <<privacy, screen, asked, applied, preference, wishes>>
              ELSE IF p.command.type \in {"Mode", "Action"} \/ phase[e] = "Stopping"
              THEN /\ Sends(e, rest) /\ Reported({p.command.id})
                   /\ Fails(p.command)
                   /\ UNCHANGED <<phase, results, applied, privacy, screen>>
              ELSE /\ FinishSession(e, [rest EXCEPT !.pending = @ \union {p}], FALSE)
                   /\ UNCHANGED <<preference, wishes>>
           /\ UNCHANGED <<sessionUnchanged, emergency, action, locks, seen, executed, inForce,
                          lost>>
  BY DEF Timeout
<1> DEFINE w == wire[Peer(e)]
           qs == pending[e] \ {p}
<1>2. [Out(e) EXCEPT !.pending = @ \ {p}] = Letter(w, qs)
  BY RestIs
<1>3. [[Out(e) EXCEPT !.pending = @ \ {p}] EXCEPT !.pending = @ \union {p}]
        = Letter(w, pending[e])
  <2> DEFINE y == qs \union {p}
  <2>1. y = pending[e]
    OBVIOUS
  <2> HIDE DEF w
  <2>2. Letter(w, qs).pending \union {p} = y
    BY DEF Letter
  <2>3. [Letter(w, qs) EXCEPT !.pending = Letter(w, qs).pending \union {p}]
          = [Letter(w, qs) EXCEPT !.pending = y]
    BY <2>2
  <2> HIDE DEF y, qs
  <2>4. [Letter(w, qs) EXCEPT !.pending = y] = Letter(w, y)
    BY DEF Letter
  <2>5. [Letter(w, qs) EXCEPT !.pending = @ \union {p}] = Letter(w, y)
    BY <2>3, <2>4
  <2> QED
    BY <1>2, <2>1, <2>5 DEF qs, w
<1>4. CASE p.command.type = "End"
  BY <1>1, <1>2, <1>4, TeardownTears
<1>5. CASE p.command.type # "End" /\ (p.command.type \in {"Mode", "Action"} \/ phase[e] = "Stopping")
  BY <1>1, <1>2, <1>5
<1>6. CASE p.command.type # "End"
           /\ ~(p.command.type \in {"Mode", "Action"} \/ phase[e] = "Stopping")
  BY <1>1, <1>3, <1>6
<1> QED
  BY <1>4, <1>5, <1>6

\* The result r ends the wait of p.
Answers(e, p, r) ==
    \/ /\ p.command.type = "End"
       /\ Tears(e, wire[Peer(e)], Forget(pending[e], r.id))
       /\ UNCHANGED <<preference, asked, applied, wishes, troubles>>
    \/ /\ p.command.type # "End"
       /\ Reads(e, Letter(wire[Peer(e)], Forget(pending[e], r.id))) /\ Reported({r.id})
       /\ UNCHANGED <<phase, results, applied>>
       /\ \/ /\ p.command.type \in {"Mode", "Action"}
             /\ \E saves \in BOOLEAN : Fares(saves) /\ CompleteCommand(p.command, r.arg = "ok", saves)
          \/ UNCHANGED <<asked, preference, wishes, troubles>>

LEMMA ResultGives ==
    ASSUME NEW e \in Ends, HandleResult(e)
    PROVE  LET r == Head(wire[e]) IN
           /\ IsOpen(e) /\ wire[e] # <<>> /\ r.type = "Result"
           /\ UNCHANGED <<sessionUnchanged, hostVars, seen, executed, inForce, lost>>
           /\ \/ /\ Reads(e, Letter(wire[Peer(e)], pending[e]))
                 /\ UNCHANGED <<phase, results, preference, asked, applied, reports, wishes,
                                troubles>>
              \/ \E p \in pending[e] : p.command.id = r.id /\ Answers(e, p, r)
<1> DEFINE r == Head(wire[e])
           w == wire[Peer(e)]
           qs == Forget(pending[e], r.id)
           o == [Out(e) EXCEPT !.pending = Forget(@, r.id)]
           q == CHOOSE p \in pending[e] : p.command.id = r.id
<1>1. o = Letter(w, qs)
  <2>1. Forget(Out(e).pending, r.id) = qs
    BY DEF Out
  <2>2. [Out(e) EXCEPT !.pending = Forget(Out(e).pending, r.id)] = [Out(e) EXCEPT !.pending = qs]
    BY <2>1
  <2> HIDE DEF qs
  <2>3. [Out(e) EXCEPT !.pending = qs] = Letter(w, qs)
    BY DEF Out, Letter
  <2> QED
    BY <2>2, <2>3
<1>2. /\ IsOpen(e) /\ wire[e] # <<>> /\ r.type = "Result"
      /\ UNCHANGED <<sessionUnchanged, hostVars, seen, executed, inForce, lost>>
  BY DEF HandleResult, Arrives
<1>3. CASE ~Waits(e, r.id)
  <2>1. qs = pending[e]
    BY <1>3 DEF Waits, Forget
  <2>2. Reads(e, o)
        /\ UNCHANGED <<phase, results, preference, asked, applied, reports, wishes, troubles>>
    BY <1>3 DEF HandleResult
  <2> QED
    BY <1>1, <1>2, <2>1, <2>2
<1>4. CASE Waits(e, r.id)
  <2>1. q \in pending[e] /\ q.command.id = r.id
    BY <1>4 DEF Waits
  <2> HIDE DEF q
  <2>2. CASE q.command.type = "End"
    <3>1. Teardown(e, o) /\ UNCHANGED <<preference, asked, applied, wishes, troubles>>
      BY <1>4, <2>2 DEF HandleResult, q
    <3>2. Tears(e, w, qs)
      BY <1>1, <3>1, TeardownTears
    <3>3. Answers(e, q, r)
      BY <2>2, <3>1, <3>2 DEF Answers
    <3> QED
      BY <1>2, <2>1, <3>3
  <2>3. CASE q.command.type # "End"
    <3>1. /\ Reads(e, o) /\ Reported({q.command.id}) /\ UNCHANGED <<phase, results, applied>>
          /\ IF q.command.type \in {"Mode", "Action"}
             THEN \E saves \in BOOLEAN :
                     /\ Fares(saves)
                     /\ saves \/ Completes(q.command, r.arg = "ok")
                     /\ CompleteCommand(q.command, r.arg = "ok", saves)
             ELSE UNCHANGED <<asked, preference, wishes, troubles>>
      BY <1>4, <2>3 DEF HandleResult, q
    <3>2. Reads(e, Letter(w, qs)) /\ Reported({r.id})
      BY <1>1, <2>1, <3>1
    <3>3. Answers(e, q, r)
      BY <2>3, <3>1, <3>2 DEF Answers
    <3> QED
      BY <1>2, <2>1, <3>3
  <2> QED
    BY <2>2, <2>3
<1> QED
  BY <1>3, <1>4

------------------------------------------------------------------------------
(* What an end does with a command.                                          *)

\* How the command c comes out at the controlled end.
Outcomes(c, d) ==
    \/ /\ d = Outcome(phase[Controlled], Host, action, FALSE)
    \/ /\ c.type = "Start" /\ phase[Controlled] = "Connected"
       /\ d = Outcome("Streaming", Host, [action EXCEPT !.streamed = @ \/ ~action.consumed], TRUE)
    \/ /\ c.type = "Stop" /\ phase[Controlled] = "Streaming"
       /\ d = Outcome("Connected", Host, action, TRUE)
    \/ /\ c.type = "Mode" /\ phase[Controlled] \in Desktop
       /\ \E takes, wakes \in BOOLEAN :
             d = Outcome(phase[Controlled], SetMode(Host, c.arg, takes, wakes), action,
                         Sets(Host, c.arg, takes, wakes))
    \/ /\ c.type = "Action" /\ phase[Controlled] \in Desktop /\ ~action.consumed
       /\ d = Outcome(phase[Controlled], Host, [action EXCEPT !.armed = c.arg], TRUE)

LEMMA HandleGives ==
    ASSUME NEW c, c.type \in CommandTypes \ {"End"}, NEW takes \in BOOLEAN, NEW wakes \in BOOLEAN
    PROVE  Outcomes(c, Handle(c, takes, wakes))
<1> DEFINE p == phase[Controlled]
<1>1. CASE c.type = "Start"
  BY <1>1 DEF Handle, HandleStartStreaming, CannotNow, Outcomes
<1>2. CASE c.type = "Stop"
  BY <1>2 DEF Handle, HandleStopStreaming, CannotNow, Outcomes
<1>3. CASE c.type = "Mode"
  <2>1. Handle(c, takes, wakes) = HandleSetPrivacyMode(p, c, takes, wakes)
    BY <1>3 DEF Handle
  <2> QED
    BY <1>3, <2>1 DEF HandleSetPrivacyMode, CannotNow, Outcomes
<1>4. CASE c.type = "Action"
  BY <1>4 DEF Handle, HandleSetPostSessionAction, CannotNow, Outcomes
<1> QED
  BY <1>1, <1>2, <1>3, <1>4 DEF CommandTypes

\* c is executed with the outcome d, its statuses says and its result are sent.
Executes(c, d, says, x) ==
    /\ Outcomes(c, d)
    /\ says = IF phase[Controlled] \in Live THEN d.host.says ELSE <<>>
    /\ x = Sent(wire[Controller], Append(says, Result(c.id, d.ok)))
    /\ wire' = [wire EXCEPT ![Controlled] = Tail(@), ![Controller] = x]
    /\ pending' = [pending EXCEPT ![Controlled] = pending[Controlled]]
    /\ phase' = [phase EXCEPT ![Controlled] = d.phase]
    /\ privacy' = d.host.privacy /\ screen' = d.host.screen /\ action' = d.action
    /\ lost' = (lost \/ Len(x) - Len(wire[Controller]) < Len(says))
    /\ results' = [results EXCEPT ![Controlled] =
                     RememberCommandResult(results[Controlled], Result(c.id, d.ok))]
    /\ inForce' = IF d.ok THEN inForce \union {c.arg} ELSE inForce
    /\ executed' = [executed EXCEPT ![c.id] = @ + 1]
    /\ wishes' = [wishes EXCEPT !.streamed = @ \/ phase'[Controlled] = "Streaming"]
    /\ UNCHANGED <<sessionUnchanged, emergency, locks, userVars, reports>>
    /\ troubles' \in {troubles, troubles + 1} /\ (troubles' = troubles \/ troubles < MaxTroubles)

LEMMA FaresGives ==
    ASSUME NEW well, Fares(well), troubles \in 0 .. MaxTroubles
    PROVE  /\ troubles' \in {troubles, troubles + 1}
           /\ troubles' = troubles \/ troubles < MaxTroubles
BY BoundAssumption DEF Fares

LEMMA ExecuteGives ==
    ASSUME troubles \in 0 .. MaxTroubles, Execute
    PROVE  LET c == Head(wire[Controlled]) IN
           /\ IsOpen(Controlled) /\ wire[Controlled] # <<>>
           /\ c.type \in CommandTypes \ {"End"} /\ ~WasExecuted(Controlled, c.id)
           /\ \E d, says, x : Executes(c, d, says, x)
<1> DEFINE c == Head(wire[Controlled])
<1>1. /\ IsOpen(Controlled) /\ wire[Controlled] # <<>>
      /\ c.type \in CommandTypes \ {"End"} /\ ~WasExecuted(Controlled, c.id)
      /\ executed' = [executed EXCEPT ![c.id] = @ + 1]
      /\ wishes' = [wishes EXCEPT !.streamed = @ \/ phase'[Controlled] = "Streaming"]
      /\ UNCHANGED <<sessionUnchanged, emergency, locks, userVars, reports>>
  BY DEF Execute
<1>2. PICK takes, wakes \in BOOLEAN :
        LET d == Handle(c, takes, wakes)
            says == IF phase[Controlled] \in Live THEN d.host.says ELSE <<>>
            o == Transmits(Out(Controlled), Append(says, Result(c.id, d.ok)))
        IN /\ takes \/ (c.type = "Mode" /\ c.arg # "disabled")
           /\ wakes \/ screen.off
           /\ Fares(takes /\ wakes)
           /\ phase' = [phase EXCEPT ![Controlled] = d.phase]
           /\ privacy' = d.host.privacy /\ screen' = d.host.screen
           /\ action' = d.action
           /\ Reads(Controlled, o)
           /\ lost' = (lost \/ Len(o.wire) - Len(wire[Controller]) < Len(says))
           /\ results' = [results EXCEPT ![Controlled] =
                            RememberCommandResult(@, Result(c.id, d.ok))]
           /\ inForce' = IF d.ok THEN inForce \union {c.arg} ELSE inForce
  BY DEF Execute
<1> DEFINE d == Handle(c, takes, wakes)
           says == IF phase[Controlled] \in Live THEN d.host.says ELSE <<>>
           ms == Append(says, Result(c.id, d.ok))
           x == Sent(wire[Controller], ms)
           o == Transmits(Out(Controlled), ms)
<1>3. o = Letter(x, pending[Controlled])
  <2> HIDE DEF ms
  <2>1. Out(Controlled) = Letter(wire[Controller], pending[Controlled])
    BY TwoEnds DEF Out, Letter
  <2> QED
    BY <2>1, TransmitsSent
<1>4. Outcomes(c, d)
  BY <1>1, HandleGives
<1> HIDE DEF d, c
<1>5. o.wire = x /\ o.pending = pending[Controlled]
  <2> HIDE DEF x, o
  <2> QED
    BY <1>3 DEF Letter
<1>6. /\ Reads(Controlled, o) /\ lost' = (lost \/ Len(o.wire) - Len(wire[Controller]) < Len(says))
      /\ Fares(takes /\ wakes)
      /\ phase' = [phase EXCEPT ![Controlled] = d.phase]
      /\ privacy' = d.host.privacy /\ screen' = d.host.screen /\ action' = d.action
      /\ results' = [results EXCEPT ![Controlled] =
                       RememberCommandResult(results[Controlled], Result(c.id, d.ok))]
      /\ inForce' = IF d.ok THEN inForce \union {c.arg} ELSE inForce
  BY <1>2 DEF d
<1> HIDE DEF x, o, says
<1>7. /\ wire' = [wire EXCEPT ![Controlled] = Tail(@), ![Controller] = x]
      /\ pending' = [pending EXCEPT ![Controlled] = pending[Controlled]]
      /\ lost' = (lost \/ Len(x) - Len(wire[Controller]) < Len(says))
  BY <1>5, <1>6, TwoEnds DEF Reads
<1>8. /\ troubles' \in {troubles, troubles + 1}
      /\ troubles' = troubles \/ troubles < MaxTroubles
  BY <1>6, FaresGives
<1>9. says = (IF phase[Controlled] \in Live THEN d.host.says ELSE <<>>)
      /\ x = Sent(wire[Controller], Append(says, Result(c.id, d.ok)))
  BY DEF says, x
<1>10. Executes(c, d, says, x)
  BY <1>1, <1>4, <1>6, <1>7, <1>8, <1>9 DEF Executes
<1> QED
  BY <1>1, <1>10 DEF c

LEMMA RepeatGives ==
    ASSUME NEW e \in Ends, RepeatResult(e)
    PROVE  /\ IsOpen(e) /\ wire[e] # <<>> /\ Head(wire[e]).type \in CommandTypes
           /\ UNCHANGED <<sessionUnchanged, troubles, phase, results, hostVars, userVars, history>>
           /\ \E j \in DOMAIN results[e] :
                /\ results[e][j].id = Head(wire[e]).id
                /\ Reads(e, Letter(Sent(wire[Peer(e)], <<results[e][j]>>), pending[e]))
<1> DEFINE r == CHOOSE r \in Cached(e, Head(wire[e]).id) : TRUE
<1>1. r \in Cached(e, Head(wire[e]).id)
  BY DEF RepeatResult, WasExecuted
<1> HIDE DEF r
<1>2. PICK j \in DOMAIN results[e] : results[e][j].id = Head(wire[e]).id /\ r = results[e][j]
  BY <1>1 DEF Cached
<1>3. Transmits(Out(e), <<r>>) = Letter(Sent(wire[Peer(e)], <<r>>), pending[e])
  <2>1. Out(e) = Letter(wire[Peer(e)], pending[e])
    BY DEF Out, Letter
  <2> QED
    BY <2>1, TransmitsSent
<1>4. Reads(e, Transmits(Out(e), <<r>>))
  BY DEF RepeatResult, r
<1> QED
  BY <1>2, <1>3, <1>4 DEF RepeatResult

\* Both ends stop: the answer to the End of the other.
LEMMA EndGives ==
    ASSUME NEW e \in Ends, ExecuteEnd(e)
    PROVE  LET r == Result(EndId, TRUE)
               x == Sent(wire[Peer(e)], <<r>>)
           IN
           /\ IsOpen(e) /\ wire[e] # <<>> /\ Head(wire[e]).type = "End" /\ ~WasExecuted(e, EndId)
           /\ UNCHANGED <<endUnchanged, troubles>>
           /\ \/ /\ phase[e] = "Stopping" /\ Reads(e, Letter(x, pending[e]))
                 /\ results' = [results EXCEPT ![e] = RememberCommandResult(results[e], r)]
                 /\ UNCHANGED <<phase, privacy, screen, asked, applied, reports>>
              \/ phase[e] # "Stopping" /\ FinishSession(e, Letter(x, pending[e]), FALSE)
<1> DEFINE r == Result(EndId, TRUE)
<1>1. Transmits(Out(e), <<r>>) = Letter(Sent(wire[Peer(e)], <<r>>), pending[e])
  <2> HIDE DEF r
  <2>1. Out(e) = Letter(wire[Peer(e)], pending[e])
    BY DEF Out, Letter
  <2> QED
    BY <2>1, TransmitsSent
<1> DEFINE o == Transmits(Out(e), <<r>>)
<1>2. /\ Arrives(e, "End") /\ ~WasExecuted(e, EndId) /\ UNCHANGED <<endUnchanged, troubles>>
      /\ IF phase[e] = "Stopping"
         THEN /\ Reads(e, o)
              /\ results' = [results EXCEPT ![e] = RememberCommandResult(results[e], r)]
              /\ UNCHANGED <<phase, privacy, screen, asked, applied, reports>>
         ELSE FinishSession(e, o, FALSE)
  BY DEF ExecuteEnd
<1> QED
  BY <1>1, <1>2 DEF Arrives

\* The emergency restore of an overlay.
Restores(x) ==
    \E wakes \in BOOLEAN :
      LET h == Reset(Host, wakes)
          says == IF phase[Controlled] \in Live THEN h.says ELSE <<>>
      IN /\ privacy' = h.privacy /\ screen' = h.screen
         /\ x = Sent(wire[Controller], says)
         /\ wire' = [wire EXCEPT ![Controller] = x]
         /\ lost' = (lost \/ Len(x) - Len(wire[Controller]) < Len(says))

LEMMA EmergencyGives ==
    ASSUME HandleEmergencyRestore
    PROVE  /\ emergency /\ emergency' = FALSE /\ UNCHANGED <<localUnchanged, troubles>>
           /\ \/ privacy.effective # "overlay" /\ UNCHANGED <<privacy, screen, wire, lost>>
              \/ \E x : Restores(x)
<1>1. /\ emergency /\ emergency' = FALSE /\ UNCHANGED <<localUnchanged, troubles>>
  BY DEF HandleEmergencyRestore
<1>2. CASE privacy.effective # "overlay"
  BY <1>1, <1>2 DEF HandleEmergencyRestore
<1>3. CASE privacy.effective = "overlay"
  <2>1. PICK wakes \in BOOLEAN :
           LET h == Reset(Host, wakes)
               says == IF phase[Controlled] \in Live THEN h.says ELSE <<>>
               o == Transmits(Out(Controlled), says)
           IN /\ privacy' = h.privacy /\ screen' = h.screen
              /\ wire' = [wire EXCEPT ![Controller] = o.wire]
              /\ lost' = (lost \/ Len(o.wire) - Len(wire[Controller]) < Len(says))
    BY <1>3 DEF HandleEmergencyRestore
  <2> DEFINE h == Reset(Host, wakes)
             says == IF phase[Controlled] \in Live THEN h.says ELSE <<>>
             o == Transmits(Out(Controlled), says)
             x == Sent(wire[Controller], says)
  <2>2. o.wire = x
    <3> HIDE DEF says
    <3>1. Out(Controlled) = Letter(wire[Controller], pending[Controlled])
      BY TwoEnds DEF Out, Letter
    <3>2. o = Letter(x, pending[Controlled])
      BY <3>1, TransmitsSent
    <3> HIDE DEF x, o
    <3> QED
      BY <3>2 DEF Letter
  <2>3. Restores(x)
    <3>1. /\ privacy' = h.privacy /\ screen' = h.screen
          /\ wire' = [wire EXCEPT ![Controller] = o.wire]
          /\ lost' = (lost \/ Len(o.wire) - Len(wire[Controller]) < Len(says))
      BY <2>1
    <3> QED
      BY <2>2, <3>1 DEF Restores
  <2> QED
    BY <1>1, <2>3
<1> QED
  BY <1>2, <1>3

------------------------------------------------------------------------------
(* What the controller's user asks for.                                      *)

Askings ==
    {a \in [type : CommandTypes \ {"End"}, arg : Modes \union Actions] :
        /\ a.type = "Mode" => a.arg \in Modes
        /\ a.type = "Action" => a.arg \in Actions}

Numbered(cs) == [i \in DOMAIN cs |-> Command(nextId + i - 1, cs[i].type, cs[i].arg)]

\* At most one command is about the action.
OneAction(cs) == \A i, j \in DOMAIN cs : cs[i].type = "Action" /\ cs[j].type = "Action" => i = j

LEMMA NumberedIsTyped ==
    ASSUME CountsTyped, NEW cs \in Seq(Askings), nextId + Len(cs) - 1 <= MaxCommands
    PROVE  /\ Numbered(cs) \in Seq(CommandMessages) /\ Len(Numbered(cs)) = Len(cs)
           /\ \A i \in 1 .. Len(cs) :
                /\ nextId + i - 1 \in Ids /\ Numbered(cs)[i] \in CommandMessages
                /\ Numbered(cs)[i].id = nextId + i - 1
                /\ Numbered(cs)[i].type = cs[i].type /\ Numbered(cs)[i].arg = cs[i].arg
                /\ cs[i] \in Askings
<1>1. nextId \in Nat \ {0} /\ MaxCommands \in Nat /\ Len(cs) \in Nat /\ DOMAIN cs = 1 .. Len(cs)
  BY BoundAssumption DEF CountsTyped
<1>2. ASSUME NEW i \in 1 .. Len(cs)
      PROVE  /\ nextId + i - 1 \in Ids /\ Numbered(cs)[i] \in CommandMessages
             /\ Numbered(cs)[i].id = nextId + i - 1
             /\ Numbered(cs)[i].type = cs[i].type /\ Numbered(cs)[i].arg = cs[i].arg
             /\ cs[i] \in Askings
  <2>1. cs[i] \in Askings
    BY <1>1
  <2>2. nextId + i - 1 \in Ids /\ nextId + i - 1 \in 0 .. MaxCommands /\ nextId + i - 1 # EndId
    BY <1>1 DEF Ids, EndId
  <2>3. Numbered(cs)[i] = Command(nextId + i - 1, cs[i].type, cs[i].arg)
    BY <1>1 DEF Numbered
  <2> DEFINE k == nextId + i - 1
  <2> HIDE DEF k
  <2>4. k \in 0 .. MaxCommands /\ k # EndId /\ Numbered(cs)[i] = Command(k, cs[i].type, cs[i].arg)
    BY <2>2, <2>3 DEF k
  <2>5. Command(k, cs[i].type, cs[i].arg) \in CommandMessages
    BY <2>1, <2>4 DEF Command, CommandMessages, Askings
  <2>6. Numbered(cs)[i].id = k /\ Numbered(cs)[i].type = cs[i].type
        /\ Numbered(cs)[i].arg = cs[i].arg
    BY <2>4 DEF Command
  <2> QED
    BY <2>1, <2>2, <2>4, <2>5, <2>6 DEF k
<1>3. Numbered(cs) = [i \in 1 .. Len(cs) |-> Numbered(cs)[i]]
  BY <1>1 DEF Numbered
<1>4. Numbered(cs) \in Seq(CommandMessages) /\ Len(Numbered(cs)) = Len(cs)
  BY <1>1, <1>2, <1>3
<1> QED
  BY <1>2, <1>4

\* What asking for cs does: the first n of its commands find room.
Asked(cs, source, n) ==
    LET x == Sent(wire[Controlled], Numbered(cs)) IN
    /\ n = Len(x) - Len(wire[Controlled]) /\ n \in 0 .. Len(cs)
    /\ x \in Seq(AnyMessages) /\ Extends(wire[Controlled], Numbered(cs), x)
    /\ MaySend(Len(cs)) /\ nextId' = nextId + Len(cs)
    /\ wire' = [wire EXCEPT ![Controlled] = x]
    /\ pending' = [pending EXCEPT ![Controller] = pending[Controller] \union
                     {[command |-> Numbered(cs)[i], attempts |-> 1] : i \in 1 .. n}]
    /\ DOMAIN asked' \subseteq DOMAIN asked \union Ids
    /\ \/ wishes' = wishes /\ \A i \in 1 .. n : cs[i].type # "Action"
       \/ \E i \in 1 .. n : /\ cs[i].type = "Action"
                            /\ wishes' = [wishes EXCEPT !.asked = nextId + i - 1]
    /\ Reported({nextId + i - 1 : i \in n + 1 .. Len(cs)})

LEMMA AsksGives ==
    ASSUME Typed, WaitingKnown, NEW cs \in Seq(Askings), NEW source, Asks(cs, source)
    PROVE  \E n \in 0 .. Len(cs) : Asked(cs, source, n)
<1> DEFINE w == wire[Controlled]
           nb == Numbered(cs)
           x == Sent(w, nb)
           n == Len(x) - Len(w)
           ps == pending[Controller]
           new == {[command |-> nb[i], attempts |-> 1] : i \in 1 .. n}
           o == SendCommands(Out(Controller), nb)
           taken == {p.command : p \in o.pending \ ps}
           control == {c.id : c \in {t \in taken : t.type \in {"Mode", "Action"}}}
           ofAction == {c.id : c \in {t \in taken : t.type = "Action"}}
<1>1. /\ MaySend(Len(cs)) /\ nextId' = nextId + Len(cs) /\ Sends(Controller, o)
      /\ asked' = [id \in DOMAIN asked \union control |->
                      IF id \in control THEN source ELSE asked[id]]
      /\ wishes' = IF ofAction = {} THEN wishes
                   ELSE [wishes EXCEPT !.asked = CHOOSE id \in ofAction : TRUE]
      /\ Reported({nb[i].id : i \in DOMAIN cs} \ {c.id : c \in taken})
  BY DEF Asks, Numbered
<1>2. /\ w \in Seq(AnyMessages) /\ Len(w) <= WireLimit /\ Len(w) \in Nat
      /\ ps \in SUBSET Waiting /\ CountsTyped /\ nextId \in Nat
      /\ Len(cs) \in Nat /\ DOMAIN cs = 1 .. Len(cs)
  BY TwoEnds DEF Typed, ChannelTyped, PendingTyped, CountsTyped
<1>3. nextId + Len(cs) - 1 <= MaxCommands
  BY <1>1 DEF MaySend
<1>4. /\ nb \in Seq(CommandMessages) /\ Len(nb) = Len(cs)
      /\ \A i \in 1 .. Len(cs) :
           /\ nextId + i - 1 \in Ids /\ nb[i] \in CommandMessages
           /\ nb[i].id = nextId + i - 1 /\ nb[i].type = cs[i].type
  BY <1>2, <1>3, NumberedIsTyped
<1> HIDE DEF nb
<1>5. nb \in Seq(AnyMessages)
  BY <1>4, SeqMonotonic DEF AnyMessages
<1>6. x \in Seq(AnyMessages) /\ Extends(w, nb, x)
  BY <1>2, <1>5, SentExtends
<1>7. n \in 0 .. Len(cs)
  BY <1>2, <1>4, <1>6 DEF Extends
<1>8. o = Letter(x, ps \union new)
  <2>1. Out(Controller) = Letter(w, ps)
    BY TwoEnds DEF Out, Letter
  <2> HIDE DEF w, ps, x
  <2> QED
    BY <1>2, <1>4, <2>1, CommandsSent DEF x
<1>9. o.wire = x /\ o.pending = ps \union new
  <2> HIDE DEF o, x, new
  <2> QED
    BY <1>8 DEF Letter
<1> HIDE DEF x, n, o, ps, w
<1>10. \A i \in 1 .. n : [command |-> nb[i], attempts |-> 1] \notin ps
  <2> TAKE i \in 1 .. n
  <2>1. nb[i].id >= nextId
    BY <1>2, <1>4, <1>7
  <2>2. \A p \in ps : p.command.id < nextId /\ p.command.id \in Nat
    BY <1>2, BoundAssumption DEF WaitingKnown, Waiting, CommandMessages, ps
  <2> QED
    BY <1>2, <2>1, <2>2
<1>11. taken = {nb[i] : i \in 1 .. n}
  <2>1. o.pending \ ps = new
    BY <1>9, <1>10
  <2>2. taken = {p.command : p \in new}
    BY <2>1
  <2>3. \A p \in new : p.command \in {nb[i] : i \in 1 .. n}
    OBVIOUS
  <2>4. ASSUME NEW i \in 1 .. n PROVE nb[i] \in {p.command : p \in new}
    <3> DEFINE p == [command |-> nb[i], attempts |-> 1]
    <3>1. p \in new /\ p.command = nb[i]
      OBVIOUS
    <3> HIDE DEF p, new
    <3> QED
      BY <3>1
  <2> HIDE DEF new
  <2>5. {p.command : p \in new} = {nb[i] : i \in 1 .. n}
    BY <2>3, <2>4
  <2> QED
    BY <2>2, <2>5
<1> HIDE DEF taken
<1>12. DOMAIN asked' \subseteq DOMAIN asked \union Ids
  <2>1. control \subseteq Ids
    BY <1>4, <1>7, <1>11
  <2> HIDE DEF control
  <2> QED
    BY <1>1, <2>1
<1>13. \/ wishes' = wishes /\ \A i \in 1 .. n : cs[i].type # "Action"
       \/ \E i \in 1 .. n : /\ cs[i].type = "Action"
                            /\ wishes' = [wishes EXCEPT !.asked = nextId + i - 1]
  <2>1. CASE ofAction = {}
    <3>1. ASSUME NEW i \in 1 .. n, cs[i].type = "Action" PROVE FALSE
      <4>1. i \in 1 .. Len(cs)
        BY <1>7
      <4>2. nb[i] \in {t \in taken : t.type = "Action"}
        BY <1>4, <1>11, <3>1, <4>1
      <4>3. nb[i].id \in ofAction
        BY <4>2
      <4> QED
        BY <2>1, <4>3
    <3> QED
      BY <1>1, <2>1, <3>1
  <2>2. CASE ofAction # {}
    <3> DEFINE id == CHOOSE id \in ofAction : TRUE
    <3>1. id \in ofAction
      BY <2>2
    <3>2. wishes' = [wishes EXCEPT !.asked = id]
      BY <1>1, <2>2
    <3> HIDE DEF id
    <3>3. PICK i \in 1 .. n : nb[i].type = "Action" /\ id = nb[i].id
      BY <1>11, <3>1
    <3>4. i \in 1 .. Len(cs)
      BY <1>7
    <3>5. cs[i].type = "Action" /\ id = nextId + i - 1
      BY <1>4, <3>3, <3>4
    <3> QED
      BY <3>2, <3>5
  <2> QED
    BY <2>1, <2>2
<1>14. Reported({nextId + i - 1 : i \in n + 1 .. Len(cs)})
  <2>1. {nb[i].id : i \in DOMAIN cs} \ {c.id : c \in taken}
          = {nextId + i - 1 : i \in n + 1 .. Len(cs)}
    <3> DEFINE all == {nb[i].id : i \in DOMAIN cs}
               of == {c.id : c \in taken}
               rest == {nextId + i - 1 : i \in n + 1 .. Len(cs)}
    <3>1. ASSUME NEW k \in all \ of PROVE k \in rest
      <4>1. PICK i \in 1 .. Len(cs) : k = nb[i].id
        BY <1>2
      <4>2. i \notin 1 .. n
        BY <1>11, <4>1
      <4>3. i \in n + 1 .. Len(cs) /\ k = nextId + i - 1
        BY <1>2, <1>4, <1>7, <4>1, <4>2
      <4> QED
        BY <4>3
    <3>2. ASSUME NEW k \in rest PROVE k \in all \ of
      <4>1. PICK i \in n + 1 .. Len(cs) : k = nextId + i - 1
        OBVIOUS
      <4>2. i \in 1 .. Len(cs) /\ k = nb[i].id
        BY <1>2, <1>4, <1>7, <4>1
      <4>3. \A j \in 1 .. n : nb[j].id # k
        BY <1>2, <1>4, <1>7, <4>1
      <4>4. k \in all
        BY <1>2, <4>2
      <4>5. k \notin of
        BY <1>11, <4>3
      <4> QED
        BY <4>4, <4>5
    <3>3. \A k : k \in all \ of <=> k \in rest
      BY <3>1, <3>2
    <3> HIDE DEF all, of, rest
    <3>4. all \ of = rest
      BY <3>3
    <3> QED
      BY <3>4 DEF all, of, rest
  <2> QED
    BY <1>1, <2>1
<1>15. wire' = [wire EXCEPT ![Controlled] = x]
       /\ pending' = [pending EXCEPT ![Controller] = ps \union new]
  BY <1>1, <1>9, TwoEnds DEF Sends
<1>16. Asked(cs, source, n)
  <2>1. x = Sent(wire[Controlled], Numbered(cs)) /\ n = Len(x) - Len(wire[Controlled])
    BY DEF x, w, nb, n
  <2> HIDE DEF new
  <2>2. pending' = [pending EXCEPT ![Controller] = pending[Controller] \union
                     {[command |-> Numbered(cs)[i], attempts |-> 1] : i \in 1 .. n}]
    BY <1>15 DEF new, nb, ps
  <2> QED
    BY <1>1, <1>6, <1>7, <1>12, <1>13, <1>14, <1>15, <2>1, <2>2 DEF Asked, w, nb
<1> QED
  BY <1>7, <1>16

Requests ==
    \/ EnterRemoteDesktop
    \/ LeaveRemoteDesktop
    \/ \E mode \in Modes : RequestPrivacyMode(mode)
    \/ \E a \in Actions : RequestPostSessionAction(a)

LEMMA OneAsked ==
    ASSUME NEW a \in Askings
    PROVE  <<a>> \in Seq(Askings) /\ OneAction(<<a>>)
<1>1. <<a>> \in Seq(Askings) /\ DOMAIN <<a>> = {1}
  OBVIOUS
<1> QED
  BY <1>1 DEF OneAction

LEMMA BeforeAction ==
    ASSUME NEW s \in Seq(Askings), \A i \in 1 .. Len(s) : s[i].type # "Action",
           NEW t \in Seq(Askings), OneAction(t)
    PROVE  s \o t \in Seq(Askings) /\ OneAction(s \o t)
<1> DEFINE u == s \o t
<1>1. /\ u \in Seq(Askings) /\ Len(u) = Len(s) + Len(t) /\ Len(s) \in Nat /\ Len(t) \in Nat
      /\ \A i \in 1 .. Len(s) + Len(t) : u[i] = IF i <= Len(s) THEN s[i] ELSE t[i - Len(s)]
  BY ConcatProperties
<1> HIDE DEF u
<1>2. ASSUME NEW i \in DOMAIN u, u[i].type = "Action"
      PROVE  i - Len(s) \in DOMAIN t /\ t[i - Len(s)].type = "Action"
  <2>1. i \in 1 .. Len(s) + Len(t)
    BY <1>1
  <2>2. i > Len(s)
    BY <1>1, <1>2, <2>1
  <2> QED
    BY <1>1, <1>2, <2>1, <2>2
<1>3. ASSUME NEW i \in DOMAIN u, NEW j \in DOMAIN u, u[i].type = "Action", u[j].type = "Action"
      PROVE  i = j
  <2>1. i - Len(s) = j - Len(s)
    BY <1>2, <1>3 DEF OneAction
  <2> QED
    BY <1>1, <2>1
<1> QED
  BY <1>1, <1>3 DEF OneAction, u

LEMMA EntryAsks ==
    ASSUME preference \in [mode : Modes, action : Actions]
    PROVE  LET cs == <<[type |-> "Start", arg |-> "none"]>> \o (IF applied THEN <<>> ELSE Wanted)
           IN cs \in Seq(Askings) /\ OneAction(cs)
<1> DEFINE s == <<[type |-> "Start", arg |-> "none"]>>
           m == IF preference.mode \in Advertised \ {"disabled"}
                THEN <<[type |-> "Mode", arg |-> preference.mode]>> ELSE <<>>
           a == IF preference.action = "lock" THEN <<[type |-> "Action", arg |-> "lock"]>>
                ELSE <<>>
<1>1. <<>> \in Seq(Askings) /\ OneAction(<<>>)
  BY DEF OneAction
<1>2. s \in Seq(Askings) /\ \A i \in 1 .. Len(s) : s[i].type # "Action"
  BY DEF Askings, CommandTypes, Actions
<1>3. m \in Seq(Askings) /\ \A i \in 1 .. Len(m) : m[i].type # "Action"
  <2> DEFINE b == [type |-> "Mode", arg |-> preference.mode]
  <2>1. b \in Askings /\ b.type # "Action"
    BY DEF Askings, CommandTypes
  <2> HIDE DEF b
  <2>2. <<b>> \in Seq(Askings) /\ \A i \in 1 .. Len(<<b>>) : <<b>>[i].type # "Action"
    BY <2>1
  <2> QED
    BY <1>1, <2>2 DEF b
<1>4. a \in Seq(Askings) /\ OneAction(a)
  <2>1. [type |-> "Action", arg |-> "lock"] \in Askings
    BY DEF Askings, CommandTypes, Actions
  <2> QED
    BY <1>1, <2>1, OneAsked
<1>5. Wanted = m \o a
  BY DEF Wanted
<1> HIDE DEF s, m, a
<1>6. Wanted \in Seq(Askings) /\ OneAction(Wanted)
  BY <1>3, <1>4, <1>5, BeforeAction
<1>7. s \o (IF applied THEN <<>> ELSE Wanted) \in Seq(Askings)
      /\ OneAction(s \o (IF applied THEN <<>> ELSE Wanted))
  BY <1>1, <1>2, <1>6, BeforeAction
<1> QED
  BY <1>7 DEF s

LEMMA RequestsGive ==
    ASSUME Typed, WaitingKnown, Requests
    PROVE  /\ UNCHANGED askUnchanged /\ applied' \in BOOLEAN
           /\ phase[Controller] \in Live
           /\ \E p \in Live : phase' = [phase EXCEPT ![Controller] = p]
           /\ \E cs \in Seq(Askings) : \E n \in 0 .. Len(cs) : \E source :
                 OneAction(cs) /\ Asked(cs, source, n)
<1>1. phase \in [Ends -> Phases] /\ preference \in [mode : Modes, action : Actions]
      /\ applied \in BOOLEAN
  BY DEF Typed, SessionTyped, UserTyped
<1>2. phase' = phase /\ phase[Controller] \in Desktop
        => phase[Controller] \in Live
           /\ \E p \in Live : phase' = [phase EXCEPT ![Controller] = p]
  BY <1>1, TwoEnds DEF Desktop, Live
<1>3. CASE EnterRemoteDesktop
  <2> DEFINE cs == <<[type |-> "Start", arg |-> "none"]>> \o (IF applied THEN <<>> ELSE Wanted)
  <2>1. cs \in Seq(Askings) /\ OneAction(cs)
    BY <1>1, EntryAsks
  <2>2. Asks(cs, "auto") /\ UNCHANGED askUnchanged /\ applied' = TRUE
        /\ phase[Controller] = "Connected" /\ phase' = [phase EXCEPT ![Controller] = "Streaming"]
    BY <1>3 DEF EnterRemoteDesktop
  <2> HIDE DEF cs
  <2>3. PICK n \in 0 .. Len(cs) : Asked(cs, "auto", n)
    BY <2>1, <2>2, AsksGives
  <2> QED
    BY <2>1, <2>2, <2>3 DEF Live
<1>4. CASE LeaveRemoteDesktop
  <2> DEFINE cs == <<[type |-> "Stop", arg |-> "none"]>>
  <2>1. cs \in Seq(Askings) /\ OneAction(cs)
    BY OneAsked DEF Askings, CommandTypes, Actions
  <2>2. Asks(cs, "auto") /\ UNCHANGED <<askUnchanged, applied>>
        /\ phase[Controller] = "Streaming" /\ phase' = [phase EXCEPT ![Controller] = "Connected"]
    BY <1>4 DEF LeaveRemoteDesktop
  <2> HIDE DEF cs
  <2>3. PICK n \in 0 .. Len(cs) : Asked(cs, "auto", n)
    BY <2>1, <2>2, AsksGives
  <2> QED
    BY <1>1, <2>1, <2>2, <2>3 DEF Live
<1>5. ASSUME NEW mode \in Modes, RequestPrivacyMode(mode)
      PROVE  /\ UNCHANGED askUnchanged /\ applied' = applied /\ phase' = phase
             /\ phase[Controller] \in Desktop
             /\ \E cs \in Seq(Askings) : \E n \in 0 .. Len(cs) : \E source :
                 OneAction(cs) /\ Asked(cs, source, n)
  <2> DEFINE cs == <<[type |-> "Mode", arg |-> mode]>>
  <2>1. cs \in Seq(Askings) /\ OneAction(cs)
    BY OneAsked DEF Askings, CommandTypes
  <2>2. Asks(cs, "user") /\ UNCHANGED <<phase, askUnchanged, applied>>
        /\ phase[Controller] \in Desktop
    BY <1>5 DEF RequestPrivacyMode
  <2> HIDE DEF cs
  <2>3. PICK n \in 0 .. Len(cs) : Asked(cs, "user", n)
    BY <2>1, <2>2, AsksGives
  <2> QED
    BY <2>1, <2>2, <2>3
<1>6. ASSUME NEW a \in Actions, RequestPostSessionAction(a)
      PROVE  /\ UNCHANGED askUnchanged /\ applied' = applied /\ phase' = phase
             /\ phase[Controller] \in Desktop
             /\ \E cs \in Seq(Askings) : \E n \in 0 .. Len(cs) : \E source :
                 OneAction(cs) /\ Asked(cs, source, n)
  <2> DEFINE cs == <<[type |-> "Action", arg |-> a]>>
  <2>1. cs \in Seq(Askings) /\ OneAction(cs)
    BY OneAsked DEF Askings, CommandTypes
  <2>2. Asks(cs, "user") /\ UNCHANGED <<phase, askUnchanged, applied>>
        /\ phase[Controller] \in Desktop
    BY <1>6 DEF RequestPostSessionAction
  <2> HIDE DEF cs
  <2>3. PICK n \in 0 .. Len(cs) : Asked(cs, "user", n)
    BY <2>1, <2>2, AsksGives
  <2> QED
    BY <2>1, <2>2, <2>3
<1> QED
  BY <1>1, <1>2, <1>3, <1>4, <1>5, <1>6 DEF Requests

------------------------------------------------------------------------------
(* Every step keeps the types.                                               *)

WishesTyped ==
    /\ preference \in [mode : Modes, action : Actions]
    /\ wishes \in [asked : 0 .. MaxCommands, confirmed : 0 .. MaxCommands, arg : Actions,
                   streamed : BOOLEAN]

LEMMA CompletionTyped ==
    ASSUME Typed, NEW c \in CommandMessages, c.type \in {"Mode", "Action"}, NEW ok \in BOOLEAN,
           NEW saves \in BOOLEAN, CompleteCommand(c, ok, saves)
    PROVE  WishesTyped' /\ DOMAIN asked' \subseteq Ids
<1>1. UserTyped /\ c.id \in 0 .. MaxCommands
      /\ (c.type = "Mode" => c.arg \in Modes) /\ (c.type = "Action" => c.arg \in Actions)
  BY DEF Typed, CommandMessages
<1>2. DOMAIN asked' \subseteq Ids
  BY <1>1 DEF CompleteCommand, UserTyped
<1>3. preference' \in [mode : Modes, action : Actions]
  <2>1. UpdatePreference(c, saves) \in [mode : Modes, action : Actions]
    <3>1. CASE c.type = "Mode"
      BY <1>1, <3>1 DEF UpdatePreference, FlagOf, UserTyped
    <3>2. CASE c.type = "Action"
      BY <1>1, <3>2 DEF UpdatePreference, FlagOf, UserTyped
    <3> QED
      BY <3>1, <3>2
  <2> QED
    BY <1>1, <2>1 DEF CompleteCommand, UserTyped
<1>4. wishes' \in [asked : 0 .. MaxCommands, confirmed : 0 .. MaxCommands, arg : Actions,
                   streamed : BOOLEAN]
  BY <1>1 DEF CompleteCommand, UserTyped
<1> QED
  BY <1>2, <1>3, <1>4 DEF WishesTyped

LEMMA FailureTyped ==
    ASSUME Typed, NEW c \in CommandMessages, Fails(c)
    PROVE  WishesTyped' /\ DOMAIN asked' \subseteq Ids
<1>1. CASE c.type \in {"Mode", "Action"}
  BY <1>1, CompletionTyped DEF Fails
<1>2. CASE c.type \notin {"Mode", "Action"}
  BY <1>2 DEF Fails, Typed, UserTyped, WishesTyped
<1> QED
  BY <1>1, <1>2

\* What Typed consists of, as the steps keep it.
LEMMA TypedParts ==
    /\ Typed <=> /\ ExchangeTyped /\ ResultsTyped /\ SessionTyped /\ CountsTyped
                 /\ HostTyped /\ UserTyped
    /\ UserTyped <=> AskedPart /\ WishesTyped
BY DEF Typed, ExchangeTyped, UserTyped, AskedPart, WishesTyped

LEMMA RequestsTyped ==
    ASSUME Typed, WaitingKnown, Requests
    PROVE  Typed' /\ WaitingKnown'
<1>1. UNCHANGED askUnchanged /\ applied' \in BOOLEAN
      /\ \E p \in Live : phase' = [phase EXCEPT ![Controller] = p]
  BY RequestsGive
<1>2. PICK cs \in Seq(Askings) : \E n \in 0 .. Len(cs) : \E source :
         OneAction(cs) /\ Asked(cs, source, n)
  BY RequestsGive
<1>n. PICK n \in 0 .. Len(cs) : \E source : Asked(cs, source, n)
  BY <1>2
<1>3. PICK source : Asked(cs, source, n)
  BY <1>n
<1> DEFINE w == wire[Controlled]
           nb == Numbered(cs)
           x == Sent(w, nb)
           ps == pending[Controller]
           new == {[command |-> nb[i], attempts |-> 1] : i \in 1 .. n}
<1>4. /\ CountsTyped /\ SessionTyped /\ HostTyped /\ UserTyped /\ ResultsTyped
      /\ w \in Seq(AnyMessages) /\ Len(w) <= WireLimit /\ Len(w) \in Nat
      /\ nextId \in Nat /\ Len(cs) \in Nat /\ MaxCommands \in Nat
  BY TwoEnds, BoundAssumption DEF Typed, ChannelTyped, CountsTyped
<1>5. /\ n = Len(x) - Len(w) /\ n \in 0 .. Len(cs)
      /\ x \in Seq(AnyMessages) /\ Extends(w, nb, x)
      /\ MaySend(Len(cs)) /\ nextId' = nextId + Len(cs)
      /\ wire' = [wire EXCEPT ![Controlled] = x]
      /\ pending' = [pending EXCEPT ![Controller] = ps \union new]
      /\ DOMAIN asked' \subseteq DOMAIN asked \union Ids
      /\ \/ wishes' = wishes
         \/ \E i \in 1 .. n : wishes' = [wishes EXCEPT !.asked = nextId + i - 1]
      /\ Reported({nextId + i - 1 : i \in n + 1 .. Len(cs)})
  BY <1>3 DEF Asked
<1>6. nextId + Len(cs) - 1 <= MaxCommands
  BY <1>5 DEF MaySend
<1>7. /\ nb \in Seq(CommandMessages) /\ Len(nb) = Len(cs)
      /\ \A i \in 1 .. Len(cs) : nextId + i - 1 \in Ids /\ nb[i] \in CommandMessages
                                 /\ nb[i].id = nextId + i - 1
  BY <1>4, <1>6, NumberedIsTyped
<1> HIDE DEF nb, x
<1>8. Sendable(Controller, w, ps)
  BY OutIsSendable, TwoEnds
<1>9. Sendable(Controller, x, ps \union new)
  <2>1. nb \in Seq(AnyMessages) /\ \A i \in 1 .. Len(nb) : nb[i] \in MessagesTo(Controlled)
    BY <1>7, SeqMonotonic DEF AnyMessages, MessagesTo
  <2>2. Sendable(Controller, x, ps)
    BY <1>8, <2>1, SendsMore, TwoEnds DEF x
  <2>3. new \in SUBSET Waiting
    BY <1>5, <1>7 DEF Waiting
  <2> QED
    BY <2>2, <2>3, TwoEnds DEF Sendable
<1>10. ExchangeTyped'
  <2> HIDE DEF new, ps
  <2> QED
    BY <1>5, <1>9, SendingTyped, TwoEnds
<1>11. CountsTyped'
  <2>1. reports' \in [Ids -> Nat]
    BY <1>4, <1>5, ReportedTyped DEF CountsTyped
  <2>2. nextId' \in 1 .. MaxCommands + 1
    BY <1>4, <1>5, <1>6 DEF CountsTyped
  <2> QED
    BY <1>1, <1>4, <2>1, <2>2 DEF CountsTyped, askUnchanged, hostVars
<1>12. SessionTyped' /\ HostTyped' /\ ResultsTyped'
  BY <1>1, <1>4 DEF SessionTyped, HostTyped, ResultsTyped, askUnchanged, hostVars, Phases, Live
<1>13. UserTyped'
  <2>1. wishes' \in [asked : 0 .. MaxCommands, confirmed : 0 .. MaxCommands, arg : Actions,
                     streamed : BOOLEAN]
    <3>1. CASE wishes' = wishes
      BY <1>4, <3>1 DEF UserTyped
    <3>2. CASE \E i \in 1 .. n : wishes' = [wishes EXCEPT !.asked = nextId + i - 1]
      <4>1. PICK i \in 1 .. n : wishes' = [wishes EXCEPT !.asked = nextId + i - 1]
        BY <3>2
      <4>2. nextId + i - 1 \in 0 .. MaxCommands
        BY <1>4, <1>5, <1>7 DEF Ids
      <4> DEFINE k == nextId + i - 1
      <4> HIDE DEF k
      <4>3. wishes' = [wishes EXCEPT !.asked = k] /\ k \in 0 .. MaxCommands
        BY <4>1, <4>2 DEF k
      <4> QED
        BY <1>4, <4>3 DEF UserTyped
    <3> QED
      BY <1>5, <3>1, <3>2
  <2> QED
    BY <1>1, <1>4, <1>5, <2>1 DEF UserTyped, askUnchanged
<1>14. WaitingKnown'
  <2>1. \A p \in ps : p.command.id < nextId'
    <3>1. \A p \in ps : p.command.id < nextId /\ p.command.id \in Nat
      BY <1>4 DEF WaitingKnown, Typed, PendingTyped, Waiting, CommandMessages, Ends
    <3> QED
      BY <1>4, <1>5, <3>1
  <2>2. \A p \in new : p.command.id < nextId'
    <3>1. ASSUME NEW i \in 1 .. n PROVE nb[i].id < nextId'
      BY <1>4, <1>5, <1>7
    <3> QED
      BY <3>1
  <2>3. pending'[Controller] = ps \union new
    BY <1>5, TwoEnds DEF Typed, PendingTyped
  <2> HIDE DEF ps, new
  <2> QED
    BY <2>1, <2>2, <2>3 DEF WaitingKnown
<1> QED
  BY <1>10, <1>11, <1>12, <1>13, <1>14, TypedParts DEF Typed, ExchangeTyped

LEMMA ResultIsMessage ==
    ASSUME NEW r \in ResultMessages
    PROVE  /\ r \in AnyMessages /\ <<r>> \in Seq(AnyMessages)
           /\ \A e \in Ends : \A i \in 1 .. Len(<<r>>) : <<r>>[i] \in MessagesTo(e)
<1>1. r \in AnyMessages /\ \A e \in Ends : r \in MessagesTo(e)
  BY DEF AnyMessages, MessagesTo
<1> QED
  BY <1>1

LEMMA ResultTyped ==
    ASSUME NEW id \in 0 .. MaxCommands, NEW ok \in BOOLEAN
    PROVE  Result(id, ok) \in ResultMessages
BY DEF Result, ResultMessages

LEMMA RemembersTyped ==
    ASSUME NEW rs \in Seq(ResultMessages), Len(rs) <= CacheLimit, NEW r \in ResultMessages
    PROVE  RememberCommandResult(rs, r) \in Seq(ResultMessages)
           /\ Len(RememberCommandResult(rs, r)) <= CacheLimit
<1>1. Len(rs) \in Nat /\ CacheLimit \in Nat \ {0}
  BY BoundAssumption
<1>2. CASE Len(rs) < CacheLimit
  BY <1>1, <1>2 DEF RememberCommandResult
<1>3. CASE ~(Len(rs) < CacheLimit)
  <2>1. Tail(rs) \in Seq(ResultMessages) /\ Len(Tail(rs)) = Len(rs) - 1
    BY <1>1, <1>3
  <2> QED
    BY <1>1, <1>3, <2>1 DEF RememberCommandResult
<1> QED
  BY <1>2, <1>3

LEMMA RepeatTyped ==
    ASSUME Typed, NEW e \in Ends, RepeatResult(e)
    PROVE  Typed'
<1>1. PICK j \in DOMAIN results[e] :
         Reads(e, Letter(Sent(wire[Peer(e)], <<results[e][j]>>), pending[e]))
  BY RepeatGives
<1>2. results[e][j] \in ResultMessages
  BY DEF Typed, ResultsTyped
<1>3. Sendable(e, wire[Peer(e)], pending[e])
  BY OutIsSendable
<1>4. Sendable(e, Sent(wire[Peer(e)], <<results[e][j]>>), pending[e])
  BY <1>2, <1>3, ResultIsMessage, SendsMore, TwoEnds
<1>5. ExchangeTyped'
  BY <1>1, <1>4, RepeatGives, ReadingTyped
<1>6. UNCHANGED <<sessionUnchanged, troubles, phase, results, hostVars, userVars, history>>
  BY RepeatGives
<1> QED
  BY <1>5, <1>6 DEF Typed, ExchangeTyped, ResultsTyped, SessionTyped, CountsTyped, HostTyped,
     UserTyped, sessionUnchanged, hostVars, userVars, history

LEMMA EndTyped ==
    ASSUME Typed, NEW e \in Ends, ExecuteEnd(e)
    PROVE  Typed'
<1> DEFINE r == Result(EndId, TRUE)
           x == Sent(wire[Peer(e)], <<r>>)
<1>1. r \in ResultMessages
  <2>1. EndId \in 0 .. MaxCommands
    BY BoundAssumption DEF EndId
  <2> QED
    BY <2>1, ResultTyped
<1>2. Sendable(e, x, pending[e])
  BY <1>1, OutIsSendable, ResultIsMessage, SendsMore, TwoEnds
<1>3. /\ wire[e] # <<>> /\ UNCHANGED <<endUnchanged, troubles>>
      /\ \/ /\ Reads(e, Letter(x, pending[e]))
            /\ results' = [results EXCEPT ![e] = RememberCommandResult(results[e], r)]
            /\ UNCHANGED <<phase, privacy, screen, asked, applied, reports>>
         \/ FinishSession(e, Letter(x, pending[e]), FALSE)
  BY EndGives
<1> HIDE DEF x, r
<1>4. ExchangeTyped' /\ ResultsTyped' /\ SessionPart' /\ HostPart' /\ AskedPart'
  <2>1. CASE FinishSession(e, Letter(x, pending[e]), FALSE)
    BY <1>2, <2>1, FinishTyped
  <2>2. CASE /\ Reads(e, Letter(x, pending[e]))
             /\ results' = [results EXCEPT ![e] = RememberCommandResult(results[e], r)]
             /\ UNCHANGED <<phase, privacy, screen, asked, applied, reports>>
    <3>1. ExchangeTyped'
      BY <1>2, <1>3, <2>2, ReadingTyped
    <3>2. RememberCommandResult(results[e], r) \in Seq(ResultMessages)
          /\ Len(RememberCommandResult(results[e], r)) <= CacheLimit
      BY <1>1, RemembersTyped DEF Typed, ResultsTyped
    <3>3. ResultsTyped'
      BY <2>2, <3>2 DEF Typed, ResultsTyped
    <3> QED
      BY <2>2, <3>1, <3>3 DEF Typed, SessionPart, HostPart, AskedPart, SessionTyped, CountsTyped,
         HostTyped, UserTyped, Screens
  <2> QED
    BY <1>3, <2>1, <2>2
<1> QED
  BY <1>3, <1>4 DEF Typed, ExchangeTyped, SessionPart, HostPart, AskedPart, SessionTyped,
     CountsTyped, HostTyped, UserTyped, Screens, endUnchanged

\* The host after a command: as it was, or in the mode the command asked for.
HostAfter(c, d) ==
    \/ d.host.privacy = privacy /\ d.host.screen = screen /\ d.host.says = <<>>
    \/ c.type = "Mode" /\ phase[Controlled] \in Desktop /\ ModeSet(d.host)

LEMMA OutcomeTyped ==
    ASSUME Typed, NEW c \in CommandMessages, NEW d, Outcomes(c, d)
    PROVE  /\ HostAfter(c, d) /\ d.ok \in BOOLEAN
           /\ d.action \in [armed : Actions, streamed : BOOLEAN, consumed : BOOLEAN]
           /\ d.action.consumed = action.consumed
           /\ d.phase = phase[Controlled]
                \/ (phase[Controlled] \in Live /\ d.phase \in {"Connected", "Streaming"})
<1>1. HostTyped /\ action \in [armed : Actions, streamed : BOOLEAN, consumed : BOOLEAN]
      /\ (c.type = "Mode" => c.arg \in Modes) /\ (c.type = "Action" => c.arg \in Actions)
  BY DEF Typed, HostTyped, CommandMessages
<1>2. Host.privacy = privacy /\ Host.screen = screen /\ Host.says = <<>>
  BY DEF Host
<1> HIDE DEF Host
<1>3. CASE d = Outcome(phase[Controlled], Host, action, FALSE)
  BY <1>1, <1>2, <1>3 DEF Outcome, HostAfter
<1>4. CASE /\ c.type = "Start" /\ phase[Controlled] = "Connected"
           /\ d = Outcome("Streaming", Host,
                          [action EXCEPT !.streamed = @ \/ ~action.consumed], TRUE)
  BY <1>1, <1>2, <1>4 DEF Outcome, HostAfter, Live
<1>5. CASE /\ c.type = "Stop" /\ phase[Controlled] = "Streaming"
           /\ d = Outcome("Connected", Host, action, TRUE)
  BY <1>1, <1>2, <1>5 DEF Outcome, HostAfter, Live
<1>6. CASE /\ c.type = "Mode" /\ phase[Controlled] \in Desktop
           /\ \E takes, wakes \in BOOLEAN :
                d = Outcome(phase[Controlled], SetMode(Host, c.arg, takes, wakes), action,
                            Sets(Host, c.arg, takes, wakes))
  <2>1. PICK takes \in BOOLEAN, wakes \in BOOLEAN :
           d = Outcome(phase[Controlled], SetMode(Host, c.arg, takes, wakes), action,
                       Sets(Host, c.arg, takes, wakes))
    BY <1>6
  <2>2. ModeSet(SetMode(Host, c.arg, takes, wakes))
    BY <1>1, <1>6, SetsMode
  <2>3. Sets(Host, c.arg, takes, wakes) \in BOOLEAN
    BY DEF Sets
  <2> DEFINE h == SetMode(Host, c.arg, takes, wakes)
             ok == Sets(Host, c.arg, takes, wakes)
  <2> HIDE DEF h, ok
  <2>4. d = Outcome(phase[Controlled], h, action, ok) /\ ModeSet(h) /\ ok \in BOOLEAN
    BY <2>1, <2>2, <2>3 DEF h, ok
  <2>5. d.host = h /\ d.ok = ok /\ d.action = action /\ d.phase = phase[Controlled]
    BY <2>4 DEF Outcome
  <2> QED
    BY <1>1, <1>6, <2>4, <2>5 DEF HostAfter
<1>7. CASE /\ c.type = "Action" /\ phase[Controlled] \in Desktop /\ ~action.consumed
           /\ d = Outcome(phase[Controlled], Host, [action EXCEPT !.armed = c.arg], TRUE)
  BY <1>1, <1>2, <1>7 DEF Outcome, HostAfter
<1> QED
  BY <1>3, <1>4, <1>5, <1>6, <1>7 DEF Outcomes

LEMMA ExecuteTyped ==
    ASSUME Typed, Execute
    PROVE  Typed'
<1> DEFINE c == Head(wire[Controlled])
<1>1. /\ wire \in [Ends -> Seq(AnyMessages)] /\ pending \in [Ends -> SUBSET Waiting]
      /\ wire[Controlled] # <<>> /\ troubles \in 0 .. MaxTroubles
      /\ c.type \in CommandTypes \ {"End"}
      /\ Sendable(Controlled, wire[Controller], pending[Controlled])
  BY ExecuteGives, OutIsSendable, TwoEnds DEF Typed, ChannelTyped, PendingTyped, CountsTyped
<1>2. c \in CommandMessages
  <2>1. c = wire[Controlled][1] /\ 1 \in 1 .. Len(wire[Controlled])
    BY <1>1, TwoEnds
  <2>2. c \in MessagesTo(Controlled)
    BY <2>1, TwoEnds DEF Typed, ChannelTyped
  <2> QED
    BY <1>1, <2>2 DEF MessagesTo, ResultMessages, CommandTypes
<1>3. PICK d, says, x : Executes(c, d, says, x)
  BY <1>1, ExecuteGives
<1>4. /\ HostAfter(c, d) /\ d.ok \in BOOLEAN
      /\ d.action \in [armed : Actions, streamed : BOOLEAN, consumed : BOOLEAN]
      /\ d.phase = phase[Controlled]
            \/ (phase[Controlled] \in Live /\ d.phase \in {"Connected", "Streaming"})
  BY <1>2, <1>3, OutcomeTyped DEF Executes
<1> DEFINE r == Result(c.id, d.ok)
<1>5. r \in ResultMessages
  BY <1>2, <1>4, ResultTyped DEF CommandMessages
<1>6. /\ d.host.privacy \in PrivacyStatuses /\ d.host.screen \in Screens
      /\ d.host.says \in {<<>>, <<Status(d.host.privacy)>>}
  BY <1>4 DEF HostAfter, ModeSet, Typed, HostTyped, Screens
<1> HIDE DEF c, r
<1>7. Status(d.host.privacy) \in StatusMessages
  BY <1>6 DEF Status, StatusMessages
<1>8. Append(says, r) \in Seq(AnyMessages)
      /\ \A i \in 1 .. Len(Append(says, r)) : Append(says, r)[i] \in MessagesTo(Controller)
  <2> DEFINE s == Status(d.host.privacy)
  <2>1. s \in AnyMessages /\ s \in MessagesTo(Controller)
        /\ r \in AnyMessages /\ r \in MessagesTo(Controller)
    BY <1>5, <1>7, TwoEnds DEF AnyMessages, MessagesTo
  <2>2. says \in {<<>>, <<s>>}
    BY <1>3, <1>6 DEF Executes
  <2> HIDE DEF s
  <2>3. says \in Seq(AnyMessages) /\ \A i \in 1 .. Len(says) : says[i] = s
    <3>1. CASE says = <<>>
      BY <3>1
    <3>2. CASE says = <<s>>
      BY <2>1, <3>2
    <3> QED
      BY <2>2, <3>1, <3>2
  <2>4. /\ Append(says, r) \in Seq(AnyMessages) /\ Len(Append(says, r)) = Len(says) + 1
        /\ Append(says, r)[Len(says) + 1] = r
        /\ \A i \in 1 .. Len(says) : Append(says, r)[i] = says[i]
    BY <2>1, <2>3
  <2> QED
    BY <2>1, <2>3, <2>4
<1>9. x = Sent(wire[Controller], Append(says, r))
  BY <1>3 DEF Executes, r
<1>10. Sendable(Controlled, x, pending[Controlled])
  <2> DEFINE ms == Append(says, r)
  <2> HIDE DEF ms
  <2>1. ms \in Seq(AnyMessages) /\ \A i \in 1 .. Len(ms) : ms[i] \in MessagesTo(Peer(Controlled))
    BY <1>8, TwoEnds DEF ms
  <2>2. x = Sent(wire[Controller], ms)
    BY <1>9 DEF ms
  <2> QED
    BY <1>1, <2>1, <2>2, SendsMore, TwoEnds
<1>11. ExchangeTyped'
  <2>1. Reads(Controlled, Letter(x, pending[Controlled]))
    BY <1>3, TwoEnds DEF Executes, Reads, Letter
  <2> QED
    BY <1>1, <1>10, <2>1, ReadingTyped, TwoEnds
<1>12. ResultsTyped'
  <2>1. results' = [results EXCEPT ![Controlled] = RememberCommandResult(results[Controlled], r)]
    BY <1>3 DEF Executes, r
  <2>2. RememberCommandResult(results[Controlled], r) \in Seq(ResultMessages)
        /\ Len(RememberCommandResult(results[Controlled], r)) <= CacheLimit
    BY <1>5, RemembersTyped, TwoEnds DEF Typed, ResultsTyped
  <2> QED
    BY <2>1, <2>2 DEF Typed, ResultsTyped
<1>13. SessionTyped' /\ CountsTyped'
  <2>1. phase' \in [Ends -> Phases]
    BY <1>3, <1>4 DEF Executes, Typed, SessionTyped, Phases
  <2>2. executed' \in [Ids -> Nat]
    <3>1. executed' = [executed EXCEPT ![c.id] = @ + 1] /\ executed \in [Ids -> Nat]
      BY <1>3 DEF Executes, Typed, CountsTyped
    <3>2. c.id \in Ids
      BY <1>1, <1>2, BoundAssumption DEF CommandMessages, Ids, EndId
    <3> QED
      BY <3>1, <3>2
  <2>3. troubles' \in 0 .. MaxTroubles
    BY <1>1, <1>3, BoundAssumption DEF Executes
  <2> QED
    BY <1>3, <2>1, <2>2, <2>3 DEF Executes, Typed, SessionTyped, CountsTyped, sessionUnchanged
<1>14. HostTyped'
  BY <1>3, <1>4, <1>6 DEF Executes, Typed, HostTyped, Screens, userVars
<1>15. UserTyped'
  BY <1>3 DEF Executes, Typed, UserTyped, userVars
<1> QED
  BY <1>11, <1>12, <1>13, <1>14, <1>15 DEF Typed, ExchangeTyped

LEMMA ResultHandlingTyped ==
    ASSUME Typed, NEW e \in Ends, HandleResult(e)
    PROVE  Typed'
<1> DEFINE r == Head(wire[e])
           w == wire[Peer(e)]
           qs == Forget(pending[e], r.id)
<1>1. /\ wire[e] # <<>> /\ pending \in [Ends -> SUBSET Waiting]
      /\ UNCHANGED <<sessionUnchanged, hostVars, seen, executed, inForce, lost>>
      /\ Sendable(e, w, pending[e]) /\ qs \in SUBSET pending[e]
      /\ troubles \in 0 .. MaxTroubles
  BY ResultGives, OutIsSendable DEF Typed, PendingTyped, CountsTyped, Forget
<1>2. Sendable(e, w, qs)
  BY <1>1, SendsLess
<1>3. HostTyped'
  BY <1>1 DEF Typed, HostTyped, hostVars
<1>4. CASE /\ Reads(e, Letter(w, pending[e]))
           /\ UNCHANGED <<phase, results, preference, asked, applied, reports, wishes, troubles>>
  <2>1. ExchangeTyped'
    BY <1>1, <1>4, ReadingTyped
  <2> QED
    BY <1>1, <1>3, <1>4, <2>1 DEF Typed, ExchangeTyped, ResultsTyped, SessionTyped, CountsTyped,
       UserTyped, sessionUnchanged, hostVars
<1>5. ASSUME NEW p \in pending[e], p.command.id = r.id, Answers(e, p, r)
      PROVE  Typed'
  <2>1. p.command \in CommandMessages
    BY <1>1 DEF Waiting
  <2>2. CASE /\ Tears(e, w, qs) /\ UNCHANGED <<preference, asked, applied, wishes, troubles>>
    <3>1. ExchangeTyped' /\ ResultsTyped' /\ SessionPart'
      BY <1>2, <2>2, TearingTyped
    <3> QED
      BY <1>1, <1>3, <2>2, <3>1 DEF Typed, ExchangeTyped, SessionPart, SessionTyped,
         CountsTyped, UserTyped, sessionUnchanged, hostVars
  <2>3. CASE /\ Reads(e, Letter(w, qs)) /\ Reported({r.id}) /\ UNCHANGED <<phase, results, applied>>
             /\ \/ /\ p.command.type \in {"Mode", "Action"}
                   /\ \E saves \in BOOLEAN :
                        Fares(saves) /\ CompleteCommand(p.command, r.arg = "ok", saves)
                \/ UNCHANGED <<asked, preference, wishes, troubles>>
    <3>1. ExchangeTyped'
      BY <1>1, <1>2, <2>3, ReadingTyped
    <3>2. reports' \in [Ids -> Nat]
      BY <2>3, ReportedTyped DEF Typed, CountsTyped
    <3>3. WishesTyped' /\ DOMAIN asked' \subseteq Ids /\ troubles' \in 0 .. MaxTroubles
      <4>1. CASE UNCHANGED <<asked, preference, wishes, troubles>>
        BY <1>1, <4>1 DEF Typed, UserTyped, WishesTyped
      <4>2. ASSUME p.command.type \in {"Mode", "Action"}, NEW saves \in BOOLEAN, Fares(saves),
                   CompleteCommand(p.command, r.arg = "ok", saves)
            PROVE  WishesTyped' /\ DOMAIN asked' \subseteq Ids /\ troubles' \in 0 .. MaxTroubles
        <5>1. (r.arg = "ok") \in BOOLEAN
          OBVIOUS
        <5>2. WishesTyped' /\ DOMAIN asked' \subseteq Ids
          BY <2>1, <4>2, <5>1, CompletionTyped
        <5>3. troubles' \in 0 .. MaxTroubles
          BY <1>1, <4>2, FaresGives, BoundAssumption
        <5> QED
          BY <5>2, <5>3
      <4> QED
        BY <2>3, <4>1, <4>2
    <3> QED
      BY <1>1, <1>3, <2>3, <3>1, <3>2, <3>3 DEF Typed, ExchangeTyped, ResultsTyped, SessionTyped,
         CountsTyped, UserTyped, WishesTyped, sessionUnchanged, hostVars
  <2> QED
    BY <1>5, <2>2, <2>3 DEF Answers
<1> QED
  BY <1>4, <1>5, ResultGives

LEMMA StatusGives ==
    ASSUME HandleStatus
    PROVE  /\ IsOpen(Controller) /\ wire[Controller] # <<>>
           /\ Head(wire[Controller]).type = "ModeState"
           /\ Reads(Controller, Letter(wire[Controlled], pending[Controller]))
           /\ seen' = IF phase[Controller] \in Live THEN Head(wire[Controller]).arg ELSE seen
           /\ UNCHANGED <<sessionUnchanged, troubles, phase, results, hostVars, preference, asked,
                          applied, history>>
<1>1. Out(Controller) = Letter(wire[Controlled], pending[Controller])
  BY TwoEnds DEF Out, Letter
<1> QED
  BY <1>1 DEF HandleStatus, Arrives

LEMMA StatusTyped ==
    ASSUME Typed, HandleStatus
    PROVE  Typed'
<1>1. Sendable(Controller, wire[Controlled], pending[Controller])
  BY OutIsSendable, TwoEnds
<1>2. ExchangeTyped'
  BY <1>1, StatusGives, ReadingTyped, TwoEnds
<1>3. seen' \in PrivacyStatuses
  <2>1. wire[Controller] # <<>> /\ wire \in [Ends -> Seq(AnyMessages)]
        /\ Head(wire[Controller]).type = "ModeState"
    BY StatusGives DEF Typed, ChannelTyped
  <2>2. Head(wire[Controller]) = wire[Controller][1] /\ 1 \in 1 .. Len(wire[Controller])
    BY <2>1, TwoEnds
  <2>3. Head(wire[Controller]) \in MessagesTo(Controller)
    BY <2>2, TwoEnds DEF Typed, ChannelTyped
  <2>4. Head(wire[Controller]).arg \in PrivacyStatuses
    BY <2>1, <2>3, TwoEnds DEF MessagesTo, EndMessages, ResultMessages, StatusMessages
  <2> QED
    BY <2>4, StatusGives DEF Typed, HostTyped
<1> QED
  BY <1>2, <1>3, StatusGives DEF Typed, ExchangeTyped, ResultsTyped, SessionTyped, CountsTyped,
     HostTyped, UserTyped, sessionUnchanged, hostVars, history

LEMMA RetryTyped ==
    ASSUME Typed, NEW e \in Ends, Retry(e)
    PROVE  Typed'
<1> DEFINE w == wire[Peer(e)]
<1>1. /\ pending \in [Ends -> SUBSET Waiting] /\ Sendable(e, w, pending[e])
      /\ UNCHANGED <<sessionUnchanged, hostVars, seen, executed, inForce, lost>>
      /\ troubles \in 0 .. MaxTroubles
  BY RetryGives, OutIsSendable DEF Typed, PendingTyped, CountsTyped
<1>2. PICK p \in pending[e] :
         /\ SecondPasses(e, p)
         /\ \/ Resends(e, p)
            \/ /\ Tears(e, w, pending[e] \ {p})
               /\ UNCHANGED <<asked, preference, applied, wishes>>
            \/ GivesUp(e, p)
  BY RetryGives
<1>3. p \in Waiting /\ p.command \in CommandMessages
      /\ (e = Controlled => p.command \in EndMessages)
  BY <1>1, TwoEnds DEF Typed, PendingTyped, Waiting
<1>4. HostTyped' /\ troubles' \in 0 .. MaxTroubles
  BY <1>1, <1>2, FaresGives, BoundAssumption DEF Typed, HostTyped, hostVars, SecondPasses
<1> DEFINE qs == pending[e] \ {p}
<1>5. Sendable(e, w, qs)
  BY <1>1, SendsLess
<1>6. CASE Resends(e, p)
  <2> DEFINE x == Append(w, p.command)
             again == [command |-> p.command, attempts |-> 2]
  <2>1. Len(w) < WireLimit /\ Len(w) \in Nat /\ w \in Seq(AnyMessages)
        /\ p.command \in AnyMessages /\ p.command \in MessagesTo(Peer(e))
    BY <1>3, <1>5, <1>6, TwoEnds DEF Resends, Sendable, AnyMessages, MessagesTo
  <2>2. x = Sent(w, <<p.command>>) /\ <<p.command>> \in Seq(AnyMessages)
        /\ \A i \in 1 .. Len(<<p.command>>) : <<p.command>>[i] \in MessagesTo(Peer(e))
    BY <2>1, SentOne
  <2>3. Sendable(e, x, qs)
    BY <1>5, <2>2, SendsMore
  <2>4. again \in Waiting /\ again.command = p.command
    BY <1>3 DEF Waiting
  <2> HIDE DEF x, again, qs
  <2>5. Sendable(e, x, qs \union {again})
    BY <1>3, <2>3, <2>4 DEF Sendable
  <2>6. wire' = [wire EXCEPT ![Peer(e)] = x] /\ pending' = [pending EXCEPT ![e] = qs \union {again}]
    BY <1>6 DEF Resends, x, again, qs
  <2>7. ExchangeTyped'
    BY <2>5, <2>6, SendingTyped
  <2> QED
    BY <1>1, <1>4, <1>6, <2>7 DEF Resends, Typed, ExchangeTyped, ResultsTyped, SessionTyped,
       CountsTyped, UserTyped, sessionUnchanged, hostVars
<1>7. CASE Tears(e, w, qs) /\ UNCHANGED <<asked, preference, applied, wishes>>
  <2>1. ExchangeTyped' /\ ResultsTyped' /\ SessionPart'
    BY <1>5, <1>7, TearingTyped
  <2> QED
    BY <1>1, <1>4, <1>7, <2>1 DEF Typed, ExchangeTyped, SessionPart, SessionTyped,
       CountsTyped, UserTyped, sessionUnchanged, hostVars
<1>8. CASE GivesUp(e, p)
  <2>1. wire' = [wire EXCEPT ![Peer(e)] = w] /\ pending' = [pending EXCEPT ![e] = qs]
    BY <1>8, TwoEnds DEF GivesUp, Typed, ChannelTyped
  <2>2. ExchangeTyped'
    BY <1>5, <2>1, SendingTyped
  <2>3. WishesTyped' /\ DOMAIN asked' \subseteq Ids /\ reports' \in [Ids -> Nat]
    BY <1>3, <1>8, FailureTyped, ReportedTyped DEF GivesUp, Typed, CountsTyped
  <2> QED
    BY <1>1, <1>4, <1>8, <2>2, <2>3 DEF GivesUp, Typed, ExchangeTyped, ResultsTyped, SessionTyped,
       CountsTyped, UserTyped, WishesTyped, sessionUnchanged, hostVars
<1> QED
  BY <1>2, <1>6, <1>7, <1>8

LEMMA TimeoutTyped ==
    ASSUME Typed, NEW e \in Ends, Timeout(e)
    PROVE  Typed'
<1> DEFINE w == wire[Peer(e)]
<1>1. /\ pending \in [Ends -> SUBSET Waiting] /\ Sendable(e, w, pending[e])
      /\ UNCHANGED <<sessionUnchanged, emergency, action, locks, seen, executed, inForce, lost>>
      /\ troubles \in 0 .. MaxTroubles
  BY TimeoutGives, OutIsSendable DEF Typed, PendingTyped, CountsTyped
<1>2. PICK p \in pending[e] :
         /\ SecondPasses(e, p)
         /\ \/ /\ Tears(e, w, pending[e] \ {p})
               /\ UNCHANGED <<privacy, screen, asked, applied, preference, wishes>>
            \/ /\ UNCHANGED <<privacy, screen>>
               /\ Sends(e, Letter(w, pending[e] \ {p}))
               /\ Reported({p.command.id}) /\ Fails(p.command)
               /\ UNCHANGED <<phase, results, applied>>
            \/ /\ FinishSession(e, Letter(w, pending[e]), FALSE)
               /\ UNCHANGED <<preference, wishes>>
  BY TimeoutGives
<1>3. p.command \in CommandMessages
  BY <1>1 DEF Waiting
<1>4. troubles' \in 0 .. MaxTroubles
  BY <1>1, <1>2, FaresGives, BoundAssumption DEF SecondPasses
<1> DEFINE qs == pending[e] \ {p}
<1>5. Sendable(e, w, qs)
  BY <1>1, SendsLess
<1>6. CASE /\ Tears(e, w, qs)
           /\ UNCHANGED <<privacy, screen, asked, applied, preference, wishes>>
  <2>1. ExchangeTyped' /\ ResultsTyped' /\ SessionPart'
    BY <1>5, <1>6, TearingTyped
  <2> QED
    BY <1>1, <1>4, <1>6, <2>1 DEF Typed, ExchangeTyped, SessionPart, SessionTyped,
       CountsTyped, UserTyped, HostTyped, sessionUnchanged
<1>7. CASE /\ UNCHANGED <<privacy, screen>>
           /\ Sends(e, Letter(w, qs))
           /\ Reported({p.command.id}) /\ Fails(p.command)
           /\ UNCHANGED <<phase, results, applied>>
  <2>1. wire' = [wire EXCEPT ![Peer(e)] = w] /\ pending' = [pending EXCEPT ![e] = qs]
    BY <1>7, SendsGives
  <2>2. ExchangeTyped'
    BY <1>5, <2>1, SendingTyped
  <2>3. WishesTyped' /\ DOMAIN asked' \subseteq Ids /\ reports' \in [Ids -> Nat]
    BY <1>3, <1>7, FailureTyped, ReportedTyped DEF Typed, CountsTyped
  <2> QED
    BY <1>1, <1>4, <1>7, <2>2, <2>3 DEF Typed, ExchangeTyped, ResultsTyped, SessionTyped,
       CountsTyped, UserTyped, WishesTyped, HostTyped, sessionUnchanged
<1>8. CASE /\ FinishSession(e, Letter(w, pending[e]), FALSE)
           /\ UNCHANGED <<preference, wishes>>
  <2>1. ExchangeTyped' /\ ResultsTyped' /\ SessionPart' /\ HostPart' /\ AskedPart'
    BY <1>1, <1>8, FinishTyped
  <2> QED
    BY <1>1, <1>4, <1>8, <2>1 DEF Typed, ExchangeTyped, SessionPart, SessionTyped, HostPart,
       AskedPart, CountsTyped, UserTyped, HostTyped, Screens, sessionUnchanged
<1> QED
  BY <1>2, <1>6, <1>7, <1>8

Ending(e) == UserStop(e) \/ ConnectionEnds(e) \/ ChannelCloses(e)

LEMMA EndingGives ==
    ASSUME Typed, NEW e \in Ends, Ending(e)
    PROVE  /\ UNCHANGED <<endUnchanged, troubles>>
           /\ \/ /\ phase[e] = "Stopping" /\ Tears(e, wire[Peer(e)], pending[e])
                 /\ UNCHANGED <<privacy, screen, asked, applied>>
              \/ /\ phase[e] \in Live
                 /\ \E notify \in BOOLEAN : FinishSession(e, Letter(wire[Peer(e)], pending[e]), notify)
<1>1. Out(e) = Letter(wire[Peer(e)], pending[e])
  BY DEF Out, Letter
<1>2. phase[e] \in Phases
  BY DEF Typed, SessionTyped
<1>3. CASE UserStop(e)
  BY <1>1, <1>3 DEF UserStop
<1>4. CASE ConnectionEnds(e)
  BY <1>1, <1>4 DEF ConnectionEnds, Live
<1>5. CASE ChannelCloses(e)
  <2>1. CASE phase[e] = "Stopping"
    BY <1>1, <1>5, <2>1, TeardownTears DEF ChannelCloses
  <2>2. CASE phase[e] # "Stopping"
    BY <1>1, <1>2, <1>5, <2>2 DEF ChannelCloses, IsOpen, Live, Phases
  <2> QED
    BY <2>1, <2>2
<1> QED
  BY <1>3, <1>4, <1>5 DEF Ending

LEMMA EndingTyped ==
    ASSUME Typed, NEW e \in Ends, Ending(e)
    PROVE  Typed'
<1>1. UNCHANGED <<endUnchanged, troubles>> /\ Sendable(e, wire[Peer(e)], pending[e])
  BY EndingGives, OutIsSendable
<1>2. CASE /\ Tears(e, wire[Peer(e)], pending[e])
           /\ UNCHANGED <<privacy, screen, asked, applied>>
  <2>1. ExchangeTyped' /\ ResultsTyped' /\ SessionPart'
    BY <1>1, <1>2, TearingTyped
  <2> QED
    BY <1>1, <1>2, <2>1 DEF Typed, ExchangeTyped, SessionPart, SessionTyped,
       CountsTyped, UserTyped, HostTyped, endUnchanged
<1>3. ASSUME NEW notify, FinishSession(e, Letter(wire[Peer(e)], pending[e]), notify)
      PROVE  Typed'
  <2>1. ExchangeTyped' /\ ResultsTyped' /\ SessionPart' /\ HostPart' /\ AskedPart'
    BY <1>1, <1>3, FinishTyped
  <2> QED
    BY <1>1, <2>1 DEF Typed, ExchangeTyped, SessionPart, SessionTyped, HostPart,
       AskedPart, CountsTyped, UserTyped, HostTyped, Screens, endUnchanged
<1> QED
  BY <1>2, <1>3, EndingGives

LEMMA StartTyped ==
    ASSUME Typed, StartSession
    PROVE  Typed'
<1>1. <<>> \in Seq(AnyMessages) /\ Len(<<>>) = 0
  OBVIOUS
<1>2. ChannelTyped'
  BY <1>1, BoundAssumption DEF StartSession, ChannelTyped
<1>3. HostTyped'
  <2>1. PICK wakes \in BOOLEAN : screen' = [overlay |-> FALSE, off |-> screen.off /\ ~wakes]
    BY DEF StartSession
  <2>2. (screen.off /\ ~wakes) \in BOOLEAN
    OBVIOUS
  <2>3. screen' \in [overlay : BOOLEAN, off : BOOLEAN]
    BY <2>1, <2>2
  <2>4. privacy' \in PrivacyStatuses /\ seen' \in PrivacyStatuses
    BY DEF StartSession, NewPrivacy, PrivacyStatuses, Modes
  <2>5. action' \in [armed : Actions, streamed : BOOLEAN, consumed : BOOLEAN]
    BY DEF StartSession, Actions
  <2> QED
    BY <2>3, <2>4, <2>5 DEF StartSession, Typed, HostTyped
<1>4. SessionTyped' /\ CountsTyped'
  BY BoundAssumption DEF StartSession, Typed, SessionTyped, CountsTyped, Phases
<1>5. UserTyped'
  <2>1. NoWishes \in [asked : 0 .. MaxCommands, confirmed : 0 .. MaxCommands, arg : Actions,
                      streamed : BOOLEAN]
    BY BoundAssumption DEF NoWishes, EndId, Actions
  <2>2. DOMAIN NoAsked = {}
    BY DEF NoAsked
  <2> QED
    BY <2>1, <2>2 DEF StartSession, Typed, UserTyped
<1> QED
  BY <1>2, <1>3, <1>4, <1>5 DEF StartSession, Typed, PendingTyped, ResultsTyped

\* What the connection does, and the people and screens at the host.
Local ==
    \/ \E e \in Ends : FinishStopping(e) \/ Interrupted(e) \/ Restored(e)
    \/ PressEmergencyRestore
    \/ TopologyChanges

LEMMA LocalTyped ==
    ASSUME Typed, Local
    PROVE  Typed'
<1>1. CASE \E e \in Ends : FinishStopping(e)
  <2>1. PICK e \in Ends : FinishStopping(e)
    BY <1>1
  <2>2. locks' \in [1 .. MaxSessions -> Nat]
    <3>1. locks' = locks \/ locks' = [locks EXCEPT ![session] = @ + 1]
      BY <2>1 DEF FinishStopping
    <3>2. locks \in [1 .. MaxSessions -> Nat]
      BY DEF Typed, CountsTyped
    <3> QED
      BY <3>1, <3>2
  <2>3. action' \in [armed : Actions, streamed : BOOLEAN, consumed : BOOLEAN]
    BY <2>1 DEF FinishStopping, Typed, HostTyped, Actions
  <2>4. phase' \in [Ends -> Phases]
    BY <2>1 DEF FinishStopping, Typed, SessionTyped, Phases
  <2> QED
    BY <2>1, <2>2, <2>3, <2>4 DEF FinishStopping, Typed, ChannelTyped, PendingTyped, ResultsTyped,
       SessionTyped, CountsTyped, HostTyped, UserTyped, userVars, history
<1>2. CASE \E e \in Ends : Interrupted(e)
  <2>1. PICK e \in Ends : Interrupted(e)
    BY <1>2
  <2>2. SessionTyped' /\ troubles' \in 0 .. MaxTroubles
    BY <2>1, BoundAssumption DEF Interrupted, Typed, SessionTyped, CountsTyped, Phases
  <2> QED
    BY <2>1, <2>2 DEF Interrupted, Typed, ChannelTyped, PendingTyped, ResultsTyped, CountsTyped,
       HostTyped, UserTyped, hostVars, userVars, history
<1>3. CASE \E e \in Ends : Restored(e)
  <2>1. PICK e \in Ends : Restored(e)
    BY <1>3
  <2>2. SessionTyped'
    BY <2>1 DEF Restored, Typed, SessionTyped, Phases
  <2> QED
    BY <2>1, <2>2 DEF Restored, Typed, ChannelTyped, PendingTyped, ResultsTyped, CountsTyped,
       HostTyped, UserTyped, hostVars, userVars, history
<1>4. CASE PressEmergencyRestore
  BY <1>4, BoundAssumption DEF PressEmergencyRestore, Typed, ChannelTyped, PendingTyped,
     ResultsTyped, SessionTyped, CountsTyped, HostTyped, UserTyped, localUnchanged, userVars
<1>5. CASE TopologyChanges
  <2>1. screen' = [screen EXCEPT !.overlay = FALSE] /\ troubles' = troubles + 1
        /\ troubles < MaxTroubles /\ emergency' = TRUE
        /\ UNCHANGED <<localUnchanged, wire, privacy, lost>>
    BY <1>5 DEF TopologyChanges
  <2>2. screen' \in [overlay : BOOLEAN, off : BOOLEAN]
    BY <2>1 DEF Typed, HostTyped
  <2>3. troubles' \in 0 .. MaxTroubles
    BY <2>1, BoundAssumption DEF Typed, CountsTyped
  <2> QED
    BY <2>1, <2>2, <2>3 DEF Typed, ChannelTyped, PendingTyped,
       ResultsTyped, SessionTyped, CountsTyped, HostTyped, UserTyped, localUnchanged, userVars
<1> QED
  BY <1>1, <1>2, <1>3, <1>4, <1>5 DEF Local

LEMMA EmergencyTyped ==
    ASSUME Typed, HandleEmergencyRestore
    PROVE  Typed'
<1>1. emergency' = FALSE /\ UNCHANGED <<localUnchanged, troubles>>
  BY EmergencyGives
<1>2. CASE UNCHANGED <<privacy, screen, wire, lost>>
  BY <1>1, <1>2 DEF Typed, ChannelTyped, PendingTyped, ResultsTyped, SessionTyped, CountsTyped,
     HostTyped, UserTyped, localUnchanged, userVars
<1>3. ASSUME NEW x, Restores(x) PROVE Typed'
  <2>1. PICK wakes \in BOOLEAN :
          LET h == Reset(Host, wakes)
              says == IF phase[Controlled] \in Live THEN h.says ELSE <<>>
          IN /\ privacy' = h.privacy /\ screen' = h.screen
             /\ x = Sent(wire[Controller], says)
             /\ wire' = [wire EXCEPT ![Controller] = x]
             /\ lost' = (lost \/ Len(x) - Len(wire[Controller]) < Len(says))
    BY <1>3 DEF Restores
  <2> DEFINE p == [state |-> IF wakes THEN "Inactive" ELSE "Failed", effective |-> "disabled"]
             says == IF phase[Controlled] \in Live THEN <<Status(p)>> ELSE <<>>
  <2>2. Reset(Host, wakes) =
          HostState(p, [overlay |-> FALSE, off |-> screen.off /\ ~wakes], <<Status(p)>>)
    BY Resets DEF Typed
  <2>3. p \in PrivacyStatuses
    BY DEF PrivacyStatuses, Modes
  <2>4. Status(p) \in StatusMessages
    BY <2>3 DEF Status, StatusMessages
  <2> HIDE DEF p
  <2>5. says \in Seq(AnyMessages) /\ \A i \in 1 .. Len(says) : says[i] \in MessagesTo(Controller)
    <3>1. Status(p) \in AnyMessages /\ Status(p) \in MessagesTo(Controller)
      BY <2>4, TwoEnds DEF AnyMessages, MessagesTo
    <3> QED
      BY <3>1
  <2>6. x = Sent(wire[Controller], says) /\ privacy' = p
        /\ screen' = [overlay |-> FALSE, off |-> screen.off /\ ~wakes]
        /\ lost' \in BOOLEAN
    BY <2>1, <2>2 DEF HostState, Typed, HostTyped
  <2> HIDE DEF says
  <2>7. Sendable(Controlled, x, pending[Controlled])
    <3>1. Sendable(Controlled, wire[Controller], pending[Controlled])
      BY OutIsSendable, TwoEnds
    <3> QED
      BY <2>5, <2>6, <3>1, SendsMore, TwoEnds
  <2>8. wire' = [wire EXCEPT ![Peer(Controlled)] = x]
        /\ pending' = [pending EXCEPT ![Controlled] = pending[Controlled]]
    BY <1>1, <2>1, TwoEnds DEF localUnchanged, Typed, PendingTyped
  <2>9. ExchangeTyped'
    BY <2>7, <2>8, SendingTyped, TwoEnds
  <2>10. HostTyped'
    BY <1>1, <2>3, <2>6 DEF Typed, HostTyped, localUnchanged, userVars
  <2> QED
    BY <1>1, <2>9, <2>10 DEF Typed, ExchangeTyped, ResultsTyped, SessionTyped, CountsTyped,
       UserTyped, localUnchanged, userVars
<1> QED
  BY <1>2, <1>3, EmergencyGives

LEMMA Steps ==
    Next <=> \/ StartSession \/ Requests \/ Local \/ HandleEmergencyRestore
             \/ Execute \/ HandleStatus
             \/ \E e \in Ends : \/ RepeatResult(e) \/ ExecuteEnd(e) \/ HandleResult(e)
                                \/ Retry(e) \/ Timeout(e) \/ Ending(e)
BY TwoEnds DEF Next, Requests, Local, Ending, Reading

LEMMA InitTyped == Init => Typed
<1> SUFFICES ASSUME Init PROVE Typed
  OBVIOUS
<1>1. <<>> \in Seq(AnyMessages) /\ <<>> \in Seq(ResultMessages) /\ Len(<<>>) = 0
  OBVIOUS
<1>2. ChannelTyped /\ PendingTyped /\ ResultsTyped
  BY <1>1, BoundAssumption, TwoEnds DEF Init, ChannelTyped, PendingTyped, ResultsTyped
<1>3. SessionTyped /\ CountsTyped
  BY BoundAssumption DEF Init, SessionTyped, CountsTyped, Phases, Ids
<1>4. HostTyped
  BY DEF Init, HostTyped, NewPrivacy, PrivacyStatuses, NoScreen, Modes, Actions
<1>5. UserTyped
  <2>1. NoWishes \in [asked : 0 .. MaxCommands, confirmed : 0 .. MaxCommands, arg : Actions,
                      streamed : BOOLEAN]
    BY BoundAssumption DEF NoWishes, EndId, Actions
  <2>2. DOMAIN NoAsked = {}
    BY DEF NoAsked
  <2>3. preference \in [mode : Modes, action : Actions]
    BY DEF Init, Modes, Actions
  <2> QED
    BY <2>1, <2>2, <2>3 DEF Init, UserTyped
<1> QED
  BY <1>2, <1>3, <1>4, <1>5 DEF Typed

------------------------------------------------------------------------------
(* Who waits.                                                                *)

\* But for the ends, the commands that wait after a step are those that waited
\* before and are not reported, the ids S.
WaitsOn(S) ==
    /\ nextId' = nextId /\ Reported(S)
    /\ \A p \in pending'[Controller] :
          \/ p.command.id = EndId
          \/ \E q \in pending[Controller] :
                \/ q = p
                \/ q.command = p.command /\ p.attempts = 2 /\ q \notin pending'[Controller]
    /\ \A k \in Ids : k \in S => Waits(Controller, k)
    /\ \A k \in Ids : (\E p \in pending'[Controller] : p.command.id = k)
                        <=> Waits(Controller, k) /\ k \notin S

LEMMA NothingReported ==
    ASSUME reports \in [Ids -> Nat], reports' = reports
    PROVE  Reported({})
<1>1. \A id \in Ids : reports[id] + (IF id \in {} THEN 1 ELSE 0) = reports[id]
  OBVIOUS
<1> QED
  BY <1>1 DEF Reported

LEMMA SameWait ==
    ASSUME Typed, nextId' = nextId, reports' = reports,
           pending'[Controller] = pending[Controller]
    PROVE  WaitsOn({})
<1>1. Reported({})
  BY NothingReported DEF Typed, CountsTyped
<1> QED
  BY <1>1 DEF WaitsOn, Waits

LEMMA TearingWaits ==
    ASSUME Typed, NEW e \in Ends, NEW v, NEW ps \in SUBSET pending[e], Tears(e, v, ps),
           \A p \in pending[e] : p \in ps \/ p.command.id = EndId, nextId' = nextId
    PROVE  \E S : WaitsOn(S)
<1> DEFINE S == {p.command.id : p \in ps}
<1>1. Reported(S) /\ pending' = [pending EXCEPT ![e] = {}] /\ pending \in [Ends -> SUBSET Waiting]
  BY DEF Tears, Typed, PendingTyped
<1>2. EndId \notin Ids
  BY DEF EndId, Ids
<1>3. CASE e = Controller
  <2>1. pending'[Controller] = {}
    BY <1>1, <1>3, TwoEnds
  <2>2. \A k \in Ids : k \in S => Waits(Controller, k)
    BY <1>3 DEF Waits
  <2>3. \A k \in Ids : Waits(Controller, k) => k \in S
    BY <1>2, <1>3 DEF Waits
  <2> HIDE DEF S
  <2>4. WaitsOn(S)
    BY <1>1, <2>1, <2>2, <2>3 DEF WaitsOn
  <2> QED
    BY <2>4
<1>4. CASE e = Controlled
  <2>1. pending'[Controller] = pending[Controller]
    BY <1>1, <1>4, TwoEnds
  <2>2. S \subseteq {EndId}
    BY <1>4 DEF Typed, PendingTyped, EndMessages, CommandMessages
  <2>3. \A k \in Ids : k \notin S
    BY <1>2, <2>2
  <2> HIDE DEF S
  <2>4. WaitsOn(S)
    BY <1>1, <2>1, <2>3 DEF WaitsOn, Waits
  <2> QED
    BY <2>4
<1> QED
  BY <1>3, <1>4, TwoEnds

LEMMA StoppingWaits ==
    ASSUME Typed, NEW e \in Ends, NEW v, Stops(e, v, pending[e]), nextId' = nextId
    PROVE  WaitsOn({})
<1> DEFINE p0 == [command |-> EndCommand, attempts |-> 1]
<1>1. pending' = [pending EXCEPT ![e] = pending[e] \union {p0}]
      /\ pending \in [Ends -> SUBSET Waiting] /\ reports' = reports
  BY DEF Stops, Typed, PendingTyped
<1>2. p0.command.id = EndId /\ EndId \notin Ids
  BY DEF EndCommand, Command, EndId, Ids
<1> HIDE DEF p0
<1>3. Reported({})
  BY <1>1, NothingReported DEF Typed, CountsTyped
<1>4. CASE e = Controller
  <2>1. pending'[Controller] = pending[Controller] \union {p0}
    BY <1>1, <1>4
  <2> QED
    BY <1>2, <1>3, <2>1 DEF WaitsOn, Waits
<1>5. CASE e = Controlled
  <2>1. pending'[Controller] = pending[Controller]
    BY <1>1, <1>5, TwoEnds
  <2> QED
    BY <1>1, <2>1, SameWait
<1> QED
  BY <1>4, <1>5, TwoEnds

\* The commands with the id k no longer wait, and that is reported.
LEMMA ForgettingWaits ==
    ASSUME Typed, NEW e \in Ends, NEW k, Reported({k}), nextId' = nextId,
           \E p \in pending[e] : p.command.id = k,
           pending' = [pending EXCEPT ![e] = {p \in pending[e] : p.command.id # k}]
    PROVE  WaitsOn({k})
<1>1. pending \in [Ends -> SUBSET Waiting]
  BY DEF Typed, PendingTyped
<1>2. CASE e = Controller
  BY <1>1, <1>2, TwoEnds DEF WaitsOn, Waits
<1>3. CASE e = Controlled
  <2>1. k \notin Ids
    BY <1>3 DEF Typed, PendingTyped, EndMessages, CommandMessages, EndId, Ids
  <2>2. pending'[Controller] = pending[Controller]
    BY <1>1, <1>3, TwoEnds
  <2> QED
    BY <2>1, <2>2 DEF WaitsOn, Waits
<1> QED
  BY <1>2, <1>3, TwoEnds

LEMMA GivingUpWaits ==
    ASSUME Typed, OneEach, NEW e \in Ends, NEW p \in pending[e], p.command.type # "End",
           Reported({p.command.id}), nextId' = nextId,
           pending' = [pending EXCEPT ![e] = pending[e] \ {p}]
    PROVE  WaitsOn({p.command.id})
<1>1. pending \in [Ends -> SUBSET Waiting] /\ p.command \in CommandMessages
  BY DEF Typed, PendingTyped, Waiting
<1>2. e = Controller /\ p.command.id # EndId
  BY <1>1, TwoEnds DEF Typed, PendingTyped, EndMessages, CommandMessages
<1>3. pending[e] \ {p} = {q \in pending[e] : q.command.id # p.command.id}
  BY <1>2 DEF OneEach
<1> QED
  BY <1>3, ForgettingWaits

LEMMA ResendingWaits ==
    ASSUME Typed, NEW e \in Ends, NEW p \in pending[e], p.attempts = 1, nextId' = nextId,
           Resends(e, p)
    PROVE  WaitsOn({})
<1> DEFINE again == [command |-> p.command, attempts |-> 2]
<1>1. pending \in [Ends -> SUBSET Waiting] /\ reports' = reports
      /\ pending' = [pending EXCEPT ![e] = (pending[e] \ {p}) \union {again}]
  BY DEF Typed, PendingTyped, Resends
<1>2. again.command = p.command /\ again.attempts = 2 /\ again # p
  OBVIOUS
<1> HIDE DEF again
<1>3. Reported({})
  BY <1>1, NothingReported DEF Typed, CountsTyped
<1>4. CASE e = Controller
  <2>1. pending'[Controller] = (pending[Controller] \ {p}) \union {again}
    BY <1>1, <1>4
  <2>2. p \notin pending'[Controller]
    BY <1>2, <2>1
  <2> QED
    BY <1>2, <1>3, <1>4, <2>1, <2>2 DEF WaitsOn, Waits
<1>5. CASE e = Controlled
  <2>1. pending'[Controller] = pending[Controller]
    BY <1>1, <1>5, TwoEnds
  <2> QED
    BY <1>1, <2>1, SameWait
<1> QED
  BY <1>4, <1>5, TwoEnds

\* An end is waited for, and its wait reported, in order.
Kept == EndsInOrder' /\ \E S : WaitsOn(S)

\* The commands that wait stay the same, and no end starts or stops waiting
\* for the other to stop.
LEMMA CalmKeeps ==
    ASSUME Typed, EndsInOrder, nextId' = nextId, reports' = reports,
           \A f \in Ends : pending'[f] = pending[f],
           \A f \in Ends : phase'[f] = phase[f]
              \/ (phase[f] # "Stopping" /\ (phase'[f] \in Live \/ ~IsOpen(f))),
           \A f \in Ends : results'[f] = results[f]
              \/ (IsOpen(f) /\ phase'[f] \notin {"Down", "Tearing"})
    PROVE  Kept
<1>1. WaitsOn({})
  BY SameWait, TwoEnds
<1>2. EndsInOrder'
  BY DEF EndsInOrder, IsOpen, Live
<1> QED
  BY <1>1, <1>2 DEF Kept

\* A command that waits after a step in which neither end changes its state
\* waited before.
LEMMA ExchangeKeeps ==
    ASSUME EndsInOrder, NEW S, WaitsOn(S), phase' = phase, results' = results,
           \A f \in Ends : \A p \in pending'[f] : \E q \in pending[f] : q.command = p.command
    PROVE  Kept
<1>1. EndsInOrder'
  BY DEF EndsInOrder, IsOpen
<1> QED
  BY <1>1 DEF Kept

LEMMA TearingKeeps ==
    ASSUME Typed, EndsInOrder, NEW e \in Ends, NEW v, NEW ps \in SUBSET pending[e],
           Tears(e, v, ps), \A p \in pending[e] : p \in ps \/ p.command.id = EndId,
           nextId' = nextId
    PROVE  Kept
<1>1. \E S : WaitsOn(S)
  BY TearingWaits
<1>2. EndsInOrder'
  BY DEF Typed, SessionTyped, PendingTyped, ResultsTyped, EndsInOrder, IsOpen, Tears
<1> QED
  BY <1>1, <1>2 DEF Kept

LEMMA StoppingKeeps ==
    ASSUME Typed, EndsInOrder, NEW e \in Ends, NEW v, Stops(e, v, pending[e]), nextId' = nextId
    PROVE  Kept
<1>1. \E S : WaitsOn(S)
  BY StoppingWaits
<1>2. EndsInOrder'
  BY DEF Typed, SessionTyped, PendingTyped, ResultsTyped, EndsInOrder, IsOpen, Stops
<1> QED
  BY <1>1, <1>2 DEF Kept

LEMMA FinishKeeps ==
    ASSUME Typed, EndsInOrder, NEW e \in Ends, NEW v, NEW notify,
           Sendable(e, v, pending[e]), FinishSession(e, Letter(v, pending[e]), notify),
           nextId' = nextId
    PROVE  Kept
<1>1. Stops(e, v, pending[e]) \/ Tears(e, v, pending[e])
  BY FinishGives
<1> QED
  BY <1>1, StoppingKeeps, TearingKeeps

LEMMA EndingKeeps ==
    ASSUME Typed, EndsInOrder, NEW e \in Ends, Ending(e)
    PROVE  Kept
<1>1. nextId' = nextId /\ Sendable(e, wire[Peer(e)], pending[e])
  BY EndingGives, OutIsSendable DEF endUnchanged
<1> QED
  BY <1>1, EndingGives, TearingKeeps, FinishKeeps

LEMMA EndKeeps ==
    ASSUME Typed, EndsInOrder, NEW e \in Ends, ExecuteEnd(e)
    PROVE  Kept
<1> DEFINE r == Result(EndId, TRUE)
           x == Sent(wire[Peer(e)], <<r>>)
<1>1. r \in ResultMessages
  <2>1. EndId \in 0 .. MaxCommands
    BY BoundAssumption DEF EndId
  <2> QED
    BY <2>1, ResultTyped
<1>2. Sendable(e, x, pending[e])
  BY <1>1, OutIsSendable, ResultIsMessage, SendsMore, TwoEnds
<1>3. /\ IsOpen(e) /\ UNCHANGED endUnchanged
      /\ \/ /\ Reads(e, Letter(x, pending[e]))
            /\ results' = [results EXCEPT ![e] = RememberCommandResult(results[e], r)]
            /\ UNCHANGED <<phase, reports>>
         \/ FinishSession(e, Letter(x, pending[e]), FALSE)
  BY EndGives
<1>4. nextId' = nextId
  BY <1>3 DEF endUnchanged
<1> HIDE DEF x, r
<1>5. CASE FinishSession(e, Letter(x, pending[e]), FALSE)
  BY <1>2, <1>4, <1>5, FinishKeeps
<1>6. CASE /\ Reads(e, Letter(x, pending[e]))
           /\ results' = [results EXCEPT ![e] = RememberCommandResult(results[e], r)]
           /\ UNCHANGED <<phase, reports>>
  <2>1. pending' = [pending EXCEPT ![e] = pending[e]]
    BY <1>6 DEF Reads, Letter
  <2>2. \A f \in Ends : pending'[f] = pending[f] /\ (results'[f] = results[f] \/ f = e)
    BY <1>6, <2>1 DEF Typed, PendingTyped, ResultsTyped
  <2> QED
    BY <1>3, <1>4, <1>6, <2>2, CalmKeeps DEF IsOpen
<1> QED
  BY <1>3, <1>5, <1>6

LEMMA ResultKeeps ==
    ASSUME Typed, EndsInOrder, NEW e \in Ends, HandleResult(e)
    PROVE  Kept
<1> DEFINE r == Head(wire[e])
           w == wire[Peer(e)]
           qs == Forget(pending[e], r.id)
<1>1. nextId' = nextId /\ pending \in [Ends -> SUBSET Waiting]
  BY ResultGives DEF sessionUnchanged, Typed, PendingTyped
<1>2. CASE Reads(e, Letter(w, pending[e])) /\ UNCHANGED <<phase, results, reports>>
  <2>1. pending' = [pending EXCEPT ![e] = pending[e]]
    BY <1>2 DEF Reads, Letter
  <2> QED
    BY <1>1, <1>2, <2>1, CalmKeeps
<1>3. ASSUME NEW p \in pending[e], p.command.id = r.id, Answers(e, p, r)
      PROVE  Kept
  <2>1. p.command \in CommandMessages
    BY <1>1 DEF Waiting
  <2>2. CASE p.command.type = "End" /\ Tears(e, w, qs)
    <3>1. r.id = EndId
      BY <1>3, <2>1, <2>2 DEF CommandMessages
    <3>2. qs \in SUBSET pending[e] /\ \A q \in pending[e] : q \in qs \/ q.command.id = EndId
      BY <3>1 DEF Forget
    <3> HIDE DEF qs
    <3> QED
      BY <1>1, <2>2, <3>2, TearingKeeps
  <2>3. CASE /\ Reads(e, Letter(w, qs)) /\ Reported({r.id}) /\ UNCHANGED <<phase, results>>
    <3>1. pending' = [pending EXCEPT ![e] = {q \in pending[e] : q.command.id # r.id}]
      BY <2>3 DEF Reads, Letter, Forget
    <3>2. WaitsOn({r.id})
      BY <1>1, <1>3, <2>3, <3>1, ForgettingWaits
    <3>3. \A f \in Ends : \A q \in pending'[f] : \E h \in pending[f] : h.command = q.command
      BY <1>1, <3>1
    <3> QED
      BY <2>3, <3>2, <3>3, ExchangeKeeps
  <2> QED
    BY <1>3, <2>2, <2>3 DEF Answers
<1> QED
  BY <1>2, <1>3, ResultGives

LEMMA RetryKeeps ==
    ASSUME Typed, EndsInOrder, OneEach, NEW e \in Ends, Retry(e)
    PROVE  Kept
<1> DEFINE w == wire[Peer(e)]
<1>1. nextId' = nextId /\ pending \in [Ends -> SUBSET Waiting]
  BY RetryGives DEF sessionUnchanged, Typed, PendingTyped
<1>2. PICK p \in pending[e] :
         /\ p.attempts = 1
         /\ \/ Resends(e, p)
            \/ p.command.type = "End" /\ Tears(e, w, pending[e] \ {p})
            \/ p.command.type # "End" /\ GivesUp(e, p)
  BY RetryGives
<1>3. p.command \in CommandMessages
  BY <1>1 DEF Waiting
<1>4. CASE Resends(e, p)
  <2>1. WaitsOn({})
    BY <1>1, <1>2, <1>4, ResendingWaits
  <2>2. \A f \in Ends : \A q \in pending'[f] : \E h \in pending[f] : h.command = q.command
    BY <1>1, <1>4 DEF Resends
  <2> QED
    BY <1>4, <2>1, <2>2, ExchangeKeeps DEF Resends
<1>5. CASE p.command.type = "End" /\ Tears(e, w, pending[e] \ {p})
  <2>1. p.command.id = EndId
    BY <1>3, <1>5 DEF CommandMessages
  <2>2. pending[e] \ {p} \in SUBSET pending[e]
        /\ \A q \in pending[e] : q \in pending[e] \ {p} \/ q.command.id = EndId
    BY <2>1
  <2> QED
    BY <1>1, <1>5, <2>2, TearingKeeps
<1>6. CASE p.command.type # "End" /\ GivesUp(e, p)
  <2>1. pending' = [pending EXCEPT ![e] = pending[e] \ {p}] /\ Reported({p.command.id})
        /\ UNCHANGED <<phase, results>>
    BY <1>6 DEF GivesUp
  <2>2. WaitsOn({p.command.id})
    BY <1>1, <1>6, <2>1, GivingUpWaits
  <2>3. \A f \in Ends : \A q \in pending'[f] : \E h \in pending[f] : h.command = q.command
    BY <1>1, <2>1
  <2> QED
    BY <2>1, <2>2, <2>3, ExchangeKeeps
<1> QED
  BY <1>2, <1>4, <1>5, <1>6

LEMMA TimeoutKeeps ==
    ASSUME Typed, EndsInOrder, OneEach, NEW e \in Ends, Timeout(e)
    PROVE  Kept
<1> DEFINE w == wire[Peer(e)]
<1>1. nextId' = nextId /\ pending \in [Ends -> SUBSET Waiting] /\ Sendable(e, w, pending[e])
  BY TimeoutGives, OutIsSendable DEF sessionUnchanged, Typed, PendingTyped
<1>2. PICK p \in pending[e] :
         \/ p.command.type = "End" /\ Tears(e, w, pending[e] \ {p})
         \/ /\ p.command.type # "End"
            /\ Sends(e, Letter(w, pending[e] \ {p}))
            /\ Reported({p.command.id}) /\ UNCHANGED <<phase, results>>
         \/ FinishSession(e, Letter(w, pending[e]), FALSE)
  BY TimeoutGives
<1>3. p.command \in CommandMessages
  BY <1>1 DEF Waiting
<1>4. CASE p.command.type = "End" /\ Tears(e, w, pending[e] \ {p})
  <2>1. p.command.id = EndId
    BY <1>3, <1>4 DEF CommandMessages
  <2>2. pending[e] \ {p} \in SUBSET pending[e]
        /\ \A q \in pending[e] : q \in pending[e] \ {p} \/ q.command.id = EndId
    BY <2>1
  <2> QED
    BY <1>1, <1>4, <2>2, TearingKeeps
<1>5. CASE /\ p.command.type # "End"
           /\ Sends(e, Letter(w, pending[e] \ {p}))
           /\ Reported({p.command.id}) /\ UNCHANGED <<phase, results>>
  <2>1. pending' = [pending EXCEPT ![e] = pending[e] \ {p}]
    BY <1>5, SendsGives
  <2>2. WaitsOn({p.command.id})
    BY <1>1, <1>5, <2>1, GivingUpWaits
  <2>3. \A f \in Ends : \A q \in pending'[f] : \E h \in pending[f] : h.command = q.command
    BY <1>1, <2>1
  <2> QED
    BY <1>5, <2>2, <2>3, ExchangeKeeps
<1>6. CASE FinishSession(e, Letter(w, pending[e]), FALSE)
  BY <1>1, <1>6, FinishKeeps
<1> QED
  BY <1>2, <1>4, <1>5, <1>6

LEMMA RepeatKeeps ==
    ASSUME Typed, EndsInOrder, NEW e \in Ends, RepeatResult(e)
    PROVE  Kept
<1>1. PICK j \in DOMAIN results[e] :
         Reads(e, Letter(Sent(wire[Peer(e)], <<results[e][j]>>), pending[e]))
  BY RepeatGives
<1>2. pending' = [pending EXCEPT ![e] = pending[e]]
  BY <1>1 DEF Reads, Letter
<1>3. nextId' = nextId /\ reports' = reports /\ phase' = phase /\ results' = results
  BY RepeatGives DEF sessionUnchanged, history
<1>4. \A f \in Ends : pending'[f] = pending[f]
  BY <1>2 DEF Typed, PendingTyped
<1> QED
  BY <1>3, <1>4, CalmKeeps

LEMMA StatusKeeps ==
    ASSUME Typed, EndsInOrder, HandleStatus
    PROVE  Kept
<1>1. pending' = [pending EXCEPT ![Controller] = pending[Controller]]
  BY StatusGives DEF Reads, Letter
<1>2. nextId' = nextId /\ reports' = reports /\ phase' = phase /\ results' = results
  BY StatusGives DEF sessionUnchanged, history
<1>3. \A f \in Ends : pending'[f] = pending[f]
  BY <1>1 DEF Typed, PendingTyped
<1> QED
  BY <1>2, <1>3, CalmKeeps

LEMMA ExecuteKeeps ==
    ASSUME Typed, EndsInOrder, Execute
    PROVE  Kept
<1> DEFINE c == Head(wire[Controlled])
<1>1. PICK d, says, x : Executes(c, d, says, x)
  BY ExecuteGives DEF Typed, CountsTyped
<1>2. IsOpen(Controlled) /\ wire[Controlled] # <<>> /\ c.type \in CommandTypes \ {"End"}
  BY ExecuteGives DEF Typed, CountsTyped
<1>3. c \in CommandMessages
  <2>1. c = wire[Controlled][1] /\ 1 \in 1 .. Len(wire[Controlled])
    BY <1>2, TwoEnds DEF Typed, ChannelTyped
  <2>2. c \in MessagesTo(Controlled)
    BY <2>1, TwoEnds DEF Typed, ChannelTyped
  <2> QED
    BY <1>2, <2>2 DEF MessagesTo, ResultMessages, CommandTypes
<1>4. d.phase = phase[Controlled]
        \/ (phase[Controlled] \in Live /\ d.phase \in {"Connected", "Streaming"})
  BY <1>1, <1>3, OutcomeTyped DEF Executes
<1>5. /\ nextId' = nextId /\ reports' = reports
      /\ pending' = [pending EXCEPT ![Controlled] = pending[Controlled]]
      /\ phase' = [phase EXCEPT ![Controlled] = d.phase]
      /\ results' = [results EXCEPT ![Controlled] =
                       RememberCommandResult(results[Controlled], Result(c.id, d.ok))]
  BY <1>1 DEF Executes, sessionUnchanged
<1>6. \A f \in Ends : pending'[f] = pending[f]
  BY <1>5 DEF Typed, PendingTyped
<1>7. \A f \in Ends : phase'[f] = (IF f = Controlled THEN d.phase ELSE phase[f])
                      /\ (f # Controlled => results'[f] = results[f])
  BY <1>5, TwoEnds DEF Typed, SessionTyped, ResultsTyped
<1>8. phase[Controlled] \notin {"Down", "Tearing"} /\ d.phase \notin {"Down", "Tearing"}
  BY <1>2, <1>4 DEF IsOpen
<1>9. d.phase = phase[Controlled] \/ (phase[Controlled] # "Stopping" /\ d.phase \in Live)
  BY <1>4 DEF Live
<1> HIDE DEF c
<1> QED
  BY <1>2, <1>5, <1>6, <1>7, <1>8, <1>9, CalmKeeps

LEMMA LocalKeeps ==
    ASSUME Typed, EndsInOrder,
           Local \/ StartSession \/ HandleEmergencyRestore
    PROVE  Kept
<1>1. nextId' = nextId /\ reports' = reports /\ pending' = pending /\ results' = results
  BY EmergencyGives DEF Local, FinishStopping, Interrupted, Restored, PressEmergencyRestore,
     TopologyChanges, StartSession, localUnchanged, history
<1>2. \A f \in Ends : phase'[f] = phase[f]
        \/ (phase[f] # "Stopping" /\ (phase'[f] \in Live \/ ~IsOpen(f)))
  <2>1. phase \in [Ends -> Phases] /\ restore \in [Ends -> {"Connected", "Streaming"}]
    BY DEF Typed, SessionTyped
  <2>2. ASSUME NEW e \in Ends, FinishStopping(e) \/ Interrupted(e) \/ Restored(e), NEW f \in Ends
        PROVE  phase'[f] = phase[f]
                 \/ (phase[f] # "Stopping" /\ (phase'[f] \in Live \/ ~IsOpen(f)))
    BY <2>1, <2>2 DEF FinishStopping, Interrupted, Restored, IsOpen, Live
  <2>3. CASE StartSession
    BY <2>3 DEF StartSession, Live
  <2>4. CASE PressEmergencyRestore \/ TopologyChanges \/ HandleEmergencyRestore
    BY <2>4, EmergencyGives DEF PressEmergencyRestore, TopologyChanges, localUnchanged
  <2> QED
    BY <2>2, <2>3, <2>4 DEF Local
<1> QED
  BY <1>1, <1>2, CalmKeeps

\* Every step but a request keeps the ends and the waits in order.
LEMMA StepKeeps ==
    ASSUME Typed, EndsInOrder, OneEach, Next, ~Requests
    PROVE  Kept
BY Steps, EndingKeeps, EndKeeps, ResultKeeps, RetryKeeps, TimeoutKeeps, RepeatKeeps,
   StatusKeeps, ExecuteKeeps, LocalKeeps

\* A request's commands wait under new ids; the rest are reported.
LEMMA RequestWaits ==
    ASSUME Typed, WaitingKnown, NEW cs \in Seq(Askings), NEW n \in 0 .. Len(cs), NEW source,
           Asked(cs, source, n)
    PROVE  /\ \A p \in pending'[Controller] :
                \/ p \in pending[Controller]
                \/ \E i \in 1 .. n : p = [command |-> Numbered(cs)[i], attempts |-> 1]
           /\ pending[Controller] \subseteq pending'[Controller]
           /\ \A i \in 1 .. n : [command |-> Numbered(cs)[i], attempts |-> 1] \in pending'[Controller]
           /\ \A i \in 1 .. Len(cs) : Numbered(cs)[i].id = nextId + i - 1 /\ nextId + i - 1 \in Ids
           /\ \A i \in 1 .. n : Numbered(cs)[i].type # "End"
           /\ pending'[Controlled] = pending[Controlled]
<1>1. pending \in [Ends -> SUBSET Waiting] /\ CountsTyped
  BY DEF Typed, PendingTyped
<1>2. nextId + Len(cs) - 1 <= MaxCommands
  BY DEF Asked, MaySend
<1>3. \A i \in 1 .. Len(cs) : /\ Numbered(cs)[i].id = nextId + i - 1 /\ nextId + i - 1 \in Ids
                              /\ Numbered(cs)[i].type = cs[i].type /\ cs[i] \in Askings
  BY <1>1, <1>2, NumberedIsTyped
<1>4. \A i \in 1 .. n : i \in 1 .. Len(cs)
  OBVIOUS
<1>5. pending'[Controller] = pending[Controller] \union
                     {[command |-> Numbered(cs)[i], attempts |-> 1] : i \in 1 .. n}
      /\ pending'[Controlled] = pending[Controlled]
  BY <1>1, TwoEnds DEF Asked
<1> QED
  BY <1>3, <1>4, <1>5 DEF Askings

\* What is known of the commands that wait.
WaitInv == EndsInOrder /\ OneEach /\ ReportsExact /\ WaitingKnown

LEMMA StepWaits ==
    ASSUME Typed, Typed', WaitInv, Next, ~Requests
    PROVE  WaitInv'
<1>1. PICK S : WaitsOn(S)
  BY StepKeeps DEF Kept, WaitInv
<1>2. EndsInOrder'
  BY StepKeeps DEF Kept, WaitInv
<1>3. pending \in [Ends -> SUBSET Waiting] /\ reports \in [Ids -> Nat] /\ nextId \in Nat
      /\ 0 \notin Ids /\ nextId # 0
  BY DEF Typed, PendingTyped, CountsTyped, Ids
<1>4. WaitingKnown'
  BY <1>1, <1>3 DEF WaitsOn, WaitInv, WaitingKnown, EndId, CountsTyped
<1>5. OneEach'
  <2> SUFFICES ASSUME NEW p \in pending'[Controller], NEW q \in pending'[Controller],
                      p.command.id # EndId, p.command.id = q.command.id
               PROVE  p = q
    BY DEF OneEach
  <2>1. PICK a \in pending[Controller] :
           \/ a = p
           \/ a.command = p.command /\ p.attempts = 2 /\ a \notin pending'[Controller]
    BY <1>1 DEF WaitsOn
  <2>2. PICK b \in pending[Controller] :
           \/ b = q
           \/ b.command = q.command /\ q.attempts = 2 /\ b \notin pending'[Controller]
    BY <1>1 DEF WaitsOn
  <2>3. a.command.id = p.command.id /\ b.command.id = q.command.id
    BY <2>1, <2>2
  <2>4. a = b
    BY <2>3 DEF WaitInv, OneEach
  <2>5. CASE a = p
    BY <2>2, <2>4, <2>5
  <2>6. CASE a # p
    <3>1. a # q /\ p.command = q.command /\ p.attempts = q.attempts
      BY <2>1, <2>2, <2>4, <2>6
    <3> QED
      BY <3>1, TwoEnds DEF Typed, PendingTyped, Waiting
  <2> QED
    BY <2>5, <2>6
<1>6. ReportsExact'
  <2> SUFFICES ASSUME NEW k \in Ids
               PROVE  reports'[k] + (IF Waits(Controller, k)' THEN 1 ELSE 0)
                        = (IF k < nextId' THEN 1 ELSE 0)
    BY DEF ReportsExact
  <2>1. reports'[k] = reports[k] + (IF k \in S THEN 1 ELSE 0) /\ nextId' = nextId
    BY <1>1 DEF WaitsOn, Reported
  <2>2. (Waits(Controller, k)' <=> Waits(Controller, k) /\ k \notin S)
        /\ (k \in S => Waits(Controller, k))
    BY <1>1 DEF WaitsOn, Waits
  <2>3. reports[k] + (IF Waits(Controller, k) THEN 1 ELSE 0) = (IF k < nextId THEN 1 ELSE 0)
    BY DEF WaitInv, ReportsExact
  <2>4. reports[k] \in Nat
    BY <1>3
  <2> QED
    BY <2>1, <2>2, <2>3, <2>4
<1> QED
  BY <1>2, <1>4, <1>5, <1>6 DEF WaitInv

LEMMA RequestKeepsWaits ==
    ASSUME Typed, WaitInv, Requests
    PROVE  WaitInv'
<1>1. UNCHANGED askUnchanged /\ phase[Controller] \in Live
      /\ \E p \in Live : phase' = [phase EXCEPT ![Controller] = p]
  BY RequestsGive DEF WaitInv
<1>2. PICK cs \in Seq(Askings) : \E n \in 0 .. Len(cs) : \E source : Asked(cs, source, n)
  BY RequestsGive DEF WaitInv
<1>n. PICK n \in 0 .. Len(cs) : \E source : Asked(cs, source, n)
  BY <1>2
<1>3. PICK source : Asked(cs, source, n)
  BY <1>n
<1> DEFINE nb == Numbered(cs)
           new(i) == [command |-> nb[i], attempts |-> 1]
<1>4. /\ \A p \in pending'[Controller] :
           \/ p \in pending[Controller]
           \/ \E i \in 1 .. n : p = new(i)
      /\ pending[Controller] \subseteq pending'[Controller]
      /\ \A i \in 1 .. n : new(i) \in pending'[Controller]
      /\ \A i \in 1 .. Len(cs) : nb[i].id = nextId + i - 1 /\ nextId + i - 1 \in Ids
      /\ \A i \in 1 .. n : nb[i].type # "End"
      /\ pending'[Controlled] = pending[Controlled]
  BY <1>3, RequestWaits DEF WaitInv
<1>5. /\ nextId \in Nat /\ nextId # 0 /\ Len(cs) \in Nat /\ nextId' = nextId + Len(cs)
      /\ reports \in [Ids -> Nat] /\ phase \in [Ends -> Phases]
      /\ \A p \in pending[Controller] : p.command.id < nextId /\ p.command.id \in Nat
      /\ Reported({nextId + i - 1 : i \in n + 1 .. Len(cs)}) /\ results' = results
  BY <1>1, <1>3, BoundAssumption, TwoEnds
  DEF Asked, Typed, CountsTyped, SessionTyped, WaitInv, WaitingKnown, PendingTyped, Waiting,
      CommandMessages, askUnchanged
<1> HIDE DEF nb
<1>6. \A i \in 1 .. n : new(i).command = nb[i]
  OBVIOUS
<1> HIDE DEF new
<1>7. EndsInOrder'
  <2>1. \A f \in Ends : (IsOpen(f) => IsOpen(f)') /\ (f # Controller => phase'[f] = phase[f])
    BY <1>1, <1>5, TwoEnds DEF IsOpen, Live
  <2>2. EndsInOrder
    BY DEF WaitInv
  <2>3. \A p \in pending'[Controller] : p.command.type # "End"
    BY <1>1, <1>4, <1>6, <2>2, TwoEnds DEF EndsInOrder, Live
  <2>4. IsOpen(Controller)'
    BY <1>1, <2>1, TwoEnds DEF IsOpen, Live
  <2>5. \A p \in pending'[Controlled] : p.command.type = "End" => phase'[Controlled] = "Stopping"
    BY <1>4, <2>1, <2>2, TwoEnds DEF EndsInOrder
  <2>6. ~IsOpen(Controlled)' => pending'[Controlled] = {} /\ results'[Controlled] = <<>>
    BY <1>4, <1>5, <2>1, <2>2, TwoEnds DEF EndsInOrder
  <2> QED
    BY <2>3, <2>4, <2>5, <2>6, TwoEnds DEF EndsInOrder
<1>8. OneEach'
  <2> SUFFICES ASSUME NEW p \in pending'[Controller], NEW q \in pending'[Controller],
                      p.command.id # EndId, p.command.id = q.command.id
               PROVE  p = q
    BY DEF OneEach
  <2>1. CASE p \in pending[Controller] /\ q \in pending[Controller]
    BY <2>1 DEF WaitInv, OneEach
  <2>2. ASSUME NEW i \in 1 .. n, NEW j \in 1 .. n, p = new(i), q = new(j)
        PROVE  p = q
    <3>1. nb[i].id = nextId + i - 1 /\ nb[j].id = nextId + j - 1
      BY <1>4, <1>5
    <3>2. i = j
      BY <1>5, <1>6, <2>2, <3>1
    <3> QED
      BY <2>2, <3>2
  <2>3. ASSUME NEW a \in pending[Controller], NEW i \in 1 .. n, a.command.id = new(i).command.id
        PROVE  FALSE
    <3>1. nb[i].id = nextId + i - 1
      BY <1>4, <1>5
    <3> QED
      BY <1>5, <1>6, <2>3, <3>1
  <2> QED
    BY <1>4, <2>1, <2>2, <2>3
<1>9. ReportsExact'
  <2> DEFINE S == {nextId + i - 1 : i \in n + 1 .. Len(cs)}
  <2> SUFFICES ASSUME NEW k \in Ids
               PROVE  reports'[k] + (IF Waits(Controller, k)' THEN 1 ELSE 0)
                        = (IF k < nextId' THEN 1 ELSE 0)
    BY DEF ReportsExact
  <2>1. reports'[k] = reports[k] + (IF k \in S THEN 1 ELSE 0)
    BY <1>5 DEF Reported
  <2>2. reports[k] + (IF Waits(Controller, k) THEN 1 ELSE 0) = (IF k < nextId THEN 1 ELSE 0)
        /\ reports[k] \in Nat
    BY <1>5 DEF WaitInv, ReportsExact
  <2>3. k \in S <=> k \in nextId + n .. nextId + Len(cs) - 1
    <3>1. k \in S => k \in nextId + n .. nextId + Len(cs) - 1
      BY <1>5
    <3>2. ASSUME k \in nextId + n .. nextId + Len(cs) - 1
          PROVE  k \in S
      <4>1. k - nextId + 1 \in n + 1 .. Len(cs) /\ k = nextId + (k - nextId + 1) - 1
        BY <1>5, <3>2
      <4> QED
        BY <4>1
    <3> QED
      BY <3>1, <3>2
  <2>4. Waits(Controller, k)' <=> Waits(Controller, k) \/ k \in nextId .. nextId + n - 1
    <3>1. ASSUME Waits(Controller, k)'
          PROVE  Waits(Controller, k) \/ k \in nextId .. nextId + n - 1
      <4>1. PICK p \in pending'[Controller] : p.command.id = k
        BY <3>1 DEF Waits
      <4>2. CASE p \in pending[Controller]
        BY <4>1, <4>2 DEF Waits
      <4>3. ASSUME NEW i \in 1 .. n, p = new(i)
            PROVE  k \in nextId .. nextId + n - 1
        <5>1. nb[i].id = nextId + i - 1
          BY <1>4, <1>5
        <5>2. k = nextId + i - 1
          BY <1>6, <4>1, <4>3, <5>1
        <5> QED
          BY <1>5, <5>2
      <4> QED
        BY <1>4, <4>2, <4>3
    <3>2. ASSUME k \in nextId .. nextId + n - 1
          PROVE  Waits(Controller, k)'
      <4>1. k - nextId + 1 \in 1 .. n /\ k = nextId + (k - nextId + 1) - 1
        BY <1>5, <3>2
      <4>2. PICK i \in 1 .. n : k = nextId + i - 1
        BY <4>1
      <4>3. nb[i].id = nextId + i - 1
        BY <1>4, <1>5
      <4> QED
        BY <1>4, <1>6, <4>2, <4>3 DEF Waits
    <3>3. Waits(Controller, k) => Waits(Controller, k)'
      BY <1>4 DEF Waits
    <3> QED
      BY <3>1, <3>2, <3>3
  <2>5. Waits(Controller, k) => k < nextId
    BY <1>5 DEF Waits
  <2>6. k \in Nat
    BY DEF Ids
  <2> HIDE DEF S
  <2> QED
    BY <1>5, <2>1, <2>2, <2>3, <2>4, <2>5, <2>6
<1>10. WaitingKnown'
  BY RequestsTyped DEF WaitInv
<1> QED
  BY <1>7, <1>8, <1>9, <1>10 DEF WaitInv

LEMMA EveryStepTyped ==
    ASSUME Typed, WaitingKnown, Next
    PROVE  Typed'
BY Steps, RequestsTyped, RepeatTyped, EndTyped, ExecuteTyped, ResultHandlingTyped,
   StatusTyped, RetryTyped, TimeoutTyped, EndingTyped, StartTyped, LocalTyped, EmergencyTyped

\* The variables have their types, and every command that was asked for waits
\* once or was reported once (KSessionCommandDispatcher::m_pendingCommands).
THEOREM WaitsCorrect == Spec => [](Typed /\ WaitInv)
<1>1. Init => Typed /\ WaitInv
  <2> SUFFICES ASSUME Init PROVE Typed /\ WaitInv
    OBVIOUS
  <2>1. Typed
    BY InitTyped
  <2>2. pending[Controller] = {} /\ pending[Controlled] = {}
    BY TwoEnds DEF Init
  <2>3. \A id \in Ids : reports[id] = 0 /\ ~(id < nextId)
    BY DEF Init, Ids
  <2> QED
    BY <2>1, <2>2, <2>3, TwoEnds
    DEF WaitInv, EndsInOrder, OneEach, ReportsExact, WaitingKnown, Waits, Init
<1>2. Typed /\ WaitInv /\ [Next]_vars => Typed' /\ WaitInv'
  <2> SUFFICES ASSUME Typed, WaitInv, [Next]_vars PROVE Typed' /\ WaitInv'
    OBVIOUS
  <2>1. CASE UNCHANGED vars
    BY <2>1 DEF vars, hostVars, userVars, history, Typed, ChannelTyped, PendingTyped,
       ResultsTyped, SessionTyped, CountsTyped, HostTyped, UserTyped, WaitInv, EndsInOrder,
       OneEach, ReportsExact, WaitingKnown, Waits, IsOpen
  <2>2. CASE Next
    <3>1. Typed'
      BY <2>2, EveryStepTyped DEF WaitInv
    <3> QED
      BY <2>2, <3>1, StepWaits, RequestKeepsWaits
  <2> QED
    BY <2>1, <2>2
<1> QED
  BY <1>1, <1>2, PTL DEF Spec

\* The variables keep their types.
THEOREM TypesCorrect == Spec => []TypeOK
<1>1. Typed => TypeOK
  <2> SUFFICES ASSUME Typed PROVE TypeOK
    OBVIOUS
  <2>1. \A e \in Ends : \A p \in pending[e] : p.attempts \in {1, 2} /\ p.command.type \in CommandTypes
    BY DEF Typed, PendingTyped, Waiting, CommandMessages
  <2> QED
    BY <2>1 DEF TypeOK, Typed, ChannelTyped, ResultsTyped, SessionTyped, CountsTyped, HostTyped,
       UserTyped, PrivacyStatuses
<1> QED
  BY <1>1, WaitsCorrect, PTL

------------------------------------------------------------------------------
(* What the controller sees of the privacy mode.                             *)

\* With the messages w on their way, an end that saw s is told of p in the end.
Coming(w, s, p) ==
    /\ (\A i \in 1 .. Len(w) : w[i].type # "ModeState") => s = p
    /\ \A i \in 1 .. Len(w) :
         /\ w[i].type = "ModeState"
         /\ \A j \in i + 1 .. Len(w) : w[j].type # "ModeState"
         => w[i].arg = p

LEMMA ComingInTail ==
    ASSUME NEW S, NEW w \in Seq(S), w # <<>>, NEW s, NEW p, Coming(w, s, p)
    PROVE  /\ Head(w).type # "ModeState" => Coming(Tail(w), s, p)
           /\ Head(w).type = "ModeState" => Coming(Tail(w), Head(w).arg, p)
<1> DEFINE t == Tail(w)
<1>1. /\ Len(t) = Len(w) - 1 /\ Len(w) \in Nat /\ Len(w) # 0 /\ Head(w) = w[1]
      /\ \A i \in 1 .. Len(t) : t[i] = w[i + 1]
  OBVIOUS
<1> HIDE DEF t
<1>2. ASSUME \A i \in 1 .. Len(t) : t[i].type # "ModeState"
      PROVE  \A i \in 2 .. Len(w) : w[i].type # "ModeState"
  <2> SUFFICES ASSUME NEW i \in 2 .. Len(w) PROVE w[i].type # "ModeState"
    OBVIOUS
  <2>1. i - 1 \in 1 .. Len(t) /\ t[i - 1] = w[(i - 1) + 1] /\ (i - 1) + 1 = i
    BY <1>1
  <2> QED
    BY <1>2, <2>1
<1>3. ASSUME NEW i \in 1 .. Len(t), t[i].type = "ModeState",
             \A j \in i + 1 .. Len(t) : t[j].type # "ModeState"
      PROVE  t[i].arg = p
  <2>1. i + 1 \in 1 .. Len(w) /\ w[i + 1] = t[i]
    BY <1>1
  <2>2. ASSUME NEW j \in i + 2 .. Len(w) PROVE w[j].type # "ModeState"
    <3>1. j - 1 \in 1 .. Len(t) /\ j - 1 \in i + 1 .. Len(t) /\ t[j - 1] = w[(j - 1) + 1]
          /\ (j - 1) + 1 = j
      BY <1>1
    <3> QED
      BY <1>3, <3>1
  <2>3. \A j \in (i + 1) + 1 .. Len(w) : w[j].type # "ModeState"
    BY <1>1, <2>2
  <2> QED
    BY <1>3, <2>1, <2>3 DEF Coming
<1>4. CASE Head(w).type # "ModeState"
  <2>1. (\A i \in 1 .. Len(t) : t[i].type # "ModeState") => s = p
    <3>1. SUFFICES ASSUME \A i \in 1 .. Len(t) : t[i].type # "ModeState" PROVE s = p
      OBVIOUS
    <3>2. \A i \in 1 .. Len(w) : i = 1 \/ i \in 2 .. Len(w)
      BY <1>1
    <3> QED
      BY <1>1, <1>2, <1>4, <3>1, <3>2 DEF Coming
  <2> QED
    BY <1>3, <1>4, <2>1 DEF Coming, t
<1>5. CASE Head(w).type = "ModeState"
  <2>1. (\A i \in 1 .. Len(t) : t[i].type # "ModeState") => Head(w).arg = p
    <3>1. SUFFICES ASSUME \A i \in 1 .. Len(t) : t[i].type # "ModeState" PROVE Head(w).arg = p
      OBVIOUS
    <3>2. 1 \in 1 .. Len(w) /\ \A i \in 1 + 1 .. Len(w) : i \in 2 .. Len(w)
      BY <1>1
    <3> QED
      BY <1>1, <1>2, <1>5, <3>1, <3>2 DEF Coming
  <2> QED
    BY <1>3, <1>5, <2>1 DEF Coming, t
<1> QED
  BY <1>4, <1>5

LEMMA ComingWithMore ==
    ASSUME NEW w, Len(w) \in Nat, NEW ms, Len(ms) \in Nat, NEW x, Extends(w, ms, x),
           NEW s, NEW p, Coming(w, s, p), \A i \in 1 .. Len(ms) : ms[i].type # "ModeState"
    PROVE  Coming(x, s, p)
<1>1. Len(x) \in Len(w) .. Len(w) + Len(ms)
      /\ \A i \in 1 .. Len(w) : i \in 1 .. Len(x) /\ x[i] = w[i]
  BY DEF Extends
<1>2. ASSUME NEW i \in Len(w) + 1 .. Len(x) PROVE x[i].type # "ModeState"
  <2>1. i - Len(w) \in 1 .. Len(ms) /\ i - Len(w) \in 1 .. Len(x) - Len(w)
        /\ Len(w) + (i - Len(w)) = i
    BY <1>1
  <2>2. x[i] = ms[i - Len(w)]
    BY <2>1 DEF Extends
  <2> QED
    BY <2>1, <2>2
<1>3. \A i \in 1 .. Len(x) : i \in 1 .. Len(w) \/ i \in Len(w) + 1 .. Len(x)
  BY <1>1
<1>4. (\A i \in 1 .. Len(x) : x[i].type # "ModeState") => s = p
  BY <1>1 DEF Coming
<1>5. ASSUME NEW i \in 1 .. Len(x), x[i].type = "ModeState",
             \A j \in i + 1 .. Len(x) : x[j].type # "ModeState"
      PROVE  x[i].arg = p
  <2>1. i \in 1 .. Len(w)
    BY <1>2, <1>3, <1>5
  <2>2. \A j \in i + 1 .. Len(w) : j \in i + 1 .. Len(x) /\ j \in 1 .. Len(w)
    BY <1>1, <2>1
  <2>3. \A j \in i + 1 .. Len(w) : w[j].type # "ModeState"
    BY <1>1, <1>5, <2>2
  <2> QED
    BY <1>1, <1>5, <2>1, <2>3 DEF Coming
<1> QED
  BY <1>4, <1>5 DEF Coming

\* A status that finds room is the last on its way.
LEMMA ComingWithStatus ==
    ASSUME NEW w, Len(w) \in Nat, NEW ms, Len(ms) \in Nat, NEW x, Extends(w, ms, x),
           NEW s, NEW p, Len(x) > Len(w), ms[1] = Status(p),
           \A i \in 2 .. Len(ms) : ms[i].type # "ModeState"
    PROVE  Coming(x, s, p)
<1>1. Len(x) \in Len(w) .. Len(w) + Len(ms) /\ Len(w) + 1 \in 1 .. Len(x)
      /\ 1 \in 1 .. Len(x) - Len(w)
  BY DEF Extends
<1>2. x[Len(w) + 1] = Status(p)
  BY <1>1 DEF Extends
<1>3. ASSUME NEW i \in Len(w) + 2 .. Len(x) PROVE x[i].type # "ModeState"
  <2>1. i - Len(w) \in 2 .. Len(ms) /\ i - Len(w) \in 1 .. Len(x) - Len(w)
        /\ Len(w) + (i - Len(w)) = i
    BY <1>1
  <2>2. x[i] = ms[i - Len(w)]
    BY <2>1 DEF Extends
  <2> QED
    BY <2>1, <2>2
<1>4. Status(p).type = "ModeState" /\ Status(p).arg = p
  BY DEF Status
<1>5. ASSUME NEW i \in 1 .. Len(x), x[i].type = "ModeState",
             \A j \in i + 1 .. Len(x) : x[j].type # "ModeState"
      PROVE  x[i].arg = p
  <2>1. ~(i < Len(w) + 1)
    <3> SUFFICES ASSUME i < Len(w) + 1 PROVE FALSE
      OBVIOUS
    <3>1. Len(w) + 1 \in i + 1 .. Len(x)
      BY <1>1
    <3> QED
      BY <1>2, <1>4, <1>5, <3>1
  <2>2. ~(i \in Len(w) + 2 .. Len(x))
    BY <1>3, <1>5
  <2>3. i = Len(w) + 1
    BY <1>1, <2>1, <2>2
  <2> QED
    BY <1>2, <1>4, <2>3
<1>6. ~(\A i \in 1 .. Len(x) : x[i].type # "ModeState")
  BY <1>1, <1>2, <1>4
<1> QED
  BY <1>5, <1>6 DEF Coming

TruthInv == PrivacyIsTruthful /\ StatusIsComing

LEMMA StaysTrue ==
    ASSUME PrivacyIsTruthful, UNCHANGED <<privacy, screen>>, emergency => emergency',
           phase[Controlled] \in Live => phase'[Controlled] \in Live
    PROVE  PrivacyIsTruthful'
BY DEF PrivacyIsTruthful

LEMMA ComesTrue ==
    ASSUME (~lost' /\ \A e \in Ends : phase'[e] \in Live) =>
              Coming(wire'[Controller], seen', privacy')
    PROVE  StatusIsComing'
BY DEF StatusIsComing, Coming

LEMMA WasComing ==
    ASSUME StatusIsComing, ~lost, \A e \in Ends : phase[e] \in Live
    PROVE  Coming(wire[Controller], seen, privacy)
BY DEF StatusIsComing, Coming

\* An end that stops or is torn down sees no status any more.
LEMMA NoneComes ==
    ASSUME NEW e \in Ends, phase'[e] \notin Live
    PROVE  StatusIsComing'
BY DEF StatusIsComing

LEMMA TearingTells ==
    ASSUME Typed, TruthInv, NEW e \in Ends, NEW v, NEW ps, Tears(e, v, ps),
           phase[e] = "Stopping", UNCHANGED <<privacy, screen, emergency>>
    PROVE  TruthInv'
<1>1. phase' = [phase EXCEPT ![e] = "Tearing"] /\ phase \in [Ends -> Phases]
  BY DEF Tears, Typed, SessionTyped
<1>2. phase'[e] \notin Live /\ (phase[Controlled] \in Live => phase'[Controlled] \in Live)
  BY <1>1, TwoEnds DEF Live
<1> QED
  BY <1>2, NoneComes, StaysTrue DEF TruthInv

LEMMA FinishTells ==
    ASSUME Typed, TruthInv, NEW e \in Ends, NEW v, NEW ps, NEW notify, Sendable(e, v, ps),
           FinishSession(e, Letter(v, ps), notify), emergency' = emergency
    PROVE  TruthInv'
<1>1. phase \in [Ends -> Phases] /\ HostTyped
  BY DEF Typed, SessionTyped
<1>2. LetGo(e) /\ \E q \in {"Stopping", "Tearing"} : phase' = [phase EXCEPT ![e] = q]
  BY FinishGives DEF Stops, Tears
<1>3. phase'[e] \notin Live /\ \A f \in Ends : f # e => phase'[f] = phase[f]
  BY <1>1, <1>2 DEF Live
<1>4. PrivacyIsTruthful'
  <2>1. CASE e = Controlled
    BY <1>1, <1>2, <2>1, LetsGo DEF PrivacyIsTruthful
  <2>2. CASE e # Controlled
    BY <1>1, <1>2, <1>3, <2>2, LetsGo, StaysTrue, TwoEnds DEF TruthInv
  <2> QED
    BY <2>1, <2>2
<1> QED
  BY <1>3, <1>4, NoneComes DEF TruthInv

\* The controller reads w[1], or what it reads grows by no status.
LEMMA ReadingTells ==
    ASSUME Typed, TruthInv, UNCHANGED <<privacy, screen, emergency, phase, lost>>,
           LET w == wire[Controller] IN
             \/ wire'[Controller] = w /\ seen' = seen
             \/ /\ w # <<>> /\ wire'[Controller] = Tail(w)
                /\ \/ Head(w).type # "ModeState" /\ seen' = seen
                   \/ Head(w).type = "ModeState" /\ seen' = Head(w).arg
             \/ /\ seen' = seen
                /\ \E ms : /\ Len(ms) \in Nat /\ Extends(w, ms, wire'[Controller])
                           /\ \A i \in 1 .. Len(ms) : ms[i].type # "ModeState"
    PROVE  TruthInv'
<1>1. PrivacyIsTruthful'
  BY StaysTrue DEF TruthInv
<1>2. wire[Controller] \in Seq(AnyMessages) /\ Len(wire[Controller]) \in Nat
  BY TwoEnds DEF Typed, ChannelTyped
<1>3. ASSUME ~lost, \A e \in Ends : phase[e] \in Live
      PROVE  Coming(wire'[Controller], seen', privacy')
  <2>1. Coming(wire[Controller], seen, privacy)
    BY <1>3, WasComing DEF TruthInv
  <2> QED
    BY <1>2, <2>1, ComingInTail, ComingWithMore
<1> QED
  BY <1>1, <1>3, ComesTrue DEF TruthInv

LEMMA EndingTells ==
    ASSUME Typed, TruthInv, NEW e \in Ends, Ending(e)
    PROVE  TruthInv'
<1>1. emergency' = emergency /\ Sendable(e, wire[Peer(e)], pending[e])
  BY EndingGives, OutIsSendable DEF endUnchanged
<1> QED
  BY <1>1, EndingGives, TearingTells, FinishTells

LEMMA EndTells ==
    ASSUME Typed, TruthInv, NEW e \in Ends, ExecuteEnd(e)
    PROVE  TruthInv'
<1> DEFINE r == Result(EndId, TRUE)
           x == Sent(wire[Peer(e)], <<r>>)
<1>1. r \in ResultMessages
  <2>1. EndId \in 0 .. MaxCommands
    BY BoundAssumption DEF EndId
  <2> QED
    BY <2>1, ResultTyped
<1>2. Sendable(e, x, pending[e])
  BY <1>1, OutIsSendable, ResultIsMessage, SendsMore, TwoEnds
<1>3. /\ UNCHANGED endUnchanged
      /\ \/ phase[e] = "Stopping" /\ UNCHANGED <<phase, privacy, screen>>
         \/ FinishSession(e, Letter(x, pending[e]), FALSE)
  BY EndGives
<1>4. emergency' = emergency
  BY <1>3 DEF endUnchanged
<1> HIDE DEF x, r
<1>5. CASE phase[e] = "Stopping" /\ UNCHANGED <<phase, privacy, screen>>
  BY <1>4, <1>5, NoneComes, StaysTrue DEF TruthInv, Live
<1> QED
  BY <1>2, <1>3, <1>4, <1>5, FinishTells

LEMMA RepeatTells ==
    ASSUME Typed, TruthInv, NEW e \in Ends, RepeatResult(e)
    PROVE  TruthInv'
<1>1. PICK j \in DOMAIN results[e] :
         Reads(e, Letter(Sent(wire[Peer(e)], <<results[e][j]>>), pending[e]))
  BY RepeatGives
<1> DEFINE m == results[e][j]
           v == wire[Peer(e)]
           x == Sent(v, <<m>>)
<1>2. m \in ResultMessages
  BY DEF Typed, ResultsTyped
<1>3. v \in Seq(AnyMessages) /\ Len(v) <= WireLimit /\ <<m>> \in Seq(AnyMessages)
      /\ wire \in [Ends -> Seq(AnyMessages)]
  BY <1>2, ResultIsMessage, TwoEnds DEF Typed, ChannelTyped
<1>4. Extends(v, <<m>>, x)
  BY <1>3, SentExtends
<1>5. /\ wire[e] # <<>> /\ Head(wire[e]).type \in CommandTypes
      /\ UNCHANGED <<privacy, screen, emergency, phase, lost, seen>>
      /\ wire' = [wire EXCEPT ![e] = Tail(wire[e]), ![Peer(e)] = x]
  BY <1>1, RepeatGives DEF hostVars, userVars, history, Reads, Letter
<1>6. Len(<<m>>) \in Nat /\ \A i \in 1 .. Len(<<m>>) : <<m>>[i].type # "ModeState"
  BY <1>2 DEF ResultMessages
<1> HIDE DEF m, x, v
<1>7. CASE e = Controller
  <2>1. wire'[Controller] = Tail(wire[Controller]) /\ Head(wire[Controller]).type # "ModeState"
    BY <1>3, <1>5, <1>7, TwoEnds DEF CommandTypes
  <2> QED
    BY <1>5, <1>7, <2>1, ReadingTells
<1>8. CASE e = Controlled
  <2>1. wire'[Controller] = x /\ v = wire[Controller]
    BY <1>3, <1>5, <1>8, TwoEnds DEF v
  <2> QED
    BY <1>4, <1>5, <1>6, <2>1, ReadingTells
<1> QED
  BY <1>7, <1>8, TwoEnds

LEMMA ResultTells ==
    ASSUME Typed, EndsInOrder, TruthInv, NEW e \in Ends, HandleResult(e)
    PROVE  TruthInv'
<1> DEFINE r == Head(wire[e])
           w == wire[Peer(e)]
<1>1. /\ UNCHANGED <<privacy, screen, emergency, lost, seen>>
      /\ wire[e] # <<>> /\ r.type = "Result" /\ wire \in [Ends -> Seq(AnyMessages)]
  BY ResultGives DEF hostVars, Typed, ChannelTyped
<1>2. ASSUME NEW ps, Reads(e, Letter(w, ps)), phase' = phase
      PROVE  TruthInv'
  <2>1. wire' = [wire EXCEPT ![e] = Tail(wire[e]), ![Peer(e)] = w]
    BY <1>2 DEF Reads, Letter
  <2>2. wire'[Controller] = wire[Controller] \/
          (wire[Controller] # <<>> /\ wire'[Controller] = Tail(wire[Controller])
             /\ Head(wire[Controller]).type # "ModeState")
    BY <1>1, <2>1, TwoEnds
  <2> QED
    BY <1>1, <1>2, <2>2, ReadingTells
<1>3. ASSUME NEW p \in pending[e], Answers(e, p, r)
      PROVE  TruthInv'
  <2>1. CASE p.command.type = "End" /\ Tears(e, w, Forget(pending[e], r.id))
    <3>1. phase[e] = "Stopping"
      BY <2>1 DEF EndsInOrder
    <3> QED
      BY <1>1, <2>1, <3>1, TearingTells
  <2>2. CASE Reads(e, Letter(w, Forget(pending[e], r.id))) /\ phase' = phase
    BY <1>2, <2>2
  <2> QED
    BY <1>3, <2>1, <2>2 DEF Answers
<1> QED
  BY <1>2, <1>3, ResultGives

LEMMA StatusTells ==
    ASSUME Typed, TruthInv, HandleStatus
    PROVE  TruthInv'
<1>1. /\ UNCHANGED <<privacy, screen, emergency, phase, lost>> /\ wire[Controller] # <<>>
      /\ Head(wire[Controller]).type = "ModeState"
      /\ seen' = IF phase[Controller] \in Live THEN Head(wire[Controller]).arg ELSE seen
      /\ wire' = [wire EXCEPT ![Controller] = Tail(wire[Controller]), ![Controlled] = wire[Controlled]]
  BY StatusGives, TwoEnds DEF hostVars, history, Reads, Letter
<1>2. wire'[Controller] = Tail(wire[Controller])
  BY <1>1, TwoEnds DEF Typed, ChannelTyped
<1>3. CASE phase[Controller] \in Live
  BY <1>1, <1>2, <1>3, ReadingTells
<1>4. CASE phase[Controller] \notin Live
  BY <1>1, <1>4, NoneComes, StaysTrue, TwoEnds DEF TruthInv
<1> QED
  BY <1>3, <1>4

LEMMA RetryTells ==
    ASSUME Typed, EndsInOrder, TruthInv, NEW e \in Ends, Retry(e)
    PROVE  TruthInv'
<1> DEFINE w == wire[Peer(e)]
<1>1. /\ UNCHANGED <<privacy, screen, emergency, lost, seen>>
      /\ wire \in [Ends -> Seq(AnyMessages)] /\ pending \in [Ends -> SUBSET Waiting]
  BY RetryGives DEF hostVars, Typed, ChannelTyped, PendingTyped
<1>2. PICK p \in pending[e] :
         \/ Resends(e, p)
         \/ p.command.type = "End" /\ Tears(e, w, pending[e] \ {p})
         \/ GivesUp(e, p)
  BY RetryGives
<1>3. CASE Resends(e, p)
  <2>1. phase' = phase /\ wire' = [wire EXCEPT ![Peer(e)] = Append(w, p.command)]
    BY <1>3 DEF Resends
  <2>2. CASE e = Controller
    <3>1. wire'[Controller] = wire[Controller]
      BY <1>1, <2>1, <2>2, TwoEnds
    <3> QED
      BY <1>1, <2>1, <3>1, ReadingTells
  <2>3. CASE e = Controlled
    <3>1. phase[Controlled] = "Stopping"
      BY <2>3, TwoEnds DEF Typed, PendingTyped, EndMessages, EndsInOrder
    <3> QED
      BY <1>1, <2>1, <3>1, NoneComes, StaysTrue, TwoEnds DEF TruthInv, Live
  <2> QED
    BY <2>2, <2>3, TwoEnds
<1>4. CASE p.command.type = "End" /\ Tears(e, w, pending[e] \ {p})
  <2>1. phase[e] = "Stopping"
    BY <1>4 DEF EndsInOrder
  <2> QED
    BY <1>1, <1>4, <2>1, TearingTells
<1>5. CASE GivesUp(e, p)
  <2>1. wire' = wire /\ phase' = phase
    BY <1>5 DEF GivesUp
  <2> QED
    BY <1>1, <2>1, ReadingTells
<1> QED
  BY <1>2, <1>3, <1>4, <1>5

LEMMA TimeoutTells ==
    ASSUME Typed, EndsInOrder, TruthInv, NEW e \in Ends, Timeout(e)
    PROVE  TruthInv'
<1> DEFINE w == wire[Peer(e)]
<1>1. /\ UNCHANGED <<emergency, lost, seen>> /\ Sendable(e, w, pending[e])
      /\ wire \in [Ends -> Seq(AnyMessages)]
  BY TimeoutGives, OutIsSendable DEF Typed, ChannelTyped
<1>2. PICK p \in pending[e] :
         \/ /\ p.command.type = "End" /\ Tears(e, w, pending[e] \ {p})
            /\ UNCHANGED <<privacy, screen>>
         \/ /\ UNCHANGED <<privacy, screen, phase>>
            /\ Sends(e, Letter(w, pending[e] \ {p}))
         \/ FinishSession(e, Letter(w, pending[e]), FALSE)
  BY TimeoutGives
<1>3. CASE /\ p.command.type = "End" /\ Tears(e, w, pending[e] \ {p})
           /\ UNCHANGED <<privacy, screen>>
  <2>1. phase[e] = "Stopping"
    BY <1>3 DEF EndsInOrder
  <2> QED
    BY <1>1, <1>3, <2>1, TearingTells
<1>4. CASE /\ UNCHANGED <<privacy, screen, phase>>
           /\ Sends(e, Letter(w, pending[e] \ {p}))
  <2>1. wire' = [wire EXCEPT ![Peer(e)] = w]
    BY <1>4, SendsGives
  <2>2. wire'[Controller] = wire[Controller]
    BY <1>1, <2>1, TwoEnds
  <2> QED
    BY <1>1, <1>4, <2>2, ReadingTells
<1>5. CASE FinishSession(e, Letter(w, pending[e]), FALSE)
  BY <1>1, <1>5, FinishTells
<1> QED
  BY <1>2, <1>3, <1>4, <1>5

LEMMA RequestTells ==
    ASSUME Typed, WaitingKnown, TruthInv, Requests
    PROVE  TruthInv'
<1>1. UNCHANGED <<privacy, screen, emergency, lost, seen>> /\ phase[Controller] \in Live
      /\ \E p \in Live : phase' = [phase EXCEPT ![Controller] = p]
  BY RequestsGive DEF askUnchanged, hostVars
<1>2. \A e \in Ends : phase'[e] = phase[e] \/ (phase[e] \in Live /\ phase'[e] \in Live)
  BY <1>1, TwoEnds DEF Typed, SessionTyped
<1>3. wire'[Controller] = wire[Controller]
  <2>1. \E x : wire' = [wire EXCEPT ![Controlled] = x]
    BY RequestsGive DEF Asked
  <2> QED
    BY <2>1, TwoEnds DEF Typed, ChannelTyped
<1>4. PrivacyIsTruthful'
  BY <1>1, <1>2, StaysTrue, TwoEnds DEF TruthInv
<1>5. (~lost' /\ \A e \in Ends : phase'[e] \in Live) => Coming(wire'[Controller], seen', privacy')
  BY <1>1, <1>2, <1>3, WasComing DEF TruthInv
<1> QED
  BY <1>4, <1>5, ComesTrue DEF TruthInv

LEMMA StartTells ==
    ASSUME StartSession
    PROVE  TruthInv'
<1>1. privacy' = NewPrivacy /\ seen' = NewPrivacy /\ screen'.overlay = FALSE
      /\ wire'[Controller] = <<>>
  BY TwoEnds DEF StartSession
<1>2. PrivacyIsTruthful'
  BY <1>1 DEF PrivacyIsTruthful, NewPrivacy
<1>3. Coming(<<>>, NewPrivacy, NewPrivacy)
  BY DEF Coming
<1> QED
  BY <1>1, <1>2, <1>3, ComesTrue DEF TruthInv

LEMMA LocalTells ==
    ASSUME Typed, TruthInv, Local
    PROVE  TruthInv'
<1>1. phase \in [Ends -> Phases] /\ restore \in [Ends -> {"Connected", "Streaming"}]
      /\ screen \in Screens
  BY DEF Typed, SessionTyped, HostTyped, Screens
<1>2. ASSUME NEW e \in Ends, FinishStopping(e)
      PROVE  TruthInv'
  <2>1. UNCHANGED <<privacy, screen, emergency>> /\ phase[e] = "Tearing" /\ phase'[e] = "Down"
        /\ \A f \in Ends : f # e => phase'[f] = phase[f]
    BY <1>1, <1>2 DEF FinishStopping
  <2> QED
    BY <2>1, NoneComes, StaysTrue, TwoEnds DEF TruthInv, Live
<1>3. ASSUME NEW e \in Ends, Interrupted(e) \/ Restored(e)
      PROVE  TruthInv'
  <2>1. UNCHANGED <<privacy, screen, emergency, wire, lost, seen>>
    BY <1>3 DEF Interrupted, Restored, hostVars, userVars, history
  <2>2. \A f \in Ends : phase'[f] = phase[f] \/ (phase[f] \in Live /\ phase'[f] \in Live)
    BY <1>1, <1>3 DEF Interrupted, Restored, Live
  <2>3. (~lost' /\ \A f \in Ends : phase'[f] \in Live) => Coming(wire'[Controller], seen', privacy')
    BY <2>1, <2>2, WasComing DEF TruthInv
  <2>4. PrivacyIsTruthful'
    BY <2>1, <2>2, StaysTrue, TwoEnds DEF TruthInv
  <2> QED
    BY <2>3, <2>4, ComesTrue DEF TruthInv
<1>4. CASE PressEmergencyRestore \/ TopologyChanges
  <2>1. UNCHANGED <<privacy, phase, wire, lost, seen>> /\ emergency' = TRUE
        /\ (screen' = screen \/ screen' = [screen EXCEPT !.overlay = FALSE])
    BY <1>4 DEF PressEmergencyRestore, TopologyChanges, localUnchanged, userVars
  <2>2. PrivacyIsTruthful'
    BY <1>1, <2>1 DEF TruthInv, PrivacyIsTruthful, Screens
  <2>3. StatusIsComing'
    BY <2>1, WasComing, ComesTrue DEF TruthInv
  <2> QED
    BY <2>2, <2>3 DEF TruthInv
<1> QED
  BY <1>2, <1>3, <1>4 DEF Local

\* The host sends ms, which begins with the status of its privacy mode.
LEMMA TellingStatus ==
    ASSUME Typed, NEW ms \in Seq(AnyMessages),
           wire'[Controller] = Sent(wire[Controller], ms),
           lost' = (lost \/ Len(Sent(wire[Controller], ms)) - Len(wire[Controller]) < 1),
           seen' = seen, ms[1] = Status(privacy'),
           \A i \in 2 .. Len(ms) : ms[i].type # "ModeState"
    PROVE  StatusIsComing'
<1> DEFINE w == wire[Controller]
           x == Sent(w, ms)
           p == privacy'
<1>1. w \in Seq(AnyMessages) /\ Len(w) <= WireLimit /\ Len(w) \in Nat /\ Len(ms) \in Nat
  BY TwoEnds DEF Typed, ChannelTyped
<1>2. Extends(w, ms, x) /\ x \in Seq(AnyMessages) /\ Len(x) \in Nat
  BY <1>1, SentExtends
<1>3. wire'[Controller] = x /\ lost' = (lost \/ Len(x) - Len(w) < 1) /\ ms[1] = Status(p)
  OBVIOUS
<1> HIDE DEF x, w, p
<1>4. ASSUME ~lost'
      PROVE  Coming(x, seen, p)
  <2>1. ~(Len(x) - Len(w) < 1)
    BY <1>3, <1>4
  <2>2. Len(x) > Len(w)
    BY <1>1, <1>2, <2>1
  <2> QED
    BY <1>1, <1>2, <1>3, <2>2, ComingWithStatus
<1> QED
  BY <1>3, <1>4, ComesTrue DEF p

LEMMA TellingNothing ==
    ASSUME Typed, StatusIsComing, NEW ms \in Seq(AnyMessages),
           wire'[Controller] = Sent(wire[Controller], ms), lost => lost',
           seen' = seen, privacy' = privacy,
           \A i \in 1 .. Len(ms) : ms[i].type # "ModeState",
           \A e \in Ends : phase'[e] \in Live => phase[e] \in Live
    PROVE  StatusIsComing'
<1> DEFINE w == wire[Controller]
           x == Sent(w, ms)
<1>1. w \in Seq(AnyMessages) /\ Len(w) <= WireLimit /\ Len(w) \in Nat /\ Len(ms) \in Nat
  BY TwoEnds DEF Typed, ChannelTyped
<1>2. Extends(w, ms, x) /\ x \in Seq(AnyMessages)
  BY <1>1, SentExtends
<1>3. ASSUME ~lost', \A e \in Ends : phase'[e] \in Live
      PROVE  Coming(x, seen, privacy)
  <2>1. Coming(w, seen, privacy)
    BY <1>3, WasComing
  <2> QED
    BY <1>1, <1>2, <2>1, ComingWithMore
<1> QED
  BY <1>3, ComesTrue

LEMMA EmergencyTells ==
    ASSUME Typed, TruthInv, HandleEmergencyRestore
    PROVE  TruthInv'
<1>1. emergency' = FALSE /\ phase' = phase /\ seen' = seen
  BY EmergencyGives DEF localUnchanged, userVars
<1>2. CASE privacy.effective # "overlay" /\ UNCHANGED <<privacy, screen, wire, lost>>
  <2>1. PrivacyIsTruthful'
    BY <1>1, <1>2 DEF TruthInv, PrivacyIsTruthful
  <2>2. StatusIsComing'
    BY <1>1, <1>2, WasComing, ComesTrue DEF TruthInv
  <2> QED
    BY <2>1, <2>2 DEF TruthInv
<1>3. ASSUME NEW x, Restores(x) PROVE TruthInv'
  <2>1. PICK wakes \in BOOLEAN :
          LET h == Reset(Host, wakes)
              says == IF phase[Controlled] \in Live THEN h.says ELSE <<>>
          IN /\ privacy' = h.privacy /\ screen' = h.screen
             /\ x = Sent(wire[Controller], says)
             /\ wire' = [wire EXCEPT ![Controller] = x]
             /\ lost' = (lost \/ Len(x) - Len(wire[Controller]) < Len(says))
    BY <1>3 DEF Restores
  <2> DEFINE p == [state |-> IF wakes THEN "Inactive" ELSE "Failed", effective |-> "disabled"]
             says == <<Status(p)>>
  <2>2. Reset(Host, wakes) =
          HostState(p, [overlay |-> FALSE, off |-> screen.off /\ ~wakes], says)
    BY Resets DEF Typed
  <2>3. p \in PrivacyStatuses /\ p.effective = "disabled"
    BY DEF PrivacyStatuses, Modes
  <2>4. Status(p) \in AnyMessages
    BY <2>3 DEF Status, StatusMessages, AnyMessages
  <2> HIDE DEF p
  <2>5. says \in Seq(AnyMessages) /\ Len(says) = 1 /\ says[1] = Status(p)
    BY <2>4
  <2>6. privacy' = p /\ screen'.overlay = FALSE
    BY <2>1, <2>2 DEF HostState
  <2>7. PrivacyIsTruthful'
    BY <2>3, <2>6 DEF PrivacyIsTruthful
  <2> HIDE DEF says
  <2>8. CASE phase[Controlled] \in Live
    <3> DEFINE y == Sent(wire[Controller], says)
    <3>1. Reset(Host, wakes).says = says
      BY <2>2 DEF HostState
    <3>2. /\ x = y /\ wire' = [wire EXCEPT ![Controller] = x]
          /\ lost' = (lost \/ Len(x) - Len(wire[Controller]) < Len(says))
      BY <2>1, <2>8, <3>1
    <3>3. wire'[Controller] = y /\ lost' = (lost \/ Len(y) - Len(wire[Controller]) < 1)
      BY <2>5, <3>2, TwoEnds DEF Typed, ChannelTyped
    <3>4. says[1] = Status(privacy') /\ \A i \in 2 .. Len(says) : says[i].type # "ModeState"
      BY <2>5, <2>6
    <3>5. StatusIsComing'
      BY <1>1, <2>5, <3>3, <3>4, TellingStatus DEF TruthInv
    <3> QED
      BY <2>7, <3>5 DEF TruthInv
  <2>9. CASE phase[Controlled] \notin Live
    BY <1>1, <2>7, <2>9, NoneComes, TwoEnds DEF TruthInv
  <2> QED
    BY <2>8, <2>9
<1> QED
  BY <1>2, <1>3, EmergencyGives

LEMMA ExecuteTells ==
    ASSUME Typed, TruthInv, Execute
    PROVE  TruthInv'
<1> DEFINE c == Head(wire[Controlled])
<1>1. /\ wire \in [Ends -> Seq(AnyMessages)] /\ wire[Controlled] # <<>>
      /\ c.type \in CommandTypes \ {"End"} /\ phase \in [Ends -> Phases]
  BY ExecuteGives, TwoEnds DEF Typed, ChannelTyped, CountsTyped, SessionTyped
<1>2. c \in CommandMessages
  <2>1. c = wire[Controlled][1] /\ 1 \in 1 .. Len(wire[Controlled])
    BY <1>1, TwoEnds
  <2>2. c \in MessagesTo(Controlled)
    BY <2>1, TwoEnds DEF Typed, ChannelTyped
  <2> QED
    BY <1>1, <2>2 DEF MessagesTo, ResultMessages, CommandTypes
<1>3. PICK d, says, x : Executes(c, d, says, x)
  BY ExecuteGives DEF Typed, CountsTyped
<1>4. /\ HostAfter(c, d) /\ d.ok \in BOOLEAN
      /\ d.phase = phase[Controlled]
            \/ (phase[Controlled] \in Live /\ d.phase \in {"Connected", "Streaming"})
  BY <1>2, <1>3, OutcomeTyped DEF Executes
<1> DEFINE r == Result(c.id, d.ok)
<1>5. r \in ResultMessages /\ r \in AnyMessages /\ r.type # "ModeState"
  BY <1>2, <1>4, ResultTyped DEF CommandMessages, ResultMessages, AnyMessages
<1>6. /\ says = IF phase[Controlled] \in Live THEN d.host.says ELSE <<>>
      /\ x = Sent(wire[Controller], Append(says, r))
      /\ wire' = [wire EXCEPT ![Controlled] = Tail(@), ![Controller] = x]
      /\ phase' = [phase EXCEPT ![Controlled] = d.phase]
      /\ privacy' = d.host.privacy /\ screen' = d.host.screen
      /\ lost' = (lost \/ Len(x) - Len(wire[Controller]) < Len(says))
      /\ emergency' = emergency /\ seen' = seen
  BY <1>3 DEF Executes, userVars
<1> HIDE DEF c, r
<1>7. \A e \in Ends : phase'[e] = phase[e] \/ (phase[e] \in Live /\ phase'[e] \in Live)
  BY <1>1, <1>4, <1>6, TwoEnds DEF Live
<1>8. wire'[Controller] = Sent(wire[Controller], Append(says, r))
  BY <1>1, <1>6, TwoEnds
<1>9. CASE d.host.privacy = privacy /\ d.host.screen = screen /\ d.host.says = <<>>
  <2>1. PrivacyIsTruthful'
    BY <1>6, <1>7, <1>9, StaysTrue, TwoEnds DEF TruthInv
  <2>2. says = <<>> /\ Append(says, r) \in Seq(AnyMessages) /\ Len(Append(says, r)) = 1
        /\ Append(says, r)[1] = r /\ Len(says) = 0
    BY <1>5, <1>6, <1>9
  <2> DEFINE ms == Append(says, r)
  <2> HIDE DEF ms
  <2>3. ms \in Seq(AnyMessages) /\ \A i \in 1 .. Len(ms) : ms[i].type # "ModeState"
    BY <1>5, <2>2 DEF ms
  <2>4. wire'[Controller] = Sent(wire[Controller], ms) /\ (lost => lost') /\ privacy' = privacy
    BY <1>6, <1>8, <1>9 DEF ms
  <2>5. StatusIsComing'
    BY <1>6, <1>7, <2>3, <2>4, TellingNothing DEF TruthInv
  <2> QED
    BY <2>1, <2>5 DEF TruthInv
<1>10. CASE phase[Controlled] \in Desktop /\ ModeSet(d.host)
  <2>1. phase[Controlled] \in Live /\ phase'[Controlled] \in Live
    BY <1>7, <1>10, TwoEnds DEF Live, Desktop
  <2>2. PrivacyIsTruthful'
    BY <1>6, <1>10, <2>1 DEF ModeSet, TruthInv, PrivacyIsTruthful, Screens
  <2> DEFINE s == Status(d.host.privacy)
  <2>3. s \in AnyMessages
    BY <1>10 DEF ModeSet, Status, StatusMessages, AnyMessages
  <2>4. says = <<s>>
    BY <1>6, <1>10, <2>1 DEF ModeSet
  <2> HIDE DEF s
  <2>5. says \in Seq(AnyMessages) /\ Len(says) = 1 /\ says[1] = s
    BY <2>3, <2>4
  <2> DEFINE ms == Append(says, r)
  <2>6. ms \in Seq(AnyMessages) /\ Len(ms) = 2 /\ ms[1] = s /\ ms[2] = r
    <3>1. says \in Seq(AnyMessages) /\ r \in AnyMessages
      BY <1>5, <2>5
    <3>2. ms \in Seq(AnyMessages) /\ Len(ms) = Len(says) + 1
      BY <3>1
    <3>3. ms[Len(says) + 1] = r /\ \A i \in 1 .. Len(says) : ms[i] = says[i]
      BY <3>1
    <3> HIDE DEF ms
    <3> QED
      BY <2>5, <3>2, <3>3
  <2> HIDE DEF ms
  <2>7. ms[1] = Status(privacy') /\ \A i \in 2 .. Len(ms) : ms[i].type # "ModeState"
    BY <1>5, <1>6, <2>6 DEF s
  <2>8. wire'[Controller] = Sent(wire[Controller], ms)
        /\ lost' = (lost \/ Len(Sent(wire[Controller], ms)) - Len(wire[Controller]) < 1)
    BY <1>6, <1>8, <2>5 DEF ms
  <2>9. StatusIsComing'
    BY <1>6, <2>6, <2>7, <2>8, TellingStatus
  <2> QED
    BY <2>2, <2>9 DEF TruthInv
<1> QED
  BY <1>4, <1>9, <1>10 DEF HostAfter

\* The privacy mode that is shown, by the host and by the window of the
\* controller, is the one that is in force (KPrivacyModeService::setMode,
\* handleEmergencyRestore, handlePrivacyModeStateMessage).
THEOREM PrivacyCorrect == Spec => []PrivacyIsShown
<1>1. Init => TruthInv
  <2> SUFFICES ASSUME Init PROVE TruthInv
    OBVIOUS
  <2>1. phase[Controlled] \notin Live /\ screen.overlay = FALSE /\ privacy.effective = "disabled"
    BY TwoEnds DEF Init, Live, NoScreen, NewPrivacy
  <2> QED
    BY <2>1, TwoEnds DEF TruthInv, PrivacyIsTruthful, StatusIsComing
<1>2. Typed /\ WaitInv /\ TruthInv /\ [Next]_vars => TruthInv'
  <2> SUFFICES ASSUME Typed, WaitInv, TruthInv, [Next]_vars PROVE TruthInv'
    OBVIOUS
  <2>1. CASE UNCHANGED vars
    BY <2>1 DEF vars, hostVars, userVars, history, TruthInv, PrivacyIsTruthful, StatusIsComing
  <2>2. CASE Next
    BY <2>2, Steps, RequestTells, StartTells, LocalTells, EmergencyTells, ExecuteTells,
       StatusTells, RepeatTells, EndTells, ResultTells, RetryTells, TimeoutTells, EndingTells
    DEF WaitInv
  <2> QED
    BY <2>1, <2>2
<1>3. TruthInv => PrivacyIsShown
  <2> SUFFICES ASSUME TruthInv PROVE PrivacyIsShown
    OBVIOUS
  <2>1. WindowShowsHost
    BY DEF TruthInv, StatusIsComing, WindowShowsHost
  <2> QED
    BY <2>1 DEF TruthInv, PrivacyIsShown
<1> QED
  BY <1>1, <1>2, <1>3, WaitsCorrect, PTL DEF Spec

------------------------------------------------------------------------------
(* Commands on their way, and the cache.                                     *)

LEMMA OrdersAreNumbered ==
    ASSUME NEW m \in AnyMessages
    PROVE  /\ m.id \in 0 .. MaxCommands /\ MaxCommands \in Nat
           /\ IsOrder(m) => m.id \in Ids /\ m.id # EndId /\ m.type # "End"
           /\ m \in CommandMessages => (IsOrder(m) <=> m.id # EndId)
           /\ m.type \in {"End", "ModeState"} => m.id = EndId
<1>1. m \in CommandMessages \union ResultMessages \union StatusMessages /\ MaxCommands \in Nat
  BY BoundAssumption DEF AnyMessages
<1>2. CASE m \in CommandMessages
  BY <1>1, <1>2 DEF CommandMessages, CommandTypes, IsOrder, EndId, Ids
<1>3. CASE m \in ResultMessages
  BY <1>1, <1>3 DEF ResultMessages, CommandMessages, CommandTypes, IsOrder, EndId, Ids
<1>4. CASE m \in StatusMessages
  BY <1>1, <1>4 DEF StatusMessages, CommandMessages, CommandTypes, IsOrder, EndId, Ids
<1> QED
  BY <1>1, <1>2, <1>3, <1>4

LEMMA TailIs ==
    ASSUME NEW S, NEW w \in Seq(S), w # <<>>
    PROVE  /\ Tail(w) \in Seq(S) /\ Len(Tail(w)) = Len(w) - 1 /\ Len(w) \in Nat \ {0}
           /\ Head(w) = w[1] /\ Head(w) \in S
           /\ \A i \in 1 .. Len(Tail(w)) : i + 1 \in 2 .. Len(w) /\ Tail(w)[i] = w[i + 1]
           /\ \A i \in 2 .. Len(w) : i - 1 \in 1 .. Len(Tail(w)) /\ Tail(w)[i - 1] = w[i]
<1> DEFINE t == Tail(w)
<1>1. /\ t \in Seq(S) /\ Len(t) = Len(w) - 1 /\ Len(w) \in Nat \ {0}
      /\ Head(w) = w[1] /\ Head(w) \in S
      /\ \A i \in 1 .. Len(t) : t[i] = w[i + 1]
  OBVIOUS
<1> HIDE DEF t
<1>2. \A i \in 1 .. Len(t) : i + 1 \in 2 .. Len(w)
  BY <1>1
<1>3. ASSUME NEW i \in 2 .. Len(w) PROVE i - 1 \in 1 .. Len(t) /\ t[i - 1] = w[i]
  <2>1. i - 1 \in 1 .. Len(t) /\ (i - 1) + 1 = i
    BY <1>1
  <2> QED
    BY <1>1, <2>1
<1> QED
  BY <1>1, <1>2, <1>3 DEF t

LEMMA AppendIs ==
    ASSUME NEW S, NEW w \in Seq(S), NEW m \in S
    PROVE  /\ Append(w, m) \in Seq(S) /\ Len(Append(w, m)) = Len(w) + 1 /\ Len(w) \in Nat
           /\ Append(w, m)[Len(w) + 1] = m
           /\ \A i \in 1 .. Len(w) : Append(w, m)[i] = w[i]
OBVIOUS

\* What is read is a command whose result is in the cache, or no command.
LEMMA OrdersInTail ==
    ASSUME NEW w \in Seq(AnyMessages), w # <<>>, NEW r, NEW ex, OrdersIn(w, r, ex),
           IsOrder(Head(w)) => HasId(r, Head(w).id)
    PROVE  OrdersIn(Tail(w), r, ex)
<1> DEFINE t == Tail(w)
<1>1. /\ Len(t) = Len(w) - 1 /\ Len(w) \in Nat \ {0} /\ Head(w) = w[1]
      /\ \A i \in 1 .. Len(t) : i + 1 \in 2 .. Len(w) /\ t[i] = w[i + 1]
      /\ \A i \in 2 .. Len(w) : i - 1 \in 1 .. Len(t) /\ t[i - 1] = w[i]
  BY TailIs
<1> HIDE DEF t
<1> SUFFICES ASSUME NEW i \in 1 .. Len(t), IsOrder(t[i])
             PROVE  FreshIn(t, i, ex) \/ CopyIn(t, i, r)
  BY DEF OrdersIn, t
<1>2. i + 1 \in 1 .. Len(w) /\ t[i] = w[i + 1] /\ i \in Nat
  BY <1>1
<1>3. FreshIn(w, i + 1, ex) \/ CopyIn(w, i + 1, r)
  BY <1>2 DEF OrdersIn
<1>4. ASSUME FreshIn(w, i + 1, ex) PROVE FreshIn(t, i, ex)
  <2>1. ASSUME NEW h \in 1 .. i - 1, IsOrder(t[h]) PROVE t[h].id < t[i].id
    <3>1. h \in 1 .. Len(t) /\ t[h] = w[h + 1] /\ h + 1 \in 1 .. (i + 1) - 1
      BY <1>1, <1>2
    <3> QED
      BY <1>2, <1>4, <2>1, <3>1 DEF FreshIn
  <2> QED
    BY <1>2, <1>4, <2>1 DEF FreshIn
<1>5. ASSUME CopyIn(w, i + 1, r) PROVE CopyIn(t, i, r)
  <2>1. CASE HasId(r, w[i + 1].id)
    BY <1>2, <2>1 DEF CopyIn
  <2>2. ASSUME NEW h \in 1 .. (i + 1) - 1, IsOrder(w[h]), w[h].id = w[i + 1].id
        PROVE  CopyIn(t, i, r)
    <3>1. CASE h = 1
      BY <1>1, <1>2, <2>2, <3>1 DEF CopyIn
    <3>2. CASE h # 1
      <4>1. h \in 2 .. Len(w) /\ h - 1 \in 1 .. i - 1 /\ t[h - 1] = w[h]
        BY <1>1, <1>2, <3>2
      <4> QED
        BY <1>2, <2>2, <4>1 DEF CopyIn
    <3> QED
      BY <3>1, <3>2
  <2> QED
    BY <1>5, <2>1, <2>2 DEF CopyIn
<1> QED
  BY <1>3, <1>4, <1>5

LEMMA RestInTail ==
    ASSUME NEW w \in Seq(AnyMessages), w # <<>>, NEW n
    PROVE  /\ CloseIn(w) => CloseIn(Tail(w))
           /\ LateIn(w, n) => LateIn(Tail(w), n)
           /\ KnownIn(w, n) => KnownIn(Tail(w), n)
<1> DEFINE t == Tail(w)
<1>1. /\ Len(t) = Len(w) - 1 /\ Len(w) \in Nat \ {0}
      /\ \A i \in 1 .. Len(t) : i + 1 \in 2 .. Len(w) /\ t[i] = w[i + 1]
  BY TailIs
<1> HIDE DEF t
<1>2. ASSUME NEW i \in 1 .. Len(t), NEW h \in 1 .. i - 1
      PROVE  /\ i + 1 \in 1 .. Len(w) /\ t[i] = w[i + 1]
             /\ h + 1 \in 1 .. (i + 1) - 1 /\ t[h] = w[h + 1]
  <2>1. h \in 1 .. Len(t) /\ i + 1 \in 1 .. Len(w) /\ h + 1 \in 1 .. (i + 1) - 1
    BY <1>1
  <2> QED
    BY <1>1, <2>1
<1>3. CloseIn(w) => CloseIn(t)
  <2> SUFFICES ASSUME CloseIn(w), NEW i \in 1 .. Len(t), NEW h \in 1 .. i - 1,
                      IsOrder(t[h]), IsOrder(t[i])
               PROVE  t[h].id - t[i].id <= CacheLimit - 2
    BY DEF CloseIn
  <2> QED
    BY <1>2 DEF CloseIn
<1>4. LateIn(w, n) => LateIn(t, n)
  <2> SUFFICES ASSUME LateIn(w, n), NEW i \in 1 .. Len(t), NEW h \in 1 .. i - 1,
                      t[h].type = "End", IsOrder(t[i])
               PROVE  n - t[i].id < CacheLimit
    BY DEF LateIn
  <2> QED
    BY <1>2 DEF LateIn
<1>5. KnownIn(w, n) => KnownIn(t, n)
  <2>1. \A i \in 1 .. Len(t) : i + 1 \in 1 .. Len(w) /\ t[i] = w[i + 1]
    BY <1>1
  <2> QED
    BY <2>1 DEF KnownIn
<1> QED
  BY <1>3, <1>4, <1>5 DEF t

LEMMA SentInTail ==
    ASSUME NEW w \in Seq(AnyMessages), w # <<>>, NEW ps, NEW r, SentIn(ps, w, r),
           IsOrder(Head(w)) => HasId(r, Head(w).id)
    PROVE  SentIn(ps, Tail(w), r)
<1> DEFINE t == Tail(w)
<1>1. /\ Len(t) = Len(w) - 1 /\ Len(w) \in Nat \ {0} /\ Head(w) = w[1]
      /\ \A i \in 2 .. Len(w) : i - 1 \in 1 .. Len(t) /\ t[i - 1] = w[i]
  BY TailIs
<1> HIDE DEF t
<1> SUFFICES ASSUME NEW p \in ps, MayCopy(p)
             PROVE  HasId(r, p.command.id) \/ Travelling(t, p.command.id)
  BY DEF SentIn, t
<1>2. CASE HasId(r, p.command.id)
  BY <1>2
<1>3. ASSUME NEW h \in 1 .. Len(w), IsOrder(w[h]), w[h].id = p.command.id
      PROVE  HasId(r, p.command.id) \/ Travelling(t, p.command.id)
  <2>1. CASE h = 1
    BY <1>1, <1>3, <2>1
  <2>2. CASE h # 1
    <3>1. h \in 2 .. Len(w)
      BY <1>1, <2>2
    <3> QED
      BY <1>1, <1>3, <3>1 DEF Travelling
  <2> QED
    BY <2>1, <2>2
<1> QED
  BY <1>2, <1>3 DEF SentIn, Travelling

\* What is sent is no command, or the copy of one that was.
LEMMA OrdersWithMore ==
    ASSUME NEW w \in Seq(AnyMessages), NEW m \in AnyMessages, NEW r, NEW ex, OrdersIn(w, r, ex),
           IsOrder(m) => HasId(r, m.id) \/ Travelling(w, m.id)
    PROVE  OrdersIn(Append(w, m), r, ex)
<1> DEFINE x == Append(w, m)
<1>1. /\ Len(x) = Len(w) + 1 /\ Len(w) \in Nat /\ x[Len(w) + 1] = m
      /\ \A i \in 1 .. Len(w) : x[i] = w[i]
  BY AppendIs
<1> HIDE DEF x
<1> SUFFICES ASSUME NEW i \in 1 .. Len(x), IsOrder(x[i])
             PROVE  FreshIn(x, i, ex) \/ CopyIn(x, i, r)
  BY DEF OrdersIn, x
<1>2. CASE i \in 1 .. Len(w)
  <2>1. x[i] = w[i] /\ \A h \in 1 .. i - 1 : x[h] = w[h]
    BY <1>1, <1>2
  <2>2. FreshIn(w, i, ex) \/ CopyIn(w, i, r)
    BY <1>2, <2>1 DEF OrdersIn
  <2> QED
    BY <2>1, <2>2 DEF FreshIn, CopyIn
<1>3. CASE i = Len(w) + 1
  <2>1. x[i] = m /\ (HasId(r, m.id) \/ Travelling(w, m.id))
    BY <1>1, <1>3
  <2>2. \A h \in 1 .. Len(w) : h \in 1 .. i - 1 /\ x[h] = w[h]
    BY <1>1, <1>3
  <2> QED
    BY <2>1, <2>2 DEF CopyIn, Travelling
<1> QED
  BY <1>1, <1>2, <1>3

LEMMA RestWithMore ==
    ASSUME NEW w \in Seq(AnyMessages), NEW m \in AnyMessages, NEW n \in Nat, KnownIn(w, n), m.id < n,
           IsOrder(m) => n - m.id < CacheLimit
    PROVE  /\ KnownIn(Append(w, m), n)
           /\ CloseIn(w) => CloseIn(Append(w, m))
           /\ LateIn(w, n) => LateIn(Append(w, m), n)
<1> DEFINE x == Append(w, m)
<1>1. /\ Len(x) = Len(w) + 1 /\ Len(w) \in Nat /\ x[Len(w) + 1] = m
      /\ \A i \in 1 .. Len(w) : x[i] = w[i]
  BY AppendIs
<1>2. \A i \in 1 .. Len(w) : w[i].id \in Nat /\ w[i].id < n
  BY OrdersAreNumbered DEF KnownIn
<1>3. m.id \in Nat /\ CacheLimit \in Nat
  BY OrdersAreNumbered, BoundAssumption
<1> HIDE DEF x
<1>4. KnownIn(x, n)
  BY <1>1, <1>2 DEF KnownIn
<1>5. ASSUME NEW i \in 1 .. Len(x), NEW h \in 1 .. i - 1
      PROVE  /\ h \in 1 .. Len(w) /\ x[h] = w[h]
             /\ (i \in 1 .. Len(w) /\ x[i] = w[i]) \/ (i = Len(w) + 1 /\ x[i] = m)
  BY <1>1
<1>6. ASSUME CloseIn(w) PROVE CloseIn(x)
  <2> SUFFICES ASSUME NEW i \in 1 .. Len(x), NEW h \in 1 .. i - 1, IsOrder(x[h]), IsOrder(x[i])
               PROVE  x[h].id - x[i].id <= CacheLimit - 2
    BY DEF CloseIn
  <2>1. CASE i \in 1 .. Len(w) /\ x[i] = w[i]
    BY <1>5, <1>6, <2>1 DEF CloseIn
  <2>2. CASE x[i] = m
    <3>1. n - m.id < CacheLimit /\ x[h].id \in Nat /\ x[h].id < n
      BY <1>2, <1>5, <2>2
    <3> QED
      BY <1>3, <2>2, <3>1
  <2> QED
    BY <1>5, <2>1, <2>2
<1>7. ASSUME LateIn(w, n) PROVE LateIn(x, n)
  <2> SUFFICES ASSUME NEW i \in 1 .. Len(x), NEW h \in 1 .. i - 1, x[h].type = "End", IsOrder(x[i])
               PROVE  n - x[i].id < CacheLimit
    BY DEF LateIn
  <2>1. CASE i \in 1 .. Len(w) /\ x[i] = w[i]
    BY <1>5, <1>7, <2>1 DEF LateIn
  <2>2. CASE x[i] = m
    BY <2>2
  <2> QED
    BY <1>5, <2>1, <2>2
<1> QED
  BY <1>4, <1>6, <1>7 DEF x

LEMMA SentWithMore ==
    ASSUME NEW w \in Seq(AnyMessages), NEW m \in AnyMessages, NEW ps, NEW r, SentIn(ps, w, r)
    PROVE  SentIn(ps, Append(w, m), r)
<1> DEFINE x == Append(w, m)
<1>1. /\ Len(x) = Len(w) + 1 /\ Len(w) \in Nat
      /\ \A i \in 1 .. Len(w) : x[i] = w[i] /\ i \in 1 .. Len(x)
  BY AppendIs
<1> HIDE DEF x
<1>2. \A k : Travelling(w, k) => Travelling(x, k)
  BY <1>1 DEF Travelling
<1> QED
  BY <1>2 DEF SentIn, x

LEMMA RemembersMore ==
    ASSUME NEW r \in Seq(ResultMessages), Len(r) <= CacheLimit, NEW m \in ResultMessages
    PROVE  LET x == RememberCommandResult(r, m) IN
           /\ x \in Seq(ResultMessages)
           /\ \/ /\ Len(r) < CacheLimit /\ Len(x) = Len(r) + 1 /\ x[Len(x)] = m
                 /\ \A i \in 1 .. Len(r) : i \in 1 .. Len(x) /\ x[i] = r[i]
              \/ /\ Len(r) = CacheLimit /\ Len(x) = Len(r) /\ x[Len(x)] = m
                 /\ \A i \in 2 .. Len(r) : i - 1 \in 1 .. Len(x) /\ x[i - 1] = r[i]
<1>1. Len(r) \in Nat /\ CacheLimit \in Nat \ {0}
  BY BoundAssumption
<1>2. CASE Len(r) < CacheLimit
  <2> DEFINE x == Append(r, m)
  <2>1. /\ x \in Seq(ResultMessages) /\ Len(x) = Len(r) + 1 /\ x[Len(r) + 1] = m
        /\ \A i \in 1 .. Len(r) : x[i] = r[i]
    BY AppendIs
  <2>2. RememberCommandResult(r, m) = x
    BY <1>2 DEF RememberCommandResult
  <2> HIDE DEF x
  <2>3. \A i \in 1 .. Len(r) : i \in 1 .. Len(x)
    BY <1>1, <2>1
  <2> QED
    BY <1>2, <2>1, <2>2, <2>3
<1>3. CASE ~(Len(r) < CacheLimit)
  <2> DEFINE t == Tail(r)
             x == Append(t, m)
  <2>1. r # <<>> /\ Len(r) = CacheLimit
    BY <1>1, <1>3
  <2>2. /\ t \in Seq(ResultMessages) /\ Len(t) = Len(r) - 1
        /\ \A i \in 2 .. Len(r) : i - 1 \in 1 .. Len(t) /\ t[i - 1] = r[i]
    BY <2>1, TailIs
  <2> HIDE DEF t
  <2>3. /\ x \in Seq(ResultMessages) /\ Len(x) = Len(t) + 1 /\ x[Len(t) + 1] = m
        /\ \A i \in 1 .. Len(t) : x[i] = t[i]
    BY <2>2, AppendIs
  <2>4. RememberCommandResult(r, m) = x
    BY <1>3 DEF RememberCommandResult, t
  <2> HIDE DEF x
  <2>5. Len(x) = Len(r) /\ x[Len(x)] = m
    BY <1>1, <2>2, <2>3
  <2>6. \A i \in 2 .. Len(r) : i - 1 \in 1 .. Len(x) /\ x[i - 1] = r[i]
    BY <1>1, <2>2, <2>3, <2>5
  <2> QED
    BY <2>1, <2>3, <2>4, <2>5, <2>6
<1> QED
  BY <1>2, <1>3

\* The first result of a full cache is too old to be asked for.
LEMMA FirstIsOld ==
    ASSUME NEW r \in Seq(ResultMessages), Len(r) = CacheLimit, SpacedIn(r),
           NEW top \in Nat, \A i \in 1 .. Len(r) : r[i].id # EndId => r[i].id < top,
           NEW k \in Ids, r[1].id = k
    PROVE  /\ top - k >= CacheLimit - 1
           /\ ~HasId(r, EndId) => top - k >= CacheLimit
<1> DEFINE n == Len(r)
<1>1. n \in Nat \ {0} /\ CacheLimit = n /\ 1 \in 1 .. n /\ n \in 1 .. n /\ k \in Nat /\ k # EndId
  BY BoundAssumption DEF Ids, EndId
<1>2. \A i \in 1 .. n : r[i] \in ResultMessages /\ r[i].id \in Nat
  <2>1. \A i \in 1 .. n : r[i] \in ResultMessages
    OBVIOUS
  <2>2. \A m \in ResultMessages : m.id \in Nat
    BY BoundAssumption DEF ResultMessages
  <2> QED
    BY <2>1, <2>2
<1>3. k < top
  BY <1>1
<1>4. CASE n = 1
  BY <1>1, <1>3, <1>4
<1>5. CASE n # 1 /\ r[n].id # EndId
  <2>1. r[n].id - r[1].id >= n - 1 - (IF EndBetween(r, 1, n) THEN 1 ELSE 0)
    BY <1>1, <1>5 DEF SpacedIn
  <2>2. r[n].id < top /\ r[n].id \in Nat
    BY <1>1, <1>2, <1>5
  <2>3. EndBetween(r, 1, n) => HasId(r, EndId)
    <3>1. \A h \in 1 + 1 .. n - 1 : h \in 1 .. n
      BY <1>1
    <3> QED
      BY <3>1 DEF EndBetween, HasId
  <2>4. r[n].id - k >= n - 2 /\ (~HasId(r, EndId) => r[n].id - k >= n - 1)
    BY <1>1, <2>1, <2>2, <2>3
  <2> QED
    BY <1>1, <2>2, <2>4
<1>6. CASE n # 1 /\ r[n].id = EndId
  <2> DEFINE j == n - 1
  <2>1. j \in 1 .. n /\ j # n /\ j \in Nat
    BY <1>1, <1>6
  <2>2. r[j].id # EndId /\ ~EndBetween(r, 1, j)
    <3>1. \A h \in 1 + 1 .. j - 1 : h \in 1 .. n /\ h # n
      BY <1>1
    <3> QED
      BY <1>1, <1>6, <2>1, <3>1 DEF SpacedIn, EndBetween
  <2>3. r[j].id < top /\ r[j].id \in Nat
    BY <1>2, <2>1, <2>2
  <2>4. CASE j = 1
    BY <1>1, <1>3, <1>6, <2>4 DEF HasId
  <2>5. CASE j # 1
    <3>1. 1 < j
      BY <2>1, <2>5
    <3>2. r[j].id - r[1].id >= j - 1 - (IF EndBetween(r, 1, j) THEN 1 ELSE 0)
      BY <1>1, <2>1, <2>2, <3>1 DEF SpacedIn
    <3>3. r[j].id - k >= n - 2
      BY <1>1, <2>2, <3>2
    <3>4. HasId(r, EndId)
      BY <1>1, <1>6 DEF HasId
    <3> QED
      BY <1>1, <2>3, <3>3, <3>4
  <2> QED
    BY <2>4, <2>5
<1> QED
  BY <1>1, <1>4, <1>5, <1>6

\* A result that may be asked for is still in the cache after one more.
LEMMA StaysCached ==
    ASSUME NEW r \in Seq(ResultMessages), Len(r) <= CacheLimit, SpacedIn(r),
           NEW top \in Nat, \A i \in 1 .. Len(r) : r[i].id # EndId => r[i].id < top,
           NEW k \in Ids, HasId(r, k), NEW m \in ResultMessages,
           \/ top - k <= CacheLimit - 2
           \/ ~HasId(r, EndId) /\ top - k <= CacheLimit - 1
    PROVE  HasId(RememberCommandResult(r, m), k)
<1> DEFINE x == RememberCommandResult(r, m)
<1>1. /\ \/ \A i \in 1 .. Len(r) : i \in 1 .. Len(x) /\ x[i] = r[i]
         \/ /\ Len(r) = CacheLimit
            /\ \A i \in 2 .. Len(r) : i - 1 \in 1 .. Len(x) /\ x[i - 1] = r[i]
  BY RemembersMore
<1> HIDE DEF x
<1>2. PICK i \in 1 .. Len(r) : r[i].id = k
  BY DEF HasId
<1>3. CASE Len(r) = CacheLimit /\ i = 1
  <2>1. top - k >= CacheLimit - 1 /\ (~HasId(r, EndId) => top - k >= CacheLimit)
    BY <1>2, <1>3, FirstIsOld
  <2>2. top - k \in Int /\ CacheLimit \in Nat
    BY BoundAssumption DEF Ids
  <2> QED
    BY <2>1, <2>2
<1>4. CASE ~(Len(r) = CacheLimit /\ i = 1)
  <2>1. i = 1 \/ i \in 2 .. Len(r)
    OBVIOUS
  <2>2. CASE \A j \in 1 .. Len(r) : j \in 1 .. Len(x) /\ x[j] = r[j]
    BY <1>2, <2>2 DEF HasId, x
  <2>3. CASE i \in 2 .. Len(r) /\ \A j \in 2 .. Len(r) : j - 1 \in 1 .. Len(x) /\ x[j - 1] = r[j]
    BY <1>2, <2>3 DEF HasId, x
  <2> QED
    BY <1>1, <1>4, <2>1, <2>2, <2>3
<1> QED
  BY <1>3, <1>4

LEMMA SpacedInTail ==
    ASSUME NEW r \in Seq(ResultMessages), r # <<>>, SpacedIn(r)
    PROVE  SpacedIn(Tail(r))
<1> DEFINE t == Tail(r)
<1>1. /\ Len(t) = Len(r) - 1 /\ Len(r) \in Nat \ {0}
      /\ \A i \in 1 .. Len(t) : i + 1 \in 2 .. Len(r) /\ t[i] = r[i + 1]
      /\ \A i \in 2 .. Len(r) : i - 1 \in 1 .. Len(t) /\ t[i - 1] = r[i]
  BY TailIs
<1> HIDE DEF t
<1>2. ASSUME NEW i \in 1 .. Len(t), NEW j \in 1 .. Len(t), t[i].id = EndId, t[j].id = EndId
      PROVE  i = j
  <2>1. i + 1 \in 1 .. Len(r) /\ j + 1 \in 1 .. Len(r) /\ r[i + 1].id = EndId /\ r[j + 1].id = EndId
    BY <1>1, <1>2
  <2>2. i + 1 = j + 1
    BY <2>1 DEF SpacedIn
  <2> QED
    BY <1>1, <2>2
<1>3. ASSUME NEW i \in 1 .. Len(t), NEW j \in 1 .. Len(t), i < j, t[i].id # EndId, t[j].id # EndId
      PROVE  t[j].id - t[i].id >= j - i - (IF EndBetween(t, i, j) THEN 1 ELSE 0)
  <2>1. i + 1 \in 1 .. Len(r) /\ j + 1 \in 1 .. Len(r) /\ i + 1 < j + 1
        /\ t[i] = r[i + 1] /\ t[j] = r[j + 1]
    BY <1>1, <1>3
  <2>2. r[j + 1].id - r[i + 1].id
          >= (j + 1) - (i + 1) - (IF EndBetween(r, i + 1, j + 1) THEN 1 ELSE 0)
    BY <1>3, <2>1 DEF SpacedIn
  <2>3. ASSUME EndBetween(r, i + 1, j + 1) PROVE EndBetween(t, i, j)
    <3>1. PICK h \in (i + 1) + 1 .. (j + 1) - 1 : r[h].id = EndId
      BY <2>3 DEF EndBetween
    <3>2. h \in 2 .. Len(r) /\ h - 1 \in i + 1 .. j - 1
      BY <1>1, <2>1
    <3>3. t[h - 1].id = EndId
      BY <1>1, <3>1, <3>2
    <3> QED
      BY <3>2, <3>3 DEF EndBetween
  <2>4. t[i].id \in Int /\ t[j].id \in Int
    <3>1. r[i + 1] \in ResultMessages /\ r[j + 1] \in ResultMessages
      BY <2>1
    <3>2. \A m \in ResultMessages : m.id \in Int
      BY BoundAssumption DEF ResultMessages
    <3> QED
      BY <2>1, <3>1, <3>2
  <2>5. i \in Int /\ j \in Int
    BY <1>1
  <2> QED
    BY <2>1, <2>2, <2>3, <2>4, <2>5
<1> QED
  BY <1>2, <1>3 DEF SpacedIn, t

LEMMA SpacedWithOne ==
    ASSUME NEW r \in Seq(ResultMessages), SpacedIn(r), NEW m \in ResultMessages,
           m.id # EndId => \A i \in 1 .. Len(r) : r[i].id # EndId => r[i].id < m.id,
           m.id = EndId => ~HasId(r, EndId)
    PROVE  SpacedIn(Append(r, m))
<1> DEFINE x == Append(r, m)
           n == Len(r)
<1>1. /\ Len(x) = n + 1 /\ n \in Nat /\ x[n + 1] = m /\ \A i \in 1 .. n : x[i] = r[i]
  BY AppendIs
<1>2. m.id \in Nat /\ \A i \in 1 .. n : r[i].id \in Nat
  <2>1. \A i \in 1 .. n : r[i] \in ResultMessages
    OBVIOUS
  <2>2. \A a \in ResultMessages : a.id \in Nat
    BY BoundAssumption DEF ResultMessages
  <2> QED
    BY <2>1, <2>2
<1>3. \A i \in 1 .. Len(x) : i \in 1 .. n \/ i = n + 1
  BY <1>1
<1> HIDE DEF x
<1>4. ASSUME NEW i \in 1 .. Len(x), NEW j \in 1 .. Len(x), x[i].id = EndId, x[j].id = EndId
      PROVE  i = j
  <2>1. CASE i \in 1 .. n /\ j \in 1 .. n
    BY <1>1, <1>4, <2>1 DEF SpacedIn
  <2>2. CASE i = n + 1 /\ j \in 1 .. n
    BY <1>1, <1>4, <2>2 DEF HasId
  <2>3. CASE j = n + 1 /\ i \in 1 .. n
    BY <1>1, <1>4, <2>3 DEF HasId
  <2> QED
    BY <1>3, <2>1, <2>2, <2>3
<1>5. ASSUME NEW i \in 1 .. n, NEW j \in 1 .. n, i < j, r[i].id # EndId, r[j].id # EndId
      PROVE  r[j].id - r[i].id >= j - i - (IF EndBetween(r, i, j) THEN 1 ELSE 0)
  BY <1>5 DEF SpacedIn
<1>6. ASSUME NEW i \in 1 .. n, NEW j \in 1 .. n + 1
      PROVE  EndBetween(r, i, j) => EndBetween(x, i, j)
  <2>1. \A h \in i + 1 .. j - 1 : h \in 1 .. n
    BY <1>1
  <2> QED
    BY <1>1, <2>1 DEF EndBetween
<1>7. ASSUME NEW i \in 1 .. n, x[i].id # EndId, m.id # EndId
      PROVE  m.id - x[i].id >= (n + 1) - i - (IF EndBetween(x, i, n + 1) THEN 1 ELSE 0)
  <2>1. r[i].id < m.id /\ x[i] = r[i] /\ r[i].id # EndId /\ n \in 1 .. n
    BY <1>1, <1>7
  <2>2. CASE r[n].id # EndId
    <3>1. CASE i = n
      BY <1>1, <1>2, <2>1, <3>1
    <3>2. CASE i < n
      <4>1. r[n].id - r[i].id >= n - i - (IF EndBetween(r, i, n) THEN 1 ELSE 0)
        BY <1>5, <2>1, <2>2, <3>2
      <4>2. r[n].id < m.id /\ r[n].id \in Nat
        BY <1>2, <1>7, <2>1, <2>2
      <4>3. EndBetween(r, i, n) => EndBetween(x, i, n + 1)
        <5>1. ASSUME NEW h \in i + 1 .. n - 1, r[h].id = EndId
              PROVE  h \in i + 1 .. (n + 1) - 1 /\ x[h].id = EndId
          BY <1>1, <5>1
        <5> QED
          BY <5>1 DEF EndBetween
      <4> QED
        BY <1>1, <1>2, <2>1, <4>1, <4>2, <4>3
    <3> QED
      BY <1>1, <3>1, <3>2
  <2>3. CASE r[n].id = EndId
    <3>1. i # n /\ i < n /\ n - 1 \in 1 .. n /\ n - 1 # n
      BY <1>1, <2>1, <2>3
    <3>2. EndBetween(x, i, n + 1)
      <4>1. n \in i + 1 .. (n + 1) - 1 /\ x[n].id = EndId
        BY <1>1, <2>1, <2>3, <3>1
      <4> QED
        BY <4>1 DEF EndBetween
    <3>3. CASE i = n - 1
      BY <1>1, <1>2, <2>1, <3>2, <3>3
    <3>4. CASE i < n - 1
      <4>1. r[n - 1].id # EndId /\ ~EndBetween(r, i, n - 1)
        <5>1. \A h \in i + 1 .. (n - 1) - 1 : h \in 1 .. n /\ h # n
          BY <1>1
        <5> QED
          BY <2>1, <2>3, <3>1, <5>1 DEF SpacedIn, EndBetween
      <4>2. r[n - 1].id - r[i].id >= (n - 1) - i
        BY <1>1, <1>2, <1>5, <2>1, <3>1, <3>4, <4>1
      <4>3. r[n - 1].id < m.id /\ r[n - 1].id \in Nat
        BY <1>2, <1>7, <3>1, <4>1
      <4> QED
        BY <1>1, <1>2, <2>1, <3>2, <4>2, <4>3
    <3> QED
      BY <1>1, <3>1, <3>3, <3>4
  <2> QED
    BY <2>2, <2>3
<1>8. ASSUME NEW i \in 1 .. Len(x), NEW j \in 1 .. Len(x), i < j, x[i].id # EndId, x[j].id # EndId
      PROVE  x[j].id - x[i].id >= j - i - (IF EndBetween(x, i, j) THEN 1 ELSE 0)
  <2>1. i \in 1 .. n
    BY <1>1, <1>8
  <2>2. CASE j \in 1 .. n
    <3>1. r[j].id - r[i].id >= j - i - (IF EndBetween(r, i, j) THEN 1 ELSE 0)
          /\ x[i] = r[i] /\ x[j] = r[j]
      BY <1>1, <1>5, <1>8, <2>1, <2>2
    <3>2. EndBetween(r, i, j) => EndBetween(x, i, j)
      BY <1>1, <1>6, <2>1, <2>2
    <3>3. r[i].id \in Nat /\ r[j].id \in Nat /\ i \in Nat /\ j \in Nat
      BY <1>1, <1>2, <2>1, <2>2
    <3> QED
      BY <3>1, <3>2, <3>3
  <2>3. CASE j = n + 1
    BY <1>1, <1>7, <1>8, <2>1, <2>3
  <2> QED
    BY <1>3, <2>2, <2>3
<1> QED
  BY <1>4, <1>8 DEF SpacedIn, x

LEMMA SpacedWithMore ==
    ASSUME NEW r \in Seq(ResultMessages), Len(r) <= CacheLimit, SpacedIn(r),
           NEW m \in ResultMessages,
           m.id # EndId => \A i \in 1 .. Len(r) : r[i].id # EndId => r[i].id < m.id,
           m.id = EndId => ~HasId(r, EndId)
    PROVE  SpacedIn(RememberCommandResult(r, m))
<1>1. CASE Len(r) < CacheLimit
  BY <1>1, SpacedWithOne DEF RememberCommandResult
<1>2. CASE ~(Len(r) < CacheLimit)
  <2> DEFINE t == Tail(r)
  <2>1. r # <<>>
    BY <1>2, BoundAssumption
  <2>2. /\ t \in Seq(ResultMessages) /\ \A i \in 1 .. Len(t) : i + 1 \in 1 .. Len(r) /\ t[i] = r[i + 1]
    <3>1. Len(r) \in Nat
      OBVIOUS
    <3>2. /\ t \in Seq(ResultMessages) /\ Len(t) = Len(r) - 1
          /\ \A i \in 1 .. Len(t) : i + 1 \in 2 .. Len(r) /\ t[i] = r[i + 1]
      BY <2>1, TailIs
    <3> QED
      BY <3>1, <3>2
  <2>3. SpacedIn(t)
    BY <2>1, SpacedInTail
  <2>4. RememberCommandResult(r, m) = Append(t, m)
    BY <1>2 DEF RememberCommandResult
  <2> HIDE DEF t
  <2>5. m.id # EndId => \A i \in 1 .. Len(t) : t[i].id # EndId => t[i].id < m.id
    BY <2>2
  <2>6. m.id = EndId => ~HasId(t, EndId)
    BY <2>2 DEF HasId
  <2> QED
    BY <2>2, <2>3, <2>4, <2>5, <2>6, SpacedWithOne
<1> QED
  BY <1>1, <1>2

------------------------------------------------------------------------------
(* What the steps do to what is on its way.                                  *)

\* The controller hears of ends and statuses, what it was to hear before, and
\* results out of the cache.
Heard(x) ==
    \A i \in 1 .. Len(x) :
      \/ x[i].id = EndId
      \/ \E h \in 1 .. Len(wire[Controller]) : wire[Controller][h] = x[i]
      \/ \E j \in 1 .. Len(results[Controlled]) : results[Controlled][j] = x[i]

\* The controlled end is sent m, which is no command or the copy of one.
Adds(m) ==
    /\ m.id < nextId
    /\ m.type = "End" => phase'[Controller] \notin Live
    /\ IsOrder(m) => \E p \in pending[Controller] : p.attempts = 1 /\ p.command = m

Delivered ==
    LET w == wire[Controlled] IN
    \/ wire'[Controlled] = w
    \/ \E m \in AnyMessages : wire'[Controlled] = Append(w, m) /\ Adds(m)
    \/ /\ w # <<>> /\ wire'[Controlled] = Tail(w)
       /\ IsOrder(Head(w)) => HasId(results[Controlled], Head(w).id)

\* The controlled end reads that the other end stops.
EndRead ==
    LET w == wire[Controlled] IN
    /\ w # <<>> /\ Head(w).type = "End" /\ ~HasId(results[Controlled], EndId)
    /\ wire'[Controlled] = Tail(w)
    /\ results'[Controlled] = RememberCommandResult(results[Controlled], Result(EndId, TRUE))

\* No command is executed, and none is new.
Passes ==
    /\ UNCHANGED <<executed, nextId, inForce>>
    /\ IsOpen(Controlled)' => IsOpen(Controlled)
    /\ phase[Controller] \notin Live => phase'[Controller] \notin Live
    /\ \/ Delivered /\ results'[Controlled] = results[Controlled]
       \/ ~IsOpen(Controlled)' /\ wire'[Controlled] = <<>> /\ results'[Controlled] = <<>>
       \/ EndRead
    /\ Heard(wire'[Controller])

LEMMA HeardBefore ==
    ASSUME Typed
    PROVE  /\ Heard(wire[Controller]) /\ Heard(<<>>)
           /\ wire[Controller] # <<>> => Heard(Tail(wire[Controller]))
<1>1. wire[Controller] \in Seq(AnyMessages)
  BY TwoEnds DEF Typed, ChannelTyped
<1>2. wire[Controller] # <<>> => Heard(Tail(wire[Controller]))
  <2> SUFFICES ASSUME wire[Controller] # <<>> PROVE Heard(Tail(wire[Controller]))
    OBVIOUS
  <2>1. \A i \in 1 .. Len(Tail(wire[Controller])) :
           i + 1 \in 1 .. Len(wire[Controller]) /\ Tail(wire[Controller])[i] = wire[Controller][i + 1]
    BY <1>1, TailIs
  <2> QED
    BY <2>1 DEF Heard
<1> QED
  BY <1>1, <1>2 DEF Heard

LEMMA HeardWithMore ==
    ASSUME Typed, NEW ms \in Seq(AnyMessages),
           \A i \in 1 .. Len(ms) :
             \/ ms[i].id = EndId
             \/ \E j \in 1 .. Len(results[Controlled]) : results[Controlled][j] = ms[i]
    PROVE  Heard(Sent(wire[Controller], ms))
<1> DEFINE w == wire[Controller]
           x == Sent(w, ms)
<1>1. w \in Seq(AnyMessages) /\ Len(w) <= WireLimit /\ Len(w) \in Nat /\ Len(ms) \in Nat
  BY TwoEnds DEF Typed, ChannelTyped
<1>2. x \in Seq(AnyMessages) /\ Extends(w, ms, x)
  BY <1>1, SentExtends
<1> HIDE DEF x
<1> SUFFICES ASSUME NEW i \in 1 .. Len(x)
             PROVE  \/ x[i].id = EndId
                    \/ \E h \in 1 .. Len(w) : w[h] = x[i]
                    \/ \E j \in 1 .. Len(results[Controlled]) : results[Controlled][j] = x[i]
  BY DEF Heard, x
<1>3. CASE i \in 1 .. Len(w)
  BY <1>2, <1>3 DEF Extends
<1>4. CASE i \notin 1 .. Len(w)
  <2>1. i - Len(w) \in 1 .. Len(x) - Len(w) /\ i - Len(w) \in 1 .. Len(ms)
        /\ Len(w) + (i - Len(w)) = i
    BY <1>1, <1>2, <1>4 DEF Extends
  <2>2. x[i] = ms[i - Len(w)]
    BY <1>2, <2>1 DEF Extends
  <2> QED
    BY <2>1, <2>2
<1> QED
  BY <1>3, <1>4

LEMMA SentMaybe ==
    ASSUME NEW w \in Seq(AnyMessages), Len(w) <= WireLimit, NEW m \in AnyMessages
    PROVE  Sent(w, <<m>>) = w \/ Sent(w, <<m>>) = Append(w, m)
<1> DEFINE x == Sent(w, <<m>>)
<1>1. CASE Len(w) < WireLimit
  BY <1>1, SentOne
<1>2. CASE ~(Len(w) < WireLimit)
  <2>1. Len(w) \in Nat /\ WireLimit \in Nat /\ Len(w) = WireLimit
    BY <1>2, BoundAssumption
  <2>2. <<m>> \in Seq(AnyMessages) /\ Len(<<m>>) = 1
    OBVIOUS
  <2>3. x \in Seq(AnyMessages) /\ Extends(w, <<m>>, x)
    BY <2>2, SentExtends
  <2>4. Len(x) = Len(w) /\ \A i \in 1 .. Len(w) : x[i] = w[i]
    BY <2>1, <2>2, <2>3 DEF Extends
  <2> HIDE DEF x
  <2>5. x = w
    BY <2>3, <2>4, SeqEqual
  <2> QED
    BY <2>5 DEF x
<1> QED
  BY <1>1, <1>2

LEMMA EndAdds ==
    ASSUME Typed, NEW m \in AnyMessages, m.id = EndId, ~IsOrder(m),
           m.type = "End" => phase'[Controller] \notin Live
    PROVE  Adds(m)
BY DEF Adds, Typed, CountsTyped, EndId

LEMMA TearingPasses ==
    ASSUME Typed, NEW e \in Ends, NEW v, NEW ps, Tears(e, v, ps),
           UNCHANGED <<executed, nextId, inForce>>,
           e = Controlled => Heard(v),
           e = Controller =>
             \/ v = wire[Controlled]
             \/ \E m \in AnyMessages :
                   m.id = EndId /\ m.type # "End" /\ ~IsOrder(m) /\ v = Append(wire[Controlled], m)
    PROVE  Passes
<1>1. /\ phase \in [Ends -> Phases] /\ wire \in [Ends -> Seq(AnyMessages)]
      /\ results \in [Ends -> Seq(ResultMessages)]
      /\ phase' = [phase EXCEPT ![e] = "Tearing"]
      /\ wire' = [wire EXCEPT ![Peer(e)] = v, ![e] = <<>>]
      /\ results' = [results EXCEPT ![e] = <<>>]
  BY DEF Typed, SessionTyped, ChannelTyped, ResultsTyped, Tears
<1>2. CASE e = Controlled
  <2>1. /\ ~IsOpen(Controlled)' /\ wire'[Controlled] = <<>> /\ results'[Controlled] = <<>>
        /\ wire'[Controller] = v /\ phase'[Controller] = phase[Controller]
    BY <1>1, <1>2, TwoEnds DEF IsOpen
  <2> QED
    BY <1>2, <2>1 DEF Passes
<1>3. CASE e = Controller
  <2>1. /\ wire'[Controller] = <<>> /\ results'[Controlled] = results[Controlled]
        /\ wire'[Controlled] = v /\ phase'[Controlled] = phase[Controlled]
        /\ phase'[Controller] \notin Live
    BY <1>1, <1>3, TwoEnds DEF Live
  <2>2. Heard(wire'[Controller])
    BY <2>1, HeardBefore
  <2>3. Delivered
    BY <1>3, <2>1, EndAdds DEF Delivered
  <2> QED
    BY <2>1, <2>2, <2>3 DEF Passes, IsOpen
<1> QED
  BY <1>2, <1>3, TwoEnds

LEMMA StoppingPasses ==
    ASSUME Typed, NEW e \in Ends, NEW ps, Stops(e, wire[Peer(e)], ps),
           UNCHANGED <<executed, nextId, inForce>>, phase[e] \in Live
    PROVE  Passes
<1>1. /\ phase \in [Ends -> Phases] /\ wire \in [Ends -> Seq(AnyMessages)]
      /\ phase' = [phase EXCEPT ![e] = "Stopping"] /\ Len(wire[Peer(e)]) < WireLimit
      /\ wire' = [wire EXCEPT ![Peer(e)] = Append(wire[Peer(e)], EndCommand)]
      /\ results' = results
  BY DEF Typed, SessionTyped, ChannelTyped, Stops
<1>2. EndCommand \in AnyMessages /\ EndCommand.id = EndId /\ ~IsOrder(EndCommand)
  BY EndIsMessage DEF EndCommand, Command, IsOrder
<1>3. IsOpen(Controlled)' => IsOpen(Controlled)
  BY <1>1, TwoEnds DEF IsOpen, Live
<1>4. CASE e = Controlled
  <2>1. /\ wire'[Controlled] = wire[Controlled] /\ phase'[Controller] = phase[Controller]
        /\ wire'[Controller] = Append(wire[Controller], EndCommand)
        /\ Len(wire[Controller]) < WireLimit
    BY <1>1, <1>4, TwoEnds
  <2>2. wire'[Controller] = Sent(wire[Controller], <<EndCommand>>)
    BY <1>1, <1>2, <2>1, SentOne, TwoEnds
  <2> DEFINE ms == <<EndCommand>>
  <2>3. ms \in Seq(AnyMessages) /\ \A i \in 1 .. Len(ms) : ms[i].id = EndId
    BY <1>2
  <2> HIDE DEF ms
  <2>4. Heard(Sent(wire[Controller], ms))
    BY <2>3, HeardWithMore
  <2>5. Heard(wire'[Controller])
    BY <2>2, <2>4 DEF ms
  <2>6. Delivered
    BY <2>1 DEF Delivered
  <2> QED
    BY <1>1, <1>3, <2>1, <2>5, <2>6 DEF Passes
<1>5. CASE e = Controller
  <2>1. /\ wire'[Controller] = wire[Controller]
        /\ wire'[Controlled] = Append(wire[Controlled], EndCommand)
        /\ phase'[Controller] \notin Live
    BY <1>1, <1>5, TwoEnds DEF Live
  <2>2. Delivered
    BY <1>2, <2>1, EndAdds DEF Delivered
  <2>3. Heard(wire'[Controller])
    BY <2>1, HeardBefore
  <2> QED
    BY <1>1, <1>3, <2>1, <2>2, <2>3 DEF Passes
<1> QED
  BY <1>4, <1>5, TwoEnds

LEMMA FinishPasses ==
    ASSUME Typed, NEW e \in Ends, NEW notify, phase[e] \in Live,
           FinishSession(e, Letter(wire[Peer(e)], pending[e]), notify),
           UNCHANGED <<executed, nextId, inForce>>
    PROVE  Passes
<1>1. Sendable(e, wire[Peer(e)], pending[e])
  BY OutIsSendable
<1>2. Stops(e, wire[Peer(e)], pending[e]) \/ Tears(e, wire[Peer(e)], pending[e])
  BY <1>1, FinishGives
<1>3. e = Controlled => Heard(wire[Peer(e)])
  BY HeardBefore, TwoEnds
<1>4. e = Controller => wire[Peer(e)] = wire[Controlled]
  BY TwoEnds
<1> QED
  BY <1>2, <1>3, <1>4, StoppingPasses, TearingPasses

LEMMA EndingPasses ==
    ASSUME Typed, NEW e \in Ends, Ending(e)
    PROVE  Passes
<1>1. UNCHANGED <<executed, nextId, inForce>>
  BY EndingGives DEF endUnchanged
<1>2. CASE Tears(e, wire[Peer(e)], pending[e])
  BY <1>1, <1>2, TearingPasses, HeardBefore, TwoEnds
<1>3. CASE phase[e] \in Live
             /\ \E notify \in BOOLEAN : FinishSession(e, Letter(wire[Peer(e)], pending[e]), notify)
  BY <1>1, <1>3, FinishPasses
<1> QED
  BY <1>2, <1>3, EndingGives

\* An end reads a message and answers it with m, or not at all.
LEMMA ReadingPasses ==
    ASSUME Typed, NEW e \in Ends, NEW v, NEW ps, Reads(e, Letter(v, ps)), wire[e] # <<>>,
           UNCHANGED <<executed, nextId, inForce, phase>>,
           results'[Controlled] = results[Controlled],
           e = Controlled => /\ Heard(v)
                             /\ IsOrder(Head(wire[e])) => HasId(results[e], Head(wire[e]).id),
           e = Controller =>
             \/ v = wire[Controlled]
             \/ \E m \in AnyMessages :
                   m.id = EndId /\ m.type # "End" /\ ~IsOrder(m) /\ v = Append(wire[Controlled], m)
    PROVE  Passes
<1>1. /\ wire \in [Ends -> Seq(AnyMessages)]
      /\ wire' = [wire EXCEPT ![e] = Tail(wire[e]), ![Peer(e)] = v]
  BY DEF Typed, ChannelTyped, Reads, Letter
<1>2. CASE e = Controlled
  <2>1. wire'[Controlled] = Tail(wire[Controlled]) /\ wire'[Controller] = v
    BY <1>1, <1>2, TwoEnds
  <2> QED
    BY <1>2, <2>1 DEF Passes, Delivered, IsOpen
<1>3. CASE e = Controller
  <2>1. wire'[Controller] = Tail(wire[Controller]) /\ wire'[Controlled] = v
    BY <1>1, <1>3, TwoEnds
  <2>2. Heard(wire'[Controller])
    BY <1>3, <2>1, HeardBefore
  <2>3. Delivered
    BY <1>3, <2>1, EndAdds DEF Delivered
  <2> QED
    BY <2>2, <2>3 DEF Passes, IsOpen
<1> QED
  BY <1>2, <1>3, TwoEnds

LEMMA RepeatPasses ==
    ASSUME Typed, NEW e \in Ends, RepeatResult(e)
    PROVE  Passes
<1>1. PICK j \in DOMAIN results[e] :
         /\ results[e][j].id = Head(wire[e]).id
         /\ Reads(e, Letter(Sent(wire[Peer(e)], <<results[e][j]>>), pending[e]))
  BY RepeatGives
<1> DEFINE m == results[e][j]
           v == wire[Peer(e)]
           x == Sent(v, <<m>>)
<1>2. m \in ResultMessages /\ j \in 1 .. Len(results[e])
  BY DEF Typed, ResultsTyped
<1>3. m \in AnyMessages /\ m.type = "Result" /\ ~IsOrder(m) /\ <<m>> \in Seq(AnyMessages)
  BY <1>2, ResultIsMessage DEF ResultMessages, IsOrder, CommandTypes
<1>4. /\ wire[e] # <<>> /\ Head(wire[e]).type \in CommandTypes
      /\ UNCHANGED <<executed, nextId, inForce, phase, results>>
      /\ v \in Seq(AnyMessages) /\ Len(v) <= WireLimit
  BY RepeatGives, TwoEnds DEF sessionUnchanged, history, Typed, ChannelTyped
<1>5. CASE e = Controlled
  <2> DEFINE ms == <<m>>
  <2>1. ms \in Seq(AnyMessages) /\ \A i \in 1 .. Len(ms) :
           \E k \in 1 .. Len(results[Controlled]) : results[Controlled][k] = ms[i]
    BY <1>2, <1>3, <1>5
  <2> HIDE DEF ms
  <2>2. Heard(Sent(wire[Controller], ms))
    BY <2>1, HeardWithMore
  <2>3. Heard(x)
    BY <1>5, <2>2, TwoEnds DEF ms
  <2>4. HasId(results[e], Head(wire[e]).id)
    BY <1>1, <1>2 DEF HasId
  <2> HIDE DEF m
  <2> QED
    BY <1>1, <1>4, <1>5, <2>3, <2>4, ReadingPasses, TwoEnds DEF m
<1>6. CASE e = Controller
  <2>1. Head(wire[e]) = wire[e][1] /\ 1 \in 1 .. Len(wire[e])
    BY <1>4 DEF Typed, ChannelTyped
  <2>2. Head(wire[e]) \in MessagesTo(Controller)
    BY <1>6, <2>1 DEF Typed, ChannelTyped
  <2>3. Head(wire[e]).id = EndId
    BY <1>4, <2>2, TwoEnds DEF MessagesTo, EndMessages, CommandMessages, ResultMessages,
       StatusMessages, CommandTypes
  <2>4. m.id = EndId
    BY <1>1, <2>3
  <2>5. x = v \/ x = Append(v, m)
    BY <1>3, <1>4, SentMaybe
  <2>6. v = wire[Controlled] /\ Reads(e, Letter(x, pending[e]))
    BY <1>1, <1>6, TwoEnds
  <2>7. \/ x = wire[Controlled]
        \/ \E a \in AnyMessages :
              a.id = EndId /\ a.type # "End" /\ ~IsOrder(a) /\ x = Append(wire[Controlled], a)
    BY <1>3, <2>4, <2>5, <2>6
  <2> HIDE DEF m, x, v
  <2> QED
    BY <1>4, <1>6, <2>6, <2>7, ReadingPasses, TwoEnds
<1> QED
  BY <1>5, <1>6, TwoEnds

LEMMA StatusPasses ==
    ASSUME Typed, HandleStatus
    PROVE  Passes
BY StatusGives, ReadingPasses, TwoEnds DEF sessionUnchanged, history

LEMMA ResultPasses ==
    ASSUME Typed, NEW e \in Ends, HandleResult(e)
    PROVE  Passes
<1> DEFINE r == Head(wire[e])
           w == wire[Peer(e)]
<1>1. /\ wire[e] # <<>> /\ ~IsOrder(r) /\ UNCHANGED <<executed, nextId, inForce>>
      /\ (e = Controlled => Heard(w)) /\ (e = Controller => w = wire[Controlled])
  BY ResultGives, HeardBefore, TwoEnds DEF sessionUnchanged, IsOrder, CommandTypes
<1>2. ASSUME NEW ps, Reads(e, Letter(w, ps)), UNCHANGED <<phase, results>>
      PROVE  Passes
  BY <1>1, <1>2, ReadingPasses
<1>3. ASSUME NEW ps, Tears(e, w, ps)
      PROVE  Passes
  BY <1>1, <1>3, TearingPasses
<1> QED
  BY <1>2, <1>3, ResultGives DEF Answers

LEMMA RetryPasses ==
    ASSUME Typed, WaitInv, NEW e \in Ends, Retry(e)
    PROVE  Passes
<1> DEFINE w == wire[Peer(e)]
<1>1. /\ UNCHANGED <<executed, nextId, inForce>>
      /\ wire \in [Ends -> Seq(AnyMessages)] /\ pending \in [Ends -> SUBSET Waiting]
      /\ (e = Controlled => Heard(w)) /\ (e = Controller => w = wire[Controlled])
  BY RetryGives, HeardBefore, TwoEnds DEF sessionUnchanged, Typed, ChannelTyped, PendingTyped
<1>2. PICK p \in pending[e] :
         /\ p.attempts = 1
         /\ \/ Resends(e, p)
            \/ Tears(e, w, pending[e] \ {p})
            \/ GivesUp(e, p)
  BY RetryGives
<1>3. p.command \in AnyMessages /\ (p.command.type = "End" => phase[e] = "Stopping")
      /\ (e = Controlled => p.command.id = EndId)
  BY <1>1 DEF Waiting, AnyMessages, WaitInv, EndsInOrder, Typed, PendingTyped, EndMessages,
     CommandMessages
<1>4. CASE Resends(e, p)
  <2>1. /\ wire' = [wire EXCEPT ![Peer(e)] = Append(w, p.command)] /\ Len(w) < WireLimit
        /\ UNCHANGED <<phase, results>>
    BY <1>4 DEF Resends
  <2>2. CASE e = Controlled
    <3>1. wire'[Controlled] = wire[Controlled] /\ wire'[Controller] = Append(wire[Controller], p.command)
      BY <1>1, <2>1, <2>2, TwoEnds
    <3>2. Append(wire[Controller], p.command) = Sent(wire[Controller], <<p.command>>)
      BY <1>1, <1>3, <2>1, <2>2, SentOne, TwoEnds
    <3> DEFINE ms == <<p.command>>
    <3>3. ms \in Seq(AnyMessages) /\ \A i \in 1 .. Len(ms) : ms[i].id = EndId
      BY <1>3, <2>2
    <3> HIDE DEF ms
    <3>4. Heard(Sent(wire[Controller], ms))
      BY <3>3, HeardWithMore
    <3>5. Heard(wire'[Controller])
      BY <3>1, <3>2, <3>4 DEF ms
    <3> QED
      BY <1>1, <2>1, <3>1, <3>5 DEF Passes, Delivered, IsOpen
  <2>3. CASE e = Controller
    <3>1. wire'[Controller] = wire[Controller] /\ wire'[Controlled] = Append(wire[Controlled], p.command)
      BY <1>1, <2>1, <2>3, TwoEnds
    <3>2. Heard(wire'[Controller])
      BY <3>1, HeardBefore
    <3>3. Adds(p.command)
      BY <1>2, <1>3, <2>1, <2>3 DEF Adds, WaitInv, WaitingKnown, Live
    <3>4. Delivered
      BY <1>3, <3>1, <3>3 DEF Delivered
    <3> QED
      BY <1>1, <2>1, <3>2, <3>4 DEF Passes, IsOpen
  <2> QED
    BY <2>2, <2>3, TwoEnds
<1>5. CASE Tears(e, w, pending[e] \ {p})
  BY <1>1, <1>5, TearingPasses
<1>6. CASE GivesUp(e, p)
  <2>1. wire' = wire /\ UNCHANGED <<phase, results>>
    BY <1>6 DEF GivesUp
  <2> QED
    BY <1>1, <2>1, HeardBefore DEF Passes, Delivered, IsOpen
<1> QED
  BY <1>2, <1>4, <1>5, <1>6

LEMMA TimeoutPasses ==
    ASSUME Typed, WaitInv, NEW e \in Ends, Timeout(e)
    PROVE  Passes
<1> DEFINE w == wire[Peer(e)]
<1>1. /\ UNCHANGED <<executed, nextId, inForce>>
      /\ wire \in [Ends -> Seq(AnyMessages)]
      /\ (e = Controlled => Heard(w)) /\ (e = Controller => w = wire[Controlled])
  BY TimeoutGives, HeardBefore, TwoEnds DEF sessionUnchanged, Typed, ChannelTyped
<1>2. PICK p \in pending[e] :
         \/ Tears(e, w, pending[e] \ {p})
         \/ Sends(e, Letter(w, pending[e] \ {p})) /\ UNCHANGED <<phase, results>>
         \/ FinishSession(e, Letter(w, pending[e]), FALSE)
  BY TimeoutGives
<1>3. CASE Tears(e, w, pending[e] \ {p})
  BY <1>1, <1>3, TearingPasses
<1>4. CASE Sends(e, Letter(w, pending[e] \ {p})) /\ UNCHANGED <<phase, results>>
  <2>1. wire' = [wire EXCEPT ![Peer(e)] = w]
    BY <1>4, SendsGives
  <2>2. wire' = wire
    BY <1>1, <2>1, TwoEnds
  <2> QED
    BY <1>1, <1>4, <2>2, HeardBefore DEF Passes, Delivered, IsOpen
<1>5. CASE FinishSession(e, Letter(w, pending[e]), FALSE)
  <2>1. Sendable(e, w, pending[e])
    BY OutIsSendable
  <2>2. Tears(e, w, pending[e])
    BY <1>5, <2>1, FinishGives
  <2> QED
    BY <1>1, <2>2, TearingPasses
<1> QED
  BY <1>2, <1>3, <1>4, <1>5

LEMMA EndPasses ==
    ASSUME Typed, NEW e \in Ends, ExecuteEnd(e)
    PROVE  Passes
<1> DEFINE r == Result(EndId, TRUE)
           v == wire[Peer(e)]
           x == Sent(v, <<r>>)
<1>1. r \in ResultMessages
  <2>1. EndId \in 0 .. MaxCommands
    BY BoundAssumption DEF EndId
  <2> QED
    BY <2>1, ResultTyped
<1>2. r \in AnyMessages /\ r.id = EndId /\ r.type = "Result" /\ ~IsOrder(r)
  BY <1>1, ResultIsMessage DEF Result, IsOrder, CommandTypes
<1>3. /\ wire \in [Ends -> Seq(AnyMessages)] /\ results \in [Ends -> Seq(ResultMessages)]
      /\ v \in Seq(AnyMessages) /\ Len(v) <= WireLimit
  BY TwoEnds DEF Typed, ChannelTyped, ResultsTyped
<1>4. /\ wire[e] # <<>> /\ Head(wire[e]).type = "End" /\ ~WasExecuted(e, EndId)
      /\ UNCHANGED <<executed, nextId, inForce>>
      /\ \/ /\ Reads(e, Letter(x, pending[e])) /\ UNCHANGED phase
            /\ results' = [results EXCEPT ![e] = RememberCommandResult(results[e], r)]
         \/ FinishSession(e, Letter(x, pending[e]), FALSE)
  BY EndGives DEF endUnchanged
<1>5. e = Controlled => Heard(x)
  <2> DEFINE ms == <<r>>
  <2> HIDE DEF r
  <2>1. ms \in Seq(AnyMessages) /\ \A i \in 1 .. Len(ms) : ms[i].id = EndId
    BY <1>2
  <2> HIDE DEF ms
  <2>2. Heard(Sent(wire[Controller], ms))
    BY <2>1, HeardWithMore
  <2> QED
    BY <2>2, TwoEnds DEF ms
<1>6. e = Controller =>
        \/ x = wire[Controlled]
        \/ \E m \in AnyMessages :
              m.id = EndId /\ m.type # "End" /\ ~IsOrder(m) /\ x = Append(wire[Controlled], m)
  <2>1. x = v \/ x = Append(v, r)
    BY <1>2, <1>3, SentMaybe
  <2> HIDE DEF x, r
  <2> QED
    BY <1>2, <2>1, TwoEnds
<1>7. Sendable(e, x, pending[e])
  BY <1>1, OutIsSendable, ResultIsMessage, SendsMore, TwoEnds
<1>8. ~HasId(results[e], EndId)
  <2> SUFFICES ASSUME HasId(results[e], EndId) PROVE FALSE
    OBVIOUS
  <2>1. PICK i \in 1 .. Len(results[e]) : results[e][i].id = EndId
    BY DEF HasId
  <2>2. i \in DOMAIN results[e]
    BY <1>3
  <2>3. results[e][i] \in Cached(e, EndId)
    BY <2>1, <2>2 DEF Cached
  <2> QED
    BY <1>4, <2>3 DEF WasExecuted
<1> HIDE DEF x
<1>9. CASE FinishSession(e, Letter(x, pending[e]), FALSE)
  <2>1. Tears(e, x, pending[e])
    BY <1>7, <1>9, FinishGives
  <2> QED
    BY <1>4, <1>5, <1>6, <2>1, TearingPasses
<1>10. CASE /\ Reads(e, Letter(x, pending[e])) /\ UNCHANGED phase
            /\ results' = [results EXCEPT ![e] = RememberCommandResult(results[e], r)]
  <2>1. CASE e = Controller
    <3>1. results'[Controlled] = results[Controlled]
      BY <1>3, <1>10, <2>1, TwoEnds
    <3> QED
      BY <1>4, <1>6, <1>10, <2>1, <3>1, ReadingPasses, TwoEnds
  <2>2. CASE e = Controlled
    <3>1. wire'[Controlled] = Tail(wire[Controlled]) /\ wire'[Controller] = x
          /\ results'[Controlled] = RememberCommandResult(results[Controlled], r)
      BY <1>3, <1>10, <2>2, TwoEnds DEF Reads, Letter
    <3>2. EndRead
      BY <1>4, <1>8, <2>2, <3>1 DEF EndRead
    <3>3. IsOpen(Controlled)' => IsOpen(Controlled)
      BY <1>10 DEF IsOpen
    <3> QED
      BY <1>4, <1>5, <1>10, <2>2, <3>1, <3>2, <3>3 DEF Passes
  <2> QED
    BY <2>1, <2>2, TwoEnds
<1> QED
  BY <1>4, <1>9, <1>10

LEMMA LocalPasses ==
    ASSUME Typed, Local \/ HandleEmergencyRestore
    PROVE  Passes
<1>1. UNCHANGED <<executed, nextId, inForce, results>>
  BY EmergencyGives DEF Local, FinishStopping, Interrupted, Restored, PressEmergencyRestore,
     TopologyChanges, localUnchanged, history
<1>2. phase \in [Ends -> Phases] /\ restore \in [Ends -> {"Connected", "Streaming"}]
      /\ wire \in [Ends -> Seq(AnyMessages)]
  BY DEF Typed, SessionTyped, ChannelTyped
<1>3. \A f \in Ends : /\ phase[f] \notin Live => phase'[f] \notin Live
                      /\ IsOpen(f)' => IsOpen(f)
  <2>1. CASE phase' = phase
    BY <2>1 DEF IsOpen
  <2>2. ASSUME NEW e \in Ends, FinishStopping(e) \/ Interrupted(e) \/ Restored(e), NEW f \in Ends
        PROVE  /\ phase[f] \notin Live => phase'[f] \notin Live
               /\ IsOpen(f)' => IsOpen(f)
    BY <1>2, <2>2 DEF FinishStopping, Interrupted, Restored, IsOpen, Live
  <2> QED
    BY <2>1, <2>2, EmergencyGives DEF Local, PressEmergencyRestore, TopologyChanges, localUnchanged
<1>4. wire'[Controlled] = wire[Controlled] /\ Heard(wire'[Controller])
  <2>1. CASE wire' = wire
    BY <2>1, HeardBefore
  <2>2. ASSUME NEW x, Restores(x)
        PROVE  wire'[Controlled] = wire[Controlled] /\ Heard(wire'[Controller])
    <3>1. PICK wakes \in BOOLEAN :
            LET h == Reset(Host, wakes)
                says == IF phase[Controlled] \in Live THEN h.says ELSE <<>>
            IN /\ x = Sent(wire[Controller], says) /\ wire' = [wire EXCEPT ![Controller] = x]
      BY <2>2 DEF Restores
    <3> DEFINE p == [state |-> IF wakes THEN "Inactive" ELSE "Failed", effective |-> "disabled"]
               ms == IF phase[Controlled] \in Live THEN <<Status(p)>> ELSE <<>>
    <3>2. Reset(Host, wakes) =
            HostState(p, [overlay |-> FALSE, off |-> screen.off /\ ~wakes], <<Status(p)>>)
      BY Resets DEF Typed
    <3>3. p \in PrivacyStatuses
      BY DEF PrivacyStatuses, Modes
    <3> HIDE DEF p
    <3>4. Status(p) \in AnyMessages /\ Status(p).id = EndId
      BY <3>3 DEF Status, StatusMessages, AnyMessages
    <3>5. ms \in Seq(AnyMessages) /\ \A i \in 1 .. Len(ms) : ms[i].id = EndId
      BY <3>4
    <3>6. x = Sent(wire[Controller], ms)
      BY <3>1, <3>2 DEF HostState
    <3> HIDE DEF ms
    <3>7. Heard(x)
      BY <3>5, <3>6, HeardWithMore
    <3> QED
      BY <1>2, <3>1, <3>7, TwoEnds
  <2> QED
    BY <2>1, <2>2, EmergencyGives
    DEF Local, FinishStopping, Interrupted, Restored, PressEmergencyRestore, TopologyChanges
<1> QED
  BY <1>1, <1>3, <1>4, TwoEnds DEF Passes, Delivered

LEMMA OthersPass ==
    ASSUME Typed, WaitInv, Next, ~Requests, ~Execute, ~StartSession
    PROVE  Passes
BY Steps, EndingPasses, RepeatPasses, StatusPasses, ResultPasses, RetryPasses, TimeoutPasses,
   EndPasses, LocalPasses

(* The steps that pass keep what is known of execution.                      *)

LEMMA HeardIsDone ==
    ASSUME NEW x, Heard(x), DoneIn(wire[Controller], executed), DoneIn(results[Controlled], executed)
    PROVE  DoneIn(x, executed)
<1> SUFFICES ASSUME NEW i \in 1 .. Len(x), x[i].id # EndId PROVE executed[x[i].id] = 1
  BY DEF DoneIn
<1> QED
  BY DEF Heard, DoneIn

LEMMA FewerWait ==
    ASSUME NEW ps, NEW qs, \A p \in qs : MayCopy(p) => p \in ps, NEW w, NEW r, NEW n
    PROVE  /\ SentIn(ps, w, r) => SentIn(qs, w, r)
           /\ RecentIn(ps, n) => RecentIn(qs, n)
BY DEF SentIn, RecentIn

LEMMA CopiersWaited ==
    ASSUME NEW S, WaitsOn(S), NEW p \in pending'[Controller], MayCopy(p)
    PROVE  p \in pending[Controller]
BY DEF WaitsOn, MayCopy

LEMMA DoneIsOld ==
    ASSUME NEW r \in Seq(ResultMessages), NEW n \in Nat, DoneIn(r, executed), OnceIn(executed, n)
    PROVE  \A i \in 1 .. Len(r) : r[i].id # EndId => r[i].id < n
<1> SUFFICES ASSUME NEW i \in 1 .. Len(r), r[i].id # EndId PROVE r[i].id < n
  OBVIOUS
<1>1. r[i] \in ResultMessages
  OBVIOUS
<1>2. r[i].id \in Ids
  BY <1>1, BoundAssumption DEF ResultMessages, Ids, EndId
<1>3. executed[r[i].id] = 1
  BY DEF DoneIn
<1>4. ~(r[i].id >= n)
  BY <1>2, <1>3 DEF OnceIn
<1> QED
  BY <1>2, <1>4 DEF Ids

\* What is in the cache and few ids back stays there when another comes.
LEMMA CopiesStay ==
    ASSUME NEW w \in Seq(AnyMessages), NEW r, NEW x, NEW ex, OrdersIn(w, r, ex),
           \A i \in 1 .. Len(w) : IsOrder(w[i]) /\ HasId(r, w[i].id) => HasId(x, w[i].id)
    PROVE  OrdersIn(w, x, ex)
<1> SUFFICES ASSUME NEW i \in 1 .. Len(w), IsOrder(w[i])
             PROVE  FreshIn(w, i, ex) \/ CopyIn(w, i, x)
  BY DEF OrdersIn
<1>1. FreshIn(w, i, ex) \/ CopyIn(w, i, r)
  BY DEF OrdersIn
<1>2. ASSUME CopyIn(w, i, r) PROVE CopyIn(w, i, x)
  BY <1>2 DEF CopyIn
<1> QED
  BY <1>1, <1>2

LEMMA SentStays ==
    ASSUME NEW w, NEW r, NEW x, NEW ps, SentIn(ps, w, r),
           \A p \in ps : MayCopy(p) /\ HasId(r, p.command.id) => HasId(x, p.command.id)
    PROVE  SentIn(ps, w, x)
BY DEF SentIn

ExecutionParts(w, r, ps, ex) == OrdersIn(w, r, ex) /\ SentIn(ps, w, r)

LaterParts(w, r, ps, n, ex) ==
    /\ CloseIn(w) /\ LateIn(w, n) /\ KnownIn(w, n)
    /\ RecentIn(ps, n) /\ SpacedIn(r) /\ OnceIn(ex, n) /\ DoneIn(r, ex)

LEMMA ExecutionIs ==
    ExecutionInv <=>
      /\ IsOpen(Controlled) =>
           ExecutionParts(wire[Controlled], results[Controlled], pending[Controller], executed)
      /\ LaterParts(wire[Controlled], results[Controlled], pending[Controller], nextId, executed)
      /\ EndSent /\ DoneIn(wire[Controller], executed)
BY DEF ExecutionInv, ExecutionParts, LaterParts

LEMMA ExecutionIsNext ==
    ExecutionInv' <=>
      /\ IsOpen(Controlled)' =>
           ExecutionParts(wire'[Controlled], results'[Controlled], pending'[Controller], executed')
      /\ LaterParts(wire'[Controlled], results'[Controlled], pending'[Controller], nextId', executed')
      /\ EndSent' /\ DoneIn(wire'[Controller], executed')
BY DEF ExecutionInv, ExecutionParts, LaterParts

LEMMA AppendKeeps ==
    ASSUME NEW w \in Seq(AnyMessages), NEW m \in AnyMessages, NEW r, NEW ps, NEW n \in Nat, NEW ex,
           LaterParts(w, r, ps, n, ex), m.id < n,
           IsOrder(m) => \E p \in ps : p.attempts = 1 /\ p.command = m
    PROVE  /\ LaterParts(Append(w, m), r, ps, n, ex)
           /\ ExecutionParts(w, r, ps, ex) => ExecutionParts(Append(w, m), r, ps, ex)
<1>1. ASSUME IsOrder(m)
      PROVE  \E p \in ps : MayCopy(p) /\ p.command.id = m.id
  <2>1. PICK p \in ps : p.attempts = 1 /\ p.command = m
    BY <1>1
  <2>2. m.id # EndId
    BY <1>1, OrdersAreNumbered
  <2> QED
    BY <2>1, <2>2 DEF MayCopy
<1>2. IsOrder(m) => n - m.id < CacheLimit
  BY <1>1 DEF LaterParts, RecentIn
<1>3. LaterParts(Append(w, m), r, ps, n, ex)
  BY <1>2, RestWithMore DEF LaterParts
<1>4. ASSUME ExecutionParts(w, r, ps, ex)
      PROVE  ExecutionParts(Append(w, m), r, ps, ex)
  <2>1. IsOrder(m) => HasId(r, m.id) \/ Travelling(w, m.id)
    BY <1>1, <1>4 DEF ExecutionParts, SentIn
  <2> QED
    BY <1>4, <2>1, OrdersWithMore, SentWithMore DEF ExecutionParts
<1> QED
  BY <1>3, <1>4

LEMMA TailKeeps ==
    ASSUME NEW w \in Seq(AnyMessages), w # <<>>, NEW r, NEW ps, NEW n \in Nat, NEW ex,
           LaterParts(w, r, ps, n, ex), IsOrder(Head(w)) => HasId(r, Head(w).id)
    PROVE  /\ LaterParts(Tail(w), r, ps, n, ex)
           /\ ExecutionParts(w, r, ps, ex) => ExecutionParts(Tail(w), r, ps, ex)
BY RestInTail, OrdersInTail, SentInTail DEF LaterParts, ExecutionParts

LEMMA FewerKeep ==
    ASSUME NEW w, NEW r, NEW ps, NEW qs, \A p \in qs : MayCopy(p) => p \in ps, NEW n, NEW ex
    PROVE  /\ LaterParts(w, r, ps, n, ex) => LaterParts(w, r, qs, n, ex)
           /\ ExecutionParts(w, r, ps, ex) => ExecutionParts(w, r, qs, ex)
BY FewerWait DEF LaterParts, ExecutionParts

LEMMA CacheHolds ==
    ASSUME NEW r \in Seq(ResultMessages), Len(r) <= CacheLimit, NEW m \in ResultMessages
    PROVE  LET x == RememberCommandResult(r, m) IN
           /\ HasId(x, m.id)
           /\ \A i \in 1 .. Len(x) : x[i] = m \/ \E j \in 1 .. Len(r) : x[i] = r[j]
<1> DEFINE x == RememberCommandResult(r, m)
<1>1. /\ x \in Seq(ResultMessages)
      /\ \/ /\ Len(x) = Len(r) + 1 /\ x[Len(x)] = m
            /\ \A j \in 1 .. Len(r) : x[j] = r[j]
         \/ /\ Len(r) = CacheLimit /\ Len(x) = Len(r) /\ x[Len(x)] = m
            /\ \A j \in 2 .. Len(r) : x[j - 1] = r[j]
  BY RemembersMore
<1> HIDE DEF x
<1>2. Len(r) \in Nat /\ Len(x) \in 1 .. Len(x) /\ x[Len(x)] = m
  BY <1>1, BoundAssumption
<1>3. HasId(x, m.id)
  BY <1>2 DEF HasId
<1>4. ASSUME NEW i \in 1 .. Len(x), i # Len(x)
      PROVE  \E j \in 1 .. Len(r) : x[i] = r[j]
  <2>1. CASE Len(x) = Len(r) + 1 /\ \A j \in 1 .. Len(r) : x[j] = r[j]
    BY <1>2, <1>4, <2>1
  <2>2. CASE Len(x) = Len(r) /\ \A j \in 2 .. Len(r) : x[j - 1] = r[j]
    <3>1. i + 1 \in 2 .. Len(r) /\ (i + 1) - 1 = i
      BY <1>2, <1>4, <2>2
    <3>2. x[(i + 1) - 1] = r[i + 1]
      BY <2>2, <3>1
    <3> QED
      BY <3>1, <3>2
  <2> QED
    BY <1>1, <2>1, <2>2
<1> QED
  BY <1>2, <1>3, <1>4 DEF x

LEMMA EndReadKeeps ==
    ASSUME NEW w \in Seq(AnyMessages), w # <<>>, Head(w).type = "End",
           NEW r \in Seq(ResultMessages), Len(r) <= CacheLimit, ~HasId(r, EndId),
           NEW ps, NEW n \in Nat, LaterParts(w, r, ps, n, executed),
           \A p \in ps : p.command.id \in 0 .. MaxCommands
    PROVE  LET x == RememberCommandResult(r, Result(EndId, TRUE)) IN
           /\ LaterParts(Tail(w), x, ps, n, executed)
           /\ ExecutionParts(w, r, ps, executed) => ExecutionParts(Tail(w), x, ps, executed)
<1> DEFINE a == Result(EndId, TRUE)
           x == RememberCommandResult(r, a)
<1>1. a \in ResultMessages /\ a.id = EndId
  <2>1. EndId \in 0 .. MaxCommands
    BY BoundAssumption DEF EndId
  <2> QED
    BY <2>1, ResultTyped DEF Result
<1> HIDE DEF a
<1>2. \A i \in 1 .. Len(r) : r[i].id # EndId => r[i].id < n
  BY DoneIsOld DEF LaterParts
<1>3. ASSUME NEW k \in Ids, HasId(r, k), n - k < CacheLimit PROVE HasId(x, k)
  <2>1. n - k <= CacheLimit - 1
    BY <1>3, BoundAssumption DEF Ids
  <2> QED
    BY <1>1, <1>2, <1>3, <2>1, StaysCached DEF LaterParts
<1>4. SpacedIn(x)
  BY <1>1, SpacedWithMore DEF LaterParts
<1>5. DoneIn(x, executed)
  <2> SUFFICES ASSUME NEW i \in 1 .. Len(x), x[i].id # EndId PROVE executed[x[i].id] = 1
    BY DEF DoneIn
  <2>1. \E j \in 1 .. Len(r) : x[i] = r[j]
    BY <1>1, CacheHolds
  <2> QED
    BY <2>1 DEF LaterParts, DoneIn
<1> HIDE DEF x
<1>6. ~IsOrder(Head(w))
  BY DEF IsOrder
<1>7. LaterParts(Tail(w), x, ps, n, executed)
  BY <1>4, <1>5, RestInTail DEF LaterParts
<1>8. ASSUME ExecutionParts(w, r, ps, executed)
      PROVE  ExecutionParts(Tail(w), x, ps, executed)
  <2>1. ASSUME NEW i \in 1 .. Len(w), IsOrder(w[i]), HasId(r, w[i].id)
        PROVE  HasId(x, w[i].id)
    <3>1. w[i] \in AnyMessages /\ w[i].id \in Ids
      BY <2>1, OrdersAreNumbered
    <3>2. Head(w) = w[1]
      BY TailIs
    <3>3. i # 1
      BY <1>6, <2>1, <3>2
    <3>4. 1 \in 1 .. i - 1
      BY <3>3
    <3>5. w[1].type = "End" /\ LateIn(w, n)
      BY <3>2 DEF LaterParts
    <3>6. n - w[i].id < CacheLimit
      BY <2>1, <3>4, <3>5 DEF LateIn
    <3> QED
      BY <1>3, <2>1, <3>1, <3>6
  <2>2. ASSUME NEW p \in ps, MayCopy(p), HasId(r, p.command.id)
        PROVE  HasId(x, p.command.id)
    <3>1. p.command.id \in Ids
      BY <2>2, BoundAssumption DEF MayCopy, Ids, EndId
    <3>2. n - p.command.id < CacheLimit
      BY <2>2 DEF LaterParts, RecentIn
    <3> QED
      BY <1>3, <2>2, <3>1, <3>2
  <2>3. OrdersIn(w, x, executed)
    BY <1>8, <2>1, CopiesStay DEF ExecutionParts
  <2>4. SentIn(ps, w, x)
    BY <1>8, <2>2, SentStays DEF ExecutionParts
  <2> QED
    BY <1>6, <2>3, <2>4, OrdersInTail, SentInTail DEF ExecutionParts
<1> QED
  BY <1>7, <1>8 DEF x, a

LEMMA PassKeeps ==
    ASSUME Typed, ExecutionInv, Passes, NEW S, WaitsOn(S)
    PROVE  ExecutionInv'
<1> DEFINE w == wire[Controlled]
           r == results[Controlled]
           x == wire'[Controlled]
           y == results'[Controlled]
           ps == pending[Controller]
           qs == pending'[Controller]
<1>1. /\ w \in Seq(AnyMessages) /\ r \in Seq(ResultMessages) /\ Len(r) <= CacheLimit
      /\ nextId \in Nat /\ \A p \in ps : p.command.id \in 0 .. MaxCommands
  BY TwoEnds DEF Typed, ChannelTyped, ResultsTyped, CountsTyped, PendingTyped, Waiting,
                 CommandMessages
<1>2. /\ executed' = executed /\ nextId' = nextId
      /\ IsOpen(Controlled)' => IsOpen(Controlled)
      /\ phase[Controller] \notin Live => phase'[Controller] \notin Live
  BY DEF Passes
<1>3. /\ IsOpen(Controlled) => ExecutionParts(w, r, ps, executed)
      /\ LaterParts(w, r, ps, nextId, executed) /\ EndSent /\ DoneIn(wire[Controller], executed)
  BY ExecutionIs
<1>4. DoneIn(wire'[Controller], executed)
  BY <1>3, HeardIsDone DEF Passes, LaterParts
<1>5. \A p \in qs : MayCopy(p) => p \in ps
  BY CopiersWaited
<1>6. \/ y = r /\ x = w
      \/ \E m \in AnyMessages : y = r /\ x = Append(w, m) /\ Adds(m)
      \/ y = r /\ w # <<>> /\ x = Tail(w) /\ (IsOrder(Head(w)) => HasId(r, Head(w).id))
      \/ ~IsOpen(Controlled)' /\ x = <<>> /\ y = <<>>
      \/ /\ w # <<>> /\ Head(w).type = "End" /\ ~HasId(r, EndId) /\ x = Tail(w)
         /\ y = RememberCommandResult(r, Result(EndId, TRUE))
  BY DEF Passes, Delivered, EndRead
<1> DEFINE Goal == /\ LaterParts(x, y, ps, nextId, executed)
                   /\ IsOpen(Controlled)' => ExecutionParts(x, y, ps, executed)
                   /\ \A i \in 1 .. Len(x) : x[i].type = "End" => phase'[Controller] \notin Live
<1>7. \A i \in 1 .. Len(w) : w[i].type = "End" => phase'[Controller] \notin Live
  BY <1>2, <1>3 DEF EndSent
<1> HIDE DEF w, r, x, y, ps, qs
<1>8. w # <<>> => \A i \in 1 .. Len(Tail(w)) :
                     Tail(w)[i].type = "End" => phase'[Controller] \notin Live
  BY <1>1, <1>7, TailIs
<1>9. Goal
  <2>1. CASE y = r /\ x = w
    BY <1>2, <1>3, <1>7, <2>1
  <2>2. ASSUME NEW m \in AnyMessages, y = r, x = Append(w, m), Adds(m)
         PROVE  Goal
    <3>1. m.id < nextId /\ (IsOrder(m) => \E p \in ps : p.attempts = 1 /\ p.command = m)
      BY <2>2 DEF Adds, ps
    <3>2. /\ LaterParts(Append(w, m), r, ps, nextId, executed)
          /\ ExecutionParts(w, r, ps, executed) => ExecutionParts(Append(w, m), r, ps, executed)
      BY <1>1, <1>3, <3>1, AppendKeeps
    <3>3. ASSUME NEW i \in 1 .. Len(Append(w, m)), Append(w, m)[i].type = "End"
          PROVE  phase'[Controller] \notin Live
      <4>1. CASE i = Len(w) + 1
        BY <1>1, <2>2, <3>3, <4>1, AppendIs DEF Adds
      <4>2. CASE i \in 1 .. Len(w)
        BY <1>1, <1>7, <3>3, <4>2, AppendIs
      <4> QED
        BY <1>1, <4>1, <4>2, AppendIs
    <3> QED
      BY <1>2, <1>3, <2>2, <3>2, <3>3
  <2>3. CASE y = r /\ w # <<>> /\ x = Tail(w) /\ (IsOrder(Head(w)) => HasId(r, Head(w).id))
    <3>1. /\ LaterParts(Tail(w), r, ps, nextId, executed)
          /\ ExecutionParts(w, r, ps, executed) => ExecutionParts(Tail(w), r, ps, executed)
      BY <1>1, <1>3, <2>3, TailKeeps
    <3> QED
      BY <1>2, <1>3, <1>8, <2>3, <3>1
  <2>4. CASE ~IsOpen(Controlled)' /\ x = <<>> /\ y = <<>>
    <3>1. CloseIn(<<>>) /\ LateIn(<<>>, nextId) /\ KnownIn(<<>>, nextId) /\ SpacedIn(<<>>)
          /\ DoneIn(<<>>, executed)
      BY DEF CloseIn, LateIn, KnownIn, SpacedIn, DoneIn
    <3>2. LaterParts(x, y, ps, nextId, executed)
      BY <1>3, <2>4, <3>1 DEF LaterParts
    <3> QED
      BY <2>4, <3>2
  <2>5. CASE /\ w # <<>> /\ Head(w).type = "End" /\ ~HasId(r, EndId) /\ x = Tail(w)
              /\ y = RememberCommandResult(r, Result(EndId, TRUE))
    <3>1. /\ LaterParts(x, y, ps, nextId, executed)
          /\ ExecutionParts(w, r, ps, executed) => ExecutionParts(x, y, ps, executed)
      BY <1>1, <1>3, <2>5, EndReadKeeps
    <3> QED
      BY <1>2, <1>3, <1>8, <2>5, <3>1
  <2> QED
    BY <1>6, <2>1, <2>2, <2>3, <2>4, <2>5
<1>10. /\ LaterParts(x, y, qs, nextId, executed)
       /\ IsOpen(Controlled)' => ExecutionParts(x, y, qs, executed)
  BY <1>5, <1>9, FewerKeep
<1>11. EndSent'
  BY <1>9 DEF EndSent, x
<1> QED
  BY <1>2, <1>4, <1>10, <1>11, ExecutionIsNext DEF x, y, qs

LEMMA StartKeepsExecution ==
    ASSUME Typed, WaitInv, ExecutionInv, StartSession
    PROVE  ExecutionInv'
<1>1. /\ wire' = [f \in Ends |-> <<>>] /\ UNCHANGED <<pending, results, nextId, executed>>
      /\ phase[Controlled] = "Down" /\ phase[Controller] = "Down"
  BY TwoEnds DEF StartSession
<1>2. results[Controlled] = <<>> /\ pending[Controller] = {}
  BY <1>1, TwoEnds DEF WaitInv, EndsInOrder, IsOpen
<1>3. wire'[Controlled] = <<>> /\ wire'[Controller] = <<>>
  BY <1>1, TwoEnds
<1>4. OnceIn(executed, nextId)
  BY DEF ExecutionInv
<1>5. LaterParts(<<>>, <<>>, {}, nextId, executed) /\ ExecutionParts(<<>>, <<>>, {}, executed)
  BY <1>4 DEF LaterParts, ExecutionParts, CloseIn, LateIn, KnownIn, RecentIn, SpacedIn, DoneIn,
              OrdersIn, SentIn
<1>6. EndSent' /\ DoneIn(wire'[Controller], executed)
  BY <1>3 DEF EndSent, DoneIn
<1> QED
  BY <1>1, <1>2, <1>3, <1>5, <1>6, ExecutionIsNext

(* New commands come behind what is on its way.                              *)

LEMMA OrdersWithNew ==
    ASSUME NEW w \in Seq(AnyMessages), NEW x \in Seq(AnyMessages), NEW nb \in Seq(CommandMessages),
           Extends(w, nb, x), NEW n \in Nat \ {0},
           \A i \in 1 .. Len(nb) : nb[i].id = n + i - 1 /\ nb[i].id \in Ids,
           NEW r, NEW ex, KnownIn(w, n), OnceIn(ex, n)
    PROVE  /\ OrdersIn(w, r, ex) => OrdersIn(x, r, ex)
           /\ CloseIn(w) => CloseIn(x)
           /\ KnownIn(x, n + Len(nb))
<1>1. /\ Len(x) \in Len(w) .. Len(w) + Len(nb) /\ Len(w) \in Nat /\ Len(nb) \in Nat
      /\ \A i \in 1 .. Len(w) : x[i] = w[i]
      /\ \A i \in 1 .. Len(x) - Len(w) : x[Len(w) + i] = nb[i]
  BY DEF Extends
<1>2. ASSUME NEW i \in 1 .. Len(x), i > Len(w)
      PROVE  i - Len(w) \in 1 .. Len(nb) /\ x[i] = nb[i - Len(w)]
             /\ x[i].id = n + (i - Len(w)) - 1 /\ x[i].id \in Ids
  <2>1. i - Len(w) \in 1 .. Len(x) - Len(w) /\ Len(w) + (i - Len(w)) = i
        /\ i - Len(w) \in 1 .. Len(nb)
    BY <1>1, <1>2
  <2>2. x[i] = nb[i - Len(w)]
    BY <1>1, <2>1
  <2> QED
    BY <2>1, <2>2
<1>3. ASSUME NEW i \in 1 .. Len(x), i <= Len(w)
      PROVE  x[i] = w[i] /\ x[i].id < n /\ x[i].id \in 0 .. MaxCommands /\ i \in 1 .. Len(w)
  <2>1. i \in 1 .. Len(w)
    BY <1>1, <1>3
  <2>2. x[i] = w[i] /\ w[i].id < n /\ w[i] \in AnyMessages
    BY <1>1, <2>1 DEF KnownIn
  <2> QED
    BY <2>1, <2>2, OrdersAreNumbered
<1>4. KnownIn(x, n + Len(nb))
  <2> SUFFICES ASSUME NEW i \in 1 .. Len(x) PROVE x[i].id < n + Len(nb)
    BY DEF KnownIn
  <2>1. CASE i > Len(w)
    BY <1>1, <1>2, <2>1
  <2>2. CASE i <= Len(w)
    BY <1>1, <1>3, <2>2, BoundAssumption
  <2> QED
    BY <1>1, <2>1, <2>2
<1>5. ASSUME NEW i \in 1 .. Len(x), i > Len(w), NEW h \in 1 .. i - 1
      PROVE  x[h].id < x[i].id /\ x[h].id \in Nat /\ x[i].id \in Nat
  <2>1. h \in 1 .. Len(x)
    BY <1>1
  <2>2. CASE h > Len(w)
    BY <1>1, <1>2, <1>5, <2>1, <2>2 DEF Ids
  <2>3. CASE h <= Len(w)
    <3>1. x[h].id < n /\ x[h].id \in Nat
      BY <1>3, <2>1, <2>3, BoundAssumption
    <3>2. x[i].id >= n /\ x[i].id \in Nat
      BY <1>1, <1>2, <1>5 DEF Ids
    <3> QED
      BY <3>1, <3>2
  <2> QED
    BY <1>1, <2>1, <2>2, <2>3
<1>6. ASSUME OrdersIn(w, r, ex) PROVE OrdersIn(x, r, ex)
  <2> SUFFICES ASSUME NEW i \in 1 .. Len(x), IsOrder(x[i])
               PROVE  FreshIn(x, i, ex) \/ CopyIn(x, i, r)
    BY DEF OrdersIn
  <2>1. CASE i > Len(w)
    <3>1. x[i].id >= n /\ x[i].id \in Nat
      BY <1>1, <1>2, <2>1 DEF Ids
    <3>2. \A k \in Ids : k >= x[i].id => ex[k] = 0
      BY <3>1 DEF OnceIn, Ids
    <3>3. \A h \in 1 .. i - 1 : x[h].id < x[i].id
      BY <1>5, <2>1
    <3> QED
      BY <3>2, <3>3 DEF FreshIn
  <2>2. CASE i <= Len(w)
    <3>1. i \in 1 .. Len(w) /\ x[i] = w[i]
      BY <1>3, <2>2
    <3>2. \A h \in 1 .. i - 1 : x[h] = w[h]
      BY <1>1, <3>1
    <3>3. FreshIn(w, i, ex) \/ CopyIn(w, i, r)
      BY <1>6, <3>1 DEF OrdersIn
    <3> QED
      BY <3>1, <3>2, <3>3 DEF FreshIn, CopyIn
  <2> QED
    BY <1>1, <2>1, <2>2
<1>7. ASSUME CloseIn(w) PROVE CloseIn(x)
  <2> SUFFICES ASSUME NEW i \in 1 .. Len(x), NEW h \in 1 .. i - 1, IsOrder(x[h]), IsOrder(x[i])
               PROVE  x[h].id - x[i].id <= CacheLimit - 2
    BY DEF CloseIn
  <2>1. CASE i > Len(w)
    BY <1>5, <2>1, BoundAssumption
  <2>2. CASE i <= Len(w)
    <3>1. i \in 1 .. Len(w) /\ x[i] = w[i]
      BY <1>3, <2>2
    <3>2. x[h] = w[h]
      BY <1>1, <3>1
    <3> QED
      BY <1>7, <3>1, <3>2 DEF CloseIn
  <2> QED
    BY <1>1, <2>1, <2>2
<1> QED
  BY <1>4, <1>6, <1>7

LEMMA RequestKeepsExecution ==
    ASSUME Typed, WaitInv, ExecutionInv, Requests
    PROVE  ExecutionInv'
<1>1. UNCHANGED askUnchanged /\ phase[Controller] \in Live
      /\ \E p \in Live : phase' = [phase EXCEPT ![Controller] = p]
  BY RequestsGive DEF WaitInv
<1>2. PICK cs \in Seq(Askings) : \E n \in 0 .. Len(cs) : \E source : Asked(cs, source, n)
  BY RequestsGive DEF WaitInv
<1>n. PICK n \in 0 .. Len(cs) : \E source : Asked(cs, source, n)
  BY <1>2
<1>3. PICK source : Asked(cs, source, n)
  BY <1>n
<1> DEFINE nb == Numbered(cs)
           new(i) == [command |-> nb[i], attempts |-> 1]
           w == wire[Controlled]
           x == wire'[Controlled]
           r == results[Controlled]
           ps == pending[Controller]
           qs == pending'[Controller]
           m == Len(cs)
           N == nextId + m
<1>4. /\ \A p \in qs : p \in ps \/ \E i \in 1 .. n : p = new(i)
      /\ \A i \in 1 .. m : nb[i].id = nextId + i - 1 /\ nextId + i - 1 \in Ids
  BY <1>3, RequestWaits DEF WaitInv
<1>5. /\ nextId \in Nat \ {0} /\ m \in Nat /\ nextId' = N /\ w \in Seq(AnyMessages)
      /\ wire' = [wire EXCEPT ![Controlled] = Sent(w, nb)]
      /\ x = Sent(w, nb) /\ x \in Seq(AnyMessages) /\ Extends(w, nb, x) /\ n = Len(x) - Len(w)
      /\ MaySend(m)
  BY <1>3, TwoEnds DEF Asked, Typed, CountsTyped, ChannelTyped
<1>6. nb \in Seq(CommandMessages) /\ Len(nb) = m
  BY <1>3, NumberedIsTyped DEF Asked, MaySend, Typed
<1>7. /\ wire'[Controller] = wire[Controller] /\ results' = results /\ executed' = executed
      /\ IsOpen(Controlled)' => IsOpen(Controlled)
  BY <1>1, <1>5, TwoEnds DEF askUnchanged, IsOpen, Typed, SessionTyped, ChannelTyped
<1>8. /\ IsOpen(Controlled) => ExecutionParts(w, r, ps, executed)
      /\ LaterParts(w, r, ps, nextId, executed) /\ EndSent /\ DoneIn(wire[Controller], executed)
  BY ExecutionIs
<1>9. \A p \in ps : MayCopy(p) => nextId + m - p.command.id < CacheLimit
  BY <1>5 DEF MaySend, MayCopy
<1>10. m < CacheLimit
  BY <1>5 DEF MaySend
<1>11. \A i \in 1 .. Len(w) : w[i].type # "End"
  BY <1>1, <1>8 DEF EndSent
<1> HIDE DEF nb, w, x, r, ps, qs, m
<1>12. /\ Len(x) \in Len(w) .. Len(w) + m /\ Len(w) \in Nat
       /\ \A i \in 1 .. Len(w) : x[i] = w[i]
       /\ \A i \in 1 .. Len(x) - Len(w) : x[Len(w) + i] = nb[i]
  BY <1>5, <1>6 DEF Extends
<1>13. \A i \in 1 .. n : i \in 1 .. m /\ nb[i] \in CommandMessages /\ nb[i].id = nextId + i - 1
                         /\ nb[i].id \in Ids /\ IsOrder(nb[i]) /\ x[Len(w) + i] = nb[i]
                         /\ Len(w) + i \in 1 .. Len(x)
  <2> SUFFICES ASSUME NEW i \in 1 .. n
               PROVE  i \in 1 .. m /\ nb[i] \in CommandMessages /\ nb[i].id = nextId + i - 1
                         /\ nb[i].id \in Ids /\ IsOrder(nb[i]) /\ x[Len(w) + i] = nb[i]
                         /\ Len(w) + i \in 1 .. Len(x)
    OBVIOUS
  <2>1. i \in 1 .. m /\ i \in 1 .. Len(x) - Len(w) /\ Len(w) + i \in 1 .. Len(x)
    BY <1>5, <1>12
  <2>2. nb[i] \in CommandMessages /\ nb[i].id = nextId + i - 1 /\ nb[i].id \in Ids
    BY <1>4, <1>6, <2>1
  <2>3. nb[i] \in AnyMessages /\ nb[i].id # EndId
    BY <2>2 DEF AnyMessages, Ids, EndId
  <2> QED
    BY <1>12, <2>1, <2>2, <2>3, OrdersAreNumbered
<1>14. \A i \in 1 .. Len(x) : x[i].type # "End"
  <2> SUFFICES ASSUME NEW i \in 1 .. Len(x) PROVE x[i].type # "End"
    OBVIOUS
  <2>1. CASE i > Len(w)
    <3>1. i - Len(w) \in 1 .. n /\ Len(w) + (i - Len(w)) = i
      BY <1>5, <1>12, <2>1
    <3>2. x[i] = nb[i - Len(w)] /\ IsOrder(nb[i - Len(w)])
      BY <1>13, <3>1
    <3> QED
      BY <3>2 DEF IsOrder
  <2>2. CASE i <= Len(w)
    <3>1. i \in 1 .. Len(w)
      BY <1>12, <2>2
    <3> QED
      BY <1>11, <1>12, <3>1
  <2> QED
    BY <1>12, <2>1, <2>2
<1>15. /\ OrdersIn(w, r, executed) => OrdersIn(x, r, executed)
       /\ CloseIn(x) /\ KnownIn(x, N)
  BY <1>4, <1>5, <1>6, <1>8, OrdersWithNew DEF LaterParts
<1>16. LateIn(x, N) /\ EndSent'
  BY <1>14 DEF LateIn, EndSent, x
<1>17. RecentIn(qs, N)
  <2> SUFFICES ASSUME NEW p \in qs, MayCopy(p) PROVE N - p.command.id < CacheLimit
    BY DEF RecentIn
  <2>1. CASE p \in ps
    <3>1. nextId + m - p.command.id < CacheLimit
      BY <1>9, <2>1
    <3>2. p.command.id \in Nat
      BY <2>1, BoundAssumption DEF ps, Typed, PendingTyped, Waiting, CommandMessages, Controller, Ends
    <3> QED
      BY <1>5, <3>1, <3>2, BoundAssumption
  <2>2. ASSUME NEW i \in 1 .. n, p = new(i) PROVE N - p.command.id < CacheLimit
    <3>1. p.command.id = nextId + i - 1
      BY <1>13, <2>2
    <3> QED
      BY <1>5, <1>10, <1>13, <3>1, BoundAssumption
  <2> QED
    BY <1>4, <2>1, <2>2
<1>18. SentIn(ps, w, r) => SentIn(qs, x, r)
  <2> SUFFICES ASSUME SentIn(ps, w, r), NEW p \in qs, MayCopy(p)
               PROVE  HasId(r, p.command.id) \/ Travelling(x, p.command.id)
    BY DEF SentIn
  <2>1. CASE p \in ps
    <3>1. Travelling(w, p.command.id) => Travelling(x, p.command.id)
      BY <1>12 DEF Travelling
    <3> QED
      BY <2>1, <3>1 DEF SentIn
  <2>2. ASSUME NEW i \in 1 .. n, p = new(i) PROVE Travelling(x, p.command.id)
    BY <1>13, <2>2 DEF Travelling
  <2> QED
    BY <1>4, <2>1, <2>2
<1>19. OnceIn(executed, N)
  BY <1>5, <1>8 DEF OnceIn, LaterParts, Ids
<1>20. LaterParts(x, r, qs, N, executed)
  BY <1>8, <1>15, <1>16, <1>17, <1>19 DEF LaterParts
<1>21. ExecutionParts(w, r, ps, executed) => ExecutionParts(x, r, qs, executed)
  BY <1>15, <1>18 DEF ExecutionParts
<1>22. nextId' = N
  BY <1>5
<1> HIDE DEF N
<1> QED
  BY <1>7, <1>8, <1>16, <1>20, <1>21, <1>22, ExecutionIsNext DEF x, qs, r

(* A command is executed.                                                    *)

LEMMA HeadIsFresh ==
    ASSUME NEW w \in Seq(AnyMessages), w # <<>>, IsOrder(Head(w)), NEW r, NEW ex,
           OrdersIn(w, r, ex), ~HasId(r, Head(w).id)
    PROVE  \A k \in Ids : k >= Head(w).id => ex[k] = 0
<1>1. Head(w) = w[1] /\ 1 \in 1 .. Len(w)
  BY TailIs
<1>2. FreshIn(w, 1, ex) \/ CopyIn(w, 1, r)
  BY <1>1 DEF OrdersIn
<1>3. ~CopyIn(w, 1, r)
  BY <1>1 DEF CopyIn
<1> QED
  BY <1>1, <1>2, <1>3 DEF FreshIn

LEMMA ExecutionKeepsParts ==
    ASSUME NEW w \in Seq(AnyMessages), w # <<>>, IsOrder(Head(w)),
           NEW r \in Seq(ResultMessages), Len(r) <= CacheLimit, ~HasId(r, Head(w).id),
           NEW ps, \A p \in ps : p.command.id \in 0 .. MaxCommands, NEW n \in Nat,
           ExecutionParts(w, r, ps, executed), LaterParts(w, r, ps, n, executed),
           NEW m \in ResultMessages, m.id = Head(w).id, executed \in [Ids -> Nat],
           NEW ex, \A k \in Ids : ex[k] = executed[k] + (IF k = Head(w).id THEN 1 ELSE 0)
    PROVE  /\ executed[Head(w).id] = 0
           /\ ExecutionParts(Tail(w), RememberCommandResult(r, m), ps, ex)
           /\ LaterParts(Tail(w), RememberCommandResult(r, m), ps, n, ex)
<1> DEFINE c == Head(w).id
           x == RememberCommandResult(r, m)
<1>1. /\ Head(w) = w[1] /\ w[1].id = c /\ IsOrder(w[1]) /\ 1 \in 1 .. Len(w) /\ Len(w) \in Nat
      /\ c \in Ids /\ c \in Nat
  BY TailIs, OrdersAreNumbered DEF Ids
<1>3. \A k \in Ids : k >= c => executed[k] = 0
  BY HeadIsFresh DEF ExecutionParts
<1>4. executed[c] = 0 /\ ex[c] = 1
  BY <1>1, <1>3
<1>5. /\ c < n /\ \A k \in Ids : k # c => ex[k] = executed[k]
  BY <1>1 DEF LaterParts, KnownIn
<1> HIDE DEF c, x
<1>6. \A i \in 1 .. Len(r) : r[i].id # EndId =>
         r[i].id < c /\ r[i].id \in Ids /\ executed[r[i].id] = 1
  <2> SUFFICES ASSUME NEW i \in 1 .. Len(r), r[i].id # EndId
               PROVE  r[i].id < c /\ r[i].id \in Ids /\ executed[r[i].id] = 1
    OBVIOUS
  <2>1. r[i] \in ResultMessages
    OBVIOUS
  <2>2. r[i].id \in Ids
    BY <2>1, BoundAssumption DEF ResultMessages, Ids, EndId
  <2>3. executed[r[i].id] = 1
    BY DEF LaterParts, DoneIn
  <2>4. ~(r[i].id >= c)
    BY <1>3, <2>2, <2>3
  <2> QED
    BY <1>1, <2>2, <2>3, <2>4 DEF Ids
<1>7. ASSUME NEW k \in Ids, HasId(r, k), c - k <= CacheLimit - 2 PROVE HasId(x, k)
  <2>1. \A i \in 1 .. Len(r) : r[i].id # EndId => r[i].id < c
    BY <1>6
  <2> QED
    BY <1>1, <1>7, <2>1, StaysCached DEF LaterParts, x
<1>8. HasId(x, c)
  BY CacheHolds DEF x, c
<1>9. SpacedIn(x)
  <2>1. m.id # EndId /\ \A i \in 1 .. Len(r) : r[i].id # EndId => r[i].id < m.id
    BY <1>1, <1>6 DEF c, Ids, EndId
  <2> QED
    BY <2>1, SpacedWithMore DEF LaterParts, x
<1>10. OnceIn(ex, n)
  BY <1>1, <1>4, <1>5 DEF LaterParts, OnceIn, Ids
<1>11. DoneIn(x, ex)
  <2> SUFFICES ASSUME NEW i \in 1 .. Len(x), x[i].id # EndId PROVE ex[x[i].id] = 1
    BY DEF DoneIn
  <2>1. x[i] = m \/ \E j \in 1 .. Len(r) : x[i] = r[j]
    BY CacheHolds DEF x
  <2>2. ASSUME NEW j \in 1 .. Len(r), x[i] = r[j] PROVE ex[x[i].id] = 1
    <3>1. r[j].id < c /\ r[j].id \in Ids /\ executed[r[j].id] = 1
      BY <1>6, <2>2
    <3>2. r[j].id # c
      BY <1>1, <3>1
    <3> QED
      BY <1>5, <2>2, <3>1, <3>2
  <2> QED
    BY <1>4, <2>1, <2>2 DEF c
<1>12. LaterParts(Tail(w), x, ps, n, ex)
  BY <1>9, <1>10, <1>11, RestInTail DEF LaterParts
<1>13. OrdersIn(w, x, ex)
  <2> SUFFICES ASSUME NEW i \in 1 .. Len(w), IsOrder(w[i])
               PROVE  FreshIn(w, i, ex) \/ CopyIn(w, i, x)
    BY DEF OrdersIn
  <2>1. CASE i = 1
    BY <1>1, <1>8, <2>1 DEF CopyIn
  <2>2. CASE i # 1
    <3>1. 1 \in 1 .. i - 1 /\ w[i].id \in Ids
      BY <2>2, OrdersAreNumbered
    <3>2. FreshIn(w, i, executed) \/ CopyIn(w, i, r)
      BY DEF ExecutionParts, OrdersIn
    <3>3. ASSUME FreshIn(w, i, executed) PROVE FreshIn(w, i, ex)
      <4>1. c < w[i].id
        BY <1>1, <3>1, <3>3 DEF FreshIn
      <4>2. \A k \in Ids : k >= w[i].id => ex[k] = executed[k]
        BY <1>1, <1>5, <3>1, <4>1 DEF Ids
      <4> QED
        BY <3>3, <4>2 DEF FreshIn
    <3>4. ASSUME CopyIn(w, i, r) PROVE CopyIn(w, i, x)
      <4>1. c - w[i].id <= CacheLimit - 2
        BY <1>1, <3>1 DEF LaterParts, CloseIn
      <4>2. HasId(r, w[i].id) => HasId(x, w[i].id)
        BY <1>7, <3>1, <4>1
      <4> QED
        BY <3>4, <4>2 DEF CopyIn
    <3> QED
      BY <3>2, <3>3, <3>4
  <2> QED
    BY <2>1, <2>2
<1>14. SentIn(ps, w, x)
  <2>1. ASSUME NEW p \in ps, MayCopy(p), HasId(r, p.command.id)
        PROVE  HasId(x, p.command.id)
    <3>1. p.command.id \in Ids
      BY <2>1, BoundAssumption DEF MayCopy, Ids, EndId
    <3>2. n - p.command.id < CacheLimit
      BY <2>1 DEF LaterParts, RecentIn
    <3>3. c - p.command.id <= CacheLimit - 2
      BY <1>1, <1>5, <3>1, <3>2, BoundAssumption DEF Ids
    <3> QED
      BY <1>7, <2>1, <3>1, <3>3
  <2> QED
    BY <2>1, SentStays DEF ExecutionParts
<1>15. ExecutionParts(Tail(w), x, ps, ex)
  BY <1>8, <1>13, <1>14, OrdersInTail, SentInTail DEF ExecutionParts, c
<1> QED
  BY <1>4, <1>12, <1>15 DEF c, x

LEMMA ExecutedIs ==
    ASSUME Typed, Execute
    PROVE  LET c == Head(wire[Controlled]) IN
           /\ IsOpen(Controlled) /\ wire[Controlled] # <<>> /\ c \in CommandMessages
           /\ IsOrder(c) /\ c.id \in Ids /\ c.type \in CommandTypes \ {"End"}
           /\ ~HasId(results[Controlled], c.id)
           /\ \E d, says, x : Executes(c, d, says, x)
<1> DEFINE w == wire[Controlled]
           c == Head(w)
<1>1. /\ w \in Seq(AnyMessages) /\ results[Controlled] \in Seq(ResultMessages)
      /\ IsOpen(Controlled) /\ w # <<>> /\ c.type \in CommandTypes \ {"End"}
      /\ ~WasExecuted(Controlled, c.id) /\ \E d, says, x : Executes(c, d, says, x)
  BY ExecuteGives, TwoEnds DEF Typed, CountsTyped, ChannelTyped, ResultsTyped
<1>2. c \in CommandMessages
  <2>1. c = w[1] /\ 1 \in 1 .. Len(w)
    BY <1>1
  <2>2. c \in MessagesTo(Controlled)
    BY <2>1, TwoEnds DEF Typed, ChannelTyped
  <2> QED
    BY <1>1, <2>2 DEF MessagesTo, ResultMessages, CommandTypes
<1>3. IsOrder(c) /\ c.id \in Ids
  BY <1>1, <1>2, OrdersAreNumbered DEF IsOrder, AnyMessages
<1>4. ~HasId(results[Controlled], c.id)
  <2> SUFFICES ASSUME HasId(results[Controlled], c.id) PROVE FALSE
    OBVIOUS
  <2>1. PICK i \in 1 .. Len(results[Controlled]) : results[Controlled][i].id = c.id
    BY DEF HasId
  <2>2. i \in DOMAIN results[Controlled]
    BY <1>1
  <2>3. results[Controlled][i] \in Cached(Controlled, c.id)
    BY <2>1, <2>2 DEF Cached
  <2> QED
    BY <1>1, <2>3 DEF WasExecuted
<1> QED
  BY <1>1, <1>2, <1>3, <1>4

\* Besides the result, statuses are sent.
LEMMA SaysIs ==
    ASSUME Typed, NEW c \in CommandMessages, NEW d, NEW says, NEW x, Executes(c, d, says, x),
           NEW m \in ResultMessages
    PROVE  /\ Append(says, m) \in Seq(AnyMessages)
           /\ \A i \in 1 .. Len(Append(says, m)) :
                 Append(says, m)[i] = m \/ Append(says, m)[i].id = EndId
<1> DEFINE s == Status(d.host.privacy)
           y == Append(says, m)
<1>1. HostAfter(c, d)
  BY OutcomeTyped DEF Executes
<1>2. /\ d.host.privacy \in PrivacyStatuses
      /\ d.host.says \in {<<>>, <<Status(d.host.privacy)>>}
  BY <1>1 DEF HostAfter, ModeSet, Typed, HostTyped
<1>3. s \in AnyMessages /\ s.id = EndId /\ m \in AnyMessages
  BY <1>2 DEF Status, StatusMessages, AnyMessages
<1>4. says \in {<<>>, <<s>>}
  BY <1>2 DEF Executes
<1> HIDE DEF s
<1>5. says \in Seq(AnyMessages) /\ \A i \in 1 .. Len(says) : says[i].id = EndId
  <2>1. CASE says = <<>>
    BY <2>1
  <2>2. CASE says = <<s>>
    BY <1>3, <2>2
  <2> QED
    BY <1>4, <2>1, <2>2
<1>6. /\ y \in Seq(AnyMessages) /\ Len(y) = Len(says) + 1 /\ Len(says) \in Nat
      /\ y[Len(says) + 1] = m
      /\ \A i \in 1 .. Len(says) : y[i] = says[i]
  BY <1>3, <1>5, AppendIs
<1> HIDE DEF y
<1>7. \A i \in 1 .. Len(y) : y[i] = m \/ y[i].id = EndId
  BY <1>5, <1>6
<1> QED
  BY <1>6, <1>7 DEF y

LEMMA AnswerIsDone ==
    ASSUME NEW w \in Seq(AnyMessages), Len(w) <= WireLimit, DoneIn(w, executed),
           NEW c \in Ids, executed[c] = 0,
           NEW ex, \A k \in Ids : ex[k] = executed[k] + (IF k = c THEN 1 ELSE 0),
           NEW ms \in Seq(AnyMessages), \A i \in 1 .. Len(ms) : ms[i].id \in {EndId, c}
    PROVE  DoneIn(Sent(w, ms), ex)
<1> DEFINE x == Sent(w, ms)
<1>1. Extends(w, ms, x)
  BY SentExtends
<1> HIDE DEF x
<1> SUFFICES ASSUME NEW i \in 1 .. Len(x), x[i].id # EndId PROVE ex[x[i].id] = 1
  BY DEF DoneIn, x
<1>2. ex[c] = 1
  BY BoundAssumption
<1>3. CASE i <= Len(w)
  <2>1. i \in 1 .. Len(w) /\ x[i] = w[i] /\ w[i] \in AnyMessages
    BY <1>1, <1>3 DEF Extends
  <2>2. w[i].id \in Ids
    BY <2>1, OrdersAreNumbered DEF Ids, EndId
  <2>3. executed[w[i].id] = 1
    BY <2>1 DEF DoneIn
  <2>4. w[i].id # c
    BY <2>3
  <2> QED
    BY <2>1, <2>2, <2>3, <2>4
<1>4. CASE i > Len(w)
  <2>1. i - Len(w) \in 1 .. Len(ms) /\ i - Len(w) \in 1 .. Len(x) - Len(w)
        /\ Len(w) + (i - Len(w)) = i
    BY <1>1, <1>4 DEF Extends
  <2>2. x[i] = ms[i - Len(w)]
    BY <1>1, <2>1 DEF Extends
  <2> QED
    BY <1>2, <2>1, <2>2
<1> QED
  BY <1>1, <1>3, <1>4 DEF Extends

LEMMA ExecuteKeepsExecution ==
    ASSUME Typed, WaitInv, ExecutionInv, Execute
    PROVE  ExecutionInv'
<1> DEFINE w == wire[Controlled]
           c == Head(w)
           r == results[Controlled]
           ps == pending[Controller]
<1>1. /\ w \in Seq(AnyMessages) /\ r \in Seq(ResultMessages) /\ Len(r) <= CacheLimit
      /\ nextId \in Nat /\ \A p \in ps : p.command.id \in 0 .. MaxCommands
      /\ wire[Controller] \in Seq(AnyMessages) /\ Len(wire[Controller]) <= WireLimit
      /\ executed \in [Ids -> Nat] /\ phase \in [Ends -> Phases]
  BY TwoEnds DEF Typed, ChannelTyped, ResultsTyped, CountsTyped, PendingTyped, Waiting,
                 CommandMessages, SessionTyped
<1>2. /\ IsOpen(Controlled) /\ w # <<>> /\ IsOrder(c) /\ c.id \in Ids /\ ~HasId(r, c.id)
  BY ExecutedIs
<1>3. c \in CommandMessages
  BY ExecutedIs
<1>4. PICK d, says, x : Executes(c, d, says, x)
  BY ExecutedIs
<1>5. d.ok \in BOOLEAN
  BY <1>3, <1>4, OutcomeTyped DEF Executes
<1> DEFINE m == Result(c.id, d.ok)
<1>6. m \in ResultMessages /\ m.id = c.id
  BY <1>3, <1>5, ResultTyped DEF CommandMessages, Result
<1>7. /\ wire'[Controlled] = Tail(w) /\ wire'[Controller] = x
       /\ pending'[Controller] = ps /\ nextId' = nextId
       /\ results'[Controlled] = RememberCommandResult(r, m)
       /\ executed' = [executed EXCEPT ![c.id] = @ + 1]
       /\ phase'[Controller] = phase[Controller]
       /\ x = Sent(wire[Controller], Append(says, m))
  BY <1>1, <1>4, TwoEnds
  DEF Executes, sessionUnchanged, Typed, ChannelTyped, PendingTyped, ResultsTyped
<1>8. \A k \in Ids : executed'[k] = executed[k] + (IF k = c.id THEN 1 ELSE 0)
  BY <1>1, <1>2, <1>7
<1> HIDE DEF m
<1>9. /\ Append(says, m) \in Seq(AnyMessages)
       /\ \A i \in 1 .. Len(Append(says, m)) : Append(says, m)[i].id \in {EndId, c.id}
  BY <1>3, <1>4, <1>6, SaysIs
<1>10. /\ ExecutionParts(w, r, ps, executed) /\ LaterParts(w, r, ps, nextId, executed)
       /\ EndSent /\ DoneIn(wire[Controller], executed)
  BY <1>2, ExecutionIs
<1>11. /\ executed[c.id] = 0
       /\ ExecutionParts(Tail(w), RememberCommandResult(r, m), ps, executed')
       /\ LaterParts(Tail(w), RememberCommandResult(r, m), ps, nextId, executed')
  <2> DEFINE ex == executed'
  <2>1. \A k \in Ids : ex[k] = executed[k] + (IF k = c.id THEN 1 ELSE 0)
    BY <1>8
  <2> HIDE DEF ex, w, r, ps
  <2>2. /\ executed[c.id] = 0
        /\ ExecutionParts(Tail(w), RememberCommandResult(r, m), ps, ex)
        /\ LaterParts(Tail(w), RememberCommandResult(r, m), ps, nextId, ex)
    BY <1>1, <1>2, <1>6, <1>10, <2>1, ExecutionKeepsParts
  <2> QED
    BY <2>2 DEF ex, w, r, ps
<1>12. DoneIn(x, executed')
  <2> DEFINE ex == executed'
             ms == Append(says, m)
             k == c.id
  <2>1. /\ \A j \in Ids : ex[j] = executed[j] + (IF j = k THEN 1 ELSE 0)
        /\ ms \in Seq(AnyMessages) /\ \A i \in 1 .. Len(ms) : ms[i].id \in {EndId, k}
        /\ k \in Ids /\ executed[k] = 0 /\ x = Sent(wire[Controller], ms)
    BY <1>2, <1>7, <1>8, <1>9, <1>11
  <2> HIDE DEF ex, ms, k
  <2>2. DoneIn(x, ex)
    BY <1>1, <1>10, <2>1, AnswerIsDone
  <2> QED
    BY <2>2 DEF ex
<1>13. EndSent'
  <2> HIDE DEF w
  <2>1. \A i \in 1 .. Len(Tail(w)) : Tail(w)[i].type = "End" => phase[Controller] \notin Live
    BY <1>1, <1>2, <1>10, TailIs DEF EndSent, w
  <2> QED
    BY <1>7, <2>1 DEF EndSent
<1> QED
  BY <1>7, <1>11, <1>12, <1>13, ExecutionIsNext

LEMMA StepKeepsExecution ==
    ASSUME Typed, WaitInv, ExecutionInv, Next
    PROVE  ExecutionInv'
<1>1. CASE ~Requests /\ ~Execute /\ ~StartSession
  BY <1>1, OthersPass, StepKeeps, PassKeeps DEF Kept, WaitInv
<1> QED
  BY <1>1, RequestKeepsExecution, ExecuteKeepsExecution, StartKeepsExecution

LEMMA InitExecution == Init => ExecutionInv
<1> SUFFICES ASSUME Init PROVE ExecutionInv
  OBVIOUS
<1>1. /\ wire[Controlled] = <<>> /\ wire[Controller] = <<>> /\ results[Controlled] = <<>>
      /\ pending[Controller] = {} /\ executed = [id \in Ids |-> 0] /\ nextId = 1
  BY TwoEnds DEF Init
<1>2. OnceIn(executed, nextId)
  BY <1>1 DEF OnceIn
<1>3. LaterParts(<<>>, <<>>, {}, nextId, executed) /\ ExecutionParts(<<>>, <<>>, {}, executed)
  BY <1>2 DEF LaterParts, ExecutionParts, CloseIn, LateIn, KnownIn, RecentIn, SpacedIn, DoneIn,
              OrdersIn, SentIn
<1>4. EndSent /\ DoneIn(wire[Controller], executed)
  BY <1>1 DEF EndSent, DoneIn
<1> QED
  BY <1>1, <1>3, <1>4, ExecutionIs

\* What is known of execution stays so (KSessionCommandDispatcher::handleIncoming,
\* whose cache of results must outlast every copy of a command).
THEOREM ExecutionCorrect == Spec => []ExecutionInv
<1>1. Typed /\ WaitInv /\ ExecutionInv /\ [Next]_vars => ExecutionInv'
  <2> SUFFICES ASSUME Typed, WaitInv, ExecutionInv, [Next]_vars PROVE ExecutionInv'
    OBVIOUS
  <2>1. CASE UNCHANGED vars
    <3>1. UNCHANGED <<wire, results, pending, nextId, executed, phase>>
      BY <2>1 DEF vars, history
    <3>2. EndSent' /\ (IsOpen(Controlled)' => IsOpen(Controlled))
      BY <3>1 DEF EndSent, IsOpen, ExecutionInv
    <3> QED
      BY <3>1, <3>2, ExecutionIs, ExecutionIsNext
  <2>2. CASE Next
    BY <2>2, StepKeepsExecution
  <2> QED
    BY <2>1, <2>2
<1> QED
  BY <1>1, InitExecution, WaitsCorrect, PTL DEF Spec

\* A command is executed at most once, whatever copies of it and late answers
\* to it there are, and its end is reported exactly once
\* (KSessionCommandDispatcher::handleIncoming and rememberCommandResult,
\* handleCommandResult, failAll).
THEOREM CommandsCorrect == Spec => []CommandsAreExact
<1>1. WaitInv /\ ExecutionInv => CommandsAreExact
  BY DEF WaitInv, ReportsExact, ExecutionInv, OnceIn, CommandsAreExact
<1> QED
  BY <1>1, WaitsCorrect, ExecutionCorrect, PTL

------------------------------------------------------------------------------
(* The wishes: what else the steps that pass do.                             *)

\* What the host holds for the end of the session changes when it is used up;
\* its phase goes on, or stops, or is interrupted and restored.
HostMoves ==
    \/ /\ UNCHANGED <<action, locks>>
       /\ \/ phase'[Controlled] = phase[Controlled] /\ restore'[Controlled] = restore[Controlled]
          \/ phase[Controlled] # "Down" /\ phase'[Controlled] \in {"Stopping", "Tearing"}
          \/ /\ phase[Controlled] \in Live /\ phase'[Controlled] = "Reconnecting"
             /\ restore'[Controlled] = phase[Controlled]
          \/ /\ phase[Controlled] = "Reconnecting" /\ phase'[Controlled] = restore[Controlled]
             /\ restore'[Controlled] = "Connected"
    \/ FinishStopping(Controlled)

\* A result says that the command p took effect.
TookEffect(p) ==
    /\ p \in pending[Controller] /\ p.command.id # EndId
    /\ p.command.type \in {"Mode", "Action"} /\ Answered(p.command.id)

Learns(p) ==
    /\ TookEffect(p)
    /\ wishes' = IF p.command.type = "Action"
                 THEN [wishes EXCEPT !.confirmed = p.command.id, !.arg = p.command.arg] ELSE wishes
    /\ \/ preference' = preference
       \/ preference' = [preference EXCEPT ![FlagOf(p.command.type)] = p.command.arg]

Believes ==
    /\ session' = session
    /\ UNCHANGED <<wishes, preference>> \/ \E p : Learns(p)

LEMMA EndMoves ==
    ASSUME phase \in [Ends -> Phases], NEW e \in Ends, UNCHANGED <<restore, action, locks>>,
           \/ phase' = phase
           \/ /\ phase[e] # "Down"
              /\ \E s \in {"Stopping", "Tearing"} : phase' = [phase EXCEPT ![e] = s]
    PROVE  HostMoves
<1>1. CASE phase' = phase
  BY <1>1 DEF HostMoves
<1>2. ASSUME NEW s \in {"Stopping", "Tearing"}, phase[e] # "Down",
             phase' = [phase EXCEPT ![e] = s]
      PROVE  HostMoves
  BY <1>2, TwoEnds DEF HostMoves
<1> QED
  BY <1>1, <1>2

LEMMA FailureTeachesNothing ==
    ASSUME NEW c, Fails(c)
    PROVE  UNCHANGED <<preference, wishes>>
BY DEF Fails, CompleteCommand, Completes

LEMMA FinishMoves ==
    ASSUME Typed, NEW e \in Ends, NEW v, NEW notify, Sendable(e, v, pending[e]), phase[e] # "Down",
           FinishSession(e, Letter(v, pending[e]), notify), UNCHANGED <<restore, action, locks>>
    PROVE  HostMoves
<1>1. \E s \in {"Stopping", "Tearing"} : phase' = [phase EXCEPT ![e] = s]
  BY FinishGives DEF Stops, Tears
<1> QED
  BY <1>1, EndMoves DEF Typed, SessionTyped

LEMMA EndingLearns ==
    ASSUME Typed, NEW e \in Ends, Ending(e)
    PROVE  Believes /\ HostMoves
<1>1. /\ UNCHANGED <<session, wishes, preference, restore, action, locks>>
      /\ \/ phase[e] = "Stopping" /\ Tears(e, wire[Peer(e)], pending[e])
         \/ /\ phase[e] \in Live
            /\ \E notify \in BOOLEAN : FinishSession(e, Letter(wire[Peer(e)], pending[e]), notify)
  BY EndingGives DEF endUnchanged
<1>2. CASE phase[e] = "Stopping" /\ Tears(e, wire[Peer(e)], pending[e])
  BY <1>1, <1>2, EndMoves DEF Typed, SessionTyped, Tears, Believes
<1>3. ASSUME phase[e] \in Live, NEW notify \in BOOLEAN,
             FinishSession(e, Letter(wire[Peer(e)], pending[e]), notify)
      PROVE  Believes /\ HostMoves
  BY <1>1, <1>3, FinishMoves, OutIsSendable DEF Live, Believes
<1> QED
  BY <1>1, <1>2, <1>3

LEMMA EndLearns ==
    ASSUME Typed, NEW e \in Ends, ExecuteEnd(e)
    PROVE  Believes /\ HostMoves
<1> DEFINE r == Result(EndId, TRUE)
           x == Sent(wire[Peer(e)], <<r>>)
<1>1. r \in ResultMessages
  <2>1. EndId \in 0 .. MaxCommands
    BY BoundAssumption DEF EndId
  <2> QED
    BY <2>1, ResultTyped
<1>2. Sendable(e, x, pending[e])
  BY <1>1, OutIsSendable, ResultIsMessage, SendsMore, TwoEnds
<1>3. /\ UNCHANGED <<session, wishes, preference, restore, action, locks>> /\ IsOpen(e)
      /\ phase' = phase \/ FinishSession(e, Letter(x, pending[e]), FALSE)
  BY EndGives DEF endUnchanged
<1> HIDE DEF x
<1> QED
  BY <1>2, <1>3, FinishMoves, EndMoves DEF Believes, IsOpen, Typed, SessionTyped

LEMMA RetryLearns ==
    ASSUME Typed, WaitInv, NEW e \in Ends, Retry(e)
    PROVE  Believes /\ HostMoves
<1>1. /\ UNCHANGED <<session, restore, action, locks>>
      /\ \E p \in pending[e] :
            \/ Resends(e, p)
            \/ /\ Tears(e, wire[Peer(e)], pending[e] \ {p})
               /\ UNCHANGED <<asked, preference, applied, wishes>>
            \/ GivesUp(e, p)
  BY RetryGives DEF sessionUnchanged, hostVars
<1>2. PICK p \in pending[e] :
            \/ Resends(e, p)
            \/ /\ Tears(e, wire[Peer(e)], pending[e] \ {p})
               /\ UNCHANGED <<asked, preference, applied, wishes>>
            \/ GivesUp(e, p)
  BY <1>1
<1>3. phase[e] # "Down"
  BY DEF WaitInv, EndsInOrder, IsOpen
<1>4. UNCHANGED <<wishes, preference>>
  BY <1>2, FailureTeachesNothing DEF Resends, GivesUp
<1>5. phase' = phase \/ phase' = [phase EXCEPT ![e] = "Tearing"]
  BY <1>2 DEF Resends, GivesUp, Tears
<1> QED
  BY <1>1, <1>3, <1>4, <1>5, EndMoves DEF Believes, Typed, SessionTyped

LEMMA TimeoutLearns ==
    ASSUME Typed, WaitInv, NEW e \in Ends, Timeout(e)
    PROVE  Believes /\ HostMoves
<1>1. /\ UNCHANGED <<session, restore, action, locks>>
      /\ \E p \in pending[e] :
            \/ /\ Tears(e, wire[Peer(e)], pending[e] \ {p})
               /\ UNCHANGED <<preference, wishes>>
            \/ Fails(p.command) /\ phase' = phase
            \/ /\ FinishSession(e, Letter(wire[Peer(e)], pending[e]), FALSE)
               /\ UNCHANGED <<preference, wishes>>
  BY TimeoutGives DEF sessionUnchanged
<1>2. PICK p \in pending[e] :
            \/ /\ Tears(e, wire[Peer(e)], pending[e] \ {p})
               /\ UNCHANGED <<preference, wishes>>
            \/ Fails(p.command) /\ phase' = phase
            \/ /\ FinishSession(e, Letter(wire[Peer(e)], pending[e]), FALSE)
               /\ UNCHANGED <<preference, wishes>>
  BY <1>1
<1>3. phase[e] # "Down" /\ phase \in [Ends -> Phases]
  BY DEF WaitInv, EndsInOrder, IsOpen, Typed, SessionTyped
<1>4. UNCHANGED <<wishes, preference>>
  BY <1>2, FailureTeachesNothing
<1>5. HostMoves
  <2>1. CASE Tears(e, wire[Peer(e)], pending[e] \ {p})
    BY <1>1, <1>3, <2>1, EndMoves DEF Tears
  <2>2. CASE phase' = phase
    BY <1>1, <1>3, <2>2, EndMoves
  <2>3. CASE FinishSession(e, Letter(wire[Peer(e)], pending[e]), FALSE)
    BY <1>1, <1>3, <2>3, FinishMoves, OutIsSendable
  <2> QED
    BY <1>2, <2>1, <2>2, <2>3
<1> QED
  BY <1>1, <1>4, <1>5 DEF Believes

LEMMA ResultLearns ==
    ASSUME Typed, WaitInv, NEW e \in Ends, HandleResult(e)
    PROVE  Believes /\ HostMoves
<1> DEFINE r == Head(wire[e])
<1>1. /\ IsOpen(e) /\ wire[e] # <<>> /\ UNCHANGED <<session, restore, action, locks>>
      /\ \/ UNCHANGED <<phase, preference, wishes>>
         \/ \E p \in pending[e] : p.command.id = r.id /\ Answers(e, p, r)
  BY ResultGives DEF sessionUnchanged, hostVars
<1>2. r = wire[e][1] /\ 1 \in 1 .. Len(wire[e])
  BY <1>1, TwoEnds DEF Typed, ChannelTyped
<1> HIDE DEF r
<1>3. phase[e] # "Down" /\ phase \in [Ends -> Phases]
  BY <1>1 DEF IsOpen, Typed, SessionTyped
<1>4. ASSUME NEW p \in pending[e], p.command.id = r.id, Answers(e, p, r)
      PROVE  Believes /\ HostMoves
  <2>1. p.command \in CommandMessages /\ p \in Waiting
    BY DEF Typed, PendingTyped, Waiting
  <2>2. CASE /\ p.command.type = "End"
             /\ Tears(e, wire[Peer(e)], Forget(pending[e], r.id))
             /\ UNCHANGED <<preference, asked, applied, wishes, troubles>>
    BY <1>1, <1>3, <2>2, EndMoves DEF Tears, Believes
  <2>3. CASE phase' = phase /\ UNCHANGED <<asked, preference, wishes, troubles>>
    BY <1>1, <1>3, <2>3, EndMoves DEF Believes
  <2>4. ASSUME phase' = phase, p.command.type \in {"Mode", "Action"}, NEW saves \in BOOLEAN,
               CompleteCommand(p.command, r.arg = "ok", saves)
        PROVE  Believes /\ HostMoves
    <3>1. e = Controller /\ p.command.id # EndId
      BY <2>1, <2>4, TwoEnds DEF Typed, PendingTyped, EndMessages, CommandMessages
    <3>2. CASE r.arg # "ok"
      <4>1. UNCHANGED <<wishes, preference>>
        BY <2>4, <3>2 DEF CompleteCommand, Completes
      <4> QED
        BY <1>1, <1>3, <2>4, <4>1, EndMoves DEF Believes
    <3>3. CASE r.arg = "ok"
      <4>1. TookEffect(p)
        BY <1>2, <1>4, <2>4, <3>1, <3>3 DEF TookEffect, Answered
      <4>2. wishes' = IF p.command.type = "Action"
                      THEN [wishes EXCEPT !.confirmed = p.command.id, !.arg = p.command.arg]
                      ELSE wishes
        BY <2>4, <3>3 DEF CompleteCommand
      <4>3. \/ preference' = preference
            \/ preference' = [preference EXCEPT ![FlagOf(p.command.type)] = p.command.arg]
        BY <2>4 DEF CompleteCommand, UpdatePreference
      <4> QED
        BY <1>1, <1>3, <2>4, <4>1, <4>2, <4>3, EndMoves DEF Believes, Learns
    <3> QED
      BY <3>2, <3>3
  <2> QED
    BY <1>4, <2>2, <2>3, <2>4 DEF Answers
<1>5. CASE UNCHANGED <<phase, preference, wishes>>
  BY <1>1, <1>3, <1>5, EndMoves DEF Believes
<1> QED
  BY <1>1, <1>4, <1>5

LEMMA QuietLearns ==
    ASSUME Typed, UNCHANGED <<session, phase, restore, action, locks, wishes, preference>>
    PROVE  Believes /\ HostMoves
BY DEF Believes, HostMoves

LEMMA LocalLearns ==
    ASSUME Typed, Local
    PROVE  Believes /\ HostMoves
<1>1. UNCHANGED <<session, wishes, preference>>
  BY DEF Local, FinishStopping, Interrupted, Restored, PressEmergencyRestore, TopologyChanges,
         localUnchanged, userVars, history
<1>2. ASSUME NEW e \in Ends, FinishStopping(e)
      PROVE  HostMoves
  <2>1. CASE e = Controlled
    BY <1>2, <2>1 DEF HostMoves
  <2>2. CASE e # Controlled
    <3>1. UNCHANGED <<action, locks, restore>> /\ phase'[Controlled] = phase[Controlled]
      BY <1>2, <2>2, TwoEnds DEF FinishStopping, Typed, SessionTyped
    <3> QED
      BY <3>1 DEF HostMoves
  <2> QED
    BY <2>1, <2>2
<1>3. ASSUME NEW e \in Ends, Interrupted(e) \/ Restored(e)
      PROVE  HostMoves
  <2>1. UNCHANGED <<action, locks>> /\ phase \in [Ends -> Phases]
        /\ restore \in [Ends -> {"Connected", "Streaming"}]
    BY <1>3 DEF Interrupted, Restored, hostVars, Typed, SessionTyped
  <2>2. CASE e = Controlled
    BY <1>3, <2>1, <2>2 DEF HostMoves, Interrupted, Restored, Live
  <2>3. CASE e # Controlled
    BY <1>3, <2>1, <2>3, TwoEnds DEF HostMoves, Interrupted, Restored
  <2> QED
    BY <2>2, <2>3
<1>4. CASE PressEmergencyRestore \/ TopologyChanges
  BY <1>4, QuietLearns DEF PressEmergencyRestore, TopologyChanges, localUnchanged, userVars
<1> QED
  BY <1>1, <1>2, <1>3, <1>4 DEF Local, Believes

LEMMA OthersLearn ==
    ASSUME Typed, WaitInv, Next, ~Requests, ~Execute, ~StartSession
    PROVE  Believes /\ HostMoves
<1>1. CASE HandleEmergencyRestore
  BY <1>1, EmergencyGives, QuietLearns DEF localUnchanged, userVars
<1>2. CASE HandleStatus
  BY <1>2, StatusGives, QuietLearns DEF sessionUnchanged, hostVars, history
<1>3. ASSUME NEW e \in Ends, RepeatResult(e)
      PROVE  Believes /\ HostMoves
  BY <1>3, RepeatGives, QuietLearns DEF sessionUnchanged, hostVars, userVars, history
<1> QED
  BY <1>1, <1>2, <1>3, Steps, LocalLearns, EndLearns, ResultLearns, RetryLearns, TimeoutLearns,
     EndingLearns

(* What is on its way, waits and was answered, before and after such a step. *)

LEMMA OrdersWere ==
    ASSUME Typed, Passes, NEW i \in 1 .. Len(wire'[Controlled]), IsOrder(wire'[Controlled][i])
    PROVE  \/ \E h \in 1 .. Len(wire[Controlled]) : wire[Controlled][h] = wire'[Controlled][i]
           \/ \E p \in pending[Controller] : p.command = wire'[Controlled][i]
<1> DEFINE w == wire[Controlled]
           x == wire'[Controlled]
<1>1. w \in Seq(AnyMessages)
  BY TwoEnds DEF Typed, ChannelTyped
<1>2. \/ x = w
      \/ \E m \in AnyMessages : x = Append(w, m) /\ Adds(m)
      \/ w # <<>> /\ x = Tail(w)
      \/ x = <<>>
  BY DEF Passes, Delivered, EndRead
<1>3. i \in 1 .. Len(x) /\ IsOrder(x[i])
  OBVIOUS
<1> SUFFICES \/ \E h \in 1 .. Len(w) : w[h] = x[i]
             \/ \E p \in pending[Controller] : p.command = x[i]
  OBVIOUS
<1> HIDE DEF w, x
<1>4. CASE x = w
  BY <1>3, <1>4
<1>5. ASSUME NEW m \in AnyMessages, x = Append(w, m), Adds(m)
      PROVE  \/ \E h \in 1 .. Len(w) : w[h] = x[i]
             \/ \E p \in pending[Controller] : p.command = x[i]
  <2>1. i \in 1 .. Len(w) \/ i = Len(w) + 1
    BY <1>1, <1>3, <1>5, AppendIs
  <2>2. CASE i \in 1 .. Len(w)
    BY <1>1, <1>5, <2>2, AppendIs
  <2>3. CASE i = Len(w) + 1
    <3>1. x[i] = m
      BY <1>1, <1>5, <2>3, AppendIs
    <3> QED
      BY <1>3, <1>5, <3>1 DEF Adds
  <2> QED
    BY <2>1, <2>2, <2>3
<1>6. CASE w # <<>> /\ x = Tail(w)
  <2>1. i + 1 \in 2 .. Len(w) /\ x[i] = w[i + 1] /\ Len(w) \in Nat
    BY <1>1, <1>3, <1>6, TailIs
  <2> QED
    BY <2>1
<1>7. CASE x = <<>>
  BY <1>3, <1>7
<1> QED
  BY <1>2, <1>4, <1>5, <1>6, <1>7

LEMMA ResultsWere ==
    ASSUME Typed, Passes, NEW i \in 1 .. Len(results'[Controlled])
    PROVE  \/ results'[Controlled][i].id = EndId
           \/ \E j \in 1 .. Len(results[Controlled]) : results[Controlled][j] = results'[Controlled][i]
<1> DEFINE r == results[Controlled]
           y == results'[Controlled]
           m == Result(EndId, TRUE)
<1>1. r \in Seq(ResultMessages) /\ Len(r) <= CacheLimit
  BY TwoEnds DEF Typed, ResultsTyped
<1>2. y = r \/ y = <<>> \/ y = RememberCommandResult(r, m)
  BY DEF Passes, EndRead
<1>3. m \in ResultMessages /\ m.id = EndId
  <2>1. EndId \in 0 .. MaxCommands
    BY BoundAssumption DEF EndId
  <2> QED
    BY <2>1, ResultTyped DEF Result
<1>4. i \in 1 .. Len(y)
  OBVIOUS
<1> SUFFICES y[i].id = EndId \/ \E j \in 1 .. Len(r) : r[j] = y[i]
  OBVIOUS
<1> HIDE DEF r, y, m
<1>5. CASE y = RememberCommandResult(r, m)
  <2>1. y[i] = m \/ \E j \in 1 .. Len(r) : y[i] = r[j]
    BY <1>1, <1>3, <1>4, <1>5, CacheHolds
  <2> QED
    BY <1>3, <2>1
<1>6. CASE y = <<>>
  BY <1>4, <1>6
<1> QED
  BY <1>2, <1>4, <1>5, <1>6

LEMMA AnsweredWas ==
    ASSUME Typed, Passes, NEW k, k # EndId, Answered(k)'
    PROVE  Answered(k)
<1>1. ASSUME NEW i \in 1 .. Len(wire'[Controller]),
             wire'[Controller][i].id = k, wire'[Controller][i].arg = "ok"
      PROVE  Answered(k)
  <2>1. \/ \E h \in 1 .. Len(wire[Controller]) : wire[Controller][h] = wire'[Controller][i]
        \/ \E j \in 1 .. Len(results[Controlled]) : results[Controlled][j] = wire'[Controller][i]
    BY <1>1 DEF Passes, Heard
  <2> QED
    BY <1>1, <2>1 DEF Answered
<1>2. ASSUME NEW i \in 1 .. Len(results'[Controlled]),
             results'[Controlled][i].id = k, results'[Controlled][i].arg = "ok"
      PROVE  Answered(k)
  <2>1. \E j \in 1 .. Len(results[Controlled]) : results[Controlled][j] = results'[Controlled][i]
    BY <1>2, ResultsWere
  <2> QED
    BY <1>2, <2>1 DEF Answered
<1> QED
  BY <1>1, <1>2 DEF Answered

LEMMA WaitedBefore ==
    ASSUME NEW S, WaitsOn(S), NEW p \in pending'[Controller], p.command.id # EndId
    PROVE  \E q \in pending[Controller] : q.command = p.command
BY DEF WaitsOn

LEMMA AnsweredIsExecuted ==
    ASSUME ExecutionInv, NEW k, k # EndId, Answered(k)
    PROVE  executed[k] = 1
BY DEF ExecutionInv, DoneIn, Answered

(* A step that passes keeps the wishes.                                      *)

LEMMA MovesKeepLocks ==
    ASSUME Typed, LocksInOrder, StreamsNoted, HostMoves, session' = session,
           wishes'.streamed = wishes.streamed
    PROVE  LocksInOrder' /\ StreamsNoted' /\ \A a : Prevails(a) => Prevails(a)'
<1>1. /\ session \in 0 .. MaxSessions /\ locks \in [1 .. MaxSessions -> Nat]
      /\ phase \in [Ends -> Phases] /\ restore \in [Ends -> {"Connected", "Streaming"}]
      /\ action \in [armed : Actions, streamed : BOOLEAN, consumed : BOOLEAN]
  BY DEF Typed, SessionTyped, CountsTyped, HostTyped
<1> DEFINE p == phase[Controlled]
           q == phase'[Controlled]
           s == restore[Controlled]
           t == restore'[Controlled]
<1>2. CASE /\ UNCHANGED <<action, locks>>
           /\ \/ q = p /\ t = s
              \/ p # "Down" /\ q \in {"Stopping", "Tearing"}
              \/ p \in Live /\ q = "Reconnecting" /\ t = p
              \/ p = "Reconnecting" /\ q = s /\ t = "Connected"
  <2>1. s \in {"Connected", "Streaming"}
    BY <1>1, TwoEnds
  <2>2. (p = "Down") <=> (q = "Down")
    BY <1>2, <2>1 DEF Live
  <2>3. LocksInOrder'
    BY <1>2, <2>2 DEF LocksInOrder
  <2>4. StreamsNoted'
    BY <1>2, <2>1 DEF StreamsNoted, Live
  <2>5. \A a : Prevails(a) => Prevails(a)'
    BY <1>2 DEF Prevails
  <2> QED
    BY <2>3, <2>4, <2>5
<1>3. CASE FinishStopping(Controlled)
  <2> DEFINE lock == ~action.consumed /\ action.armed = "lock" /\ action.streamed
  <2>1. /\ p = "Tearing" /\ q = "Down"
        /\ action' = [action EXCEPT !.consumed = TRUE, !.armed = "none"]
        /\ locks' = IF lock THEN [locks EXCEPT ![session] = @ + 1] ELSE locks
    BY <1>1, <1>3, TwoEnds DEF FinishStopping
  <2>2. ~action.consumed /\ session > 0 /\ locks[session] = 0 /\ session \in 1 .. MaxSessions
    BY <1>1, <2>1 DEF LocksInOrder
  <2>3. action'.consumed = TRUE /\ action'.streamed = action.streamed
    BY <1>1, <2>1
  <2>4. locks' = [locks EXCEPT ![session] = IF lock THEN 1 ELSE 0]
    <3> HIDE DEF lock
    <3>1. CASE lock
      BY <1>1, <2>1, <2>2, <3>1
    <3>2. CASE ~lock
      BY <1>1, <2>1, <2>2, <3>2
    <3> QED
      BY <3>1, <3>2
  <2>5. /\ DOMAIN locks' = DOMAIN locks /\ locks'[session] = IF lock THEN 1 ELSE 0
        /\ \A n \in DOMAIN locks : n # session => locks'[n] = locks[n]
    BY <1>1, <2>2, <2>4
  <2> HIDE DEF lock
  <2>6. LocksInOrder'
    <3>1. \A n \in DOMAIN locks' : locks'[n] <= 1 /\ (n > session' => locks'[n] = 0)
      BY <1>1, <2>2, <2>5 DEF LocksInOrder
    <3> QED
      BY <2>1, <2>3, <3>1 DEF LocksInOrder
  <2>7. StreamsNoted'
    BY <2>1, <2>3 DEF StreamsNoted
  <2>8. ASSUME NEW a, Prevails(a) PROVE Prevails(a)'
    <3>1. action.armed = a
      BY <2>2, <2>8 DEF Prevails
    <3>2. locks'[session] = IF a = "lock" /\ action.streamed THEN 1 ELSE 0
      BY <2>2, <2>5, <3>1 DEF lock
    <3> QED
      BY <2>3, <3>2 DEF Prevails
  <2> QED
    BY <2>6, <2>7, <2>8
<1> QED
  BY <1>2, <1>3 DEF HostMoves

LEMMA PassKeepsWishes ==
    ASSUME Typed, Typed', OneEach, ExecutionInv, WishInv, Passes, Believes, HostMoves,
           NEW S, WaitsOn(S)
    PROVE  WishInv'
<1>1. /\ nextId' = nextId /\ executed' = executed /\ inForce' = inForce /\ session' = session
  BY DEF Passes, Believes
<1>2. /\ wishes \in [asked : 0 .. MaxCommands, confirmed : 0 .. MaxCommands, arg : Actions,
                     streamed : BOOLEAN]
      /\ preference \in [mode : Modes, action : Actions]
  BY DEF Typed, UserTyped
<1>3. wishes'.asked = wishes.asked /\ wishes'.streamed = wishes.streamed
  BY <1>2 DEF Believes, Learns
<1>4. LocksInOrder' /\ StreamsNoted' /\ \A a : Prevails(a) => Prevails(a)'
  BY <1>1, <1>3, MovesKeepLocks DEF WishInv
<1>5. ASSUME NEW p \in pending'[Controller], p.command.id # EndId
      PROVE  \E q \in pending[Controller] : q.command = p.command
  BY <1>5, WaitedBefore
<1>6. SameCommand'
  <2> SUFFICES ASSUME NEW p \in pending'[Controller], NEW i \in 1 .. Len(wire'[Controlled]),
                      IsOrder(wire'[Controlled][i]), wire'[Controlled][i].id = p.command.id
               PROVE  wire'[Controlled][i] = p.command
    BY DEF SameCommand
  <2>1. wire'[Controlled][i].id # EndId
    BY OrdersAreNumbered, TwoEnds DEF Typed, ChannelTyped
  <2>2. PICK q \in pending[Controller] : q.command = p.command
    BY <1>5, <2>1
  <2>3. ASSUME NEW h \in 1 .. Len(wire[Controlled]), wire[Controlled][h] = wire'[Controlled][i]
        PROVE  wire'[Controlled][i] = p.command
    BY <2>2, <2>3 DEF WishInv, SameCommand
  <2>4. ASSUME NEW o \in pending[Controller], o.command = wire'[Controlled][i]
        PROVE  wire'[Controlled][i] = p.command
    BY <2>1, <2>2, <2>4 DEF OneEach
  <2> QED
    BY <2>3, <2>4, OrdersWere
<1>7. AnsweredInForce'
  <2> SUFFICES ASSUME NEW p \in pending'[Controller], p.command.id # EndId, Answered(p.command.id)'
               PROVE  p.command.arg \in inForce
    BY <1>1 DEF AnsweredInForce
  <2>1. Answered(p.command.id)
    BY AnsweredWas
  <2> QED
    BY <1>5, <2>1 DEF WishInv, AnsweredInForce
<1>8. WishInForce'
  <2>1. WishInForce
    BY DEF WishInv
  <2>2. wishes'.asked < nextId'
    BY <1>1, <1>3, <2>1 DEF WishInForce
  <2>3. ASSUME NEW p \in pending'[Controller]
        PROVE  /\ IsWish(p.command) => p.command.id <= wishes'.asked
               /\ p.command.id # EndId /\ p.command.id = wishes'.asked => IsWish(p.command)
    <3>1. p.command \in CommandMessages
      BY TwoEnds DEF Typed, PendingTyped, Waiting
    <3>2. IsWish(p.command) => p.command.id # EndId
      BY <3>1 DEF IsWish, CommandMessages
    <3> QED
      BY <1>3, <1>5, <2>1, <3>2 DEF WishInForce
  <2>4. ASSUME NEW i \in 1 .. Len(wire'[Controlled]), IsWish(wire'[Controlled][i])
        PROVE  wire'[Controlled][i].id <= wishes'.asked
    <3>1. IsOrder(wire'[Controlled][i])
      BY <2>4 DEF IsWish, IsOrder, CommandTypes
    <3> QED
      BY <1>3, <2>1, <2>4, <3>1, OrdersWere DEF WishInForce
  <2>5. /\ wishes'.confirmed = EndId => wishes'.arg = "none"
        /\ wishes'.confirmed # EndId => executed'[wishes'.confirmed] = 1
        /\ \A a : a = wishes'.arg /\ wishes'.confirmed = wishes'.asked => Prevails(a)
    <3>1. CASE wishes' = wishes
      BY <1>1, <2>1, <3>1 DEF WishInForce
    <3>2. ASSUME NEW p, Learns(p), p.command.type = "Action"
          PROVE  /\ wishes'.confirmed # EndId /\ executed[wishes'.confirmed] = 1
                 /\ wishes'.confirmed = wishes.asked => Prevails(p.command.arg)
                 /\ wishes'.arg = p.command.arg
      <4>1. /\ p \in pending[Controller] /\ p.command.id # EndId /\ Answered(p.command.id)
            /\ wishes' = [wishes EXCEPT !.confirmed = p.command.id, !.arg = p.command.arg]
        BY <3>2 DEF Learns, TookEffect
      <4>2. wishes'.confirmed = p.command.id /\ wishes'.arg = p.command.arg
        BY <1>2, <4>1
      <4> QED
        BY <2>1, <4>1, <4>2, AnsweredIsExecuted DEF WishInForce
    <3>3. ASSUME NEW p, Learns(p)
          PROVE  /\ wishes'.confirmed = EndId => wishes'.arg = "none"
                 /\ wishes'.confirmed # EndId => executed'[wishes'.confirmed] = 1
                 /\ \A a : a = wishes'.arg /\ wishes'.confirmed = wishes'.asked => Prevails(a)
      <4>1. CASE p.command.type = "Action"
        BY <1>1, <1>3, <3>2, <3>3, <4>1
      <4>2. CASE p.command.type # "Action"
        BY <3>1, <3>3, <4>2 DEF Learns
      <4> QED
        BY <4>1, <4>2
    <3> QED
      BY <3>1, <3>3 DEF Believes
  <2>6. wishes'.confirmed = wishes'.asked => Prevails(wishes.arg)'
    <3>1. \A a : a = wishes'.arg /\ wishes'.confirmed = wishes'.asked => Prevails(a)'
      BY <1>4, <2>5
    <3> QED
      BY <3>1 DEF Prevails
  <2>7. ASSUME NEW p \in pending'[Controller], p.command.id # EndId,
               p.command.id = wishes'.asked, Answered(p.command.id)'
        PROVE  Prevails(p.command.arg)'
    <3>1. Answered(p.command.id)
      BY <2>7, AnsweredWas
    <3>2. Prevails(p.command.arg)
      BY <1>3, <1>5, <2>1, <2>7, <3>1 DEF WishInForce
    <3> QED
      BY <1>4, <3>2
  <2> QED
    BY <2>2, <2>3, <2>4, <2>5, <2>6, <2>7 DEF WishInForce
<1>9. RememberedWasInForce'
  <2>1. RememberedWasInForce
    BY DEF WishInv
  <2>2. CASE preference' = preference
    BY <1>1, <2>1, <2>2 DEF RememberedWasInForce
  <2>3. ASSUME NEW p, Learns(p),
               preference' = [preference EXCEPT ![FlagOf(p.command.type)] = p.command.arg]
        PROVE  RememberedWasInForce'
    <3>1. p.command.arg \in inForce /\ p.command.type \in {"Mode", "Action"}
      BY <2>3 DEF Learns, TookEffect, WishInv, AnsweredInForce
    <3>2. \/ preference' = [preference EXCEPT !.mode = p.command.arg]
          \/ preference' = [preference EXCEPT !.action = p.command.arg]
      BY <2>3, <3>1 DEF FlagOf
    <3> QED
      BY <1>1, <1>2, <2>1, <3>1, <3>2 DEF RememberedWasInForce
  <2> QED
    BY <2>2, <2>3 DEF Believes, Learns
<1> QED
  BY <1>4, <1>6, <1>7, <1>8, <1>9 DEF WishInv

LEMMA StartKeepsWishes ==
    ASSUME Typed, WaitInv, WishInv, StartSession
    PROVE  WishInv'
<1>1. /\ session < MaxSessions /\ session' = session + 1 /\ UNCHANGED <<pending, results, nextId>>
      /\ UNCHANGED <<locks, preference, inForce, executed>>
      /\ wire'[Controlled] = <<>> /\ wire'[Controller] = <<>>
      /\ phase[Controlled] = "Down" /\ phase[Controller] = "Down"
      /\ phase'[Controlled] = "Connected"
      /\ action' = [armed |-> "none", streamed |-> FALSE, consumed |-> FALSE]
      /\ wishes' = NoWishes
  BY TwoEnds DEF StartSession
<1>2. pending'[Controller] = {}
  BY <1>1, TwoEnds DEF WaitInv, EndsInOrder, IsOpen
<1>3. SameCommand' /\ AnsweredInForce'
  BY <1>2 DEF SameCommand, AnsweredInForce
<1>4. StreamsNoted'
  BY <1>1 DEF StreamsNoted, NoWishes
<1>5. LocksInOrder'
  <2>1. session \in Nat /\ session + 1 \in 1 .. MaxSessions /\ DOMAIN locks = 1 .. MaxSessions
    BY <1>1, BoundAssumption DEF Typed, SessionTyped, CountsTyped
  <2>2. \A n \in DOMAIN locks : locks[n] <= 1 /\ (n > session => locks[n] = 0)
    BY DEF WishInv, LocksInOrder
  <2>3. locks[session + 1] = 0
    BY <2>1, <2>2
  <2>4. \A n \in DOMAIN locks : locks[n] <= 1 /\ (n > session + 1 => locks[n] = 0)
    BY <2>1, <2>2
  <2> QED
    BY <1>1, <2>1, <2>3, <2>4 DEF LocksInOrder
<1>6. WishInForce'
  <2>1. EndId < nextId
    BY DEF Typed, CountsTyped, EndId
  <2> QED
    BY <1>1, <1>2, <2>1 DEF WishInForce, NoWishes, Prevails
<1>7. RememberedWasInForce'
  BY <1>1 DEF WishInv, RememberedWasInForce
<1> QED
  BY <1>3, <1>4, <1>5, <1>6, <1>7 DEF WishInv

LEMMA RequestKeepsWishes ==
    ASSUME Typed, WaitInv, ExecutionInv, WishInv, Requests
    PROVE  WishInv'
<1>1. UNCHANGED askUnchanged /\ phase[Controller] \in Live
      /\ \E p \in Live : phase' = [phase EXCEPT ![Controller] = p]
  BY RequestsGive DEF WaitInv
<1>2. PICK cs \in Seq(Askings) : \E n \in 0 .. Len(cs) : \E source :
         OneAction(cs) /\ Asked(cs, source, n)
  BY RequestsGive DEF WaitInv
<1>n. PICK n \in 0 .. Len(cs) : \E source : OneAction(cs) /\ Asked(cs, source, n)
  BY <1>2
<1>3. PICK source : OneAction(cs) /\ Asked(cs, source, n)
  BY <1>n
<1> DEFINE nb == Numbered(cs)
           new(i) == [command |-> nb[i], attempts |-> 1]
           w == wire[Controlled]
           x == wire'[Controlled]
           ps == pending[Controller]
           qs == pending'[Controller]
           m == Len(cs)
<1>4. /\ \A p \in qs : p \in ps \/ \E i \in 1 .. n : p = new(i)
      /\ \A i \in 1 .. m : nb[i].id = nextId + i - 1 /\ nextId + i - 1 \in Ids
  BY <1>3, RequestWaits DEF WaitInv
<1>5. /\ nextId \in Nat \ {0} /\ m \in Nat /\ nextId' = nextId + m /\ w \in Seq(AnyMessages)
      /\ wire' = [wire EXCEPT ![Controlled] = Sent(w, nb)]
      /\ x = Sent(w, nb) /\ x \in Seq(AnyMessages) /\ Extends(w, nb, x) /\ n = Len(x) - Len(w)
      /\ MaySend(m)
  BY <1>3, TwoEnds DEF Asked, Typed, CountsTyped, ChannelTyped
<1>6. /\ nb \in Seq(CommandMessages) /\ Len(nb) = m
      /\ \A i \in 1 .. m : nb[i].type = cs[i].type
  BY <1>3, NumberedIsTyped DEF Asked, MaySend, Typed
<1>7. /\ wire'[Controller] = wire[Controller]
      /\ UNCHANGED <<results, executed, session, restore, action, locks, preference, inForce>>
      /\ phase'[Controlled] = phase[Controlled]
  BY <1>1, <1>5, TwoEnds DEF askUnchanged, hostVars, Typed, SessionTyped, ChannelTyped
<1>8. /\ \/ wishes' = wishes /\ \A i \in 1 .. n : cs[i].type # "Action"
         \/ \E i \in 1 .. n : /\ cs[i].type = "Action"
                              /\ wishes' = [wishes EXCEPT !.asked = nextId + i - 1]
      /\ wishes \in [asked : 0 .. MaxCommands, confirmed : 0 .. MaxCommands, arg : Actions,
                     streamed : BOOLEAN]
  BY <1>3 DEF Asked, Typed, UserTyped
<1>9. /\ \A p \in ps : p.command.id < nextId /\ p.command.id \in Nat
      /\ \A i \in 1 .. Len(w) : w[i].id < nextId /\ w[i].id \in Nat
      /\ \A k \in Ids : k >= nextId => executed[k] = 0
  <2>1. \A p \in ps : p.command.id < nextId /\ p.command.id \in Nat
    BY BoundAssumption, TwoEnds
    DEF Typed, WaitInv, WaitingKnown, PendingTyped, Waiting, CommandMessages
  <2>2. \A i \in 1 .. Len(w) : w[i].id < nextId /\ w[i].id \in Nat
    BY <1>5, OrdersAreNumbered DEF ExecutionInv, KnownIn
  <2> QED
    BY <2>1, <2>2 DEF ExecutionInv, OnceIn
<1>10. OneAction(cs)
  BY <1>3
<1> HIDE DEF nb, w, x, ps, qs, m
<1>11. /\ Len(x) \in Len(w) .. Len(w) + m /\ Len(w) \in Nat
       /\ \A i \in 1 .. Len(w) : x[i] = w[i]
       /\ \A i \in 1 .. Len(x) - Len(w) : x[Len(w) + i] = nb[i]
  <2>1. Extends(w, nb, x) /\ w \in Seq(AnyMessages) /\ Len(nb) = m
    BY <1>5, <1>6
  <2> QED
    BY <2>1 DEF Extends
<1>12. \A i \in 1 .. n : /\ i \in 1 .. m /\ nb[i].id = nextId + i - 1 /\ nb[i].id \in Ids
                         /\ nb[i].type = cs[i].type /\ new(i).command = nb[i]
  BY <1>4, <1>5, <1>6, <1>11
<1>13. \A i \in 1 .. Len(x) :
          \/ i \in 1 .. Len(w) /\ x[i] = w[i]
          \/ \E j \in 1 .. n : x[i] = nb[j]
  <2> SUFFICES ASSUME NEW i \in 1 .. Len(x)
               PROVE  \/ i \in 1 .. Len(w) /\ x[i] = w[i]
                      \/ \E j \in 1 .. n : x[i] = nb[j]
    OBVIOUS
  <2>1. CASE i <= Len(w)
    <3>1. i \in 1 .. Len(w)
      BY <1>11, <2>1
    <3> QED
      BY <1>11, <3>1
  <2>2. CASE i > Len(w)
    <3>1. i - Len(w) \in 1 .. n /\ Len(w) + (i - Len(w)) = i
      BY <1>5, <1>11, <2>2
    <3>2. x[i] = nb[i - Len(w)]
      BY <1>5, <1>11, <3>1
    <3> QED
      BY <3>1, <3>2
  <2> QED
    BY <1>11, <2>1, <2>2
<1>14. \A k : Answered(k)' <=> Answered(k)
  BY <1>7 DEF Answered
<1>15. ASSUME NEW i \in 1 .. n PROVE ~Answered(nb[i].id)
  <2>0. nb[i].id = nextId + i - 1 /\ nb[i].id \in Ids
    BY <1>12
  <2>1. nb[i].id \in Ids /\ nb[i].id >= nextId
    <3>1. nextId \in Nat /\ i \in Nat /\ i >= 1
      BY <1>5
    <3> HIDE DEF new
    <3> QED
      BY <2>0, <3>1
  <2>2. executed[nb[i].id] = 0 /\ nb[i].id # EndId
    BY <1>9, <2>1 DEF Ids, EndId
  <2> QED
    BY <2>2, AnsweredIsExecuted
<1>16. SameCommand'
  <2> SUFFICES ASSUME NEW p \in qs, NEW i \in 1 .. Len(x), IsOrder(x[i]), x[i].id = p.command.id
               PROVE  x[i] = p.command
    BY DEF SameCommand, qs, x
  <2>1. CASE p \in ps /\ i \in 1 .. Len(w) /\ x[i] = w[i]
    BY <2>1 DEF WishInv, SameCommand, ps, w
  <2>2. ASSUME NEW j \in 1 .. n, x[i] = nb[j], p \in ps PROVE FALSE
    BY <1>5, <1>9, <1>12, <2>2
  <2>3. ASSUME NEW j \in 1 .. n, p = new(j), i \in 1 .. Len(w), x[i] = w[i] PROVE FALSE
    BY <1>5, <1>9, <1>12, <2>3
  <2>4. ASSUME NEW j \in 1 .. n, p = new(j), NEW h \in 1 .. n, x[i] = nb[h]
        PROVE  x[i] = p.command
    <3>0. nb[j].id = nextId + j - 1 /\ nb[h].id = nextId + h - 1 /\ new(j).command = nb[j]
      BY <1>12, <2>4
    <3>1. j = h
      BY <1>5, <2>4, <3>0
    <3> QED
      BY <1>12, <2>4, <3>1
  <2> QED
    BY <1>4, <1>13, <2>1, <2>2, <2>3, <2>4
<1>17. AnsweredInForce'
  <2> SUFFICES ASSUME NEW p \in qs, p.command.id # EndId, Answered(p.command.id)'
               PROVE  p.command.arg \in inForce
    BY <1>7 DEF AnsweredInForce, qs
  <2>1. Answered(p.command.id)
    BY <1>14
  <2>2. p \in ps
    BY <1>4, <1>12, <1>15, <2>1
  <2> QED
    BY <2>1, <2>2 DEF WishInv, AnsweredInForce, ps
<1>18. wishes'.streamed = wishes.streamed /\ wishes'.confirmed = wishes.confirmed
       /\ wishes'.arg = wishes.arg
  BY <1>8
<1>19. StreamsNoted' /\ LocksInOrder' /\ RememberedWasInForce'
  BY <1>7, <1>18 DEF WishInv, StreamsNoted, LocksInOrder, RememberedWasInForce
<1>20. \A a : Prevails(a)' <=> Prevails(a)
  BY <1>7 DEF Prevails
<1>21. WishInForce /\ wishes.asked < nextId
  BY DEF WishInv, WishInForce
<1>22. wishes.confirmed # EndId => wishes.confirmed < nextId /\ wishes.confirmed \in Nat
  <2>1. ASSUME wishes.confirmed # EndId
        PROVE  wishes.confirmed < nextId /\ wishes.confirmed \in Nat
    <3>1. wishes.confirmed \in Ids /\ executed[wishes.confirmed] = 1
      BY <1>8, <1>21, <2>1, BoundAssumption DEF WishInForce, Ids, EndId
    <3>2. ~(wishes.confirmed >= nextId)
      BY <1>9, <3>1
    <3> QED
      BY <1>5, <3>1, <3>2 DEF Ids
  <2> QED
    BY <2>1
<1>23. CASE wishes' = wishes /\ \A i \in 1 .. n : cs[i].type # "Action"
  <2>1. \A i \in 1 .. n : ~IsWish(nb[i]) /\ nb[i].id # wishes.asked
    <3> SUFFICES ASSUME NEW i \in 1 .. n PROVE ~IsWish(nb[i]) /\ nb[i].id # wishes.asked
      OBVIOUS
    <3>1. ~IsWish(nb[i])
      BY <1>12, <1>23 DEF IsWish
    <3>2. nb[i].id >= nextId /\ nb[i].id \in Nat
      BY <1>5, <1>12
    <3>3. wishes.asked \in Nat
      BY <1>8, BoundAssumption
    <3> QED
      BY <1>5, <1>21, <3>1, <3>2, <3>3
  <2>2. wishes'.asked < nextId'
    BY <1>5, <1>8, <1>21, <1>23, BoundAssumption
  <2>3. ASSUME NEW p \in qs
        PROVE  /\ IsWish(p.command) => p.command.id <= wishes'.asked
               /\ p.command.id # EndId /\ p.command.id = wishes'.asked => IsWish(p.command)
               /\ p.command.id # EndId /\ p.command.id = wishes'.asked /\ Answered(p.command.id)'
                    => Prevails(p.command.arg)'
    <3>1. CASE p \in ps
      BY <1>14, <1>20, <1>21, <1>23, <3>1 DEF WishInForce, ps
    <3>2. ASSUME NEW i \in 1 .. n, p = new(i)
          PROVE  ~IsWish(p.command) /\ p.command.id # wishes'.asked
      BY <1>12, <1>23, <2>1, <3>2
    <3> QED
      BY <1>4, <3>1, <3>2
  <2>4. ASSUME NEW i \in 1 .. Len(x), IsWish(x[i])
        PROVE  x[i].id <= wishes'.asked
    BY <1>13, <1>21, <1>23, <2>1, <2>4 DEF WishInForce, w
  <2>5. /\ wishes'.confirmed = EndId => wishes'.arg = "none"
        /\ wishes'.confirmed # EndId => executed'[wishes'.confirmed] = 1
        /\ wishes'.confirmed = wishes'.asked => Prevails(wishes.arg)'
    <3>1. Prevails(wishes.arg)' <=> Prevails(wishes.arg)
      BY <1>7, <1>23 DEF Prevails
    <3> QED
      BY <1>7, <1>21, <1>23, <3>1 DEF WishInForce
  <2>6. WishInForce'
    BY <2>2, <2>3, <2>4, <2>5 DEF WishInForce, qs, x
  <2> QED
    BY <1>16, <1>17, <1>19, <2>6 DEF WishInv
<1>24. ASSUME NEW k \in 1 .. n, cs[k].type = "Action",
              wishes' = [wishes EXCEPT !.asked = nextId + k - 1]
       PROVE  WishInv'
  <2>1. wishes'.asked = nextId + k - 1 /\ nb[k].id = nextId + k - 1 /\ k \in 1 .. m
    BY <1>8, <1>12, <1>24
  <2>2. \A i \in 1 .. n : /\ IsWish(nb[i]) => i = k
                          /\ nb[i].id = nb[k].id => i = k
    <3>1. \A i \in 1 .. m : cs[i].type = "Action" => i = k
      BY <1>10, <1>24, <2>1 DEF OneAction, m
    <3> SUFFICES ASSUME NEW i \in 1 .. n
                 PROVE  (IsWish(nb[i]) => i = k) /\ (nb[i].id = nb[k].id => i = k)
      OBVIOUS
    <3>2. i \in 1 .. m /\ nb[i].id = nextId + i - 1 /\ nb[i].type = cs[i].type
      BY <1>12
    <3>3. IsWish(nb[i]) => i = k
      BY <3>1, <3>2 DEF IsWish
    <3>4. nb[i].id = nb[k].id => i = k
      BY <1>5, <2>1, <3>2
    <3> QED
      BY <3>3, <3>4
  <2>3. wishes'.asked < nextId' /\ wishes'.asked >= nextId /\ wishes'.asked \in Nat
    BY <1>5, <2>1
  <2>4. ASSUME NEW p \in qs
        PROVE  /\ IsWish(p.command) => p.command.id <= wishes'.asked
               /\ p.command.id # EndId /\ p.command.id = wishes'.asked => IsWish(p.command)
               /\ p.command.id # EndId /\ p.command.id = wishes'.asked /\ Answered(p.command.id)'
                    => Prevails(p.command.arg)'
    <3>1. CASE p \in ps
      <4>1. p.command.id < wishes'.asked /\ p.command.id \in Nat
        BY <1>5, <1>9, <2>3, <3>1
      <4> QED
        BY <2>3, <4>1
    <3>2. ASSUME NEW i \in 1 .. n, p = new(i)
          PROVE  /\ IsWish(p.command) => p.command.id <= wishes'.asked
                 /\ p.command.id = wishes'.asked => IsWish(p.command)
                 /\ ~Answered(p.command.id)
      <4>1. p.command = nb[i]
        BY <1>12, <3>2
      <4>2. IsWish(nb[i]) => nb[i].id <= wishes'.asked
        BY <2>1, <2>2, <2>3
      <4>3. nb[i].id = wishes'.asked => IsWish(nb[i])
        BY <1>12, <1>24, <2>1, <2>2 DEF IsWish
      <4> QED
        BY <1>15, <4>1, <4>2, <4>3
    <3> QED
      BY <1>4, <1>14, <3>1, <3>2
  <2>5. ASSUME NEW i \in 1 .. Len(x), IsWish(x[i])
        PROVE  x[i].id <= wishes'.asked
    <3>1. CASE i \in 1 .. Len(w) /\ x[i] = w[i]
      <4>1. w[i].id < wishes'.asked /\ w[i].id \in Nat
        BY <1>5, <1>9, <2>3, <3>1
      <4> QED
        BY <2>3, <3>1, <4>1
    <3>2. ASSUME NEW j \in 1 .. n, x[i] = nb[j] PROVE x[i].id <= wishes'.asked
      BY <2>1, <2>2, <2>3, <2>5, <3>2
    <3> QED
      BY <1>13, <3>1, <3>2
  <2>6. wishes'.confirmed # wishes'.asked
    <3>1. CASE wishes.confirmed = EndId
      BY <1>5, <1>18, <2>3, <3>1 DEF EndId
    <3>2. CASE wishes.confirmed # EndId
      BY <1>5, <1>18, <1>22, <2>3, <3>2
    <3> QED
      BY <3>1, <3>2
  <2>7. /\ wishes'.confirmed = EndId => wishes'.arg = "none"
        /\ wishes'.confirmed # EndId => executed'[wishes'.confirmed] = 1
    BY <1>7, <1>18, <1>21 DEF WishInForce
  <2>8. WishInForce'
    BY <2>3, <2>4, <2>5, <2>6, <2>7 DEF WishInForce, qs, x
  <2> QED
    BY <1>16, <1>17, <1>19, <2>8 DEF WishInv
<1> QED
  BY <1>8, <1>23, <1>24

\* Only the result of the command is a new answer.
LEMMA ExecuteAnswers ==
    ASSUME Typed, Execute, NEW d, NEW says, NEW x, Executes(Head(wire[Controlled]), d, says, x),
           NEW k \in Ids, Answered(k)'
    PROVE  Answered(k) \/ (k = Head(wire[Controlled]).id /\ d.ok)
<1> DEFINE c == Head(wire[Controlled])
           m == Result(c.id, d.ok)
           w == wire[Controller]
           r == results[Controlled]
           ms == Append(says, m)
<1>1. /\ w \in Seq(AnyMessages) /\ Len(w) <= WireLimit /\ r \in Seq(ResultMessages)
      /\ Len(r) <= CacheLimit /\ k # EndId /\ Len(w) \in Nat
  BY TwoEnds DEF Typed, ChannelTyped, ResultsTyped, Ids, EndId
<1>2. c \in CommandMessages /\ d.ok \in BOOLEAN
  BY ExecutedIs, OutcomeTyped DEF Executes
<1>3. m \in ResultMessages /\ m.id = c.id /\ (m.arg = "ok" => d.ok)
  BY <1>2, ResultTyped DEF CommandMessages, Result
<1>4. /\ wire'[Controller] = Sent(w, ms) /\ results'[Controlled] = RememberCommandResult(r, m)
  BY TwoEnds DEF Executes, Typed, ChannelTyped, ResultsTyped
<1> HIDE DEF m
<1>5. ms \in Seq(AnyMessages) /\ \A i \in 1 .. Len(ms) : ms[i] = m \/ ms[i].id = EndId
  BY <1>2, <1>3, SaysIs
<1> DEFINE y == Sent(w, ms)
           z == RememberCommandResult(r, m)
<1>6. Extends(w, ms, y) /\ y \in Seq(AnyMessages)
  BY <1>1, <1>5, SentExtends
<1>7. \A i \in 1 .. Len(z) : z[i] = m \/ \E j \in 1 .. Len(r) : z[i] = r[j]
  BY <1>1, <1>3, CacheHolds
<1>8. \/ \E i \in 1 .. Len(y) : y[i].id = k /\ y[i].arg = "ok"
      \/ \E i \in 1 .. Len(z) : z[i].id = k /\ z[i].arg = "ok"
  BY <1>4 DEF Answered
<1> HIDE DEF y, z, ms
<1>9. ASSUME NEW i \in 1 .. Len(z), z[i].id = k, z[i].arg = "ok"
      PROVE  Answered(k) \/ (k = c.id /\ d.ok)
  BY <1>3, <1>7, <1>9 DEF Answered
<1>10. ASSUME NEW i \in 1 .. Len(y), y[i].id = k, y[i].arg = "ok"
       PROVE  Answered(k) \/ (k = c.id /\ d.ok)
  <2>1. CASE i <= Len(w)
    <3>1. i \in 1 .. Len(w)
      BY <1>1, <2>1
    <3>2. y[i] = w[i]
      BY <1>6, <3>1 DEF Extends
    <3> QED
      BY <1>10, <3>1, <3>2 DEF Answered
  <2>2. CASE i > Len(w)
    <3>1. i - Len(w) \in 1 .. Len(ms) /\ i - Len(w) \in 1 .. Len(y) - Len(w)
          /\ Len(w) + (i - Len(w)) = i
      BY <1>1, <1>6, <2>2 DEF Extends
    <3>2. y[i] = ms[i - Len(w)]
      BY <1>6, <3>1 DEF Extends
    <3>3. y[i] = m
      BY <1>1, <1>5, <1>10, <3>1, <3>2
    <3> QED
      BY <1>3, <1>10, <3>3
  <2> QED
    BY <1>1, <2>1, <2>2
<1> QED
  BY <1>8, <1>9, <1>10

LEMMA ExecuteKeepsWishes ==
    ASSUME Typed, WaitInv, ExecutionInv, WishInv, Execute
    PROVE  WishInv'
<1> DEFINE w == wire[Controlled]
           c == Head(w)
           ps == pending[Controller]
<1>1. /\ w \in Seq(AnyMessages) /\ executed \in [Ids -> Nat] /\ phase \in [Ends -> Phases]
      /\ restore \in [Ends -> {"Connected", "Streaming"}]
      /\ action \in [armed : Actions, streamed : BOOLEAN, consumed : BOOLEAN]
      /\ wishes \in [asked : 0 .. MaxCommands, confirmed : 0 .. MaxCommands, arg : Actions,
                     streamed : BOOLEAN]
      /\ \A p \in ps : p.command \in CommandMessages
  BY TwoEnds DEF Typed, ChannelTyped, CountsTyped, PendingTyped, Waiting, SessionTyped, HostTyped,
                 UserTyped
<1>2. /\ IsOpen(Controlled) /\ w # <<>> /\ IsOrder(c) /\ c.id \in Ids
      /\ ~HasId(results[Controlled], c.id) /\ c \in CommandMessages
  BY ExecutedIs
<1>3. PICK d, says, x : Executes(c, d, says, x)
  BY ExecutedIs
<1>4. \A k \in Ids : k >= c.id => executed[k] = 0
  BY <1>1, <1>2, HeadIsFresh DEF ExecutionInv
<1>5. c = w[1] /\ 1 \in 1 .. Len(w)
  BY <1>1, <1>2, TailIs
<1>6. \A i \in 1 .. Len(Tail(w)) : i + 1 \in 1 .. Len(w) /\ Tail(w)[i] = w[i + 1]
  BY <1>1, <1>2, TailIs
<1>7. /\ wire'[Controlled] = Tail(w) /\ pending'[Controller] = ps
      /\ UNCHANGED <<nextId, session, restore, locks, preference>>
      /\ executed' = [executed EXCEPT ![c.id] = @ + 1]
      /\ phase'[Controlled] = d.phase /\ action' = d.action
      /\ inForce' = IF d.ok THEN inForce \union {c.arg} ELSE inForce
      /\ wishes' = [wishes EXCEPT !.streamed = @ \/ d.phase = "Streaming"]
      /\ Outcomes(c, d)
  BY <1>1, <1>3, TwoEnds
  DEF Executes, sessionUnchanged, userVars, Typed, ChannelTyped, PendingTyped
<1>8. ~action.consumed /\ session > 0 /\ phase[Controlled] # "Down"
  BY <1>2 DEF IsOpen, WishInv, LocksInOrder
<1>9. phase[Controlled] = "Streaming" => action.streamed
  BY DEF WishInv, StreamsNoted
<1>10. /\ d.phase = phase[Controlled] \/ d.phase \in {"Connected", "Streaming"}
       /\ d.action.consumed = FALSE
       /\ d.action.streamed = (action.streamed \/ d.phase = "Streaming")
       /\ ~(c.type = "Action" /\ d.ok) => d.action.armed = action.armed
       /\ c.type = "Action" /\ d.ok => d.action.armed = c.arg
  <2>1. CASE d = Outcome(phase[Controlled], Host, action, FALSE)
    BY <1>1, <1>8, <1>9, <2>1 DEF Outcome
  <2>2. CASE /\ c.type = "Start" /\ phase[Controlled] = "Connected"
             /\ d = Outcome("Streaming", Host, [action EXCEPT !.streamed = @ \/ ~action.consumed], TRUE)
    BY <1>1, <1>8, <2>2 DEF Outcome
  <2>3. CASE /\ c.type = "Stop" /\ phase[Controlled] = "Streaming"
             /\ d = Outcome("Connected", Host, action, TRUE)
    BY <1>1, <1>8, <2>3 DEF Outcome
  <2>4. CASE /\ c.type = "Mode" /\ phase[Controlled] \in Desktop
             /\ \E takes, wakes \in BOOLEAN :
                   d = Outcome(phase[Controlled], SetMode(Host, c.arg, takes, wakes), action,
                               Sets(Host, c.arg, takes, wakes))
    <3>1. d.phase = phase[Controlled] /\ d.action = action /\ c.type = "Mode"
      BY <2>4 DEF Outcome
    <3> QED
      BY <1>1, <1>8, <1>9, <3>1
  <2>5. CASE /\ c.type = "Action" /\ phase[Controlled] \in Desktop /\ ~action.consumed
             /\ d = Outcome(phase[Controlled], Host, [action EXCEPT !.armed = c.arg], TRUE)
    BY <1>1, <1>8, <1>9, <2>5 DEF Outcome
  <2> QED
    BY <1>7, <2>1, <2>2, <2>3, <2>4, <2>5 DEF Outcomes
<1> HIDE DEF w, c, ps
<1>11. /\ wishes'.streamed = (wishes.streamed \/ d.phase = "Streaming")
       /\ wishes'.asked = wishes.asked /\ wishes'.confirmed = wishes.confirmed
       /\ wishes'.arg = wishes.arg
  BY <1>1, <1>7
<1>12. StreamsNoted'
  <2>1. StreamsNoted
    BY DEF WishInv
  <2>2. wishes'.streamed = action'.streamed
    BY <1>7, <1>10, <1>11, <2>1 DEF StreamsNoted
  <2>3. phase'[Controlled] = "Streaming" => action'.streamed
    BY <1>1, <1>7, <1>10
  <2>4. phase'[Controlled] = "Reconnecting" /\ restore'[Controlled] = "Streaming" => action'.streamed
    BY <1>1, <1>7, <1>10, <2>1 DEF StreamsNoted
  <2> QED
    BY <2>2, <2>3, <2>4 DEF StreamsNoted
<1>13. LocksInOrder'
  BY <1>7, <1>8, <1>10 DEF WishInv, LocksInOrder
<1>14. SameCommand'
  BY <1>6, <1>7 DEF WishInv, SameCommand, w, ps
<1>15. ASSUME NEW p \in ps, p.command.id = c.id PROVE p.command = c
  BY <1>2, <1>5, <1>15 DEF WishInv, SameCommand, w, ps
<1>16. ASSUME NEW p \in ps, p.command.id # EndId, Answered(p.command.id)'
       PROVE  Answered(p.command.id) \/ (p.command = c /\ d.ok)
  <2>1. p.command.id \in Ids
    BY <1>1, <1>16, BoundAssumption DEF CommandMessages, Ids, EndId
  <2>2. Answered(p.command.id) \/ (p.command.id = c.id /\ d.ok)
    BY <1>3, <1>16, <2>1, ExecuteAnswers DEF c, w
  <2> QED
    BY <1>15, <2>2
<1>17. AnsweredInForce'
  <2> SUFFICES ASSUME NEW p \in ps, p.command.id # EndId, Answered(p.command.id)'
               PROVE  p.command.arg \in inForce'
    BY <1>7 DEF AnsweredInForce
  <2>1. CASE Answered(p.command.id)
    BY <1>7, <2>1 DEF WishInv, AnsweredInForce, ps
  <2>2. CASE p.command = c /\ d.ok
    BY <1>7, <2>2
  <2> QED
    BY <1>16, <2>1, <2>2
<1>18. RememberedWasInForce'
  BY <1>7 DEF WishInv, RememberedWasInForce
<1>19. WishInForce
  BY DEF WishInv
<1>20. \A k \in Ids : executed[k] = 1 => k < c.id /\ executed'[k] = 1
  <2> SUFFICES ASSUME NEW k \in Ids, executed[k] = 1 PROVE k < c.id /\ executed'[k] = 1
    OBVIOUS
  <2>1. k < c.id
    BY <1>2, <1>4 DEF Ids
  <2> QED
    BY <1>1, <1>2, <1>7, <2>1 DEF Ids
<1>21. c.type = "Action" => c.id <= wishes.asked
  BY <1>5, <1>19 DEF WishInForce, IsWish, w
<1>22. ASSUME NEW a, Prevails(a), executed[wishes.asked] = 1, wishes.asked \in Ids
       PROVE  Prevails(a)'
  <2>1. action.armed = a
    BY <1>8, <1>22 DEF Prevails
  <2>2. c.type # "Action"
    BY <1>2, <1>20, <1>21, <1>22 DEF Ids
  <2> QED
    BY <1>7, <1>10, <2>1, <2>2 DEF Prevails
<1>23. WishInForce'
  <2>1. wishes'.asked < nextId'
    BY <1>7, <1>11, <1>19 DEF WishInForce
  <2>2. ASSUME NEW p \in pending'[Controller]
        PROVE  /\ IsWish(p.command) => p.command.id <= wishes'.asked
               /\ p.command.id # EndId /\ p.command.id = wishes'.asked => IsWish(p.command)
    BY <1>7, <1>11, <1>19, <2>2 DEF WishInForce, ps
  <2>3. ASSUME NEW i \in 1 .. Len(wire'[Controlled]), IsWish(wire'[Controlled][i])
        PROVE  wire'[Controlled][i].id <= wishes'.asked
    BY <1>6, <1>7, <1>11, <1>19, <2>3 DEF WishInForce, w
  <2>4. /\ wishes'.confirmed = EndId => wishes'.arg = "none"
        /\ wishes'.confirmed # EndId => executed'[wishes'.confirmed] = 1
    <3>1. wishes.confirmed # EndId => wishes.confirmed \in Ids
      BY <1>1, BoundAssumption DEF Ids, EndId
    <3> QED
      BY <1>11, <1>19, <1>20, <3>1 DEF WishInForce
  <2>5. ASSUME wishes'.confirmed = wishes'.asked PROVE Prevails(wishes.arg)'
    <3>1. Prevails(wishes.arg)
      BY <1>11, <1>19, <2>5 DEF WishInForce
    <3>2. action.armed = wishes.arg
      BY <1>8, <3>1 DEF Prevails
    <3>3. ~(c.type = "Action" /\ d.ok)
      <4>1. CASE wishes.confirmed = EndId
        <5>1. wishes.asked = EndId
          BY <1>11, <2>5, <4>1
        <5>2. EndId < c.id
          BY <1>2, BoundAssumption DEF Ids, EndId
        <5>3. c.type = "Action" => c.id <= EndId
          BY <1>21, <5>1
        <5>4. ~(c.id <= EndId)
          BY <1>2, <5>2, BoundAssumption DEF Ids, EndId
        <5> QED
          BY <5>3, <5>4
      <4>2. CASE wishes.confirmed # EndId
        <5>1. wishes.confirmed \in Ids /\ executed[wishes.confirmed] = 1
          BY <1>1, <1>19, <4>2, BoundAssumption DEF WishInForce, Ids, EndId
        <5> QED
          BY <1>2, <1>11, <1>20, <1>21, <2>5, <5>1 DEF Ids
      <4> QED
        BY <4>1, <4>2
    <3> QED
      BY <1>7, <1>10, <1>11, <3>2, <3>3 DEF Prevails
  <2>6. ASSUME NEW p \in pending'[Controller], p.command.id # EndId,
               p.command.id = wishes'.asked, Answered(p.command.id)'
        PROVE  Prevails(p.command.arg)'
    <3>1. p \in ps /\ p.command.id = wishes.asked
      BY <1>7, <1>11, <2>6
    <3>2. CASE Answered(p.command.id)
      <4>1. Prevails(p.command.arg)
        BY <1>19, <2>6, <3>1, <3>2 DEF WishInForce, ps
      <4>2. executed[wishes.asked] = 1
        BY <2>6, <3>1, <3>2, AnsweredIsExecuted
      <4>3. wishes.asked \in Ids
        BY <1>1, <2>6, <3>1, BoundAssumption DEF Ids, EndId
      <4> QED
        BY <1>22, <4>1, <4>2, <4>3
    <3>3. CASE p.command = c /\ d.ok
      <4>1. c.type = "Action"
        BY <1>19, <2>6, <3>1, <3>3 DEF WishInForce, IsWish, ps
      <4> QED
        BY <1>7, <1>10, <3>3, <4>1 DEF Prevails
    <3> QED
      BY <1>16, <2>6, <3>1, <3>2, <3>3
  <2> QED
    BY <2>1, <2>2, <2>3, <2>4, <2>5, <2>6 DEF WishInForce
<1> QED
  BY <1>12, <1>13, <1>14, <1>17, <1>18, <1>23 DEF WishInv

LEMMA StepKeepsWishes ==
    ASSUME Typed, Typed', WaitInv, ExecutionInv, WishInv, Next
    PROVE  WishInv'
<1>1. CASE ~Requests /\ ~Execute /\ ~StartSession
  <2>1. Passes /\ Believes /\ HostMoves
    BY <1>1, OthersPass, OthersLearn
  <2>2. OneEach /\ \E S : WaitsOn(S)
    BY <1>1, StepKeeps DEF Kept, WaitInv
  <2> QED
    BY <2>1, <2>2, PassKeepsWishes
<1> QED
  BY <1>1, RequestKeepsWishes, ExecuteKeepsWishes, StartKeepsWishes

LEMMA InitWishes == Init => WishInv
<1> SUFFICES ASSUME Init PROVE WishInv
  OBVIOUS
<1>1. /\ wire[Controlled] = <<>> /\ pending[Controller] = {} /\ phase[Controlled] = "Down"
      /\ wishes = NoWishes /\ nextId = 1 /\ session = 0
      /\ action = [armed |-> "none", streamed |-> FALSE, consumed |-> FALSE]
  BY TwoEnds DEF Init
<1>2. LocksInOrder
  BY <1>1 DEF LocksInOrder, Init
<1>3. SameCommand /\ AnsweredInForce /\ StreamsNoted
  BY <1>1 DEF SameCommand, AnsweredInForce, StreamsNoted, NoWishes
<1>4. wishes.asked < nextId
  BY <1>1 DEF NoWishes, EndId
<1>5. Prevails("none")
  BY <1>1 DEF Prevails
<1>6. WishInForce
  BY <1>1, <1>4, <1>5 DEF WishInForce, NoWishes
<1>7. RememberedWasInForce
  BY DEF RememberedWasInForce, Init
<1> QED
  BY <1>2, <1>3, <1>6, <1>7 DEF WishInv

\* A wish about the workstation that the controller saw confirmed decides
\* whether the workstation is locked when the session ends, once and only
\* after a desktop was shown (KPostSessionActionService: consumed in
\* finishStopping, after the teardown); and what is remembered of a device was
\* in force on it (KDeviceSecurityPreferenceService).
THEOREM WishesCorrect == Spec => []WishesAreKept
<1>1. Typed /\ Typed' /\ WaitInv /\ ExecutionInv /\ WishInv /\ [Next]_vars => WishInv'
  <2> SUFFICES ASSUME Typed, Typed', WaitInv, ExecutionInv, WishInv, [Next]_vars PROVE WishInv'
    OBVIOUS
  <2>1. CASE UNCHANGED vars
    <3>1. UNCHANGED <<wire, pending, results, phase, restore, session, nextId, action, locks,
                      preference, executed, wishes, inForce>>
      BY <2>1 DEF vars, hostVars, userVars, history
    <3>2. SameCommand' /\ AnsweredInForce'
      BY <3>1 DEF WishInv, SameCommand, AnsweredInForce, Answered
    <3>3. StreamsNoted' /\ LocksInOrder' /\ RememberedWasInForce'
      BY <3>1 DEF WishInv, StreamsNoted, LocksInOrder, RememberedWasInForce
    <3>4. WishInForce'
      BY <3>1 DEF WishInv, WishInForce, Answered, Prevails
    <3> QED
      BY <3>2, <3>3, <3>4 DEF WishInv
  <2>2. CASE Next
    BY <2>2, StepKeepsWishes
  <2> QED
    BY <2>1, <2>2
<1>2. WishInv => WishesAreKept
  BY DEF WishInv, LocksInOrder, StreamsNoted, WishInForce, Prevails, WishesAreKept,
         LockFollowsWishes
<1> QED
  BY <1>1, <1>2, InitWishes, WaitsCorrect, ExecutionCorrect, PTL DEF Spec
==============================================================================
