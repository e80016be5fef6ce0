--------------------------- MODULE SecurityControls ---------------------------
(***************************************************************************)
(* The commands of the session channel and the two security controls that  *)
(* travel over it: the privacy mode and the action after the session.      *)
(*                                                                         *)
(* Each end has a KSessionCommandDispatcher                                *)
(* (session/sessioncommanddispatcher.cpp): a command is sent, sent once    *)
(* more when no result came for a second, and given up a second later; the *)
(* other end executes it once and answers copies from its cache.  The      *)
(* controlled end has KPrivacyModeService with its overlay and display     *)
(* adapters and KPostSessionActionService (privacy/).  The controller has  *)
(* KDeviceSecurityPreferenceService (settings/), which remembers what the  *)
(* user chose and asks for it again in the next session.  The session      *)
(* coordinator is here as far as these parts see it; SessionCoordinator    *)
(* models the rest of it.                                                  *)
(*                                                                         *)
(* The session channel keeps its order and loses nothing until it closes.  *)
(* An answer may be slower than a second at any time.                      *)
(***************************************************************************)
EXTENDS Integers, Sequences, FiniteSets

CONSTANTS
    MaxSessions,          \* bound on the sessions
    MaxCommands,          \* bound on the commands of the controller
    CacheLimit,           \* kMaximumRecentCommandResults
    WireLimit,            \* what the channel and its queue hold
    MaxTroubles,          \* bound on interruptions, delays, failures and shortcuts
    AdvertiseDisplayOff   \* KPrivacyRolloutPolicy::bAdvertiseDisplayOff

ASSUME BoundAssumption ==
    /\ MaxSessions \in Nat /\ MaxCommands \in Nat /\ MaxTroubles \in Nat
    /\ CacheLimit \in Nat \ {0} /\ WireLimit \in Nat \ {0}
    /\ AdvertiseDisplayOff \in BOOLEAN

Controller == "controller"
Controlled == "controlled"
Ends == {Controller, Controlled}
Peer(e) == IF e = Controller THEN Controlled ELSE Controller

Modes == {"disabled", "overlay", "displayoff"}
Actions == {"none", "lock"}

VARIABLES
    session,    \* the number of the session, and of its generation
    phase,      \* per end: the session state, as far as commands see it
    restore,    \* per end: the state a reconnecting session goes back to
    wire,       \* per end: the messages on the session channel to it
    pending,    \* per end: m_pendingCommands
    results,    \* per end: m_recentCommandResults in the order of their ids
    nextId,     \* the next request id of the controller
    privacy,    \* KPrivacyModeService::m_status
    screen,     \* what the adapters have done to the displays
    emergency,  \* a restore waits in the queue of the session thread
    action,     \* KPostSessionActionService
    locks,      \* per session: LockWorkStation calls
    troubles,   \* interruptions, delays, failures and shortcuts so far
    preference, \* m_preferences of the one remote device
    asked,      \* KDeviceSecurityPreferenceService::m_pendingCommands
    applied,    \* the two m_b...AutoApplyAttempted
    seen,       \* the privacy mode the controller was last told
    executed,   \* history: how often each command was executed
    reports,    \* history: how often the end of each command was reported
    wishes,     \* history: the last action asked for, the last one confirmed,
                \* and whether the host streamed
    inForce,    \* history: what was ever in force on the device
    lost        \* history: a status of this session found the queue full

hostVars == <<privacy, screen, emergency, action, locks>>
userVars == <<preference, asked, applied, seen>>
history == <<executed, reports, wishes, inForce, lost>>
vars == <<session, phase, restore, wire, pending, results, nextId, troubles,
          hostVars, userVars, history>>

Phases == {"Down", "Connected", "Streaming", "Reconnecting", "Stopping", "Tearing"}
Live == {"Connected", "Streaming", "Reconnecting"}
Desktop == {"Streaming", "Reconnecting"}
CommandTypes == {"Start", "Stop", "Mode", "Action", "End"}

Ids == 1 .. MaxCommands
EndId == 0
Command(id, type, arg) == [id |-> id, type |-> type, arg |-> arg]
Result(id, ok) == [id |-> id, type |-> "Result", arg |-> IF ok THEN "ok" ELSE "refused"]
Status(arg) == [id |-> EndId, type |-> "ModeState", arg |-> arg]

Advertised == Modes \ (IF AdvertiseDisplayOff THEN {} ELSE {"displayoff"})

------------------------------------------------------------------------------
(* The dispatcher.  o is what an end sends: the messages on the channel to   *)
(* its peer and its commands without a result.                               *)

Out(e) == [wire |-> wire[Peer(e)], pending |-> pending[e]]

IsOpen(e) == phase[e] \notin {"Down", "Tearing"}

Accepts(o) == Len(o.wire) < WireLimit

\* Messages are sent one by one until one finds the queue full.
Transmits(o, ms) ==
    LET room == WireLimit - Len(o.wire)
    IN [o EXCEPT !.wire = @ \o SubSeq(ms, 1, IF room < Len(ms) THEN room ELSE Len(ms))]

\* The commands that find room wait for a result; a refused one is reported
\* at once and never waits.
SendCommands(o, cs) ==
    LET sent == Transmits(o, cs)
        new == {sent.wire[i] : i \in Len(o.wire) + 1 .. Len(sent.wire)}
    IN [sent EXCEPT !.pending = @ \union {[command |-> c, attempts |-> 1] : c \in new}]

Waits(e, id) == \E p \in pending[e] : p.command.id = id

Forget(ps, id) == {p \in ps : p.command.id # id}

RememberCommandResult(rs, r) ==
    IF Len(rs) < CacheLimit THEN Append(rs, r) ELSE Append(Tail(rs), r)

Cached(e, id) == {results[e][i] : i \in {j \in DOMAIN results[e] : results[e][j].id = id}}

\* Between a command and its copy, which is a second, the controller sends
\* less than a cache full of commands: 128 of them in the code.
MaySend(n) ==
    /\ nextId + n - 1 <= MaxCommands /\ n < CacheLimit
    /\ \A p \in pending[Controller] :
          p.attempts = 1 /\ p.command.id # EndId => nextId + n - p.command.id < CacheLimit

------------------------------------------------------------------------------
(* KPrivacyModeService and its adapters.  A host state h holds the status,   *)
(* the displays, the queued restore and the status messages to publish.      *)

NoScreen == [overlay |-> FALSE, off |-> FALSE]

NewPrivacy == [state |-> "Inactive", effective |-> "disabled"]

Host == [privacy |-> privacy, screen |-> screen, says |-> <<>>]

\* Of the statuses one call publishes the last is kept: "Applying" and
\* "Restoring" are followed by it at once.
Publish(h) == [h EXCEPT !.says = <<Status(h.privacy)>>]

SetState(h, state) == Publish([h EXCEPT !.privacy.state = state])

\* The overlay always comes down; the display may refuse to wake.
RestoreMode(h, mode, wakes) ==
    CASE mode = "overlay" -> [h EXCEPT !.screen.overlay = FALSE]
      [] mode = "displayoff" /\ wakes -> [h EXCEPT !.screen.off = FALSE]
      [] OTHER -> h

ApplyMode(h, mode) ==
    IF mode = "overlay" THEN [h EXCEPT !.screen.overlay = TRUE]
    ELSE [h EXCEPT !.screen.off = TRUE]

\* The mode a host is in is left before another is entered.
SetMode(h, mode, takes, wakes) ==
    LET old == h.privacy.effective
        left == [RestoreMode(h, old, wakes) EXCEPT !.privacy.effective = "disabled"]
    IN IF mode = old /\ h.privacy.state \in {"Active", "Inactive"} THEN Publish(h)
       ELSE IF old = "displayoff" /\ ~wakes THEN SetState(h, "Failed")
       ELSE IF mode = "disabled" THEN SetState(left, "Inactive")
       ELSE IF ~takes THEN SetState(left, "Failed")
       ELSE SetState([ApplyMode(left, mode) EXCEPT !.privacy.effective = mode], "Active")

Sets(h, mode, takes, wakes) ==
    \/ mode = h.privacy.effective /\ h.privacy.state \in {"Active", "Inactive"}
    \/ /\ wakes \/ h.privacy.effective # "displayoff"
       /\ takes \/ mode = "disabled"

Reset(h, wakes) ==
    LET back == RestoreMode(RestoreMode(h, "overlay", wakes), "displayoff", wakes)
    IN SetState([back EXCEPT !.privacy.effective = "disabled"],
                IF wakes THEN "Inactive" ELSE "Failed")

------------------------------------------------------------------------------
(* The controller's preferences and window.                                  *)

NoAsked == [id \in {} |-> "user"]

NoWishes == [asked |-> EndId, confirmed |-> EndId, arg |-> "none", streamed |-> FALSE]

Wanted == (IF preference.mode \in Advertised \ {"disabled"}
           THEN <<[type |-> "Mode", arg |-> preference.mode]>> ELSE <<>>)
          \o (IF preference.action = "lock"
              THEN <<[type |-> "Action", arg |-> "lock"]>> ELSE <<>>)

FlagOf(type) == IF type = "Mode" THEN "mode" ELSE "action"

\* A user's choice that the host confirmed is saved, unless the store fails.
UpdatePreference(c, saves) ==
    IF saves THEN [preference EXCEPT ![FlagOf(c.type)] = c.arg] ELSE preference

\* Fault: a choice is remembered when it is refused, too.
CompletesAnyway(c, ok) == c.id \in DOMAIN asked /\ asked[c.id] = "user"

Completes(c, ok) == ok /\ c.id \in DOMAIN asked /\ asked[c.id] = "user"

\* privacyModeCommandCompleted and postSessionActionCommandCompleted.
CompleteCommand(c, ok, saves) ==
    /\ asked' = [id \in DOMAIN asked \ {c.id} |-> asked[id]]
    /\ preference' = IF Completes(c, ok) THEN UpdatePreference(c, saves) ELSE preference
    /\ wishes' = IF ok /\ c.type = "Action"
                 THEN [wishes EXCEPT !.confirmed = c.id, !.arg = c.arg] ELSE wishes

\* A command that ended without success.
Fails(c) ==
    IF c.type \in {"Mode", "Action"} THEN CompleteCommand(c, FALSE, FALSE)
    ELSE UNCHANGED <<asked, preference, wishes>>

Reported(ids) ==
    reports' = [id \in Ids |-> reports[id] + IF id \in ids THEN 1 ELSE 0]

------------------------------------------------------------------------------
(* The end of a session.                                                     *)

Sends(e, o) ==
    /\ wire' = [wire EXCEPT ![Peer(e)] = o.wire]
    /\ pending' = [pending EXCEPT ![e] = o.pending]

\* continueStoppingTeardown: failAll reports what still waits, the peer
\* connection goes, and nothing is read from it again.
Teardown(e, o) ==
    /\ phase' = [phase EXCEPT ![e] = "Tearing"]
    /\ wire' = [wire EXCEPT ![Peer(e)] = o.wire, ![e] = <<>>]
    /\ pending' = [pending EXCEPT ![e] = {}]
    /\ results' = [results EXCEPT ![e] = <<>>]
    /\ Reported({p.command.id : p \in o.pending})

\* What the ends let go of as they enter Stopping: the host its privacy mode,
\* the controller the commands its preferences wait for.
LetGo(e) ==
    IF e = Controlled
    THEN \E wakes \in BOOLEAN :
            LET h == Reset(Host, wakes) IN
            /\ screen.off \/ wakes
            /\ privacy' = h.privacy /\ screen' = h.screen
            /\ UNCHANGED <<asked, applied>>
    ELSE asked' = NoAsked /\ applied' = FALSE /\ UNCHANGED <<privacy, screen>>

FinishSession(e, o, notify) ==
    /\ LetGo(e)
    /\ IF notify /\ Accepts(o)
       THEN /\ phase' = [phase EXCEPT ![e] = "Stopping"]
            /\ Sends(e, SendCommands(o, <<Command(EndId, "End", "none")>>))
            /\ UNCHANGED <<results, reports>>
       ELSE Teardown(e, o)

endUnchanged == <<session, restore, nextId, emergency, action, locks, preference,
                  seen, wishes, executed, inForce, lost>>

\* The user of either end ends the session.
UserStop(e) ==
    /\ phase[e] \in Live
    /\ FinishSession(e, Out(e), TRUE)
    /\ UNCHANGED <<endUnchanged, troubles>>

\* The connection fails for good, or for ten seconds.
ConnectionEnds(e) ==
    /\ phase[e] = "Reconnecting"
    /\ FinishSession(e, Out(e), FALSE)
    /\ UNCHANGED <<endUnchanged, troubles>>

\* The other end is gone: what it sent may have come or not.
ChannelCloses(e) ==
    /\ IsOpen(e) /\ ~IsOpen(Peer(e))
    /\ IF phase[e] = "Stopping"
       THEN Teardown(e, Out(e))
            /\ UNCHANGED <<privacy, screen, asked, applied>>
       ELSE FinishSession(e, Out(e), FALSE)
    /\ UNCHANGED <<endUnchanged, troubles>>

\* Capture and peer are gone: finishStopping and consumeAfterTeardown.
FinishStopping(e) ==
    LET lock == e = Controlled /\ ~action.consumed /\ action.armed = "lock" /\ action.streamed IN
    /\ phase[e] = "Tearing"
    /\ phase' = [phase EXCEPT ![e] = "Down"]
    /\ action' = IF e = Controlled
                 THEN [action EXCEPT !.consumed = TRUE, !.armed = "none"] ELSE action
    /\ locks' = IF lock THEN [locks EXCEPT ![session] = @ + 1] ELSE locks
    /\ UNCHANGED <<session, restore, wire, pending, results, nextId, troubles, privacy,
                   screen, emergency, userVars, history>>

------------------------------------------------------------------------------
(* A session, and what the controller's user asks of it.                     *)

\* Capabilities negotiated at both ends: completeCapabilityNegotiation.
StartSession ==
    /\ session < MaxSessions
    /\ \A e \in Ends : phase[e] = "Down"
    /\ session' = session + 1
    /\ phase' = [e \in Ends |-> "Connected"]
    /\ wire' = [e \in Ends |-> <<>>]
    /\ privacy' = NewPrivacy
    /\ \E wakes \in BOOLEAN :
          /\ screen.off \/ wakes
          /\ screen' = [overlay |-> FALSE, off |-> screen.off /\ ~wakes]
    /\ action' = [armed |-> "none", streamed |-> FALSE, consumed |-> FALSE]
    /\ seen' = NewPrivacy
    /\ asked' = NoAsked /\ applied' = FALSE
    /\ wishes' = NoWishes /\ lost' = FALSE
    /\ UNCHANGED <<restore, pending, results, nextId, emergency, locks, troubles,
                   preference, executed, reports, inForce>>

\* The next ids go to the commands cs; source tells a user's from an
\* automatic one.
Asks(cs, source) ==
    LET numbered == [i \in DOMAIN cs |-> Command(nextId + i - 1, cs[i].type, cs[i].arg)]
        o == SendCommands(Out(Controller), numbered)
        taken == {p.command : p \in o.pending \ pending[Controller]}
        control == {c.id : c \in {t \in taken : t.type \in {"Mode", "Action"}}}
        ofAction == {c.id : c \in {t \in taken : t.type = "Action"}}
    IN /\ MaySend(Len(cs))
       /\ nextId' = nextId + Len(cs)
       /\ Sends(Controller, o)
       /\ asked' = [id \in DOMAIN asked \union control |->
                       IF id \in control THEN source ELSE asked[id]]
       /\ wishes' = IF ofAction = {} THEN wishes
                    ELSE [wishes EXCEPT !.asked = CHOOSE id \in ofAction : TRUE]
       /\ Reported({numbered[i].id : i \in DOMAIN cs} \ {c.id : c \in taken})

askUnchanged == <<session, restore, results, hostVars, preference, seen, executed,
                  inForce, lost, troubles>>

\* enterRemoteDesktop; the window's desktop asks for what is remembered.
EnterRemoteDesktop ==
    /\ phase[Controller] = "Connected"
    /\ phase' = [phase EXCEPT ![Controller] = "Streaming"]
    /\ Asks(<<[type |-> "Start", arg |-> "none"]>> \o (IF applied THEN <<>> ELSE Wanted),
            "auto")
    /\ applied' = TRUE
    /\ UNCHANGED askUnchanged

LeaveRemoteDesktop ==
    /\ phase[Controller] = "Streaming"
    /\ phase' = [phase EXCEPT ![Controller] = "Connected"]
    /\ Asks(<<[type |-> "Stop", arg |-> "none"]>>, "auto")
    /\ UNCHANGED <<askUnchanged, applied>>

RequestPrivacyMode(mode) ==
    /\ phase[Controller] \in Desktop
    /\ mode \in Advertised
    /\ Asks(<<[type |-> "Mode", arg |-> mode]>>, "user")
    /\ UNCHANGED <<phase, askUnchanged, applied>>

RequestPostSessionAction(a) ==
    /\ phase[Controller] \in Desktop
    /\ Asks(<<[type |-> "Action", arg |-> a]>>, "user")
    /\ UNCHANGED <<phase, askUnchanged, applied>>

------------------------------------------------------------------------------
(* The controlled end executes.  Each operator gives the phase, the host     *)
(* state with the statuses to send, the action and whether it succeeded.     *)

Outcome(p, h, act, ok) == [phase |-> p, host |-> h, action |-> act, ok |-> ok]

CannotNow(p) == Outcome(p, Host, action, FALSE)

\* Fault: the stream is not noted.
StartUnnoticed(p) ==
    IF p # "Connected" THEN CannotNow(p) ELSE Outcome("Streaming", Host, action, TRUE)

HandleStartStreaming(p) ==
    IF p # "Connected" THEN CannotNow(p)
    ELSE Outcome("Streaming", Host, [action EXCEPT !.streamed = @ \/ ~action.consumed], TRUE)

HandleStopStreaming(p) ==
    IF p # "Streaming" THEN CannotNow(p) ELSE Outcome("Connected", Host, action, TRUE)

HandleSetPrivacyMode(p, c, takes, wakes) ==
    IF p \notin Desktop THEN CannotNow(p)
    ELSE Outcome(p, SetMode(Host, c.arg, takes, wakes), action,
                 Sets(Host, c.arg, takes, wakes))

HandleSetPostSessionAction(p, c) ==
    IF p \notin Desktop \/ action.consumed THEN CannotNow(p)
    ELSE Outcome(p, Host, [action EXCEPT !.armed = c.arg], TRUE)

Handle(c, takes, wakes) ==
    LET p == phase[Controlled] IN
    CASE c.type = "Start"  -> HandleStartStreaming(p)
      [] c.type = "Stop"   -> HandleStopStreaming(p)
      [] c.type = "Mode"   -> HandleSetPrivacyMode(p, c, takes, wakes)
      [] c.type = "Action" -> HandleSetPostSessionAction(p, c)

------------------------------------------------------------------------------
(* Delivery.                                                                 *)

\* m is read off the channel and o is sent.
Reads(e, o) ==
    /\ wire' = [wire EXCEPT ![e] = Tail(@), ![Peer(e)] = o.wire]
    /\ pending' = [pending EXCEPT ![e] = o.pending]

Arrives(e, type) == IsOpen(e) /\ wire[e] # <<>> /\ Head(wire[e]).type = type

\* Fault: a copy is executed like the command.
NeverExecuted(e, id) == FALSE

WasExecuted(e, id) == Cached(e, id) # {}

sessionUnchanged == <<session, restore, nextId>>

\* A mode that does not take, and a store that does not save, are troubles.
Fares(well) ==
    /\ well \/ troubles < MaxTroubles
    /\ troubles' = troubles + (IF well THEN 0 ELSE 1)

\* A copy of a command is answered with the result it had.
RepeatResult(e) ==
    /\ wire[e] # <<>> /\ IsOpen(e)
    /\ Head(wire[e]).type \in CommandTypes
    /\ WasExecuted(e, Head(wire[e]).id)
    /\ Reads(e, Transmits(Out(e), <<CHOOSE r \in Cached(e, Head(wire[e]).id) : TRUE>>))
    /\ UNCHANGED <<sessionUnchanged, troubles, phase, results, hostVars, userVars, history>>

\* A command of the controller is executed, its statuses go out before its
\* result.
Execute ==
    LET c == Head(wire[Controlled])
    IN /\ IsOpen(Controlled) /\ wire[Controlled] # <<>>
       /\ c.type \in CommandTypes \ {"End"} /\ ~WasExecuted(Controlled, c.id)
       /\ \E takes, wakes \in BOOLEAN :
             LET d == Handle(c, takes, wakes)
                 says == IF phase[Controlled] \in Live THEN d.host.says ELSE <<>>
                 o == Transmits(Out(Controlled), Append(says, Result(c.id, d.ok)))
             IN /\ takes \/ (c.type = "Mode" /\ c.arg # "disabled")
                /\ wakes \/ screen.off
                /\ Fares(takes /\ wakes)
                /\ phase' = [phase EXCEPT ![Controlled] = d.phase]
                /\ privacy' = d.host.privacy /\ screen' = d.host.screen
                /\ action' = d.action
                /\ Reads(Controlled, o)
                /\ lost' = (lost \/ Len(o.wire) - Len(wire[Controller]) < Len(says))
                /\ results' = [results EXCEPT ![Controlled] =
                                 RememberCommandResult(@, Result(c.id, d.ok))]
                /\ inForce' = IF d.ok THEN inForce \union {c.arg} ELSE inForce
       /\ executed' = [executed EXCEPT ![c.id] = @ + 1]
       /\ wishes' = [wishes EXCEPT !.streamed = @ \/ phase'[Controlled] = "Streaming"]
       /\ UNCHANGED <<sessionUnchanged, emergency, locks, userVars, reports>>

\* EndSession: the result goes first, then the session ends here too.
ExecuteEnd(e) ==
    LET r == Result(EndId, TRUE)
        o == Transmits(Out(e), <<r>>)
    IN /\ Arrives(e, "End") /\ ~WasExecuted(e, EndId)
       /\ IF phase[e] = "Stopping"
          THEN /\ Reads(e, o)
               /\ results' = [results EXCEPT ![e] = RememberCommandResult(@, r)]
               /\ UNCHANGED <<phase, privacy, screen, asked, applied, reports>>
          ELSE FinishSession(e, o, FALSE)
       /\ UNCHANGED <<endUnchanged, troubles>>

\* A result ends its command; a late one finds none.
HandleResult(e) ==
    LET r == Head(wire[e])
        o == [Out(e) EXCEPT !.pending = Forget(@, r.id)]
        c == (CHOOSE p \in pending[e] : p.command.id = r.id).command
    IN /\ Arrives(e, "Result")
       /\ IF ~Waits(e, r.id)
          THEN /\ Reads(e, o)
               /\ UNCHANGED <<phase, results, preference, asked, applied, reports, wishes,
                              troubles>>
          ELSE IF c.type = "End"
          THEN /\ Teardown(e, o)
               /\ UNCHANGED <<preference, asked, applied, wishes, troubles>>
          ELSE /\ Reads(e, o) /\ Reported({c.id})
               /\ IF c.type \in {"Mode", "Action"}
                  THEN \E saves \in BOOLEAN :
                          /\ Fares(saves)
                          /\ saves \/ Completes(c, r.arg = "ok")
                          /\ CompleteCommand(c, r.arg = "ok", saves)
                  ELSE UNCHANGED <<asked, preference, wishes, troubles>>
               /\ UNCHANGED <<phase, results, applied>>
       /\ UNCHANGED <<sessionUnchanged, hostVars, seen, executed, inForce, lost>>

\* handlePrivacyModeStateMessage: the window sees what the host is in.
HandleStatus ==
    /\ Arrives(Controller, "ModeState")
    /\ Reads(Controller, Out(Controller))
    /\ seen' = IF phase[Controller] \in Live THEN Head(wire[Controller]).arg ELSE seen
    /\ UNCHANGED <<sessionUnchanged, troubles, phase, results, hostVars, preference, asked,
                   applied, history>>

------------------------------------------------------------------------------
(* A second without a result.                                                *)

Travels(m, id) == m.id = id /\ m.type # "ModeState"

\* Nothing of the command is on its way: no copy and no result.
IsLost(e, id) == \A f \in Ends : \A i \in DOMAIN wire[f] : ~Travels(wire[f][i], id)

\* A second passes: because nothing comes any more, or because the answer is
\* slow, which is a trouble.
SecondPasses(e, p) == Fares(IsLost(e, p.command.id))

\* The one copy is sent; a copy the queue refuses ends the command.
Retry(e) ==
    \E p \in pending[e] :
      LET rest == [Out(e) EXCEPT !.pending = @ \ {p}]
          o == [Transmits(rest, <<p.command>>)
                  EXCEPT !.pending = @ \union {[p EXCEPT !.attempts = 2]}]
      IN /\ p.attempts = 1 /\ SecondPasses(e, p)
         /\ IF Accepts(rest)
            THEN Sends(e, o) /\ UNCHANGED <<phase, results, preference, asked, applied, wishes, reports>>
            ELSE IF p.command.type = "End"
            THEN /\ Teardown(e, rest)
                 /\ UNCHANGED <<asked, preference, applied, wishes>>
            ELSE /\ Sends(e, rest) /\ Reported({p.command.id})
                 /\ Fails(p.command)
                 /\ UNCHANGED <<phase, results, applied>>
         /\ UNCHANGED <<sessionUnchanged, hostVars, seen, executed, inForce, lost>>

\* commandTimedOut: a control is given up, a stream that does not start or
\* stop ends the session, a session that does not end is torn down.
Timeout(e) ==
    \E p \in pending[e] :
      LET rest == [Out(e) EXCEPT !.pending = @ \ {p}]
      IN /\ p.attempts = 2 /\ SecondPasses(e, p)
         /\ IF p.command.type = "End"
            THEN /\ Teardown(e, rest)
                 /\ UNCHANGED <<privacy, screen, asked, applied, preference, wishes>>
            ELSE IF p.command.type \in {"Mode", "Action"} \/ phase[e] = "Stopping"
            THEN /\ Sends(e, rest) /\ Reported({p.command.id})
                 /\ Fails(p.command)
                 /\ UNCHANGED <<phase, results, applied, privacy, screen>>
            ELSE /\ FinishSession(e, [rest EXCEPT !.pending = @ \union {p}], FALSE)
                 /\ UNCHANGED <<preference, wishes>>
         /\ UNCHANGED <<sessionUnchanged, emergency, action, locks, seen, executed, inForce,
                        lost>>

------------------------------------------------------------------------------
(* The connection, and the people and screens at the host.                   *)

Interrupted(e) ==
    /\ phase[e] \in {"Connected", "Streaming"} /\ troubles < MaxTroubles
    /\ troubles' = troubles + 1
    /\ phase' = [phase EXCEPT ![e] = "Reconnecting"]
    /\ restore' = [restore EXCEPT ![e] = phase[e]]
    /\ UNCHANGED <<session, wire, pending, results, nextId, hostVars, userVars, history>>

Restored(e) ==
    /\ phase[e] = "Reconnecting"
    /\ phase' = [phase EXCEPT ![e] = restore[e]]
    /\ restore' = [restore EXCEPT ![e] = "Connected"]
    /\ UNCHANGED <<session, wire, pending, results, nextId, troubles, hostVars, userVars,
                   history>>

localUnchanged == <<session, phase, restore, pending, results, nextId, action, locks,
                    userVars, executed, reports, wishes, inForce>>

\* Ctrl+Alt+Shift+P: the hook is there while the overlay is.
PressEmergencyRestore ==
    /\ screen.overlay /\ ~emergency /\ troubles < MaxTroubles
    /\ troubles' = troubles + 1
    /\ emergency' = TRUE
    /\ UNCHANGED <<localUnchanged, wire, privacy, screen, lost>>

\* Fault: an overlay that cannot be put up again is left down.
TopologyChangesSilently ==
    /\ screen.overlay /\ troubles < MaxTroubles
    /\ troubles' = troubles + 1
    /\ screen' = [screen EXCEPT !.overlay = FALSE]
    /\ UNCHANGED <<localUnchanged, wire, privacy, emergency, lost>>

\* A screen comes or goes and the overlay cannot be put up again.
TopologyChanges ==
    /\ screen.overlay /\ troubles < MaxTroubles
    /\ troubles' = troubles + 1
    /\ screen' = [screen EXCEPT !.overlay = FALSE]
    /\ emergency' = TRUE
    /\ UNCHANGED <<localUnchanged, wire, privacy, lost>>

\* Fault: the host is restored and the controller is not told.
RestoreSilently ==
    /\ emergency /\ emergency' = FALSE
    /\ LET h == Reset(Host, TRUE) IN privacy' = h.privacy /\ screen' = h.screen
    /\ UNCHANGED <<localUnchanged, wire, troubles, lost>>

\* handleEmergencyRestore, from the event queue.
HandleEmergencyRestore ==
    /\ emergency /\ emergency' = FALSE
    /\ IF privacy.effective # "overlay"
       THEN UNCHANGED <<privacy, screen, wire, lost>>
       ELSE \E wakes \in BOOLEAN :
              LET h == Reset(Host, wakes)
                  says == IF phase[Controlled] \in Live THEN h.says ELSE <<>>
                  o == Transmits(Out(Controlled), says)
              IN /\ screen.off \/ wakes
                 /\ privacy' = h.privacy /\ screen' = h.screen
                 /\ wire' = [wire EXCEPT ![Controller] = o.wire]
                 /\ lost' = (lost \/ Len(o.wire) - Len(wire[Controller]) < Len(says))
    /\ UNCHANGED <<localUnchanged, troubles>>

------------------------------------------------------------------------------
Init ==
    /\ session = 0 /\ nextId = 1 /\ troubles = 0
    /\ phase = [e \in Ends |-> "Down"]
    /\ restore = [e \in Ends |-> "Connected"]
    /\ wire = [e \in Ends |-> <<>>]
    /\ pending = [e \in Ends |-> {}]
    /\ results = [e \in Ends |-> <<>>]
    /\ privacy = NewPrivacy /\ screen = NoScreen /\ emergency = FALSE
    /\ action = [armed |-> "none", streamed |-> FALSE, consumed |-> FALSE]
    /\ locks = [n \in 1 .. MaxSessions |-> 0]
    /\ preference \in {[mode |-> m, action |-> "none"] : m \in {"disabled", "overlay"}}
    /\ asked = NoAsked /\ applied = FALSE /\ seen = NewPrivacy
    /\ executed = [id \in Ids |-> 0] /\ reports = [id \in Ids |-> 0]
    /\ wishes = NoWishes /\ inForce = {preference.mode, preference.action} /\ lost = FALSE

Reading(e) ==
    \/ RepeatResult(e)
    \/ ExecuteEnd(e)
    \/ HandleResult(e)
    \/ e = Controlled /\ Execute
    \/ e = Controller /\ HandleStatus

Next ==
    \/ StartSession
    \/ EnterRemoteDesktop
    \/ LeaveRemoteDesktop
    \/ \E mode \in Modes : RequestPrivacyMode(mode)
    \/ \E a \in Actions : RequestPostSessionAction(a)
    \/ PressEmergencyRestore
    \/ TopologyChanges
    \/ HandleEmergencyRestore
    \/ \E e \in Ends :
          \/ Reading(e)
          \/ Retry(e)
          \/ Timeout(e)
          \/ FinishStopping(e)
          \/ ChannelCloses(e)
          \/ UserStop(e)
          \/ ConnectionEnds(e)
          \/ Interrupted(e)
          \/ Restored(e)

Spec == Init /\ [][Next]_vars

------------------------------------------------------------------------------
(* Properties                                                                *)

TypeOK ==
    /\ session \in 0 .. MaxSessions /\ nextId \in 1 .. MaxCommands + 1
    /\ phase \in [Ends -> Phases] /\ restore \in [Ends -> {"Connected", "Streaming"}]
    /\ troubles \in 0 .. MaxTroubles
    /\ \A e \in Ends :
          /\ Len(wire[e]) <= WireLimit /\ Len(results[e]) <= CacheLimit
          /\ \A p \in pending[e] : p.attempts \in {1, 2} /\ p.command.type \in CommandTypes
    /\ privacy.state \in {"Inactive", "Active", "Failed"}
    /\ privacy.effective \in Modes /\ seen.effective \in Modes
    /\ screen \in [overlay : BOOLEAN, off : BOOLEAN]
    /\ emergency \in BOOLEAN /\ applied \in BOOLEAN /\ lost \in BOOLEAN
    /\ action \in [armed : Actions, streamed : BOOLEAN, consumed : BOOLEAN]
    /\ preference \in [mode : Modes, action : Actions]
    /\ DOMAIN asked \subseteq Ids

\* A command is executed at most once, copies and late results or not, and its
\* end is reported exactly once: never again, and never while it still waits
\* (kMaximumRecentCommandResults, handleCommandResult, failAll).
CommandsAreExact ==
    \A id \in Ids :
      /\ executed[id] <= 1
      /\ reports[id] + (IF Waits(Controller, id) THEN 1 ELSE 0) = (IF id < nextId THEN 1 ELSE 0)

\* What the host says of its privacy mode is so: the screens are covered while
\* the status says so, or the restore that will say otherwise is queued, and
\* nothing covers them once the session is ending.
PrivacyIsTruthful ==
    /\ privacy.effective = "overlay" => screen.overlay \/ emergency
    /\ screen.overlay => privacy.effective = "overlay" /\ phase[Controlled] \in Live

\* When no status is on its way, and none was refused by a full queue, the
\* window of the controller shows the mode its host is in.
WindowShowsHost ==
    (/\ \A e \in Ends : phase[e] \in Live
     /\ \A i \in DOMAIN wire[Controller] : wire[Controller][i].type # "ModeState"
     /\ ~lost)
    => seen = privacy

\* The privacy mode that is shown, at either side, is the one that is in force.
PrivacyIsShown == PrivacyIsTruthful /\ WindowShowsHost

\* The workstation is locked at most once a session, and when the controller
\* has been told that its last wish is in force, exactly if that wish was a
\* lock and the host did stream (docs/architecture/session-lifecycle.md:61).
LockFollowsWishes ==
    /\ \A n \in DOMAIN locks : locks[n] <= 1
    /\ session > 0 /\ phase[Controlled] = "Down" /\ wishes.asked = wishes.confirmed
         => locks[session] = (IF wishes.arg = "lock" /\ wishes.streamed THEN 1 ELSE 0)

\* Only what was in force on the device is remembered for it.
RememberedWasInForce ==
    /\ preference.mode # "disabled" => preference.mode \in inForce
    /\ preference.action # "none" => preference.action \in inForce

\* What the user asked of a session, and what is remembered of it for the next.
WishesAreKept == LockFollowsWishes /\ RememberedWasInForce
==============================================================================
