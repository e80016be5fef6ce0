# Winremotecontrol: formal models

TLA+ models of the remote control program in `src/`, the TLC runs that check
them on small instances, and the TLAPS proofs of what holds for every instance.
The program is a Qt application: two endpoints (a *controller* and a
*controlled* one) find each other on a LAN, authenticate over a TLS signaling
connection, negotiate a WebRTC peer connection, and then carry a screen, input,
a clipboard, files and terminals over it.

## 1. Inventory

Paths are relative to `src/src/`.

| Component | State it keeps | Operations | What must hold | Module |
|---|---|---|---|---|
| Session state machine (`core/session/sessionstatemachine.cpp`) | state, role, what to restore, generation | one method per transition, each with its condition | only the documented transitions; one generation per session | SessionStateMachine |
| Session coordinator (`session/sessioncoordinator.cpp`) | the stop under way, the request put off, availability, channel open | every request of the user, every event of signaling, peer, timers, capture | resources fit the state; a stop ends, and ends once; no request is lost | SessionCoordinator |
| Shutdown coordinator, peer life cycle controller (`session/`) | generations awaited, rollback, two watchdogs | begin, complete, time out | a completion ends the shutdown it belongs to | SessionCoordinator |
| Access flow and approval (`session/accesssessionflow.cpp`, `accessapprovalcontroller.cpp`) | the approval request and its timer | begin, request, decide, time out, cancel | one request per connection, answered in the end | SessionCoordinator |
| Capture service and worker (`capture/`) | worker thread, start pending, newest frame | start, stop, worker thread, failure, flush | captures only for a session that streams; a session gets its own frames | CaptureService, VideoHost |
| WebRTC peer (`transport/webrtc/`) | life cycle, callback gate, ICE, channels, queues, tracks | initialize, roll back, shut down, send, receive | nothing is delivered after a shutdown begins; queues lose nothing they must keep | SessionCoordinator, RemoteInput, PeerChannels, VideoHost, VideoDisplay |
| Signaling transport (`adapters/signaling/`) | server, dial, one peer, TLS | listen, dial, attach, lose, drop | one peer at a time | SessionCoordinator |
| Session command dispatcher (`session/sessioncommanddispatcher.cpp`) | one command per kind, retries, seen requests | send, retry, time out, execute once | a retried command is executed once | SecurityControls |
| Device authentication and pairing (`session/deviceauthenticationflow.cpp`, `pairingtransaction.cpp`, `trusteddeviceservice.cpp`) | stage of the attempt, pairing transaction, trust list in memory and on disk | hello, decide, prepare, commit, complete, roll back, recover; revoke, edit | no trust without both users; a shortcut taken by both sides or by none; a store that every interruption leaves recoverable | DevicePairing |
| File transfer (`file_transfer/`) | jobs, tasks, windows, offsets, handles, panes, listings | offer, plan, open, send, acknowledge, pause, commit, cancel, retry; navigate, page | a copy is whole or absent; every handle has an owner; a pane shows one folder | FileTransfer, FilePanes |
| Windows file system (`adapters/windows/file_transfer/`) | temporary files, created directories, snapshots | expand, create, choose a name, begin, append, finalize, clean up | what another program made survives | FileSystemAdapter |
| Terminal (`terminal/`, `adapters/windows/terminal/`) | state, requests, frames, pseudo console, window | open, approve, data, resize, close, end | a shell has an approved owner, and ends with it | Terminal |
| Clipboard (`clipboard/`, `adapters/clipboard/`) | last text, pending write, suppression, queue | local change, remote text, retry | no echo; the newest copy arrives | ClipboardSync |
| Input (`input/`, `render/videorenderwidget.cpp`, `core/transport/outboundmessagequeue.cpp`, `adapters/windows/input/`) | pressed buttons and keys, routing state, queues | move, press, hook, route, inject, release all | no click lost or left pressed; nothing of a capture that ended | RemoteInput, KeyboardRouting |
| Privacy mode and post-session action (`privacy/`), preferences (`settings/`) | mode, overlay, lock, remembered choices | enter, restore, emergency, lock, remember | what the window shows is true; a wish outlives the session | SecurityControls |
| Protocol codecs (`core/protocol/`), capabilities | | encode, decode, bounds, negotiate | what one side may send the other accepts | ProtocolCodecs |
| Video (`capture/`, `codec/`, `render/`, `core/media/`, `transport/webrtc/`) | buffer pools, path decision, pending metadata, epochs | capture, convert, push, encode; decode, prepare, present | a held picture does not change; order; no late frame | VideoHost, VideoEncoder, VideoDisplay |
| Admission, discovery, recent devices, automation, user interface | counters, tables, windows | | | not modelled (section 7) |

How they interact: everything but the capture worker, WebRTC's threads, the file
workers, the pseudo console's threads and the keyboard hook runs on the session
thread's event loop. Components call each other directly and through direct
signals, so that a handler can be re-entered through a signal in the middle of
its own work; what crosses threads is posted and may find the world changed. The
coordinator owns the others and passes a *generation* with whatever answers later.

The hard behaviours are listed under `hazards` in `PROJECT.json`, each with its
line and the properties that would notice it.

## 2. Plan

1. **Session core** (modelled, checked, proved): `SessionStateMachine`,
   `CaptureService`, `SessionCoordinator`; the abstract `SessionLifecycle` and the
   refinement in `SessionContract`.
2. **Device pairing** (modelled, checked, every invariant proved): `DevicePairing`.
3. **Services on the session's channels** (modelled, checked): `FileTransfer` with
   `FilePanes` and `FileSystemAdapter`; `Terminal`; `SecurityControls`;
   `RemoteInput`, `KeyboardRouting`, `ClipboardSync`; `ProtocolCodecs` and
   `PeerChannels` below them. Proved: `SecurityControls`, `KeyboardRouting`,
   `ClipboardSync`, `FilePanes` and who owns the shell of `Terminal`.
4. **Video** (modelled, checked, every invariant proved): `VideoHost` and
   `VideoEncoder`, composed in `VideoSending`, and `VideoDisplay`.
5. **Left**: the proof of `CommandsSettle`; an abstract specification of a
   copied file, refined by `FileTransfer`; the small tables (admission,
   discovery, recent devices, the idempotency store).

The modules of a layer that share no state are model-checked in one run each
(`MCInput`, `MCServices`), from a variable `part` that selects one of them and
never changes: their state spaces add up and do not multiply.

## 3. The modules

**SessionStateMachine** is `KSessionStateMachine`: `Machine` is its four
members, an operator for each query and each transition. A transition's
condition is separate from its effect (`CanBeginStopping`, `MoveTo`) because
several callers test it first.

**CaptureService** is `KCaptureService` with its worker thread, as operators on
one record. The session thread's calls and the worker's steps are separate, so
that the composing module interleaves them: a stop may arrive before `startWork`
has run, a start while the stopped worker is still going down.

**SessionCoordinator** composes them with the controllers. One variable stands
for each object (`shutdown`, `peer`, `transport`, `approval`, `link`, ...), and
one action for each slot or handler. Three things deserve an explanation.

- `calls` is the stack of what the session thread has still to do. Handlers of
  Qt run to their end, except where a signal connected directly runs another
  handler in the middle: `KPeerLifecycleController::handleShutdownFinished` emits
  `rollbackFinished`, which may run a request put off, *before* it reports the
  shutdown. The model keeps the rest of the handler in `calls`, and the guard
  `EventLoop` of every event requires it to be empty.
- Generations are modelled as the code keeps them, in several places
  (`sm.gen`, `stop.gen`, `shutdown.gen`, `peer.gen`, `peer.completion`,
  `transport.gen`, `cap.stopGen`), because the question is whether they agree.
- The environment is free: any message, close, failure or timeout may come as
  soon as the object that raises it can raise it. What it may *not* do is said in
  the guards.

Operators marked "Fault" are wrong variants of the operator after them. Nothing
in the specifications uses them; they are there to show that a property notices
the mistake.

**SessionLifecycle** is the contract: phases of an endpoint and the transport
they hold, ten actions, no detail of a session. One of them, `FinishEarly`, is the
end of a stop whose transport is still going down (`finding_dial_release`).
**SessionContract** maps the coordinator to it.

**DevicePairing** is the authentication of two devices: a `side` for each, with
what its store holds on disk (`stored`), what `KTrustedDeviceService` holds in
memory and the `flow` of `KDeviceAuthenticationFlow` with the progress of its
`KPairingTransaction`. A handler is an operator from a side to a side, composed
like the code's methods (`TryPrepare`, `TryCommit`, `TryComplete`, `Fail`); the
action that runs it chooses in `bad` which of its outside calls fail. Each
device has its own end of the connection (`link`): one may have lost it while
the other still reads what was sent. `history` is not in the code: it remembers
what the users confirmed and revoked and what was committed.

**FileTransfer** is `KFileTransferSessionService` on both computers, with the
worker thread of each and the two channels. It is written like `DevicePairing`,
a handler as an operator from a side to a side that collects what it sends in
`out` and the calls it ends with in `todo`. A worker's job and its completion
are one step, except the commit of a written file, which its owner can see
begin and which a cancel therefore races. Sizes are counted in chunks. A side's
data channel takes a frame, refuses it because it is congested or because it is
closing (`data`): in the first case the chunk that was read waits, in the second
its task fails. Every kind of disturbance is an element of the constant
`Disturbance`.

**FileSystemAdapter** is `KWindowsFileSystemAdapter`: a call is a sequence of
system calls on a tree in which *other programs* create, remove and replace
nodes between any two of them. A node has an identity, its file index, by which
the adapter recognizes what it made.

**FilePanes** is the browsing half of `KFileTransferSessionService`: the two
panes' requests, the pages of a listing with their tokens, the few listings the
controlled side retains, the history of a pane.

**Terminal** is the terminal service of both ends, the reliable commands
between them (`KTerminalCommandDispatcher`: repeat after a second, the
remembered answers), the ConPTY host with its threads as far as the service
sees them, and the window. The control channel and the data channel are each in
order, but nothing orders one against the other.

**SecurityControls** is `KSessionCommandDispatcher` with the two services whose
commands it carries (`KPrivacyModeService` with its overlay,
`KPostSessionActionService`) and the controller's
`KDeviceSecurityPreferenceService`, which asks for the remembered choices in the
next session. An answer may be slower than a second at any time.

**RemoteInput** follows the mouse from `KVideoRenderWidget` through the routing
(`KMouseInputRoutingState`), the queue and the two input channels, one ordered
and one unordered and lossy, to the injector. **KeyboardRouting** is the hook
and `KRemoteKeyboardRoutingService`; what the hook posts to the user interface's
thread may run after other events. Its history variable `stuck` names the keys the
code leaves down at the host; the properties except those keys and no others. **ClipboardSync** is the clipboard of both
ends: a text written for the peer comes back as a local change.

**ProtocolCodecs** compares what each service may put into a message (`Sent`,
from the services) with what its reader accepts (`Fields`, from the codecs). A
field is a number: a length, a size, a value at its boundary. `Misunderstood` names
the two messages that are sent and refused; every other is accepted. `Negotiate` is
`KCapabilityNegotiator`.

**PeerChannels** is one `KWebRtcDataChannel` with its watermarks, the
`KOutboundMessageQueue` before it, bounded in messages and in bytes, and the cursor
shapes that are cut into chunks
and fill what other messages leave free, to `KCursorShapeAssembler`.

**VideoHost** is the controlled computer's video in three threads: the capture
thread (`KCaptureWorker`, `KDxgiDesktopDuplicator`, `KCaptureFrameSink`), the
session thread (`KCaptureService`'s newest frame and its posted flush) and the
encoder thread (`KWebRtcH264Encoder`). They share `KVideoFramePathState`, the
choice between GPU and CPU frames, and the buffers: a pool reuses a buffer once
only itself refers to it, which `Held` computes from everybody's frames, as the
use counts do. **VideoEncoder** is `KWebRtcH264Encoder` above a codec that keeps
images back: time stamps by presentation time, the forced key frame, calls that
fail with images inside. **VideoDisplay** is the controller's way from
`KWebRtcRemoteFrameProcessor` through `KLatestDecodedFrameQueue` to
`KVideoRenderWidget`, with the epoch that retires the frames of a track.

The theorems are in modules of their own: **SessionCoordinatorProofs** (first the
types and the lemmas about the helpers), **SessionContractProofs**,
**DevicePairingProofs** (its three inductive invariants are in
**DevicePairingInvariants**), **SecurityControlsProofs**, **InputProofs** (keyboard
and clipboard), **FilePanesProofs**, **TerminalProofs** and **VideoProofs**. **VideoSending** puts
`VideoHost` and `VideoEncoder` side by side and states `VideoIsSent`, which spans
the two. The `MC...` modules hold constants and compose.

## 4. The runs

| Run | Module | Asks | Answer |
|---|---|---|---|
| `session` | MCSessionCoordinator | One endpoint, every failure of the environment included: eight invariants in every state, the contract it implements, and does everything it waits for end? | hold, about 117 000 states |
| `pairing_safety` | MCDevicePairing | What do three connections between two devices leave behind, with a crash and a failing call anywhere? | three invariants hold, about 400 000 states up to the symmetry of the devices |
| `pairing_edits` | MCDevicePairing | Does the list edited under a running pairing mislead it, and is a side ever left with a peer that gave up? | no, about 39 000 states |
| `file_transfer` | MCFileTransfer | Files and folders in both directions, over an existing file or not, with each kind of disturbance once: are the copies whole, the handles owned, cancelled copies unpublished, and does every copy settle? | yes, but for the disturbances `Harmful` names (below); about 236 000 states |
| `terminal` | MCTerminal | Two sessions and two terminals with any one thing going wrong: whose shell runs, in what order come keys and output, does the shell end with its window? | hold, about 326 000 states |
| `security_controls` | MCSecurityControls | Two sessions and three commands with late or refused answers, an interruption, an emergency restore: is each command executed once, is what is shown in force, is a wish kept? | hold |
| `input` | MCInput | The mouse, the captured keyboard and the clipboards | hold, about 1.3 million states |
| `services` | MCServices | The file system among other programs, every message at its bounds, the channel, the panes, and the video in its three stages | hold, about 1.7 million states |
| `finding_dial_release` | MCSessionCoordinator | Does a stop end only when its resources are released? | no: a dial that fails inside the completion of a rollback ends its stop with the transport still going down |
| `finding_revocation` | MCDevicePairing | Is a revoked device never accepted automatically? | it is, if it was reconnecting when it was revoked |
| `finding_file_reconnect` | MCFileTransfer | Does an interruption fail no copy? | it does, if the receiver was still opening its destination |
| `finding_resize_order` | MCTerminal | Is the shell left with the size that was asked for last? | no: a deferred resize that is being posted is sent after a newer one |

A property that has parts is one name in the .cfg and a conjunction of named
parts in the module (`StoreIsSound`, `MouseSafety`, `VideoIsTrue`, ...); the parts
are worth reading one by one.

**Bounds.** All of them are CONSTANTS, named `Max...`, or a limit of the code
made small (`Window`, `QueueLimit`, `CacheLimit`, `HighBytes`, `Retained`,
`PoolSize`).

- Session: `MaxGeneration` and `MaxPeerGeneration` bound the sessions and peer
  initializations *by requests*. Four and five in `session`: what can leave
  something behind involves at most two sessions (the one that ends and the one
  put off), and one more than any counterexample found while modelling needed.
  `finding_dial_release` needs two and three. `calls` is not bounded: it never holds
  more than two calls, which `CallsShape` states and the proofs show.
- Pairing: two connections let a pairing meet what an interrupted one left; the
  third lets two *different* leftovers meet, one on each side. One crash and one
  failing call already produce every shape of the store. `pairing_edits` has neither,
  but an edit at any moment; `TrustCorrect` and `StoreCorrect` cover all three
  together. `pairing_safety` lets the
  user grant only to watch, so that a limit always differs from a request. The
  symmetry of the two devices is used there only, where no property is temporal.
- File transfer: one job at a time of at most three chunks and a window of two,
  so that the window closes and opens again; a batch of one, so that a plan is
  queued in several steps; one disturbance of each behaviour, of any kind, at any
  moment; a second session to find what the first left.
- Terminal, security: two sessions, two requests or three commands, one trouble:
  every stale answer has a newer request to be taken for. Three keys, three pieces of
  output and a queue of two give each direction several frames in one terminal, some
  queued behind others, and one for the next terminal. Two resizes are one that is
  pending and one that is deferred; a third, as in `finding_resize_order`, meets the
  deferred one while it is posted. `ResizeSettled` sets that case apart
  (`overtaken`); with four resizes and two troubles in one session it holds as well
  (about 327 000 states), but the run keeps to two so that the other properties have
  two sessions.
- Input and clipboard: a queue of one message and a channel that is full with
  one, so that merging and eviction happen at once; two moves, three clicks.
- Services: three entries, two copies and one act of another program at any step
  of a call; shapes of one and two chunks, a queue of two messages and two bytes, where
  a message of two bytes needs the room of two; two pictures, two sessions, two starts and
  pools of one buffer, where every reuse matters; a codec that keeps up to two
  images back; three tracks and four decoded frames.

**Deadlock** is checked in the runs of the session: there the user can always
change the remote access setting when no call is due, so a deadlock would be a
call nobody makes. The other runs stop when what they may ask for is used up.

**Fairness.** In the session, `Scheduling` is what the event loop guarantees: a
call that is due is made, and a timer that stays armed fires. Nothing is assumed
of the network, of the user, of the remote endpoint or of the threads that
release resources: a stop ends without them, by its watchdog. `LatePeerReleases`
alone speaks of the thread that releases the transport, and states the fairness of
it as its own hypothesis. In
`DevicePairing` it is weak fairness of receiving what has arrived and of
`HangUp`: the coordinator closes a connection whose authentication failed. In
`FileTransfer` a single condition, `Fairness`, says that messages, jobs, armed
timers and congested queues (`Busy`) do not wait for ever while the scheduler
does nothing of what is due (`Scheduled`): the event loop and the worker take
their queues in order, so that each entry has its turn. In `Terminal`, what has
arrived is delivered, what a handler started follows, and a host that is torn
down reports it; the outcome TRUE stands for a call that works. Users owe nothing
anywhere.

## 5. What is proved

For every value of the bounds, and every choice of the failures.

*The session.*

- `TypeCorrect`: the types. Every other proof of the session uses it.
- `SidesCorrect`: a connection under approval has an approval request of the
  side its role gives it and a connection to answer on; only a controlled endpoint
  listens, only a controller dials. Inductive with the types.
- `InvariantCorrect`: `IInv`. The properties the runs check speak of the states
  in which the event loop waits; in the middle of a callback they fail or say
  nothing. `IInv` states, besides them, which calls can be due together
  (`CallsShape`), that a teardown is either awaited or about to be finished
  and never both (`StopInOrder`), that a rollback excludes a teardown
  (`RollbackInOrder`), what each awaited completion will carry
  (`ResourcesAwaited`), who will run a request put off (`PendingInOrder`),
  and when the transport is known to be gone (`Released`).
- From it: `PeerCorrect`, `CompletionCorrect`, `AnswerCorrect`, `PendingCorrect`,
  `RollbackCorrect`, `ApprovalCorrect`.
- `ResourcesCorrect`, from `CaptureCorrect` and `AvailabilityCorrect`: the screen
  and the address are lent only in the states that are for it. Neither part is
  inductive: a worker that is down must not be counted as capturing
  (`NoWorkerNoCapture`), and a server once started stays until the endpoint stops
  serving (`ServerStays`).
- `ReleaseCorrect`: a session is over only when its transport is gone and nothing is
  awaited, but for the step `OverEarly` names: a dial that fails inside the completion
  of a rollback has its stop ended by the report of the rolled-back peer, under the
  newer generation (`finding_dial_release` shows it). `stop.early` remembers that the
  stop began that way, and `Released` states what is left of the claim in between.
- `ContractCorrect`: every step of the coordinator is a step of `SessionLifecycle` or
  a stutter, action by action from `IInv`; the early end is its action `FinishEarly`.
  No assumption is made about the device identity.

*Pairing*, for any set of scopes and any number of attempts, faults, crashes and edits.

- `OrderCorrect`: the types and `IInv` of `DevicePairingInvariants`. What one side may
  do depends on messages not yet received, so `SideSound` says what the progress of
  a flow implies on its own device and `ChannelSound` what a message on its way says
  of the side that sent it, and what the first Hello will make of its reader. The
  handlers are operators on one side, so their lemmas (`Fit`, `Sound`,
  `InOrder`) are about one side, whatever fails while it runs; `Leaves` is what the
  invariant needs of the step of one device, and `StepKeepsOrder` is proved once.
- `TrustCorrect` and `AttemptsCorrect` follow. `DevicesAssumption` gives each device
  its only peer.
- `StoreCorrect`: `StoreIsSound`, from `StoreInv`. `Stock` describes memory and disk
  of one device: the records it would go back to are settled, a transaction adds
  exactly one new record to them, and the disk has the shape of the memory but for
  crashes and failed saves; `InStep` ties the transaction to the flow's progress.
  Each handler keeps both, whatever fails in it, and so does an edit, so the theorem
  covers the two together, which no run does.

- `AgreementCorrect`: `AuthenticationIsAgreed`. What one side knows of the other is
  a matter of what is on its way between them, so `AgreeInv` binds a side to its peer
  and to its messages (`Bound`): each message comes after those it rests on
  (`Messages`); what the peer has done the side knows or is about to learn
  (`Follows`), and a message on its way was sent by a side that got so far (`Sent`);
  a side that knows its peer to be prepared goes by the same scopes (`Accords`);
  before an attempt only its Hello can arrive (`Waits`); and the two remember each
  other by the same pairing, the old one where one of them trusts the other and the
  new one after success (`Remembers`). A handler first notes what a message tells
  (`Learns`), then sends what its flags stand for (`Talk`) and keeps its records
  (`Hold`); a step that does so keeps `Bound` of both sides (`Acts`). A beginning, a
  connection and an edit are proved apart: they break the bond or make it.

*Security controls*, for any number of sessions, commands, cached results and
troubles.

- `TypesCorrect`; `WaitsCorrect`: each command waits at most once (`OneEach`), is
  reported exactly when it no longer waits (`ReportsExact`), and an end is awaited
  in Stopping only (`EndsInOrder`).
- `PrivacyCorrect`: `PrivacyIsTruthful` is inductive only together with
  `StatusIsComing`: the last status on its way, or else the one last seen, is the
  host's.
- `CommandsCorrect`, from `ExecutionCorrect`. A command that was sent twice is
  executed once because its result is still among the `CacheLimit` remembered ones
  when the copy arrives. `ExecutionInv` bounds the distance: on the channel a copy is
  at most `CacheLimit - 2` commands behind its original (`CloseIn`), a command that
  may still be copied is among the last ones (`RecentIn`), the cache forgets in order
  (`SpacedIn`), and a command behind the session's end is one of the last (`LateIn`).
- `WishesCorrect`: `LockFollowsWishes` and `RememberedWasInForce`. `WishInv` carries
  the argument of the user's last command from the place where it waits through the
  channel to the host and back: `SameCommand`, `AnsweredInForce`, `WishInForce`.

*Panes of the file transfer window.*

- `PanesCorrect`: `PanesAreTrue` for any number of folders, pages, requests and
  retained listings. That a pane is complete and is answered depends on what is under
  way, so `PaneInv` says where a request is: in one place at a time, as a job, a
  question or an answer (`QueuesOK`); the one the pane waits for is the newest
  (`OrderOK`); the pages that came are all those before the one under way
  (`ProgressOK`); and the listing it is being sent is the last one made, and so one of
  those that are kept (`ListedOK`). A second layer (`DatesOK`) dates requests and
  answers, so that what a pane shows is known to answer its newest request
  (`AnswersAreNewest`). The last needs `FilePanesAssumption`: at least one
  listing is retained.

*Terminal.*

- `ShellCorrect`: `ShellIsOwned` for any number of sessions, requests and troubles. A
  console reports its stop through the event queue, and the report closes whatever
  terminal the service has by then. So `ShellInv` says that until it has come no other
  terminal of the session begins (`StopAwaited`), that it comes once and from a
  console that is gone (`StopsOnce`), that nothing comes from a later session
  (`NothingFromLater`), and that a session begins and ends without a shell of its own
  (`SessionsInOrder`). It rests on the state machine's refusals: a failed terminal
  does not wait for the user again, and a closed one cannot fail (`Moves`).

*Keyboard and clipboard.*

- `KeyboardCorrect`: `KeyboardSafety` for any keys and shortcuts, the keys in `stuck`
  excepted (section 6 says which these are). It rests on a fact no property states: a
  modifier that belongs to a shortcut is still held.
- `ClipboardCorrect`: `ClipboardSafety` for any number of copies. A change the filter
  has not looked at yet is a debt that a copy has paid for (`EchoInv`), and a text
  that nothing has disturbed is in one of four places on its way (`CopyInv`).

*The video.*

- `VideoCorrect`: `VideoIsTrue` for any number of sessions, captures, buffers and
  frames. The encoder sees a picture last, so that its order follows only from the
  order of everything before it: `HostLineOK` has the pictures climb from the one that
  was encoded through the encoder's frame, WebRTC's, the latest and the posted events
  (`Climbs`), with the sink's last frame, the worker's and the desktop above all of
  them (`UpTo`). A frame that is repeated or drawn into the clean copy would break
  that, so `CleanOK` says when the copy is as new as any frame. `SessionOK` says whose
  frames may be posted while the session takes them, which rests on `WorkerOK`: a
  finished worker's report is followed by no frame of its own. `StoreOK` needs no
  bound on the buffers: a new one is any that nobody refers to.
- `ImagesCorrect`: `ImagesAreTrue` for any number of images the codec keeps back.
  `EncoderInv`: the images offered, those kept back and the frames to come stand in
  one line (`Rising`), the descriptions that wait are their frames' own (`Described`),
  and until the first image is offered all kept back are key frames (`Keyed`).
- `SentCorrect`: `VideoIsSent`, of both together.
- `DisplayInvariant` and `FramesAreShown`: `VideoIsShown` for any number of
  frames, tracks and clears. It is not inductive by itself: the order of what is
  shown depends on the order of what is on its way. `DisplayInv` adds the line in
  which the frames stand (`LineIsOrdered`: display, queue, posted events,
  processing thread, slot) and that every prepared frame carries the session of
  the track it was decoded from (`FramesAreOwn`), which is what the two looks at the
  epoch around the conversion are for.

The bounds enter as `BoundAssumption` or `BoundsAssumption` (they are natural
numbers; the cache and the queue hold at least one entry), the session's failures as
`EnvironmentAssumption` (they are Booleans), the devices and scopes of pairing as
`DevicesAssumption` and `ScopesAssumption`. The proofs of the video and of the
terminal need no assumption.

Model-checked only:

- the liveness properties: fairness is outside what the prover can do;
- `CommandsSettle` and `FramesInOrder` of `Terminal`: the prover could follow them,
  but they depend on the order of everything in both channels, and are left;
- `FileTransfer`, `RemoteInput`, `FileSystemAdapter`, `PeerChannels` and
  `ProtocolCodecs`: they use folds and `SelectSeq` on their queues, so the facts
  about them would need induction over data, which is outside it as well.

## 6. Findings and observations

Findings are runs (section 4); `PROJECT.json` quotes the code and the documents.
What follows was met while modelling and is described by the models; it is not
stated as a property because no document of the repository promises otherwise, or
because a run of its own was not worth it.

*Session and pairing.* What `finding_dial_release` shows is also why `EndsReleased`
has its exception. The approval timer cannot end a connection whose request
never came. A capture worker stopped before its loop begins captures on
(`startWork` sets the running flag the stop had cleared). A refused connection leaves
the endpoint undiscoverable. An ICE interruption skips the negotiation. Recovery
can prefer a half-committed record. `Ready` overtaking `Start` on another channel
leaves the host's clipboard inactive.

*File transfer.* Copies can stay under way for ever after the disturbances of
`Harmful`: a low watermark pumps a sender before its receiver is ready; a pause or
a resume before the destination is open; a cancel that crosses a conflict answer
revives the task; a retry that is refused for its known task id; a listing refused as
stale keeps the receiver busy; a stop pending flag that is left set. A feature
that fails during a commit reports Failed although the file was published. A download
whose sender fails before its first `FileBegin` is unknown to the receiver, which drops
the error (`filetransfersessionservice.cpp:3578`) and goes on scanning. A frame sent on
a data channel that is closing fails its task, before the interruption is known.

*Panes.* The history is pushed before a listing succeeds, so a failed navigation
leaves a duplicate; a late answer undoes "up"; a refresh while not ready loads for
ever; nothing repeats a request after an interruption; page tokens of superseded
requests stay; the cap of 196 pages refuses folders with long names below the
50 000 entries it stands for.

*Terminal.* A window closed while the host still asks for approval leaves its stop
pending. A request whose prompt was shown while the previous terminal failed is
accepted in vain. Input that overtakes `Accepted`, or arrives while paused, is
dropped silently. The relay's last Close frame is never sent. Output that a shell which
ended by itself left in a congested queue is sent under the request of the next terminal.
Keys queued before an interruption wait for the next key, or for the channel to drain:
the return flushes the output only (`terminalsessionservice.cpp:386`).

*Security controls.* The overlay stays on in Connected after the desktop is left.
A status the full queue refuses leaves the window's pending flag set. A `Start`
refused by a host that is reconnecting leaves the controller in Streaming.

*Input and clipboard.* A one-sided interruption drops a release (`HostLetsGo`,
defined but not checked, says what fails). A repeated key of a consumed shortcut
is sent to the host once the shortcut's modifiers are up, and its release is swallowed,
so it stays down there; so does a modifier that was sent before it became part of a
shortcut. A stop of the hook that was posted before a capture began ends that capture and
leaves its keys down. These are the keys in `stuck`. After a shortcut the next key goes
out without the modifiers still held, where `docs/features/remote-input.md:72` has them
sent first. A late real-time move after a
click is applied after the release. Simultaneous copies swap the clipboards.

*Channels and codecs.* A queue evicts keyed session messages it had reported as
accepted, also for a message that then finds no room, and a state message longer than the
room that is left is dropped though its sender is told otherwise. A cursor shape lost in a one-sided interruption is not sent again. A session
ends for the third error of the cursor's assembly, however many whole shapes came
between: nothing resets the count (`sessioncoordinator.cpp:999`), where
`docs/protocols/overview.md:75` speaks of three consecutive errors. The
fake left Ctrl of AltGr has a scan code the decoder rejects, and a typed text whose JSON
escaping exceeds the 4 KiB of the input channel is refused: `Misunderstood` names exactly
these two.

*Video.* While `enableGpuFrames` runs, a fall-back of the capture thread makes
`selectGpu` do nothing: the codec takes GPU frames, the path is CPU, and every
further frame fails without failing the path. A capture thread that waits for the
desktop may let the fall-back of an old session hit the new one, as
`copyTextureToNativeFrame` takes its own snapshot. An encode that fails with images
inside the codec makes later calls fail with an unknown time stamp until
`InitEncode`. When all buffers of a pool are held the newest picture is dropped, and
on a desktop that does not change it is not captured again. A lost image is
followed by the next difference; a key frame whose callback is refused counts as
offered. Leaving the desktop clears the preview without retiring the render session:
later frames of the session are shown. After a removed D3D device the widget never
makes another.

## 7. Not modelled, and why

- **Admission, LAN discovery, recent devices, the automation driver**: small tables
  and counters in memory with no message of their own but the discovery datagram,
  whose codec is in `ProtocolCodecs`.
- **User interface, composition, web view**: they forward requests and show states;
  the wiring of the capture and of the frame path is in `SessionCoordinator` and
  `VideoHost`.
- **Contents**: SDP, candidates, TLS records, pictures, bytes of files and
  terminals, the binary data frames: no property here tells them apart. Signature,
  format and migration of the trust store.
- **Libraries**: WebRTC's offers, statistics and rate control; Direct3D, FFmpeg and
  ConPTY beyond success and failure; HDR and colour conversion; the decoder.
- **Lifetime of C++ objects**: the capture worker's record lives in the model until
  `clearWorker`, where the code leaves a dangling pointer for a moment.
- Files: enumeration of drives, the snapshot of a resumed window, details of reparse
  points. Input: injection of keys and text, local replay. Pairing: a second or
  conflicting Hello, a changed device key. Video: the limit of 64 pending time
  stamps, capture of cursor shapes, the local preview, repaint on resize. Security:
  the initial statuses and the trim of the preferences at 128 entries. Terminal: the
  bytes inside the relay process, an endpoint that changes its role.
