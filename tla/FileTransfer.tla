---------------------------- MODULE FileTransfer ----------------------------
(***************************************************************************)
(* Copying files between the two computers of a session:                   *)
(* KFileTransferSessionService on the controller and on the controlled     *)
(* side, the worker thread in which each of them uses its file system, and *)
(* the control and data channels between them.                             *)
(*                                                                         *)
(* A handler runs to completion on its side's event loop.  It is written   *)
(* as an operator from a side (a record) to the side it leaves; what it    *)
(* sends is collected in the field "out", and the calls it ends with in    *)
(* the field "todo", which Run carries out.  The worker takes its jobs in  *)
(* order.  A job and its completion are one step, but for the commit of a  *)
(* written file, which the owner can see begin (Commit).  Sizes are counted*)
(* in chunks.  A task is <<j, k>>: the k-th child of job j, or, for k = 0, *)
(* the job's own task.                                                     *)
(***************************************************************************)
EXTENDS Integers, SequencesExt, FiniteSets, FiniteSetsExt, TLC

CONSTANTS
    Scenario,       \* sequences of jobs the controller's user may ask for
    Window,         \* kMaximumUnacknowledgedBytes, in chunks
    AckInterval,    \* kAcknowledgementIntervalBytes, in chunks
    Batch,          \* kCopyPlanQueueBatchSize
    ControlLimit,   \* kMaximumQueuedControlMessages
    Disturbance,    \* what may go wrong, each kind once
    MaxDisturbance, \* bound: kinds of disturbance in one behaviour
    MaxSession      \* bound: session generations

ASSUME LimitsAssumption ==
    {Window, AckInterval, Batch, ControlLimit, MaxDisturbance, MaxSession} \subseteq Nat \ {0}
ASSUME AckAssumption == AckInterval <= Window

VARIABLES
    job,        \* the jobs of this behaviour
    asked,      \* how many of them the user asked for
    side,       \* per role: the service, its worker and its file system
    wire,       \* per role: what is on its way to it, by channel
    channels,   \* the two file channels: "none", "created", "lost"
    version,    \* per file: 1 while it is as it was listed, then 2
    disturbed,  \* the kinds of disturbance that happened
    session     \* the session generation

vars == <<job, asked, side, wire, channels, version, disturbed, session>>

Role == {"controller", "controlled"}
Peer(d) == IF d = "controller" THEN "controlled" ELSE "controller"

None == <<0, 0>>
Root(j) == <<j, 0>>
IsChild(id) == id[2] > 0
Count(j) == Len(job[j].sizes)
\* Each attempt at a job has children, and requests, of its own.
Child(j, attempt, i) == <<j, (attempt - 1) * Count(j) + i>>
FileOf(id) == IF IsChild(id) THEN <<id[1], ((id[2] - 1) % Count(id[1])) + 1>> ELSE id
SizeOf(id) == job[id[1]].sizes[IF IsChild(id) THEN FileOf(id)[2] ELSE 1]
Files == {<<j, 0>> : j \in {i \in DOMAIN job : job[i].kind = "file"}}
         \cup UNION {{<<j, k>> : k \in 1 .. Count(j)} :
                     j \in {i \in DOMAIN job : job[i].kind # "file"}}
Sender(j) == IF job[j].upload THEN "controller" ELSE "controlled"
Receiver(j) == Peer(Sender(j))

Live == {"queued", "scanning", "transferring", "paused", "conflict"}
Ended == {"completed", "failed", "cancelled"}

\* KTask.  "file" stands for strFileId, "src" and "write" for the handles, 0
\* while there is none; "sum" and "expected" for SHA-256 values, by what they
\* are the sum of; "recon" for bPausedForReconnect, "conf" for strConflictId.
NewTask == [st |-> "queued", sender |-> FALSE, plan |-> FALSE, file |-> 0,
            req |-> 1, total |-> 0, src |-> 0, sum |-> <<>>, reading |-> FALSE,
            pend |-> <<>>, last |-> FALSE, pendAt |-> 0, sent |-> 0, acked |-> 0,
            done |-> FALSE, write |-> 0, queued |-> 0, written |-> 0,
            lastAck |-> 0, got |-> FALSE, expected |-> <<>>, fin |-> FALSE,
            recon |-> FALSE, conf |-> 0]

\* KCopyPlan.
NewPlan == [sender |-> FALSE, req |-> 1, begun |-> FALSE, dirs |-> 0,
            endSent |-> FALSE, ended |-> FALSE, ready |-> FALSE,
            next |-> 0, childrenQueued |-> FALSE, items |-> 0, expected |-> 0,
            received |-> 0, completed |-> 0, skipped |-> FALSE,
            waiting |-> <<>>, default |-> "none", created |-> {}]

Quiet == [control |-> <<>>, data |-> <<>>, life |-> <<>>]

NewSide(d) ==
    [role |-> d, state |-> "Closed", session |-> "Connected", able |-> TRUE,
     open |-> FALSE, accepted |-> FALSE, gen |-> 0, lreq |-> 0, blocked |-> 0,
     stopPending |-> FALSE, resetAfterStop |-> FALSE, listing |-> TRUE,
     tasks |-> <<>>, plans |-> <<>>, queue |-> <<>>, active |-> None,
     default |-> "none", ctl |-> <<>>, congested |-> FALSE, data |-> "takes", cut |-> FALSE,
     timers |-> {}, work |-> <<>>, shutdown |-> "no",
     sources |-> {}, writes |-> <<>>, dirs |-> {}, dest |-> <<>>, out |-> Quiet, todo |-> <<>>]

Has(s, id) == id \in DOMAIN s.tasks
In(s, id, states) == Has(s, id) /\ s.tasks[id].st \in states
Put(f, x, y) == (x :> y) @@ f
Drop(f, X) == [x \in DOMAIN f \ X |-> f[x]]

-----------------------------------------------------------------------------
(* The control channel.                                                    *)

Msg(kind, id) == [kind |-> kind, id |-> id, file |-> 0, req |-> 0, n |-> 0,
                  what |-> "none", all |-> FALSE, sum |-> <<>>]

SameAck(m, q) == q.kind = "Ack" /\ q.id = m.id /\ q.file = m.file
CanCoalesce(s, m) == m.kind = "Ack" /\ \E i \in DOMAIN s.ctl : SameAck(m, s.ctl[i])

\* sendControl answers whether the message was sent or queued.
Sends(s, m) ==
    /\ s.open
    /\ (s.ctl = <<>> /\ ~s.congested) \/ CanCoalesce(s, m) \/ Len(s.ctl) < ControlLimit

EnqueueControl(s, m) ==
    IF CanCoalesce(s, m)
    THEN [s EXCEPT !.ctl = [i \in DOMAIN @ |-> IF SameAck(m, @[i])
                            THEN [@[i] EXCEPT !.n = Max({@, m.n})] ELSE @[i]]]
    ELSE IF Len(s.ctl) >= ControlLimit THEN s
    ELSE [s EXCEPT !.ctl = IF m.kind = "Ack" THEN <<m>> \o @ ELSE Append(@, m)]

SendControl(s, m) ==
    IF ~s.open THEN s
    ELSE IF s.ctl = <<>> /\ ~s.congested
    THEN [s EXCEPT !.out.control = Append(@, m)]
    ELSE EnqueueControl(s, m)

FlushControlQueue(s) ==
    IF s.open /\ ~s.congested
    THEN [s EXCEPT !.out.control = @ \o s.ctl, !.ctl = <<>>] ELSE s

SendLifecycle(s, kind) ==
    [s EXCEPT !.out.life = Append(@, [kind |-> kind, req |-> s.lreq])]

-----------------------------------------------------------------------------
(* The worker and what a task holds in it.                                 *)

Job(op, id, h) == [op |-> op, id |-> id, h |-> h, n |-> 0, data |-> <<>>, gen |-> 0]

Queue(s, w) ==
    IF s.shutdown = "stopping" THEN s
    ELSE [s EXCEPT !.work = Append(@, [w EXCEPT !.gen = s.gen])]

HandleOf(id, h) == <<id, h>>

\* cleanupTaskResources
Release(s, id) ==
    LET t == s.tasks[id]
        closed == IF t.src = 0 THEN s
                  ELSE Queue([s EXCEPT !.tasks[id].src = 0], Job("close", id, t.src))
    IN IF t.write = 0 THEN closed
       ELSE Queue([closed EXCEPT !.tasks[id].write = 0], Job("abort", id, t.write))

\* Fault: a write that is being committed can still be cancelled.
CancelsCommit(s, id) ==
    s.tasks[id].write = 0 \/ HandleOf(id, s.tasks[id].write) \in DOMAIN s.writes

\* requestWriteCancellation: it answers FALSE once the commit has begun.
CancelsWrite(s, id) ==
    \/ s.tasks[id].write = 0
    \/ /\ HandleOf(id, s.tasks[id].write) \in DOMAIN s.writes
       /\ s.writes[HandleOf(id, s.tasks[id].write)].phase \in {"writable", "cancelled"}

MarkCancelled(s, id) ==
    IF s.tasks[id].write = 0 THEN s
    ELSE [s EXCEPT !.writes[HandleOf(id, s.tasks[id].write)].phase =
            IF @ = "writable" THEN "cancelled" ELSE @]

HasCommitInProgress(s) ==
    \E id \in DOMAIN s.tasks : s.tasks[id].fin /\ s.tasks[id].write # 0

ChildrenOf(s, j) == {id \in DOMAIN s.tasks : id[1] = j /\ IsChild(id)}

\* cleanupPlanDirectories, with the removal of the plan it precedes.
ErasePlan(s, j) ==
    IF j \notin DOMAIN s.plans THEN s
    ELSE LET erased == [s EXCEPT !.plans = Drop(@, {j})]
         IN IF s.plans[j].created = {} THEN erased
            ELSE Queue(erased, Job("cleanup", Root(j), 0))

\* What failTask and cancelPlan do to the children of a plan.
EndChildren(s, j, st) ==
    LET End(id, r) ==
            LET q == Release(r, id)
            IN IF q.tasks[id].st = "completed" THEN q ELSE [q EXCEPT !.tasks[id].st = st]
    IN FoldSet(End, s, ChildrenOf(s, j))

-----------------------------------------------------------------------------
(* Starting, finishing and failing tasks.                                  *)

CopyRequest(s, id) ==
    [Msg("CopyRequest", id) EXCEPT !.req = s.tasks[id].req]

\* startSenderTask, openSource
StartSender(s, id) ==
    Queue([s EXCEPT !.tasks[id].st = "scanning"], Job("open", id, s.tasks[id].file))

\* A call that ends a handler: "op" names it.  What it calls comes before what
\* is left to do.
Call(op, id) == [op |-> op, id |-> id, notify |-> FALSE, what |-> "none", msg |-> <<>>]
Calls(s, calls) == [s EXCEPT !.todo = calls \o @]

Fails(s, id, notify) == Calls(s, <<[Call("fail", id) EXCEPT !.notify = notify]>>)
Finishes(s, id, result) == Calls(s, <<[Call("finish", id) EXCEPT !.what = result]>>)
StartNext(s) == Calls(s, <<Call("next", None)>>)
Pumps(s, id) == Calls(s, <<Call("pump", id)>>)

ScanPlan(s, id) ==
    IF ~s.listing THEN Fails(s, id, TRUE) ELSE Queue(s, Job("scan", id, 0))

StartPlan(s, id) ==
    LET r == [s EXCEPT !.tasks[id].st = "scanning"]
        asks == ~r.tasks[id].sender \/ r.role = "controller"
        m == CopyRequest(r, id)
    IN IF asks /\ ~Sends(r, m) THEN Fails(r, id, FALSE)
       ELSE IF ~r.tasks[id].sender THEN SendControl(r, m)
       ELSE ScanPlan(IF asks THEN SendControl(r, m) ELSE r, id)

StartTask(s, id) ==
    LET t == s.tasks[id]
        r == IF t.sender THEN s ELSE [s EXCEPT !.tasks[id].st = "scanning"]
        m == CopyRequest(r, id)
    IN IF t.plan THEN StartPlan(s, id)
       ELSE IF t.sender /\ IsChild(id) THEN StartSender(s, id)
       ELSE IF ~Sends(r, m) THEN Fails(r, id, FALSE)
       ELSE IF t.sender THEN StartSender(SendControl(r, m), id)
       ELSE SendControl(r, m)

StartNextTask(s) ==
    LET waiting == {i \in DOMAIN s.queue : In(s, s.queue[i], {"queued"})}
        first == Min(waiting)
    IN IF s.state # "Ready" \/ s.active # None \/ s.stopPending THEN s
       ELSE IF waiting = {} THEN [s EXCEPT !.queue = <<>>]
       ELSE StartTask([s EXCEPT !.active = s.queue[first],
                                !.queue = SubSeq(@, first + 1, Len(@))], s.queue[first])

\* "if it was the active task, start the next one"
Leave(s, id) == IF s.active = id THEN StartNext([s EXCEPT !.active = None]) ELSE s

FailTask(s, id, notify) ==
    LET t == s.tasks[id]
        told == IF ~notify THEN s
                ELSE SendControl(s, [Msg("Error", id) EXCEPT !.file = t.file])
        failed == Release([told EXCEPT !.tasks[id].st = "failed"], id)
        alone == IF t.plan THEN ErasePlan(EndChildren(failed, id[1], "failed"), id[1])
                 ELSE failed
    IN IF ~In(s, id, Live) THEN s
       ELSE Leave(IF IsChild(id) THEN Fails(alone, Root(id[1]), FALSE) ELSE alone, id)

FinishPlan(s, j, result, notify) ==
    LET m == [Msg("PlanEnd", Root(j)) EXCEPT !.req = s.plans[j].req, !.what = result]
        r == [IF notify THEN SendControl(s, m) ELSE s EXCEPT
                !.tasks[Root(j)].st = IF result = "skipped" THEN "cancelled" ELSE "completed",
                !.plans = Drop(@, {j}), !.active = IF @ = Root(j) THEN None ELSE @]
    IN IF j \notin DOMAIN s.plans \/ ~Has(s, Root(j)) THEN s
       ELSE IF notify /\ ~Sends(s, m) THEN Fails(s, Root(j), FALSE)
       ELSE StartNext(r)

\* completePlanIfReady
CompletePlan(s, j) ==
    LET p == s.plans[j]
    IN IF j \in DOMAIN s.plans /\ ~p.sender /\ p.ended /\ p.ready
          /\ p.received = p.expected /\ p.completed = p.expected
       THEN FinishPlan(s, j, IF p.skipped THEN "skipped" ELSE "completed", TRUE)
       ELSE s

CountInPlan(s, j, result) ==
    IF j \in DOMAIN s.plans /\ Has(s, Root(j))
    THEN [s EXCEPT !.plans[j].completed = @ + 1,
                   !.plans[j].skipped = @ \/ result = "skipped"]
    ELSE s

FinishTask(s, id, result) ==
    LET t == s.tasks[id]
        m == [Msg("TaskComplete", id) EXCEPT !.file = t.file, !.what = result]
        told == IF t.sender THEN s ELSE SendControl(s, m)
        ended == Release([told EXCEPT !.tasks[id].st =
                            IF result = "skipped" THEN "cancelled" ELSE "completed"], id)
        counted == Calls(CountInPlan(ended, id[1], result), <<Call("complete", id)>>)
    IN IF ~In(s, id, Live) THEN s
       ELSE Leave(IF IsChild(id) THEN counted ELSE ended, id)

CancelPlan(s, j, notify) ==
    LET m == [Msg("Cancel", Root(j)) EXCEPT !.req = s.tasks[Root(j)].req]
        marked == FoldSet(LAMBDA id, r : MarkCancelled(r, id), s, ChildrenOf(s, j))
        told == IF notify THEN SendControl(marked, m) ELSE marked
        alone == ErasePlan(EndChildren(told, j, "cancelled"), j)
        ended == [alone EXCEPT !.tasks[Root(j)].st = "cancelled",
                               !.active = IF @ = Root(j) THEN None ELSE @]
    IN IF In(s, Root(j), Live) /\ \A id \in ChildrenOf(s, j) : CancelsWrite(s, id)
       THEN StartNext(ended) ELSE s

CancelTask(s, id, notify) ==
    LET m == [Msg("Cancel", id) EXCEPT !.file = s.tasks[id].file]
        marked == MarkCancelled(s, id)
        told == IF notify THEN SendControl(marked, m) ELSE marked
        ended == Release([told EXCEPT !.tasks[id].st = "cancelled"], id)
    IN IF ~Has(s, id) THEN s
       ELSE IF s.tasks[id].plan \/ IsChild(id) THEN CancelPlan(s, id[1], notify)
       ELSE IF ~CancelsWrite(s, id) \/ In(s, id, {"completed", "cancelled"}) THEN s
       ELSE Leave(ended, id)

-----------------------------------------------------------------------------
(* The sending side of a file.                                             *)

MaySend(s, id) ==
    LET t == s.tasks[id]
    IN /\ Has(s, id)
       /\ t.sender /\ t.st = "transferring" /\ ~t.reading /\ ~t.done /\ t.src # 0
       /\ s.session # "Reconnecting" /\ ~s.congested
       /\ t.sent - t.acked < Window

QueueRead(s, id) ==
    IF MaySend(s, id)
    THEN Queue([s EXCEPT !.tasks[id].reading = TRUE],
               [Job("read", id, s.tasks[id].src) EXCEPT !.n = s.tasks[id].sent])
    ELSE s

SendFileComplete(s, id) ==
    LET t == s.tasks[id]
        m == [Msg("FileComplete", id) EXCEPT !.file = t.file, !.n = t.total, !.sum = t.sum]
    IN IF t.done THEN s
       ELSE IF Sends(s, m) THEN [SendControl(s, m) EXCEPT !.tasks[id].done = TRUE]
       ELSE Fails(s, id, FALSE)

Pending(t) == t.pend # <<>> \/ t.last

\* A frame the data channel refuses for its backpressure is kept for the low
\* watermark; refused for another reason, as by a channel that is closing and
\* has not been reported, it fails the task.
SendPendingSourceRead(s, id) ==
    LET t == s.tasks[id]
        frame == [id |-> id, file |-> t.file, n |-> t.pendAt, data |-> t.pend, last |-> t.last]
        sent == IF t.pend = <<>> THEN s
                ELSE [s EXCEPT !.out.data = Append(@, frame),
                               !.tasks[id].sum = @ \o t.pend,
                               !.tasks[id].sent = @ + Len(t.pend)]
        clear == [sent EXCEPT !.tasks[id].pend = <<>>, !.tasks[id].last = FALSE,
                              !.tasks[id].pendAt = 0]
    IN IF t.src = 0 \/ ~Pending(t) \/ s.session = "Reconnecting"
          \/ s.state # "Ready" \/ ~s.open
       THEN s
       ELSE IF t.pendAt # t.sent THEN Fails(s, id, TRUE)
       ELSE IF t.pend # <<>> /\ s.data = "full" THEN s
       ELSE IF t.pend # <<>> /\ s.data = "closed"
       THEN IF s.congested THEN s ELSE Fails(s, id, TRUE)
       ELSE IF t.last THEN SendFileComplete(clear, id) ELSE QueueRead(clear, id)

PumpSender(s, id) ==
    IF MaySend(s, id) /\ Pending(s.tasks[id])
    THEN SendPendingSourceRead(s, id) ELSE QueueRead(s, id)

\* Fault: the snapshot is not compared with the listing.
SourceOpenedUnchecked(s, w, ok) ==
    LET h == HandleOf(w.id, w.h)
        held == IF ok THEN [s EXCEPT !.sources = @ \cup {h}] ELSE s
        t == s.tasks[w.id]
        begin == [Msg("FileBegin", w.id) EXCEPT !.file = t.file, !.req = t.req, !.n = t.total]
    IN IF w.gen # s.gen \/ ~In(s, w.id, {"scanning"})
       THEN IF ok THEN Queue(held, Job("close", w.id, w.h)) ELSE s
       ELSE IF ~ok THEN Fails(s, w.id, TRUE)
       ELSE SendControl([held EXCEPT !.tasks[w.id].src = w.h,
                                     !.tasks[w.id].st = "transferring"], begin)

\* openSource: what its completion does with the snapshot.
SourceOpened(s, w, ok) ==
    LET h == HandleOf(w.id, w.h)
        held == IF ok THEN [s EXCEPT !.sources = @ \cup {h}] ELSE s
        close == Queue(held, Job("close", w.id, w.h))
        t == s.tasks[w.id]
        begin == [Msg("FileBegin", w.id) EXCEPT !.file = t.file, !.req = t.req, !.n = t.total]
        opened == [held EXCEPT !.tasks[w.id].src = w.h, !.tasks[w.id].sum = <<>>,
                               !.tasks[w.id].st = "transferring"]
    IN IF w.gen # s.gen \/ ~In(s, w.id, {"scanning"}) THEN IF ok THEN close ELSE s
       ELSE IF ~ok THEN Fails(s, w.id, TRUE)
       ELSE IF version[FileOf(w.id)] # 1 THEN Fails(close, w.id, TRUE)
       ELSE IF Sends(opened, begin) THEN SendControl(opened, begin)
       ELSE Fails(opened, w.id, FALSE)

\* pumpSender: what the completion of a read does.
SourceRead(s, w, ok) ==
    LET id == w.id
        chunk == IF w.n < SizeOf(id) THEN <<<<version[FileOf(id)], w.n + 1>>>> ELSE <<>>
        read == [s EXCEPT !.tasks[id].reading = FALSE]
        kept == [read EXCEPT !.tasks[id].pend = chunk, !.tasks[id].pendAt = w.n,
                             !.tasks[id].last = w.n + 1 >= SizeOf(id)]
    IN IF w.gen # s.gen \/ ~In(s, id, {"transferring", "paused"}) THEN s
       ELSE IF ~ok \/ HandleOf(id, w.h) \notin s.sources
       THEN IF s.session = "Reconnecting" THEN read ELSE Fails(read, id, TRUE)
       ELSE IF s.session = "Reconnecting" THEN kept ELSE SendPendingSourceRead(kept, id)

-----------------------------------------------------------------------------
(* The manifest of a copy plan.                                            *)

Dirs(j) == IF job[j].kind = "folder" THEN 1 ELSE 0
PlanMsg(s, j, kind) == [Msg(kind, Root(j)) EXCEPT !.req = s.plans[j].req]

\* Children go to the front of the queue, the last one first.
QueuePlanFiles(s, j) ==
    LET p == s.plans[j]
        now == IF p.next < Batch THEN p.next ELSE Batch
        ids == [i \in 1 .. now |-> Child(j, p.req, p.next - now + i)]
        child(id) == [NewTask EXCEPT !.sender = TRUE, !.file = 1, !.req = p.req,
                                     !.total = SizeOf(id)]
        some == [s EXCEPT
            !.tasks = [id \in {ids[i] : i \in DOMAIN ids} |-> child(id)] @@ @,
            !.queue = ids \o @,
            !.plans[j].next = @ - now]
        all == [some EXCEPT !.timers = @ \ {j}, !.plans[j].childrenQueued = TRUE,
                            !.active = IF @ = Root(j) THEN None ELSE @]
    IN IF j \notin DOMAIN s.plans \/ p.childrenQueued THEN [s EXCEPT !.timers = @ \ {j}]
       ELSE IF some.plans[j].next > 0 THEN [some EXCEPT !.timers = @ \cup {j}]
       ELSE StartNext(all)

Manifest(s, j) == Calls(s, <<Call("manifest", Root(j))>>)

\* A message that cannot be queued fails the plan, unless the channel is
\* congested: the low watermark will call again.
PumpPlanManifest(s, j) ==
    LET begin == [PlanMsg(s, j, "PlanBegin") EXCEPT !.n = s.plans[j].items]
        dir == PlanMsg(s, j, "PlanDir")
        end == PlanMsg(s, j, "PlanEnd")
        Refused(r) == IF r.congested THEN r ELSE Fails(r, Root(j), FALSE)
        Begun == IF s.plans[j].begun THEN s
                 ELSE [SendControl(s, begin) EXCEPT !.plans[j].begun = TRUE]
        Listed == IF Begun.plans[j].dirs = Dirs(j) THEN Begun
                  ELSE [SendControl(Begun, dir) EXCEPT !.plans[j].dirs = @ + 1]
        Done == IF Listed.plans[j].endSent THEN Listed
                ELSE [SendControl(Listed, end) EXCEPT !.plans[j].endSent = TRUE]
    IN IF j \notin DOMAIN s.plans \/ ~s.plans[j].sender \/ s.plans[j].ended
          \/ s.session = "Reconnecting" THEN s
       ELSE IF ~s.plans[j].begun /\ ~Sends(s, begin) THEN Refused(s)
       ELSE IF Begun.plans[j].dirs < Dirs(j) /\ (Begun.ctl # <<>> \/ Begun.congested)
            THEN Begun
       ELSE IF Begun.plans[j].dirs < Dirs(j) /\ ~Sends(Begun, dir) THEN Refused(Begun)
       ELSE IF ~Listed.plans[j].endSent /\ ~Sends(Listed, end) THEN Refused(Listed)
       ELSE QueuePlanFiles([Done EXCEPT !.plans[j].ended = TRUE], j)

\* publishPlan
PlanScanned(s, w, ok) ==
    LET j == w.id[1]
        t == s.tasks[w.id]
        plan == [NewPlan EXCEPT !.sender = TRUE, !.ready = TRUE, !.req = t.req,
                                !.next = Count(j), !.items = Dirs(j) + Count(j)]
    IN IF w.gen # s.gen \/ ~In(s, w.id, {"scanning"}) THEN s
       ELSE IF ~ok THEN Fails(s, w.id, TRUE)
       ELSE Manifest([s EXCEPT !.plans = Put(@, j, plan),
                                       !.tasks[w.id].st = "transferring"], j)

Refusal(m) == [Msg("Error", m.id) EXCEPT !.req = m.req, !.file = m.file]

HandlePlanBegin(s, m) ==
    LET j == m.id[1]
        plan == [NewPlan EXCEPT !.req = m.req, !.items = m.n]
    IN IF In(s, m.id, {"scanning"}) /\ ~s.tasks[m.id].sender
          /\ s.tasks[m.id].req = m.req /\ j \notin DOMAIN s.plans /\ s.listing
       THEN [s EXCEPT !.plans = Put(@, j, plan), !.tasks[m.id].plan = TRUE]
       ELSE SendControl(s, Refusal(m))

PlanOf(s, m) == m.id[1] \in DOMAIN s.plans /\ s.plans[m.id[1]].req = m.req

HandlePlanDirectory(s, m) ==
    LET j == m.id[1]
    IN IF PlanOf(s, m) /\ ~s.plans[j].sender /\ ~s.plans[j].ended
          /\ s.plans[j].dirs < s.plans[j].items
       THEN [s EXCEPT !.plans[j].dirs = @ + 1] ELSE s

HandlePlanEnd(s, m) ==
    LET j == m.id[1]
        ended == [s EXCEPT !.plans[j].ended = TRUE,
                           !.plans[j].expected = s.plans[j].items - s.plans[j].dirs]
    IN IF ~PlanOf(s, m) THEN s
       ELSE IF m.what # "none"
       THEN IF s.plans[j].sender THEN FinishPlan(s, j, m.what, FALSE) ELSE s
       ELSE IF s.plans[j].sender \/ s.plans[j].ended THEN s
       ELSE Queue(ended, Job("prepare", m.id, m.req))

-----------------------------------------------------------------------------
(* The receiving side of a file.                                           *)

\* prepareReceiver
PrepareReceiver(s, m) ==
    LET id == m.id
        known == /\ In(s, id, {"scanning"})
                 /\ ~s.tasks[id].sender /\ s.tasks[id].file = 0 /\ s.tasks[id].req = m.req
        ready == [s EXCEPT !.tasks[id].file = m.file, !.tasks[id].total = m.n,
                           !.active = IF @ = None THEN id ELSE @]
    IN IF ~known THEN SendControl(s, Refusal(m))
       ELSE IF ~IsChild(id) /\ ~s.listing THEN SendControl(s, Msg("Error", id))
       ELSE Queue(ready, Job("exists", id, m.file))

ProcessPlanFileBegin(s, m) ==
    LET j == m.id[1]
        p == s.plans[j]
        child == [NewTask EXCEPT !.st = "scanning", !.req = m.req]
    IN IF p.sender \/ ~IsChild(m.id) \/ ~p.ended THEN SendControl(s, Refusal(m))
       ELSE IF ~p.ready
       THEN IF p.received + Len(p.waiting) >= p.expected THEN Fails(s, Root(j), TRUE)
            ELSE [s EXCEPT !.plans[j].waiting = Append(@, m)]
       ELSE IF p.received >= p.expected \/ Has(s, m.id) THEN Fails(s, Root(j), TRUE)
       ELSE PrepareReceiver([s EXCEPT !.tasks = Put(@, m.id, child),
                                      !.plans[j].received = @ + 1], m)

HandleFileBegin(s, m) ==
    IF PlanOf(s, m) THEN ProcessPlanFileBegin(s, m) ELSE PrepareReceiver(s, m)

\* preparePlanDirectories: what its completion does.  A result that comes too
\* late takes away the directories it made.
DirectoriesPrepared(s, w, ok) ==
    LET j == w.id[1]
        made == IF ok /\ job[j].kind = "folder" THEN {j} \ s.dirs ELSE {}
        fs == [s EXCEPT !.dirs = @ \cup made]
        ready == [fs EXCEPT !.plans[j].ready = TRUE, !.plans[j].created = made,
                            !.plans[j].waiting = <<>>,
                            !.tasks[Root(j)].st = "transferring"]
        begins == [i \in DOMAIN fs.plans[j].waiting |->
                    [Call("begin", w.id) EXCEPT !.msg = <<fs.plans[j].waiting[i]>>]]
    IN IF w.gen # s.gen \/ j \notin DOMAIN s.plans \/ s.plans[j].sender
       THEN IF made = {} THEN fs ELSE Queue(fs, Job("cleanup", w.id, 0))
       ELSE IF ~ok THEN Fails(fs, w.id, TRUE)
       ELSE Calls(ready, Append(begins, Call("complete", w.id)))

\* openDestination
OpenDestination(s, id, policy) ==
    Queue([s EXCEPT !.tasks[id].st = "transferring", !.tasks[id].conf = 0],
          [Job("begin", id, s.tasks[id].file) EXCEPT !.data = <<policy>>])

Resolve(s, id, resolution) ==
    IF resolution = "skip" THEN Finishes(s, id, "skipped")
    ELSE OpenDestination(s, id, resolution)

DefaultFor(s, id) ==
    IF IsChild(id) /\ id[1] \in DOMAIN s.plans THEN s.plans[id[1]].default ELSE s.default

Dest(s, id) == IF FileOf(id) \in DOMAIN s.dest THEN s.dest[FileOf(id)] ELSE {}

\* prepareReceiver: what the completion of the look at the destination does.
DestinationChecked(s, w, ok) ==
    LET id == w.id
        inConflict == [s EXCEPT !.tasks[id].st = "conflict", !.tasks[id].conf = w.h]
        m == [Msg("Conflict", id) EXCEPT !.file = w.h, !.n = w.h]
    IN IF w.gen # s.gen \/ ~In(s, id, {"scanning"}) THEN s
       ELSE IF ~ok THEN Fails(s, id, TRUE)
       ELSE IF Dest(s, id) = {} THEN OpenDestination(s, id, "reject")
       ELSE IF DefaultFor(s, id) # "none" THEN Resolve(s, id, DefaultFor(s, id))
       ELSE IF s.role = "controller" THEN inConflict
       ELSE SendControl(inConflict, m)

\* tryFinalizeReceiver
TryFinalize(s, id) ==
    LET t == s.tasks[id]
    IN IF Has(s, id) /\ ~t.sender /\ t.write # 0 /\ t.got /\ ~t.fin /\ t.written = t.total
       THEN Queue([s EXCEPT !.tasks[id].fin = TRUE],
                  [Job("finalize", id, t.write) EXCEPT !.data = t.expected])
       ELSE s

Ack(s, id, n) == [Msg("Ack", id) EXCEPT !.file = s.tasks[id].file, !.n = n]

\* Fault: a destination opened for a task that has ended is not given back.
DestinationForgotten(s, w, ok) ==
    LET id == w.id
        fs == [s EXCEPT !.writes = Put(@, HandleOf(id, w.h),
                    [phase |-> "writable", data |-> <<>>, policy |-> w.data[1]])]
        ready == [fs EXCEPT !.tasks[id].write = w.h]
    IN IF ~ok \/ (Dest(s, id) # {} /\ w.data = <<"reject">>) THEN Fails(s, id, TRUE)
       ELSE IF w.gen # s.gen \/ ~In(s, id, {"transferring"}) THEN fs
       ELSE SendControl(ready, Ack(ready, id, 0))

\* openDestination: what its completion does.
DestinationOpened(s, w, ok) ==
    LET id == w.id
        h == HandleOf(id, w.h)
        opens == ok /\ (Dest(s, id) = {} \/ w.data # <<"reject">>)
        fs == IF ~opens THEN s
              ELSE [s EXCEPT !.writes = Put(@, h, [phase |-> "writable", data |-> <<>>,
                                                   policy |-> w.data[1]])]
        ready == [fs EXCEPT !.tasks[id].write = w.h]
    IN IF w.gen # s.gen \/ ~In(s, id, {"transferring"})
       THEN IF opens THEN Queue(fs, Job("abort", id, w.h)) ELSE fs
       ELSE IF ~opens THEN Fails(fs, id, TRUE)
       ELSE TryFinalize(SendControl(ready, Ack(ready, id, 0)), id)

AppendReceivedData(s, f) ==
    LET t == s.tasks[f.id]
        n == Len(f.data)
    IN IF t.write = 0 \/ f.n # t.queued \/ t.queued < t.written
          \/ t.queued - t.written > Window - n \/ f.n + n > t.total
       THEN Fails(s, f.id, TRUE)
       ELSE Queue([s EXCEPT !.tasks[f.id].queued = @ + n],
                  [Job("append", f.id, t.write) EXCEPT !.data = f.data])

\* Fault: the last chunk written does not look for an earlier FileComplete.
DataWrittenOnly(s, w, ok) ==
    LET id == w.id
        h == HandleOf(id, w.h)
        writes == ok /\ h \in DOMAIN s.writes /\ s.writes[h].phase = "writable"
        fs == IF writes THEN [s EXCEPT !.writes[h].data = @ \o w.data] ELSE s
        grown == [fs EXCEPT !.tasks[id].written = @ + Len(w.data), !.tasks[id].lastAck = @ + 1]
    IN IF w.gen # s.gen \/ ~In(s, id, {"transferring", "paused"}) THEN fs
       ELSE IF ~writes THEN Fails(fs, id, TRUE)
       ELSE SendControl(grown, Ack(grown, id, grown.tasks[id].written))

\* appendReceivedData: what the completion of a write does.
DataWritten(s, w, ok) ==
    LET id == w.id
        h == HandleOf(id, w.h)
        writes == ok /\ h \in DOMAIN s.writes /\ s.writes[h].phase = "writable"
        fs == IF writes THEN [s EXCEPT !.writes[h].data = @ \o w.data] ELSE s
        grown == [fs EXCEPT !.tasks[id].written = @ + Len(w.data)]
        t == grown.tasks[id]
        due == t.written - t.lastAck >= AckInterval \/ t.written = t.total
        acked == IF due /\ Sends(grown, Ack(grown, id, t.written))
                 THEN [SendControl(grown, Ack(grown, id, t.written))
                        EXCEPT !.tasks[id].lastAck = t.written]
                 ELSE grown
    IN IF w.gen # s.gen \/ ~In(s, id, {"transferring", "paused"}) THEN fs
       ELSE IF ~writes THEN Fails(fs, id, TRUE)
       ELSE TryFinalize(acked, id)

-----------------------------------------------------------------------------
(* Opening, stopping and losing the feature.                               *)

Available(s) == s.session = "Connected" /\ s.able

\* failFeature
FailFeature(s) ==
    FoldSet(LAMBDA id, r : Fails(r, id, FALSE),
            [s EXCEPT !.state = "Failed"], DOMAIN s.tasks)

Roots(s) == {id \in DOMAIN s.tasks : ~IsChild(id)}

\* stopCurrentFileTransfer
Stop(s, notify, controlledStop) ==
    LET closing == [s EXCEPT !.state = "Closing",
                             !.blocked = IF controlledStop /\ s.role = "controlled"
                                         THEN session ELSE @]
        told == IF notify /\ s.lreq # 0
                THEN SendLifecycle(closing, IF controlledStop THEN "Stopped" ELSE "Close")
                ELSE closing
    IN IF s.state = "Closed" /\ s.tasks = <<>> /\ ~s.stopPending THEN s
       ELSE FoldSet(LAMBDA id, r : Calls(r, <<[Call("cancel", id) EXCEPT !.notify = notify]>>),
                    Calls(told, <<Call("stopped", None)>>), Roots(s))

\* Its end: the commit of a file is waited for.
Stopped(s) ==
    IF HasCommitInProgress(s) THEN [s EXCEPT !.stopPending = TRUE]
    ELSE [s EXCEPT !.stopPending = FALSE, !.active = None, !.queue = <<>>,
                   !.accepted = FALSE, !.state = "Closed"]

ResetSession(s) ==
    [NewSide(s.role) EXCEPT !.session = s.session, !.able = FALSE, !.blocked = s.blocked,
        !.congested = s.congested, !.data = s.data, !.cut = s.cut, !.timers = s.timers,
        !.work = s.work, !.shutdown = s.shutdown, !.out = s.out, !.todo = s.todo,
        !.sources = s.sources, !.writes = s.writes, !.dirs = s.dirs, !.dest = s.dest]

ResetIfStopped(s) ==
    IF s.resetAfterStop /\ ~s.stopPending THEN ResetSession(s) ELSE s

\* finishPendingStopIfReady
FinishPendingStop(s) ==
    IF ~s.stopPending \/ HasCommitInProgress(s) THEN s
    ELSE Stop(Calls([s EXCEPT !.stopPending = FALSE], <<Call("reset", None)>>), FALSE, FALSE)

\* tryFinalizeReceiver: what the completion of the commit does.
Finalized(s, w, ok) ==
    LET id == w.id
        h == HandleOf(id, w.h)
        published == ok /\ h \in DOMAIN s.writes /\ s.writes[h].phase = "committing"
        old == IF s.writes[h].policy = "overwrite" THEN {} ELSE Dest(s, id)
        fs == [s EXCEPT !.writes = Drop(@, {h}),
                        !.dest = IF published
                                 THEN Put(@, FileOf(id), old \cup {s.writes[h].data}) ELSE @]
        free == [fs EXCEPT !.tasks[id].write = 0]
        then(r) == Calls(r, <<Call("pending", None)>>)
    IN IF w.gen # s.gen \/ ~In(s, id, {"transferring", "paused"}) \/ ~s.tasks[id].fin THEN fs
       ELSE IF published THEN Finishes(then(free), id, "completed")
       ELSE Fails(then(fs), id, TRUE)

UpdateReadyState(s) ==
    LET ready == [s EXCEPT !.state = "Ready",
            !.tasks = [id \in DOMAIN @ |->
                IF @[id].recon /\ @[id].st = "paused"
                THEN [@[id] EXCEPT !.recon = FALSE, !.st = "transferring"] ELSE @[id]]]
    IN IF ~s.accepted \/ ~Available(s) \/ ~s.open \/ s.state = "Ready" THEN s
       ELSE Pumps(ready, s.active)

Readies(s) == Calls(s, <<Call("ready", None)>>)

OpenFeature(s) ==
    IF ~Available(s) THEN [s EXCEPT !.state = "Failed"]
    ELSE IF s.state \in {"Ready", "Opening", "WaitingChannels"} THEN s
    ELSE SendLifecycle([s EXCEPT !.gen = session, !.lreq = @ + 1,
                                 !.accepted = FALSE, !.state = "Opening"], "OpenRequest")

HandleLifecycle(s, m) ==
    LET opening == [s EXCEPT !.gen = session, !.lreq = m.req]
        accepted == [s EXCEPT !.accepted = TRUE, !.state = "WaitingChannels"]
    IN IF m.kind = "OpenRequest"
       THEN IF ~Available(s) \/ s.blocked = session
            THEN SendLifecycle(opening, "OpenRejected")
            ELSE Readies(SendLifecycle(
                    [opening EXCEPT !.accepted = TRUE, !.state = "Opening"], "OpenAccepted"))
       ELSE IF m.req # s.lreq \/ s.gen # session THEN s
       ELSE CASE m.kind = "OpenAccepted" -> Readies(accepted)
              [] m.kind = "OpenRejected" -> FailFeature(s)
              [] m.kind = "Close"        -> Stop(SendLifecycle(s, "Stopped"), FALSE, FALSE)
              [] m.kind = "Stopped"      ->
                   Stop(Calls(s, <<Call("closed", None)>>), FALSE, FALSE)

HandleChannels(s, open) ==
    LET r == [s EXCEPT !.open = open]
    IN IF s.open /\ ~open /\ s.state # "Closed" /\ s.session # "Reconnecting"
       THEN FailFeature(r)
       ELSE Readies(FlushControlQueue(r))

Interrupted(s) ==
    [s EXCEPT !.session = "Reconnecting", !.cut = TRUE,
        !.state = IF @ = "Ready" THEN "Reconnecting" ELSE @,
        !.tasks = [id \in DOMAIN @ |->
            IF @[id].st = "transferring"
            THEN [@[id] EXCEPT !.recon = TRUE, !.st = "paused"] ELSE @[id]]]

Restored(s) ==
    LET r == [s EXCEPT !.session = "Connected"]
    IN IF s.state = "Reconnecting" THEN Readies(r) ELSE r

\* A session state in which there is no session any more.
SessionOver(s, st) ==
    Stop(Calls([s EXCEPT !.session = st, !.resetAfterStop = TRUE], <<Call("reset", None)>>),
         FALSE, FALSE)

\* handleCapabilitiesChanged
CapabilitiesGone(s) ==
    IF s.state = "Closed" THEN [s EXCEPT !.able = FALSE]
    ELSE Stop([s EXCEPT !.able = FALSE], FALSE, FALSE)

-----------------------------------------------------------------------------
(* Control messages about a task.                                          *)

HandleCopyRequest(s, m) ==
    LET j == m.id[1]
        task == [NewTask EXCEPT !.req = m.req]
        upload == [s EXCEPT !.default = "none", !.active = m.id,
            !.tasks = Put(@, m.id, [task EXCEPT !.st = "scanning", !.plan = Count(j) > 1])]
        download == [s EXCEPT !.default = "none", !.active = m.id,
            !.tasks = Put(@, m.id, [task EXCEPT !.sender = TRUE,
                            !.plan = job[j].kind # "file",
                            !.file = IF job[j].kind = "file" THEN 10 + m.req ELSE 0,
                            !.total = IF job[j].kind = "file" THEN SizeOf(m.id) ELSE 0])]
    IN IF s.active # None \/ Has(s, m.id) THEN SendControl(s, Msg("Error", m.id))
       ELSE IF ~s.listing
       THEN SendControl([s EXCEPT !.default = "none"],
                        [Msg("Error", m.id) EXCEPT !.req = m.req])
       ELSE IF job[j].upload THEN upload
       ELSE IF job[j].kind = "file" THEN StartSender(download, m.id)
       ELSE StartPlan(download, m.id)

ApplyToRemaining(s, id, resolution) ==
    IF IsChild(id)
    THEN IF id[1] \in DOMAIN s.plans
         THEN [s EXCEPT !.plans[id[1]].default = resolution] ELSE s
    ELSE [s EXCEPT !.default = resolution]

HandleTaskMessage(s, m) ==
    LET t == s.tasks[m.id]
        move(st) == [s EXCEPT !.tasks[m.id].st = st]
    IN CASE m.kind = "Ack" ->
              IF ~t.sender \/ m.n < t.acked \/ m.n > t.sent THEN Fails(s, m.id, TRUE)
              ELSE Pumps([s EXCEPT !.tasks[m.id].acked = m.n], m.id)
         [] m.kind = "Pause" -> IF t.st = "transferring" THEN move("paused") ELSE s
         [] m.kind = "Resume" ->
              IF t.st = "paused" THEN Pumps(move("transferring"), m.id) ELSE s
         [] m.kind = "Cancel" -> CancelTask(s, m.id, FALSE)
         [] m.kind = "Conflict" ->
              IF s.role = "controller" /\ t.sender
              THEN [move("conflict") EXCEPT !.tasks[m.id].conf = m.n] ELSE s
         [] m.kind = "Resolution" ->
              IF t.sender \/ t.conf # m.n THEN s
              ELSE Resolve(IF m.all THEN ApplyToRemaining(s, m.id, m.what) ELSE s,
                           m.id, m.what)
         [] m.kind = "FileComplete" ->
              IF t.sender \/ m.n # t.total THEN Fails(s, m.id, TRUE)
              ELSE TryFinalize([s EXCEPT !.tasks[m.id].got = TRUE,
                                         !.tasks[m.id].expected = m.sum], m.id)
         [] m.kind = "TaskComplete" ->
              IF t.sender THEN Finishes(s, m.id, m.what) ELSE s
         [] m.kind = "Error" -> Fails(s, m.id, FALSE)

Hears(s) == s.state \in {"Ready", "Reconnecting"}

HandleControl(s, m) ==
    IF ~Hears(s) \/ ~s.open \/ s.gen # session THEN s
    ELSE CASE m.kind = "CopyRequest" -> HandleCopyRequest(s, m)
           [] m.kind = "FileBegin" -> HandleFileBegin(s, m)
           [] m.kind = "PlanBegin" -> HandlePlanBegin(s, m)
           [] m.kind = "PlanDir" -> HandlePlanDirectory(s, m)
           [] m.kind = "PlanEnd" -> HandlePlanEnd(s, m)
           [] OTHER -> IF Has(s, m.id) /\ m.file \in {0, s.tasks[m.id].file}
                       THEN HandleTaskMessage(s, m) ELSE s

HandleData(s, f) ==
    IF Hears(s) /\ s.open /\ Has(s, f.id) /\ s.tasks[f.id].file = f.file /\ ~s.tasks[f.id].sender
    THEN AppendReceivedData(s, f) ELSE s

-----------------------------------------------------------------------------
(* One job of the worker, with its completion on the side's event loop.    *)

\* A directory made for a plan is removed while nothing was put into it.
IsEmptyDir(s, j) == \A f \in DOMAIN s.dest : f[1] = j => s.dest[f] = {}

Completed(s, w, ok) ==
    LET h == HandleOf(w.id, w.h)
    IN CASE w.op = "open"     -> SourceOpened(s, w, ok)
         [] w.op = "read"     -> SourceRead(s, w, ok)
         [] w.op = "close"    -> [s EXCEPT !.sources = @ \ {h}]
         [] w.op = "exists"   -> DestinationChecked(s, w, ok)
         [] w.op = "begin"    -> DestinationOpened(s, w, ok)
         [] w.op = "append"   -> DataWritten(s, w, ok)
         [] w.op = "finalize" -> Finalized(s, w, ok)
         [] w.op = "abort"    -> [s EXCEPT !.writes = Drop(@, {h})]
         [] w.op = "scan"     -> PlanScanned(s, w, ok)
         [] w.op = "prepare"  -> DirectoriesPrepared(s, w, ok)
         [] w.op = "cleanup"  -> [s EXCEPT !.dirs = IF IsEmptyDir(s, w.id[1])
                                                    THEN @ \ {w.id[1]} ELSE @]

\* finalizeWrite up to the exchange of the phase: what must hold to commit.
CanCommit(s, w) ==
    LET h == HandleOf(w.id, w.h)
    IN /\ h \in DOMAIN s.writes
       /\ s.writes[h].phase = "writable"
       /\ Len(s.writes[h].data) = SizeOf(w.id)
       /\ s.writes[h].data = w.data

\* finishShutdownIfReady
Settled(s) ==
    IF s.shutdown = "requested" /\ s.work = <<>>
    THEN [s EXCEPT !.shutdown = "stopping"] ELSE s

Perform(s, c) ==
    CASE c.op = "next"       -> StartNextTask(s)
      [] c.op = "fail"       -> FailTask(s, c.id, c.notify)
      [] c.op = "finish"     -> FinishTask(s, c.id, c.what)
      [] c.op = "complete"   -> CompletePlan(s, c.id[1])
      [] c.op = "cancel"     -> CancelTask(s, c.id, c.notify)
      [] c.op = "pump"       -> PumpSender(s, c.id)
      [] c.op = "pumpActive" -> PumpSender(s, s.active)
      [] c.op = "manifest"   -> PumpPlanManifest(s, c.id[1])
      [] c.op = "begin"      -> IF c.id[1] \in DOMAIN s.plans
                                THEN ProcessPlanFileBegin(s, c.msg[1]) ELSE s
      [] c.op = "ready"      -> UpdateReadyState(s)
      [] c.op = "stopped"    -> Stopped(s)
      [] c.op = "pending"    -> FinishPendingStop(s)
      [] c.op = "reset"      -> ResetIfStopped(s)
      [] c.op = "closed"     -> [s EXCEPT !.state = "Closed"]
      [] c.op = "end"        -> HandleChannels(CapabilitiesGone(s), FALSE)

RECURSIVE Run(_)
Run(s) == IF s.todo = <<>> THEN Settled(s)
          ELSE Run(Perform([s EXCEPT !.todo = Tail(@)], Head(s.todo)))

-----------------------------------------------------------------------------
(* Steps.                                                                  *)

Box == {"control", "data", "life"}

\* Side d becomes s, "inbox" is left on its way to it, and it sends what s sends.
Becomes(d, s, inbox) ==
    LET r == Run(s)
    IN /\ side' = [side EXCEPT ![d] = [r EXCEPT !.out = Quiet]]
       /\ wire' = [wire EXCEPT ![d] = inbox,
                               ![Peer(d)] = [b \in Box |-> @[b] \o r.out[b]]]

Do(d, s) == Becomes(d, s, wire[d])

Disturb(kind) ==
    /\ kind \in Disturbance \ disturbed
    /\ Cardinality(disturbed) < MaxDisturbance
    /\ disturbed' = disturbed \cup {kind}

Init ==
    /\ job \in Scenario
    /\ asked = 0
    /\ side = [d \in Role |->
                [NewSide(d) EXCEPT !.dest =
                    [f \in {g \in Files : Receiver(g[1]) = d /\ job[g[1]].exists} |->
                        {<<<<0, 0>>>>}]]]
    /\ wire = [d \in Role |-> Quiet]
    /\ channels = "none"
    /\ version = [f \in Files |-> 1]
    /\ disturbed = {}
    /\ session = 1

InSession(d) == side[d].session \in {"Connected", "Reconnecting"}

\* A message of a channel that d does not know to be open yet: the streams of
\* a connection are ordered one by one, not with each other.
Early(d, b) == b # "life" /\ channels = "created" /\ ~side[d].open

\* Nothing is delivered once the side's session is over.
Receive(d, b) ==
    /\ InSession(d) /\ wire[d][b] # <<>>
    /\ IF Early(d, b) THEN Disturb("early") ELSE UNCHANGED disturbed
    /\ LET m == Head(wire[d][b])
           s == CASE b = "control" -> HandleControl(side[d], m)
                  [] b = "data"    -> HandleData(side[d], m)
                  [] b = "life"    -> HandleLifecycle(side[d], m)
       IN /\ Becomes(d, s, [wire[d] EXCEPT ![b] = Tail(@)])
          /\ channels' = IF b = "life" /\ m.kind = "OpenAccepted" /\ channels = "none"
                            /\ s.state = "WaitingChannels"
                         THEN "created" ELSE channels
    /\ UNCHANGED <<job, asked, version, session>>

Finish(d, w, ok) ==
    Do(d, Completed([side[d] EXCEPT !.work = Tail(@)], w, ok))

Work(d) ==
    /\ side[d].work # <<>>
    /\ LET w == Head(side[d].work)
       IN /\ w.op = "finalize" => ~CanCommit(side[d], w)
          /\ Finish(d, w, TRUE)
    /\ UNCHANGED <<job, asked, channels, version, disturbed, session>>

Commit(d) ==
    /\ side[d].work # <<>>
    /\ LET w == Head(side[d].work)
       IN /\ w.op = "finalize" /\ CanCommit(side[d], w)
          /\ Do(d, [side[d] EXCEPT !.writes[HandleOf(w.id, w.h)].phase = "committing"])
    /\ UNCHANGED <<job, asked, channels, version, disturbed, session>>

DiskFault(d) ==
    /\ side[d].work # <<>>
    /\ Head(side[d].work).op \notin {"close", "abort", "cleanup"}
    /\ Finish(d, Head(side[d].work), FALSE)
    /\ Disturb("disk")
    /\ UNCHANGED <<job, asked, channels, version, session>>

QueueMore(d, j) ==
    /\ j \in side[d].timers
    /\ Do(d, QueuePlanFiles(side[d], j))
    /\ UNCHANGED <<job, asked, channels, version, disturbed, session>>

LowWatermark(s) ==
    LET r == FlushControlQueue([s EXCEPT !.congested = FALSE,
                                !.data = IF @ = "full" THEN "takes" ELSE @])
        plans == {j \in DOMAIN r.plans : r.plans[j].sender /\ ~r.plans[j].ended}
    IN IF r.ctl # <<>> THEN r
       ELSE FoldSet(LAMBDA j, q : Calls(q, <<Call("manifest", Root(j))>>),
                    Calls(r, <<Call("pumpActive", None)>>), plans)

\* isFileTransferBackpressured: the control channel or the data channel is.
Congest(d) ==
    /\ side[d].open /\ ~side[d].congested
    /\ \E data \in {"takes", "full"} :
        Do(d, [side[d] EXCEPT !.congested = TRUE, !.data = data])
    /\ Disturb("congest")
    /\ UNCHANGED <<job, asked, channels, version, session>>

Drain(d) ==
    /\ side[d].congested
    /\ Do(d, LowWatermark(side[d]))
    /\ UNCHANGED <<job, asked, channels, version, disturbed, session>>

-----------------------------------------------------------------------------
(* What the users do.                                                      *)

Controller == side["controller"]

Open ==
    /\ Do("controller", OpenFeature(Controller))
    /\ IF Controller.gen = session THEN Disturb("reopen") ELSE UNCHANGED disturbed
    /\ UNCHANGED <<job, asked, channels, version, session>>

\* startCopy.  The jobs are asked for in the order of the scenario.
Copy ==
    /\ Controller.state = "Ready" /\ asked < Len(job)
    /\ LET j == asked + 1
           file == job[j].kind = "file"
           task == [NewTask EXCEPT !.sender = job[j].upload, !.plan = ~file,
                        !.file = IF file /\ job[j].upload THEN 1 ELSE 0,
                        !.total = IF file THEN SizeOf(Root(j)) ELSE 0]
       IN Do("controller", StartNext([Controller EXCEPT
                !.default = "none", !.tasks = Put(@, Root(j), task),
                !.queue = Append(@, Root(j))]))
    /\ asked' = asked + 1
    /\ UNCHANGED <<job, channels, version, disturbed, session>>

\* pauseTask and resumeTask, of a job's own task or of the child in its place.
Move(s, id, from, to, kind) ==
    LET r == [s EXCEPT !.tasks[id].st = to, !.tasks[id].recon = FALSE]
        m == [Msg(kind, id) EXCEPT !.file = s.tasks[id].file]
        sent == SendControl(r, m)
    IN IF ~In(s, id, {from}) THEN s
       ELSE IF to = "transferring" THEN Pumps(sent, id) ELSE sent

MoveRoot(s, id, from, to, kind) ==
    LET r == [s EXCEPT !.tasks[id].st = to, !.tasks[id].recon = FALSE]
        children == {c \in ChildrenOf(s, id[1]) : s.tasks[c].st = from}
    IN IF ~s.tasks[id].plan THEN Move(s, id, from, to, kind)
       ELSE IF children = {} THEN r
       ELSE Move(r, CHOOSE c \in children : TRUE, from, to, kind)

Pause(id) ==
    /\ In(Controller, id, {"transferring"})
    /\ Do("controller", MoveRoot(Controller, id, "transferring", "paused", "Pause"))
    /\ Disturb("pause")
    /\ UNCHANGED <<job, asked, channels, version, session>>

Resume(id) ==
    /\ In(Controller, id, {"paused"}) /\ Controller.session # "Reconnecting"
    /\ Do("controller", MoveRoot(Controller, id, "paused", "transferring", "Resume"))
    /\ UNCHANGED <<job, asked, channels, version, disturbed, session>>

Cancel(id) ==
    /\ Has(Controller, id)
    /\ Do("controller", CancelTask(Controller, id, TRUE))
    /\ Disturb("cancel")
    /\ UNCHANGED <<job, asked, channels, version, session>>

\* retryTask
Retried(t) ==
    [t EXCEPT !.st = "queued", !.file = t.req + 1, !.req = @ + 1, !.write = 0,
        !.conf = 0, !.expected = <<>>, !.src = 0, !.sent = 0, !.acked = 0,
        !.queued = 0, !.written = 0, !.lastAck = 0, !.reading = FALSE,
        !.got = FALSE, !.done = FALSE, !.fin = FALSE, !.recon = FALSE]

Retry(id) ==
    /\ In(Controller, id, {"failed", "cancelled"})
    /\ Do("controller", StartNext([Controller EXCEPT
            !.tasks[id] = Retried(@), !.queue = Append(@, id)]))
    /\ Disturb("retry")
    /\ UNCHANGED <<job, asked, channels, version, session>>

\* resolveConflict
ResolveConflict(id, resolution, all) ==
    /\ In(Controller, id, {"conflict"})
    /\ LET t == Controller.tasks[id]
           s == IF all THEN ApplyToRemaining(Controller, id, resolution) ELSE Controller
           m == [Msg("Resolution", id) EXCEPT !.file = t.file, !.n = t.conf,
                                              !.what = resolution, !.all = all]
       IN Do("controller",
             IF ~t.sender THEN Resolve(s, id, resolution)
             ELSE IF Sends(s, m)
             THEN [SendControl(s, m) EXCEPT !.tasks[id].st = "transferring",
                                            !.tasks[id].conf = 0]
             ELSE s)
    /\ UNCHANGED <<job, asked, channels, version, disturbed, session>>

\* clearCompletedTasks
Clear(d) ==
    /\ \E id \in DOMAIN side[d].tasks : side[d].tasks[id].st \in Ended
    /\ Do(d, [side[d] EXCEPT !.tasks =
                Drop(@, {id \in DOMAIN @ : @[id].st \in Ended})])
    /\ Disturb("clear")
    /\ UNCHANGED <<job, asked, channels, version, session>>

\* stopByUser
StopByUser(d) ==
    /\ Do(d, Stop(side[d], TRUE, d = "controlled"))
    /\ Disturb("stop")
    /\ UNCHANGED <<job, asked, channels, version, session>>

Shutdown(d) ==
    /\ side[d].shutdown = "no"
    /\ Do(d, Stop([side[d] EXCEPT !.shutdown = "requested"], FALSE, FALSE))
    /\ Disturb("shutdown")
    /\ UNCHANGED <<job, asked, channels, version, session>>

-----------------------------------------------------------------------------
(* What the session, the network and the disk do.                          *)

OpenTimeout(d) ==
    /\ side[d].state \in {"Opening", "WaitingChannels"}
    /\ Do(d, FailFeature(side[d]))
    /\ Disturb("timeout")
    /\ UNCHANGED <<job, asked, channels, version, session>>

ChannelsOpen(d) ==
    /\ channels = "created" /\ ~side[d].open /\ InSession(d)
    /\ Do(d, HandleChannels(side[d], TRUE))
    /\ UNCHANGED <<job, asked, channels, version, disturbed, session>>

ChannelsLost(d) ==
    /\ side[d].open
    /\ IF channels = "lost" THEN UNCHANGED disturbed ELSE Disturb("channel")
    /\ channels' = "lost"
    /\ Do(d, HandleChannels(side[d], FALSE))
    /\ UNCHANGED <<job, asked, version, session>>

\* The data channel closes before either side is told.
DataCloses(d) ==
    /\ side[d].open /\ side[d].data = "takes"
    /\ channels' = "lost"
    /\ Do(d, [side[d] EXCEPT !.data = "closed"])
    /\ Disturb("channel")
    /\ UNCHANGED <<job, asked, version, session>>

\* Each side finds out for itself that the connection is interrupted, and that
\* it is back.
Interrupt(d) ==
    /\ side[d].session = "Connected" /\ ~side[d].cut
    /\ IF "reconnect" \in disturbed THEN UNCHANGED disturbed ELSE Disturb("reconnect")
    /\ Do(d, Interrupted(side[d]))
    /\ UNCHANGED <<job, asked, channels, version, session>>

Restore(d) ==
    /\ side[d].session = "Reconnecting"
    /\ Do(d, Restored(side[d]))
    /\ UNCHANGED <<job, asked, channels, version, disturbed, session>>

\* The session stops: its state, its capabilities and its channels go, in
\* this order, within one handler of the coordinator.
EndSession(d) ==
    /\ InSession(d)
    /\ IF "end" \in disturbed THEN UNCHANGED disturbed ELSE Disturb("end")
    /\ Becomes(d, SessionOver(Calls(side[d], <<Call("end", None)>>), "Stopping"), Quiet)
    /\ UNCHANGED <<job, asked, channels, version, session>>

SessionIdle(d) ==
    /\ side[d].session = "Stopping"
    /\ Do(d, SessionOver(side[d], "Over"))
    /\ UNCHANGED <<job, asked, channels, version, disturbed, session>>

NewSession ==
    /\ \A d \in Role : side[d].session = "Over"
    /\ session < MaxSession
    /\ session' = session + 1
    /\ side' = [d \in Role |-> [side[d] EXCEPT !.session = "Connected", !.able = TRUE,
                                               !.cut = FALSE, !.congested = FALSE,
                                               !.data = "takes"]]
    /\ wire' = [d \in Role |-> Quiet]
    /\ channels' = "none"
    /\ UNCHANGED <<job, asked, version, disturbed>>

\* A source can be written to while nobody holds it open (FILE_SHARE_READ).
SourceChanges(f) ==
    /\ version[f] = 1
    /\ \A h \in side[Sender(f[1])].sources : FileOf(h[1]) # f
    /\ version' = [version EXCEPT ![f] = 2]
    /\ Disturb("change")
    /\ UNCHANGED <<job, asked, side, wire, channels, session>>

\* retainOwnListing, when the listings of the copy are the oldest of 32.
ListingExpires(d) ==
    /\ side[d].listing
    /\ Do(d, [side[d] EXCEPT !.listing = FALSE])
    /\ Disturb("expire")
    /\ UNCHANGED <<job, asked, channels, version, session>>

Scheduled ==
    \/ \E d \in Role, b \in Box : Receive(d, b)
    \/ \E d \in Role : Work(d) \/ Commit(d) \/ Drain(d) \/ ChannelsOpen(d)
    \/ \E d \in Role, j \in DOMAIN job : QueueMore(d, j)

User ==
    \/ Open \/ Copy
    \/ \E id \in Roots(Controller) : Pause(id) \/ Resume(id) \/ Cancel(id) \/ Retry(id)
    \/ \E id \in DOMAIN Controller.tasks, r \in {"skip", "overwrite", "keepboth"},
          all \in BOOLEAN : ResolveConflict(id, r, all)
    \/ \E d \in Role : Clear(d) \/ StopByUser(d) \/ Shutdown(d)

Environment ==
    \/ \E d \in Role : \/ DiskFault(d) \/ Congest(d) \/ OpenTimeout(d) \/ ChannelsLost(d)
                       \/ DataCloses(d) \/ Interrupt(d) \/ Restore(d) \/ EndSession(d) \/ SessionIdle(d)
                       \/ ListingExpires(d)
    \/ \E f \in Files : SourceChanges(f)
    \/ NewSession

Next == Scheduled \/ User \/ Environment

\* The event loops and the workers run, a drained channel reports it and the
\* created channels open.  Users and the environment owe nothing.
Busy ==
    \E d \in Role :
        \/ InSession(d) /\ \E b \in Box : wire[d][b] # <<>> /\ ~Early(d, b)
        \/ side[d].work # <<>> \/ side[d].congested \/ side[d].timers # {}
        \/ channels = "created" /\ ~side[d].open /\ InSession(d)

Fairness == []<>~Busy \/ []<><<Scheduled>>_vars

Spec == Init /\ [][Next]_vars /\ Fairness

-----------------------------------------------------------------------------
(* Properties.                                                             *)

TaskIds(d) == DOMAIN side[d].tasks

\* Every part of the state stays within its type.
TypeOK ==
    /\ asked \in 0 .. Len(job) /\ session \in 1 .. MaxSession
    /\ channels \in {"none", "created", "lost"}
    /\ \A f \in Files : version[f] \in {1, 2}
    /\ disturbed \subseteq Disturbance
    /\ \A d \in Role :
        /\ side[d].role = d /\ side[d].out = Quiet
        /\ side[d].state \in {"Closed", "Opening", "WaitingChannels", "Ready",
                               "Reconnecting", "Closing", "Failed"}
        /\ \A id \in TaskIds(d) : side[d].tasks[id].st \in Live \cup Ended
        /\ side[d].data \in {"takes", "full", "closed"}
        /\ Len(side[d].ctl) <= ControlLimit
        /\ \A f \in DOMAIN side[d].dest : f \in Files /\ Receiver(f[1]) = d

Listed(f) == [i \in 1 .. job[f[1]].sizes[IF f[2] = 0 THEN 1 ELSE f[2]] |-> <<1, i>>]

\* A file appears under its name only whole and as it was when it was listed,
\* whatever was retried, interrupted or changed meanwhile; a copy that either
\* side calls completed is there; and without a disturbance no copy fails.
CopiesAreFaithful ==
    /\ \A d \in Role : \A f \in DOMAIN side[d].dest :
        side[d].dest[f] \subseteq {<<<<0, 0>>>>, Listed(f)}
    /\ \A d \in Role : \A id \in TaskIds(d) \cap Files :
        side[d].tasks[id].st = "completed" =>
            LET there == side[Receiver(id[1])]
            IN id \in DOMAIN there.dest /\ Listed(id) \in there.dest[id]
    /\ disturbed = {} => \A d \in Role : \A id \in TaskIds(d) : side[d].tasks[id].st # "failed"

PendingOn(s, h, ops) ==
    \E i \in DOMAIN s.work : s.work[i].op \in ops /\ <<s.work[i].id, s.work[i].h>> = h

\* A file handle the worker holds open is its task's or about to be closed, so
\* that no failure, cancellation, retry or new session leaves one behind; when
\* the worker has stopped it holds none.
HandlesAreOwned ==
    \A d \in Role : LET s == side[d] IN
        IF s.shutdown = "stopping" THEN s.sources = {} /\ s.writes = <<>>
        ELSE /\ \A h \in s.sources : \/ Has(s, h[1]) /\ s.tasks[h[1]].src = h[2]
                                     \/ PendingOn(s, h, {"close"})
             /\ \A h \in DOMAIN s.writes : \/ Has(s, h[1]) /\ s.tasks[h[1]].write = h[2]
                                           \/ PendingOn(s, h, {"abort", "finalize"})

\* A copy its receiver cancelled is not published any more: the cancellation and
\* the commit decide by one exchange of the phase (tryRequestWriteCancellation).
\* A feature that fails with its channels, as it does when the session ends,
\* does not wait for a commit under way and is left out.
CancelledStaysUnpublished ==
    [][\A d \in Role : \A f \in DOMAIN side'[d].dest :
        In(side[d], f, {"cancelled"}) /\ disturbed \cap {"channel", "timeout", "end"} = {} =>
            f \in DOMAIN side[d].dest /\ side'[d].dest[f] = side[d].dest[f]]_vars

\* A copy ends, fails with the feature, or waits for the user.  What leaves one
\* under way for ever is listed in Harmful.
Harmful == {"early", "pause", "cancel", "shutdown", "reconnect", "change", "expire",
            "congest", "disk"}
Waits(s) == s.state # "Ready" \/ \E id \in DOMAIN s.tasks : s.tasks[id].st = "conflict"
UnderWay(j) == In(Controller, Root(j), {"queued", "scanning", "transferring"})
CopySettles ==
    \A j \in 1 .. 2 : (asked >= j /\ disturbed \cap Harmful = {}) ~>
        disturbed \cap Harmful # {} \/ ~UnderWay(j) \/ \E d \in Role : Waits(side[d])

\* "When the connection is interrupted, nothing is read or sent; in the same
\* session the copy goes on from the last acknowledged offset": an interruption
\* alone fails no copy.
InterruptionFailsNothing ==
    disturbed \subseteq {"reconnect"} =>
        \A d \in Role : \A id \in TaskIds(d) : side[d].tasks[id].st # "failed"

=============================================================================
