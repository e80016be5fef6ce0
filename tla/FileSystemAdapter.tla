-------------------------- MODULE FileSystemAdapter --------------------------
(***************************************************************************)
(* KWindowsFileSystemAdapter: what the worker of a file transfer does to a *)
(* directory tree that other programs change at the same time.             *)
(*                                                                         *)
(* A path is a sequence of names from the root of the drive, and a name is *)
(* <<n, i>>, the i-th "keep both" variant of n (0 for n itself).  A node of *)
(* the tree has an identity, its file index.  A call of the adapter is a   *)
(* sequence of system calls; other programs act between any two of them.   *)
(***************************************************************************)
EXTENDS Integers, Sequences, SequencesExt, FiniteSets, FiniteSetsExt

CONSTANTS
    Trees,          \* the trees to start from: functions from paths to kinds
    Plans,          \* the sequences of relative directories to prepare
    FileName,       \* names a file may be written under
    Size,           \* the size of a written file, in chunks
    MaxCopies,      \* kMaximumKeepBothAttempts
    MaxEntries,     \* the limit of an expansion
    MaxCall,        \* bound: calls
    MaxForeign,     \* bound: steps of other programs
    MaxNode         \* bound: identities

ASSUME AdapterAssumption ==
    /\ {Size, MaxCopies, MaxEntries, MaxCall, MaxForeign, MaxNode} \subseteq Nat
    /\ Size > 0 /\ MaxCopies > 0

VARIABLES
    disk,       \* path -> node
    lastNode,   \* the last identity given
    entries,    \* m_entryByToken, each token by what it refers to
    sources,    \* m_sources: open snapshots
    writes,     \* m_writes, by the path of the temporary file
    created,    \* m_createdDirectoryByToken
    handed,     \* the cleanup tokens the caller was given
    call,       \* the call under way on the worker thread
    calls,      \* how many calls were made
    foreign     \* how many steps other programs made

vars == <<disk, lastNode, entries, sources, writes, created, handed, call, calls, foreign>>

-----------------------------------------------------------------------------
(* The tree.                                                               *)

\* "mine": made by the adapter; "touched": another program was inside.
Node(kind, id, data, mine) ==
    [kind |-> kind, id |-> id, data |-> data, mine |-> mine, touched |-> FALSE]
NoNode == Node("none", 0, <<>>, FALSE)

At(p) == IF p \in DOMAIN disk THEN disk[p] ELSE NoNode
Children(p) == {q \in DOMAIN disk : q # <<>> /\ Front(q) = p}
IsEmpty(p) == Children(p) = {}
With(d, p, n) == [q \in DOMAIN d \cup {p} |-> IF q = p THEN n ELSE d[q]]
Without(d, p) == [q \in DOMAIN d \ {p} |-> d[q]]

Temporary == "part"
IsTransferTemporaryName(p) == p # <<>> /\ Last(p)[1] = Temporary
Whole == [i \in 1 .. Size |-> i]

-----------------------------------------------------------------------------
(* What the adapter remembers.                                             *)

\* CanonicalizeExistingSafePath: the path exists and no component of it is a
\* reparse point.
Canonicalizes(p) ==
    \A i \in 0 .. Len(p) : At(SubSeq(p, 1, i)).kind \in {"dir", "file"}

Entry(p) == [path |-> p, kind |-> At(p).kind, id |-> At(p).id]

\* rememberEntry: one token per path, renewed when what is there has changed.
Remember(paths) ==
    {e \in entries : e.path \notin paths} \cup {Entry(p) : p \in paths}

\* resolveEntry
Resolves(e) == e \in entries /\ Canonicalizes(e.path) /\ Entry(e.path) = e
ResolvesDirectory(e) == Resolves(e) /\ e.kind = "dir"

NoEntry == [path |-> <<>>, kind |-> "none", id |-> 0]
Idle == [op |-> "none", step |-> "none", entry |-> NoEntry, plan |-> <<>>, rest |-> <<>>,
         at |-> NoEntry, new |-> FALSE, made |-> <<>>, fails |-> FALSE, pending |-> <<>>,
         found |-> 0, path |-> <<>>, target |-> <<>>, attempt |-> 0]

Ends == call' = Idle

CanCall == call.op = "none" /\ calls < MaxCall
Calls(c) == call' = c /\ calls' = calls + 1 /\ UNCHANGED <<handed, foreign>>
Running(op, step) == call.op = op /\ call.step = step /\ UNCHANGED <<calls, foreign>>
Working(op, step) == Running(op, step) /\ UNCHANGED handed

-----------------------------------------------------------------------------
(* Looking.                                                                *)

\* createLocalReference, and a drive of listDrives
CreateLocalReference(p) ==
    /\ CanCall /\ calls' = calls + 1
    /\ Canonicalizes(p) /\ ~(At(p).kind = "file" /\ IsTransferTemporaryName(p))
    /\ entries' = Remember({p})
    /\ UNCHANGED <<disk, lastNode, sources, writes, created, handed, call, foreign>>

\* The enumeration leaves out temporary files and what is a reparse point.
Listed(p) ==
    {q \in Children(p) : At(q).kind # "link" /\ ~IsTransferTemporaryName(q)}

ListDirectory(e) ==
    /\ CanCall /\ calls' = calls + 1
    /\ ResolvesDirectory(e)
    /\ entries' = Remember(Listed(e.path))
    /\ UNCHANGED <<disk, lastNode, sources, writes, created, handed, call, foreign>>

ExpandDirectoryTree(e) ==
    /\ CanCall /\ ResolvesDirectory(e)
    /\ Calls([Idle EXCEPT !.op = "expand", !.step = "enumerate", !.pending = <<e>>])
    /\ UNCHANGED <<disk, lastNode, entries, sources, writes, created>>

\* One pending directory.  A reparse point, or one entry too many, fails it all.
ExpandOne ==
    /\ Working("expand", "enumerate") /\ call.pending # <<>>
    /\ LET e == Last(call.pending)
           inside == Children(e.path)
           listed == Listed(e.path)
           next == SetToSeq({Entry(q) : q \in {r \in listed : At(r).kind = "dir"}})
       IN IF /\ Canonicalizes(e.path) /\ Entry(e.path) = e
             /\ \A q \in inside : At(q).kind # "link"
             /\ call.found + Cardinality(listed) <= MaxEntries
          THEN /\ entries' = Remember({q \in listed : At(q).kind = "file"})
               /\ call' = [call EXCEPT !.pending = Front(@) \o next,
                                       !.found = @ + Cardinality(listed)]
          ELSE Ends /\ UNCHANGED entries
    /\ UNCHANGED <<disk, lastNode, sources, writes, created>>

Expanded ==
    /\ Working("expand", "enumerate") /\ call.pending = <<>>
    /\ Ends
    /\ UNCHANGED <<disk, lastNode, entries, sources, writes, created>>

-----------------------------------------------------------------------------
(* Reading.                                                                *)

\* openSourceSnapshot: the handle shares reading only, so that nobody writes
\* to the file, removes it or renames it while it is open.
OpenSourceSnapshot(e) ==
    /\ CanCall /\ calls' = calls + 1
    /\ Resolves(e) /\ e.kind = "file" /\ ~IsTransferTemporaryName(e.path)
    /\ sources' = sources \cup {[entry |-> e, data |-> At(e.path).data, read |-> <<>>]}
    /\ UNCHANGED <<disk, lastNode, entries, writes, created, handed, call, foreign>>

\* readSourceChunk: identity, size and time are compared before and after.
ReadSourceChunk(s) ==
    /\ call.op = "none" /\ s \in sources /\ Len(s.read) < Len(s.data)
    /\ At(s.entry.path).id = s.entry.id
    /\ sources' = (sources \ {s})
            \cup {[s EXCEPT !.read = Append(@, At(s.entry.path).data[Len(@) + 1])]}
    /\ UNCHANGED <<disk, lastNode, entries, writes, created, handed, call, calls, foreign>>

CloseSourceSnapshot(s) ==
    /\ call.op = "none" /\ s \in sources
    /\ sources' = sources \ {s}
    /\ UNCHANGED <<disk, lastNode, entries, writes, created, handed, call, calls, foreign>>

IsOpen(p) == \E s \in sources : s.entry.path = p

-----------------------------------------------------------------------------
(* Preparing the directories of a plan.                                    *)

\* The components of the plan's paths, shallow paths first.
PrepareRelativeDirectories(e, plan) ==
    /\ CanCall /\ ResolvesDirectory(e)
    /\ Calls([Idle EXCEPT !.op = "prepare", !.step = "parent", !.entry = e, !.at = e,
                          !.plan = Tail(plan), !.rest = Head(plan)])
    /\ UNCHANGED <<disk, lastNode, entries, sources, writes, created>>

RollBack == call' = [call EXCEPT !.op = "cleanup", !.step = "look", !.fails = TRUE]
Child == Append(call.at.path, Head(call.rest))

\* The next component: is its parent still the directory it was?
RevalidateParent ==
    /\ Working("prepare", "parent") /\ call.rest # <<>>
    /\ IF Canonicalizes(call.at.path) /\ Entry(call.at.path) = call.at
       THEN call' = [call EXCEPT !.step = "look", !.new = FALSE] ELSE RollBack
    /\ UNCHANGED <<disk, lastNode, entries, sources, writes, created>>

NextDirectory ==
    /\ Running("prepare", "parent") /\ call.rest = <<>>
    /\ IF call.plan = <<>> THEN Ends /\ handed' = handed \cup ToSet(call.made)
       ELSE UNCHANGED handed /\ call' = [call EXCEPT !.at = call.entry, !.plan = Tail(@), !.rest = Head(call.plan)]
    /\ UNCHANGED <<disk, lastNode, entries, sources, writes, created>>

LookForChild ==
    /\ Working("prepare", "look")
    /\ call' = [call EXCEPT !.step = IF At(Child).kind = "none" THEN "make" ELSE "validate"]
    /\ UNCHANGED <<disk, lastNode, entries, sources, writes, created>>

\* CreateDirectoryW: another program may have been faster, or the parent gone.
MakeChild ==
    /\ Working("prepare", "make") /\ lastNode < MaxNode
    /\ IF At(call.at.path).kind # "dir" THEN RollBack /\ UNCHANGED <<disk, lastNode>>
       ELSE IF At(Child).kind # "none"
       THEN call' = [call EXCEPT !.step = "validate"] /\ UNCHANGED <<disk, lastNode>>
       ELSE /\ disk' = With(disk, Child, Node("dir", lastNode + 1, <<>>, TRUE))
            /\ lastNode' = lastNode + 1
            /\ call' = [call EXCEPT !.step = "validate", !.new = TRUE]
    /\ UNCHANGED <<entries, sources, writes, created>>

\* A directory it made and cannot use is removed by its path, if it is empty.
ValidateChild ==
    /\ Working("prepare", "validate")
    /\ IF Canonicalizes(Child) /\ At(Child).kind = "dir"
       THEN /\ entries' = Remember({Child})
            /\ created' = IF call.new THEN created \cup {Entry(Child)} ELSE created
            /\ call' = [call EXCEPT !.step = "parent", !.at = Entry(Child), !.rest = Tail(@),
                            !.made = IF call.new THEN Append(@, Entry(Child)) ELSE @]
            /\ UNCHANGED disk
       ELSE /\ disk' = IF call.new /\ At(Child).kind \in {"dir", "link"} /\ IsEmpty(Child)
                       THEN Without(disk, Child) ELSE disk
            /\ RollBack
            /\ UNCHANGED <<entries, created>>
    /\ UNCHANGED <<lastNode, sources, writes>>

\* The caller has its writes aborted before, and forgets the tokens.
CleanupCreatedDirectories(made) ==
    /\ CanCall /\ calls' = calls + 1 /\ made # <<>> /\ DOMAIN writes = {}
    /\ call' = [Idle EXCEPT !.op = "cleanup", !.step = "look", !.made = made]
    /\ handed' = {} /\ UNCHANGED foreign
    /\ UNCHANGED <<disk, lastNode, entries, sources, writes, created>>

\* forgetCreatedDirectory
Forget(e) == created' = created \ {e} /\ entries' = entries \ {e}

\* Fault: the directories are taken in the order they were made.
InOrder(made) == Reverse(made)

\* The last directory made is the first to go.
CleanupOrder(made) == made
NextToClean == Last(CleanupOrder(call.made))
StillToClean == CleanupOrder(Front(CleanupOrder(call.made)))

CleanupLook ==
    /\ Working("cleanup", "look") /\ call.made # <<>>
    /\ LET e == NextToClean
       IN \/ /\ At(e.path).kind # "dir"
             /\ Forget(e) /\ call' = [call EXCEPT !.made = StillToClean]
          \/ /\ At(e.path).kind = "dir" /\ ~IsEmpty(e.path)
             /\ call' = [call EXCEPT !.made = StillToClean] /\ UNCHANGED <<created, entries>>
          \/ /\ At(e.path).kind = "dir" /\ IsEmpty(e.path)
             /\ call' = [call EXCEPT !.step = "remove"] /\ UNCHANGED <<created, entries>>
    /\ UNCHANGED <<disk, lastNode, sources, writes>>

\* The directory is opened, recognized by its identity, and marked deleted,
\* which fails when something was put into it in the meantime.
CleanupRemove ==
    /\ Working("cleanup", "remove")
    /\ LET e == NextToClean
       IN IF At(e.path).kind = "none" THEN UNCHANGED <<disk, created, entries>>
          ELSE IF At(e.path).id # e.id THEN Forget(e) /\ UNCHANGED disk
          ELSE IF ~IsEmpty(e.path) THEN UNCHANGED <<disk, created, entries>>
          ELSE Forget(e) /\ disk' = Without(disk, e.path)
    /\ call' = [call EXCEPT !.step = "look", !.made = StillToClean]
    /\ UNCHANGED <<lastNode, sources, writes>>

CleanedUp ==
    /\ Working("cleanup", "look") /\ call.made = <<>>
    /\ Ends
    /\ UNCHANGED <<disk, lastNode, entries, sources, writes, created>>

-----------------------------------------------------------------------------
(* Writing.                                                                *)

Policy == {"reject", "overwrite", "keepBoth"}
Variant(p, i) == Append(Front(p), <<Last(p)[1], i>>)

\* AvailableFileName; <<>> when there is none.
AvailableFileName(p, policy) ==
    LET free == {i \in 1 .. MaxCopies : At(Variant(p, i)).kind = "none"}
    IN IF policy = "overwrite"
       THEN IF At(p).kind \in {"dir", "link"} THEN <<>> ELSE p
       ELSE IF At(p).kind = "none" THEN p
       ELSE IF policy = "keepBoth" /\ free # {} THEN Variant(p, Min(free)) ELSE <<>>

\* beginWrite: the temporary file is new and lies in the directory it is for.
BeginWrite(e, name, policy) ==
    /\ CanCall /\ calls' = calls + 1 /\ lastNode < MaxNode
    /\ ResolvesDirectory(e)
    /\ LET target == Append(e.path, <<name, 0>>)
           part == Append(e.path, <<Temporary, lastNode + 1>>)
       IN /\ AvailableFileName(target, policy) # <<>>
          /\ disk' = With(disk, part, Node("file", lastNode + 1, <<>>, TRUE))
          /\ writes' = With(writes, part, [entry |-> e, target |-> target, policy |-> policy,
                                           data |-> <<>>, phase |-> "writable"])
    /\ lastNode' = lastNode + 1
    /\ UNCHANGED <<entries, sources, created, handed, call, foreign>>

\* appendWriteChunk: the right chunk, or one that was damaged on its way.
AppendWriteChunk(part, chunk) ==
    /\ call.op = "none" /\ part \in DOMAIN writes
    /\ writes[part].phase = "writable" /\ Len(writes[part].data) < Size
    /\ writes' = [writes EXCEPT ![part].data = Append(@, chunk)]
    /\ disk' = IF part \in DOMAIN disk THEN [disk EXCEPT ![part].data = Append(@, chunk)] ELSE disk
    /\ UNCHANGED <<lastNode, entries, sources, created, handed, call, calls, foreign>>

\* tryRequestWriteCancellation, from the thread of the session.
TryRequestWriteCancellation(part) ==
    /\ part \in DOMAIN writes /\ writes[part].phase = "writable"
    /\ writes' = [writes EXCEPT ![part].phase = "cancelled"]
    /\ UNCHANGED <<disk, lastNode, entries, sources, created, handed, call, calls, foreign>>

\* CleanupWriteState
AbortWrite(part) ==
    /\ call.op = "none" /\ part \in DOMAIN writes
    /\ writes' = Without(writes, part)
    /\ disk' = Without(disk, part)
    /\ UNCHANGED <<lastNode, entries, sources, created, handed, call, calls, foreign>>

FinalizeWrite(part) ==
    /\ CanCall /\ part \in DOMAIN writes
    /\ Calls([Idle EXCEPT !.op = "finalize", !.step = "verify", !.path = part])
    /\ UNCHANGED <<disk, lastNode, entries, sources, writes, created>>

\* The scope guard of finalizeWrite: the state goes, and takes its file along.
GiveUp ==
    /\ writes' = Without(writes, call.path)
    /\ disk' = Without(disk, call.path)
    /\ Ends

\* Fault: the digest is not compared.
VerifiesSize(w) == w.phase = "writable" /\ Len(w.data) = Size

Verifies(w) == w.phase = "writable" /\ w.data = Whole

VerifyWrite ==
    /\ Working("finalize", "verify")
    /\ LET w == writes[call.path]
       IN IF Verifies(w) /\ ResolvesDirectory(w.entry)
          THEN call' = [call EXCEPT !.step = "claim"] /\ UNCHANGED <<disk, writes>>
          ELSE GiveUp
    /\ UNCHANGED <<lastNode, entries, sources, created>>

\* The exchange of the phase: from here on no cancellation is accepted.
ClaimWrite ==
    /\ Working("finalize", "claim")
    /\ IF writes[call.path].phase = "writable"
       THEN /\ writes' = [writes EXCEPT ![call.path].phase = "committing"]
            /\ call' = [call EXCEPT !.step = "name"]
            /\ UNCHANGED disk
       ELSE GiveUp
    /\ UNCHANGED <<lastNode, entries, sources, created>>

ChooseName ==
    /\ Working("finalize", "name")
    /\ LET w == writes[call.path]
           target == AvailableFileName(w.target, w.policy)
       IN IF target = <<>> \/ call.attempt = MaxCopies THEN GiveUp
          ELSE /\ call' = [call EXCEPT !.step = "publish", !.target = target,
                                !.new = At(target).kind = "none", !.attempt = @ + 1]
               /\ UNCHANGED <<disk, writes>>
    /\ UNCHANGED <<lastNode, entries, sources, created>>

Published(p) == With(Without(disk, call.path), p, disk[call.path])

\* Fault: MoveFileExW is allowed to replace what is at the final path.
MovesAnyway(p) == call.path \in DOMAIN disk /\ At(p).kind # "dir"

\* MoveFileExW replaces nothing.
Moves(p) == call.path \in DOMAIN disk /\ At(p).kind = "none" /\ At(Front(p)).kind = "dir"
\* ReplaceFileW replaces a file that is there and not in use.
Replaces(p) == call.path \in DOMAIN disk /\ At(p).kind = "file" /\ ~IsOpen(p)

PublishWrite ==
    /\ Working("finalize", "publish")
    /\ LET w == writes[call.path]
           p == call.target
           collides == call.new /\ At(p).kind # "none" /\ w.policy # "reject"
           gone == w.policy = "overwrite" /\ (call.path \notin DOMAIN disk \/ At(p).kind = "none")
       IN IF IF call.new THEN Moves(p) ELSE Replaces(p)
          THEN /\ disk' = Published(p)
               /\ writes' = Without(writes, call.path)
               /\ Ends
          ELSE IF collides \/ gone
          THEN call' = [call EXCEPT !.step = "name"] /\ UNCHANGED <<disk, writes>>
          ELSE GiveUp
    /\ UNCHANGED <<lastNode, entries, sources, created>>

-----------------------------------------------------------------------------
(* Other programs, which leave an open source alone: it is not shared.     *)

InUse(p) == \E s \in sources : IsPrefix(p, s.entry.path)
Touch(d, p) == [q \in DOMAIN d |-> IF IsPrefix(q, p) THEN [d[q] EXCEPT !.touched = TRUE] ELSE d[q]]

ForeignStep ==
    /\ foreign < MaxForeign /\ foreign' = foreign + 1
    /\ UNCHANGED <<entries, sources, writes, created, handed, call, calls>>

Place(p) == p # <<>> /\ At(Front(p)).kind = "dir"

ForeignCreate(p, kind) ==
    /\ ForeignStep
    /\ lastNode < MaxNode /\ Place(p) /\ At(p).kind = "none"
    /\ disk' = Touch(With(disk, p, Node(kind, lastNode + 1, <<>>, FALSE)), p)
    /\ lastNode' = lastNode + 1

\* It does not know of the temporary files, whose names nobody can guess; a
\* tree is removed from its leaves.
ForeignRemove(p) ==
    /\ ForeignStep
    /\ p \in DOMAIN disk /\ p # <<>> /\ IsEmpty(p) /\ ~InUse(p) /\ ~IsTransferTemporaryName(p)
    /\ disk' = Touch(Without(disk, p), Front(p))
    /\ UNCHANGED lastNode

-----------------------------------------------------------------------------
Init ==
    /\ \E t \in Trees :
        disk = [p \in DOMAIN t |-> Node(t[p], 0, <<1>>, FALSE)]
    /\ lastNode = 0
    /\ entries = {} /\ sources = {} /\ writes = <<>> /\ created = {} /\ handed = {}
    /\ call = Idle /\ calls = 0 /\ foreign = 0

ForeignPlaces ==
    {Append(p, <<n, i>>) : p \in {q \in DOMAIN disk : Len(q) < 2}, n \in FileName, i \in 0 .. 1}
    \cup {Append(call.at.path, x) : x \in ToSet(call.rest)}

Worker ==
    \/ ExpandOne \/ Expanded
    \/ RevalidateParent \/ NextDirectory \/ LookForChild \/ MakeChild \/ ValidateChild
    \/ CleanupLook \/ CleanupRemove \/ CleanedUp
    \/ VerifyWrite \/ ClaimWrite \/ ChooseName \/ PublishWrite

Caller ==
    \/ \E p \in DOMAIN disk : CreateLocalReference(p)
    \/ \E e \in entries : \/ ListDirectory(e) \/ ExpandDirectoryTree(e) \/ OpenSourceSnapshot(e)
                          \/ \E plan \in Plans : PrepareRelativeDirectories(e, plan)
                          \/ \E n \in FileName, c \in Policy : BeginWrite(e, n, c)
    \/ \E s \in sources : ReadSourceChunk(s) \/ CloseSourceSnapshot(s)
    \/ \E part \in DOMAIN writes :
        \/ \E chunk \in {0, Len(writes[part].data) + 1} : AppendWriteChunk(part, chunk)
        \/ TryRequestWriteCancellation(part) \/ AbortWrite(part) \/ FinalizeWrite(part)
    \/ CleanupCreatedDirectories(SetToSortSeq(handed, LAMBDA x, y : Len(x.path) < Len(y.path)))

OtherProgram ==
    \/ \E p \in ForeignPlaces, kind \in {"file", "dir", "link"} : ForeignCreate(p, kind)
    \/ \E p \in DOMAIN disk : ForeignRemove(p)

Next == Worker \/ Caller \/ OtherProgram

Spec == Init /\ [][Next]_vars

-----------------------------------------------------------------------------
(* What must hold.                                                         *)

TypeOK ==
    /\ \A p \in DOMAIN disk : disk[p].kind \in {"dir", "file", "link"} /\ disk[p].id \in 0 .. MaxNode
    /\ \A e \in entries : e.kind \in {"dir", "file", "link"}
    /\ \A e \in created \cup handed : e.kind = "dir" /\ e.id \in 1 .. lastNode
    /\ \A w \in DOMAIN writes : writes[w].phase \in {"writable", "cancelled", "committing"}
    /\ call.op \in {"none", "expand", "prepare", "cleanup", "finalize"}

\* A call of the adapter takes no file away that others can see, but for the
\* one an "overwrite" replaces by a complete new one.
OthersSurvive ==
    [][foreign' = foreign =>
        \A p \in DOMAIN disk :
            disk[p].kind = "file" /\ ~IsTransferTemporaryName(p) =>
                /\ p \in DOMAIN disk'
                /\ \/ disk'[p].id = disk[p].id
                   \/ /\ call.op = "finalize" /\ p = writes[call.path].target
                      /\ writes[call.path].policy = "overwrite"
                      /\ disk'[p].data = Whole]_vars

\* A file appears under its own name only when it is complete and verified.
PublishedWhole ==
    \A p \in DOMAIN disk :
        disk[p].kind = "file" /\ disk[p].mine /\ ~IsTransferTemporaryName(p) =>
            disk[p].data = Whole

\* A temporary file belongs to a write.  A directory the adapter made is gone
\* with the call that made it, or the caller can have it removed, unless
\* something was put into it.
NothingLeftBehind ==
    /\ \A p \in DOMAIN disk : IsTransferTemporaryName(p) => p \in DOMAIN writes
    /\ call.op = "none" =>
        \A p \in DOMAIN disk :
            disk[p].kind = "dir" /\ disk[p].mine /\ IsEmpty(p) /\ ~disk[p].touched =>
                Entry(p) \in handed

\* What is under the root is complete, or is known to somebody who removes it.
FilesAreSound == PublishedWhole /\ NothingLeftBehind
=============================================================================
