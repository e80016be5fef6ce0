------------------------------ MODULE FilePanes -------------------------------
(***************************************************************************)
(* The two panes of the file transfer window at the controller: how the    *)
(* local pane is filled by the controller's worker and the remote one by   *)
(* listings of the controlled endpoint, which come in pages over the       *)
(* control channel, while the user goes on walking through the folders.    *)
(*                                                                         *)
(* A request is its number; a listing is the number of the job that made   *)
(* it.  How many pages it takes is chosen when the folder is read: between *)
(* two readings of a folder its contents change.                           *)
(***************************************************************************)
EXTENDS Integers, Sequences, FiniteSets

CONSTANTS
    Folders,      \* folders below the roots
    Retained,     \* kMaximumRetainedListings
    MaxPages,     \* pages a listing takes at most
    MaxPagesRead, \* pages handleListingResponse takes at most
    MaxRequests   \* bound: requests of the user

ASSUME FilePanesAssumption ==
    /\ Folders # {} /\ "roots" \notin Folders
    /\ Retained \in Nat \ {0} /\ MaxPages \in Nat \ {0}
    /\ MaxPagesRead \in Nat \ {0} /\ MaxRequests \in Nat

VARIABLES
    panes,    \* KPaneContext of the "local" and the "remote" pane; "shown" is
              \*   the last request that was answered, "excused" that one failed
              \*   or the channel did, for the properties
    jobs,     \* the worker of each endpoint, by the pane it lists for
    listings, \* m_ownListingMap and m_ownListingOrder of each endpoint
    contents,     \* what each listing held when it was made
    tokens,   \* m_pageTokenMap of the controlled endpoint
    asked,    \* the control channel to the controlled endpoint
    answers,  \*   and back
    ready,    \* m_state = ReadyFileTransferState at the controller
    requests, \* how many requests there were
    newest,   \* history: the newest request of each pane
    asOf      \*   and what that was when its listing was last answered

historyVars == <<newest, asOf>>
paneVars == <<panes, jobs, listings, contents, tokens, asked, answers, ready, requests,
              historyVars>>

Sides == {"local", "remote"}
Nowhere == [listing |-> 0, folder |-> "roots", pages |-> <<>>]
NoPage == 0
All(k) == [i \in 1 .. k |-> i]

\* What a request is for: the roots, a folder by its entry in a listing, or a
\* folder by its path.
Roots == [by |-> "roots", folder |-> "roots", listing |-> 0]
ByEntry(l, f) == [by |-> "entry", folder |-> f, listing |-> l]
ByPath(f) == [by |-> "path", folder |-> f, listing |-> 0]

EmptyPane ==
    [current |-> Nowhere, history |-> <<>>, pending |-> 0, for |-> Roots,
     pages |-> <<>>, seen |-> {}, count |-> 0, listing |-> 0,
     shown |-> 0, excused |-> FALSE]

PaneInit ==
    /\ panes = [p \in Sides |-> EmptyPane]
    /\ jobs = [p \in Sides |-> <<>>]
    /\ listings = [p \in Sides |-> <<>>]
    /\ contents = <<>> /\ tokens = {} /\ asked = <<>> /\ answers = <<>>
    /\ ready = TRUE /\ requests = 0
    /\ newest = [p \in Sides |-> 0] /\ asOf = [p \in Sides |-> 0]

------------------------------------------------------------------------------
(* Requests.  The request of the remote pane is a message, that of the local *)
(* pane a job of the worker; both make the earlier one of the pane stale.    *)

Request(token, target, n) == [n |-> n, token |-> token, target |-> target]

\* Fault: the pages of the request before it stay where they were.
BegunKeepingPages(p, n, target) ==
    [p EXCEPT !.pending = n, !.for = target, !.count = 0, !.listing = 0, !.excused = FALSE]

Begun(p, n, target) ==
    [p EXCEPT !.pending = n, !.for = target, !.pages = <<>>, !.seen = {},
              !.count = 0, !.listing = 0, !.excused = FALSE]

\* listLocalRoots, listLocalDirectory and listLocalPath, or requestRemoteRoots and
\* requestRemoteDirectory; sendControl fails silently on a closed channel.
Ask(p, context, target) ==
    LET n == requests + 1
    IN  /\ requests < MaxRequests
        /\ requests' = n
        /\ newest' = [newest EXCEPT ![p] = n] /\ UNCHANGED asOf
        /\ panes' = [panes EXCEPT ![p] = Begun(context, n, target),
                                     ![p].excused = p = "remote" /\ ~ready]
        /\ IF p = "local"
               THEN jobs' = [jobs EXCEPT ![p] = Append(@, Request(NoPage, target, n))] /\ UNCHANGED asked
               ELSE asked' = (IF ready THEN Append(asked, Request(NoPage, target, n)) ELSE asked)
                    /\ UNCHANGED jobs
        /\ UNCHANGED <<listings, contents, tokens, answers, ready>>

Remembered(context) == [context EXCEPT !.history = Append(@, context.current)]

RequestPaneRoots(p) ==
    /\ ready
    /\ Ask(p, panes[p], Roots)

\* navigatePane: the entry must be one of the listing that is shown.
NavigatePane(p, f) ==
    /\ ready /\ panes[p].current.listing # 0
    /\ Ask(p, Remembered(panes[p]), ByEntry(panes[p].current.listing, f))

NavigatePaneByPath(p, f) ==
    /\ ready
    /\ Ask(p, IF panes[p].current.listing # 0 THEN Remembered(panes[p]) ELSE panes[p], ByPath(f))

\* navigatePaneUp asks nobody: it shows what was shown before.
NavigatePaneUp(p) ==
    /\ panes[p].history # <<>>
    /\ panes' = [panes EXCEPT ![p].current = panes[p].history[Len(panes[p].history)],
                              ![p].history = SubSeq(@, 1, Len(@) - 1)]
    /\ UNCHANGED <<jobs, listings, contents, tokens, asked, answers, ready, requests, historyVars>>

\* refreshPane does not ask whether the transfer is ready, unless for the roots.
RefreshPane(p) ==
    IF panes[p].current.folder = "roots"
        THEN RequestPaneRoots(p)
        ELSE Ask(p, panes[p], ByPath(panes[p].current.folder))

------------------------------------------------------------------------------
(* Listings                                                                  *)

\* Fault: one listing less is kept.
RetainOneLess(s, l) == LET t == Append(s, l) IN IF Len(t) >= Retained THEN Tail(t) ELSE t

\* retainOwnListing
RetainOwnListing(s, l) == LET t == Append(s, l) IN IF Len(t) > Retained THEN Tail(t) ELSE t

OwnListing(p, l) == \E i \in DOMAIN listings[p] : listings[p][i] = l

\* A page of a listing, with the token for the next one.
Page(kind, n, l, at, next) == [kind |-> kind, n |-> n, listing |-> l, at |-> at, next |-> next]
Refusal(n) == Page("Error", n, 0, 0, NoPage)

\* sendControl of the controlled endpoint.
Replied(m) == IF ready THEN Append(answers, m) ELSE answers

\* Fault: the next page leaves some entries out.
NextPageSkips(at) == at + 2

\* The page that follows page at.
NextPage(at) == at + 1

\* sendListingPage: the rest of the listing is asked for with a token.
ListingPage(l, n, at) ==
    Page("Page", n, l, at, IF at < contents'[l].pages THEN NextPage(at) ELSE NoPage)
WithToken(ts, m) ==
    IF m.next = NoPage THEN ts ELSE ts \cup {[listing |-> m.listing, at |-> m.next, n |-> m.n]}

SendNextPage(l, n, at, ts) ==
    /\ answers' = Replied(ListingPage(l, n, at))
    /\ tokens' = WithToken(ts, ListingPage(l, n, at))

\* A listing that is shown is dated.
Dated ==
    /\ asOf' = [p \in Sides |-> IF panes'[p].shown = panes[p].shown THEN asOf[p] ELSE newest[p]]
    /\ UNCHANGED newest

\* The worker reads a folder, and publishLocalListing shows or sends what it
\* read.  Folders are removed and made; the roots are always there.
PublishLocalListing(p) ==
    LET r == Head(jobs[p])
        l == Len(contents) + 1
    IN  /\ jobs[p] # <<>>
        /\ jobs' = [jobs EXCEPT ![p] = Tail(@)]
        /\ \/ /\ r.target.folder # "roots"
              /\ UNCHANGED <<listings, contents, tokens>>
              /\ IF p = "remote"
                     THEN answers' = Replied(Refusal(r.n)) /\ UNCHANGED panes
                     ELSE /\ UNCHANGED answers
                          /\ panes' = [panes EXCEPT ![p].excused = @ \/ panes[p].pending = r.n]
           \/ \E k \in 1 .. MaxPages :
                /\ contents' = Append(contents, [folder |-> r.target.folder, pages |-> k])
                /\ listings' = [listings EXCEPT ![p] = RetainOwnListing(@, l)]
                /\ IF p = "remote"
                       THEN SendNextPage(l, r.n, 1, tokens) /\ UNCHANGED panes
                       ELSE /\ UNCHANGED <<answers, tokens>>
                            /\ panes' = IF panes[p].pending = r.n
                                            THEN [panes EXCEPT ![p].shown = r.n, ![p].current =
                                                    [listing |-> l, folder |-> r.target.folder,
                                                     pages |-> All(k)]]
                                            ELSE panes
    /\ Dated
    /\ UNCHANGED <<asked, ready, requests>>

\* handleControlMessage at the controlled endpoint: the next page of a listing,
\* or a folder for the worker.  A page of a listing that is forgotten meanwhile
\* is not answered.
HandleListingRequest ==
    LET m == Head(asked)
        known == {t \in tokens : t.n = m.n /\ t.at = m.token}
        stale == IF m.token # NoPage THEN known = {}
                 ELSE m.target.by = "entry" /\ ~OwnListing("remote", m.target.listing)
        kept == {t \in known : OwnListing("remote", t.listing)}
    IN  /\ asked # <<>>
        /\ asked' = Tail(asked)
        /\ UNCHANGED contents
        /\ jobs' = IF m.token = NoPage /\ ~stale THEN [jobs EXCEPT !["remote"] = Append(@, m)] ELSE jobs
        /\ IF kept = {}
               THEN /\ answers' = IF stale THEN Replied(Refusal(m.n)) ELSE answers
                    /\ tokens' = tokens \ known
               ELSE \E t \in kept : SendNextPage(t.listing, m.n, t.at, tokens \ {t})
        /\ UNCHANGED <<panes, listings, ready, requests, historyVars>>

\* Fault: an answer is taken whatever it is the answer to.
IsPendingAny(p, m) == p.pending # 0

IsPending(p, m) == m.n = p.pending

\* handleListingResponse and the refusals of listings.
Answered(p, m) ==
    IF ~IsPending(p, m) THEN p
    ELSE IF m.kind = "Error" THEN [p EXCEPT !.pages = <<>>, !.excused = TRUE]
    ELSE IF p.count + 1 > MaxPagesRead \/ p.listing \notin {0, m.listing} \/ m.next \in p.seen
        THEN [p EXCEPT !.pages = <<>>, !.pending = 0, !.excused = TRUE, !.count = @ + 1]
    ELSE IF m.next # NoPage
        THEN [p EXCEPT !.count = @ + 1, !.listing = m.listing,
                       !.pages = Append(@, m.at), !.seen = @ \cup {m.next}]
        ELSE [p EXCEPT !.count = @ + 1, !.listing = m.listing, !.pending = 0, !.pages = <<>>, !.seen = {}, !.shown = m.n,
                       !.current = [listing |-> m.listing, folder |-> contents[m.listing].folder,
                                    pages |-> Append(p.pages, m.at)]]

HandleListingResponse ==
    LET m == Head(answers)
        p == panes["remote"]
        q == Answered(p, m)
    IN  /\ answers # <<>>
        /\ answers' = Tail(answers)
        /\ panes' = [panes EXCEPT !["remote"] = q]
        /\ asked' = IF ready /\ q.pages # p.pages /\ q.pages # <<>>
                        THEN Append(asked, Request(m.next, p.for, m.n))
                        ELSE asked
        /\ Dated
        /\ UNCHANGED <<jobs, listings, contents, tokens, ready, requests>>

\* An interruption takes what the control channel holds.  The panes stay as they
\* are: no request is repeated, the window learns of it by the state.
PanesInterrupted ==
    /\ ready /\ requests < MaxRequests
    /\ ready' = FALSE
    /\ asked' = <<>> /\ answers' = <<>>
    /\ panes' = [panes EXCEPT !["remote"].excused = TRUE]
    /\ UNCHANGED <<jobs, listings, contents, tokens, requests, historyVars>>

PanesResumed ==
    /\ ~ready
    /\ ready' = TRUE
    /\ UNCHANGED <<panes, jobs, listings, contents, tokens, asked, answers, requests, historyVars>>

PaneNext ==
    \/ \E p \in Sides :
         \/ RequestPaneRoots(p) \/ NavigatePaneUp(p) \/ RefreshPane(p) \/ PublishLocalListing(p)
         \/ \E f \in Folders : NavigatePane(p, f) \/ NavigatePaneByPath(p, f)
    \/ HandleListingRequest
    \/ HandleListingResponse
    \/ PanesInterrupted
    \/ PanesResumed

PaneSpec == PaneInit /\ [][PaneNext]_paneVars

------------------------------------------------------------------------------
(* What must hold.                                                           *)

\* A pane shows one folder as it was read once, all of its pages.
PanesShowFolders ==
    \A p \in Sides :
        LET c == panes[p].current
        IN  c.listing # 0 =>
              /\ c.folder = contents[c.listing].folder
              /\ c.pages = All(contents[c.listing].pages)

\* The last answer that a pane showed was the answer to the newest request the pane
\* had made by then: one that comes late, in one page or with the last of several,
\* takes no place (handleListingResponse and publishLocalListing compare the ids).
AnswersAreNewest == \A p \in Sides : panes[p].shown = asOf[p]

\* What a pane waits for, asked for at a channel that has worked since, is on its
\* way as a request, a job or an answer, or the user was told that it failed.
PanesAreAnswered ==
    \A p \in Sides : LET n == panes[p].pending IN
        (ready /\ n # 0 /\ ~panes[p].excused /\ panes[p].shown # n) =>
            \/ \E i \in DOMAIN jobs[p] : jobs[p][i].n = n
            \/ p = "remote" /\ \E i \in DOMAIN asked : asked[i].n = n
            \/ p = "remote" /\ \E i \in DOMAIN answers : answers[i].n = n

PanesAreTrue == PanesShowFolders /\ AnswersAreNewest /\ PanesAreAnswered
=============================================================================
