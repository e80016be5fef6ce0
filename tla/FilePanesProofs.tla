--------------------------- MODULE FilePanesProofs ----------------------------
(***************************************************************************)
(* Proofs about FilePanes, for every set of folders and every bound on     *)
(* listings, pages and requests.                                           *)
(*                                                                         *)
(* That a pane is complete and is answered is not inductive: it depends on *)
(* what is under way.  PaneInv says that a request is in one place at a    *)
(* time, as a job, a question or an answer (QueuesOK); that what the pane  *)
(* waits for is the newest of them (OrderOK); that the pages that came are *)
(* all those before the one under way (ProgressOK); and that a listing the *)
(* pane is still being sent is the last one made, so that it is not        *)
(* forgotten (ListedOK).  DatesOK, beside it, says that what a pane waits  *)
(* for is the newest of its requests.                                      *)
(*                                                                         *)
(* The lemmas about the queues (Taken..., Added...) are about sequences    *)
(* alone; every handler takes the first element of one queue and puts one  *)
(* at the end of another.                                                  *)
(***************************************************************************)
EXTENDS FilePanes, TLAPS

Targets == [by : {"roots", "entry", "path"}, folder : Folders \cup {"roots"}, listing : Nat]
Requests == [n : Nat \ {0}, token : Nat, target : Targets]
Replies == [kind : {"Page", "Error"}, n : Nat \ {0}, listing : Nat, at : Nat, next : Nat]
Shown == [listing : Nat, folder : Folders \cup {"roots"}, pages : Seq(Nat)]
Contexts == [current : Shown, history : Seq(Shown), pending : Nat, for : Targets,
             pages : Seq(Nat), seen : SUBSET Nat, count : Nat, listing : Nat, shown : Nat, excused : BOOLEAN]
Contents == [folder : Folders \cup {"roots"}, pages : Nat \ {0}]

PaneTypeOK ==
    /\ panes \in [Sides -> Contexts]
    /\ jobs \in [Sides -> Seq(Requests)]
    /\ listings \in [Sides -> Seq(Nat)]
    /\ contents \in Seq(Contents)
    /\ tokens \subseteq [listing : Nat, at : Nat, n : Nat]
    /\ asked \in Seq(Requests) /\ answers \in Seq(Replies)
    /\ ready \in BOOLEAN /\ requests \in Nat

(* What is shown was read, and so was what is answered.                      *)
Reads(c, known) ==
    c.listing # 0 => /\ c.listing \in 1..Len(known) /\ c.folder = known[c.listing].folder
                     /\ c.pages = All(known[c.listing].pages)
IsPage(m, known) ==
    m.kind = "Page" => /\ m.listing \in 1..Len(known)
                       /\ m.at \in 1..known[m.listing].pages
                       /\ m.next = IF m.at < known[m.listing].pages THEN m.at + 1 ELSE NoPage

PaneReads(p, known) == Reads(p.current, known) /\ \A i \in 1..Len(p.history) : Reads(p.history[i], known)
ShownOK == \A s \in Sides : PaneReads(panes[s], contents)
ArePages(w, known) == \A i \in 1..Len(w) : IsPage(w[i], known)
AreNext(ts, known) == \A t \in ts : t.listing \in 1..Len(known) /\ t.at \in 2..known[t.listing].pages
AnswersOK == ArePages(answers, contents) /\ AreNext(tokens, contents)

(* A request is in one place at a time: a job, a question or an answer.      *)
Distinct(q) == \A i, j \in 1..Len(q) : i # j => q[i].n # q[j].n
Apart(q, r) == \A i \in 1..Len(q), j \in 1..Len(r) : q[i].n # r[j].n
Without(q, n) == \A i \in 1..Len(q) : q[i].n # n
OneEach(js, as, ws) ==
    /\ Distinct(js) /\ Distinct(as) /\ Distinct(ws)
    /\ Apart(js, as) /\ Apart(js, ws) /\ Apart(as, ws)

(* They keep their order, and what the pane waits for is the newest.         *)
FirstPage(m) == m.token = NoPage
AtMost(q, k) == \A i \in 1..Len(q) : q[i].n <= k
JobsRise(js) == \A i, j \in 1..Len(js) : i < j => js[i].n < js[j].n
FirstsRise(as) ==
    \A i, j \in 1..Len(as) : i < j /\ FirstPage(as[i]) /\ FirstPage(as[j]) => as[i].n < as[j].n
JobsBefore(js, as) == \A i \in 1..Len(js), j \in 1..Len(as) : FirstPage(as[j]) => js[i].n < as[j].n
AllAtMost(js, as, ws, k) == AtMost(js, k) /\ AtMost(as, k) /\ AtMost(ws, k)
InOrder(js, as, ws, pending, last) ==
    /\ JobsRise(js) /\ FirstsRise(as) /\ JobsBefore(js, as)
    /\ AllAtMost(js, as, ws, last)
    /\ pending # 0 => AllAtMost(js, as, ws, pending)

(* The pages that came are those before the one that is under way.           *)
Progress(js, as, ws, pending, got) ==
    pending # 0 =>
        /\ \A i \in 1..Len(js) : js[i].n = pending => got = <<>>
        /\ \A i \in 1..Len(as) : as[i].n = pending =>
              got = IF FirstPage(as[i]) THEN <<>> ELSE All(as[i].token - 1)
        /\ \A i \in 1..Len(ws) : ws[i].n = pending /\ ws[i].kind = "Page" => got = All(ws[i].at - 1)

(* The listing a pane is still being sent is the last that was made.         *)
LastIs(q, l) == Len(q) > 0 /\ q[Len(q)] = l
Listed(js, as, ts, pending, made) ==
    \A t \in ts : pending # 0 /\ t.n = pending =>
        js = <<>> /\ (\A i \in 1..Len(as) : ~FirstPage(as[i])) /\ LastIs(made, t.listing)

(* Who waits is on his way, or was told.                                     *)
With(q, n) == \E i \in 1..Len(q) : q[i].n = n
Waiting(p) == p.pending # 0 /\ ~p.excused /\ p.shown # p.pending
AnsweringOK ==
    /\ ~ready => asked = <<>> /\ answers = <<>> /\ panes["remote"].excused
    /\ Waiting(panes["local"]) => With(jobs["local"], panes["local"].pending)
    /\ Waiting(panes["remote"]) => \/ With(jobs["remote"], panes["remote"].pending)
                                   \/ With(asked, panes["remote"].pending)
                                   \/ With(answers, panes["remote"].pending)

RemotePending == panes["remote"].pending
QueuesOK == OneEach(jobs["remote"], asked, answers)
OrderOK ==
    /\ InOrder(jobs["remote"], asked, answers, RemotePending, requests)
    /\ \A t \in tokens : t.n <= requests
ProgressOK == Progress(jobs["remote"], asked, answers, RemotePending, panes["remote"].pages)
ListedOK == Listed(jobs["remote"], asked, tokens, RemotePending, listings["remote"])

PaneInv ==
    /\ PaneTypeOK /\ ShownOK /\ AnswersOK /\ QueuesOK /\ OrderOK /\ ProgressOK /\ ListedOK /\ AnsweringOK

------------------------------------------------------------------------------
LEMMA OneMore ==
    ASSUME NEW S, NEW q \in Seq(S), NEW e \in S
    PROVE  /\ Append(q, e) \in Seq(S) /\ Len(q) \in Nat
           /\ Len(Append(q, e)) = Len(q) + 1
           /\ \A i \in 1..Len(Append(q, e)) : (i \in 1..Len(q) /\ Append(q, e)[i] = q[i]) \/ (i = Len(q) + 1 /\ Append(q, e)[i] = e)
           /\ \A i \in 1..Len(q) : i \in 1..Len(Append(q, e)) /\ Append(q, e)[i] = q[i]
           /\ Len(q) + 1 \in 1..Len(Append(q, e)) /\ Append(q, e)[Len(q) + 1] = e
OBVIOUS

LEMMA OneLess ==
    ASSUME NEW S, NEW q \in Seq(S), q # <<>>
    PROVE  /\ Tail(q) \in Seq(S) /\ Len(q) \in Nat /\ Head(q) = q[1] /\ q[1] \in S /\ 1 \in 1..Len(q)
           /\ Len(Tail(q)) = Len(q) - 1
           /\ \A i \in 1..Len(Tail(q)) : i + 1 \in 1..Len(q) /\ Tail(q)[i] = q[i + 1] /\ i + 1 # 1 /\ 1 < i + 1
           /\ \A i, j \in 1..Len(Tail(q)) : (i # j => i + 1 # j + 1) /\ (i < j => i + 1 < j + 1)
           /\ \A i \in 1..Len(q) : i = 1 \/ (i - 1 \in 1..Len(Tail(q)) /\ Tail(q)[i - 1] = q[i])
OBVIOUS

\* The first of a queue is taken: its number is in none of the queues any more.
LEMMA TakenNumbers ==
    ASSUME NEW S, NEW q \in Seq(S), q # <<>>, Distinct(q)
    PROVE  /\ Distinct(Tail(q)) /\ Without(Tail(q), q[1].n)
           /\ \A r : Apart(q, r) => Apart(Tail(q), r) /\ Without(r, q[1].n)
           /\ \A r : Apart(r, q) => Apart(r, Tail(q)) /\ Without(r, q[1].n)
<1> DEFINE t == Tail(q)
<1>1. /\ 1 \in 1..Len(q)
      /\ \A i \in 1..Len(t) : i + 1 \in 1..Len(q) /\ t[i] = q[i + 1] /\ i + 1 # 1
      /\ \A i, j \in 1..Len(t) : i # j => i + 1 # j + 1
    BY OneLess
<1> HIDE DEF t
<1>2. Distinct(t) /\ Without(t, q[1].n)
  <2>1. Distinct(t)
      BY <1>1 DEF Distinct
  <2>2. ASSUME NEW i \in 1..Len(t) PROVE t[i].n # q[1].n
      BY <1>1 DEF Distinct
  <2> QED BY <2>1, <2>2 DEF Without
<1>3. \A r : Apart(q, r) => Apart(t, r) /\ Without(r, q[1].n)
    BY <1>1 DEF Apart, Without
<1>4. \A r : Apart(r, q) => Apart(r, t) /\ Without(r, q[1].n)
    BY <1>1 DEF Apart, Without
<1> QED BY <1>2, <1>3, <1>4 DEF t

\* A number that is in none of the queues is put behind one.
LEMMA AddedNumbers ==
    ASSUME NEW S, NEW q \in Seq(S), NEW e \in S
    PROVE  /\ Distinct(q) /\ Without(q, e.n) => Distinct(Append(q, e))
           /\ \A r : Apart(q, r) /\ Without(r, e.n) => Apart(Append(q, e), r)
           /\ \A r : Apart(r, q) /\ Without(r, e.n) => Apart(r, Append(q, e))
           /\ \A k : AtMost(q, k) /\ e.n <= k => AtMost(Append(q, e), k)
           /\ \A n : With(q, n) => With(Append(q, e), n)
           /\ With(Append(q, e), e.n)
<1> DEFINE t == Append(q, e)
<1>1. /\ \A i \in 1..Len(t) : (i \in 1..Len(q) /\ t[i] = q[i]) \/ (i = Len(q) + 1 /\ t[i] = e)
      /\ \A i \in 1..Len(q) : i \in 1..Len(t) /\ t[i] = q[i]
      /\ Len(q) + 1 \in 1..Len(t) /\ t[Len(q) + 1] = e
    BY OneMore
<1> HIDE DEF t
<1>2. Distinct(q) /\ Without(q, e.n) => Distinct(t)
    BY <1>1 DEF Distinct, Without
<1>3. \A r : Apart(q, r) /\ Without(r, e.n) => Apart(t, r)
    BY <1>1 DEF Apart, Without
<1>4. \A r : Apart(r, q) /\ Without(r, e.n) => Apart(r, t)
    BY <1>1 DEF Apart, Without
<1>5. \A k : AtMost(q, k) /\ e.n <= k => AtMost(t, k)
    BY <1>1 DEF AtMost
<1>6. (\A n : With(q, n) => With(t, n)) /\ With(t, e.n)
    BY <1>1 DEF With
<1> QED BY <1>2, <1>3, <1>4, <1>5, <1>6 DEF t

LEMMA TakenMost ==
    ASSUME NEW S, NEW q \in Seq(S), q # <<>>
    PROVE  /\ \A k : AtMost(q, k) => AtMost(Tail(q), k) /\ q[1].n <= k
           /\ \A n : With(q, n) => n = q[1].n \/ With(Tail(q), n)
<1> DEFINE t == Tail(q)
<1>1. /\ 1 \in 1..Len(q)
      /\ \A i \in 1..Len(t) : i + 1 \in 1..Len(q) /\ t[i] = q[i + 1]
      /\ \A i \in 1..Len(q) : i = 1 \/ (i - 1 \in 1..Len(t) /\ t[i - 1] = q[i])
    BY OneLess
<1> HIDE DEF t
<1>2. \A k : AtMost(q, k) => AtMost(t, k) /\ q[1].n <= k
    BY <1>1 DEF AtMost
<1>3. \A n : With(q, n) => n = q[1].n \/ With(t, n)
    BY <1>1 DEF With
<1> QED BY <1>2, <1>3 DEF t

\* A request that is put behind the others, or one that is taken, keeps their order.
LEMMA TakenAsked ==
    ASSUME NEW js, NEW as \in Seq(Requests), NEW ws, as # <<>>, OneEach(js, as, ws), NEW pending, NEW last,
           InOrder(js, as, ws, pending, last)
    PROVE  /\ OneEach(js, Tail(as), ws) /\ InOrder(js, Tail(as), ws, pending, last)
           /\ Without(js, as[1].n) /\ Without(Tail(as), as[1].n) /\ Without(ws, as[1].n)
           /\ FirstPage(as[1]) =>
                /\ \A i \in 1..Len(js) : js[i].n < as[1].n
                /\ \A i \in 1..Len(Tail(as)) : FirstPage(Tail(as)[i]) => as[1].n < Tail(as)[i].n
           /\ as[1].n <= last /\ (pending # 0 => as[1].n <= pending)
<1> DEFINE t == Tail(as)
<1>1. /\ 1 \in 1..Len(as)
      /\ \A i \in 1..Len(t) : i + 1 \in 1..Len(as) /\ t[i] = as[i + 1] /\ 1 < i + 1
      /\ \A i, j \in 1..Len(t) : i < j => i + 1 < j + 1
    BY OneLess
<1>2. /\ Distinct(t) /\ Without(t, as[1].n)
      /\ Apart(js, t) /\ Without(js, as[1].n) /\ Apart(t, ws) /\ Without(ws, as[1].n)
    BY TakenNumbers DEF OneEach
<1>3. \A k : AtMost(as, k) => AtMost(t, k) /\ as[1].n <= k
    BY TakenMost
<1> HIDE DEF t
<1>4. FirstsRise(t) /\ JobsBefore(js, t)
    BY <1>1 DEF InOrder, FirstsRise, JobsBefore
<1>5. ASSUME FirstPage(as[1])
      PROVE  /\ \A i \in 1..Len(js) : js[i].n < as[1].n
             /\ \A i \in 1..Len(t) : FirstPage(t[i]) => as[1].n < t[i].n
    BY <1>1, <1>5 DEF InOrder, FirstsRise, JobsBefore
<1>6. OneEach(js, t, ws)
    BY <1>2 DEF OneEach
<1>7. InOrder(js, t, ws, pending, last) /\ as[1].n <= last /\ (pending # 0 => as[1].n <= pending)
    BY <1>3, <1>4 DEF InOrder, AllAtMost
<1> QED BY <1>2, <1>5, <1>6, <1>7 DEF t

LEMMA TakenJob ==
    ASSUME NEW js \in Seq(Requests), NEW as, NEW ws, js # <<>>, OneEach(js, as, ws), NEW pending, NEW last,
           InOrder(js, as, ws, pending, last)
    PROVE  /\ OneEach(Tail(js), as, ws) /\ InOrder(Tail(js), as, ws, pending, last)
           /\ Without(Tail(js), js[1].n) /\ Without(as, js[1].n) /\ Without(ws, js[1].n)
           /\ \A i \in 1..Len(Tail(js)) : js[1].n < Tail(js)[i].n
           /\ \A i \in 1..Len(as) : FirstPage(as[i]) => js[1].n < as[i].n
           /\ js[1].n <= last /\ (pending # 0 => js[1].n <= pending)
<1> DEFINE t == Tail(js)
<1>1. /\ 1 \in 1..Len(js)
      /\ \A i \in 1..Len(t) : i + 1 \in 1..Len(js) /\ t[i] = js[i + 1] /\ 1 < i + 1
      /\ \A i, j \in 1..Len(t) : i < j => i + 1 < j + 1
    BY OneLess
<1>2. /\ Distinct(t) /\ Without(t, js[1].n)
      /\ Apart(t, as) /\ Without(as, js[1].n) /\ Apart(t, ws) /\ Without(ws, js[1].n)
    BY TakenNumbers DEF OneEach
<1>3. \A k : AtMost(js, k) => AtMost(t, k) /\ js[1].n <= k
    BY TakenMost
<1> HIDE DEF t
<1>4. JobsRise(t) /\ JobsBefore(t, as)
    BY <1>1 DEF InOrder, JobsRise, JobsBefore
<1>5. /\ \A i \in 1..Len(t) : js[1].n < t[i].n
      /\ \A i \in 1..Len(as) : FirstPage(as[i]) => js[1].n < as[i].n
    BY <1>1 DEF InOrder, JobsRise, JobsBefore
<1>6. OneEach(t, as, ws)
    BY <1>2 DEF OneEach
<1>7. InOrder(t, as, ws, pending, last) /\ js[1].n <= last /\ (pending # 0 => js[1].n <= pending)
    BY <1>3, <1>4 DEF InOrder, AllAtMost
<1> QED BY <1>2, <1>5, <1>6, <1>7 DEF t

LEMMA TakenAnswer ==
    ASSUME NEW js, NEW as, NEW ws \in Seq(Replies), ws # <<>>, OneEach(js, as, ws), NEW pending, NEW last,
           InOrder(js, as, ws, pending, last)
    PROVE  /\ OneEach(js, as, Tail(ws)) /\ InOrder(js, as, Tail(ws), pending, last)
           /\ Without(js, ws[1].n) /\ Without(as, ws[1].n) /\ Without(Tail(ws), ws[1].n)
           /\ ws[1].n <= last /\ (pending # 0 => ws[1].n <= pending)
<1> DEFINE t == Tail(ws)
<1>2. /\ Distinct(t) /\ Without(t, ws[1].n)
      /\ Apart(js, t) /\ Without(js, ws[1].n) /\ Apart(as, t) /\ Without(as, ws[1].n)
    BY TakenNumbers DEF OneEach
<1>3. \A k : AtMost(ws, k) => AtMost(t, k) /\ ws[1].n <= k
    BY TakenMost
<1> HIDE DEF t
<1>6. OneEach(js, as, t)
    BY <1>2 DEF OneEach
<1>7. InOrder(js, as, t, pending, last) /\ ws[1].n <= last /\ (pending # 0 => ws[1].n <= pending)
    BY <1>3 DEF InOrder, AllAtMost
<1> QED BY <1>2, <1>6, <1>7 DEF t

LEMMA AddedAnswer ==
    ASSUME NEW js, NEW as, NEW ws \in Seq(Replies), NEW m \in Replies, OneEach(js, as, ws), NEW pending, NEW last,
           InOrder(js, as, ws, pending, last), Without(js, m.n), Without(as, m.n), Without(ws, m.n),
           m.n <= last, pending # 0 => m.n <= pending
    PROVE  OneEach(js, as, Append(ws, m)) /\ InOrder(js, as, Append(ws, m), pending, last)
<1> DEFINE t == Append(ws, m)
<1>1. /\ Distinct(t) /\ Apart(js, t) /\ Apart(as, t)
      /\ \A k : AtMost(ws, k) /\ m.n <= k => AtMost(t, k)
    BY AddedNumbers DEF OneEach
<1> HIDE DEF t
<1>2. OneEach(js, as, t)
    BY <1>1 DEF OneEach
<1>3. InOrder(js, as, t, pending, last)
    BY <1>1 DEF InOrder, AllAtMost
<1> QED BY <1>2, <1>3 DEF t

LEMMA AddedAsked ==
    ASSUME NEW js, NEW as \in Seq(Requests), NEW ws, NEW m \in Requests, OneEach(js, as, ws), NEW pending, NEW last,
           InOrder(js, as, ws, pending, last), Without(js, m.n), Without(as, m.n), Without(ws, m.n),
           m.n <= last, pending # 0 => m.n <= pending,
           FirstPage(m) => /\ \A i \in 1..Len(js) : js[i].n < m.n
                           /\ \A i \in 1..Len(as) : FirstPage(as[i]) => as[i].n < m.n
    PROVE  OneEach(js, Append(as, m), ws) /\ InOrder(js, Append(as, m), ws, pending, last)
<1> DEFINE t == Append(as, m)
<1>1. /\ Distinct(t) /\ Apart(js, t) /\ Apart(t, ws)
      /\ \A k : AtMost(as, k) /\ m.n <= k => AtMost(t, k)
    BY AddedNumbers DEF OneEach
<1>2. /\ \A i \in 1..Len(t) : (i \in 1..Len(as) /\ t[i] = as[i]) \/ (i = Len(as) + 1 /\ t[i] = m)
      /\ \A i \in 1..Len(as) : t[i] = as[i]
      /\ Len(as) \in Nat /\ Len(t) = Len(as) + 1
    BY OneMore
<1> HIDE DEF t
<1>3. FirstsRise(t)
  <2>1. ASSUME NEW i \in 1..Len(t), NEW j \in 1..Len(t), i < j
        PROVE  /\ i \in 1..Len(as) /\ t[i] = as[i]
               /\ (j \in 1..Len(as) /\ t[j] = as[j]) \/ t[j] = m
    <3>1. i \in 1..Len(as)
      <4> DEFINE n == Len(as)
      <4>1. n \in Nat /\ Len(t) = n + 1
          BY <1>2
      <4> HIDE DEF n
      <4>2. i \in 1..n
          BY <2>1, <4>1
      <4> QED BY <4>2 DEF n
    <3>2. t[i] = as[i]
        BY <1>2, <3>1
    <3>3. (j \in 1..Len(as) /\ t[j] = as[j]) \/ t[j] = m
        BY <1>2
    <3> QED BY <3>1, <3>2, <3>3
  <2> QED BY <2>1 DEF InOrder, FirstsRise
<1>4. JobsBefore(js, t)
    BY <1>2 DEF InOrder, JobsBefore
<1>5. OneEach(js, t, ws)
    BY <1>1 DEF OneEach
<1>6. InOrder(js, t, ws, pending, last)
    BY <1>1, <1>3, <1>4 DEF InOrder, AllAtMost
<1> QED BY <1>5, <1>6 DEF t

LEMMA AddedJob ==
    ASSUME NEW js \in Seq(Requests), NEW as, NEW ws, NEW m \in Requests, OneEach(js, as, ws), NEW pending, NEW last,
           InOrder(js, as, ws, pending, last), Without(js, m.n), Without(as, m.n), Without(ws, m.n),
           m.n <= last, pending # 0 => m.n <= pending,
           \A i \in 1..Len(js) : js[i].n < m.n,
           \A i \in 1..Len(as) : FirstPage(as[i]) => m.n < as[i].n
    PROVE  OneEach(Append(js, m), as, ws) /\ InOrder(Append(js, m), as, ws, pending, last)
<1> DEFINE t == Append(js, m)
<1>1. /\ Distinct(t) /\ Apart(t, as) /\ Apart(t, ws)
      /\ \A k : AtMost(js, k) /\ m.n <= k => AtMost(t, k)
    BY AddedNumbers DEF OneEach
<1>2. /\ \A i \in 1..Len(t) : (i \in 1..Len(js) /\ t[i] = js[i]) \/ (i = Len(js) + 1 /\ t[i] = m)
      /\ Len(js) \in Nat
    BY OneMore
<1> HIDE DEF t
<1>3. JobsRise(t)
  <2> SUFFICES ASSUME NEW i \in 1..Len(t), NEW j \in 1..Len(t), i < j
               PROVE  t[i].n < t[j].n
      BY DEF JobsRise
  <2>1. CASE j \in 1..Len(js)
      BY <1>2, <2>1 DEF InOrder, JobsRise
  <2>2. CASE j = Len(js) + 1
      BY <1>2, <2>2
  <2> QED BY <1>2, <2>1, <2>2
<1>4. JobsBefore(t, as)
    BY <1>2 DEF InOrder, JobsBefore
<1>5. OneEach(t, as, ws)
    BY <1>1 DEF OneEach
<1>6. InOrder(t, as, ws, pending, last)
    BY <1>1, <1>3, <1>4 DEF InOrder, AllAtMost
<1> QED BY <1>5, <1>6 DEF t

------------------------------------------------------------------------------
LEMMA PaneParts ==
    ASSUME PaneInv
    PROVE  /\ PaneTypeOK /\ ShownOK /\ AnswersOK /\ QueuesOK /\ OrderOK /\ ProgressOK /\ ListedOK /\ AnsweringOK
BY DEF PaneInv

LEMMA PaneTypes ==
    ASSUME PaneTypeOK
    PROVE  /\ "local" \in Sides /\ "remote" \in Sides
           /\ panes["local"] \in Contexts /\ panes["remote"] \in Contexts
           /\ jobs["local"] \in Seq(Requests) /\ jobs["remote"] \in Seq(Requests)
           /\ listings["remote"] \in Seq(Nat)
           /\ contents \in Seq(Contents)
           /\ asked \in Seq(Requests) /\ answers \in Seq(Replies)
           /\ requests \in Nat
<1>1. "local" \in Sides /\ "remote" \in Sides
    BY DEF Sides
<1> QED BY <1>1 DEF PaneTypeOK

LEMMA Below ==
    ASSUME NEW S, NEW q \in Seq(S), NEW last \in Nat, \A e \in S : e.n \in Nat, AtMost(q, last)
    PROVE  /\ AtMost(q, last + 1) /\ Without(q, last + 1)
           /\ \A i \in 1..Len(q) : q[i].n < last + 1
<1>1. ASSUME NEW i \in 1..Len(q)
      PROVE  q[i].n <= last + 1 /\ q[i].n # last + 1 /\ q[i].n < last + 1
  <2>1. q[i] \in S
      OBVIOUS
  <2> DEFINE n == q[i].n
  <2>2. n \in Nat /\ n <= last
      BY <2>1 DEF AtMost
  <2> HIDE DEF n
  <2>3. n <= last + 1 /\ n # last + 1 /\ n < last + 1
      BY <2>2
  <2> QED BY <2>3 DEF n
<1> QED BY <1>1 DEF AtMost, Without

\* The number of a new request is greater than all.
LEMMA Newer ==
    ASSUME NEW js \in Seq(Requests), NEW as \in Seq(Requests), NEW ws \in Seq(Replies), NEW pending, NEW last \in Nat,
           InOrder(js, as, ws, pending, last)
    PROVE  /\ InOrder(js, as, ws, pending, last + 1) /\ InOrder(js, as, ws, last + 1, last + 1)
           /\ Without(js, last + 1) /\ Without(as, last + 1) /\ Without(ws, last + 1)
           /\ \A i \in 1..Len(js) : js[i].n < last + 1
           /\ \A i \in 1..Len(as) : as[i].n < last + 1
<1>1. (\A e \in Requests : e.n \in Nat) /\ (\A e \in Replies : e.n \in Nat)
    BY DEF Requests, Replies
<1>2. AtMost(js, last) /\ AtMost(as, last) /\ AtMost(ws, last)
    BY DEF InOrder, AllAtMost
<1>3. /\ AtMost(js, last + 1) /\ Without(js, last + 1)
      /\ \A i \in 1..Len(js) : js[i].n < last + 1
    BY <1>1, <1>2, Below
<1>4. /\ AtMost(as, last + 1) /\ Without(as, last + 1)
      /\ \A i \in 1..Len(as) : as[i].n < last + 1
    BY <1>1, <1>2, Below
<1>5. AtMost(ws, last + 1) /\ Without(ws, last + 1)
    BY <1>1, <1>2, Below
<1>6. AllAtMost(js, as, ws, last + 1)
    BY <1>3, <1>4, <1>5 DEF AllAtMost
<1> QED BY <1>3, <1>4, <1>5, <1>6 DEF InOrder

\* What Ask makes of the context of its pane.
Asking(c, n, target, b) == [Begun(c, n, target) EXCEPT !.excused = b]

LEMMA BegunContext ==
    ASSUME NEW c \in Contexts, NEW n \in Nat, NEW target \in Targets, NEW b \in BOOLEAN,
           NEW x, x = Asking(c, n, target, b)
    PROVE  /\ x \in Contexts /\ x.current = c.current /\ x.history = c.history
           /\ x.pending = n /\ x.pages = <<>> /\ x.shown = c.shown
           /\ x.excused = b
<1>1. x = [c EXCEPT !.pending = n, !.for = target, !.pages = <<>>, !.seen = {},
                    !.count = 0, !.listing = 0, !.excused = b]
    BY DEF Asking, Begun, Contexts
<1>2. <<>> \in Seq(Nat) /\ {} \in SUBSET Nat
    OBVIOUS
<1>3. x \in Contexts
  <2> DEFINE y == [c EXCEPT !.pending = n, !.for = target, !.pages = <<>>, !.seen = {}, !.count = 0, !.listing = 0]
  <2>1. y \in Contexts
      BY <1>2 DEF Contexts
  <2>2. x = [y EXCEPT !.excused = b]
      BY <1>1 DEF Contexts
  <2> HIDE DEF y
  <2> QED BY <2>1, <2>2 DEF Contexts
<1>4. /\ x.current = c.current /\ x.history = c.history
      /\ x.pending = n /\ x.pages = <<>> /\ x.shown = c.shown
    BY <1>1 DEF Contexts
<1>5. x.excused = b
    BY <1>1 DEF Contexts
<1> QED BY <1>3, <1>4, <1>5

LEMMA AskKeeps ==
    ASSUME PaneInv, NEW s \in Sides, NEW c \in Contexts, PaneReads(c, contents), NEW target \in Targets,
           Ask(s, c, target)
    PROVE  PaneInv'
<1>0. PaneTypeOK /\ ShownOK /\ AnswersOK /\ QueuesOK /\ OrderOK /\ ProgressOK /\ ListedOK /\ AnsweringOK
    BY PaneParts
<1> DEFINE n == requests + 1
           e == Request(NoPage, target, n)
           b == (s = "remote" /\ ~ready)
           x == Asking(c, n, target, b)
<1>1. /\ requests' = n /\ UNCHANGED <<listings, contents, tokens, answers, ready>>
      /\ s = "local" => jobs' = [jobs EXCEPT ![s] = Append(@, e)] /\ UNCHANGED asked
      /\ s # "local" => UNCHANGED jobs
    BY DEF Ask
<1>2. s # "local" => asked' = IF ready THEN Append(asked, e) ELSE asked
    BY DEF Ask
<1>3. panes' = [panes EXCEPT ![s] = x]
    BY <1>0 DEF Ask, Asking, PaneTypeOK
<1>4. n \in Nat \ {0} /\ b \in BOOLEAN /\ n = requests + 1
    BY <1>0 DEF PaneTypeOK
<1>5. e \in Requests /\ FirstPage(e) /\ e.n = n
    BY <1>4 DEF Request, Requests, NoPage, FirstPage
<1> HIDE DEF n, b
<1>d. x = Asking(c, n, target, b)
    OBVIOUS
<1> HIDE DEF e, x
<1>6. /\ x \in Contexts /\ x.current = c.current /\ x.history = c.history
      /\ x.pending = n /\ x.pages = <<>> /\ x.shown = c.shown /\ x.excused = b
  <2>1. n \in Nat
      BY <1>4
  <2>2. b \in BOOLEAN
      BY <1>4
  <2> QED BY <1>d, <2>1, <2>2, BegunContext
<1>7. s = "remote" /\ ~ready => x.excused
  <2>1. s = "remote" /\ ~ready => b
      BY DEF b
  <2> QED BY <1>6, <2>1
<1>8. /\ panes' \in [Sides -> Contexts] /\ panes'[s] = x
      /\ \A r \in Sides : r # s => panes'[r] = panes[r]
    BY <1>0, <1>3, <1>6 DEF PaneTypeOK
<1>9. ShownOK'
    BY <1>0, <1>1, <1>6, <1>8 DEF ShownOK, PaneReads
<1>10. AnswersOK'
    BY <1>0, <1>1 DEF AnswersOK
<1>11. /\ jobs["local"] \in Seq(Requests) /\ jobs["remote"] \in Seq(Requests) /\ asked \in Seq(Requests)
       /\ answers \in Seq(Replies) /\ requests \in Nat
       /\ OneEach(jobs["remote"], asked, answers)
       /\ InOrder(jobs["remote"], asked, answers, RemotePending, requests)
    BY <1>0, PaneTypes DEF QueuesOK, OrderOK
<1>12. /\ InOrder(jobs["remote"], asked, answers, RemotePending, n)
       /\ InOrder(jobs["remote"], asked, answers, n, n)
       /\ Without(jobs["remote"], n) /\ Without(asked, n) /\ Without(answers, n)
       /\ \A i \in 1..Len(jobs["remote"]) : jobs["remote"][i].n < n
       /\ \A i \in 1..Len(asked) : asked[i].n < n
    BY <1>4, <1>11, Newer
<1>13. \A t \in tokens : t.n <= requests /\ t.n \in Nat
    BY <1>0 DEF OrderOK, PaneTypeOK
<1>14. \A t \in tokens : t.n < n
    BY <1>4, <1>11, <1>13
<1>15. CASE s = "local"
  <2>1. jobs' \in [Sides -> Seq(Requests)] /\ jobs'["local"] = Append(jobs["local"], e) /\ jobs'["remote"] = jobs["remote"]
    <3>1. Append(jobs["local"], e) \in Seq(Requests)
        BY <1>5, <1>11
    <3> QED BY <1>0, <1>1, <1>15, <3>1 DEF PaneTypeOK, Sides
  <2>2. panes'["remote"] = panes["remote"] /\ panes'["local"] = x /\ asked' = asked
      BY <1>1, <1>8, <1>15 DEF Sides
  <2>3. PaneTypeOK'
      BY <1>0, <1>1, <1>4, <1>8, <2>1, <2>2 DEF PaneTypeOK
  <2>4. QueuesOK' /\ ProgressOK' /\ ListedOK'
      BY <1>0, <1>1, <2>1, <2>2 DEF QueuesOK, ProgressOK, ListedOK, RemotePending
  <2>5. OrderOK'
      BY <1>0, <1>1, <1>4, <1>11, <1>12, <1>13, <1>14, <2>1, <2>2 DEF OrderOK, RemotePending
  <2>6. AnsweringOK'
    <3>1. With(jobs'["local"], n)
        BY <1>5, <1>11, <2>1, AddedNumbers
    <3> QED BY <1>0, <1>1, <1>6, <2>1, <2>2, <3>1 DEF AnsweringOK, Waiting
  <2> QED BY <1>9, <1>10, <2>3, <2>4, <2>5, <2>6 DEF PaneInv
<1>16. CASE s = "remote"
  <2>1. panes'["remote"] = x /\ panes'["local"] = panes["local"] /\ jobs' = jobs
      BY <1>1, <1>8, <1>16 DEF Sides
  <2>2. asked' = asked \/ asked' = Append(asked, e)
      BY <1>2, <1>16
  <2>3. asked' \in Seq(Requests)
      BY <1>5, <1>11, <2>2
  <2>4. PaneTypeOK'
      BY <1>0, <1>1, <1>4, <1>8, <2>1, <2>3 DEF PaneTypeOK
  <2>5. /\ OneEach(jobs["remote"], asked', answers)
        /\ InOrder(jobs["remote"], asked', answers, n, n)
    <3>1. CASE asked' = Append(asked, e)
      <4>1. n <= n /\ (n # 0 => n <= n)
          BY <1>4
      <4> QED BY <1>5, <1>11, <1>12, <3>1, <4>1, AddedAsked
    <3> QED BY <1>11, <1>12, <2>2, <3>1
  <2>6. QueuesOK' /\ OrderOK'
    <3>1. \A t \in tokens : t.n <= n
        BY <1>4, <1>11, <1>13
    <3> QED BY <1>1, <1>6, <2>1, <2>5, <3>1 DEF QueuesOK, OrderOK, RemotePending
  <2>7. ProgressOK'
    <3>1. \A i \in 1..Len(asked') : asked'[i].n = n => FirstPage(asked'[i])
      <4>1. CASE asked' = asked
          BY <1>12, <4>1 DEF Without
      <4>2. CASE asked' = Append(asked, e)
        <5>1. \A i \in 1..Len(asked') : (i \in 1..Len(asked) /\ asked'[i] = asked[i]) \/ asked'[i] = e
            BY <1>5, <1>11, <4>2, OneMore
        <5> QED BY <1>5, <1>12, <5>1 DEF Without
      <4> QED BY <2>2, <4>1, <4>2
    <3> QED BY <1>1, <1>6, <1>12, <2>1, <3>1 DEF ProgressOK, Progress, RemotePending, Without
  <2>8. ListedOK'
    <3>1. \A t \in tokens : t.n # n
        BY <1>4, <1>13, <1>14
    <3> QED BY <1>1, <1>6, <2>1, <3>1 DEF ListedOK, Listed, RemotePending
  <2>9. AnsweringOK'
    <3>1. ready => With(asked', n)
        BY <1>2, <1>5, <1>11, <1>16, AddedNumbers
    <3>2. ~ready => asked' = asked
        BY <1>2, <1>16
    <3>3. ~ready' => asked' = <<>> /\ answers' = <<>> /\ panes'["remote"].excused
        BY <1>0, <1>1, <1>7, <1>16, <2>1, <3>2 DEF AnsweringOK
    <3>4. Waiting(panes["remote"])' => With(asked', n) /\ n = panes'["remote"].pending
        BY <1>6, <1>7, <1>16, <2>1, <3>1 DEF Waiting
    <3> QED BY <1>0, <2>1, <3>3, <3>4 DEF AnsweringOK
  <2> QED BY <1>9, <1>10, <2>4, <2>6, <2>7, <2>8, <2>9 DEF PaneInv
<1> QED BY <1>15, <1>16 DEF Sides

------------------------------------------------------------------------------
LEMMA PanesChange ==
    ASSUME PaneTypeOK, NEW s \in Sides, NEW x \in Contexts, panes' = [panes EXCEPT ![s] = x]
    PROVE  /\ panes' \in [Sides -> Contexts] /\ panes'[s] = x
           /\ \A r \in Sides : r # s => panes'[r] = panes[r]
BY DEF PaneTypeOK

LEMMA JobsChange ==
    ASSUME PaneTypeOK, NEW s \in Sides, NEW q \in Seq(Requests), jobs' = [jobs EXCEPT ![s] = q]
    PROVE  /\ jobs' \in [Sides -> Seq(Requests)] /\ jobs'[s] = q
           /\ \A r \in Sides : r # s => jobs'[r] = jobs[r]
BY DEF PaneTypeOK

LEMMA ListingsChange ==
    ASSUME PaneTypeOK, NEW s \in Sides, NEW q \in Seq(Nat), listings' = [listings EXCEPT ![s] = q]
    PROVE  /\ listings' \in [Sides -> Seq(Nat)] /\ listings'[s] = q
           /\ \A r \in Sides : r # s => listings'[r] = listings[r]
BY DEF PaneTypeOK

\* The queues are as they were, and so is what the pane waits for and has got.
LEMMA QueuesSame ==
    ASSUME PaneInv, UNCHANGED <<asked, answers, tokens, requests>>, jobs'["remote"] = jobs["remote"],
           listings'["remote"] = listings["remote"], panes'["remote"].pending = panes["remote"].pending,
           panes'["remote"].pages = panes["remote"].pages
    PROVE  QueuesOK' /\ OrderOK' /\ ProgressOK' /\ ListedOK'
<1>1. QueuesOK' /\ OrderOK'
    BY PaneParts DEF QueuesOK, OrderOK, RemotePending
<1>2. ProgressOK' /\ ListedOK'
    BY PaneParts DEF ProgressOK, ListedOK, RemotePending
<1> QED BY <1>1, <1>2

\* What is shown instead is what was shown before.
LEMMA UpContext ==
    ASSUME NEW c \in Contexts, c.history # <<>>, NEW x,
           x = [c EXCEPT !.current = c.history[Len(c.history)], !.history = SubSeq(@, 1, Len(@) - 1)]
    PROVE  /\ x \in Contexts
           /\ x.pending = c.pending /\ x.pages = c.pages /\ x.shown = c.shown /\ x.excused = c.excused
           /\ x.current = c.history[Len(c.history)] /\ Len(c.history) \in 1..Len(c.history)
           /\ \A i \in 1..Len(x.history) : i \in 1..Len(c.history) /\ x.history[i] = c.history[i]
<1> DEFINE h == c.history
           k == Len(h)
           t == SubSeq(h, 1, k - 1)
<1>1. h \in Seq(Shown) /\ h # <<>>
    BY DEF Contexts
<1> HIDE DEF h
<1>2. k \in 1..Len(h) /\ k \in Nat
    BY <1>1
<1>3. t \in Seq(Shown) /\ \A i \in 1..Len(t) : i \in 1..Len(h) /\ t[i] = h[i]
    BY <1>1
<1>4. h[k] \in Shown
    BY <1>1, <1>2
<1>5. x = [c EXCEPT !.current = h[k], !.history = t]
    BY DEF h, Contexts
<1> HIDE DEF k, t
<1>6. x \in Contexts
    BY <1>3, <1>4, <1>5 DEF Contexts
<1>7. x.pending = c.pending /\ x.pages = c.pages /\ x.shown = c.shown /\ x.current = h[k] /\ x.history = t
    BY <1>5 DEF Contexts
<1>8. x.excused = c.excused
    BY <1>5 DEF Contexts
<1> QED BY <1>2, <1>3, <1>6, <1>7, <1>8 DEF h, k

LEMMA UpKeeps ==
    ASSUME PaneInv, NEW s \in Sides, NavigatePaneUp(s)
    PROVE  PaneInv'
<1>0. PaneTypeOK /\ ShownOK /\ AnswersOK /\ QueuesOK /\ OrderOK /\ ProgressOK /\ ListedOK /\ AnsweringOK
    BY PaneParts
<1> DEFINE c == panes[s]
           x == [c EXCEPT !.current = c.history[Len(c.history)], !.history = SubSeq(@, 1, Len(@) - 1)]
<1>1. /\ UNCHANGED <<jobs, listings, contents, tokens, asked, answers, ready, requests>>
      /\ c.history # <<>> /\ c \in Contexts
    BY <1>0 DEF NavigatePaneUp, PaneTypeOK
<1>2. panes' = [panes EXCEPT ![s] = x]
    BY <1>0 DEF NavigatePaneUp, PaneTypeOK
<1> HIDE DEF c
<1>3. /\ x \in Contexts
      /\ x.pending = c.pending /\ x.pages = c.pages /\ x.shown = c.shown /\ x.excused = c.excused
      /\ x.current = c.history[Len(c.history)] /\ Len(c.history) \in 1..Len(c.history)
      /\ \A i \in 1..Len(x.history) : i \in 1..Len(c.history) /\ x.history[i] = c.history[i]
    BY <1>1, UpContext
<1> HIDE DEF x
<1>4. /\ panes' \in [Sides -> Contexts] /\ panes'[s] = x
      /\ \A r \in Sides : r # s => panes'[r] = panes[r]
    BY <1>0, <1>2, <1>3, PanesChange
<1>5. ShownOK'
  <2>1. PaneReads(c, contents)
      BY <1>0 DEF ShownOK, c
  <2>2. PaneReads(x, contents)
      BY <1>3, <2>1 DEF PaneReads
  <2> QED BY <1>0, <1>1, <1>4, <2>2 DEF ShownOK
<1>6. /\ panes'["remote"].pending = panes["remote"].pending /\ panes'["remote"].pages = panes["remote"].pages
      /\ panes'["remote"].shown = panes["remote"].shown
      /\ panes'["local"].pending = panes["local"].pending /\ panes'["local"].shown = panes["local"].shown
    BY <1>3, <1>4 DEF c, Sides
<1>7. panes'["remote"].excused = panes["remote"].excused /\ panes'["local"].excused = panes["local"].excused
  <2>1. \A r \in Sides : panes'[r].excused = panes[r].excused
    <3>1. ASSUME NEW r \in Sides PROVE panes'[r].excused = panes[r].excused
      <4>1. CASE r = s
          BY <1>3, <1>4, <4>1 DEF c
      <4>2. CASE r # s
          BY <1>4, <4>2
      <4> QED BY <4>1, <4>2
    <3> QED BY <3>1
  <2> QED BY <2>1 DEF Sides
<1>8. QueuesOK' /\ OrderOK' /\ ProgressOK' /\ ListedOK'
    BY <1>1, <1>6, QueuesSame
<1>9. AnsweringOK'
    BY <1>0, <1>1, <1>6, <1>7 DEF AnsweringOK, Waiting
<1>10. PaneTypeOK' /\ AnswersOK'
    BY <1>0, <1>1, <1>4 DEF PaneTypeOK, AnswersOK
<1> QED BY <1>5, <1>8, <1>9, <1>10 DEF PaneInv

LEMMA InterruptedKeeps ==
    ASSUME PaneInv, PanesInterrupted
    PROVE  PaneInv'
<1>0. PaneTypeOK /\ ShownOK /\ AnswersOK /\ QueuesOK /\ OrderOK /\ ProgressOK /\ ListedOK /\ AnsweringOK
    BY PaneParts
<1> DEFINE c == panes["remote"]
           x == [c EXCEPT !.excused = TRUE]
<1>1. /\ UNCHANGED <<jobs, listings, contents, tokens, requests>> /\ ready' = FALSE
      /\ asked' = <<>> /\ answers' = <<>> /\ c \in Contexts
    BY <1>0, PaneTypes DEF PanesInterrupted
<1>2. panes' = [panes EXCEPT !["remote"] = x]
    BY <1>0 DEF PanesInterrupted, PaneTypeOK
<1> HIDE DEF c
<1>3. /\ x \in Contexts /\ x.current = c.current /\ x.history = c.history
      /\ x.pending = c.pending /\ x.pages = c.pages /\ x.shown = c.shown
    BY <1>1 DEF Contexts
<1>e. x.excused
    BY <1>1 DEF Contexts
<1> HIDE DEF x
<1>4. /\ panes' \in [Sides -> Contexts] /\ panes'["remote"] = x
      /\ panes'["local"] = panes["local"]
    BY <1>0, <1>2, <1>3, PanesChange DEF Sides
<1>5. ShownOK'
    BY <1>0, <1>1, <1>3, <1>4 DEF ShownOK, PaneReads, c, Sides
<1>6. QueuesOK' /\ OrderOK' /\ ProgressOK' /\ ListedOK'
  <2>1. \A i \in 1..Len(<<>>) : FALSE
      OBVIOUS
  <2>2. OneEach(jobs["remote"], <<>>, <<>>)
      BY <1>0, <2>1 DEF QueuesOK, OneEach, Distinct, Apart
  <2>3. InOrder(jobs["remote"], <<>>, <<>>, RemotePending, requests)
      BY <1>0, <2>1 DEF OrderOK, InOrder, FirstsRise, JobsBefore, AllAtMost, AtMost
  <2>4. Progress(jobs["remote"], <<>>, <<>>, RemotePending, c.pages)
      BY <1>0, <2>1 DEF ProgressOK, Progress, c
  <2>5. Listed(jobs["remote"], <<>>, tokens, RemotePending, listings["remote"])
      BY <1>0, <2>1 DEF ListedOK, Listed
  <2>6. RemotePending' = RemotePending
      BY <1>3, <1>4 DEF RemotePending, c
  <2>7. QueuesOK' /\ OrderOK'
      BY <1>0, <1>1, <2>2, <2>3, <2>6 DEF QueuesOK, OrderOK
  <2>8. ProgressOK' /\ ListedOK'
      BY <1>0, <1>1, <1>3, <1>4, <2>4, <2>5, <2>6 DEF ProgressOK, ListedOK
  <2> QED BY <2>7, <2>8
<1>9. AnsweringOK'
    BY <1>0, <1>1, <1>e, <1>4 DEF AnsweringOK, Waiting
<1>10. PaneTypeOK'
  <2>1. <<>> \in Seq(Requests) /\ <<>> \in Seq(Replies) /\ FALSE \in BOOLEAN
      OBVIOUS
  <2> QED BY <1>0, <1>1, <1>4, <2>1 DEF PaneTypeOK
<1>11. AnswersOK'
    BY <1>0, <1>1 DEF AnswersOK, ArePages
<1> QED BY <1>5, <1>6, <1>9, <1>10, <1>11 DEF PaneInv

LEMMA ResumedKeeps ==
    ASSUME PaneInv, PanesResumed
    PROVE  PaneInv'
<1>0. PaneTypeOK /\ ShownOK /\ AnswersOK /\ QueuesOK /\ OrderOK /\ ProgressOK /\ ListedOK /\ AnsweringOK
    BY PaneParts
<1>1. UNCHANGED <<panes, jobs, listings, contents, tokens, asked, answers, requests>> /\ ready' = TRUE
    BY DEF PanesResumed
<1>2. QueuesOK' /\ OrderOK' /\ ProgressOK' /\ ListedOK'
    BY <1>1, QueuesSame
<1>3. AnsweringOK'
    BY <1>0, <1>1 DEF AnsweringOK
<1>4. PaneTypeOK' /\ ShownOK' /\ AnswersOK'
    BY <1>0, <1>1 DEF PaneTypeOK, ShownOK, AnswersOK
<1> QED BY <1>2, <1>3, <1>4 DEF PaneInv

------------------------------------------------------------------------------
(* Answers.                                                                  *)

\* The pages of a listing, one by one.
LEMMA PagesFollow ==
    ASSUME NEW k \in Nat
    PROVE  /\ All(k) \in Seq(Nat) /\ Append(All(k), k + 1) = All(k + 1) /\ All(0) = <<>>
           /\ Append(All(k), k + 1) # All(k) /\ Append(All(k), k + 1) # <<>>
<1>1. All(k) \in Seq(Nat) /\ Len(All(k)) = k
    BY DEF All
<1>2. Append(All(k), k + 1) = All(k + 1)
    BY DEF All
<1>3. All(0) = <<>>
    BY DEF All
<1>4. Append(All(k), k + 1) # All(k) /\ Append(All(k), k + 1) # <<>>
    BY <1>1
<1> QED BY <1>1, <1>2, <1>3, <1>4

\* What was read stays so when another folder is read.
LEMMA ReadsGrow ==
    ASSUME NEW known \in Seq(Contents), NEW e \in Contents
    PROVE  /\ \A p : PaneReads(p, known) => PaneReads(p, Append(known, e))
           /\ \A w : ArePages(w, known) => ArePages(w, Append(known, e))
           /\ \A ts : AreNext(ts, known) => AreNext(ts, Append(known, e))
<1> DEFINE t == Append(known, e)
<1>1. \A i \in 1..Len(known) : i \in 1..Len(t) /\ t[i] = known[i]
    BY OneMore
<1> HIDE DEF t
<1>2. \A c : Reads(c, known) => Reads(c, t)
    BY <1>1 DEF Reads
<1>3. \A m : IsPage(m, known) => IsPage(m, t)
    BY <1>1 DEF IsPage
<1>4. \A p : PaneReads(p, known) => PaneReads(p, t)
    BY <1>2 DEF PaneReads
<1>5. \A w : ArePages(w, known) => ArePages(w, t)
    BY <1>3 DEF ArePages
<1>6. \A ts : AreNext(ts, known) => AreNext(ts, t)
    BY <1>1 DEF AreNext
<1> QED BY <1>4, <1>5, <1>6 DEF t

\* The last listing that was made is kept.
LEMMA Retains ==
    ASSUME NEW q \in Seq(Nat), NEW l \in Nat
    PROVE  RetainOwnListing(q, l) \in Seq(Nat) /\ LastIs(RetainOwnListing(q, l), l)
<1>1. /\ Append(q, l) \in Seq(Nat) /\ Len(Append(q, l)) = Len(q) + 1 /\ Append(q, l)[Len(q) + 1] = l
      /\ Len(q) \in Nat
    OBVIOUS
<1>2. Retained \in Nat /\ Retained # 0
    BY FilePanesAssumption
<1>3. CASE Len(q) = 0
    BY <1>1, <1>2, <1>3 DEF RetainOwnListing, LastIs
<1>4. CASE Len(q) > 0
  <2> DEFINE t == Append(q, l)
  <2>1. t \in Seq(Nat) /\ t # <<>> /\ Len(t) \in Nat /\ Len(t) > 1 /\ t[Len(t)] = l
      BY <1>1, <1>4
  <2> HIDE DEF t
  <2>2. Tail(t) \in Seq(Nat) /\ Len(Tail(t)) > 0 /\ Tail(t)[Len(Tail(t))] = l
      BY <2>1
  <2>3. RetainOwnListing(q, l) = t \/ RetainOwnListing(q, l) = Tail(t)
      BY DEF RetainOwnListing, t
  <2> DEFINE u == RetainOwnListing(q, l)
  <2>4. u = t \/ u = Tail(t)
      BY <2>3
  <2> HIDE DEF u
  <2>5. u \in Seq(Nat) /\ Len(u) > 0 /\ u[Len(u)] = l
    <3>1. CASE u = t
        BY <2>1, <3>1
    <3>2. CASE u = Tail(t)
        BY <2>2, <3>2
    <3> QED BY <2>4, <3>1, <3>2
  <2> QED BY <2>5 DEF LastIs, u
<1> QED BY <1>1, <1>3, <1>4

\* A page of a listing, and the token for the next one.
LEMMA ListingPages ==
    ASSUME NEW known \in Seq(Contents), NEW l \in 1..Len(known), NEW n \in Nat \ {0}, NEW at \in 1..known[l].pages,
           NEW m, m = Page("Page", n, l, at, IF at < known[l].pages THEN NextPage(at) ELSE NoPage)
    PROVE  /\ m \in Replies /\ IsPage(m, known) /\ m.n = n /\ m.at = at /\ m.listing = l
           /\ m.next # NoPage => m.next \in 2..known[l].pages
<1>1. known[l] \in Contents
    OBVIOUS
<1>2. known[l].pages \in Nat
    BY <1>1 DEF Contents
<1> DEFINE k == known[l].pages
           e == IF at < k THEN at + 1 ELSE 0
<1>3. l \in Nat /\ at \in Nat /\ e \in Nat /\ (e # 0 => e \in 2..k) /\ e = IF at < k THEN at + 1 ELSE 0
    BY <1>2
<1>4. m = [kind |-> "Page", n |-> n, listing |-> l, at |-> at, next |-> e]
    BY DEF Page, NextPage, NoPage
<1> HIDE DEF e
<1>5. m \in Replies
    BY <1>3, <1>4 DEF Replies
<1>6. m.n = n /\ m.at = at /\ m.listing = l /\ m.next = e /\ m.kind = "Page"
    BY <1>4
<1>7. IsPage(m, known)
    BY <1>3, <1>6 DEF IsPage, NoPage
<1> QED BY <1>3, <1>5, <1>6, <1>7 DEF NoPage

LEMMA Refusals ==
    ASSUME NEW n \in Nat \ {0}
    PROVE  /\ Refusal(n) \in Replies /\ Refusal(n).n = n /\ Refusal(n).kind = "Error"
           /\ \A known : IsPage(Refusal(n), known)
BY DEF Refusal, Page, Replies, IsPage, NoPage

\* An answer is put behind the others, or nobody hears it.
LEMMA AnswerArrives ==
    ASSUME NEW ws \in Seq(Replies), NEW m \in Replies, NEW u, u = Append(ws, m) \/ u = ws
    PROVE  /\ u \in Seq(Replies)
           /\ \A known : ArePages(ws, known) /\ IsPage(m, known) => ArePages(u, known)
           /\ \A i \in 1..Len(u) : (i \in 1..Len(ws) /\ u[i] = ws[i]) \/ u[i] = m
           /\ \A n : With(ws, n) => With(u, n)
           /\ u = Append(ws, m) => With(u, m.n)
<1>1. \A i \in 1..Len(u) : (i \in 1..Len(ws) /\ u[i] = ws[i]) \/ u[i] = m
    BY OneMore
<1>2. u \in Seq(Replies)
    OBVIOUS
<1>3. /\ \A n : With(ws, n) => With(u, n)
      /\ u = Append(ws, m) => With(u, m.n)
    BY AddedNumbers
<1>4. \A known : ArePages(ws, known) /\ IsPage(m, known) => ArePages(u, known)
    BY <1>1 DEF ArePages
<1> QED BY <1>1, <1>2, <1>3, <1>4

\* What the answer says of the pages that came, keeps the order of the queues.
LEMMA AnswerGiven ==
    ASSUME NEW js, NEW as, NEW ws \in Seq(Replies), NEW m \in Replies, NEW u, u = Append(ws, m) \/ u = ws,
           NEW pending, NEW last, NEW got,
           OneEach(js, as, ws), InOrder(js, as, ws, pending, last), Progress(js, as, ws, pending, got),
           Without(js, m.n), Without(as, m.n), Without(ws, m.n), m.n <= last, pending # 0 => m.n <= pending,
           pending # 0 /\ m.n = pending /\ m.kind = "Page" => got = All(m.at - 1)
    PROVE  OneEach(js, as, u) /\ InOrder(js, as, u, pending, last) /\ Progress(js, as, u, pending, got)
<1>1. OneEach(js, as, u) /\ InOrder(js, as, u, pending, last)
    BY AddedAnswer
<1>2. \A i \in 1..Len(u) : (i \in 1..Len(ws) /\ u[i] = ws[i]) \/ u[i] = m
    BY AnswerArrives
<1>3. Progress(js, as, u, pending, got)
    BY <1>2 DEF Progress
<1> QED BY <1>1, <1>3

LEMMA ProgressLess ==
    ASSUME NEW js, NEW as, NEW ws, NEW pending, NEW got, Progress(js, as, ws, pending, got)
    PROVE  /\ js \in Seq(Requests) /\ js # <<>> =>
                /\ Progress(Tail(js), as, ws, pending, got)
                /\ pending # 0 /\ js[1].n = pending => got = <<>>
           /\ as \in Seq(Requests) /\ as # <<>> =>
                /\ Progress(js, Tail(as), ws, pending, got)
                /\ pending # 0 /\ as[1].n = pending => got = IF FirstPage(as[1]) THEN <<>> ELSE All(as[1].token - 1)
           /\ ws \in Seq(Replies) /\ ws # <<>> =>
                /\ Progress(js, as, Tail(ws), pending, got)
                /\ pending # 0 /\ ws[1].n = pending /\ ws[1].kind = "Page" => got = All(ws[1].at - 1)
<1>1. ASSUME js \in Seq(Requests), js # <<>>
      PROVE  Progress(Tail(js), as, ws, pending, got) /\ (pending # 0 /\ js[1].n = pending => got = <<>>)
  <2> DEFINE t == Tail(js)
  <2>1. 1 \in 1..Len(js) /\ \A i \in 1..Len(t) : i + 1 \in 1..Len(js) /\ t[i] = js[i + 1]
      BY <1>1, OneLess
  <2> HIDE DEF t
  <2>2. Progress(t, as, ws, pending, got) /\ (pending # 0 /\ js[1].n = pending => got = <<>>)
      BY <2>1 DEF Progress
  <2> QED BY <2>2 DEF t
<1>2. ASSUME as \in Seq(Requests), as # <<>>
      PROVE  /\ Progress(js, Tail(as), ws, pending, got)
             /\ pending # 0 /\ as[1].n = pending => got = IF FirstPage(as[1]) THEN <<>> ELSE All(as[1].token - 1)
  <2> DEFINE t == Tail(as)
  <2>1. 1 \in 1..Len(as) /\ \A i \in 1..Len(t) : i + 1 \in 1..Len(as) /\ t[i] = as[i + 1]
      BY <1>2, OneLess
  <2> HIDE DEF t
  <2>2. Progress(js, t, ws, pending, got)
      BY <2>1 DEF Progress
  <2>3. pending # 0 /\ as[1].n = pending => got = IF FirstPage(as[1]) THEN <<>> ELSE All(as[1].token - 1)
      BY <2>1 DEF Progress
  <2> QED BY <2>2, <2>3 DEF t
<1>3. ASSUME ws \in Seq(Replies), ws # <<>>
      PROVE  /\ Progress(js, as, Tail(ws), pending, got)
             /\ pending # 0 /\ ws[1].n = pending /\ ws[1].kind = "Page" => got = All(ws[1].at - 1)
  <2> DEFINE t == Tail(ws)
  <2>1. 1 \in 1..Len(ws) /\ \A i \in 1..Len(t) : i + 1 \in 1..Len(ws) /\ t[i] = ws[i + 1]
      BY <1>3, OneLess
  <2> HIDE DEF t
  <2>2. Progress(js, as, t, pending, got)
      BY <2>1 DEF Progress
  <2>3. pending # 0 /\ ws[1].n = pending /\ ws[1].kind = "Page" => got = All(ws[1].at - 1)
      BY <2>1 DEF Progress
  <2> QED BY <2>2, <2>3 DEF t
<1> QED BY <1>1, <1>2, <1>3

------------------------------------------------------------------------------
(* A folder was read.                                                        *)

\* The worker of the controlled endpoint sends what it read, or a refusal.
LEMMA RemotePublishes ==
    ASSUME PaneInv, jobs["remote"] # <<>>, jobs' = [jobs EXCEPT !["remote"] = Tail(@)],
           NEW m \in Replies, m.n = Head(jobs["remote"]).n, m.kind = "Page" => m.at = 1,
           answers' = Replied(m), UNCHANGED <<panes, asked, ready, requests>>
    PROVE  /\ QueuesOK' /\ ProgressOK' /\ AnsweringOK'
           /\ InOrder(jobs'["remote"], asked', answers', RemotePending', requests')
           /\ jobs' \in [Sides -> Seq(Requests)] /\ jobs'["remote"] = Tail(jobs["remote"])
           /\ answers' \in Seq(Replies)
           /\ \A known : ArePages(answers, known) /\ IsPage(m, known) => ArePages(answers', known)
<1>0. PaneTypeOK /\ QueuesOK /\ OrderOK /\ ProgressOK /\ AnsweringOK
    BY PaneParts
<1> DEFINE js == jobs["remote"]
           t == Tail(js)
           p == RemotePending
           got == panes["remote"].pages
           u == answers'
<1>1. /\ "remote" \in Sides /\ "local" \in Sides /\ js \in Seq(Requests) /\ asked \in Seq(Requests)
      /\ answers \in Seq(Replies) /\ js # <<>>
    BY <1>0, PaneTypes
<1>2. t \in Seq(Requests) /\ Head(js) = js[1]
    BY <1>1, OneLess
<1>3. /\ jobs' \in [Sides -> Seq(Requests)] /\ jobs'["remote"] = t
      /\ \A r \in Sides : r # "remote" => jobs'[r] = jobs[r]
    BY <1>0, <1>1, <1>2, JobsChange
<1>4. jobs'["local"] = jobs["local"]
    BY <1>1, <1>3
<1>5. (u = Append(answers, m) \/ u = answers) /\ (ready => u = Append(answers, m)) /\ (~ready => u = answers)
    BY DEF Replied
<1>6. m.n = js[1].n
    BY <1>2
<1>a. /\ OneEach(js, asked, answers) /\ InOrder(js, asked, answers, p, requests)
      /\ Progress(js, asked, answers, p, got)
    BY <1>0 DEF QueuesOK, OrderOK, ProgressOK
<1>b. /\ RemotePending' = p /\ panes'["remote"].pages = got /\ asked' = asked /\ requests' = requests /\ ready' = ready
      /\ panes' = panes
    BY DEF RemotePending
<1> HIDE DEF js, t, p, got, u
<1>7. /\ OneEach(t, asked, answers) /\ InOrder(t, asked, answers, p, requests)
      /\ Without(t, m.n) /\ Without(asked, m.n) /\ Without(answers, m.n)
      /\ m.n <= requests /\ (p # 0 => m.n <= p)
    BY <1>1, <1>6, <1>a, TakenJob DEF t
<1>8. Progress(t, asked, answers, p, got) /\ (p # 0 /\ m.n = p => got = <<>>)
    BY <1>1, <1>6, <1>a, ProgressLess DEF t
<1>9. p # 0 /\ m.n = p /\ m.kind = "Page" => got = All(m.at - 1)
  <2>1. All(0) = <<>>
      BY DEF All
  <2>2. m.kind = "Page" => m.at - 1 = 0
      OBVIOUS
  <2> QED BY <1>8, <2>1, <2>2
<1>10. OneEach(t, asked, u) /\ InOrder(t, asked, u, p, requests) /\ Progress(t, asked, u, p, got)
    BY <1>1, <1>5, <1>7, <1>8, <1>9, AnswerGiven
<1>11. /\ u \in Seq(Replies)
       /\ \A known : ArePages(answers, known) /\ IsPage(m, known) => ArePages(u, known)
       /\ \A n : With(answers, n) => With(u, n)
       /\ u = Append(answers, m) => With(u, m.n)
    BY <1>1, <1>5, AnswerArrives
<1>12. QueuesOK' /\ ProgressOK'
    BY <1>3, <1>10, <1>b DEF QueuesOK, ProgressOK, u
<1>13. InOrder(jobs'["remote"], asked', answers', RemotePending', requests')
    BY <1>3, <1>10, <1>b DEF u
<1>14. AnsweringOK'
  <2>1. \A n : With(js, n) => n = m.n \/ With(t, n)
      BY <1>1, <1>6, TakenMost DEF t
  <2>2. CASE ready
    <3>1. Waiting(panes["remote"]) => With(t, panes["remote"].pending) \/ With(asked, panes["remote"].pending)
                                        \/ With(u, panes["remote"].pending)
        BY <1>0, <1>5, <1>11, <2>1, <2>2 DEF AnsweringOK, js
    <3> QED BY <1>0, <1>3, <1>4, <1>b, <2>2, <3>1 DEF AnsweringOK, u
  <2>3. CASE ~ready
    <3>1. ~Waiting(panes["remote"])
        BY <1>0, <2>3 DEF AnsweringOK, Waiting
    <3> QED BY <1>0, <1>4, <1>5, <1>b, <2>3, <3>1 DEF AnsweringOK, u
  <2> QED BY <2>2, <2>3
<1> QED BY <1>3, <1>11, <1>12, <1>13, <1>14 DEF t, js, u

\* What the controlled endpoint read is the newest of what it has listed.
LEMMA RemotePublishKeeps ==
    ASSUME PaneInv, PublishLocalListing("remote")
    PROVE  PaneInv'
<1>0. PaneTypeOK /\ ShownOK /\ AnswersOK /\ QueuesOK /\ OrderOK /\ ProgressOK /\ ListedOK /\ AnsweringOK
    BY PaneParts
<1> DEFINE js == jobs["remote"]
           r == Head(js)
           l == Len(contents) + 1
           p == RemotePending
<1>1. /\ js # <<>> /\ js \in Seq(Requests) /\ contents \in Seq(Contents) /\ "remote" \in Sides
      /\ listings["remote"] \in Seq(Nat) /\ asked \in Seq(Requests) /\ requests \in Nat
    BY <1>0, PaneTypes DEF PublishLocalListing
<1>2. jobs' = [jobs EXCEPT !["remote"] = Tail(@)] /\ UNCHANGED <<asked, ready, requests>>
    BY DEF PublishLocalListing
<1>3. r \in Requests /\ r = js[1]
    BY <1>1, OneLess
<1>4. r.n \in Nat \ {0} /\ r.target.folder \in Folders \cup {"roots"}
    BY <1>3 DEF Requests, Targets
<1>5. ASSUME NEW t \in tokens, p # 0, t.n = p PROVE FALSE
    BY <1>0, <1>1, <1>5 DEF ListedOK, Listed
<1>6. CASE answers' = Replied(Refusal(r.n)) /\ UNCHANGED <<panes, listings, contents, tokens>>
  <2> DEFINE m == Refusal(r.n)
  <2>1. m \in Replies /\ m.n = r.n /\ m.kind = "Error" /\ IsPage(m, contents)
      BY <1>4, Refusals
  <2>2. m.kind = "Page" => m.at = 1
      BY <2>1
  <2> HIDE DEF m
  <2>3. answers' = Replied(m)
      BY <1>6 DEF m
  <2>4. /\ QueuesOK' /\ ProgressOK' /\ AnsweringOK'
        /\ InOrder(jobs'["remote"], asked', answers', RemotePending', requests')
        /\ jobs' \in [Sides -> Seq(Requests)] /\ answers' \in Seq(Replies)
        /\ \A known : ArePages(answers, known) /\ IsPage(m, known) => ArePages(answers', known)
      BY <1>1, <1>2, <1>6, <2>1, <2>2, <2>3, RemotePublishes
  <2>5. OrderOK'
      BY <1>0, <1>2, <1>6, <2>4 DEF OrderOK
  <2>6. ListedOK'
      BY <1>5, <1>6 DEF ListedOK, Listed, RemotePending
  <2>7. PaneTypeOK' /\ ShownOK'
      BY <1>0, <1>2, <1>6, <2>4 DEF PaneTypeOK, ShownOK
  <2>8. AnswersOK'
      BY <1>0, <1>6, <2>1, <2>4 DEF AnswersOK
  <2> QED BY <2>4, <2>5, <2>6, <2>7, <2>8 DEF PaneInv
<1>7. ASSUME NEW k \in 1..MaxPages,
             contents' = Append(contents, [folder |-> r.target.folder, pages |-> k]),
             listings' = [listings EXCEPT !["remote"] = RetainOwnListing(@, l)],
             SendNextPage(l, r.n, 1, tokens), UNCHANGED panes
      PROVE  PaneInv'
  <2> DEFINE e == [folder |-> r.target.folder, pages |-> k]
             known == contents'
             m == ListingPage(l, r.n, 1)
             q == RetainOwnListing(listings["remote"], l)
  <2>1. k \in Nat \ {0} /\ 1 \in 1..k /\ 1 \in Nat
      BY <1>7, FilePanesAssumption
  <2>2. e \in Contents
      BY <1>4, <2>1 DEF Contents
  <2>3. /\ known \in Seq(Contents) /\ l \in 1..Len(known) /\ l \in Nat /\ known[l] = e
    <3>1. known = Append(contents, e)
        BY <1>7
    <3> HIDE DEF e
    <3> QED BY <1>1, <2>2, <3>1, OneMore
  <2>4. known[l].pages = k
      BY <2>3
  <2>5. m = Page("Page", r.n, l, 1, IF 1 < known[l].pages THEN NextPage(1) ELSE NoPage)
      BY DEF ListingPage
  <2>6. answers' = Replied(m) /\ tokens' = WithToken(tokens, m)
      BY <1>7 DEF SendNextPage
  <2> HIDE DEF m, known, e
  <2>7. /\ m \in Replies /\ IsPage(m, known) /\ m.n = r.n /\ m.at = 1 /\ m.listing = l
        /\ m.next # NoPage => m.next \in 2..known[l].pages
      BY <1>4, <2>1, <2>3, <2>4, <2>5, ListingPages
  <2>8. /\ QueuesOK' /\ ProgressOK' /\ AnsweringOK'
        /\ InOrder(jobs'["remote"], asked', answers', RemotePending', requests')
        /\ jobs' \in [Sides -> Seq(Requests)] /\ answers' \in Seq(Replies) /\ jobs'["remote"] = Tail(js)
        /\ \A seen : ArePages(answers, seen) /\ IsPage(m, seen) => ArePages(answers', seen)
      BY <1>1, <1>2, <1>7, <2>6, <2>7, RemotePublishes
  <2>9. /\ \A c : PaneReads(c, contents) => PaneReads(c, known)
        /\ \A w : ArePages(w, contents) => ArePages(w, known)
        /\ \A ts : AreNext(ts, contents) => AreNext(ts, known)
    <3>1. known = Append(contents, e)
        BY <1>7 DEF known, e
    <3> QED BY <1>1, <2>2, <3>1, ReadsGrow
  <2>10. ShownOK'
      BY <1>0, <1>7, <2>9 DEF ShownOK, known
  <2>11. /\ q \in Seq(Nat) /\ LastIs(q, l)
      BY <1>1, <2>3, Retains
  <2>12. listings' \in [Sides -> Seq(Nat)] /\ listings'["remote"] = q
    <3>1. listings' = [listings EXCEPT !["remote"] = q]
        BY <1>7
    <3> HIDE DEF q
    <3> QED BY <1>0, <1>1, <2>11, <3>1, ListingsChange
  <2> HIDE DEF q, js, r, l
  <2>13. \A t \in tokens' : t \in tokens \/ (t = [listing |-> l, at |-> m.next, n |-> r.n] /\ m.next # NoPage)
      BY <2>6, <2>7 DEF WithToken
  <2>14. tokens' \subseteq [listing : Nat, at : Nat, n : Nat]
    <3>1. tokens \subseteq [listing : Nat, at : Nat, n : Nat]
        BY <1>0 DEF PaneTypeOK
    <3>2. m.next \in Nat
        BY <2>7 DEF Replies
    <3> QED BY <1>4, <2>3, <2>13, <3>1, <3>2
  <2>15. AnswersOK'
    <3>1. ArePages(answers', contents')
        BY <1>0, <2>7, <2>8, <2>9 DEF AnswersOK, known
    <3>2. AreNext(tokens', contents')
        BY <1>0, <2>3, <2>7, <2>9, <2>13 DEF AnswersOK, AreNext, known
    <3> QED BY <3>1, <3>2 DEF AnswersOK
  <2>16. r.n <= requests /\ (p # 0 => r.n <= p)
         /\ (\A i \in 1..Len(Tail(js)) : r.n < Tail(js)[i].n)
         /\ (\A i \in 1..Len(asked) : FirstPage(asked[i]) => r.n < asked[i].n)
         /\ (p # 0 => AtMost(Tail(js), p) /\ AtMost(asked, p))
    <3>1. OneEach(js, asked, answers) /\ InOrder(js, asked, answers, p, requests)
        BY <1>0 DEF QueuesOK, OrderOK, js
    <3> HIDE DEF p
    <3>0. js \in Seq(Requests) /\ js # <<>>
        BY <1>1
    <3>2. /\ InOrder(Tail(js), asked, answers, p, requests)
          /\ \A i \in 1..Len(Tail(js)) : js[1].n < Tail(js)[i].n
          /\ \A i \in 1..Len(asked) : FirstPage(asked[i]) => js[1].n < asked[i].n
          /\ js[1].n <= requests /\ (p # 0 => js[1].n <= p)
        BY <3>0, <3>1, TakenJob
    <3>3. p # 0 => AtMost(Tail(js), p) /\ AtMost(asked, p)
        BY <3>2 DEF InOrder, AllAtMost
    <3> QED BY <1>3, <3>2, <3>3
  <2>17. OrderOK'
      BY <1>0, <1>2, <2>8, <2>13, <2>16 DEF OrderOK
  <2>18. ListedOK'
    <3>1. p = RemotePending'
        BY <1>7 DEF RemotePending
    <3> SUFFICES ASSUME NEW t \in tokens', p # 0, t.n = p
                 PROVE  Tail(js) = <<>> /\ (\A i \in 1..Len(asked) : ~FirstPage(asked[i])) /\ LastIs(q, t.listing)
        BY <1>2, <2>8, <2>12, <3>1 DEF ListedOK, Listed
    <3>2. t = [listing |-> l, at |-> m.next, n |-> r.n]
        BY <1>5, <2>13
    <3>3. r.n = p /\ t.listing = l
        BY <3>2
    <3>4. \A i \in 1..Len(asked) : ~FirstPage(asked[i])
      <4>1. ASSUME NEW i \in 1..Len(asked), FirstPage(asked[i]) PROVE FALSE
        <5>1. p < asked[i].n /\ asked[i].n <= p
            BY <2>16, <3>3, <4>1 DEF AtMost
        <5>2. asked[i] \in Requests
            BY <1>1
        <5>3. asked[i].n \in Nat /\ p \in Nat
            BY <1>4, <3>3, <5>2 DEF Requests
        <5> QED BY <5>1, <5>3
      <4> QED BY <4>1
    <3>5. Tail(js) = <<>>
      <4>1. Tail(js) \in Seq(Requests)
          BY <1>1
      <4> DEFINE w == Tail(js)
      <4>2. ASSUME w # <<>> PROVE FALSE
        <5> HIDE DEF w
        <5>0. w \in Seq(Requests)
            BY <4>1 DEF w
        <5>1. 1 \in 1..Len(w) /\ w[1] \in Requests
            BY <4>2, <5>0
        <5>2. p < w[1].n /\ w[1].n <= p
            BY <2>16, <3>3, <5>1 DEF AtMost, w
        <5>3. w[1].n \in Nat /\ p \in Nat
            BY <1>4, <3>3, <5>1 DEF Requests
        <5> QED BY <5>2, <5>3
      <4> QED BY <4>2
    <3> QED BY <2>11, <3>3, <3>4, <3>5
  <2>19. PaneTypeOK'
      BY <1>0, <1>2, <1>7, <2>3, <2>8, <2>12, <2>14 DEF PaneTypeOK, known
  <2> QED BY <2>8, <2>10, <2>15, <2>17, <2>18, <2>19 DEF PaneInv
<1> QED BY <1>6, <1>7 DEF PublishLocalListing

\* A pane is told that it failed, or shows what was read.
LEMMA ToldContext ==
    ASSUME NEW c \in Contexts, NEW b \in BOOLEAN, NEW x, x = [c EXCEPT !.excused = b]
    PROVE  /\ x \in Contexts /\ x.current = c.current /\ x.history = c.history
           /\ x.pending = c.pending /\ x.pages = c.pages /\ x.shown = c.shown /\ x.excused = b
<1>1. x \in Contexts
    BY DEF Contexts
<1>2. /\ x.current = c.current /\ x.history = c.history
      /\ x.pending = c.pending /\ x.pages = c.pages /\ x.shown = c.shown
    BY DEF Contexts
<1>3. x.excused = b
    BY DEF Contexts
<1> QED BY <1>1, <1>2, <1>3

Showing(c, n, w) == [c EXCEPT !.shown = n, !.current = w]

LEMMA ShownContext ==
    ASSUME NEW c \in Contexts, NEW n \in Nat, NEW w \in Shown, NEW x, x = Showing(c, n, w)
    PROVE  /\ x \in Contexts /\ x.current = w /\ x.history = c.history
           /\ x.pending = c.pending /\ x.pages = c.pages /\ x.shown = n
<1>1. x \in Contexts
    BY DEF Contexts, Showing
<1>2. /\ x.current = w /\ x.history = c.history
      /\ x.pending = c.pending /\ x.pages = c.pages /\ x.shown = n
    BY DEF Contexts, Showing
<1> QED BY <1>1, <1>2

\* What the worker of the controller read is shown if it is still asked for.
LEMMA LocalPublishKeeps ==
    ASSUME PaneInv, PublishLocalListing("local")
    PROVE  PaneInv'
<1>0. PaneTypeOK /\ ShownOK /\ AnswersOK /\ QueuesOK /\ OrderOK /\ ProgressOK /\ ListedOK /\ AnsweringOK
    BY PaneParts
<1> DEFINE js == jobs["local"]
           r == Head(js)
           l == Len(contents) + 1
           c == panes["local"]
<1>1. /\ js # <<>> /\ js \in Seq(Requests) /\ contents \in Seq(Contents) /\ "remote" \in Sides /\ "local" \in Sides
      /\ listings["local"] \in Seq(Nat) /\ c \in Contexts
    BY <1>0, PaneTypes DEF PublishLocalListing, PaneTypeOK
<1>2. /\ jobs' = [jobs EXCEPT !["local"] = Tail(@)] /\ UNCHANGED <<asked, ready, requests>>
      /\ answers' = answers /\ tokens' = tokens
    BY DEF PublishLocalListing
<1>3. r \in Requests /\ r = js[1] /\ Tail(js) \in Seq(Requests)
    BY <1>1, OneLess
<1>4. r.n \in Nat \ {0} /\ r.target.folder \in Folders \cup {"roots"}
    BY <1>3 DEF Requests, Targets
<1>5. jobs' \in [Sides -> Seq(Requests)] /\ jobs'["local"] = Tail(js) /\ jobs'["remote"] = jobs["remote"]
  <2>1. jobs' = [jobs EXCEPT !["local"] = Tail(js)]
      BY <1>2
  <2> HIDE DEF js
  <2> QED BY <1>0, <1>1, <1>3, <2>1, JobsChange
<1>6. \A n : With(js, n) => n = r.n \/ With(Tail(js), n)
    BY <1>1, <1>3, TakenMost
<1> HIDE DEF js, r
\* Who waits is not the one whose job was taken.
<1>7. ASSUME panes'["remote"] = panes["remote"], panes'["local"].pending = c.pending,
             Waiting(panes["local"])' => Waiting(c) /\ c.pending # r.n
      PROVE  AnsweringOK'
  <2>1. Waiting(panes["local"])' => With(Tail(js), c.pending)
      BY <1>0, <1>6, <1>7 DEF AnsweringOK, js
  <2> QED BY <1>0, <1>2, <1>5, <1>7, <2>1 DEF AnsweringOK
<1>8. CASE panes' = [panes EXCEPT !["local"].excused = @ \/ panes["local"].pending = r.n]
           /\ UNCHANGED <<listings, contents>>
  <2> DEFINE b == c.excused \/ c.pending = r.n
             x == [c EXCEPT !.excused = b]
  <2>1. panes' = [panes EXCEPT !["local"] = x] /\ x = [c EXCEPT !.excused = b]
      BY <1>0, <1>8 DEF PaneTypeOK
  <2>2. b \in BOOLEAN
      BY <1>1 DEF Contexts
  <2> HIDE DEF b, x, c
  <2>3. /\ x \in Contexts /\ x.current = c.current /\ x.history = c.history
        /\ x.pending = c.pending /\ x.pages = c.pages /\ x.shown = c.shown /\ x.excused = b
      BY <1>1, <2>1, <2>2, ToldContext
  <2>4. panes' \in [Sides -> Contexts] /\ panes'["local"] = x /\ panes'["remote"] = panes["remote"]
      BY <1>0, <1>1, <2>1, <2>3, PanesChange
  <2>5. ShownOK'
      BY <1>0, <1>8, <2>3, <2>4 DEF ShownOK, PaneReads, c, Sides
  <2>6. QueuesOK' /\ OrderOK' /\ ProgressOK' /\ ListedOK'
      BY <1>2, <1>5, <1>8, <2>4, QueuesSame
  <2>7. AnsweringOK'
    <3>1. ~b => ~c.excused /\ c.pending # r.n
        BY DEF b
    <3>2. Waiting(x) => Waiting(c) /\ c.pending # r.n
        BY <2>3, <3>1 DEF Waiting
    <3> QED BY <1>7, <2>3, <2>4, <3>2
  <2>8. PaneTypeOK' /\ AnswersOK'
      BY <1>0, <1>2, <1>5, <1>8, <2>4 DEF PaneTypeOK, AnswersOK
  <2> QED BY <2>5, <2>6, <2>7, <2>8 DEF PaneInv
<1>9. ASSUME NEW k \in 1..MaxPages,
             contents' = Append(contents, [folder |-> r.target.folder, pages |-> k]),
             listings' = [listings EXCEPT !["local"] = RetainOwnListing(@, l)],
             panes' = IF panes["local"].pending = r.n
                          THEN [panes EXCEPT !["local"].shown = r.n,
                                    !["local"].current = [listing |-> l, folder |-> r.target.folder, pages |-> All(k)]]
                          ELSE panes
      PROVE  PaneInv'
  <2> DEFINE e == [folder |-> r.target.folder, pages |-> k]
             known == contents'
             w == [listing |-> l, folder |-> r.target.folder, pages |-> All(k)]
             q == RetainOwnListing(listings["local"], l)
             x == Showing(c, r.n, w)
  <2>a. k \in Nat \ {0}
    <3>1. MaxPages \in Nat
        BY FilePanesAssumption
    <3> QED BY <3>1
  <2>b. All(k) \in Seq(Nat)
      BY <2>a, PagesFollow
  <2>1. k \in Nat \ {0} /\ All(k) \in Seq(Nat)
      BY <2>a, <2>b
  <2>2. e \in Contents
      BY <1>4, <2>1 DEF Contents
  <2>3. /\ known \in Seq(Contents) /\ l \in 1..Len(known) /\ l \in Nat /\ known[l] = e
    <3>1. known = Append(contents, e)
        BY <1>9
    <3> HIDE DEF e
    <3> QED BY <1>1, <2>2, <3>1, OneMore
  <2>4. w \in Shown /\ Reads(w, known)
      BY <1>4, <2>1, <2>3 DEF Shown, Reads
  <2>5. q \in Seq(Nat) /\ listings' \in [Sides -> Seq(Nat)] /\ listings'["remote"] = listings["remote"]
    <3>1. q \in Seq(Nat)
        BY <1>1, <2>3, Retains
    <3>2. listings' = [listings EXCEPT !["local"] = q]
        BY <1>9
    <3> HIDE DEF q
    <3> QED BY <1>0, <1>1, <3>1, <3>2, ListingsChange
  <2>6. /\ \A d : PaneReads(d, contents) => PaneReads(d, known)
        /\ \A a : ArePages(a, contents) => ArePages(a, known)
        /\ \A ts : AreNext(ts, contents) => AreNext(ts, known)
    <3>1. known = Append(contents, e)
        BY <1>9
    <3> HIDE DEF known, e
    <3> QED BY <1>1, <2>2, <3>1, ReadsGrow
  <2> HIDE DEF e, w, q
  <2>7. AnswersOK'
      BY <1>0, <1>2, <2>6 DEF AnswersOK
  <2>8. CASE c.pending = r.n
    <3>1. panes' = [panes EXCEPT !["local"] = x]
        BY <1>0, <1>9, <2>8 DEF PaneTypeOK, Showing, w
    <3> HIDE DEF c
    <3> DEFINE n == r.n
    <3>b. n \in Nat /\ c \in Contexts /\ w \in Shown /\ x = Showing(c, n, w)
        BY <1>1, <1>4, <2>4
    <3> HIDE DEF x, n
    <3>c. /\ x \in Contexts /\ x.current = w /\ x.history = c.history
          /\ x.pending = c.pending /\ x.pages = c.pages /\ x.shown = n
        BY <3>b, ShownContext
    <3>2. /\ x \in Contexts /\ x.current = w /\ x.history = c.history
          /\ x.pending = c.pending /\ x.pages = c.pages /\ x.shown = r.n
        BY <3>c DEF n
    <3>3. panes' \in [Sides -> Contexts] /\ panes'["local"] = x /\ panes'["remote"] = panes["remote"]
        BY <1>0, <1>1, <3>1, <3>2, PanesChange
    <3>4. ShownOK'
      <4>1. PaneReads(c, known) /\ PaneReads(panes["remote"], known)
          BY <1>0, <1>1, <2>6 DEF ShownOK, c
      <4>2. PaneReads(x, known)
          BY <2>4, <3>2, <4>1 DEF PaneReads
      <4> QED BY <3>3, <4>1, <4>2 DEF ShownOK, Sides
    <3>5. QueuesOK' /\ OrderOK' /\ ProgressOK' /\ ListedOK'
        BY <1>2, <1>5, <2>5, <3>3, QueuesSame
    <3>6. AnsweringOK'
      <4>1. ~Waiting(x)
          BY <2>8, <3>2 DEF Waiting
      <4> QED BY <1>7, <3>2, <3>3, <4>1
    <3>7. PaneTypeOK'
        BY <1>0, <1>2, <1>5, <2>3, <2>5, <3>3 DEF PaneTypeOK
    <3> QED BY <2>7, <3>4, <3>5, <3>6, <3>7 DEF PaneInv
  <2>9. CASE c.pending # r.n
    <3>1. panes' = panes
        BY <1>9, <2>9
    <3>2. ShownOK'
        BY <1>0, <2>6, <3>1 DEF ShownOK
    <3>3. QueuesOK' /\ OrderOK' /\ ProgressOK' /\ ListedOK'
        BY <1>2, <1>5, <2>5, <3>1, QueuesSame
    <3>4. AnsweringOK'
        BY <1>7, <2>9, <3>1
    <3>5. PaneTypeOK'
        BY <1>0, <1>2, <1>5, <2>3, <2>5, <3>1 DEF PaneTypeOK
    <3> QED BY <2>7, <3>2, <3>3, <3>4, <3>5 DEF PaneInv
  <2> QED BY <2>8, <2>9
<1> QED BY <1>8, <1>9 DEF PublishLocalListing, r, js

------------------------------------------------------------------------------
(* The controlled endpoint takes a request.                                  *)

LEMMA ListedTail ==
    ASSUME NEW js, NEW as \in Seq(Requests), as # <<>>, NEW ts, NEW us, NEW pending, NEW made,
           Listed(js, as, ts, pending, made), \A t \in us : \E o \in ts : o.n = t.n /\ o.listing = t.listing
    PROVE  Listed(js, Tail(as), us, pending, made)
<1> DEFINE r == Tail(as)
<1>1. \A i \in 1..Len(r) : i + 1 \in 1..Len(as) /\ r[i] = as[i + 1]
    BY OneLess
<1> HIDE DEF r
<1>2. ASSUME NEW t \in us, pending # 0, t.n = pending
      PROVE  js = <<>> /\ (\A i \in 1..Len(r) : ~FirstPage(r[i])) /\ LastIs(made, t.listing)
  <2>1. PICK o \in ts : o.n = t.n /\ o.listing = t.listing
      OBVIOUS
  <2>2. js = <<>> /\ (\A i \in 1..Len(as) : ~FirstPage(as[i])) /\ LastIs(made, t.listing)
      BY <1>2, <2>1 DEF Listed
  <2> QED BY <1>1, <2>2
<1> QED BY <1>2 DEF Listed, r

\* What holds once the first request is taken, and what it asked for.
LEMMA RequestTaken ==
    ASSUME PaneInv, asked # <<>>
    PROVE  /\ asked[1] \in Requests /\ Head(asked) = asked[1] /\ Tail(asked) \in Seq(Requests)
           /\ OneEach(jobs["remote"], Tail(asked), answers)
           /\ InOrder(jobs["remote"], Tail(asked), answers, RemotePending, requests)
           /\ Progress(jobs["remote"], Tail(asked), answers, RemotePending, panes["remote"].pages)
           /\ Without(jobs["remote"], asked[1].n) /\ Without(Tail(asked), asked[1].n) /\ Without(answers, asked[1].n)
           /\ asked[1].n <= requests /\ (RemotePending # 0 => asked[1].n <= RemotePending)
           /\ RemotePending # 0 /\ asked[1].n = RemotePending =>
                 panes["remote"].pages = IF FirstPage(asked[1]) THEN <<>> ELSE All(asked[1].token - 1)
           /\ FirstPage(asked[1]) =>
                /\ \A i \in 1..Len(jobs["remote"]) : jobs["remote"][i].n < asked[1].n
                /\ \A i \in 1..Len(Tail(asked)) : FirstPage(Tail(asked)[i]) => asked[1].n < Tail(asked)[i].n
           /\ \A n : With(asked, n) => n = asked[1].n \/ With(Tail(asked), n)
           /\ \A us : (\A t \in us : \E o \in tokens : o.n = t.n /\ o.listing = t.listing) =>
                 Listed(jobs["remote"], Tail(asked), us, RemotePending, listings["remote"])
<1> DEFINE js == jobs["remote"]
           p == RemotePending
           got == panes["remote"].pages
<1>1. /\ asked \in Seq(Requests) /\ asked # <<>>
      /\ OneEach(js, asked, answers) /\ InOrder(js, asked, answers, p, requests)
      /\ Progress(js, asked, answers, p, got) /\ Listed(js, asked, tokens, p, listings["remote"])
    BY PaneParts, PaneTypes DEF QueuesOK, OrderOK, ProgressOK, ListedOK
<1> HIDE DEF js, p, got
<1>2. asked[1] \in Requests /\ Head(asked) = asked[1] /\ Tail(asked) \in Seq(Requests)
    BY <1>1, OneLess
<1>3. /\ OneEach(js, Tail(asked), answers) /\ InOrder(js, Tail(asked), answers, p, requests)
      /\ Without(js, asked[1].n) /\ Without(Tail(asked), asked[1].n) /\ Without(answers, asked[1].n)
      /\ asked[1].n <= requests /\ (p # 0 => asked[1].n <= p)
      /\ FirstPage(asked[1]) =>
           /\ \A i \in 1..Len(js) : js[i].n < asked[1].n
           /\ \A i \in 1..Len(Tail(asked)) : FirstPage(Tail(asked)[i]) => asked[1].n < Tail(asked)[i].n
  <2>1. asked \in Seq(Requests) /\ asked # <<>> /\ OneEach(js, asked, answers) /\ InOrder(js, asked, answers, p, requests)
      BY <1>1
  <2>a. AtMost(asked, requests) /\ (p # 0 => AtMost(asked, p))
      BY <2>1 DEF InOrder, AllAtMost
  <2> HIDE DEF FirstPage
  <2>2. /\ OneEach(js, Tail(asked), answers) /\ InOrder(js, Tail(asked), answers, p, requests)
        /\ Without(js, asked[1].n) /\ Without(Tail(asked), asked[1].n) /\ Without(answers, asked[1].n)
      BY <2>1, TakenAsked
  <2>3. asked[1].n <= requests /\ (p # 0 => asked[1].n <= p)
      BY <2>1, <2>a, TakenMost
  <2>4. FirstPage(asked[1]) =>
           /\ \A i \in 1..Len(js) : js[i].n < asked[1].n
           /\ \A i \in 1..Len(Tail(asked)) : FirstPage(Tail(asked)[i]) => asked[1].n < Tail(asked)[i].n
      BY <2>1, TakenAsked
  <2> QED BY <2>2, <2>3, <2>4
<1>4. /\ Progress(js, Tail(asked), answers, p, got)
      /\ p # 0 /\ asked[1].n = p => got = IF FirstPage(asked[1]) THEN <<>> ELSE All(asked[1].token - 1)
    BY <1>1, ProgressLess
<1>5. \A n : With(asked, n) => n = asked[1].n \/ With(Tail(asked), n)
    BY <1>1, TakenMost
<1>6. \A us : (\A t \in us : \E o \in tokens : o.n = t.n /\ o.listing = t.listing) =>
         Listed(js, Tail(asked), us, p, listings["remote"])
    BY <1>1, ListedTail
<1> QED BY <1>2, <1>3, <1>4, <1>5, <1>6 DEF js, p, got

\* A request is answered at once.
LEMMA RequestAnswered ==
    ASSUME PaneInv, asked # <<>>, asked' = Tail(asked), NEW m \in Replies, m.n = asked[1].n,
           m.kind = "Page" => ~FirstPage(asked[1]) /\ m.at = asked[1].token,
           answers' = Replied(m), UNCHANGED <<panes, jobs, listings, contents, ready, requests>>,
           IsPage(m, contents), tokens' \subseteq [listing : Nat, at : Nat, n : Nat],
           AreNext(tokens', contents), \A t \in tokens' : \E o \in tokens : o.n = t.n /\ o.listing = t.listing
    PROVE  PaneInv'
<1>0. PaneTypeOK /\ ShownOK /\ AnswersOK /\ QueuesOK /\ OrderOK /\ ProgressOK /\ ListedOK /\ AnsweringOK
    BY PaneParts
<1> DEFINE js == jobs["remote"]
           t == Tail(asked)
           p == RemotePending
           got == panes["remote"].pages
           u == answers'
<1>1. /\ t \in Seq(Requests) /\ OneEach(js, t, answers) /\ InOrder(js, t, answers, p, requests)
      /\ Progress(js, t, answers, p, got)
      /\ Without(js, m.n) /\ Without(t, m.n) /\ Without(answers, m.n)
      /\ m.n <= requests /\ (p # 0 => m.n <= p)
      /\ \A n : With(asked, n) => n = m.n \/ With(t, n)
    BY RequestTaken
<1>2. p # 0 /\ m.n = p /\ m.kind = "Page" => got = All(m.at - 1)
  <2>1. p # 0 /\ asked[1].n = p => got = IF FirstPage(asked[1]) THEN <<>> ELSE All(asked[1].token - 1)
      BY RequestTaken
  <2> QED BY <2>1
<1>3. (u = Append(answers, m) \/ u = answers) /\ (ready => u = Append(answers, m))
    BY DEF Replied
<1>4. answers \in Seq(Replies)
    BY <1>0, PaneTypes
<1>5. /\ RemotePending' = p /\ panes'["remote"].pages = got /\ asked' = t /\ jobs' = jobs
    BY DEF RemotePending
<1>6. ~ready => asked = <<>>
    BY <1>0 DEF AnsweringOK
<1>7. Listed(js, t, tokens', p, listings["remote"])
    BY RequestTaken
<1> HIDE DEF t, p, got, u, js
<1>8. OneEach(js, t, u) /\ InOrder(js, t, u, p, requests) /\ Progress(js, t, u, p, got)
    BY <1>1, <1>2, <1>3, <1>4, AnswerGiven
<1>9. /\ u \in Seq(Replies)
      /\ \A known : ArePages(answers, known) /\ IsPage(m, known) => ArePages(u, known)
      /\ \A n : With(answers, n) => With(u, n)
      /\ u = Append(answers, m) => With(u, m.n)
    BY <1>3, <1>4, AnswerArrives
<1>10. QueuesOK' /\ ProgressOK' /\ ListedOK'
    BY <1>5, <1>7, <1>8 DEF QueuesOK, ProgressOK, ListedOK, u, js
<1>11. OrderOK'
  <2>1. \A o \in tokens' : o.n <= requests
      BY <1>0 DEF OrderOK
  <2> QED BY <1>5, <1>8, <2>1 DEF OrderOK, u, js
<1>12. PaneTypeOK' /\ ShownOK'
    BY <1>0, <1>1, <1>5, <1>9 DEF PaneTypeOK, ShownOK, u
<1>13. AnswersOK'
    BY <1>0, <1>9 DEF AnswersOK, u
<1>14. AnsweringOK'
  <2>1. ready /\ ready'
      BY <1>6
  <2>2. Waiting(panes["remote"]) => With(js, panes["remote"].pending) \/ With(t, panes["remote"].pending)
                                      \/ With(u, panes["remote"].pending)
      BY <1>0, <1>1, <1>3, <1>9, <2>1 DEF AnsweringOK, js
  <2> QED BY <1>0, <1>5, <2>1, <2>2 DEF AnsweringOK, u, js
<1> QED BY <1>10, <1>11, <1>12, <1>13, <1>14 DEF PaneInv

\* A request for a folder becomes the job of the worker.
LEMMA RequestQueued ==
    ASSUME PaneInv, asked # <<>>, asked' = Tail(asked), FirstPage(asked[1]),
           jobs' = [jobs EXCEPT !["remote"] = Append(@, asked[1])],
           UNCHANGED <<panes, listings, contents, tokens, answers, ready, requests>>
    PROVE  PaneInv'
<1>0. PaneTypeOK /\ ShownOK /\ AnswersOK /\ QueuesOK /\ OrderOK /\ ProgressOK /\ ListedOK /\ AnsweringOK
    BY PaneParts
<1> DEFINE js == jobs["remote"]
           t == Tail(asked)
           p == RemotePending
           got == panes["remote"].pages
           m == asked[1]
           u == Append(js, m)
<1>1. /\ m \in Requests /\ js \in Seq(Requests) /\ asked \in Seq(Requests) /\ "remote" \in Sides
      /\ t \in Seq(Requests) /\ OneEach(js, t, answers) /\ InOrder(js, t, answers, p, requests)
      /\ Progress(js, t, answers, p, got)
      /\ Without(js, m.n) /\ Without(t, m.n) /\ Without(answers, m.n)
      /\ m.n <= requests /\ (p # 0 => m.n <= p)
      /\ \A n : With(asked, n) => n = m.n \/ With(t, n)
    BY <1>0, PaneTypes, RequestTaken
<1>2. /\ p # 0 /\ m.n = p => got = <<>>
      /\ \A i \in 1..Len(js) : js[i].n < m.n
      /\ \A i \in 1..Len(t) : FirstPage(t[i]) => m.n < t[i].n
    BY RequestTaken
<1>3. FirstPage(m) /\ 1 \in 1..Len(asked)
    BY <1>1, OneLess
<1>4. ASSUME NEW o \in tokens, p # 0, o.n = p PROVE FALSE
    BY <1>0, <1>3, <1>4 DEF ListedOK, Listed
<1>5. u \in Seq(Requests) /\ jobs' = [jobs EXCEPT !["remote"] = u]
    BY <1>1
<1> HIDE DEF m
<1>6. /\ \A i \in 1..Len(u) : (i \in 1..Len(js) /\ u[i] = js[i]) \/ u[i] = m
      /\ \A n : With(js, n) => With(u, n)
      /\ With(u, m.n)
    BY <1>1, OneMore, AddedNumbers
<1>7. RemotePending' = p /\ panes'["remote"].pages = got /\ asked' = t
    BY DEF RemotePending
<1> HIDE DEF t, p, got, js
<1>8. OneEach(u, t, answers) /\ InOrder(u, t, answers, p, requests)
    BY <1>1, <1>2, AddedJob
<1> HIDE DEF u
<1>9. Progress(u, t, answers, p, got)
    BY <1>1, <1>2, <1>6 DEF Progress
<1>10. jobs' \in [Sides -> Seq(Requests)] /\ jobs'["remote"] = u /\ jobs'["local"] = jobs["local"]
  <2>1. "local" \in Sides /\ "local" # "remote"
      BY DEF Sides
  <2> QED BY <1>0, <1>1, <1>5, <2>1, JobsChange
<1>11. QueuesOK' /\ ProgressOK'
    BY <1>7, <1>8, <1>9, <1>10 DEF QueuesOK, ProgressOK
<1>12. OrderOK'
    BY <1>0, <1>7, <1>8, <1>10 DEF OrderOK
<1>13. ListedOK'
    BY <1>4, <1>7 DEF ListedOK, Listed
<1>14. AnsweringOK'
  <2>1. ~ready => asked = <<>> /\ panes["remote"].excused
      BY <1>0 DEF AnsweringOK
  <2>2. Waiting(panes["remote"]) => With(u, panes["remote"].pending) \/ With(t, panes["remote"].pending)
                                      \/ With(answers, panes["remote"].pending)
      BY <1>0, <1>1, <1>6 DEF AnsweringOK, js
  <2> QED BY <1>0, <1>7, <1>10, <2>1, <2>2 DEF AnsweringOK
<1>15. PaneTypeOK' /\ ShownOK' /\ AnswersOK'
    BY <1>0, <1>1, <1>7, <1>10 DEF PaneTypeOK, ShownOK, AnswersOK
<1> QED BY <1>11, <1>12, <1>13, <1>14, <1>15 DEF PaneInv

\* A request for a page of a listing that is forgotten is not answered; it is not
\* what the pane waits for, whose listing is the last.
LEMMA RequestForgotten ==
    ASSUME PaneInv, asked # <<>>, asked' = Tail(asked), asked[1].n # RemotePending,
           tokens' \subseteq tokens, UNCHANGED <<panes, jobs, listings, contents, answers, ready, requests>>
    PROVE  PaneInv'
<1>0. PaneTypeOK /\ ShownOK /\ AnswersOK /\ QueuesOK /\ OrderOK /\ ProgressOK /\ ListedOK /\ AnsweringOK
    BY PaneParts
<1>1. /\ Tail(asked) \in Seq(Requests) /\ OneEach(jobs["remote"], Tail(asked), answers)
      /\ InOrder(jobs["remote"], Tail(asked), answers, RemotePending, requests)
      /\ Progress(jobs["remote"], Tail(asked), answers, RemotePending, panes["remote"].pages)
      /\ \A n : With(asked, n) => n = asked[1].n \/ With(Tail(asked), n)
      /\ Listed(jobs["remote"], Tail(asked), tokens', RemotePending, listings["remote"])
    BY RequestTaken
<1>2. RemotePending' = RemotePending /\ panes'["remote"].pages = panes["remote"].pages
    BY DEF RemotePending
<1>3. QueuesOK' /\ ProgressOK' /\ ListedOK'
    BY <1>1, <1>2 DEF QueuesOK, ProgressOK, ListedOK
<1>4. OrderOK'
    BY <1>0, <1>1, <1>2 DEF OrderOK
<1>5. AnsweringOK'
  <2>1. ~ready => asked = <<>>
      BY <1>0 DEF AnsweringOK
  <2>2. Waiting(panes["remote"]) => With(jobs["remote"], panes["remote"].pending)
                                      \/ With(Tail(asked), panes["remote"].pending)
                                      \/ With(answers, panes["remote"].pending)
      BY <1>0, <1>1 DEF AnsweringOK, RemotePending
  <2> QED BY <1>0, <2>1, <2>2 DEF AnsweringOK
<1>6. PaneTypeOK' /\ ShownOK'
    BY <1>0, <1>1 DEF PaneTypeOK, ShownOK
<1>7. AnswersOK'
    BY <1>0 DEF AnswersOK, AreNext
<1> QED BY <1>3, <1>4, <1>5, <1>6, <1>7 DEF PaneInv

LEMMA RequestKeeps ==
    ASSUME PaneInv, HandleListingRequest
    PROVE  PaneInv'
<1>0. PaneTypeOK /\ ShownOK /\ AnswersOK /\ QueuesOK /\ OrderOK /\ ProgressOK /\ ListedOK /\ AnsweringOK
    BY PaneParts
<1> DEFINE m == Head(asked)
           known == {t \in tokens : t.n = m.n /\ t.at = m.token}
           stale == IF m.token # NoPage THEN known = {}
                    ELSE m.target.by = "entry" /\ ~OwnListing("remote", m.target.listing)
           kept == {t \in known : OwnListing("remote", t.listing)}
<1>1. /\ asked # <<>> /\ asked' = Tail(asked) /\ UNCHANGED <<panes, listings, contents, ready, requests>>
      /\ jobs' = IF m.token = NoPage /\ ~stale THEN [jobs EXCEPT !["remote"] = Append(@, m)] ELSE jobs
    BY DEF HandleListingRequest
<1>2. \/ /\ kept = {}
         /\ answers' = IF stale THEN Replied(Refusal(m.n)) ELSE answers
         /\ tokens' = tokens \ known
      \/ \E t \in kept : SendNextPage(t.listing, m.n, t.at, tokens \ {t})
    BY DEF HandleListingRequest
<1>3. /\ m \in Requests /\ m = asked[1] /\ contents \in Seq(Contents)
    BY <1>0, <1>1, PaneTypes, RequestTaken
<1>4. m.n \in Nat \ {0} /\ m.token \in Nat
    BY <1>3 DEF Requests
<1>5. \A t \in tokens : t.listing \in 1..Len(contents) /\ t.at \in 2..contents[t.listing].pages /\ t \in [listing : Nat, at : Nat, n : Nat]
    BY <1>0 DEF AnswersOK, AreNext, PaneTypeOK
<1>6. \A t \in tokens : t.at # NoPage
  <2>1. ASSUME NEW t \in tokens PROVE t.at # 0
      BY <1>5
  <2> QED BY <2>1 DEF NoPage
<1>7. FirstPage(m) => known = {} /\ kept = {}
    BY <1>6 DEF FirstPage
<1>8. FirstPage(m) <=> m.token = NoPage
    BY DEF FirstPage
<1>9. /\ \A t \in known : t \in tokens /\ t.n = m.n /\ t.at = m.token
      /\ \A t \in kept : t \in known
      /\ ~FirstPage(m) => (stale <=> known = {})
    BY <1>8
<1>10. CASE stale
  <2>1. known = {} /\ kept = {}
      BY <1>7, <1>9, <1>10
  <2>2. answers' = Replied(Refusal(m.n)) /\ tokens' = tokens /\ jobs' = jobs
      BY <1>1, <1>2, <1>10, <2>1
  <2> DEFINE w == Refusal(m.n)
  <2>3. w \in Replies /\ w.n = m.n /\ w.kind = "Error" /\ IsPage(w, contents)
      BY <1>4, Refusals
  <2> HIDE DEF w, known, stale, kept, m
  <2>4. w.kind = "Page" => ~FirstPage(asked[1]) /\ w.at = asked[1].token
      BY <2>3
  <2>5. answers' = Replied(w) /\ w.n = asked[1].n
      BY <1>3, <2>2, <2>3 DEF w
  <2>6. /\ tokens' \subseteq [listing : Nat, at : Nat, n : Nat] /\ AreNext(tokens', contents)
        /\ \A t \in tokens' : \E o \in tokens : o.n = t.n /\ o.listing = t.listing
      BY <1>0, <2>2 DEF AnswersOK, PaneTypeOK
  <2> QED BY <1>1, <2>2, <2>3, <2>4, <2>5, <2>6, RequestAnswered
<1>11. CASE ~stale /\ FirstPage(m)
  <2>1. jobs' = [jobs EXCEPT !["remote"] = Append(@, m)]
      BY <1>1, <1>8, <1>11
  <2>2. answers' = answers /\ tokens' = tokens
      BY <1>2, <1>7, <1>11
  <2> HIDE DEF known, stale, kept, m
  <2> QED BY <1>1, <1>3, <1>11, <2>1, <2>2, RequestQueued
<1>12. CASE ~stale /\ ~FirstPage(m) /\ kept = {}
  <2>1. jobs' = jobs /\ answers' = answers /\ tokens' \subseteq tokens
      BY <1>1, <1>2, <1>8, <1>12
  <2>2. PICK t \in known : TRUE
      BY <1>9, <1>12
  <2>3. m.n # RemotePending
    <3> SUFFICES ASSUME m.n = RemotePending PROVE FALSE
        OBVIOUS
    <3>1. RemotePending # 0 /\ t.n = RemotePending /\ t \in tokens
        BY <1>4, <1>9, <2>2
    <3>2. LastIs(listings["remote"], t.listing)
        BY <1>0, <3>1 DEF ListedOK, Listed
    <3>3. listings["remote"] \in Seq(Nat)
        BY <1>0, PaneTypes
    <3> DEFINE q == listings["remote"]
    <3>4. q \in Seq(Nat) /\ Len(q) > 0 /\ q[Len(q)] = t.listing
        BY <3>2, <3>3 DEF LastIs
    <3> HIDE DEF q
    <3>5. Len(q) \in DOMAIN q
        BY <3>4
    <3>6. OwnListing("remote", t.listing)
        BY <3>4, <3>5 DEF OwnListing, q
    <3> QED BY <1>12, <2>2, <3>6
  <2> HIDE DEF known, stale, kept, m
  <2> QED BY <1>1, <1>3, <2>1, <2>3, RequestForgotten
<1>13. ASSUME ~stale, ~FirstPage(m), NEW t \in kept, SendNextPage(t.listing, m.n, t.at, tokens \ {t})
       PROVE  PaneInv'
  <2>1. t \in tokens /\ t.n = m.n /\ t.at = m.token /\ jobs' = jobs
      BY <1>1, <1>8, <1>9, <1>13
  <2> DEFINE l == t.listing
             w == ListingPage(l, m.n, t.at)
  <2>2. l \in 1..Len(contents) /\ t.at \in 2..contents[l].pages /\ t \in [listing : Nat, at : Nat, n : Nat]
      BY <1>5, <2>1
  <2>3. t.at \in 1..contents[l].pages
    <3>1. contents[l] \in Contents
        BY <1>3, <2>2
    <3>2. contents[l].pages \in Nat
        BY <3>1 DEF Contents
    <3> QED BY <2>2, <3>2
  <2>4. w = Page("Page", m.n, l, t.at, IF t.at < contents[l].pages THEN NextPage(t.at) ELSE NoPage)
      BY <1>1 DEF ListingPage
  <2>5. answers' = Replied(w) /\ tokens' = WithToken(tokens \ {t}, w)
      BY <1>13 DEF SendNextPage
  <2> HIDE DEF w, l, known, stale, kept, m
  <2>6. /\ w \in Replies /\ IsPage(w, contents) /\ w.n = m.n /\ w.at = t.at /\ w.listing = l
        /\ w.next # NoPage => w.next \in 2..contents[l].pages
      BY <1>3, <1>4, <2>2, <2>3, <2>4, ListingPages
  <2>7. \A o \in tokens' : o \in tokens \/ (o = [listing |-> l, at |-> w.next, n |-> m.n] /\ w.next # NoPage)
      BY <2>5, <2>6 DEF WithToken
  <2>8. tokens' \subseteq [listing : Nat, at : Nat, n : Nat]
    <3>1. tokens \subseteq [listing : Nat, at : Nat, n : Nat]
        BY <1>0 DEF PaneTypeOK
    <3>2. w.next \in Nat /\ l \in Nat
        BY <2>2, <2>6 DEF Replies, l
    <3> QED BY <1>4, <2>7, <3>1, <3>2
  <2>9. AreNext(tokens', contents)
      BY <1>0, <2>2, <2>6, <2>7 DEF AnswersOK, AreNext
  <2>10. \A o \in tokens' : \E e \in tokens : e.n = o.n /\ e.listing = o.listing
      BY <2>1, <2>7 DEF l
  <2>11. w.n = asked[1].n /\ (w.kind = "Page" => ~FirstPage(asked[1]) /\ w.at = asked[1].token)
      BY <1>3, <1>13, <2>1, <2>6
  <2> QED BY <1>1, <2>1, <2>5, <2>6, <2>8, <2>9, <2>10, <2>11, RequestAnswered
<1> QED BY <1>2, <1>7, <1>10, <1>11, <1>12, <1>13

------------------------------------------------------------------------------
(* The controller takes an answer.                                           *)

\* What holds once the first answer is taken, and what it brings.
LEMMA AnswerTaken ==
    ASSUME PaneInv, answers # <<>>
    PROVE  /\ answers[1] \in Replies /\ Head(answers) = answers[1] /\ Tail(answers) \in Seq(Replies)
           /\ OneEach(jobs["remote"], asked, Tail(answers))
           /\ InOrder(jobs["remote"], asked, Tail(answers), RemotePending, requests)
           /\ Progress(jobs["remote"], asked, Tail(answers), RemotePending, panes["remote"].pages)
           /\ Without(jobs["remote"], answers[1].n) /\ Without(asked, answers[1].n) /\ Without(Tail(answers), answers[1].n)
           /\ answers[1].n <= requests /\ (RemotePending # 0 => answers[1].n <= RemotePending)
           /\ RemotePending # 0 /\ answers[1].n = RemotePending /\ answers[1].kind = "Page" =>
                 panes["remote"].pages = All(answers[1].at - 1)
           /\ \A n : With(answers, n) => n = answers[1].n \/ With(Tail(answers), n)
           /\ IsPage(answers[1], contents) /\ ArePages(Tail(answers), contents)
           /\ ready
<1> DEFINE js == jobs["remote"]
           p == RemotePending
           got == panes["remote"].pages
<1>1. /\ answers \in Seq(Replies) /\ answers # <<>>
      /\ OneEach(js, asked, answers) /\ InOrder(js, asked, answers, p, requests)
      /\ Progress(js, asked, answers, p, got) /\ ArePages(answers, contents)
    BY PaneParts, PaneTypes DEF QueuesOK, OrderOK, ProgressOK, AnswersOK
<1>r. ready
    BY PaneParts DEF AnsweringOK
<1> HIDE DEF js, p, got
<1>2. /\ answers[1] \in Replies /\ Head(answers) = answers[1] /\ Tail(answers) \in Seq(Replies)
      /\ 1 \in 1..Len(answers)
      /\ \A i \in 1..Len(Tail(answers)) : i + 1 \in 1..Len(answers) /\ Tail(answers)[i] = answers[i + 1]
    BY <1>1, OneLess
<1>3. /\ OneEach(js, asked, Tail(answers)) /\ InOrder(js, asked, Tail(answers), p, requests)
      /\ Without(js, answers[1].n) /\ Without(asked, answers[1].n) /\ Without(Tail(answers), answers[1].n)
  <2>1. answers \in Seq(Replies) /\ answers # <<>> /\ OneEach(js, asked, answers) /\ InOrder(js, asked, answers, p, requests)
      BY <1>1
  <2> QED BY <2>1, TakenAnswer
<1>4. answers[1].n <= requests /\ (p # 0 => answers[1].n <= p)
  <2>1. AtMost(answers, requests) /\ (p # 0 => AtMost(answers, p))
      BY <1>1 DEF InOrder, AllAtMost
  <2> QED BY <1>1, <2>1, TakenMost
<1>5. Progress(js, asked, Tail(answers), p, got)
    BY <1>1, ProgressLess
<1>6. p # 0 /\ answers[1].n = p /\ answers[1].kind = "Page" => got = All(answers[1].at - 1)
    BY <1>1, <1>2 DEF Progress
<1>7. \A n : With(answers, n) => n = answers[1].n \/ With(Tail(answers), n)
    BY <1>1, TakenMost
<1>8. IsPage(answers[1], contents) /\ ArePages(Tail(answers), contents)
    BY <1>1, <1>2 DEF ArePages
<1> QED BY <1>r, <1>2, <1>3, <1>4, <1>5, <1>6, <1>7, <1>8 DEF js, p, got

\* An answer to something else.
LEMMA ResponseIgnored ==
    ASSUME PaneInv, answers # <<>>, answers' = Tail(answers), answers[1].n # RemotePending,
           UNCHANGED <<panes, jobs, listings, contents, tokens, asked, ready, requests>>
    PROVE  PaneInv'
<1>0. PaneTypeOK /\ ShownOK /\ AnswersOK /\ QueuesOK /\ OrderOK /\ ProgressOK /\ ListedOK /\ AnsweringOK
    BY PaneParts
<1>1. /\ Tail(answers) \in Seq(Replies) /\ OneEach(jobs["remote"], asked, Tail(answers))
      /\ InOrder(jobs["remote"], asked, Tail(answers), RemotePending, requests)
      /\ Progress(jobs["remote"], asked, Tail(answers), RemotePending, panes["remote"].pages)
      /\ \A n : With(answers, n) => n = answers[1].n \/ With(Tail(answers), n)
      /\ ArePages(Tail(answers), contents) /\ ready
    BY AnswerTaken
<1>2. RemotePending' = RemotePending /\ panes'["remote"].pages = panes["remote"].pages
    BY DEF RemotePending
<1>3. QueuesOK' /\ ProgressOK' /\ ListedOK'
    BY <1>0, <1>1, <1>2 DEF QueuesOK, ProgressOK, ListedOK
<1>4. OrderOK'
    BY <1>0, <1>1, <1>2 DEF OrderOK
<1>5. AnsweringOK'
  <2>1. Waiting(panes["remote"]) => With(jobs["remote"], panes["remote"].pending)
                                      \/ With(asked, panes["remote"].pending)
                                      \/ With(Tail(answers), panes["remote"].pending)
      BY <1>0, <1>1 DEF AnsweringOK, RemotePending
  <2> QED BY <1>0, <1>1, <2>1 DEF AnsweringOK
<1>6. PaneTypeOK' /\ ShownOK' /\ AnswersOK'
    BY <1>0, <1>1 DEF PaneTypeOK, ShownOK, AnswersOK
<1> QED BY <1>3, <1>4, <1>5, <1>6 DEF PaneInv

\* The answer ends what the pane waited for.
LEMMA ResponseSettles ==
    ASSUME PaneInv, answers # <<>>, answers' = Tail(answers), answers[1].n = RemotePending,
           NEW x \in Contexts, panes' = [panes EXCEPT !["remote"] = x], x.pages = <<>>,
           x.pending = 0 \/ x.pending = RemotePending, PaneReads(x, contents), ~Waiting(x),
           UNCHANGED <<jobs, listings, contents, tokens, asked, ready, requests>>
    PROVE  PaneInv'
<1>0. PaneTypeOK /\ ShownOK /\ AnswersOK /\ QueuesOK /\ OrderOK /\ ProgressOK /\ ListedOK /\ AnsweringOK
    BY PaneParts
<1> DEFINE p == RemotePending
           js == jobs["remote"]
           t == Tail(answers)
<1>1. /\ t \in Seq(Replies) /\ OneEach(js, asked, t)
      /\ InOrder(js, asked, t, p, requests)
      /\ Without(js, p) /\ Without(asked, p) /\ Without(t, p)
      /\ ArePages(t, contents) /\ ready
    BY AnswerTaken
<1>2. panes' \in [Sides -> Contexts] /\ panes'["remote"] = x /\ panes'["local"] = panes["local"]
  <2>1. "remote" \in Sides /\ "local" \in Sides /\ "local" # "remote"
      BY DEF Sides
  <2> QED BY <1>0, <2>1, PanesChange
<1>3. RemotePending' = x.pending
    BY <1>2 DEF RemotePending
<1>4. Listed(js, asked, tokens, p, listings["remote"])
    BY <1>0 DEF ListedOK
<1> HIDE DEF p, js, t
<1>5. InOrder(js, asked, t, x.pending, requests)
  <2>1. x.pending = 0 \/ x.pending = p
      BY DEF p
  <2>2. CASE x.pending = p
      BY <1>1, <2>2
  <2>3. CASE x.pending = 0
      BY <1>1, <2>3 DEF InOrder
  <2> QED BY <2>1, <2>2, <2>3
<1>6. Progress(js, asked, t, x.pending, <<>>)
    BY <1>1 DEF Progress, Without, p
<1>7. Listed(js, asked, tokens, x.pending, listings["remote"])
    BY <1>4 DEF Listed, p
<1>8. QueuesOK' /\ ProgressOK' /\ ListedOK'
    BY <1>1, <1>2, <1>3, <1>6, <1>7 DEF QueuesOK, ProgressOK, ListedOK, js, t
<1>9. OrderOK'
    BY <1>0, <1>3, <1>5 DEF OrderOK, js, t
<1>10. AnsweringOK'
    BY <1>0, <1>1, <1>2 DEF AnsweringOK
<1>11. ShownOK'
    BY <1>0, <1>2 DEF ShownOK, Sides
<1>12. PaneTypeOK' /\ AnswersOK'
    BY <1>0, <1>1, <1>2 DEF PaneTypeOK, AnswersOK, t
<1> QED BY <1>8, <1>9, <1>10, <1>11, <1>12 DEF PaneInv

\* The answer is a page, and the next one is asked for.
LEMMA ResponseGoesOn ==
    ASSUME PaneInv, answers # <<>>, answers' = Tail(answers), answers[1].n = RemotePending,
           NEW x \in Contexts, panes' = [panes EXCEPT !["remote"] = x],
           x.pending = RemotePending, PaneReads(x, contents),
           NEW e \in Requests, ~FirstPage(e), e.n = RemotePending, x.pages = All(e.token - 1),
           asked' = Append(asked, e),
           UNCHANGED <<jobs, listings, contents, tokens, ready, requests>>
    PROVE  PaneInv'
<1>0. PaneTypeOK /\ ShownOK /\ AnswersOK /\ QueuesOK /\ OrderOK /\ ProgressOK /\ ListedOK /\ AnsweringOK
    BY PaneParts
<1> DEFINE p == RemotePending
           js == jobs["remote"]
           t == Tail(answers)
           u == asked'
<1>1. /\ t \in Seq(Replies) /\ OneEach(js, asked, t)
      /\ InOrder(js, asked, t, p, requests)
      /\ Without(js, p) /\ Without(asked, p) /\ Without(t, p)
      /\ p <= requests /\ (p # 0 => p <= p)
      /\ ArePages(t, contents) /\ ready
    BY AnswerTaken
<1>2. panes' \in [Sides -> Contexts] /\ panes'["remote"] = x /\ panes'["local"] = panes["local"]
  <2>1. "remote" \in Sides /\ "local" \in Sides /\ "local" # "remote"
      BY DEF Sides
  <2> QED BY <1>0, <2>1, PanesChange
<1>3. RemotePending' = p /\ e.n = p /\ x.pending = p
    BY <1>2 DEF RemotePending
<1>4. Listed(js, asked, tokens, p, listings["remote"]) /\ asked \in Seq(Requests)
    BY <1>0, PaneTypes DEF ListedOK
<1>d. u = Append(asked, e)
    OBVIOUS
<1> HIDE DEF p, js, t, u
<1>5. /\ \A i \in 1..Len(u) : (i \in 1..Len(asked) /\ u[i] = asked[i]) \/ u[i] = e
      /\ With(u, p) /\ u \in Seq(Requests)
    BY <1>3, <1>4, <1>d, OneMore, AddedNumbers
<1>6. OneEach(js, u, t) /\ InOrder(js, u, t, p, requests)
    BY <1>1, <1>3, <1>4, <1>d, AddedAsked
<1>7. Progress(js, u, t, p, x.pages)
    BY <1>1, <1>5 DEF Progress, Without
<1>8. Listed(js, u, tokens, p, listings["remote"])
    BY <1>4, <1>5 DEF Listed
<1>9. QueuesOK' /\ ProgressOK' /\ ListedOK'
    BY <1>2, <1>3, <1>6, <1>7, <1>8 DEF QueuesOK, ProgressOK, ListedOK, js, t, u
<1>10. OrderOK'
    BY <1>0, <1>3, <1>6 DEF OrderOK, js, t, u
<1>11. AnsweringOK'
    BY <1>0, <1>1, <1>2, <1>3, <1>5 DEF AnsweringOK, u
<1>12. ShownOK'
    BY <1>0, <1>2 DEF ShownOK, Sides
<1>13. PaneTypeOK' /\ AnswersOK'
    BY <1>0, <1>1, <1>2, <1>5 DEF PaneTypeOK, AnswersOK, t, u
<1> QED BY <1>9, <1>10, <1>11, <1>12, <1>13 DEF PaneInv

\* What an answer makes of the context of the remote pane.
Failed(p) == [p EXCEPT !.pages = <<>>, !.excused = TRUE]
GivenUp(p) == [p EXCEPT !.pages = <<>>, !.pending = 0, !.excused = TRUE, !.count = @ + 1]
Gathered(p, m) ==
    [p EXCEPT !.count = @ + 1, !.listing = m.listing, !.pages = Append(@, m.at), !.seen = @ \cup {m.next}]
Completed(p, m, folder) ==
    [p EXCEPT !.count = @ + 1, !.listing = m.listing, !.pending = 0, !.pages = <<>>, !.seen = {}, !.shown = m.n,
              !.current = [listing |-> m.listing, folder |-> folder, pages |-> Append(p.pages, m.at)]]

LEMMA AnsweredCases ==
    ASSUME NEW p, NEW m, IsPending(p, m)
    PROVE  \/ m.kind = "Error" /\ Answered(p, m) = Failed(p)
           \/ m.kind # "Error" /\ Answered(p, m) = GivenUp(p)
           \/ m.kind # "Error" /\ m.next # NoPage /\ Answered(p, m) = Gathered(p, m)
           \/ m.kind # "Error" /\ m.next = NoPage /\ Answered(p, m) = Completed(p, m, contents[m.listing].folder)
BY DEF Answered, Failed, GivenUp, Gathered, Completed

LEMMA AnsweredContext ==
    ASSUME NEW p \in Contexts, NEW m \in Replies, NEW folder \in Folders \cup {"roots"}
    PROVE  /\ Failed(p) \in Contexts /\ GivenUp(p) \in Contexts
           /\ Gathered(p, m) \in Contexts /\ Completed(p, m, folder) \in Contexts
<1> DEFINE k == p.count + 1
           w == [listing |-> m.listing, folder |-> folder, pages |-> Append(p.pages, m.at)]
           s == p.seen \cup {m.next}
           g == Append(p.pages, m.at)
<1>1. /\ m.listing \in Nat /\ m.at \in Nat /\ m.next \in Nat /\ m.n \in Nat
      /\ p.count \in Nat /\ p.pages \in Seq(Nat) /\ p.seen \in SUBSET Nat
    BY DEF Replies, Contexts
<1>2. k \in Nat /\ g \in Seq(Nat) /\ s \in SUBSET Nat /\ <<>> \in Seq(Nat) /\ {} \in SUBSET Nat
    BY <1>1
<1>3. w \in Shown
    BY <1>1, <1>2 DEF Shown
<1>4. /\ GivenUp(p) = [p EXCEPT !.pages = <<>>, !.pending = 0, !.excused = TRUE, !.count = k]
      /\ Gathered(p, m) = [p EXCEPT !.count = k, !.listing = m.listing, !.pages = g, !.seen = s]
      /\ Completed(p, m, folder) =
            [p EXCEPT !.count = k, !.listing = m.listing, !.pending = 0, !.pages = <<>>, !.seen = {}, !.shown = m.n,
                      !.current = w]
    BY DEF GivenUp, Gathered, Completed, Contexts
<1> HIDE DEF k, w, s, g
<1>5. Failed(p) \in Contexts
    BY <1>2 DEF Failed, Contexts
<1>6. GivenUp(p) \in Contexts
  <2> DEFINE y == [p EXCEPT !.pages = <<>>, !.pending = 0, !.count = k]
  <2>1. y \in Contexts
      BY <1>2 DEF Contexts
  <2>2. GivenUp(p) = [y EXCEPT !.excused = TRUE]
      BY <1>4 DEF Contexts
  <2> HIDE DEF y
  <2> QED BY <2>1, <2>2 DEF Contexts
<1>7. Gathered(p, m) \in Contexts
  <2> DEFINE y == [p EXCEPT !.count = k, !.listing = m.listing]
             z == [y EXCEPT !.pages = g]
  <2>1. y \in Contexts
      BY <1>1, <1>2 DEF Contexts
  <2> HIDE DEF y
  <2>2. z \in Contexts
      BY <1>2, <2>1 DEF Contexts
  <2>3. Gathered(p, m) = [z EXCEPT !.seen = s]
      BY <1>4 DEF Contexts, y
  <2> HIDE DEF z
  <2> QED BY <1>2, <2>2, <2>3 DEF Contexts
<1>8. Completed(p, m, folder) \in Contexts
  <2> DEFINE y == [p EXCEPT !.count = k, !.listing = m.listing, !.pending = 0, !.pages = <<>>, !.seen = {}]
  <2>1. y \in Contexts
      BY <1>1, <1>2 DEF Contexts
  <2> DEFINE z == [y EXCEPT !.shown = m.n]
  <2>2. Completed(p, m, folder) = [z EXCEPT !.current = w]
      BY <1>4 DEF Contexts
  <2> HIDE DEF y
  <2>3. z \in Contexts
      BY <1>1, <2>1 DEF Contexts
  <2> HIDE DEF z
  <2> QED BY <1>3, <2>2, <2>3 DEF Contexts
<1> QED BY <1>5, <1>6, <1>7, <1>8

LEMMA AnsweredFields ==
    ASSUME NEW p \in Contexts, NEW m \in Replies, NEW folder
    PROVE  /\ Failed(p).pages = <<>> /\ Failed(p).pending = p.pending /\ Failed(p).excused
           /\ Failed(p).current = p.current /\ Failed(p).history = p.history
           /\ GivenUp(p).pages = <<>> /\ GivenUp(p).pending = 0
           /\ GivenUp(p).current = p.current /\ GivenUp(p).history = p.history
           /\ Gathered(p, m).pages = Append(p.pages, m.at) /\ Gathered(p, m).pending = p.pending
           /\ Gathered(p, m).current = p.current /\ Gathered(p, m).history = p.history
           /\ Completed(p, m, folder).pages = <<>> /\ Completed(p, m, folder).pending = 0
           /\ Completed(p, m, folder).history = p.history
           /\ Completed(p, m, folder).current =
                 [listing |-> m.listing, folder |-> folder, pages |-> Append(p.pages, m.at)]
<1>1. /\ Failed(p).pages = <<>> /\ Failed(p).pending = p.pending
      /\ Failed(p).current = p.current /\ Failed(p).history = p.history
    BY DEF Failed, Contexts
<1>2. Failed(p).excused
    BY DEF Failed, Contexts
<1>3. /\ GivenUp(p).pages = <<>> /\ GivenUp(p).pending = 0
      /\ GivenUp(p).current = p.current /\ GivenUp(p).history = p.history
    BY DEF GivenUp, Contexts
<1>4. /\ Gathered(p, m).pages = Append(p.pages, m.at) /\ Gathered(p, m).pending = p.pending
      /\ Gathered(p, m).current = p.current /\ Gathered(p, m).history = p.history
    BY DEF Gathered, Contexts
<1>5. /\ Completed(p, m, folder).pages = <<>> /\ Completed(p, m, folder).pending = 0
      /\ Completed(p, m, folder).history = p.history
      /\ Completed(p, m, folder).current =
            [listing |-> m.listing, folder |-> folder, pages |-> Append(p.pages, m.at)]
    BY DEF Completed, Contexts
<1> QED BY <1>1, <1>2, <1>3, <1>4, <1>5

LEMMA ResponseKeeps ==
    ASSUME PaneInv, HandleListingResponse
    PROVE  PaneInv'
<1>0. PaneTypeOK /\ ShownOK /\ AnswersOK
    BY PaneParts
<1> DEFINE m == answers[1]
           p == panes["remote"]
           q == Answered(p, m)
           folder == contents[m.listing].folder
<1>1. /\ m \in Replies /\ Head(answers) = m /\ IsPage(m, contents) /\ ready
      /\ RemotePending # 0 /\ m.n = RemotePending /\ m.kind = "Page" => p.pages = All(m.at - 1)
    BY AnswerTaken DEF HandleListingResponse
<1>2. /\ answers # <<>> /\ answers' = Tail(answers)
      /\ UNCHANGED <<jobs, listings, contents, tokens, ready, requests>>
    BY DEF HandleListingResponse
<1>3. /\ panes' = [panes EXCEPT !["remote"] = q]
      /\ asked' = IF ready /\ q.pages # p.pages /\ q.pages # <<>>
                      THEN Append(asked, Request(m.next, p.for, m.n)) ELSE asked
    BY <1>1 DEF HandleListingResponse
<1>4. p \in Contexts /\ contents \in Seq(Contents) /\ m.n \in Nat \ {0} /\ m.next \in Nat /\ m.at \in Nat
    BY <1>0, <1>1, PaneTypes DEF Replies
<1>5. PaneReads(p, contents)
    BY <1>0, PaneTypes DEF ShownOK
<1>6. CASE m.n # RemotePending
  <2>1. ~IsPending(p, m)
      BY <1>6 DEF IsPending, RemotePending
  <2>a. q = p
      BY <2>1 DEF Answered
  <2>2. panes' = panes
    <3>1. [panes EXCEPT !["remote"] = panes["remote"]] = panes
        BY <1>0 DEF PaneTypeOK
    <3> QED BY <1>3, <2>a, <3>1
  <2>3. asked' = asked
      BY <1>3, <2>a
  <2> QED BY <1>2, <1>6, <2>2, <2>3, ResponseIgnored
<1>7. CASE m.n = RemotePending
  <2>1. IsPending(p, m)
      BY <1>7 DEF IsPending, RemotePending
  <2>2. \/ m.kind = "Error" /\ q = Failed(p)
        \/ m.kind # "Error" /\ q = GivenUp(p)
        \/ m.kind # "Error" /\ m.next # NoPage /\ q = Gathered(p, m)
        \/ m.kind # "Error" /\ m.next = NoPage /\ q = Completed(p, m, folder)
      BY <2>1, AnsweredCases
  <2> HIDE DEF q, m
  <2>3. m.kind = "Error" \/ m.kind = "Page"
      BY <1>1 DEF Replies
  <2>4. ASSUME q \in Contexts, q.pages = <<>>, q.pending = 0 \/ q.pending = RemotePending,
               PaneReads(q, contents), ~Waiting(q)
        PROVE  PaneInv'
    <3>1. asked' = asked
        BY <1>3, <2>4
    <3> HIDE DEF p
    <3> QED BY <1>2, <1>3, <1>7, <2>4, <3>1, ResponseSettles DEF m
  <2>p. p.pending = RemotePending
      BY DEF RemotePending
  <2> HIDE DEF p, folder
  <2>5. CASE q = Failed(p)
    <3>1. /\ q \in Contexts /\ q.pages = <<>> /\ q.pending = p.pending /\ q.excused
          /\ q.current = p.current /\ q.history = p.history
      <4>1. "roots" \in Folders \cup {"roots"}
          OBVIOUS
      <4>2. q \in Contexts
          BY <1>1, <1>4, <2>5, <4>1, AnsweredContext
      <4> QED BY <1>1, <1>4, <2>5, <4>2, AnsweredFields
    <3>2. PaneReads(q, contents)
        BY <1>5, <3>1 DEF PaneReads
    <3> QED BY <2>4, <2>p, <3>1, <3>2 DEF Waiting
  <2>6. CASE q = GivenUp(p)
    <3>1. /\ q \in Contexts /\ q.pages = <<>> /\ q.pending = 0
          /\ q.current = p.current /\ q.history = p.history
      <4>1. "roots" \in Folders \cup {"roots"}
          OBVIOUS
      <4>2. q \in Contexts
          BY <1>1, <1>4, <2>6, <4>1, AnsweredContext
      <4> QED BY <1>1, <1>4, <2>6, <4>2, AnsweredFields
    <3>2. PaneReads(q, contents)
        BY <1>5, <3>1 DEF PaneReads
    <3> QED BY <2>4, <3>1, <3>2 DEF Waiting
  <2>7. ASSUME m.kind = "Page"
        PROVE  /\ m.listing \in 1..Len(contents) /\ contents[m.listing] \in Contents
               /\ folder \in Folders \cup {"roots"}
               /\ Append(p.pages, m.at) = All(m.at) /\ m.at \in 1..contents[m.listing].pages
               /\ m.next = IF m.at < contents[m.listing].pages THEN m.at + 1 ELSE NoPage
               /\ Append(p.pages, m.at) # p.pages /\ Append(p.pages, m.at) # <<>>
    <3>1. /\ m.listing \in 1..Len(contents) /\ m.at \in 1..contents[m.listing].pages
          /\ m.next = IF m.at < contents[m.listing].pages THEN m.at + 1 ELSE NoPage
        BY <1>1, <2>7 DEF IsPage
    <3>2. contents[m.listing] \in Contents
        BY <1>4, <3>1
    <3>3. folder \in Folders \cup {"roots"}
        BY <3>2 DEF Contents, folder
    <3>4. p.pages = All(m.at - 1)
        BY <1>1, <1>4, <1>7, <2>7
    <3> DEFINE k == m.at - 1
    <3>5. k \in Nat /\ m.at = k + 1
        BY <1>4, <3>1
    <3> HIDE DEF k
    <3>6. p.pages = All(k)
        BY <3>4 DEF k
    <3>7. Append(p.pages, m.at) = All(m.at) /\ Append(p.pages, m.at) # p.pages /\ Append(p.pages, m.at) # <<>>
        BY <3>5, <3>6, PagesFollow
    <3> QED BY <3>1, <3>2, <3>3, <3>7
  <2>8. CASE m.kind = "Page" /\ m.next # NoPage /\ q = Gathered(p, m)
    <3>1. /\ q.pages = Append(p.pages, m.at) /\ q.pending = p.pending
          /\ q.current = p.current /\ q.history = p.history
        BY <1>1, <1>4, <2>8, AnsweredFields
    <3>2. q \in Contexts
        BY <1>1, <1>4, <2>7, <2>8, AnsweredContext
    <3>3. PaneReads(q, contents)
        BY <1>5, <3>1 DEF PaneReads
    <3> DEFINE e == Request(m.next, p.for, m.n)
    <3>4. asked' = Append(asked, e)
        BY <1>1, <1>3, <2>7, <2>8, <3>1
    <3>5. e \in Requests /\ ~FirstPage(e) /\ e.n = RemotePending /\ e.token = m.next
      <4>1. p.for \in Targets
          BY <1>4 DEF Contexts
      <4> QED BY <1>4, <1>7, <2>8, <4>1 DEF Request, Requests, FirstPage
    <3>6. m.next = m.at + 1
        BY <2>7, <2>8
    <3>7. e.token - 1 = m.at
        BY <1>4, <3>5, <3>6
    <3>8. q.pages = All(e.token - 1)
        BY <2>7, <2>8, <3>1, <3>7
    <3> HIDE DEF e
    <3> QED BY <1>2, <1>3, <1>7, <2>p, <3>1, <3>2, <3>3, <3>4, <3>5, <3>8, ResponseGoesOn DEF m
  <2>9. CASE m.kind = "Page" /\ m.next = NoPage /\ q = Completed(p, m, folder)
    <3>1. /\ q.pages = <<>> /\ q.pending = 0 /\ q.history = p.history
          /\ q.current = [listing |-> m.listing, folder |-> folder, pages |-> Append(p.pages, m.at)]
        BY <1>1, <1>4, <2>9, AnsweredFields
    <3>2. q \in Contexts
        BY <1>1, <1>4, <2>7, <2>9, AnsweredContext
    <3>3. m.at = contents[m.listing].pages
      <4>1. contents[m.listing].pages \in Nat
          BY <2>7, <2>9 DEF Contents
      <4> QED BY <1>4, <2>7, <2>9, <4>1 DEF NoPage
    <3>4. Reads(q.current, contents)
        BY <2>7, <2>9, <3>1, <3>3 DEF Reads, folder
    <3>5. PaneReads(q, contents)
        BY <1>5, <3>1, <3>4 DEF PaneReads
    <3> QED BY <2>4, <3>1, <3>2, <3>5 DEF Waiting
  <2> QED BY <2>2, <2>3, <2>5, <2>6, <2>8, <2>9
<1> QED BY <1>6, <1>7

------------------------------------------------------------------------------
LEMMA PaneStart ==
    ASSUME PaneInit
    PROVE  PaneInv
<1>1. "roots" \in Folders \cup {"roots"} /\ <<>> \in Seq(Shown) /\ <<>> \in Seq(Nat) /\ {} \in SUBSET Nat /\ 0 \in Nat
    OBVIOUS
<1>2. EmptyPane \in Contexts
    BY <1>1 DEF EmptyPane, Contexts, Nowhere, Shown, Roots, Targets
<1>3. /\ EmptyPane.pending = 0 /\ EmptyPane.history = <<>> /\ EmptyPane.current.listing = 0
    BY DEF EmptyPane, Nowhere
<1>4. /\ panes \in [Sides -> Contexts] /\ panes["local"] = EmptyPane /\ panes["remote"] = EmptyPane
      /\ jobs["remote"] = <<>> /\ jobs["local"] = <<>>
    BY <1>2 DEF PaneInit, Sides
<1>5. jobs \in [Sides -> Seq(Requests)] /\ listings \in [Sides -> Seq(Nat)]
    BY DEF PaneInit
<1>6. contents \in Seq(Contents) /\ asked \in Seq(Requests) /\ answers \in Seq(Replies)
    BY DEF PaneInit
<1>7. ready \in BOOLEAN /\ ready /\ requests \in Nat
    BY DEF PaneInit
<1>8. PaneTypeOK
    BY <1>4, <1>5, <1>6, <1>7 DEF PaneTypeOK, PaneInit
<1>9. \A i \in 1..Len(<<>>) : FALSE
    OBVIOUS
<1>10. ShownOK
    BY <1>3, <1>4, <1>9 DEF ShownOK, PaneReads, Reads, Sides
<1>11. AnswersOK
    BY <1>9 DEF AnswersOK, ArePages, AreNext, PaneInit
<1>12. asked = <<>> /\ answers = <<>> /\ tokens = {} /\ RemotePending = 0
    BY <1>3, <1>4 DEF PaneInit, RemotePending
<1>13. QueuesOK
    BY <1>4, <1>9, <1>12 DEF QueuesOK, OneEach, Distinct, Apart
<1>14. OrderOK
    BY <1>4, <1>9, <1>12 DEF OrderOK, InOrder, JobsRise, FirstsRise, JobsBefore, AllAtMost, AtMost
<1>15. ProgressOK /\ ListedOK
    BY <1>12 DEF ProgressOK, Progress, ListedOK, Listed
<1>16. AnsweringOK
    BY <1>3, <1>4, <1>7 DEF AnsweringOK, Waiting
<1> QED BY <1>8, <1>10, <1>11, <1>13, <1>14, <1>15, <1>16 DEF PaneInv

\* A pane that goes elsewhere remembers where it was.
LEMMA RememberedContext ==
    ASSUME NEW c \in Contexts, NEW known, PaneReads(c, known), NEW x, x = Remembered(c)
    PROVE  x \in Contexts /\ PaneReads(x, known)
<1> DEFINE h == Append(c.history, c.current)
<1>1. c.history \in Seq(Shown) /\ c.current \in Shown
    BY DEF Contexts
<1>2. h \in Seq(Shown) /\ \A i \in 1..Len(h) : (i \in 1..Len(c.history) /\ h[i] = c.history[i]) \/ h[i] = c.current
    BY <1>1, OneMore
<1>3. x = [c EXCEPT !.history = h]
    BY DEF Remembered, Contexts
<1> HIDE DEF h
<1>4. x \in Contexts
    BY <1>2, <1>3 DEF Contexts
<1>5. x.current = c.current /\ x.history = h
    BY <1>3 DEF Contexts
<1>6. PaneReads(x, known)
    BY <1>2, <1>5 DEF PaneReads
<1> QED BY <1>4, <1>6

LEMMA RequestsKeep ==
    ASSUME PaneInv, NEW s \in Sides
    PROVE  /\ RequestPaneRoots(s) => PaneInv'
           /\ RefreshPane(s) => PaneInv'
           /\ \A f \in Folders : (NavigatePane(s, f) => PaneInv') /\ (NavigatePaneByPath(s, f) => PaneInv')
<1> DEFINE c == panes[s]
           x == Remembered(c)
<1>1. c \in Contexts /\ PaneReads(c, contents)
    BY PaneParts DEF PaneTypeOK, ShownOK
<1>2. x \in Contexts /\ PaneReads(x, contents)
    BY <1>1, RememberedContext
<1>3. Roots \in Targets
    BY DEF Roots, Targets
<1>4. c.current.folder \in Folders \cup {"roots"} /\ c.current.listing \in Nat
    BY <1>1 DEF Contexts, Shown
<1>5. RequestPaneRoots(s) => PaneInv'
    BY <1>1, <1>3, AskKeeps DEF RequestPaneRoots
<1>6. RefreshPane(s) => PaneInv'
  <2>1. ByPath(c.current.folder) \in Targets
      BY <1>4 DEF ByPath, Targets
  <2>2. Ask(s, c, ByPath(c.current.folder)) => PaneInv'
      BY <1>1, <2>1, AskKeeps
  <2> QED BY <1>5, <2>2 DEF RefreshPane
<1>7. ASSUME NEW f \in Folders, NavigatePane(s, f) PROVE PaneInv'
  <2>1. ByEntry(c.current.listing, f) \in Targets
      BY <1>4 DEF ByEntry, Targets
  <2>2. Ask(s, x, ByEntry(c.current.listing, f))
      BY <1>7 DEF NavigatePane
  <2> HIDE DEF x
  <2> QED BY <1>2, <2>1, <2>2, AskKeeps
<1>8. ASSUME NEW f \in Folders, NavigatePaneByPath(s, f) PROVE PaneInv'
  <2>1. ByPath(f) \in Targets
      BY DEF ByPath, Targets
  <2>2. Ask(s, x, ByPath(f)) \/ Ask(s, c, ByPath(f))
      BY <1>8 DEF NavigatePaneByPath
  <2> HIDE DEF x
  <2> QED BY <1>1, <1>2, <2>1, <2>2, AskKeeps
<1> QED BY <1>5, <1>6, <1>7, <1>8

LEMMA PaneStep ==
    ASSUME PaneInv, [PaneNext]_paneVars
    PROVE  PaneInv'
<1>1. ASSUME NEW s \in Sides, PublishLocalListing(s) PROVE PaneInv'
    BY <1>1, RemotePublishKeeps, LocalPublishKeeps DEF Sides
<1>2. ASSUME NEW s \in Sides,
             RequestPaneRoots(s) \/ NavigatePaneUp(s) \/ RefreshPane(s)
             \/ \E f \in Folders : NavigatePane(s, f) \/ NavigatePaneByPath(s, f)
      PROVE  PaneInv'
    BY <1>2, UpKeeps, RequestsKeep
<1>3. CASE UNCHANGED paneVars
  <2>1. UNCHANGED <<panes, jobs, listings, contents, tokens, asked, answers, ready, requests>>
      BY <1>3 DEF paneVars
  <2>2. QueuesOK' /\ OrderOK' /\ ProgressOK' /\ ListedOK'
      BY <2>1, QueuesSame
  <2>3. PaneTypeOK' /\ ShownOK' /\ AnswersOK' /\ AnsweringOK'
      BY <2>1, PaneParts DEF PaneTypeOK, ShownOK, AnswersOK, AnsweringOK
  <2> QED BY <2>2, <2>3 DEF PaneInv
<1> QED BY <1>1, <1>2, <1>3, RequestKeeps, ResponseKeeps, InterruptedKeeps, ResumedKeeps DEF PaneNext

------------------------------------------------------------------------------
(* The dates of what is shown.                                               *)

\* What a pane waits for is its newest request, so that what it showed last was too.
DatesOK ==
    /\ newest \in [Sides -> Nat] /\ asOf \in [Sides -> Nat]
    /\ \A s \in Sides : panes[s].pending \in {0, newest[s]} /\ panes[s].shown = asOf[s]

LEMMA DatesStay ==
    ASSUME DatesOK, UNCHANGED historyVars,
           \A s \in Sides : panes'[s].pending = panes[s].pending /\ panes'[s].shown = panes[s].shown
    PROVE  DatesOK'
BY DEF DatesOK, historyVars

LEMMA DatesFollow ==
    ASSUME DatesOK, Dated,
           \A s \in Sides :
               /\ panes'[s].pending \in {0, panes[s].pending}
               /\ panes'[s].shown # panes[s].shown =>
                      panes'[s].shown = panes[s].pending /\ panes[s].pending # 0
    PROVE  DatesOK'
<1>1. newest' = newest
      /\ asOf' = [q \in Sides |-> IF panes'[q].shown = panes[q].shown THEN asOf[q] ELSE newest[q]]
    BY DEF Dated
<1>2. asOf' \in [Sides -> Nat]
    BY <1>1 DEF DatesOK
<1>3. ASSUME NEW s \in Sides
      PROVE  panes'[s].pending \in {0, newest[s]} /\ panes'[s].shown = asOf'[s]
  <2>1. CASE panes'[s].shown = panes[s].shown
      BY <1>1, <2>1 DEF DatesOK
  <2>2. CASE panes'[s].shown # panes[s].shown
    <3>1. panes'[s].shown = newest[s] /\ asOf'[s] = newest[s]
        BY <1>1, <2>2 DEF DatesOK
    <3> QED BY <3>1 DEF DatesOK
  <2> QED BY <2>1, <2>2
<1> QED BY <1>1, <1>2, <1>3 DEF DatesOK

LEMMA AskDates ==
    ASSUME PaneTypeOK, DatesOK, NEW s \in Sides, NEW c \in Contexts, c.shown = panes[s].shown,
           NEW target \in Targets, Ask(s, c, target)
    PROVE  DatesOK'
<1> DEFINE n == requests + 1
           b == (s = "remote" /\ ~ready)
           x == Asking(c, n, target, b)
<1>1. newest' = [newest EXCEPT ![s] = n] /\ asOf' = asOf
    BY DEF Ask
<1>2. panes' = [panes EXCEPT ![s] = x]
    BY DEF Ask, Asking, PaneTypeOK
<1>3. n \in Nat /\ b \in BOOLEAN
    BY DEF PaneTypeOK
<1> HIDE DEF n, b
<1>4. x.pending = n /\ x.shown = c.shown /\ x \in Contexts
    BY <1>3, BegunContext
<1> HIDE DEF x
<1>5. panes'[s] = x /\ \A r \in Sides : r # s => panes'[r] = panes[r]
    BY <1>2, <1>4, PanesChange
<1>6. newest' \in [Sides -> Nat] /\ newest'[s] = n /\ \A r \in Sides : r # s => newest'[r] = newest[r]
    BY <1>1, <1>3 DEF DatesOK
<1> QED BY <1>1, <1>4, <1>5, <1>6 DEF DatesOK

LEMMA RequestsDate ==
    ASSUME PaneTypeOK, DatesOK, NEW s \in Sides
    PROVE  /\ RequestPaneRoots(s) => DatesOK'
           /\ RefreshPane(s) => DatesOK'
           /\ \A f \in Folders : (NavigatePane(s, f) => DatesOK') /\ (NavigatePaneByPath(s, f) => DatesOK')
<1> DEFINE c == panes[s]
           h == Append(c.history, c.current)
           x == Remembered(c)
<1>1. c \in Contexts
    BY DEF PaneTypeOK
<1>2. h \in Seq(Shown) /\ x = [c EXCEPT !.history = h]
    BY <1>1 DEF Contexts, Remembered
<1> HIDE DEF h
<1>3. x \in Contexts /\ x.shown = c.shown
    BY <1>1, <1>2 DEF Contexts
<1>4. Roots \in Targets
    BY DEF Roots, Targets
<1>5. c.current.folder \in Folders \cup {"roots"} /\ c.current.listing \in Nat
    BY <1>1 DEF Contexts, Shown
<1> HIDE DEF x
<1>6. RequestPaneRoots(s) => DatesOK'
    BY <1>1, <1>4, AskDates DEF RequestPaneRoots
<1>7. RefreshPane(s) => DatesOK'
  <2>1. ByPath(c.current.folder) \in Targets
      BY <1>5 DEF ByPath, Targets
  <2>2. Ask(s, c, ByPath(c.current.folder)) => DatesOK'
      BY <1>1, <2>1, AskDates
  <2> QED BY <1>6, <2>2 DEF RefreshPane
<1>8. ASSUME NEW f \in Folders, NavigatePane(s, f) PROVE DatesOK'
  <2>1. ByEntry(c.current.listing, f) \in Targets
      BY <1>5 DEF ByEntry, Targets
  <2>2. Ask(s, x, ByEntry(c.current.listing, f))
      BY <1>8 DEF NavigatePane, x
  <2> QED BY <1>3, <2>1, <2>2, AskDates
<1>9. ASSUME NEW f \in Folders, NavigatePaneByPath(s, f) PROVE DatesOK'
  <2>1. ByPath(f) \in Targets
      BY DEF ByPath, Targets
  <2>2. Ask(s, x, ByPath(f)) \/ Ask(s, c, ByPath(f))
      BY <1>9 DEF NavigatePaneByPath, x
  <2> QED BY <1>1, <1>3, <2>1, <2>2, AskDates
<1> QED BY <1>6, <1>7, <1>8, <1>9

LEMMA UpDates ==
    ASSUME PaneTypeOK, DatesOK, NEW s \in Sides, NavigatePaneUp(s)
    PROVE  DatesOK'
<1> DEFINE c == panes[s]
           x == [c EXCEPT !.current = c.history[Len(c.history)], !.history = SubSeq(@, 1, Len(@) - 1)]
<1>1. c \in Contexts /\ c.history # <<>> /\ UNCHANGED historyVars
    BY DEF PaneTypeOK, NavigatePaneUp
<1>2. panes' = [panes EXCEPT ![s] = x]
    BY DEF NavigatePaneUp, PaneTypeOK
<1> HIDE DEF c
<1>3. x \in Contexts /\ x.pending = c.pending /\ x.shown = c.shown
    BY <1>1, UpContext
<1> HIDE DEF x
<1>4. panes'[s] = x /\ \A r \in Sides : r # s => panes'[r] = panes[r]
    BY <1>2, <1>3, PanesChange
<1>5. \A r \in Sides : panes'[r].pending = panes[r].pending /\ panes'[r].shown = panes[r].shown
    BY <1>3, <1>4 DEF c
<1> QED BY <1>1, <1>5, DatesStay

\* What was read is shown only if it is still asked for.
LEMMA PublishDates ==
    ASSUME PaneTypeOK, DatesOK, NEW s \in Sides, PublishLocalListing(s)
    PROVE  DatesOK'
<1>1. Dated
    BY DEF PublishLocalListing
<1>2. CASE UNCHANGED panes
    BY <1>1, <1>2, DatesFollow
<1>3. CASE s = "local" /\ panes' # panes
  <2> DEFINE js == jobs["local"]
             r == Head(js)
             c == panes["local"]
             l == Len(contents) + 1
  <2>1. js \in Seq(Requests) /\ js # <<>> /\ contents \in Seq(Contents) /\ c \in Contexts /\ "local" \in Sides
      BY <1>3, PaneTypes DEF PublishLocalListing
  <2>2. r \in Requests /\ r.n \in Nat \ {0} /\ r.target.folder \in Folders \cup {"roots"} /\ l \in Nat
    <3>1. r \in Requests
        BY <2>1
    <3> QED BY <2>1, <3>1 DEF Requests, Targets
  <2>3. \/ \E b \in BOOLEAN : panes' = [panes EXCEPT !["local"] = [c EXCEPT !.excused = b]]
        \/ \E k \in 1 .. MaxPages :
             /\ c.pending = r.n
             /\ panes' = [panes EXCEPT !["local"] =
                    Showing(c, r.n, [listing |-> l, folder |-> r.target.folder, pages |-> All(k)])]
    <3>1. \/ panes' = [panes EXCEPT !["local"].excused = @ \/ panes["local"].pending = r.n]
          \/ \E k \in 1 .. MaxPages :
               panes' = IF panes["local"].pending = r.n
                            THEN [panes EXCEPT !["local"].shown = r.n, !["local"].current =
                                    [listing |-> l, folder |-> r.target.folder, pages |-> All(k)]]
                            ELSE panes
        BY <1>3 DEF PublishLocalListing
    <3>2. CASE panes' = [panes EXCEPT !["local"].excused = @ \/ panes["local"].pending = r.n]
      <4> DEFINE b == c.excused \/ c.pending = r.n
      <4>1. b \in BOOLEAN /\ panes' = [panes EXCEPT !["local"] = [c EXCEPT !.excused = b]]
          BY <2>1, <3>2 DEF PaneTypeOK, Contexts
      <4> HIDE DEF b
      <4> QED BY <4>1
    <3>3. ASSUME NEW k \in 1 .. MaxPages,
                 panes' = IF panes["local"].pending = r.n
                            THEN [panes EXCEPT !["local"].shown = r.n, !["local"].current =
                                    [listing |-> l, folder |-> r.target.folder, pages |-> All(k)]]
                            ELSE panes
          PROVE  /\ c.pending = r.n
                 /\ panes' = [panes EXCEPT !["local"] =
                      Showing(c, r.n, [listing |-> l, folder |-> r.target.folder, pages |-> All(k)])]
      <4> DEFINE w == [listing |-> l, folder |-> r.target.folder, pages |-> All(k)]
      <4>1. c.pending = r.n /\ panes' = [panes EXCEPT !["local"].shown = r.n, !["local"].current = w]
          BY <1>3, <3>3
      <4> HIDE DEF w, r
      <4>2. panes' = [panes EXCEPT !["local"] = Showing(c, r.n, w)]
          BY <2>1, <4>1 DEF PaneTypeOK, Showing
      <4> QED BY <4>1, <4>2 DEF w
    <3> QED BY <3>1, <3>2, <3>3
  <2> HIDE DEF c, r, l
  <2>4. ASSUME NEW b \in BOOLEAN, panes' = [panes EXCEPT !["local"] = [c EXCEPT !.excused = b]]
        PROVE  DatesOK'
    <3> DEFINE x == [c EXCEPT !.excused = b]
    <3>1. x \in Contexts /\ x.pending = c.pending /\ x.shown = c.shown
        BY <2>1, ToldContext
    <3> HIDE DEF x
    <3>2. panes' = [panes EXCEPT !["local"] = x]
        BY <2>4 DEF x
    <3>3. panes'["local"] = x /\ \A q \in Sides : q # "local" => panes'[q] = panes[q]
        BY <2>1, <3>1, <3>2, PanesChange
    <3>4. \A q \in Sides : panes'[q].pending = panes[q].pending /\ panes'[q].shown = panes[q].shown
        BY <3>1, <3>3 DEF c
    <3> QED BY <1>1, <3>4, DatesFollow
  <2>5. ASSUME NEW k \in 1 .. MaxPages, c.pending = r.n,
               panes' = [panes EXCEPT !["local"] =
                    Showing(c, r.n, [listing |-> l, folder |-> r.target.folder, pages |-> All(k)])]
        PROVE  DatesOK'
    <3> DEFINE w == [listing |-> l, folder |-> r.target.folder, pages |-> All(k)]
               x == Showing(c, r.n, w)
    <3>1. w \in Shown
      <4>1. All(k) \in Seq(Nat)
          BY DEF All
      <4> QED BY <2>2, <4>1 DEF Shown
    <3>2. panes' = [panes EXCEPT !["local"] = x]
        BY <2>5
    <3> HIDE DEF w
    <3>3. x \in Contexts /\ x.pending = c.pending /\ x.shown = r.n
        BY <2>1, <2>2, <3>1, ShownContext
    <3> HIDE DEF x
    <3>4. panes'["local"] = x /\ \A q \in Sides : q # "local" => panes'[q] = panes[q]
        BY <2>1, <3>2, <3>3, PanesChange
    <3>5. \A q \in Sides : /\ panes'[q].pending = panes[q].pending
                           /\ panes'[q].shown # panes[q].shown =>
                                panes'[q].shown = panes[q].pending /\ panes[q].pending # 0
        BY <2>2, <2>5, <3>3, <3>4 DEF c
    <3> QED BY <1>1, <3>5, DatesFollow
  <2> QED BY <2>3, <2>4, <2>5
<1>4. s # "local" => UNCHANGED panes
    BY DEF PublishLocalListing, Sides
<1> QED BY <1>2, <1>3, <1>4

\* Of the pages that come, only those the pane waits for change it.
LEMMA ResponseDates ==
    ASSUME PaneTypeOK, DatesOK, HandleListingResponse
    PROVE  DatesOK'
<1> DEFINE m == Head(answers)
           p == panes["remote"]
           q == Answered(p, m)
           folder == contents[m.listing].folder
<1>1. /\ Dated /\ panes' = [panes EXCEPT !["remote"] = q] /\ answers # <<>>
    BY DEF HandleListingResponse
<1>2. p \in Contexts /\ m \in Replies /\ m.n \in Nat \ {0} /\ "remote" \in Sides
  <2>1. m \in Replies
      BY <1>1, PaneTypes
  <2> QED BY <2>1, PaneTypes DEF Replies
<1>3. /\ q.pending \in {0, p.pending}
      /\ q.shown # p.shown => q.shown = p.pending /\ p.pending # 0
  <2>1. CASE ~IsPending(p, m)
      BY <2>1 DEF Answered
  <2>2. CASE IsPending(p, m)
    <3>1. m.n = p.pending
        BY <2>2 DEF IsPending
    <3>2. \/ q = Failed(p) \/ q = GivenUp(p) \/ q = Gathered(p, m) \/ q = Completed(p, m, folder)
        BY <2>2, AnsweredCases
    <3> HIDE DEF q, p, m, folder
    <3>3. CASE q = Failed(p)
        BY <1>2, <3>3 DEF Failed, Contexts
    <3>4. CASE q = GivenUp(p)
        BY <1>2, <3>4 DEF GivenUp, Contexts
    <3>5. CASE q = Gathered(p, m)
        BY <1>2, <3>5 DEF Gathered, Contexts
    <3>6. CASE q = Completed(p, m, folder)
      <4>1. q.pending = 0 /\ q.shown = m.n
          BY <1>2, <3>6 DEF Completed, Contexts
      <4> QED BY <1>2, <3>1, <4>1
    <3> QED BY <3>2, <3>3, <3>4, <3>5, <3>6
  <2> QED BY <2>1, <2>2
<1> HIDE DEF q
<1>4. panes'["remote"] = q /\ \A r \in Sides : r # "remote" => panes'[r] = panes[r]
    BY <1>1, <1>2 DEF PaneTypeOK
<1>5. \A r \in Sides : /\ panes'[r].pending \in {0, panes[r].pending}
                       /\ panes'[r].shown # panes[r].shown =>
                            panes'[r].shown = panes[r].pending /\ panes[r].pending # 0
    BY <1>3, <1>4
<1> QED BY <1>1, <1>5, DatesFollow

LEMMA InterruptedDates ==
    ASSUME PaneTypeOK, DatesOK, PanesInterrupted
    PROVE  DatesOK'
<1> DEFINE c == panes["remote"]
           x == [c EXCEPT !.excused = TRUE]
<1>1. c \in Contexts /\ UNCHANGED historyVars /\ "remote" \in Sides
    BY PaneTypes DEF PanesInterrupted
<1>2. panes' = [panes EXCEPT !["remote"] = x]
    BY DEF PanesInterrupted, PaneTypeOK
<1> HIDE DEF c
<1>3. x \in Contexts /\ x.pending = c.pending /\ x.shown = c.shown
    BY <1>1, ToldContext
<1> HIDE DEF x
<1>4. panes'["remote"] = x /\ \A r \in Sides : r # "remote" => panes'[r] = panes[r]
    BY <1>1, <1>2, <1>3, PanesChange
<1>5. \A r \in Sides : panes'[r].pending = panes[r].pending /\ panes'[r].shown = panes[r].shown
    BY <1>3, <1>4 DEF c
<1> QED BY <1>1, <1>5, DatesStay

LEMMA DatesStep ==
    ASSUME PaneInv, DatesOK, [PaneNext]_paneVars
    PROVE  DatesOK'
<1>0. PaneTypeOK
    BY PaneParts
<1>1. CASE UNCHANGED paneVars
    BY <1>1, DatesStay DEF paneVars
<1>2. ASSUME NEW s \in Sides,
             RequestPaneRoots(s) \/ NavigatePaneUp(s) \/ RefreshPane(s) \/ PublishLocalListing(s)
             \/ \E f \in Folders : NavigatePane(s, f) \/ NavigatePaneByPath(s, f)
      PROVE  DatesOK'
    BY <1>0, <1>2, RequestsDate, UpDates, PublishDates
<1>3. HandleListingRequest \/ PanesResumed => DatesOK'
    BY DatesStay DEF HandleListingRequest, PanesResumed
<1> QED BY <1>0, <1>1, <1>2, <1>3, ResponseDates, InterruptedDates DEF PaneNext

LEMMA DatesStart ==
    ASSUME PaneInit
    PROVE  DatesOK
BY DEF PaneInit, DatesOK, EmptyPane

------------------------------------------------------------------------------
LEMMA PanesShown ==
    ASSUME PaneInv, DatesOK
    PROVE  PanesAreTrue
<1>0. PaneTypeOK /\ ShownOK /\ AnsweringOK
    BY PaneParts
<1>1. PanesShowFolders
    BY <1>0 DEF ShownOK, PaneReads, Reads, PanesShowFolders
<1>2. PanesAreAnswered
  <2>1. DOMAIN jobs["local"] = 1..Len(jobs["local"]) /\ DOMAIN jobs["remote"] = 1..Len(jobs["remote"])
        /\ DOMAIN asked = 1..Len(asked) /\ DOMAIN answers = 1..Len(answers)
      BY <1>0, PaneTypes
  <2> SUFFICES ASSUME NEW s \in Sides, Waiting(panes[s])
               PROVE  \/ \E i \in DOMAIN jobs[s] : jobs[s][i].n = panes[s].pending
                      \/ s = "remote" /\ \E i \in DOMAIN asked : asked[i].n = panes[s].pending
                      \/ s = "remote" /\ \E i \in DOMAIN answers : answers[i].n = panes[s].pending
      BY DEF PanesAreAnswered, Waiting
  <2>2. CASE s = "local"
      BY <1>0, <2>1, <2>2 DEF AnsweringOK, With
  <2>3. CASE s = "remote"
      BY <1>0, <2>1, <2>3 DEF AnsweringOK, With
  <2> QED BY <2>2, <2>3 DEF Sides
<1>3. AnswersAreNewest
    BY DEF DatesOK, AnswersAreNewest
<1> QED BY <1>1, <1>2, <1>3 DEF PanesAreTrue

\* The panes show folders as they were read, each with all of its pages; what a pane
\* showed last was the answer to the newest request there was; and what it waits
\* for is under way: for any number of folders, pages and requests.
THEOREM PanesCorrect == PaneSpec => []PanesAreTrue
<1>1. PaneInit => PaneInv /\ DatesOK
    BY PaneStart, DatesStart
<1>2. PaneInv /\ DatesOK /\ [PaneNext]_paneVars => PaneInv' /\ DatesOK'
    BY PaneStep, DatesStep
<1>3. PaneInv /\ DatesOK => PanesAreTrue
    BY PanesShown
<1> QED BY <1>1, <1>2, <1>3, PTL DEF PaneSpec
===============================================================================
