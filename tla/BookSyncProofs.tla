---------------------------- MODULE BookSyncProofs ----------------------------
(***************************************************************************)
(* Proofs about BookSync, for every number of levels, updates, buffer      *)
(* places and failures.  The local book is the exchange's because each     *)
(* diff carries exactly the levels touched after its predecessor           *)
(* (GoodDiffs), so that it takes every book between the two to the book    *)
(* of its last update (DiffApplies).                                       *)
(***************************************************************************)
EXTENDS BookSync, SequenceTheorems, TLAPS

-----------------------------------------------------------------------------
(* The inductive invariant.                                                *)

\* The diff from update U to update u.
DiffOf(U, u) == Diff(U, u, U - 1, [l \in Touched(hist[u], U - 1) |-> hist[u][l]])
GoodDiffs == {DiffOf(p[1], p[2]) : p \in {q \in (1..id) \X (1..id) : q[1] <= q[2]}}

Types ==
    /\ id \in 0..MaxId /\ sent \in 0..id /\ hist \in [0..MaxId -> [Levels -> 0..MaxId]]
    /\ conn \in BOOLEAN
    /\ last \in -1..id /\ first \in BOOLEAN /\ levels \in [Levels -> 0..MaxId]
    /\ task \in {"none", "fetch", "replay", "sleep"}
    /\ received \in -1..id /\ torn \in BOOLEAN /\ fails \in 0..MaxFail
\* A level's value names an update not later than the book's, and a value that
\* is there after a later update was there before it.
Hist ==
    /\ \A v \in 0..id, l \in Levels : hist[v][l] <= v
    /\ \A v \in 0..id, w \in 0..id, l \in Levels :
          v <= w /\ hist[w][l] <= v => hist[v][l] = hist[w][l]
Queues ==
    /\ stream \in Seq(GoodDiffs) /\ buffer \in Seq(GoodDiffs) /\ Len(buffer) <= MaxBuffer
\* What the newest diff received has become.
Newest ==
    \/ /\ task \in {"fetch", "sleep"} /\ last = None
       /\ buffer # <<>> /\ buffer[Len(buffer)].u = received
    \/ /\ task = "replay" /\ last # None
       /\ buffer # <<>> => buffer[Len(buffer)].u = received
       /\ buffer = <<>> => last >= received
    \/ task = "none" /\ last = None /\ received = None /\ buffer = <<>>
    \/ task = "none" /\ last # None /\ (torn \/ last >= received)
IInv == Types /\ Hist /\ Queues /\ Mirrors /\ Newest

-----------------------------------------------------------------------------
(* Lemmas.                                                                 *)

\* A good diff has the form TypeOK asks for.
LEMMA GoodIsOK ==
    ASSUME Types, Hist, NEW e \in GoodDiffs
    PROVE  /\ DiffOK(e) /\ e.u \in 1..id /\ e.U \in 1..e.u /\ e.pu = e.U - 1
           /\ e.b = [l \in Touched(hist[e.u], e.pu) |-> hist[e.u][l]]
<1> USE BookAssumption
<1>1. PICK U \in 1..id, u \in 1..id : U <= u /\ e = DiffOf(U, u)
  BY DEF GoodDiffs
<1>2. /\ e.U = U /\ e.u = u /\ e.pu = U - 1
      /\ e.b = [l \in Touched(hist[u], U - 1) |-> hist[u][l]]
  BY <1>1 DEF DiffOf, Diff
<1>3. DOMAIN e.b \subseteq Levels
  BY <1>2 DEF Touched
<1>4. ASSUME NEW l \in DOMAIN e.b PROVE e.b[l] \in e.U..e.u
  <2>1. l \in Levels /\ hist[u][l] > U - 1 /\ e.b[l] = hist[u][l]
    BY <1>2, <1>4 DEF Touched
  <2>2. hist[u][l] <= u /\ hist[u][l] \in Int
    BY <1>1, <2>1 DEF Types, Hist
  <2> QED BY <1>1, <1>2, <2>1, <2>2 DEF Types
<1> QED BY <1>1, <1>2, <1>3, <1>4 DEF DiffOK, Types

\* The exchange sends good diffs.
LEMMA NextIsGood ==
    ASSUME Types, Hist, id > sent
    PROVE  NextDiff \in GoodDiffs
<1>1. NextDiff = DiffOf(sent + 1, id)
  BY DEF NextDiff, DiffOf, Types
<1>2. sent + 1 \in 1..id /\ id \in 1..id /\ sent + 1 <= id
  BY DEF Types
<1> DEFINE p == <<sent + 1, id>>
<1>3. p \in {q \in (1..id) \X (1..id) : q[1] <= q[2]} /\ p[1] = sent + 1 /\ p[2] = id
  BY <1>2
<1> HIDE DEF p
<1> QED BY <1>1, <1>3 DEF GoodDiffs

\* A diff that leaves no gap takes the exchange's book of the last update to the
\* exchange's book of its own.
LEMMA DiffApplies ==
    ASSUME IInv, last # None, NEW e \in GoodDiffs,
           Stale(Book, e) \/ ~Gap(Book, e)
    PROVE  /\ Applied(Book, e).last \in 0..id /\ Applied(Book, e).last >= e.u
           /\ Applied(Book, e).first \in BOOLEAN
           /\ Applied(Book, e).levels \in [Levels -> 0..MaxId]
           /\ Applied(Book, e).levels = hist[Applied(Book, e).last]
<1> USE BookAssumption DEF IInv
<1> DEFINE b == Applied(Book, e)
<1>1. /\ e.u \in 1..id /\ e.U \in 1..e.u /\ e.pu = e.U - 1
      /\ e.b = [l \in Touched(hist[e.u], e.pu) |-> hist[e.u][l]]
  BY GoodIsOK
<1>2. last \in 0..id /\ levels = hist[last] /\ levels \in [Levels -> 0..MaxId]
  BY DEF Types, Mirrors, None
<1>3. Book.last = last /\ Book.first = first /\ Book.levels = levels
  BY DEF Book
<1>4. CASE Stale(Book, e)
  <2>1. Applied(Book, e) = Book
    BY <1>4 DEF Applied
  <2>2. last >= e.u /\ first \in BOOLEAN
    BY <1>1, <1>2, <1>3, <1>4 DEF Stale, Types
  <2> QED BY <1>2, <1>3, <2>1, <2>2
<1>5. CASE ~Stale(Book, e) /\ ~Gap(Book, e)
  <2>1. e.pu <= last /\ last <= e.u
    BY <1>1, <1>2, <1>3, <1>5 DEF Stale, Gap, Types
  <2>2. /\ b.last = e.u /\ b.first \in BOOLEAN
        /\ b.levels = [l \in Levels |-> IF l \in DOMAIN e.b THEN e.b[l] ELSE levels[l]]
    BY <1>3, <1>5 DEF Applied
  <2>3. ASSUME NEW l \in Levels PROVE b.levels[l] = hist[e.u][l]
    <3>1. CASE hist[e.u][l] > e.pu
      BY <1>1, <2>2, <3>1 DEF Touched
    <3>2. CASE ~(hist[e.u][l] > e.pu)
      <4>1. DOMAIN e.b = Touched(hist[e.u], e.pu)
        BY <1>1
      <4>2. l \notin DOMAIN e.b
        BY <3>2, <4>1 DEF Touched
      <4>3. hist[e.u][l] \in Int /\ e.pu \in Int /\ last \in Int
        <5>1. e.u \in 0..MaxId
          <6>1. id \in 0..MaxId /\ e.u \in 1..id
            BY <1>1 DEF Types
          <6> HIDE DEF IInv
          <6> QED BY <6>1
        <5>2. hist[e.u][l] \in 0..MaxId
          BY <5>1 DEF Types
        <5> QED BY <1>1, <1>2, <5>2
      <4>4. hist[e.u][l] <= last
        BY <2>1, <3>2, <4>3
      <4>5. hist[last][l] = hist[e.u][l]
        BY <1>1, <1>2, <2>1, <4>4 DEF Hist, Types
      <4> QED BY <1>2, <2>2, <4>2, <4>5
    <3> QED BY <3>1, <3>2
  <2>4. hist[e.u] \in [Levels -> 0..MaxId]
    BY <1>1 DEF Types
  <2>5. b.levels = hist[e.u]
    BY <2>2, <2>3, <2>4
  <2>6. e.u \in 0..id /\ e.u >= e.u
    BY <1>1 DEF Types
  <2> HIDE DEF b
  <2>7. b.last \in 0..id /\ b.last >= e.u /\ b.first \in BOOLEAN
    BY <2>2, <2>6
  <2> QED BY <2>2, <2>4, <2>5, <2>7 DEF b
<1> QED BY <1>4, <1>5

\* Diffs stay good when the exchange's book changes.
LEMMA GoodStays ==
    ASSUME Types, Hist, NEW l0 \in Levels, Update(l0)
    PROVE  GoodDiffs \subseteq GoodDiffs'
<1> USE BookAssumption
<1>1. /\ id' = id + 1 /\ id < MaxId
      /\ hist' = [hist EXCEPT ![id + 1] = [hist[id] EXCEPT ![l0] = id + 1]]
  BY DEF Update
<1>2. \A v \in 0..id : hist'[v] = hist[v]
  BY <1>1 DEF Types
<1>3. ASSUME NEW U \in 1..id, NEW u \in 1..id, U <= u
      PROVE  DiffOf(U, u) \in GoodDiffs'
  <2>0. u \in 0..id
    BY DEF Types
  <2>1. Touched(hist'[u], U - 1) = Touched(hist[u], U - 1) /\ hist'[u] = hist[u]
    BY <1>2, <2>0
  <2>2. DiffOf(U, u)' = DiffOf(U, u)
    BY <2>1 DEF DiffOf, Diff
  <2>3. U \in 1..id' /\ u \in 1..id'
    BY <1>1 DEF Types
  <2> DEFINE p == <<U, u>>
  <2>4. /\ p \in {q \in (1..id') \X (1..id') : q[1] <= q[2]}
        /\ DiffOf(p[1], p[2])' = DiffOf(U, u)
    BY <1>3, <2>2, <2>3
  <2> HIDE DEF p
  <2> QED BY <2>4 DEF GoodDiffs
<1> QED BY <1>3 DEF GoodDiffs

-----------------------------------------------------------------------------
(* The invariant holds initially, and every step keeps it.                 *)

\* The invariant holds at the start.
LEMMA InitHolds == Init => IInv
<1> USE BookAssumption
<1> SUFFICES ASSUME Init PROVE IInv
  OBVIOUS
<1>1. Types
  BY DEF Init, Types, Empty, None
<1>2. Hist
  BY DEF Init, Hist, Empty
<1>3. Queues /\ Mirrors /\ Newest
  BY DEF Init, Queues, Mirrors, Newest, None
<1> QED BY <1>1, <1>2, <1>3 DEF IInv

\* What a step that leaves the exchange's books alone has to show.
LEMMA SameBooks ==
    ASSUME IInv, UNCHANGED <<id, hist>>
    PROVE  Hist' /\ GoodDiffs' = GoodDiffs
<1>1. Hist'
  BY DEF IInv, Hist
<1>2. GoodDiffs' = GoodDiffs
  BY DEF GoodDiffs, DiffOf, Diff, Touched
<1> QED BY <1>1, <1>2

\* The types of a step that leaves the exchange alone.
LEMMA TypesStay ==
    ASSUME Types, UNCHANGED exchange, conn' \in BOOLEAN,
           last' \in -1..id, first' \in BOOLEAN, levels' \in [Levels -> 0..MaxId],
           task' \in {"none", "fetch", "replay", "sleep"},
           received' \in -1..id, torn' \in BOOLEAN, fails' \in 0..MaxFail
    PROVE  Types'
BY DEF Types, exchange
\* The empty book has its types.
LEMMA NoBookTyped ==
    ASSUME Types PROVE None \in -1..id /\ Empty \in [Levels -> 0..MaxId]
<1>1. 0 \in 0..MaxId /\ -1 \in -1..id
  BY BookAssumption DEF Types
<1> QED BY <1>1 DEF None, Empty

\* An update of the exchange's book: the books before it, and all diffs, stay.
LEMMA UpdateStep ==
    ASSUME IInv, NEW l0 \in Levels, Update(l0) PROVE IInv'
<1> USE BookAssumption DEF IInv
<1>1. /\ id' = id + 1 /\ id < MaxId /\ id \in 0..MaxId /\ id' \in 0..MaxId
      /\ hist' = [hist EXCEPT ![id + 1] = [hist[id] EXCEPT ![l0] = id + 1]]
      /\ UNCHANGED <<sent, conn, stream, book, buffer, task, received, torn, fails>>
  BY DEF Update, Types
<1>2. /\ \A v \in 0..id : hist'[v] = hist[v]
      /\ hist'[id + 1] = [hist[id] EXCEPT ![l0] = id + 1]
      /\ hist' \in [0..MaxId -> [Levels -> 0..MaxId]]
  <2> DEFINE new == [hist[id] EXCEPT ![l0] = id + 1]
  <2>1. id + 1 \in 0..MaxId /\ \A v \in 0..id : v \in 0..MaxId /\ v # id + 1
    BY <1>1
  <2>2. hist \in [0..MaxId -> [Levels -> 0..MaxId]]
    BY DEF Types
  <2>3. new \in [Levels -> 0..MaxId]
    BY <1>1, <2>1, <2>2
  <2>4. hist' = [hist EXCEPT ![id + 1] = new]
    BY <1>1
  <2> HIDE DEF new
  <2>5. /\ \A v \in 0..id : hist'[v] = hist[v]
        /\ hist'[id + 1] = new /\ hist' \in [0..MaxId -> [Levels -> 0..MaxId]]
    BY <2>1, <2>2, <2>3, <2>4
  <2> QED BY <2>5 DEF new
<1>3. Types'
  <2>1. /\ id' = id + 1 /\ id < MaxId /\ id \in 0..MaxId
        /\ UNCHANGED <<sent, conn, last, first, levels, task, received, torn, fails>>
    BY <1>1 DEF book
  <2>2. id' \in 0..MaxId /\ sent' \in 0..id' /\ last' \in -1..id' /\ received' \in -1..id'
    BY <2>1 DEF Types
  <2> QED BY <1>2, <2>1, <2>2 DEF Types
<1>4. Hist'
  <2>1. ASSUME NEW v \in 0..id', NEW l \in Levels PROVE hist'[v][l] <= v
    <3>1. CASE v <= id
      <4>1. v \in 0..id /\ hist'[v] = hist[v]
        BY <1>1, <1>2, <3>1
      <4> QED BY <4>1 DEF Hist
    <3>2. CASE v = id + 1
      <4>1. hist[id] \in [Levels -> 0..MaxId] /\ hist[id][l] <= id
        BY <1>1 DEF Hist, Types
      <4>2. hist'[v][l] = IF l = l0 THEN id + 1 ELSE hist[id][l]
        BY <1>2, <3>2, <4>1
      <4> QED BY <1>1, <3>2, <4>1, <4>2
    <3> QED BY <1>1, <3>1, <3>2
  <2>2. ASSUME NEW v \in 0..id', NEW w \in 0..id', NEW l \in Levels,
               v <= w, hist'[w][l] <= v
        PROVE  hist'[v][l] = hist'[w][l]
    <3>1. CASE w <= id
      <4>1. v \in 0..id /\ w \in 0..id
        BY <1>1, <2>2, <3>1
      <4>2. hist'[v] = hist[v] /\ hist'[w] = hist[w]
        BY <1>2, <4>1
      <4> HIDE DEF IInv
      <4>3. Hist
        BY DEF IInv
      <4> QED BY <2>2, <4>1, <4>2, <4>3 DEF Hist
    <3>2. CASE w = id + 1 /\ v # w
      <4>1. v \in 0..id /\ l # l0
        BY <1>1, <1>2, <2>2, <3>2 DEF Types
      <4>2. hist'[w][l] = hist[id][l] /\ hist'[v][l] = hist[v][l]
        BY <1>1, <1>2, <3>2, <4>1 DEF Types
      <4> QED BY <1>1, <2>2, <4>1, <4>2 DEF Hist
    <3>3. CASE v = w
      BY <3>3
    <3> QED BY <1>1, <3>1, <3>2, <3>3
  <2> QED BY <2>1, <2>2 DEF Hist
<1>5. Queues'
  <2>1. GoodDiffs \subseteq GoodDiffs'
    BY GoodStays
  <2>2. Seq(GoodDiffs) \subseteq Seq(GoodDiffs')
    BY <2>1
  <2> QED BY <1>1, <2>2 DEF Queues
<1>6. Mirrors'
  BY <1>1, <1>2 DEF Mirrors, Types, None, book
<1>7. Newest'
  BY <1>1 DEF Newest, None, book
<1> QED BY <1>3, <1>4, <1>5, <1>6, <1>7

\* A diff is sent or lost.
LEMMA SendStep ==
    ASSUME IInv, Send PROVE IInv'
<1> USE BookAssumption DEF IInv
<1>1. /\ id > sent /\ sent' = id
      /\ UNCHANGED <<id, hist, conn, book, buffer, task, received, torn>>
      /\ stream' = stream \/ stream' = Append(stream, NextDiff)
      /\ fails' = fails \/ (fails < MaxFail /\ fails' = fails + 1)
  BY DEF Send, Fail
<1>2. Hist' /\ GoodDiffs' = GoodDiffs
  BY <1>1, SameBooks
<1>3. Types'
  BY <1>1 DEF Types, book
<1>4. NextDiff \in GoodDiffs
  BY <1>1, NextIsGood
<1>5. Queues'
  BY <1>1, <1>2, <1>4 DEF Queues
<1>6. Mirrors' /\ Newest'
  BY <1>1 DEF Mirrors, Newest, None, book
<1> QED BY <1>2, <1>3, <1>5, <1>6

\* The connection comes and goes: the queues are kept or emptied.
LEMMA ConnectionStep ==
    ASSUME IInv, Connect \/ Disconnect PROVE IInv'
<1> USE BookAssumption DEF IInv
<1>1. CASE Connect
  <2>1. /\ UNCHANGED <<exchange, stream, book, buffer, task, received, torn, fails>>
        /\ conn' = TRUE
    BY <1>1 DEF Connect
  <2>2. Hist' /\ GoodDiffs' = GoodDiffs
    BY <2>1, SameBooks DEF exchange
  <2>3. Types' /\ Queues' /\ Mirrors' /\ Newest'
    BY <2>1, <2>2 DEF Types, Queues, Mirrors, Newest, None, exchange, book
  <2> QED BY <2>2, <2>3
<1>2. CASE Disconnect
  <2>1. /\ UNCHANGED exchange
        /\ conn' = FALSE /\ stream' = <<>> /\ buffer' = <<>> /\ task' = "none"
        /\ last' = None /\ first' = FALSE /\ levels' = Empty
        /\ received' = None /\ torn' = FALSE
        /\ fails < MaxFail /\ fails' = fails + 1
    BY <1>2 DEF Disconnect, Become, NoBook, Fail
  <2>2. Hist' /\ GoodDiffs' = GoodDiffs
    BY <2>1, SameBooks DEF exchange
  <2>3. Types'
    <3>1. fails' \in 0..MaxFail
      BY <2>1 DEF Types
    <3> QED BY <2>1, <3>1, TypesStay, NoBookTyped
  <2>4. Queues' /\ Mirrors' /\ Newest'
    BY <2>1 DEF Queues, Mirrors, Newest, None
  <2> QED BY <2>2, <2>3, <2>4
<1> QED BY <1>1, <1>2

\* What the book may become: nothing, or the exchange's book of some update.
LEMMA BookTyped ==
    ASSUME IInv, NEW v \in 0..id
    PROVE  /\ Snapshot(v).last = v /\ Snapshot(v).first = FALSE
           /\ Snapshot(v).levels = hist[v] /\ hist[v] \in [Levels -> 0..MaxId]
<1>1. v \in 0..MaxId
  BY BookAssumption DEF IInv, Types
<1> QED BY <1>1 DEF Snapshot, IInv, Types

\* A diff arrives: it is buffered, applied, or shows a gap.
LEMMA ReceiveStep ==
    ASSUME IInv, Receive PROVE IInv'
<1> USE BookAssumption
<1> DEFINE e == Head(stream)
<1>1. /\ stream # <<>> /\ stream' = Tail(stream) /\ received' = e.u /\ task # "replay"
      /\ OnDiffBuffered(e) \/ OnDiffApplied(e) \/ OnGap(e)
      /\ UNCHANGED <<exchange, conn, torn, fails>>
  BY DEF Receive, LoopFree
<1>2. Hist' /\ GoodDiffs' = GoodDiffs
  BY <1>1, SameBooks DEF exchange
<1>3. e \in GoodDiffs /\ stream' \in Seq(GoodDiffs)
  BY <1>1 DEF IInv, Queues
<1>4. e.u \in 1..id
  BY <1>3, GoodIsOK DEF IInv
<1> HIDE DEF e
<1>5. CASE OnDiffBuffered(e)
  <2>1. /\ buffer' = Trim(Append(buffer, e))
        /\ task' = IF task = "none" THEN "fetch" ELSE task
        /\ ~Synced /\ UNCHANGED <<last, first, levels>>
    BY <1>5 DEF OnDiffBuffered, book
  <2>2. last = None /\ task' \in {"fetch", "sleep"}
    BY <1>1, <2>1 DEF IInv, Types, Newest, Synced
  <2>3. /\ buffer' \in Seq(GoodDiffs) /\ Len(buffer') <= MaxBuffer
        /\ buffer' # <<>> /\ buffer'[Len(buffer')] = e
    <3> DEFINE s == Append(buffer, e)
    <3>1. /\ s \in Seq(GoodDiffs) /\ Len(s) = Len(buffer) + 1 /\ s[Len(s)] = e
          /\ Len(buffer) \in Nat /\ Len(buffer) <= MaxBuffer
      BY <1>3 DEF IInv, Queues
    <3>2. CASE Len(s) > MaxBuffer
      <4>1. buffer' = Tail(s)
        BY <2>1, <3>2 DEF Trim
      <4>2. Tail(s) \in Seq(GoodDiffs) /\ Len(Tail(s)) = Len(s) - 1
            /\ \A k \in 1..Len(s) - 1 : Tail(s)[k] = s[k + 1]
        BY <3>1, <3>2
      <4> QED BY <3>1, <3>2, <4>1, <4>2
    <3>3. CASE ~(Len(s) > MaxBuffer)
      <4>1. buffer' = s
        BY <2>1, <3>3 DEF Trim
      <4> QED BY <3>1, <3>3, <4>1
    <3> QED BY <3>2, <3>3
  <2>4. Types'
    <3>1. /\ id' = id /\ sent' = sent /\ hist' = hist /\ conn' = conn /\ torn' = torn /\ fails' = fails
          /\ last' = last /\ first' = first /\ levels' = levels
      BY <1>1, <2>1 DEF exchange
    <3>2. received' \in -1..id
      BY <1>1, <1>4 DEF IInv, Types
    <3> QED BY <2>2, <3>1, <3>2 DEF IInv, Types
  <2>5. Queues' /\ Mirrors'
    <3>1. last' = None /\ GoodDiffs' = GoodDiffs
      BY <1>2, <2>1, <2>2
    <3> QED BY <1>3, <2>3, <3>1 DEF Queues, Mirrors
  <2>6. received' = e.u /\ last' = None
    BY <1>1, <2>1, <2>2
  <2>7. Newest'
    BY <2>2, <2>3, <2>6 DEF Newest
  <2> QED BY <1>2, <2>4, <2>5, <2>7 DEF IInv
<1>6. CASE OnDiffApplied(e)
  <2>1. /\ last' = Applied(Book, e).last /\ first' = Applied(Book, e).first
        /\ levels' = Applied(Book, e).levels
        /\ Stale(Book, e) \/ ~Gap(Book, e)
        /\ task = "none" /\ last # None /\ UNCHANGED <<buffer, task>>
    BY <1>6 DEF OnDiffApplied, Become, Synced
  <2>2. /\ last' \in 0..id /\ last' >= e.u /\ first' \in BOOLEAN
        /\ levels' \in [Levels -> 0..MaxId] /\ levels' = hist[last']
    BY <1>3, <2>1, DiffApplies
  <2>3. Types'
    <3>1. /\ last' \in -1..id /\ received' \in -1..id /\ conn' \in BOOLEAN
          /\ torn' \in BOOLEAN /\ fails' \in 0..MaxFail
      BY <1>1, <1>4, <2>2 DEF IInv, Types
    <3> QED BY <1>1, <2>1, <2>2, <3>1, TypesStay DEF IInv
  <2>4. Queues' /\ Mirrors' /\ Newest'
    BY <1>1, <1>2, <1>3, <2>1, <2>2 DEF IInv, Queues, Mirrors, Newest, None, exchange
  <2> QED BY <1>2, <2>3, <2>4 DEF IInv
<1>7. CASE OnGap(e)
  <2>1. /\ last' = None /\ first' = FALSE /\ levels' = Empty
        /\ buffer' = <<e>> /\ task' = "fetch"
    BY <1>7 DEF OnGap, Become, NoBook
  <2>2. Types'
    <3>1. /\ received' \in -1..id /\ conn' \in BOOLEAN
          /\ torn' \in BOOLEAN /\ fails' \in 0..MaxFail
      BY <1>1, <1>4 DEF IInv, Types
    <3> QED BY <1>1, <2>1, <3>1, TypesStay, NoBookTyped DEF IInv
  <2>3. Queues' /\ Mirrors' /\ Newest'
    BY <1>1, <1>2, <1>3, <2>1 DEF Queues, Mirrors, Newest
  <2> QED BY <1>2, <2>2, <2>3 DEF IInv
<1> QED BY <1>1, <1>5, <1>6, <1>7

\* A snapshot arrives.
LEMMA SnapshotStep ==
    ASSUME IInv, NEW v \in 0..id, Fetched(v) \/ SnapshotNotWritten(v)
    PROVE  IInv'
<1> USE BookAssumption
<1>1. /\ task = "fetch"
      /\ last' = v /\ first' = FALSE /\ levels' = hist[v] /\ levels' \in [Levels -> 0..MaxId]
      /\ UNCHANGED <<exchange, conn, stream, buffer, received>>
      /\ \/ task' = "replay" /\ torn' = FALSE /\ fails' = fails
         \/ task' = "none" /\ torn' = TRUE /\ fails < MaxFail /\ fails' = fails + 1
  BY BookTyped DEF Fetched, SnapshotNotWritten, Become, Fail
<1>2. Hist' /\ GoodDiffs' = GoodDiffs
  BY <1>1, SameBooks DEF exchange
<1>3. Types'
  <2>1. /\ last' \in -1..id /\ received' \in -1..id /\ conn' \in BOOLEAN
        /\ fails' \in 0..MaxFail
    BY <1>1 DEF IInv, Types
  <2> QED BY <1>1, <2>1, TypesStay DEF IInv
<1>4. Queues' /\ Mirrors'
  BY <1>1, <1>2 DEF IInv, Queues, Mirrors, exchange
<1>5. Newest'
  BY <1>1 DEF IInv, Newest, None
<1> QED BY <1>2, <1>3, <1>4, <1>5 DEF IInv

\* A buffered diff is replayed.
LEMMA ReplayDiffStep ==
    ASSUME IInv, ReplayDiff PROVE IInv'
<1> USE BookAssumption
<1> DEFINE e == Head(buffer)
<1>1. /\ task = "replay" /\ buffer # <<>> /\ last # None
      /\ buffer[Len(buffer)].u = received
      /\ Stale(Book, e) \/ ~Gap(Book, e)
      /\ last' = Applied(Book, e).last /\ first' = Applied(Book, e).first
      /\ levels' = Applied(Book, e).levels
      /\ buffer' = Tail(buffer)
      /\ UNCHANGED <<exchange, conn, stream, task, received, torn, fails>>
  BY DEF ReplayDiff, Become, IInv, Newest
<1>2. Hist' /\ GoodDiffs' = GoodDiffs
  BY <1>1, SameBooks DEF exchange
<1>3. /\ buffer \in Seq(GoodDiffs) /\ e \in GoodDiffs /\ e = buffer[1]
      /\ buffer' \in Seq(GoodDiffs) /\ Len(buffer) \in Nat /\ Len(buffer) >= 1
      /\ Len(buffer') = Len(buffer) - 1
      /\ \A k \in 1..Len(buffer) - 1 : buffer'[k] = buffer[k + 1]
  BY <1>1 DEF IInv, Queues
<1>4. /\ last' \in 0..id /\ last' >= e.u /\ first' \in BOOLEAN
      /\ levels' \in [Levels -> 0..MaxId] /\ levels' = hist[last']
  BY <1>1, <1>3, DiffApplies
<1>5. Types'
  <2>1. /\ last' \in -1..id /\ received' \in -1..id /\ conn' \in BOOLEAN
        /\ torn' \in BOOLEAN /\ fails' \in 0..MaxFail /\ task' = "replay"
    BY <1>1, <1>4 DEF IInv, Types
  <2> QED BY <1>1, <1>4, <2>1, TypesStay DEF IInv
<1>6. Queues' /\ Mirrors'
  BY <1>1, <1>2, <1>3, <1>4 DEF IInv, Queues, Mirrors, exchange
<1>7. Newest'
  <2>1. CASE Len(buffer) = 1
    <3>1. e.u = received /\ last' >= received
      BY <1>1, <1>3, <1>4, <2>1
    <3>2. buffer' = <<>>
      BY <1>3, <2>1
    <3> QED BY <1>1, <1>4, <3>1, <3>2 DEF Newest, None
  <2>2. CASE Len(buffer) # 1
    <3>1. Len(buffer') \in 1..Len(buffer) - 1
      BY <1>3, <2>2
    <3>2. buffer' # <<>> /\ buffer'[Len(buffer')] = buffer[Len(buffer)]
      BY <1>3, <3>1
    <3> QED BY <1>1, <1>4, <3>2 DEF Newest, None
  <2> QED BY <2>1, <2>2
<1> QED BY <1>2, <1>5, <1>6, <1>7 DEF IInv

\* The other steps of the snapshot task keep the buffer, and the book or its
\* absence.
LEMMA TaskStep ==
    ASSUME IInv, ReplayGap \/ Replayed \/ FetchFails \/ Wake PROVE IInv'
<1> USE BookAssumption
<1>1. UNCHANGED <<exchange, conn, stream, buffer, received, torn>>
  BY DEF ReplayGap, Replayed, FetchFails, Wake
<1>2. /\ task' \in {"none", "fetch", "sleep"}
      /\ fails' = fails \/ (fails < MaxFail /\ fails' = fails + 1)
  BY DEF ReplayGap, Replayed, FetchFails, Wake, Fail
<1>3. Hist' /\ GoodDiffs' = GoodDiffs
  BY <1>1, SameBooks DEF exchange
<1>4. \/ last' = None /\ first' = FALSE /\ levels' = Empty
      \/ UNCHANGED book
  BY DEF ReplayGap, Replayed, FetchFails, Wake, Become, NoBook
<1>5. Types'
  <2>1. fails' \in 0..MaxFail /\ received' \in -1..id /\ conn' \in BOOLEAN /\ torn' \in BOOLEAN
    BY <1>1, <1>2 DEF IInv, Types
  <2>2. last' \in -1..id /\ first' \in BOOLEAN /\ levels' \in [Levels -> 0..MaxId]
    BY <1>4, NoBookTyped DEF IInv, Types, book
  <2> QED BY <1>1, <1>2, <2>1, <2>2, TypesStay DEF IInv
<1>6. Queues' /\ Mirrors'
  BY <1>1, <1>3, <1>4 DEF IInv, Queues, Mirrors, exchange, book
<1>7. Newest'
  <2>1. CASE ReplayGap
    BY <1>1, <2>1 DEF ReplayGap, Become, NoBook, IInv, Newest
  <2>2. CASE Replayed
    BY <1>1, <2>2 DEF Replayed, IInv, Newest, book
  <2>3. CASE FetchFails \/ Wake
    BY <1>1, <2>3 DEF FetchFails, Wake, IInv, Newest, book
  <2> QED BY <2>1, <2>2, <2>3
<1> QED BY <1>3, <1>5, <1>6, <1>7 DEF IInv

\* Every step keeps the invariant.
LEMMA NextHolds == IInv /\ [Next]_vars => IInv'
<1> SUFFICES ASSUME IInv, [Next]_vars PROVE IInv'
  OBVIOUS
<1>1. ASSUME NEW l \in Levels, Update(l) PROVE IInv'
  BY <1>1, UpdateStep
<1>2. CASE Send
  BY <1>2, SendStep
<1>3. CASE Connect \/ Disconnect
  BY <1>3, ConnectionStep
<1>4. CASE Receive
  BY <1>4, ReceiveStep
<1>5. ASSUME NEW v \in 0..id, Fetched(v) \/ SnapshotNotWritten(v) PROVE IInv'
  BY <1>5, SnapshotStep
<1>6. CASE ReplayDiff
  BY <1>6, ReplayDiffStep
<1>7. CASE ReplayGap \/ Replayed \/ FetchFails \/ Wake
  BY <1>7, TaskStep
<1>8. CASE UNCHANGED vars
  <2>1. UNCHANGED <<exchange, conn, stream, book, buffer, task, received, torn, fails>>
    BY <1>8 DEF vars
  <2>2. Hist' /\ GoodDiffs' = GoodDiffs
    BY <2>1, SameBooks DEF exchange
  <2> QED BY <2>1, <2>2
      DEF IInv, Types, Queues, Mirrors, Newest, exchange, book
<1> QED BY <1>1, <1>2, <1>3, <1>4, <1>5, <1>6, <1>7, <1>8 DEF Next

-----------------------------------------------------------------------------
(* The theorems.                                                           *)

\* Every variable has its type, the buffer stays within its bound.
THEOREM TypesHold == Spec => []TypeOK
<1>1. IInv => TypeOK
  <2> SUFFICES ASSUME IInv PROVE TypeOK
    OBVIOUS
  <2>1. ASSUME NEW s \in Seq(GoodDiffs), NEW k \in 1..Len(s) PROVE DiffOK(s[k])
    <3>1. s[k] \in GoodDiffs
      BY <2>1
    <3> HIDE DEF GoodDiffs
    <3>2. Types /\ Hist
      BY DEF IInv
    <3> QED BY <3>1, <3>2, GoodIsOK
  <2> QED BY <2>1 DEF TypeOK, IInv, Types, Queues
<1> QED BY <1>1, InitHolds, NextHolds, PTL DEF Spec

\* A local book that has a last_update_id is the exchange's book of that update.
THEOREM MirrorsHolds == Spec => []Mirrors
<1>1. IInv => Mirrors
  BY DEF IInv
<1> QED BY <1>1, InitHolds, NextHolds, PTL DEF Spec

\* A synced book has every diff received in it.
THEOREM SyncedIsCurrentHolds == Spec => []SyncedIsCurrent
<1>1. IInv => SyncedIsCurrent
  BY DEF IInv, Newest, SyncedIsCurrent, Synced
<1> QED BY <1>1, InitHolds, NextHolds, PTL DEF Spec
=============================================================================
