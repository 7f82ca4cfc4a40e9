------------------------------- MODULE BookSync -------------------------------
(***************************************************************************)
(* The local order book of one symbol (src/src/exchange/orderbook.py and   *)
(* BookSynchronizer of ws.py) against the exchange's book.                 *)
(*                                                                         *)
(* The exchange numbers its updates.  It sends diffs, each with the values *)
(* of the levels touched since the diff before it, and answers a snapshot  *)
(* request with the book as it was after some update.  Connection and      *)
(* snapshot task run on one event loop: an action is what runs between two *)
(* awaits, only the replay of the buffer takes a step for each diff, while *)
(* the loop is blocked.  A level's quantity is named by the update that    *)
(* set it; prices, and the levels beyond the snapshot's limit, are left    *)
(* out.                                                                    *)
(***************************************************************************)
EXTENDS Integers, Sequences

CONSTANTS
    Levels,      \* the price levels
    MaxId,       \* bound: updates
    MaxBuffer,   \* max_buffer
    MaxFail      \* bound: connections lost, diffs lost, requests and writes failed

ASSUME BookAssumption == MaxId \in Nat /\ MaxBuffer \in Nat \ {0} /\ MaxFail \in Nat

VARIABLES
    \* the exchange: its last update, the books it had, the last update it sent
    id, hist, sent,
    \* the connection, and the diffs on their way
    conn, stream,
    \* LocalOrderBook: last_update_id (None is -1), _first_applied, the levels
    last, first, levels,
    \* BookSynchronizer: the diffs buffered, and what its task waits for
    buffer, task,
    \* history: the last update received since the last reset, and whether a
    \* write of the snapshot record failed since then
    received, torn,
    fails

exchange == <<id, hist, sent>>
book == <<last, first, levels>>
vars == <<exchange, conn, stream, book, buffer, task, received, torn, fails>>

-----------------------------------------------------------------------------
None == -1
Empty == [l \in Levels |-> 0]
\* A diff: U, u, pu, and the levels it sets.
Diff(U, u, pu, b) == [U |-> U, u |-> u, pu |-> pu, b |-> b]
Touched(b, since) == {l \in Levels : b[l] > since}
NextDiff ==
    Diff(sent + 1, id, sent, [l \in Touched(hist[id], sent) |-> hist[id][l]])

NoBook == [last |-> None, first |-> FALSE, levels |-> Empty]
Fail == fails < MaxFail /\ fails' = fails + 1
Become(b) == last' = b.last /\ first' = b.first /\ levels' = b.levels
Book == [last |-> last, first |-> first, levels |-> levels]
\* synced
Synced == task = "none" /\ last # None

Init ==
    /\ id = 0 /\ hist = [v \in 0..MaxId |-> Empty] /\ sent = 0
    /\ conn = FALSE /\ stream = <<>>
    /\ last = None /\ first = FALSE /\ levels = Empty
    /\ buffer = <<>> /\ task = "none"
    /\ received = None /\ torn = FALSE /\ fails = 0

-----------------------------------------------------------------------------
(* LocalOrderBook.apply_diff                                               *)

\* Mutant of Gap: the first diff need not reach back to the snapshot.
GapAnyFirst(b, e) == b.first /\ e.pu # b.last
Stale(b, e) == ~b.first /\ e.u < b.last
Gap(b, e) == IF b.first THEN e.pu # b.last ELSE e.U > b.last
Applied(b, e) ==
    IF Stale(b, e) THEN b
    ELSE [last |-> e.u, first |-> TRUE,
          levels |-> [l \in Levels |-> IF l \in DOMAIN e.b THEN e.b[l] ELSE b.levels[l]]]

-----------------------------------------------------------------------------
(* The exchange.                                                           *)

Update(l) ==
    /\ id < MaxId /\ id' = id + 1
    /\ hist' = [hist EXCEPT ![id + 1] = [hist[id] EXCEPT ![l] = id + 1]]
    /\ UNCHANGED <<sent, conn, stream, book, buffer, task, received, torn, fails>>
\* A diff is sent, to nobody while the connection is down.
Send ==
    /\ id > sent /\ sent' = id
    /\ \/ conn /\ stream' = Append(stream, NextDiff) /\ UNCHANGED fails
       \/ ~conn /\ UNCHANGED <<stream, fails>>
       \/ conn /\ Fail /\ UNCHANGED stream
    /\ UNCHANGED <<id, hist, conn, book, buffer, task, received, torn>>

-----------------------------------------------------------------------------
(* The connection: on_diff for every message, reset when it is lost.       *)

\* The event loop is not replaying a buffer.
LoopFree == task # "replay"
Connect ==
    /\ LoopFree /\ ~conn /\ conn' = TRUE
    /\ UNCHANGED <<exchange, stream, book, buffer, task, received, torn, fails>>
\* The answer of a request under way comes to nothing: the task is cancelled.
Disconnect ==
    /\ LoopFree /\ conn /\ Fail /\ conn' = FALSE /\ stream' = <<>>
    /\ Become(NoBook) /\ buffer' = <<>> /\ task' = "none"
    /\ received' = None /\ torn' = FALSE
    /\ UNCHANGED exchange

\* on_diff: buffered, the oldest dropped, with a resync to wait for ...
Trim(s) == IF Len(s) > MaxBuffer THEN Tail(s) ELSE s
OnDiffBuffered(e) ==
    /\ ~Synced
    /\ buffer' = Trim(Append(buffer, e))
    /\ task' = IF task = "none" THEN "fetch" ELSE task
    /\ UNCHANGED book
\* ... or applied, or a gap: the book is dropped and the diff kept.
OnDiffApplied(e) ==
    /\ Synced /\ (Stale(Book, e) \/ ~Gap(Book, e))
    /\ Become(Applied(Book, e))
    /\ UNCHANGED <<buffer, task>>
OnGap(e) ==
    /\ Synced /\ ~Stale(Book, e) /\ Gap(Book, e)
    /\ Become(NoBook)
    /\ buffer' = <<e>> /\ task' = "fetch"
Receive ==
    /\ LoopFree /\ stream # <<>> /\ stream' = Tail(stream) /\ received' = Head(stream).u
    /\ \/ OnDiffBuffered(Head(stream)) \/ OnDiffApplied(Head(stream)) \/ OnGap(Head(stream))
    /\ UNCHANGED <<exchange, conn, torn, fails>>

-----------------------------------------------------------------------------
(* The snapshot task: _resync.                                             *)

Snapshot(v) == [last |-> v, first |-> FALSE, levels |-> hist[v]]

\* The snapshot of update v arrives, and the buffer is replayed ...
Fetched(v) ==
    /\ task = "fetch" /\ task' = "replay"
    /\ Become(Snapshot(v)) /\ torn' = FALSE
    /\ UNCHANGED <<exchange, conn, stream, buffer, received, fails>>
ReplayDiff ==
    /\ task = "replay" /\ buffer # <<>>
    /\ Stale(Book, Head(buffer)) \/ ~Gap(Book, Head(buffer))
    /\ Become(Applied(Book, Head(buffer))) /\ buffer' = Tail(buffer)
    /\ UNCHANGED <<exchange, conn, stream, task, received, torn, fails>>
\* ... to a gap: the rest of the buffer waits for another snapshot ...
\* Mutant of ReplayGap: a failed replay drops the buffer.
ReplayGapDrops ==
    /\ task = "replay" /\ buffer # <<>>
    /\ ~Stale(Book, Head(buffer)) /\ Gap(Book, Head(buffer))
    /\ Become(NoBook) /\ task' = "sleep" /\ buffer' = <<>>
    /\ UNCHANGED <<exchange, conn, stream, received, torn, fails>>
ReplayGap ==
    /\ task = "replay" /\ buffer # <<>>
    /\ ~Stale(Book, Head(buffer)) /\ Gap(Book, Head(buffer))
    /\ Become(NoBook) /\ task' = "sleep"
    /\ UNCHANGED <<exchange, conn, stream, buffer, received, torn, fails>>
\* ... or to its end.
Replayed ==
    /\ task = "replay" /\ buffer = <<>> /\ task' = "none"
    /\ UNCHANGED <<exchange, conn, stream, book, buffer, received, torn, fails>>

\* The snapshot's record is not written: the task dies with the book it has.
SnapshotNotWritten(v) ==
    /\ task = "fetch" /\ Fail
    /\ Become(Snapshot(v)) /\ task' = "none" /\ torn' = TRUE
    /\ UNCHANGED <<exchange, conn, stream, buffer, received>>
\* Mutant of FetchFails: the task gives up.
FetchGivesUp ==
    /\ task = "fetch" /\ Fail /\ task' = "none"
    /\ UNCHANGED <<exchange, conn, stream, book, buffer, received, torn>>
FetchFails ==
    /\ task = "fetch" /\ Fail /\ task' = "sleep"
    /\ UNCHANGED <<exchange, conn, stream, book, buffer, received, torn>>
Wake ==
    /\ task = "sleep" /\ task' = "fetch"
    /\ UNCHANGED <<exchange, conn, stream, book, buffer, received, torn, fails>>

-----------------------------------------------------------------------------
Next ==
    \/ \E l \in Levels : Update(l)
    \/ Send \/ Connect \/ Disconnect \/ Receive
    \/ \E v \in 0..id : Fetched(v) \/ SnapshotNotWritten(v)
    \/ ReplayDiff \/ ReplayGap \/ Replayed \/ FetchFails \/ Wake
Spec == Init /\ [][Next]_vars
\* The event loop runs, and the snapshots are not old for ever.
FairSpec ==
    /\ Spec
    /\ WF_vars(Receive) /\ WF_vars(Wake) /\ WF_vars(ReplayDiff \/ ReplayGap \/ Replayed)
    /\ SF_vars(Fetched(id))

-----------------------------------------------------------------------------
(* Properties.                                                             *)

DiffOK(e) ==
    /\ e.U \in 1..MaxId /\ e.u \in e.U..MaxId /\ e.pu = e.U - 1
    /\ DOMAIN e.b \subseteq Levels /\ \A l \in DOMAIN e.b : e.b[l] \in e.U..e.u
\* Every variable has its type, and the buffer its bound.
TypeOK ==
    /\ id \in 0..MaxId /\ sent \in 0..id /\ hist \in [0..MaxId -> [Levels -> 0..MaxId]]
    /\ conn \in BOOLEAN /\ \A k \in 1..Len(stream) : DiffOK(stream[k])
    /\ last \in -1..id /\ first \in BOOLEAN /\ levels \in [Levels -> 0..MaxId]
    /\ \A k \in 1..Len(buffer) : DiffOK(buffer[k])
    /\ Len(buffer) <= MaxBuffer
    /\ task \in {"none", "fetch", "replay", "sleep"} /\ received \in -1..id /\ torn \in BOOLEAN
    /\ fails \in 0..MaxFail

\* Whatever is lost, late or cut from the buffer, a local book with a
\* last_update_id is the exchange's book of that update, level for level.
Mirrors == last # None => levels = hist[last]

\* A synced book has all the diffs received since the last reset in it, unless
\* the task died between snapshot and replay.
SyncedIsCurrent == Synced /\ ~torn => last >= received

\* A book that waits for a snapshot gets synced, as long as the connection is
\* not lost.
GetsSynced == buffer # <<>> /\ task # "none" ~> Synced \/ ~conn
=============================================================================
