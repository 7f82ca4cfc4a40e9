------------------------------ MODULE Collector ------------------------------
(***************************************************************************)
(* What the collector process does about data that did not come            *)
(* (src/src/collect_orderbook.py): the outages OrderBookCollector records  *)
(* (src/src/exchange/ws.py), the alerts of CollectionMonitor               *)
(* (src/src/monitor.py) and the trades AutoBackfiller fetches again        *)
(* (src/src/autobackfill.py, integrity.py, archive.py), for one symbol.    *)
(*                                                                         *)
(* Each unit of time has one trade and one diff; a trade's id is its time. *)
(* What arrives while its connection is up is stored: the buffer in        *)
(* between is module PgSink, the last unit of which a crash may lose.      *)
(***************************************************************************)
EXTENDS Integers, Sequences, FiniteSetsExt

CONSTANTS
    AlertAfter,            \* args.alert_after: outage_record_s and alert_after
    Settle, Lead,          \* AutoBackfiller: settle_s, lead_s
    StartupDelay, SweepInterval, SweepWindow,
    MaxIds,                \* backfill_agg_gaps: max_ids_per_gap
    RestAge,               \* REST answers -4166 for ids as old as this
    Day, PublishLag,       \* the archive has a day's file this long after it
    JobTime,               \* the longest a round of jobs takes
    MaxTime, MaxFaults     \* bounds: time; disconnections, failed jobs, crashes

None == -1

ASSUME CollectorAssumption ==
    /\ {AlertAfter, SweepInterval, MaxIds, Day, JobTime} \subseteq Nat \ {0}
    /\ {Settle, Lead, StartupDelay, SweepWindow, RestAge, PublishLag, MaxTime, MaxFaults}
          \subseteq Nat

VARIABLES
    now,
    up,          \* whether the process runs
    conn,        \* the connections that are up
    stored,      \* market.trades: ids
    lastBook,    \* market.book_top5: the last time
    lastDepth,   \* collector.last_depth_at
    outages,     \* collector.outages, not yet drained by the monitor
    pending,     \* AutoBackfiller._pending
    jobs,        \* due_jobs' answer, not yet run
    nextSweep,   \* AutoBackfiller._next_sweep
    polled,      \* when due_jobs was last called
    started,     \* when the process started
    known,       \* whether it knew of a book before it
    alerted,     \* CollectionMonitor._alerted
    told,        \* the last message of this process's monitor
    checked,     \* whether the monitor has checked since the last message
    resumed,     \* the last outage this process recorded
    failedAt,    \* when a job last failed
    faults       \* bound

collector == <<conn, lastDepth, outages>>
backfiller == <<pending, jobs, nextSweep, polled>>
monitor == <<alerted, told, checked>>
process == <<started, known>>
vars == <<now, up, stored, lastBook, collector, backfiller, monitor, process, resumed, failedAt, faults>>

Span == 0..MaxTime
Outage == [from : Span, to : Span]
NoOutage == [from |-> None, to |-> None]

TypeOK ==
    /\ now \in Span /\ up \in BOOLEAN /\ conn \subseteq {"depth", "trade"}
    /\ stored \subseteq 0..now
    /\ {lastBook, lastDepth} \subseteq Span \cup {None}
    /\ outages \in Seq(Outage) /\ resumed \in Outage \cup {NoOutage} /\ known \in BOOLEAN
    /\ pending \in Seq([from : Span, due : 0..now + Settle])
    /\ jobs \in Seq([from : Int, to : 0..polled])
    /\ nextSweep \in 0..now + SweepInterval + StartupDelay
    /\ polled \in -1..now /\ checked \in BOOLEAN /\ failedAt \in -1..now
    /\ started \in 0..now
    /\ alerted \in BOOLEAN /\ told \in {"nothing", "broken", "restored"}
    /\ faults \in 0..MaxFaults

------------------------------------------------------------------------------
(* The gaps of stored trades, and what can be fetched again *)

\* find_agg_gaps: the stored trades of the window that do not follow the stored
\* trade before them, which may lie before the window.
GapEndsInside(from, to) ==
    {b \in stored : from <= b /\ b <= to /\ b - 1 \notin stored /\ \E a \in stored : a < b}
\* Mutant of GapEnds: the row before the window is not looked at.
GapEndsInsideOnly(from, to) == {b \in GapEndsInside(from, to) : \E a \in stored : from <= a /\ a < b}
GapEnds(from, to) == GapEndsInside(from, to)

GapStart(b) == Max({a \in stored : a < b}) + 1

\* archive: the file of a day of which nothing is missing, once it is published.
Published(i) == now >= (i \div Day + 1) * Day + PublishLag

Archived(lo, b) == {i \in lo..b-1 : Published(i)}
\* backfill_agg_gaps of one gap: all its trades by REST, or those the archive
\* has when they are too many or too old.
Fetched(b) ==
    LET lo == GapStart(b) IN
    IF b - lo > MaxIds \/ now - lo >= RestAge
    THEN Archived(lo, b) ELSE lo..b-1

------------------------------------------------------------------------------
(* The streams *)

Broke == lastDepth # None /\ now' - lastDepth >= AlertAfter

\* handle_message on a diff: the silence before it may have been an outage.
ReceiveDepth ==
    /\ lastDepth' = now' /\ lastBook' = now'
    /\ IF Broke
       THEN /\ outages' = Append(outages, [from |-> lastDepth, to |-> now'])
            /\ pending' = Append(pending, [from |-> lastDepth, due |-> now' + Settle])
            /\ resumed' = [from |-> lastDepth, to |-> now']
       ELSE UNCHANGED <<outages, pending, resumed>>

\* The backfiller sleeps for less than a unit, and a round of jobs ends in time.
Prompt == IF jobs = <<>> THEN polled = now ELSE now < polled + JobTime

Tick ==
    /\ now < MaxTime /\ (up => Prompt)
    /\ now' = now + 1
    /\ stored' = stored \cup (IF "trade" \in conn THEN {now'} ELSE {})
    /\ IF "depth" \in conn THEN ReceiveDepth
       ELSE UNCHANGED <<lastDepth, lastBook, outages, pending, resumed>>
    /\ checked' = FALSE
    /\ UNCHANGED <<up, conn, jobs, nextSweep, polled, alerted, told, process, failedAt, faults>>

\* _connection_loop
Connect(s) ==
    /\ up /\ s \notin conn
    /\ conn' = conn \cup {s}
    /\ UNCHANGED <<now, up, stored, lastBook, lastDepth, outages, backfiller, monitor, process, resumed, failedAt, faults>>

Disconnect(s) ==
    /\ s \in conn /\ faults < MaxFaults
    /\ conn' = conn \ {s} /\ faults' = faults + 1
    /\ UNCHANGED <<now, up, stored, lastBook, lastDepth, outages, backfiller, monitor, process, resumed, failedAt>>

------------------------------------------------------------------------------
(* CollectionMonitor.check, as late as a flush that waits for its answer lets it *)

Silent == now - (IF lastDepth # None THEN lastDepth ELSE started)

\* Mutant of Check: the silence is looked at before the outages are.
CheckSilenceFirst ==
    LET broken == Silent >= AlertAfter /\ ~alerted IN
    /\ up /\ ~checked /\ checked' = TRUE /\ outages' = <<>>
    /\ alerted' = (outages = <<>> /\ (alerted \/ broken))
    /\ told' = IF outages # <<>> THEN "restored" ELSE IF broken THEN "broken" ELSE told
    /\ UNCHANGED <<now, up, stored, lastBook, conn, lastDepth, backfiller, process, resumed, failedAt, faults>>
Check ==
    LET still == alerted /\ outages = <<>>
        broken == Silent >= AlertAfter /\ ~still
    IN
    /\ up /\ ~checked /\ checked' = TRUE /\ outages' = <<>>
    /\ alerted' = (still \/ broken)
    /\ told' = IF broken THEN "broken" ELSE IF outages # <<>> THEN "restored" ELSE told
    /\ UNCHANGED <<now, up, stored, lastBook, conn, lastDepth, backfiller, process, resumed, failedAt, faults>>

------------------------------------------------------------------------------
(* AutoBackfiller *)

\* due_jobs: takes what is due out of the pending outages, and perhaps a sweep.
Due(p) == now >= p.due
Picked(ps, due) ==
    LET pick[n \in 0..Len(ps)] ==
          IF n = 0 THEN <<>>
          ELSE IF Due(ps[n]) <=> due THEN Append(pick[n - 1], ps[n])
          ELSE pick[n - 1]
    IN  pick[Len(ps)]
Windows(ps) == [i \in 1..Len(ps) |-> [from |-> ps[i].from - Lead, to |-> now]]

\* Mutant of KeepPending: a sweep takes the outages that are not yet due with it.
KeepPendingUnlessSweep == IF now >= nextSweep THEN <<>> ELSE Picked(pending, FALSE)
KeepPending == Picked(pending, FALSE)

Poll ==
    LET outs == Windows(Picked(pending, TRUE)) IN
    /\ up /\ jobs = <<>> /\ polled # now
    /\ polled' = now /\ pending' = KeepPending
    /\ IF now >= nextSweep
       THEN /\ jobs' = Append(outs, [from |-> now - SweepWindow, to |-> now])
            /\ nextSweep' = now + SweepInterval
       ELSE jobs' = outs /\ UNCHANGED nextSweep
    /\ UNCHANGED <<now, up, stored, lastBook, collector, monitor, process, resumed, failedAt,
                   faults>>

\* run_once: each gap of the window is filled and committed on its own.
RunJob ==
    LET j == Head(jobs) IN
    /\ up /\ jobs # <<>>
    /\ jobs' = Tail(jobs)
    /\ stored' = stored \cup UNION {Fetched(b) : b \in GapEnds(j.from, j.to)}
    /\ UNCHANGED <<now, up, lastBook, collector, pending, nextSweep, polled, monitor, process, resumed, failedAt, faults>>

\* The database, REST or the archive fails at some gap: those before it are kept.
FailJob ==
    LET j == Head(jobs) IN
    /\ up /\ jobs # <<>> /\ faults < MaxFaults
    /\ jobs' = Tail(jobs) /\ failedAt' = now /\ faults' = faults + 1
    /\ \E k \in GapEnds(j.from, j.to) \cup {0} :
          stored' = stored \cup UNION {Fetched(b) : b \in {g \in GapEnds(j.from, j.to) : g < k}}
    /\ UNCHANGED <<now, up, lastBook, collector, pending, nextSweep, polled, monitor, process, resumed>>

------------------------------------------------------------------------------
(* The process *)

\* A crash loses the memory, and perhaps the trade that waits in the sink.
Crash ==
    /\ up /\ faults < MaxFaults
    /\ up' = FALSE /\ faults' = faults + 1
    /\ \E unsaved \in {{}, {now}} : stored' = stored \ (unsaved \ {0})
    /\ conn' = {} /\ lastDepth' = None /\ outages' = <<>> /\ pending' = <<>> /\ jobs' = <<>>
    /\ alerted' = FALSE /\ told' = "nothing" /\ checked' = FALSE
    /\ resumed' = NoOutage /\ nextSweep' = 0 /\ polled' = None
    /\ UNCHANGED <<now, lastBook, process, failedAt>>

\* _amain; the monitor gives the collector the last book of the database.
Start ==
    /\ ~up
    /\ up' = TRUE /\ started' = now
    /\ lastDepth' = lastBook /\ known' = (lastBook # None) /\ nextSweep' = now + StartupDelay
    /\ UNCHANGED <<now, stored, lastBook, conn, outages, pending, jobs, polled, monitor, resumed,
                   failedAt, faults>>

Init ==
    /\ now = 0 /\ up = FALSE /\ conn = {}
    /\ \/ stored = {} /\ lastBook = None
       \/ stored = {0} /\ lastBook = 0
    /\ lastDepth = None /\ outages = <<>> /\ resumed = NoOutage
    /\ pending = <<>> /\ jobs = <<>> /\ nextSweep = 0 /\ polled = None
    /\ started = 0 /\ known = FALSE /\ alerted = FALSE /\ told = "nothing" /\ checked = FALSE
    /\ failedAt = None /\ faults = 0

Next ==
    \/ Tick
    \/ \E s \in {"depth", "trade"} : Connect(s) \/ Disconnect(s)
    \/ Check \/ Poll \/ RunJob \/ FailJob
    \/ Crash \/ Start

Spec == Init /\ [][Next]_vars

------------------------------------------------------------------------------
(* Properties *)

\* The trades that are missing between stored ones, and the stored one after each.
Holes == {h \in 0..now : h \notin stored /\ \E a, b \in stored : a < h /\ h < b}
After(h) == CHOOSE b \in stored : h < b /\ \A c \in stored : c > h => b <= c
Before(h) == CHOOSE a \in stored : a < h /\ \A c \in stored : c < h => c <= a
PublishedAt(i) == (i \div Day + 1) * Day + PublishLag

\* autobackfill.py, integrity.py: whatever a disconnection, a failed job or a
\* restart left out is stored again one sweep after it can be seen and fetched,
\* as long as the trade after it lies in the window of the sweep.
HolesAreFilled ==
    up => \A h \in Holes :
        LET ready == Max({After(h), started, failedAt, PublishedAt(h)})
            wait == Max({SweepInterval, StartupDelay}) + 2 * JobTime - 1
        IN now > ready + wait => After(h) < now - SweepWindow

\* autobackfill.py: when the book resumes, the trades of the outage that REST
\* still gives are stored again right after the settling time, not only at the
\* next sweep.
OutageIsFilled ==
    up /\ resumed # NoOutage => \A h \in Holes :
        LET due == resumed.to + Settle IN
        /\ After(h) \in resumed.from - Lead .. due
        /\ now > due + 2 * JobTime - 1 /\ failedAt < due
        /\ ~Published(Before(h)) /\ After(h) - Before(h) - 1 <= MaxIds
        => now - Before(h) > RestAge

\* monitor.py: after each check the last word of the monitor says whether the book
\* is silent, in a process that knew of a book before it.
AlertsMatch ==
    (up /\ checked /\ known) =>
        ((told = "broken") <=> (Silent >= AlertAfter))
==============================================================================
