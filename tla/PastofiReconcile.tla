-------------------------- MODULE PastofiReconcile --------------------------
(***************************************************************************)
(* The daily reconciliation of the pastofi process (reconcile.py and the   *)
(* scheduling of runner.py): a subprocess replays the day from the         *)
(* collector's data and compares.  A signal of the replay that the process *)
(* does not have is held against it only where it could have decided, and  *)
(* that is worked out from the start and stop lines of events.jsonl.       *)
(*                                                                         *)
(* Signals fall on even moments, processes start and end on odd ones.  A   *)
(* start that is refused has written its line already; a process that dies *)
(* writes no stop, and may leave an event half written; if that no longer  *)
(* decodes, every later reconciliation fails.                              *)
(***************************************************************************)
EXTENDS FiniteSets, JsonLines

CONSTANTS
    DayLength,  \* moments of a day
    Warm,       \* the engine's warm-up, WARMUP
    After,      \* RECONCILE_AFTER_S
    LastTime,   \* bound: the clock
    MaxEnds     \* bound: ends, refusals and failures of subprocesses

ASSUME ReconcileAssumption ==
    /\ DayLength \in Nat \ {0} /\ (DayLength % 2) = 0
    /\ Warm \in Nat /\ After \in Nat /\ LastTime \in Nat /\ MaxEnds \in Nat

VARIABLES
    time,
    since,      \* since when the process runs, or None
    firstStart, \* state.started_at, kept in state.json
    events,     \* events.jsonl
    pending, job,  \* reconcile_pending and the day of reconcile_proc
    reports,    \* the finished reports: day and the moments not covered
    \* history: moments at which the process could decide; the start and stop
    \* lines do not say what the process does, and at which moments they did
    \* not; days whose subprocess failed since the start
    able, astray, blind, failed, ends

files == <<events, reports, firstStart>>
process == <<since, pending, job, failed>>
reconcileHistory == <<able, astray, blind, ends>>
reconcileVars == <<time, files, process, reconcileHistory>>

None == -1
Event(what) == [what |-> what, at |-> time]
Running == since # None
Today == time \div DayLength
EndsOnce == ends < MaxEnds /\ ends' = ends + 1

ReconcileInit ==
    /\ time = 1 /\ since = None /\ firstStart = None /\ events = EmptyFile
    /\ pending = {} /\ job = None /\ reports = {}
    /\ able = {} /\ astray = FALSE /\ blind = {} /\ failed = {} /\ ends = 0

-----------------------------------------------------------------------------
(* The process.                                                            *)

\* A line that follows an unfinished one is lost with it.
Mark(what) == events' = AddLine(events, Event(what)) /\ astray' = (events.tail # "end")

\* Mutant of MissingDays: a day the process was down at the end of is left.
MissingSinceStart == {}
\* _schedule_missing_reconciles
MissingDays ==
    {d \in (firstStart' \div DayLength)..(Today - 1) : \A r \in reports : r.day # d}
FirstStart == firstStart' = IF firstStart = None THEN time ELSE firstStart
ProcessStart ==
    /\ ~Running /\ (time % 2) = 1
    /\ FirstStart /\ Mark("start")
    /\ since' = time /\ pending' = MissingDays /\ job' = None /\ failed' = {}
    /\ UNCHANGED <<time, reports, able, blind, ends>>
\* The start is refused by the checks after its line (_live_preflight,
\* recover), or the process dies while it writes it.
StartEnds ==
    /\ ~Running /\ (time % 2) = 1 /\ EndsOnce /\ FirstStart
    /\ events' \in {AddLine(events, Event("start"))} \cup TornFiles(events, Event("start"))
    /\ astray' = TRUE
    /\ UNCHANGED <<time, process, reports, able, blind>>
ProcessStop ==
    /\ Running /\ (time % 2) = 1 /\ EndsOnce /\ Mark("stop")
    /\ since' = None /\ pending' = {} /\ job' = None /\ failed' = {}
    /\ UNCHANGED <<time, reports, firstStart, able, blind>>
ProcessDies ==
    /\ Running /\ (time % 2) = 1 /\ EndsOnce
    /\ events' \in {events} \cup TornFiles(events, Event("alert"))
    /\ astray' = TRUE
    /\ since' = None /\ pending' = {} /\ job' = None /\ failed' = {}
    /\ UNCHANGED <<time, reports, firstStart, able, blind>>

\* The clock, with the part of _clock_loop that ends a day.
Passes ==
    /\ time < LastTime /\ time' = time + 1
    /\ pending' = IF Running /\ (time' % DayLength) = 0 THEN pending \cup {Today} ELSE pending
    /\ able' = IF Running /\ (time' % 2) = 0 /\ time' >= since + Warm
               THEN able \cup {time'} ELSE able
    /\ blind' = IF astray /\ (time' % 2) = 0 THEN blind \cup {time'} ELSE blind
    /\ UNCHANGED <<files, since, job, failed, astray, ends>>

-----------------------------------------------------------------------------
(* The reconciliation.                                                     *)

\* _maybe_reconcile: one subprocess at a time, the earliest day first.
Ready == {d \in pending : time >= (d + 1) * DayLength + After}
MaybeReconcile ==
    /\ Running /\ job = None
    /\ \E d \in Ready : /\ \A other \in Ready : d <= other
                        /\ pending' = pending \ {d} /\ job' = d
    /\ UNCHANGED <<time, files, since, failed, reconcileHistory>>

\* coverage: the start and stop lines, sorted by time, which they already are.
Marks(es) ==
    LET mark[n \in 0..Len(es)] ==
          IF n = 0 THEN <<>>
          ELSE IF es[n].what \in {"start", "stop"} THEN Append(mark[n - 1], es[n])
          ELSE mark[n - 1]
    IN  mark[Len(es)]
\* Mutant of MarkEnd: a start without a stop covers nothing.
MarkEndStopped(marks, i, d) == IF i < Len(marks) THEN marks[i + 1].at ELSE marks[i].at
MarkEnd(marks, i, d) == IF i < Len(marks) THEN marks[i + 1].at ELSE (d + 1) * DayLength
DayMoments(d) == {t \in DayLength * d..DayLength * (d + 1) - 1 : (t % 2) = 0}
CoveredIn(d) ==
    LET marks == Marks(ReadJsonl(events))
    IN  {t \in DayMoments(d) :
           \E i \in DOMAIN marks : /\ marks[i].what = "start"
                                   /\ t >= marks[i].at + Warm /\ t < MarkEnd(marks, i, d)}
\* reconcile and save in the subprocess, or its failure, of which the runner
\* takes no notice.
JobEnds ==
    /\ job # None /\ job' = None
    /\ \/ /\ events.decodes
          /\ reports' = reports \cup {[day |-> job, uncovered |-> DayMoments(job) \ CoveredIn(job)]}
          /\ UNCHANGED <<failed, ends>>
       \/ /\ EndsOnce \/ (~events.decodes /\ UNCHANGED ends)
          /\ failed' = failed \cup {job} /\ UNCHANGED reports
    /\ UNCHANGED <<time, since, firstStart, events, pending, able, astray, blind>>

ReconcileNext ==
    \/ ProcessStart \/ StartEnds \/ ProcessStop \/ ProcessDies \/ Passes
    \/ MaybeReconcile \/ JobEnds

-----------------------------------------------------------------------------
(* Properties.                                                             *)

\* A report leaves out exactly the moments at which the process could not
\* decide, off or warming up, whatever starts and ends the day has seen,
\* unless the last start or end before the moment left no line of its own.
CoverageIsTrue ==
    \A r \in reports : \A t \in DayMoments(r.day) \ blind :
        t \in r.uncovered <=> t \notin able

\* While the process runs, every day since its first start that is over has
\* its report, or waits for it, or its subprocess failed: no restart forgets
\* a day.
NoDayForgotten ==
    Running => \A d \in (firstStart \div DayLength)..(Today - 1) :
                   \/ d \in pending \cup failed \cup {job}
                   \/ \E r \in reports : r.day = d
=============================================================================
