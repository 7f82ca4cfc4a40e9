--------------------------- MODULE OvernightRunner ---------------------------
(***************************************************************************)
(* The scheduler of the overnight strategy (src/src/overnight/runner.py):  *)
(* it buys before a night, keeps an emergency stop on the exchange, sells  *)
(* before the next opening and books the night with its risk guard.        *)
(*                                                                         *)
(* It is one thread that waits for points in time and calls the exchange;  *)
(* its program counter pc stands between two calls or two saves.  The      *)
(* exchange fills orders, time passes and the process dies in between.     *)
(* runner.json (night, history) and risk.json survive; the next process    *)
(* runs recover() first.                                                   *)
(*                                                                         *)
(* Client ids are made of the night, the leg and a number, and placing a   *)
(* known id again returns the old order.  The paper exchange knows its     *)
(* orders and fills after a restart, the live broker knows only the orders *)
(* that are still open.  A paper limit order is filled as a whole, a live  *)
(* one in parts, and the trades of a live order may show too late for the  *)
(* runner to count them (live.py:272).  Prices are left out: the result of *)
(* a night is drawn from Results.                                          *)
(***************************************************************************)
EXTENDS Integers, FiniteSets, FiniteSetsExt

CONSTANTS
    N,            \* bound: nights
    LimitNights,  \* the nights of method B: limit orders first
    SkipNights,   \* the nights the calendar skips, or calendar_check doubts
    Qty,          \* spec qty and risk.max_abs_position
    Modes,        \* the modes run, out of "paper" and "live"
    MaxLimit,     \* bound: limit orders of one leg
    Results,      \* the results a night may have
    StopLine,     \* minus risk.test_stop_cumulative_usd, which is negative (risk.py:33)
    PauseAfter,   \* risk.pause_after_consecutive_losses
    MaxCrash,     \* bound: crashes
    MaxFault,     \* bound: orders refused, market data missing
    MaxTrouble    \* bound: crashes, faults and the quantity shown late together

ASSUME RunnerAssumption ==
    /\ N \in Nat /\ Qty \in Nat \ {0} /\ MaxLimit \in Nat /\ StopLine \in Nat \ {0}
    /\ LimitNights \subseteq 1..N /\ SkipNights \subseteq 1..N /\ Modes \subseteq {"paper", "live"}
    /\ Results \subseteq Int /\ PauseAfter \in Nat \ {0}
    /\ MaxCrash \in Nat /\ MaxFault \in Nat /\ MaxTrouble \in Nat

VARIABLES
    mode,          \* paper or live
    now,           \* the clock, in points of time
    \* the runner: what it does next, its night, its finished nights, the
    \* order work of a leg, the position it asked for last; and runner.json
    pc, night, hist, work, seen, disk,
    \* RiskGuard.state, saved at every change
    guard,
    \* the exchange: the position (long), and the orders the broker knows
    pos, book,
    \* history: how often a night was entered, the quantity filled since then
    \* that the broker did not show in time, and the entry orders filled
    \* between two requests of the guard
    entered, late, raced,
    \* how much of each bound is used up
    crashes, faults

vars == <<mode, now, pc, night, hist, work, seen, disk, guard, pos, book,
          entered, late, raced, crashes, faults>>
plan == <<night, hist, disk, entered>>
missed == <<late, raced>>
exch == <<pos, book>>

-----------------------------------------------------------------------------
\* The points of a night's time: 0 before it, 1 limit orders for the entry,
\* 2 market order for the entry, 3 too late to enter, 4 limit orders for the
\* exit, 5 market order for the exit, 6 the opening, 7 the residual check (and 0 of the next night).
Nights == 1..N
Points == 7
At(n, point) == Points * (n - 1) + point
EntryStart(n) == At(n, IF n \in LimitNights THEN 1 ELSE 2)
ExitStart(n) == At(n, IF n \in LimitNights THEN 4 ELSE 5)
MarketAt(n, leg) == At(n, IF leg = "e" THEN 2 ELSE 5)

\* NightState.
Phases == {"none", "pending", "entering", "holding", "exiting", "done", "skipped"}
NewNight(n) == [n |-> n, phase |-> "pending", qty |-> 0, seq |-> 0, pnl |-> 0]
Active == night.phase \in {"entering", "holding", "exiting"}

\* Orders of legs e(ntry), s(top), (e)x(it), f(orced), r(esidual); the market
\* order of a leg has number 99.
MarketNo == 99
Id(leg, k) == <<night.n, leg, k>>
Known(id) == \E o \in book : o.id = id
NewOrder(id, left, done, open) == [id |-> id, left |-> left, done |-> done, open |-> open]
Open == {o \in book : o.open}
OpenLeg(leg) == {o \in Open : o.id[2] = leg}
Shut(os) == {[o EXCEPT !.open = FALSE] : o \in os}
Sum(os) == MapThenSumSet(LAMBDA o : o.left, os)
\* What the broker shows as filled by the orders of the current leg.
Ours == {o \in book : o.id[1] = night.n /\ o.id[2] = work.leg
                        /\ (o.id[3] < work.k \/ o.id[3] = MarketNo)}
DoneSum(os) == MapThenSumSet(LAMBDA o : o.done, os)
Filled == DoneSum(Ours)
Rest == work.qty - Filled
Current == {o \in Ours : o.open}

Lesser(a, b) == IF a < b THEN a ELSE b
Bearable(more) == crashes + faults + late + more <= MaxTrouble
Fails == faults < MaxFault /\ Bearable(1) /\ faults' = faults + 1
Works == UNCHANGED faults

\* Runner._save
Save == disk' = [night |-> night', hist |-> hist']

\* The locals of a function that has returned.
Idle == [leg |-> "e", qty |-> 0, k |-> 0, ret |-> "next"]
Init ==
    /\ mode \in Modes /\ now = 0
    /\ pc = "start" /\ night = [NewNight(0) EXCEPT !.phase = "none"] /\ hist = {}
    /\ work = Idle /\ seen = 0 /\ disk = [night |-> night, hist |-> hist]
    /\ guard = [status |-> "active", cum |-> 0, losses |-> 0, nights |-> [n \in Nights |-> 0]]
    /\ pos = 0 /\ book = {} /\ entered = [n \in Nights |-> 0] /\ late = 0 /\ raced = 0
    /\ crashes = 0 /\ faults = 0

-----------------------------------------------------------------------------
(* The risk guard.                                                         *)

\* RiskGuard.halt
Halt(g) == [g EXCEPT !.status = "halted"]

\* Mutant of Pending: the guard looks at the position only.
PendingNone == 0
\* RiskGuard._pre_trade on an order that opens: position, pending entries and
\* the order stay within the limit.  The position was asked for before the
\* open orders.
Pending == Sum(OpenLeg("e"))
MayOpen(q) == seen + Pending + q <= Qty

\* record_night, first half: the night counts and is saved.
RecordNight ==
    /\ pc = "record" /\ pc' = "verdict"
    /\ guard' = [guard EXCEPT !.cum = @ + night.pnl,
                              !.losses = IF night.pnl < 0 THEN @ + 1 ELSE 0,
                              !.nights[night.n] = @ + 1]
    /\ UNCHANGED <<mode, missed, now, plan, work, seen, exch, crashes, faults>>
\* Mutant of JudgeNight: the stop line is not looked at.
JudgePauses ==
    /\ pc = "verdict" /\ pc' = "archive"
    /\ guard' = IF guard.losses >= PauseAfter /\ guard.status = "active"
                THEN [guard EXCEPT !.status = "paused"] ELSE guard
    /\ UNCHANGED <<mode, missed, now, plan, work, seen, exch, crashes, faults>>
\* record_night, second half: the limits are checked, with a save of its own.
JudgeNight ==
    /\ pc = "verdict" /\ pc' = "archive"
    /\ guard' = IF guard.cum <= -StopLine THEN Halt(guard)
                ELSE IF guard.losses >= PauseAfter /\ guard.status = "active"
                THEN [guard EXCEPT !.status = "paused"] ELSE guard
    /\ UNCHANGED <<mode, missed, now, plan, work, seen, exch, crashes, faults>>

-----------------------------------------------------------------------------
(* Choosing a night.                                                       *)

\* _skip
SkipNight(nt) ==
    /\ night' = [nt EXCEPT !.phase = "skipped"] /\ hist' = hist \cup {nt.n}
    /\ Save /\ UNCHANGED entered
SetPhase(phase) ==
    /\ night' = [night EXCEPT !.phase = phase] /\ UNCHANGED hist
    /\ Save

\* next_night: the first night that is not finished and not over.
Left == {n \in Nights : n \notin hist /\ now < At(n, 6)}
IsNext(n) == n \in Left /\ \A m \in Left : n <= m

\* run_night: the night is not for trading, it is resumed, it is too late to
\* enter, or it begins.
PassNight ==
    /\ pc = "next"
    /\ \E n \in Left \cap SkipNights : IsNext(n) /\ SkipNight(NewNight(n))
    /\ UNCHANGED <<mode, missed, now, pc, work, seen, guard, exch, crashes, faults>>
ResumeNight ==
    /\ pc = "next" /\ IsNext(night.n) /\ night.n \notin SkipNights /\ night.phase = "holding"
    /\ pc' = "hold"
    /\ UNCHANGED <<mode, missed, now, plan, work, seen, guard, exch, crashes, faults>>
LateNight ==
    /\ pc = "next"
    /\ \E n \in Left \ SkipNights :
                       /\ IsNext(n) /\ now > At(n, 3)
                       /\ ~(n = night.n /\ night.phase = "holding")
                       /\ SkipNight(NewNight(n))
    /\ UNCHANGED <<mode, missed, now, pc, work, seen, guard, exch, crashes, faults>>
BeginNight ==
    /\ pc = "next"
    /\ \E n \in Left \ SkipNights :
                       /\ IsNext(n) /\ now <= At(n, 3)
                       /\ ~(n = night.n /\ night.phase = "holding")
                       /\ night' = NewNight(n)
    /\ pc' = "enter"
    /\ UNCHANGED <<mode, missed, now, hist, disk, entered, work, seen, guard, exch, crashes, faults>>
NoNight ==
    /\ pc = "next" /\ Left = {} /\ pc' = "end"
    /\ UNCHANGED <<mode, missed, now, plan, work, seen, guard, exch, crashes, faults>>

\* The process dies, or the program ends with an exception: memory is gone.
Down ==
    /\ crashes' = crashes + 1 /\ pc' = "down"
    /\ night' = disk.night /\ hist' = disk.hist /\ UNCHANGED <<disk, entered>>
    /\ work' = Idle /\ seen' = 0
    /\ book' = IF mode = "paper" THEN book ELSE {[o EXCEPT !.done = 0] : o \in Open}

\* An order without market data ends the program.
NoMarketData == Fails /\ guard' = Halt(guard) /\ Down /\ UNCHANGED pos

-----------------------------------------------------------------------------
(* Entering.                                                               *)

\* healthy: no market data, or data or clock too far off.
Unhealthy == Fails /\ guard' = Halt(guard)
\* enter up to the first order.  The health check fails and halts, the guard is
\* not active, or there is a position already: the night is skipped ...
EnterRefused ==
    /\ pc = "enter" /\ now >= EntryStart(night.n)
    /\ \/ Unhealthy
       \/ guard.status # "active" /\ Works /\ UNCHANGED guard
       \/ guard.status = "active" /\ pos # 0 /\ Works /\ guard' = Halt(guard)
    /\ SkipNight(night) /\ pc' = "next"
    /\ UNCHANGED <<mode, missed, now, work, seen, exch, crashes>>
\* ... or it is being entered.  (The model forgets the closed orders of earlier
\* nights here: their ids are never used again.)
EnterNight ==
    /\ pc = "enter" /\ now >= EntryStart(night.n)
    /\ guard.status = "active" /\ pos = 0
    /\ SetPhase("entering")
    /\ entered' = [entered EXCEPT ![night.n] = @ + 1]
    /\ work' = [leg |-> "e", qty |-> Qty, k |-> 0, ret |-> "hold"]
    /\ pc' = IF night.n \in LimitNights THEN "limit" ELSE "market"
    /\ book' = {o \in book : o.open \/ o.id[1] = night.n}
    /\ late' = 0
    /\ UNCHANGED <<mode, now, seen, guard, pos, raced, crashes, faults>>

\* enter after the orders: nothing was filled, or the stop is next.
EntryEmpty ==
    /\ pc = "entered" /\ Filled = 0
    /\ SkipNight(night) /\ pc' = "next" /\ work' = Idle
    /\ UNCHANGED <<mode, missed, now, seen, guard, exch, crashes, faults>>
EntryFilled ==
    /\ pc = "entered" /\ Filled > 0
    /\ night' = [night EXCEPT !.qty = Filled] /\ pc' = "stop"
    /\ UNCHANGED <<mode, missed, now, hist, disk, entered, work, seen, guard, exch, crashes, faults>>

\* Mutant of StopQty: the stop is sized for a whole entry.
StopWhole == Qty
\* _place_stop; a refused stop leaves the position without one (the paper
\* exchange knows it as rejected).
StopQty == night.qty
StopKnown(open) ==
    book \cup IF Known(Id("s", night.seq)) THEN {}
              ELSE {NewOrder(Id("s", night.seq), StopQty, 0, open)}
PlaceStop ==
    /\ pc = "stop"
    /\ \/ /\ pc' = "stopped" /\ night' = [night EXCEPT !.seq = @ + 1]
          /\ \/ StopQty <= pos /\ book' = StopKnown(TRUE) /\ Works /\ UNCHANGED guard
             \/ StopQty > pos /\ Works /\ UNCHANGED <<book, guard>>
             \/ /\ Fails /\ guard' \in {guard, Halt(guard)}
                /\ book' \in {book, StopKnown(FALSE)}
          /\ UNCHANGED <<hist, disk, entered, work, seen, pos, crashes>>
       \/ NoMarketData
    /\ UNCHANGED <<mode, missed, now>>
\* The two saves after it, taken as one.
HoldNight ==
    /\ pc = "stopped" /\ SetPhase("holding") /\ pc' = work.ret /\ work' = Idle
    /\ UNCHANGED <<mode, missed, now, entered, seen, guard, exch, crashes, faults>>

-----------------------------------------------------------------------------
(* The orders of a leg: _work.                                             *)

AfterWork == IF work.leg = "e" THEN "entered" ELSE "force"
LimitDue == Rest > 0 /\ Current = {} /\ work.k < MaxLimit
MarketDue == Rest > 0 /\ ~Known(Id(work.leg, MarketNo))

\* OrderRejected leaves the leg; enter then counts every entry order of the night.
Leave ==
    /\ pc' = AfterWork /\ seen' = 0
    /\ work' = IF work.leg = "e" THEN [work EXCEPT !.k = MaxLimit] ELSE work
    /\ UNCHANGED <<plan, exch, crashes>>
\* The exchange refuses the order, and too many refusals halt.
Refused == Leave /\ Fails /\ guard' \in {guard, Halt(guard)}

\* An order that opens, _pre_trade: the guard is not active, or it asks for the
\* position ...
AskPosition ==
    /\ work.leg = "e"
    /\ \/ pc = "limit" /\ now < MarketAt(night.n, "e") /\ LimitDue
       \/ pc = "market" /\ now >= MarketAt(night.n, "e") /\ MarketDue
    /\ \/ guard.status # "active" /\ Leave
       \/ /\ guard.status = "active" /\ seen' = pos
          /\ pc' = IF pc = "limit" THEN "limitAsked" ELSE "marketAsked"
          /\ UNCHANGED <<plan, work, exch, crashes>>
    /\ UNCHANGED <<mode, missed, now, guard, faults>>
\* ... and then for the open orders.  The order is sent after that.
AskOrders ==
    /\ pc \in {"limitAsked", "marketAsked"}
    /\ \/ ~MayOpen(Rest) /\ Leave
       \/ /\ MayOpen(Rest) /\ seen' = 0
          /\ pc' = IF pc = "limitAsked" THEN "limitPost" ELSE "marketPost"
          /\ UNCHANGED <<plan, work, exch, crashes>>
    /\ UNCHANGED <<mode, missed, now, guard, faults>>
Asking == pc \in {"limitAsked", "limitPost", "marketAsked", "marketPost"}

\* A limit order is placed: it was known before, it rests, or it would have
\* been filled at once (or had nothing to reduce) and expires.
PlaceLimit ==
    /\ \/ pc = "limitPost"
       \/ pc = "limit" /\ work.leg = "x" /\ now < MarketAt(night.n, "x")
    /\ LimitDue
    /\ LET id == Id(work.leg, work.k) IN
       \/ /\ pc' = "limit" /\ work' = [work EXCEPT !.k = @ + 1]
          /\ IF Known(id) THEN UNCHANGED book
             ELSE \E rests \in BOOLEAN :
                     /\ rests /\ work.leg = "x" => Rest <= pos
                     /\ book' = book \cup {NewOrder(id, Rest, 0, rests)}
          /\ Works /\ UNCHANGED <<plan, seen, guard, pos, crashes>>
       \/ Refused
       \/ NoMarketData
    /\ UNCHANGED <<mode, missed, now>>

\* Our price is no longer the best, or the time for limit orders is over.
CancelLimit ==
    /\ pc = "limit" /\ Current # {}
    /\ book' = (book \ Current) \cup Shut(Current)
    /\ UNCHANGED <<mode, missed, now, pc, plan, work, seen, guard, pos, crashes, faults>>
\* The loop is left; it may be left early when there is no quote.
LimitOver ==
    /\ pc = "limit" /\ Current = {} /\ pc' = "market"
    /\ UNCHANGED <<mode, missed, now, plan, work, seen, guard, exch, crashes, faults>>

\* What the broker shows in time of a quantity that was filled.
ShownOf(q) == {shown \in 0..q : shown < q => mode = "live" /\ Bearable(q - shown)}
\* What a reduceOnly market order of q sells.
Sells(q) == IF mode = "paper" /\ q > pos THEN 0 ELSE Lesser(q, pos)

\* The market order for the rest.  An entry's rest may be below the exchange's
\* minimum, then what was filled is held.
NoRest ==
    /\ pc = "market" /\ now >= MarketAt(night.n, work.leg)
    /\ \/ Rest <= 0 \/ Known(Id(work.leg, MarketNo))
       \/ work.leg = "e" /\ Filled > 0
    /\ pc' = AfterWork
    /\ UNCHANGED <<mode, missed, now, plan, work, seen, guard, exch, crashes, faults>>
PlaceMarket ==
    /\ \/ pc = "marketPost"
       \/ pc = "market" /\ work.leg = "x" /\ now >= MarketAt(night.n, "x")
    /\ MarketDue
    /\ \/ LET got == IF work.leg = "e" THEN Rest ELSE Sells(Rest) IN
          /\ pos' = IF work.leg = "e" THEN pos + got ELSE pos - got
          /\ \E shown \in ShownOf(got) :
                /\ book' = book \cup {NewOrder(Id(work.leg, MarketNo), 0, shown, FALSE)}
                /\ late' = late + (got - shown)
          /\ pc' = AfterWork /\ Works /\ UNCHANGED <<plan, work, seen, guard, crashes>>
       \/ (Refused \/ NoMarketData) /\ UNCHANGED late
    /\ UNCHANGED <<mode, now, raced>>

-----------------------------------------------------------------------------
(* Holding and leaving.                                                    *)

\* wait_until(hold_check): the position is gone, _stopped_out.
StoppedOut ==
    /\ pc = "hold" /\ now < ExitStart(night.n) /\ pos = 0
    /\ pc' = "final" /\ work' = [work EXCEPT !.ret = "residual"]
    /\ UNCHANGED <<mode, missed, now, plan, seen, guard, exch, crashes, faults>>
\* Mutant of StartExit: a halted guard keeps the runner from leaving.
StartExitActive ==
    /\ pc = "hold" /\ now >= ExitStart(night.n) /\ guard.status = "active"
    /\ SetPhase("exiting")
    /\ work' = [leg |-> "x", qty |-> pos, k |-> 0, ret |-> "residual"]
    /\ pc' = "market"
    /\ UNCHANGED <<mode, missed, now, entered, seen, guard, exch, crashes, faults>>
\* exit
StartExit ==
    /\ pc = "hold" /\ now >= ExitStart(night.n)
    /\ SetPhase("exiting")
    /\ work' = [leg |-> "x", qty |-> pos, k |-> 0, ret |-> "residual"]
    /\ pc' = IF pos = 0 THEN "force"
             ELSE IF night.n \in LimitNights THEN "limit" ELSE "market"
    /\ UNCHANGED <<mode, missed, now, entered, seen, guard, exch, crashes, faults>>

\* A market order for all of the position: the forced exit and the residual
\* check.  A refusal is not caught and ends the program.
CloseAll(leg, next, g) ==
    \/ /\ pos = 0 \/ Known(Id(leg, 0))
       /\ pc' = next /\ guard' = g /\ Works
       /\ UNCHANGED <<plan, work, seen, exch, crashes>>
    \/ /\ pos # 0 /\ ~Known(Id(leg, 0))
       /\ pc' = next /\ guard' = g /\ Works
       /\ pos' = 0 /\ book' = book \cup {NewOrder(Id(leg, 0), 0, pos, FALSE)}
       /\ UNCHANGED <<plan, work, seen, crashes>>
    \/ pos # 0 /\ Fails /\ guard' \in {g, Halt(g)} /\ Down /\ UNCHANGED pos
\* Mutant of ForceExit: the position after the exit's orders is not looked at.
TrustExit ==
    /\ pc = "force" /\ pc' = "final"
    /\ UNCHANGED <<mode, missed, now, plan, work, seen, guard, exch, crashes, faults>>
ForceExit ==
    /\ pc = "force" /\ CloseAll("f", "final", guard)
    /\ UNCHANGED <<mode, missed, now>>

\* _finalize up to the phase "done": open orders are cancelled, the result is
\* computed from the fills.
Finalize ==
    /\ pc = "final" /\ pc' = "record"
    /\ book' = (book \ Open) \cup Shut(Open)
    /\ \E pnl \in Results : night' = [night EXCEPT !.phase = "done", !.pnl = pnl]
    /\ UNCHANGED hist /\ Save
    /\ UNCHANGED <<mode, missed, now, entered, work, seen, guard, pos, crashes, faults>>
\* _finalize after record_night: the night is finished.  (Its closed orders are
\* forgotten: the ids of a finished night are never used again.)
Archive ==
    /\ pc = "archive" /\ pc' = work.ret /\ work' = Idle
    /\ hist' = hist \cup {night.n} /\ UNCHANGED night /\ Save
    /\ book' = Open
    /\ UNCHANGED <<mode, missed, now, entered, seen, guard, pos, crashes, faults>>

\* residual_check
ResidualCheck ==
    /\ pc = "residual" /\ now >= At(night.n, 7)
    /\ CloseAll("r", "next", IF pos # 0 THEN Halt(guard) ELSE guard)
    /\ UNCHANGED <<mode, missed, now>>

-----------------------------------------------------------------------------
(* Restart.                                                                *)

Crash ==
    /\ pc \notin {"down", "end"} /\ crashes < MaxCrash /\ Bearable(1) /\ Down
    /\ UNCHANGED <<mode, missed, now, guard, pos, faults>>
\* launchd starts the program again, and recover asks for the position.
Restart ==
    /\ pc = "down" /\ pc' = "start"
    /\ UNCHANGED <<mode, missed, now, plan, work, seen, guard, exch, crashes, faults>>
LookAtPosition ==
    /\ pc = "start" /\ pc' = "recover" /\ seen' = pos
    /\ UNCHANGED <<mode, missed, now, plan, work, guard, exch, crashes, faults>>

\* A night under way with a position: it is held again, with a stop.
RecoverHeld ==
    /\ pc = "recover" /\ Active /\ seen > 0
    /\ night' = [night EXCEPT !.qty = seen]
    /\ work' = [work EXCEPT !.ret = "next"]
    /\ pc' = IF OpenLeg("s") = {} THEN "stop" ELSE "stopped"
    /\ seen' = 0 /\ UNCHANGED <<mode, missed, now, hist, disk, entered, guard, exch, crashes, faults>>
\* Without a position: it never was entered, or it is finished.
RecoverUnentered ==
    /\ pc = "recover" /\ night.phase = "entering" /\ seen = 0
    /\ SkipNight(night) /\ pc' = "next"
    /\ seen' = 0 /\ UNCHANGED <<mode, missed, now, work, guard, exch, crashes, faults>>
\* Mutant of RecoverFlat: a night that is done is finished again.
RecoverDone ==
    /\ pc = "recover" /\ night.phase \in {"holding", "exiting", "done"} /\ seen = 0
    /\ pc' = "final" /\ work' = [work EXCEPT !.ret = "next"]
    /\ seen' = 0 /\ UNCHANGED <<mode, missed, now, plan, guard, exch, crashes, faults>>
RecoverFlat ==
    /\ pc = "recover" /\ night.phase \in {"holding", "exiting"} /\ seen = 0
    /\ pc' = "final" /\ work' = [work EXCEPT !.ret = "next"]
    /\ seen' = 0 /\ UNCHANGED <<mode, missed, now, plan, guard, exch, crashes, faults>>
\* No night under way: a position halts, without one open orders are cancelled.
RecoverIdle ==
    /\ pc = "recover" /\ ~Active /\ pc' = "next"
    /\ IF seen # 0 THEN guard' = Halt(guard) /\ UNCHANGED book
       ELSE UNCHANGED guard /\ book' = (book \ Open) \cup Shut(Open)
    /\ seen' = 0 /\ UNCHANGED <<mode, missed, now, plan, work, pos, crashes, faults>>

-----------------------------------------------------------------------------
(* The exchange and the clock.  The paper exchange moves only when it is    *)
(* polled, never while the guard asks; otherwise both move at any time.     *)

FillSizes(o) == IF mode = "paper" THEN {o.left} ELSE 1..o.left
Fill(o, q) ==
    \E shown \in ShownOf(q) :
       /\ book' = (book \ {o}) \cup
                  {[o EXCEPT !.left = @ - q, !.done = @ + shown, !.open = @ /\ o.left > q]}
       /\ late' = late + (q - shown)
EntryFills ==
    /\ mode = "live" \/ ~Asking
    /\ \E o \in OpenLeg("e") : \E q \in FillSizes(o) :
          /\ Fill(o, q) /\ pos' = pos + q
          /\ raced' = IF pc \in {"limitAsked", "marketAsked"} THEN raced + q ELSE raced
    /\ UNCHANGED <<mode, now, pc, plan, work, seen, guard, crashes, faults>>
ExitFills ==
    /\ \E o \in OpenLeg("x") : \E q \in FillSizes(o) :
          q <= pos /\ Fill(o, q) /\ pos' = pos - q
    /\ UNCHANGED <<mode, now, pc, plan, work, seen, guard, raced, crashes, faults>>
\* The stop is reached and sells, or has nothing to reduce and expires.
StopFires ==
    /\ \E o \in OpenLeg("s") :
          /\ pos' = pos - Sells(o.left)
          /\ book' = (book \ {o}) \cup
                     {[o EXCEPT !.left = @ - Sells(o.left), !.done = Sells(o.left), !.open = FALSE]}
    /\ UNCHANGED <<mode, missed, now, pc, plan, work, seen, guard, crashes, faults>>
Tick ==
    /\ now < At(N, 7) /\ now' = now + 1
    /\ UNCHANGED <<mode, missed, pc, plan, work, seen, guard, exch, crashes, faults>>

-----------------------------------------------------------------------------
Runner ==
    \/ LookAtPosition \/ RecoverHeld \/ RecoverUnentered \/ RecoverFlat \/ RecoverIdle
    \/ PassNight \/ ResumeNight \/ LateNight \/ BeginNight \/ NoNight
    \/ EnterRefused \/ EnterNight \/ EntryEmpty \/ EntryFilled \/ PlaceStop \/ HoldNight
    \/ AskPosition \/ AskOrders \/ PlaceLimit \/ CancelLimit \/ LimitOver \/ NoRest \/ PlaceMarket
    \/ StoppedOut \/ StartExit \/ ForceExit \/ ResidualCheck
    \/ Finalize \/ RecordNight \/ JudgeNight \/ Archive
Exchange == EntryFills \/ ExitFills \/ StopFires
Next == Runner \/ Exchange \/ Tick \/ Crash \/ Restart
Spec == Init /\ [][Next]_vars
\* The runner runs, time passes and launchd starts the program again.
FairSpec == Spec /\ WF_vars(Runner) /\ WF_vars(Tick) /\ WF_vars(Restart)

-----------------------------------------------------------------------------
(* Properties.                                                             *)

NightOK(nt) ==
    /\ nt.n \in 0..N /\ nt.phase \in Phases /\ nt.qty \in Nat /\ nt.seq \in Nat
    /\ nt.pnl \in Results \cup {0}
\* Every variable has its type; in particular no order turns the long into a
\* short.
TypeOK ==
    /\ mode \in Modes /\ now \in 0..At(N, 7)
    /\ pc \in {"start", "recover", "next", "enter", "limit", "limitAsked", "limitPost",
               "market", "marketAsked", "marketPost", "entered", "stop", "stopped", "hold", "force", "final", "record", "verdict", "archive",
               "residual", "down", "end"}
    /\ NightOK(night) /\ hist \subseteq Nights
    /\ NightOK(disk.night) /\ disk.hist \subseteq Nights
    /\ work.leg \in {"e", "x"} /\ work.qty \in Nat /\ work.k \in 0..MaxLimit
    /\ seen \in Nat /\ pos \in Nat /\ late \in Nat /\ raced \in Nat
    /\ guard.status \in {"active", "paused", "halted"} /\ guard.cum \in Int
    /\ \A o \in book : o.left \in Nat /\ o.done \in Nat /\ o.open \in BOOLEAN

\* A night is booked with the guard at most once for each time it was entered,
\* wherever the program dies while it finishes the night.
RecordedOnce == \A n \in Nights : guard.nights[n] <= entered[n]

\* The position and the entry orders that may still add to it stay within the
\* limit, through restarts that leave an entry order behind.  They exceed it by
\* no more than what orders left behind filled between the guard's request for
\* the position and its request for the open orders.
Capped == pos + Sum(OpenLeg("e")) <= Qty + raced

\* Without failures the stops on the exchange cover a held position but for
\* what was bought and the broker did not show in time.
StopCovers ==
    crashes = 0 /\ faults = 0 /\ night.phase = "holding" => pos <= Sum(OpenLeg("s")) + late

\* Without crashes a night that is done has left no position, refused orders or
\* not.
DoneIsFlat == crashes = 0 /\ night.phase = "done" => pos = 0

\* No order opens a position once the nights booked have reached the stop
\* line, as long as the program does not die while it checks the limits.
StopLineHolds ==
    [][crashes = 0 /\ pos' > pos => guard.cum > -StopLine]_vars

\* The night was given up although something was bought, which showed too late.
Overlooked == night.phase = "skipped" /\ late > 0
\* As long as the program does not die, a position is closed in the end,
\* whatever the guard says, whichever order is refused and however little of
\* the entry was seen - unless none of it was and the night was given up.
HeldIsClosed ==
    crashes = 0 /\ pos > 0 /\ ~Overlooked ~> pos = 0 \/ Overlooked \/ crashes > 0

\* runner.py:11: the program carries a night on after a restart.  So it leaves
\* a night in which it holds a position only when the position is gone.
HeldIsCarriedOn == [][night'.n # night.n /\ night.phase = "holding" => pos = 0]_vars
=============================================================================
