------------------------------ MODULE Execution ------------------------------
(***************************************************************************)
(* The broker a strategy is given: RiskGuard (src/src/execution/risk.py)   *)
(* around the simulated exchange or the real one, as make_broker           *)
(* (src/src/execution/base.py) chose.                                      *)
(*                                                                         *)
(* The guard checks an order before it lets it through and draws its       *)
(* conclusions from how the call ended.  With the simulated exchange that  *)
(* is one step; with the real one the position, the open orders and the    *)
(* order are three requests, and the exchange works on in between.         *)
(***************************************************************************)
EXTENDS PaperExchange, LiveBroker

CONSTANTS
    Requests,     \* bound: the orders the caller asks for
    MaxAbs,       \* limits.max_abs_position
    StopLoss,     \* limits.test_stop_cumulative_usd, as a loss
    PauseAfter,   \* limits.pause_after_consecutive_losses
    MaxRejects,   \* limits.max_consecutive_rejects
    Results,      \* bound: results of a night
    MaxNights     \* bound: nights recorded

ASSUME ExecutionAssumption ==
    /\ Requests \subseteq Request
    /\ {MaxAbs, PauseAfter, MaxRejects} \subseteq Nat \ {0} /\ {StopLoss, MaxNights} \subseteq Nat
    /\ Results \subseteq Int

VARIABLES
    mode,     \* which broker make_broker made
    guard,    \* RiskState, which is in its file after every change
    look,     \* a check of the guard under way in front of the real exchange
    nights,   \* bound
    halted    \* the guard was halted, and reset_halt not called since

vars == <<paperVars, liveVars, mode, guard, look, nights, halted>>
guardVars == <<guard, look, nights, halted>>

Guard ==
    [status : {"active", "paused", "halted"}, cum : Int, losses : 0..MaxNights,
     rejects : 0..MaxRejects]

NoLook == [stage |-> "none"]

TypeOK ==
    /\ PaperTypeOK /\ LiveTypeOK
    /\ mode \in {"paper", "live"} /\ guard \in Guard
    /\ look.stage \in {"none", "count", "post"} /\ nights \in 0..MaxNights
    /\ halted \in BOOLEAN
    /\ mode = "live" => tape = <<>> /\ orders = <<>>
    /\ mode = "paper" => xorders = <<>> /\ look = NoLook

------------------------------------------------------------------------------
(* RiskGuard *)

\* Mutant of Set: a pause may take the place of a halt.
SetAny(g, status) == [g EXCEPT !.status = status]

\* _set: halted stays halted.
Set(g, status) == IF g.status = "halted" THEN g ELSE [g EXCEPT !.status = status]
Halt(g) == Set(g, "halted")

\* _check_kill: the kill switch file may be there or not each time it is looked for.
CheckKill(g) == {g, Halt(g)}

\* _rejected
Rejected(g) ==
    LET r == [g EXCEPT !.rejects = IF @ < MaxRejects THEN @ + 1 ELSE @]
    IN  IF r.rejects = MaxRejects THEN Halt(r) ELSE r

\* _guarded and _after: what the guard makes of a call's answer.
After(g, answer) ==
    CASE answer = "order" -> [g EXCEPT !.rejects = 0]
      [] answer = "rejected" -> Rejected(g)
      [] answer = "stale" -> Halt(g)
      [] OTHER -> g

\* record_night's judgement.
Judged(g) ==
    IF g.cum <= -StopLoss THEN Halt(g)
    ELSE IF g.losses >= PauseAfter THEN Set(g, "paused") ELSE g

\* Orders that close are let through, whatever the state.
Closes(r, p) == r.reduce \/ Reduces(p, r.side, r.qty)

\* Mutant of Within: orders that rest are not counted.
WithinPosition(r, p, pending) == Size(p + Sign(r.side) * r.qty) <= MaxAbs

\* The position if everything that rests were filled.
Within(r, p, pending) == Size(p + pending + Sign(r.side) * r.qty) <= MaxAbs

\* _pre_trade, and place_stop_market's own condition.
Passes(g, r, p, pending) ==
    IF r.type = "STOP_MARKET" THEN Reduces(p, r.side, r.qty)
    ELSE Closes(r, p) \/ (g.status = "active" /\ Within(r, p, pending))

Becoming(g) == guard' = g /\ halted' = (halted \/ g.status = "halted")

------------------------------------------------------------------------------
(* Orders through the guard *)

Counts(o) == ~o.reduce /\ o.type # "STOP_MARKET"

Weight(o) == IF o.status = "NEW" /\ Counts(o) THEN Sign(o.side) * o.qty ELSE 0
PaperPending == Total([i \in 1..Len(orders) |-> Weight(orders[i])], Len(orders))

GuardedPaper(r) ==
    \E g \in CheckKill(guard) :
        /\ mode = "paper" /\ ~poll.on
        /\ IF Passes(g, r, pos, PaperPending)
           THEN \E answer \in Answers :
                   \/ PaperPlace(r, answer) /\ Becoming(After(g, answer))
                   \/ \E i \in DOMAIN orders :
                         PaperRepeat(i, answer) /\ Becoming(After(g, answer))
           ELSE Becoming(g) /\ UNCHANGED paperVars
        /\ UNCHANGED <<liveVars, mode, look, nights>>

\* The real exchange: its position is read ...
GuardedLook(r) ==
    \E g \in CheckKill(guard) :
        /\ mode = "live" /\ look = NoLook /\ step = "idle"
        /\ Becoming(g)
        /\ look' = [stage |-> IF r.type = "STOP_MARKET" \/ Closes(r, Position) THEN "post" ELSE "count",
                    r |-> r, pos |-> Position]
        /\ r.type = "STOP_MARKET" => Passes(g, r, Position, 0)
        /\ r.type # "STOP_MARKET" => Closes(r, Position) \/ g.status = "active"
        /\ UNCHANGED <<paperVars, liveVars, mode, nights>>

\* ... then its open orders, which are tracked from then on ...
LiveWeight(o) == IF XOpen(o) /\ Counts(o) THEN Way(o.side) * (o.qty - o.filled) ELSE 0
LivePending == Total([x \in 1..Len(xorders) |-> LiveWeight(xorders[x])], Len(xorders))

GuardedCount ==
    /\ look.stage = "count"
    /\ OpenOrders
    /\ look' = IF Within(look.r, look.pos, LivePending) THEN [look EXCEPT !.stage = "post"] ELSE NoLook
    /\ UNCHANGED <<paperVars, exchange, step, before, lfaults, mode, guard, nights, halted>>

\* ... and the order is sent.
GuardedPost ==
    /\ look.stage = "post" /\ look' = NoLook
    /\ \E c \in Cids, answer \in LiveAnswers \cup {"waits"} :
          /\ LivePlace(c, look.r, answer) \/ LiveRepeat(c, answer)
          /\ Becoming(After(guard, answer))
    /\ UNCHANGED <<paperVars, mode, nights>>

\* The end of a poll, or of a market order and what the guard makes of it.
GuardedPull ==
    /\ mode = "live"
    /\ \E answer \in LiveAnswers :
          /\ Pull(answer)
          /\ Becoming(IF step = "market" THEN After(guard, answer) ELSE guard)
    /\ UNCHANGED <<paperVars, mode, look, nights>>

------------------------------------------------------------------------------
(* The guard's other operations, by the thread that gives the orders *)

Between == look = NoLook /\ ~poll.on /\ step = "idle"

\* check_health and check_position, when they find something.
Unhealthy ==
    /\ Between
    /\ Becoming(Halt(guard))
    /\ UNCHANGED <<paperVars, liveVars, mode, look, nights>>

\* record_night: the result is saved, and then judged.
Recorded(result) ==
    [guard EXCEPT !.cum = @ + result, !.losses = IF result < 0 THEN @ + 1 ELSE 0]

RecordNight(result) ==
    /\ Between
    /\ nights < MaxNights /\ nights' = nights + 1
    /\ Becoming(Judged(Recorded(result)))
    /\ UNCHANGED <<paperVars, liveVars, mode, look>>

\* By hand: resume, and reset_halt, which needs the kill switch file removed.
Resume ==
    /\ Between
    /\ guard.status = "paused"
    /\ guard' = [guard EXCEPT !.status = "active", !.losses = 0]
    /\ UNCHANGED <<paperVars, liveVars, mode, look, nights, halted>>

ResetHalt ==
    /\ Between
    /\ guard' = [guard EXCEPT !.status = "active", !.rejects = 0]
    /\ halted' = FALSE
    /\ UNCHANGED <<paperVars, liveVars, mode, look, nights>>

\* The process dies and starts again; the guard's file has its state.
Restarted == (mode = "paper" /\ PaperRestart /\ UNCHANGED liveVars)
             \/ (mode = "live" /\ LiveRestart /\ UNCHANGED paperVars)

Restart ==
    /\ Restarted /\ look' = NoLook
    /\ UNCHANGED <<mode, guard, nights, halted>>

\* It dies between the two halves of record_night.
RecordNightCut(result) ==
    /\ Between
    /\ nights < MaxNights /\ nights' = nights + 1
    /\ guard' = Recorded(result)
    /\ Restarted /\ look' = NoLook
    /\ UNCHANGED <<mode, halted>>

------------------------------------------------------------------------------

\* What passes the guard untouched: poll, cancel, and the exchanges themselves.
PaperPasses ==
    /\ mode = "paper"
    /\ PaperPoll \/ Market \/ \E i \in DOMAIN orders : PaperCancel(i)
    /\ UNCHANGED <<liveVars, mode, guardVars>>

LivePasses ==
    /\ mode = "live"
    /\ Exchange \/ (look = NoLook /\ (PollOrders \/ CancelAllBegin \/ CancelAllEnd
                                      \/ \E c \in Cids : LiveCancel(c)))
    /\ UNCHANGED <<paperVars, mode, guardVars>>

Init ==
    /\ PaperInit /\ LiveInit
    /\ mode \in {"paper", "live"}
    /\ guard = [status |-> "active", cum |-> 0, losses |-> 0, rejects |-> 0]
    /\ look = NoLook /\ nights = 0 /\ halted = FALSE

Next ==
    \/ PaperPasses \/ LivePasses \/ GuardedCount \/ GuardedPost \/ GuardedPull
    \/ \E r \in Requests : GuardedPaper(r) \/ GuardedLook(r)
    \/ Unhealthy \/ Resume \/ ResetHalt \/ Restart
    \/ \E result \in Results : RecordNight(result) \/ RecordNightCut(result)

Spec == Init /\ [][Next]_vars

------------------------------------------------------------------------------

\* A halt holds: until reset_halt no step, a restart, a pause or a night's
\* result in between, adds to the position or to the orders that would.
Growth ==
    \/ mode = "paper" /\ pos' + PaperPending' > pos + PaperPending
    \/ mode = "live" /\ \E x \in DOMAIN xorders' : x \notin DOMAIN xorders /\ ~xorders'[x].reduce
HaltHolds == [][halted => ~Growth]_vars

\* The cap counts what rests: with callers that only buy to enter, the simulated
\* position stays between nothing and the limit, and no two orders that must
\* reduce it turn it round.
Capped ==
    mode = "paper" => 0 <= pos /\ pos + PaperPending <= MaxAbs
==============================================================================
