---------------------------- MODULE PastofiTrader ----------------------------
(***************************************************************************)
(* The live trader of the pastofi strategy                                 *)
(* (src/src/strategies/pastofi_crypto/trader.py): one short position per   *)
(* symbol, kept in a ledger (state.json) and held on the exchange.         *)
(*                                                                         *)
(*  - The event loop runs on_entry, on_exit and periodic.  They only touch *)
(*    the ledger and submit tasks.                                         *)
(*  - Every symbol has one order thread with a FIFO queue; its tasks talk  *)
(*    to the exchange.  A task is cut into one action per exchange call or *)
(*    ledger update, so the loop, the exchange and a crash may come in     *)
(*    between.                                                             *)
(*  - The exchange fills, triggers and expires orders whenever it likes.   *)
(*    The broker may see a trade late, or never under its order's name     *)
(*    (live.py), and a market order may be filled only in part: a slip.    *)
(*  - The process may crash anywhere; state.json survives and the next     *)
(*    process runs recover() before anything else.                         *)
(*                                                                         *)
(* Quantities are small units, prices are left out: a booked trade carries *)
(* the quantities of the closing fills its price was computed from, and a  *)
(* result drawn from Nets.  The clock is the phase of the deadline.        *)
(***************************************************************************)
EXTENDS Integers, Sequences, FiniteSets, FiniteSetsExt

CONSTANTS
    Sym,          \* the traded symbols
    MaxSig,       \* bound: signals per symbol in a behaviour
    Qty,          \* the size of an entry order
    Sweeps,       \* a reduceOnly order goes as soon as there is nothing to reduce
                  \* (the live exchange), or only when a trade reaches it (paper)
    MaxEntries,   \* risk.max_entries_per_symbol_day (a behaviour is one UTC day)
    StopLine,     \* minus risk.stop_cumulative_usd
    Nets,         \* the results a closed trade may have
    MaxQueue,     \* bound: periodic submits nothing to a queue this long
    MaxCrash,     \* bound: crashes
    MaxFault,     \* bound: exchange calls that fail or whose answer is lost
    MaxSlip,      \* bound: trades seen late, exits filled in part
    MaxTrouble,   \* bound: crashes, failing calls, slips and resumes together
    MaxResume     \* bound: manual resumes

ASSUME TraderAssumption ==
    /\ IsFiniteSet(Sym) /\ MaxSig \in Nat /\ Qty \in Nat \ {0} /\ MaxEntries \in Nat
    /\ Sweeps \in BOOLEAN /\ StopLine \in Nat /\ Nets \subseteq Int
    /\ MaxQueue \in Nat /\ MaxCrash \in Nat /\ MaxFault \in Nat
    /\ MaxSlip \in Nat /\ MaxTrouble \in Nat /\ MaxResume \in Nat

VARIABLES
    \* TraderState, in memory and in state.json
    ledger, halted, cum, entries, disk,
    \* the process: order threads, their queues, start-up
    queue, work, proc, toRecover,
    \* RiskGuard.state.status of the symbol is not "active"
    guardHalted,
    \* the engine's open virtual trade, the deadline's phase, the last signal
    virt, phase, lastSig,
    \* the exchange: size of the short, open orders, closing fills by order,
    \* and those of them that the broker's fills() has under the order's name
    short, orders, fills, shown,
    \* history: what was booked, and trades.jsonl
    booked, journal,
    \* how much of each bound is used up
    crashes, faults, slips, resumes

traderVars == <<ledger, halted, cum, entries, disk>>
taskVars   == <<queue, work>>
procVars   == <<proc, toRecover, crashes>>
loopVars   == <<virt, phase, lastSig>>
fillVars   == <<fills, shown, slips>>
exchVars   == <<short, orders, fillVars>>
bookVars   == <<booked, journal>>
vars == <<traderVars, taskVars, procVars, guardHalted, loopVars, exchVars,
          bookVars, faults, resumes>>

-----------------------------------------------------------------------------
\* A signal is named by its epoch; 0 is no signal.
Eps == 1..MaxSig
EpOrNone == 0..MaxSig
Phase == 0..3
Amount == 0..Qty

\* The closing fills of a position, by the order (client id) that made them;
\* "other" is an order left over from an earlier position.
Legs == [maker : Nat, market : Nat, stop : Nat, other : Nat]
NoLegs == [maker |-> 0, market |-> 0, stop |-> 0, other |-> 0]

\* TraderState.positions[sym]; status "none" is None.
Status == {"none", "opening", "open", "closing"}
Source == {"engine", "recovered"}
Pos == [status : Status, ep : EpOrNone, source : Source, qty : Amount,
        exitReq : BOOLEAN, stop : BOOLEAN, maker : BOOLEAN, tried : BOOLEAN]
Flat == [status |-> "none", ep |-> 0, source |-> "engine", qty |-> 0,
         exitReq |-> FALSE, stop |-> FALSE, maker |-> FALSE, tried |-> FALSE]
Opening(ep) == [Flat EXCEPT !.status = "opening", !.ep = ep, !.qty = Qty]

Leg == {"stop", "maker"}
Order == [leg : Leg, ep : Eps, left : Amount]
StopOrder(ep) == [leg |-> "stop", ep |-> ep, left |-> 0]
MakerOrder(ep, q) == [leg |-> "maker", ep |-> ep, left |-> q]
OrdersOf(s, leg, ep) == {o \in orders[s] : o.leg = leg /\ o.ep = ep}

Op == {"entry", "exit", "place", "poll", "check"}
Task == [op : Op, ep : Eps]
TaskOf(op, ep) == [op |-> op, ep |-> ep]

\* What the order thread of a symbol is in the middle of.
Step == {"idle", "asked", "filled", "lost", "stopped", "makerset", "maker", "market",
         "force", "cancel", "finalize", "store", "halt"}
Work == [at : Step, ep : EpOrNone, got : Amount, set : BOOLEAN, legs : Legs]
Idle == [at |-> "idle", ep |-> 0, got |-> 0, set |-> FALSE, legs |-> NoLegs]
At(step, ep) == [Idle EXCEPT !.at = step, !.ep = ep]

\* The orders left when the short is sh.
Swept(os, sh) == IF Sweeps /\ sh = 0 THEN {o \in os : o.leg # "maker"} ELSE os

Lesser(a, b) == IF a < b THEN a ELSE b

\* Trader._save: state.json holds what memory holds now.
Save == disk' = [ledger |-> ledger', halted |-> halted', cum |-> cum',
                 entries |-> entries']

\* An exchange call that works, and one that fails (within the bound).
Works == UNCHANGED faults
Troubled == crashes + faults + slips + resumes < MaxTrouble
Fails == faults < MaxFault /\ Troubled /\ faults' = faults + 1
\* A trade is seen late or an order filled in part, unless all goes as it should.
Slips(proper) ==
    IF proper THEN UNCHANGED slips
    ELSE slips < MaxSlip /\ Troubled /\ slips' = slips + 1

Init ==
    /\ ledger = [s \in Sym |-> Flat] /\ halted = FALSE /\ cum = 0
    /\ entries = [s \in Sym |-> 0]
    /\ disk = [ledger |-> ledger, halted |-> halted, cum |-> cum, entries |-> entries]
    /\ queue = [s \in Sym |-> <<>>] /\ work = [s \in Sym |-> Idle]
    /\ proc = "up" /\ toRecover = {}
    /\ guardHalted = [s \in Sym |-> FALSE]
    /\ virt = [s \in Sym |-> 0] /\ phase = [s \in Sym |-> 0]
    /\ lastSig = [s \in Sym |-> 0]
    /\ short = [s \in Sym |-> 0] /\ orders = [s \in Sym |-> {}]
    /\ fills = [s \in Sym |-> [ep \in Eps |-> NoLegs]] /\ shown = fills
    /\ booked = [s \in Sym |-> [ep \in Eps |-> [n |-> 0, legs |-> NoLegs, net |-> 0]]]
    /\ journal = {}
    /\ crashes = 0 /\ faults = 0 /\ slips = 0 /\ resumes = 0

-----------------------------------------------------------------------------
(* The event loop.                                                         *)

\* Mutants of CanEnter: an open position, or the halt, does not stop a signal.
CanEnterHeld(s) == ~halted /\ ~guardHalted[s] /\ entries[s] < MaxEntries
CanEnterHalted(s) ==
    ~guardHalted[s] /\ entries[s] < MaxEntries /\ ledger[s].status = "none"
\* Trader._skip_reason; the gate (feed health) may refuse on top of it.
CanEnter(s) ==
    /\ ~halted /\ ~guardHalted[s]
    /\ entries[s] < MaxEntries
    /\ ledger[s].status = "none"

\* Trader.on_entry: the engine reports a signal and opens its virtual trade,
\* and the trader takes it or skips it.
TakeSignal(s, ep) ==
    /\ CanEnter(s)
    /\ ledger' = [ledger EXCEPT ![s] = Opening(ep)]
    /\ entries' = [entries EXCEPT ![s] = @ + 1]
    /\ queue' = [queue EXCEPT ![s] = Append(@, TaskOf("entry", ep))]
    /\ phase' = [phase EXCEPT ![s] = 0]
    /\ UNCHANGED <<halted, cum>> /\ Save
OnEntry(s) ==
    /\ proc = "up" /\ virt[s] = 0 /\ lastSig[s] < MaxSig
    /\ lastSig' = [lastSig EXCEPT ![s] = @ + 1]
    /\ virt' = [virt EXCEPT ![s] = lastSig[s] + 1]
    /\ TakeSignal(s, lastSig[s] + 1) \/ UNCHANGED <<traderVars, queue, phase>>
    /\ UNCHANGED <<work, procVars, guardHalted, exchVars, bookVars, faults, resumes>>

\* Trader.on_exit: the engine closes its virtual trade; the exit is asked for
\* when the position in the ledger is that of the trade.
IsItsTrade(s) == /\ ledger[s].status # "none" /\ ledger[s].ep = virt[s]
                 /\ ledger[s].source = "engine"
RequestExit(s) ==
    /\ ledger' = [ledger EXCEPT ![s].exitReq = TRUE]
    /\ queue' = [queue EXCEPT ![s] = Append(@, TaskOf("exit", virt[s]))]
    /\ UNCHANGED <<halted, cum, entries>> /\ Save
OnExit(s) ==
    /\ proc = "up" /\ virt[s] # 0
    /\ virt' = [virt EXCEPT ![s] = 0]
    /\ \/ IsItsTrade(s) /\ RequestExit(s)
       \/ ~IsItsTrade(s) /\ UNCHANGED <<traderVars, queue>>
    /\ UNCHANGED <<work, procVars, guardHalted, phase, lastSig, exchVars, bookVars,
                   faults, resumes>>

\* Mutant of SoftExitDue: no backstop for a position of the engine.
SoftExitRecovered(s) == ledger[s].source = "recovered" /\ phase[s] \in {2, 3}
\* Trader._soft_exit: past its deadline the position must go; a recovered one
\* goes earlier when the ask has reached its target or its stop.  An engine
\* position is left to the engine until ten seconds after the deadline.
SoftExitDue(s) ==
    \/ phase[s] = 3
    \/ ledger[s].source = "recovered" /\ phase[s] = 2
SoftExitMay(s) == SoftExitDue(s) \/ ledger[s].source = "recovered"

\* What periodic submits for the maker exit: place it once, in the window of
\* the last seconds before the deadline, and poll it once it is known.
PlaceDue(s) ==
    /\ ledger[s].source = "engine" /\ ~ledger[s].maker
    /\ ~ledger[s].tried /\ phase[s] = 1
MakerTasks(s) ==
    IF PlaceDue(s) THEN <<TaskOf("place", ledger[s].ep)>>
    ELSE IF ledger[s].source = "engine" /\ ledger[s].maker
    THEN <<TaskOf("poll", ledger[s].ep)>>
    ELSE <<>>

\* Trader.periodic for one symbol, every second.  Between two retries of an
\* exit the stop is still checked, until the deadline asks for the exit again.
PeriodicRetryExit(s) ==
    /\ ledger[s].exitReq
    /\ \E op \in {"exit", "check"} :
          /\ op = "check" => ledger[s].stop /\ ~SoftExitDue(s)
          /\ queue' = [queue EXCEPT ![s] = Append(@, TaskOf(op, ledger[s].ep))]
    /\ UNCHANGED traderVars
PeriodicSoftExit(s) ==
    /\ ~ledger[s].exitReq /\ SoftExitMay(s)
    /\ ledger' = [ledger EXCEPT ![s].exitReq = TRUE, ![s].tried = @ \/ PlaceDue(s)]
    /\ queue' = [queue EXCEPT ![s] =
                    Append(@ \o MakerTasks(s), TaskOf("exit", ledger[s].ep))]
    /\ UNCHANGED <<halted, cum, entries>> /\ Save
PeriodicWatch(s) ==
    /\ ~ledger[s].exitReq /\ ~SoftExitDue(s)
    /\ ledger' = [ledger EXCEPT ![s].tried = @ \/ PlaceDue(s)]
    /\ \E check \in {<<>>, <<TaskOf("check", ledger[s].ep)>>} :
          /\ check # <<>> => ledger[s].stop
          /\ queue' = [queue EXCEPT ![s] = @ \o MakerTasks(s) \o check]
    /\ UNCHANGED <<halted, cum, entries>> /\ Save
Periodic(s) ==
    /\ proc = "up" /\ ledger[s].status = "open" /\ Len(queue[s]) < MaxQueue
    /\ PeriodicRetryExit(s) \/ PeriodicSoftExit(s) \/ PeriodicWatch(s)
    /\ UNCHANGED <<work, procVars, guardHalted, loopVars, exchVars, bookVars,
                   faults, resumes>>

\* Trader._consume_resume: the operator lifts the halt, perhaps clearing the sum;
\* he asks for it when something is halted.
ConsumeResume ==
    /\ halted \/ \E s \in Sym : guardHalted[s]
    /\ proc = "up" /\ resumes < MaxResume /\ Troubled
    /\ resumes' = resumes + 1
    /\ halted' = FALSE /\ cum' \in {cum, 0}
    /\ guardHalted' = [s \in Sym |-> FALSE]
    /\ UNCHANGED <<ledger, entries>> /\ Save
    /\ UNCHANGED <<taskVars, procVars, loopVars, exchVars, bookVars, faults>>

-----------------------------------------------------------------------------
(* The order thread of a symbol: entering.                                 *)

HeadIs(s, op) == /\ proc = "up" /\ work[s].at = "idle"
                 /\ queue[s] # <<>> /\ Head(queue[s]).op = op
Pop(s) == queue' = [queue EXCEPT ![s] = Tail(@)]
Do(s, w) == work' = [work EXCEPT ![s] = w]
OutsideTasks == <<procVars, guardHalted, loopVars, bookVars, resumes>>

\* The early returns of _do_entry, _do_exit, _place_maker, _poll_maker and
\* _check_stop: the position the task was submitted for is not there any more.
Live(s, t) ==
    LET p == ledger[s] IN
    CASE t.op = "entry" -> p.ep = t.ep /\ p.status = "opening"
      [] t.op = "exit"  -> p.ep = t.ep /\ p.status = "open" /\ p.exitReq
      [] t.op = "place" -> p.ep = t.ep /\ p.status = "open" /\ ~p.exitReq /\ ~p.maker
      [] t.op = "poll"  -> p.ep = t.ep /\ p.status = "open" /\ p.maker
      [] t.op = "check" -> p.status \in {"open", "closing"} /\ p.stop
DropTask(s) ==
    /\ proc = "up" /\ work[s].at = "idle" /\ queue[s] # <<>>
    /\ ~Live(s, Head(queue[s]))
    /\ Pop(s)
    /\ UNCHANGED <<traderVars, work, exchVars, faults, OutsideTasks>>

\* The ledger entry of a trade that was not opened.
Discard(s) ==
    /\ ledger' = [ledger EXCEPT ![s] = Flat]
    /\ UNCHANGED <<halted, cum, entries>> /\ Save

\* _do_entry asks the exchange for its position and goes on when there is none.
EntryAsks(s) ==
    /\ HeadIs(s, "entry") /\ Live(s, Head(queue[s])) /\ short[s] = 0 /\ Pop(s)
    /\ Do(s, At("asked", ledger[s].ep))
    /\ UNCHANGED <<traderVars, exchVars, faults, OutsideTasks>>
\* There is one, or the query fails; or the market order is refused, by the
\* guard or by the exchange, and enough refusals halt the guard.
EntryRefused(s) ==
    /\ \/ /\ HeadIs(s, "entry") /\ Live(s, Head(queue[s])) /\ Pop(s)
          /\ UNCHANGED <<work, guardHalted>>
       \/ /\ proc = "up" /\ work[s].at = "asked" /\ Do(s, Idle) /\ UNCHANGED queue
          /\ guardHalted' \in {guardHalted, [guardHalted EXCEPT ![s] = TRUE]}
    /\ Discard(s)
    /\ UNCHANGED <<exchVars, faults, procVars, loopVars, bookVars, resumes>>
\* The quantity _do_entry takes the entry to have: that of the fills it sees,
\* the order's own when it sees none and the order says FILLED; else nothing.
EntryQty(got, seen) == IF seen = 0 /\ got = Qty THEN got ELSE seen
\* RiskGuard._pre_trade on an order that opens wants nothing but an active
\* guard.  The order fills, at least in part; its trades may not all be seen,
\* and the answer may be lost: _place raises when a later query fails.
EntryFills(s) ==
    /\ proc = "up" /\ work[s].at = "asked" /\ ~guardHalted[s]
    /\ \E got \in 1..Qty : \E seen \in 0..got :
          /\ short' = [short EXCEPT ![s] = @ + got]
          /\ Slips(EntryQty(got, seen) = got)
          /\ \/ /\ Works /\ EntryQty(got, seen) > 0
                /\ Do(s, [work[s] EXCEPT !.at = "filled", !.got = EntryQty(got, seen)])
             \/ /\ Works /\ EntryQty(got, seen) = 0
                /\ Do(s, [work[s] EXCEPT !.at = "lost"])
             \/ Fails /\ seen = got /\ Do(s, [work[s] EXCEPT !.at = "lost"])
    /\ UNCHANGED <<traderVars, queue, orders, fills, shown, OutsideTasks>>

\* The except branch of _do_entry, and the return when nothing seems filled.
EntryLost(s) ==
    /\ proc = "up" /\ work[s].at = "lost"
    /\ Discard(s) /\ Do(s, Idle)
    /\ UNCHANGED <<queue, exchVars, faults, OutsideTasks>>

\* The emergency stop is sent; on an exception the position goes on without one.
PlaceStop(s) ==
    /\ proc = "up" /\ work[s].at = "filled"
    /\ \E placed, known \in BOOLEAN :
          /\ orders' = [orders EXCEPT ![s] =
                           IF placed THEN @ \cup {StopOrder(work[s].ep)} ELSE @]
          /\ Do(s, [work[s] EXCEPT !.at = "stopped", !.set = known])
          /\ \/ Works /\ placed /\ known
             \/ Fails /\ ~known
    /\ UNCHANGED <<traderVars, queue, short, fillVars, OutsideTasks>>

\* The ledger entry becomes "open" with the quantity taken to be filled.
EntryDone(s) ==
    /\ proc = "up" /\ work[s].at = "stopped"
    /\ ledger' = [ledger EXCEPT ![s].status = "open", ![s].qty = work[s].got,
                                ![s].stop = work[s].set]
    /\ UNCHANGED <<halted, cum, entries>> /\ Save
    /\ Do(s, Idle)
    /\ UNCHANGED <<queue, exchVars, faults, OutsideTasks>>

-----------------------------------------------------------------------------
(* The order thread: the maker exit.                                       *)

\* _place_maker up to the answer.  No quote, a rejection or an exception leave
\* the ledger alone, even when the order rests on the exchange.
PlaceMaker(s) ==
    /\ HeadIs(s, "place") /\ Live(s, Head(queue[s])) /\ Pop(s)
    /\ \/ /\ UNCHANGED <<work, orders>> /\ Works
       \/ /\ short[s] > 0
          /\ orders' = [orders EXCEPT ![s] = @ \cup {MakerOrder(ledger[s].ep, ledger[s].qty)}]
          /\ \/ Works /\ Do(s, At("makerset", ledger[s].ep))
             \/ Fails /\ UNCHANGED work
    /\ UNCHANGED <<traderVars, short, fillVars, OutsideTasks>>

MakerSet(s) ==
    /\ proc = "up" /\ work[s].at = "makerset"
    /\ ledger' = [ledger EXCEPT ![s].maker = TRUE]
    /\ UNCHANGED <<halted, cum, entries>> /\ Save
    /\ Do(s, Idle)
    /\ UNCHANGED <<queue, exchVars, faults, OutsideTasks>>

\* What fills() has of one leg of the position in the ledger.
Filled(s, leg) == shown[s][ledger[s].ep][leg]

\* _poll_maker: a maker exit that is filled completely closes the position.
PollMaker(s) ==
    /\ HeadIs(s, "poll") /\ Live(s, Head(queue[s])) /\ Pop(s)
    /\ \/ /\ Filled(s, "maker") >= ledger[s].qty /\ Works
          /\ Do(s, [At("cancel", ledger[s].ep) EXCEPT !.legs.maker = ledger[s].qty])
       \/ /\ Filled(s, "maker") < ledger[s].qty /\ Works /\ UNCHANGED work
       \/ /\ Filled(s, "maker") >= ledger[s].qty /\ Fails /\ UNCHANGED work
    /\ UNCHANGED <<traderVars, exchVars, OutsideTasks>>

-----------------------------------------------------------------------------
(* The order thread: leaving.                                              *)

SetStatus(s, status) ==
    /\ ledger' = [ledger EXCEPT ![s].status = status]
    /\ UNCHANGED <<halted, cum, entries>> /\ Save

\* Mutant of ExitStart: the emergency stop goes before the position does.
ExitStartUnprotected(s) ==
    /\ HeadIs(s, "exit") /\ Live(s, Head(queue[s])) /\ Pop(s)
    /\ SetStatus(s, "closing")
    /\ Do(s, At(IF ledger[s].maker THEN "maker" ELSE "market", ledger[s].ep))
    /\ orders' = [orders EXCEPT ![s] = {o \in @ : o.leg # "stop"}]
    /\ UNCHANGED <<short, fillVars, faults, OutsideTasks>>
\* _do_exit up to the first exchange call.
ExitStart(s) ==
    /\ HeadIs(s, "exit") /\ Live(s, Head(queue[s])) /\ Pop(s)
    /\ SetStatus(s, "closing")
    /\ Do(s, At(IF ledger[s].maker THEN "maker" ELSE "market", ledger[s].ep))
    /\ UNCHANGED <<exchVars, faults, OutsideTasks>>

\* _close_maker: poll, cancel, poll.  When a call fails the order may stay and
\* some of its fills may be unknown.
CloseMaker(s) ==
    /\ proc = "up" /\ work[s].at = "maker"
    /\ \E m \in 0..Filled(s, "maker"), cancel \in BOOLEAN :
          /\ \/ Works /\ cancel /\ m = Filled(s, "maker")
             \/ Fails
          /\ orders' = [orders EXCEPT ![s] =
                           IF cancel THEN @ \ OrdersOf(s, "maker", work[s].ep) ELSE @]
          /\ Do(s, [work[s] EXCEPT !.at = IF m >= ledger[s].qty THEN "cancel" ELSE "market",
                                   !.legs.maker = m])
    /\ UNCHANGED <<traderVars, queue, short, fillVars, OutsideTasks>>

\* The reduceOnly market order for the rest: it buys back at most the short,
\* k of it, of which v is seen.
BuyBack(s, k, v) ==
    /\ short' = [short EXCEPT ![s] = @ - k]
    /\ orders' = [orders EXCEPT ![s] = Swept(@, short'[s])]
    /\ fills' = [fills EXCEPT ![s][work[s].ep].market = @ + k]
    /\ shown' = [shown EXCEPT ![s][work[s].ep].market = @ + v]
ExitWant(s) == ledger[s].qty - work[s].legs.maker
ExitRest(s) == Lesser(ExitWant(s), short[s])
\* The order expires short of what it wants, with no trade seen of it or of
\* the maker exit: that is taken for an exchange without a position.
SeemsGone(s, k, v) == k < ExitWant(s) /\ v = 0 /\ work[s].legs.maker = 0
\* However little it fills, the whole position is booked on the fills seen, or
\* on the order's own quantity when none are, unless it seems to be gone.
ExitFills(s) ==
    /\ proc = "up" /\ work[s].at = "market" /\ short[s] > 0
    /\ \E k \in 0..ExitRest(s) : \E v \in 0..k :
          /\ BuyBack(s, k, v) /\ Slips(k = ExitRest(s) /\ v = k)
          /\ \/ /\ k = ExitRest(s) \/ v > 0 \/ work[s].legs.maker > 0
                /\ Do(s, [work[s] EXCEPT !.at = "cancel", !.legs.market = IF v > 0 THEN v ELSE k])
             \/ SeemsGone(s, k, v) /\ Do(s, [work[s] EXCEPT !.at = "force"])
    /\ UNCHANGED <<traderVars, queue, faults, OutsideTasks>>
\* No position: the order expires.  Without a maker fill the stop is looked up,
\* with one the position is booked at the maker's price.
ExitExpires(s) ==
    /\ proc = "up" /\ work[s].at = "market" /\ short[s] = 0
    /\ Do(s, [work[s] EXCEPT !.at = IF work[s].legs.maker = 0 THEN "force" ELSE "cancel"])
    /\ UNCHANGED <<traderVars, queue, exchVars, faults, OutsideTasks>>
\* _exit_failed: the order is refused, or fills and the answer is lost, or is
\* neither FILLED nor EXPIRED when no trade is seen; the ledger goes back to
\* "open" and periodic tries again.
ExitFails(s) ==
    /\ proc = "up" /\ work[s].at = "market"
    /\ \E k \in 0..ExitRest(s) : \E v \in {0, k} :
          /\ BuyBack(s, k, v)
          /\ \/ Fails /\ UNCHANGED slips /\ v = k
             \/ Works /\ Slips(FALSE) /\ SeemsGone(s, k, v)
    /\ SetStatus(s, "open") /\ Do(s, Idle)
    /\ UNCHANGED <<queue, OutsideTasks>>

\* Mutant of ForceCheck: the stop is not looked up.
ForceNothing(s) ==
    /\ proc = "up" /\ work[s].at = "force"
    /\ Works /\ Do(s, [work[s] EXCEPT !.at = "finalize"])
    /\ UNCHANGED <<traderVars, queue, exchVars, OutsideTasks>>
\* What _check_stop(force=True) takes the stop to have filled: what it sees,
\* the whole position when the stop has fired and no trade is seen.
StopTaken(s) ==
    IF ~ledger[s].stop THEN 0
    ELSE IF Filled(s, "stop") > 0 THEN Filled(s, "stop")
    ELSE IF OrdersOf(s, "stop", ledger[s].ep) = {} THEN ledger[s].qty
    ELSE 0
\* After the market order seemed to find no position; when the stop has not
\* fired either the position is booked at its entry price.
ForceCheck(s) ==
    /\ proc = "up" /\ work[s].at = "force"
    /\ \/ Works /\ Do(s, [work[s] EXCEPT !.at = "finalize", !.legs.stop = StopTaken(s)])
       \/ Fails /\ Do(s, [work[s] EXCEPT !.at = "finalize"])
    /\ UNCHANGED <<traderVars, queue, exchVars, OutsideTasks>>

\* _check_stop from periodic: a stop of which trades are seen has closed the
\* position.
CheckStop(s) ==
    /\ HeadIs(s, "check") /\ Live(s, Head(queue[s])) /\ Pop(s)
    /\ \/ /\ Filled(s, "stop") > 0 /\ Works
          /\ Do(s, [At("finalize", ledger[s].ep) EXCEPT !.legs.stop = Filled(s, "stop")])
       \/ /\ Filled(s, "stop") = 0 /\ Works /\ UNCHANGED work
       \/ /\ Filled(s, "stop") > 0 /\ Fails /\ UNCHANGED work
    /\ UNCHANGED <<traderVars, exchVars, OutsideTasks>>

\* Mutant of CancelStop: the stop stays.
CancelNothing(s) ==
    /\ proc = "up" /\ work[s].at = "cancel" /\ Works
    /\ Do(s, [work[s] EXCEPT !.at = "finalize"])
    /\ UNCHANGED <<traderVars, queue, exchVars, OutsideTasks>>
\* _cancel_stop
CancelStop(s) ==
    /\ proc = "up" /\ work[s].at = "cancel"
    /\ \/ /\ Works
          /\ orders' = [orders EXCEPT ![s] =
                 IF ledger[s].stop THEN @ \ OrdersOf(s, "stop", work[s].ep) ELSE @]
       \/ /\ Fails /\ ledger[s].stop /\ UNCHANGED orders
    /\ Do(s, [work[s] EXCEPT !.at = "finalize"])
    /\ UNCHANGED <<traderVars, queue, short, fillVars, OutsideTasks>>

\* Mutants of Book: state.json is written before the position is gone, and
\* before the trade counts.
BookKeeps(s, ep, legs, net) ==
    /\ cum' = cum + net /\ halted' = (halted \/ cum' <= -StopLine)
    /\ ledger' = [ledger EXCEPT ![s] = Flat] /\ UNCHANGED entries
    /\ disk' = [ledger |-> ledger, halted |-> halted', cum |-> cum', entries |-> entries]
    /\ booked' = [booked EXCEPT ![s][ep] = [n |-> @.n + 1, legs |-> legs, net |-> net]]
BookForgets(s, ep, legs, net) ==
    /\ cum' = cum + net /\ halted' = (halted \/ cum' <= -StopLine)
    /\ ledger' = [ledger EXCEPT ![s] = Flat] /\ UNCHANGED entries
    /\ disk' = [ledger |-> ledger', halted |-> halted, cum |-> cum, entries |-> entries]
    /\ booked' = [booked EXCEPT ![s][ep] = [n |-> @.n + 1, legs |-> legs, net |-> net]]
\* _finalize under the lock (its early return never bites: only this thread
\* takes the position out of the ledger): the trade counts, the position is
\* gone, the stop line is checked, and all of it is saved together.
Book(s, ep, legs, net) ==
    /\ cum' = cum + net
    /\ halted' = (halted \/ cum' <= -StopLine)
    /\ ledger' = [ledger EXCEPT ![s] = Flat]
    /\ UNCHANGED entries /\ Save
    /\ booked' = [booked EXCEPT ![s][ep] = [n |-> @.n + 1, legs |-> legs, net |-> net]]
\* A position booked at its entry price has no result.
NetsOf(legs) == IF legs = NoLegs THEN {0} ELSE Nets
Finalize(s) ==
    /\ proc = "up" /\ work[s].at = "finalize"
    /\ \E net \in NetsOf(work[s].legs) : Book(s, work[s].ep, work[s].legs, net)
    /\ Do(s, [work[s] EXCEPT !.at = "store"])
    /\ UNCHANGED <<queue, procVars, guardHalted, loopVars, exchVars, journal,
                   faults, resumes>>
\* Store.trade, outside the lock.
StoreTrade(s) ==
    /\ proc = "up" /\ work[s].at = "store"
    /\ journal' = journal \cup {<<s, work[s].ep>>}
    /\ Do(s, IF work[s].legs = NoLegs THEN [work[s] EXCEPT !.at = "halt"] ELSE Idle)
    /\ UNCHANGED <<traderVars, queue, procVars, guardHalted, loopVars, exchVars,
                   booked, faults, resumes>>
\* Mutant of HaltGuard: the guard goes on.
HaltNothing(s) ==
    /\ proc = "up" /\ work[s].at = "halt" /\ Do(s, Idle)
    /\ UNCHANGED <<traderVars, queue, procVars, guardHalted, loopVars, exchVars,
                   bookVars, faults, resumes>>
\* guard.halt after a position booked at its entry price.
HaltGuard(s) ==
    /\ proc = "up" /\ work[s].at = "halt"
    /\ guardHalted' = [guardHalted EXCEPT ![s] = TRUE]
    /\ Do(s, Idle)
    /\ UNCHANGED <<traderVars, queue, procVars, loopVars, exchVars, bookVars,
                   faults, resumes>>

Worker(s) ==
    \/ DropTask(s) \/ EntryAsks(s) \/ EntryRefused(s) \/ EntryFills(s)
    \/ EntryLost(s) \/ PlaceStop(s) \/ EntryDone(s)
    \/ PlaceMaker(s) \/ MakerSet(s) \/ PollMaker(s)
    \/ ExitStart(s) \/ CloseMaker(s) \/ ExitFills(s) \/ ExitExpires(s) \/ ExitFails(s)
    \/ ForceCheck(s) \/ CheckStop(s) \/ CancelStop(s)
    \/ Finalize(s) \/ StoreTrade(s) \/ HaltGuard(s)

-----------------------------------------------------------------------------
(* The exchange and the clock.                                             *)

\* The fills that n bought back by the order o add to: they count for the
\* position held now.
Added(fs, s, o, n) ==
    IF ledger[s].ep \in {0, o.ep}
    THEN [fs EXCEPT ![s][o.ep][o.leg] = @ + n]
    ELSE [fs EXCEPT ![s][ledger[s].ep].other = @ + n]
\* The order o buys back k, of which some may not be seen yet, and a rest of it
\* stays on the book.
Executes(s, o, k, rest) ==
    /\ short' = [short EXCEPT ![s] = @ - k]
    /\ fills' = Added(fills, s, o, k)
    /\ \E v \in 0..k : shown' = Added(shown, s, o, v) /\ Slips(v = k)
    /\ orders' = [orders EXCEPT ![s] = Swept((@ \ {o}) \cup rest, short'[s])]
Outside == <<traderVars, taskVars, procVars, guardHalted, bookVars, faults, resumes>>

\* The resting maker exit is filled, in part or completely.
MakerFills(s) ==
    /\ \E o \in orders[s] :
          /\ o.leg = "maker"
          /\ \E k \in 1..Lesser(o.left, short[s]) :
                Executes(s, o, k, IF k = o.left THEN {} ELSE {[o EXCEPT !.left = @ - k]})
    /\ UNCHANGED <<Outside, loopVars>>

\* A reduceOnly order without a position to reduce expires when it is reached.
MakerExpires(s) ==
    /\ short[s] = 0
    /\ \E o \in orders[s] : o.leg = "maker" /\ orders' = [orders EXCEPT ![s] = @ \ {o}]
    /\ UNCHANGED <<short, fillVars, Outside, loopVars>>

\* The mark price reaches an emergency stop: closePosition (brokers.py) buys
\* back all of the short, whichever position that is by now.
StopFires(s) ==
    /\ \E o \in orders[s] : o.leg = "stop" /\ Executes(s, o, short[s], {})
    /\ UNCHANGED <<Outside, loopVars>>

\* Trades of a resting order that were not seen come into fills(); those of a
\* position that is gone are never looked at.
TradesShow(s) ==
    /\ ledger[s].ep # 0
    /\ LET ep == ledger[s].ep IN
       \E leg \in Leg : \E n \in Filled(s, leg) + 1..fills[s][ep][leg] :
          shown' = [shown EXCEPT ![s][ep][leg] = n]
    /\ UNCHANGED <<short, orders, fills, slips, Outside, loopVars>>

\* Phases of the deadline: 0 before the maker window, 1 in the window,
\* 2 the ten seconds after the deadline, 3 later.
Tick(s) ==
    /\ ledger[s].status # "none" /\ phase[s] < 3
    /\ phase' = [phase EXCEPT ![s] = @ + 1]
    /\ UNCHANGED <<Outside, virt, lastSig, exchVars>>

-----------------------------------------------------------------------------
(* Crash and restart.                                                      *)

\* Threads, queues, the engine and everything not saved are gone.
Crash ==
    /\ proc \in {"up", "recovering"} /\ crashes < MaxCrash /\ Troubled
    /\ crashes' = crashes + 1
    /\ proc' = "down" /\ toRecover' = {}
    /\ ledger' = disk.ledger /\ halted' = disk.halted
    /\ cum' = disk.cum /\ entries' = disk.entries
    /\ queue' = [s \in Sym |-> <<>>] /\ work' = [s \in Sym |-> Idle]
    /\ virt' = [s \in Sym |-> 0]
    /\ UNCHANGED <<disk, guardHalted, phase, lastSig, exchVars, bookVars, faults, resumes>>

\* launchd starts the program again; Trader.__init__ loads state.json.
Start ==
    /\ proc = "down"
    /\ proc' = "recovering" /\ toRecover' = Sym
    /\ UNCHANGED <<traderVars, taskVars, crashes, guardHalted, loopVars, exchVars,
                   bookVars, faults, resumes>>

\* recover: the ledger and the exchange disagree, StartRefused.
Mismatch(s) ==
    /\ short[s] # 0
    /\ ledger[s].status = "none" \/ short[s] # ledger[s].qty

Recovering(s) == proc = "recovering" /\ s \in toRecover
RecoverRefused(s) ==
    /\ Recovering(s) /\ Mismatch(s)
    /\ proc' = "refused" /\ toRecover' = {}
    /\ UNCHANGED <<traderVars, taskVars, crashes, guardHalted, loopVars, exchVars,
                   bookVars, faults, resumes>>
\* Of the orders on the exchange only those in mine are left; cancelling any of
\* the others may fail.
CleanUp(s, mine) ==
    \E left \in SUBSET orders[s] :
        /\ orders[s] \cap mine \subseteq left
        /\ orders' = [orders EXCEPT ![s] = left]
        /\ \/ Works /\ left \subseteq mine
           \/ Fails /\ ~(left \subseteq mine)
\* Nothing on the exchange, nothing or an unsent entry in the ledger.
RecoverFlat(s) ==
    /\ Recovering(s) /\ short[s] = 0 /\ ledger[s].status \in {"none", "opening"}
    /\ ledger' = [ledger EXCEPT ![s] = Flat]
    /\ CleanUp(s, {})
    /\ toRecover' = toRecover \ {s}
    /\ UNCHANGED <<halted, cum, entries, disk, taskVars, proc, crashes, guardHalted,
                   loopVars, short, fillVars, bookVars, resumes>>
\* The position is carried on and its stop stays.
RecoverOpen(s) ==
    /\ Recovering(s) /\ ledger[s].status # "none" /\ short[s] = ledger[s].qty
    /\ ledger' = [ledger EXCEPT ![s].status = "open", ![s].source = "recovered",
                                ![s].exitReq = FALSE]
    /\ CleanUp(s, IF ledger[s].stop THEN OrdersOf(s, "stop", ledger[s].ep) ELSE {})
    /\ toRecover' = toRecover \ {s}
    /\ UNCHANGED <<halted, cum, entries, disk, taskVars, proc, crashes, guardHalted,
                   loopVars, short, fillVars, bookVars, resumes>>
\* What userTrades may answer about a position, by whatever name: of the trades
\* that were not seen before, all or none.
Answered(s, ep) == {fills[s][ep], shown[s][ep]}
\* _recover_closed: the position was closed meanwhile and is booked with the
\* fills found, or at its entry price when the query fails; the loop then goes
\* on with the next symbol, past the cleaning up of open orders.
RecoverClosed(s) ==
    /\ Recovering(s) /\ ledger[s].status \in {"open", "closing"} /\ short[s] = 0
    /\ \E legs \in Answered(s, ledger[s].ep) \cup {NoLegs} :
          /\ \/ Works /\ legs \in Answered(s, ledger[s].ep)
             \/ Fails /\ legs = NoLegs
          /\ \E net \in NetsOf(legs) : Book(s, ledger[s].ep, legs, net)
    /\ journal' = journal \cup {<<s, ledger[s].ep>>}
    /\ toRecover' = toRecover \ {s}
    /\ UNCHANGED <<taskVars, proc, crashes, guardHalted, loopVars, exchVars, resumes>>
RecoverDone ==
    /\ proc = "recovering" /\ toRecover = {}
    /\ proc' = "up"
    /\ UNCHANGED <<ledger, halted, cum, entries>> /\ Save
    /\ UNCHANGED <<taskVars, toRecover, crashes, guardHalted, loopVars, exchVars,
                   bookVars, faults, resumes>>
Recover(s) == RecoverRefused(s) \/ RecoverFlat(s) \/ RecoverOpen(s) \/ RecoverClosed(s)

-----------------------------------------------------------------------------
Exchange(s) == MakerFills(s) \/ MakerExpires(s) \/ StopFires(s) \/ TradesShow(s)
Loop(s) == OnEntry(s) \/ OnExit(s) \/ Periodic(s)

Next ==
    \/ \E s \in Sym : Loop(s) \/ Worker(s) \/ Exchange(s) \/ Tick(s) \/ Recover(s)
    \/ ConsumeResume \/ Crash \/ Start \/ RecoverDone

Spec == Init /\ [][Next]_vars

\* The loop calls periodic every second, the order threads run what they are
\* given, time passes, launchd restarts a crashed process and recover ends.
Fairness ==
    /\ \A s \in Sym : /\ WF_vars(Periodic(s)) /\ WF_vars(Worker(s))
                      /\ WF_vars(Tick(s)) /\ WF_vars(Recover(s))
    /\ WF_vars(Start) /\ WF_vars(RecoverDone)
FairSpec == Spec /\ Fairness

-----------------------------------------------------------------------------
(* Properties.                                                             *)

TraderOK ==
    /\ ledger \in [Sym -> Pos] /\ halted \in BOOLEAN /\ cum \in Int
    /\ entries \in [Sym -> Nat]
    /\ disk \in [ledger : [Sym -> Pos], halted : BOOLEAN, cum : Int, entries : [Sym -> Nat]]
TaskOK == queue \in [Sym -> Seq(Task)] /\ work \in [Sym -> Work]
ProcOK ==
    /\ proc \in {"up", "down", "recovering", "refused"} /\ toRecover \subseteq Sym
    /\ guardHalted \in [Sym -> BOOLEAN]
    /\ crashes \in Nat /\ faults \in Nat /\ resumes \in Nat
LoopOK ==
    /\ virt \in [Sym -> EpOrNone] /\ lastSig \in [Sym -> EpOrNone]
    /\ phase \in [Sym -> Phase]
ExchOK ==
    /\ short \in [Sym -> Amount] /\ orders \in [Sym -> SUBSET Order]
    /\ fills \in [Sym -> [Eps -> Legs]] /\ shown \in [Sym -> [Eps -> Legs]]
    /\ slips \in Nat
BookOK ==
    /\ booked \in [Sym -> [Eps -> [n : Nat, legs : Legs, net : Int]]]
    /\ journal \subseteq Sym \X Eps
\* Every variable has its type; in particular the exchange never turns the
\* short into a long.
TypeOK == TraderOK /\ TaskOK /\ ProcOK /\ LoopOK /\ ExchOK /\ BookOK

\* A trade is booked once, whichever of the engine's exit, the retry, the
\* maker poll, the stop check and the recovery gets there first.
BookedOnce == \A s \in Sym, ep \in Eps : booked[s][ep].n <= 1

\* Without lost answers, crashes and the operator, an entry is filled on an
\* exchange that holds neither a short nor an emergency stop of an earlier
\* position, however late trades are seen and however little an exit fills:
\* a position booked while its stop was left there has halted the guard.
StopsOf(s) == {o \in orders[s] : o.leg = "stop"}
EntersClean ==
    [][faults = 0 /\ crashes = 0 /\ resumes = 0 =>
         \A s \in Sym : short'[s] > short[s] => short[s] = 0 /\ StopsOf(s) = {}]_vars

\* As long as no answer was lost, no trade was seen late and no exit was filled
\* in part, every short on the exchange is in the ledger and in state.json,
\* whenever the process dies.
Managed ==
    faults = 0 /\ slips = 0 => \A s \in Sym : short[s] > 0 =>
        ledger[s].status # "none" /\ disk.ledger[s].status # "none"

\* A position has just been booked at its entry price; its guard is not yet
\* halted.
BookedBlind(s) == work[s].at \in {"store", "halt"} /\ work[s].legs = NoLegs
\* Without lost answers, crashes and the operator, an emergency stop on the
\* exchange belongs to the position in the ledger, or the guard lets no later
\* one be opened that it could hit.
NoOrphanStop ==
    faults = 0 /\ crashes = 0 /\ resumes = 0 =>
        \A s \in Sym : \A o \in StopsOf(s) :
            o.ep = ledger[s].ep \/ guardHalted[s] \/ BookedBlind(s)

\* Without lost answers and crashes, an open position that the exchange still
\* holds has its emergency stop there, all the way through the exit, also when
\* its trades are seen late or the exit is filled in part.
Protected ==
    faults = 0 /\ crashes = 0 =>
        \A s \in Sym : ledger[s].status \in {"open", "closing"} /\ short[s] > 0
                            /\ work[s].at \notin {"finalize", "store", "halt"}
            => OrdersOf(s, "stop", ledger[s].ep) # {}

\* When no call fails, no trade is seen late and no exit is filled in part, a
\* trade is booked on the fills that closed it: on all of them, unless a maker
\* part was followed by the emergency stop; and never on none, for when the
\* market order finds nothing left to buy back, the stop or the maker exit has
\* taken it.
BookedOnItsFills ==
    faults = 0 /\ crashes = 0 /\ slips = 0 =>
        \A s \in Sym, ep \in Eps : booked[s][ep].n > 0 =>
            /\ booked[s][ep].legs # NoLegs
            /\ fills[s][ep].maker = 0 \/ fills[s][ep].stop = 0
                => booked[s][ep].legs = fills[s][ep]

\* A trade that takes the sum to the stop line leaves a halt behind that a
\* crash cannot undo.
HaltIsDurable ==
    [][booked' # booked /\ cum' <= -StopLine => disk'.halted /\ disk'.cum = cum']_vars

\* As long as nobody resumes by hand (which may clear it), the sum that survives a
\* crash, and that the stop line is compared with, is the total of the results
\* booked: none is lost or counted twice between the order threads of several
\* symbols, a crash and an interrupted recovery.
Bookings == Sym \X Eps
Total == MapThenSumSet(LAMBDA se : booked[se[1]][se[2]].net, Bookings)
SumIsBooked == resumes = 0 => disk.cum = Total

\* A position past its deadline is closed, unless the program refuses to run.
DeadlineCloses ==
    \A s \in Sym : (ledger[s].status # "none" /\ phase[s] = 3)
                        ~> (ledger[s].status = "none" \/ proc = "refused")

\* The stage of a signal as state.json and the history of bookings tell it.
Stage(s, ep) ==
    IF booked[s][ep].n > 0 THEN "booked"
    ELSE IF disk.ledger[s].ep = ep
    THEN (IF disk.ledger[s].status = "opening" THEN "pending" ELSE "held")
    ELSE IF ep <= lastSig[s] THEN "dropped" ELSE "unseen"
Promise == INSTANCE TradeBook WITH
    stage <- [s \in Sym |-> [ep \in Eps |-> Stage(s, ep)]],
    sum <- disk.cum, stopped <- disk.halted, Results <- Nets \cup {0}

\* The durable ledger keeps the promises of TradeBook, through crashes,
\* interrupted recoveries and lost answers.
KeepsTradeBook == Promise!Spec

=============================================================================
