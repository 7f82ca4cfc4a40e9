# A TLA+ model of autocoin

autocoin collects Binance USDT-M futures data into a TimescaleDB and trades two strategies with it:
*pastofi* (short positions per symbol, driven by a signal engine) and *overnight* (one long position held
through a night). This directory models the parts where threads, processes, the exchange and crashes meet.
TLC checks the models on small instances; TLAPS proves some of the properties for every value of the
constants. Source paths in this file are relative to the repository's `src` package. `PROJECT.json` maps each
definition to the lines it translates, and lists the hazards the properties are about.

Run, in this directory: `tlc -config BookSync.cfg MCBookSync.tla`, and `tlapm BookSyncProofs.tla`.

## 1. Inventory

| Component | State | Operations | Interacts with | Hard | Correct when |
|---|---|---|---|---|---|
| pastofi `Trader` (`strategies/pastofi_crypto/trader.py`) | ledger of positions, halt, sums, counts of entries; `state.json` | `on_entry`, `on_exit`, `periodic`, tasks entry/exit/place/poll/check, `recover`, resume file | feed callbacks, an order thread per symbol, broker, guard | three threads on one ledger, every exchange call may fail or lose its answer, a crash between any two calls | a trade is booked once, on its fills; the short on the exchange is in the ledger; a halt survives |
| pastofi `App`/runner (`.../runner.py`) | health, lag, clock offset, task queues | streams' records, clock loop, gate, offset, start | engine, trader, collector connection | loops against threads, data lost before it is noticed | no entry on data with a hole in it |
| engine and feed (`.../engine.py`, `feed.py`) | lists of quotes and volumes, virtual positions, per-day state | `on_quote`, `on_trade`, `advance`, `tick`, `finish_day` | App's sink, trader callbacks | late input, pruning, seconds made up for | same trades as from complete data |
| pastofi records (`.../store.py`) | jsonl files, tables, a queue to the database | append, upsert, `sync_all` | trader's threads, database | torn lines, two writers, database away | what was written can be read; rows follow the files |
| pastofi reconciliation (`.../reconcile.py`, `runner.py`) | days to compare, a subprocess, reports | schedule, start, `coverage` | records, collector's data | restarts, midnight, ends without a trace | a signal is held only against a process that could have decided; no day is forgotten |
| execution (`execution/risk.py`, `paper.py`, `live.py`, `market.py`) | guard's state file, paper orders and cursor, live order table | place, cancel, poll, guard checks and records | both strategies, REST, database | partial answers, trades that show late, ids used again, saves in between | limits and halts hold; each fill is taken once; no print passes an order |
| overnight `Runner` (`overnight/runner.py`) | the night, history; `runner.json` | enter, work a leg, stop, exit, finalize, residual check, recover | guard, exchange, clock | one thread and an exchange that moves on; restart at any point of a night | position within the limit, stop covers it, flat when done, booked once |
| overnight spec (`overnight/spec.py`) | none | sessions, nights, order times | runner | holidays, special hours, skipped nights | methods balanced, times in order |
| order book (`exchange/orderbook.py`, `BookSynchronizer` in `ws.py`) | levels, last update id, buffer, snapshot task | `apply_snapshot`, `apply_diff`, `on_diff`, `_resync`, `reset` | stream, REST | stream against snapshot, lost diffs, reconnects, bounded buffer | the local book is the exchange's; synced means current |
| collector (`ws.py`, `collect_orderbook.py`, `autobackfill.py`, `integrity.py`, `archive.py`) | connections, last ids, outages, pending jobs, next sweep | messages, reconnect, jobs, sweep, fill | sinks, REST, archive, monitor | jobs consumed before they run, restarts, limits of REST | what was left out is stored again |
| monitor, sleep guard, notifiers (`monitor.py`, `power.py`, `notify.py`) | alert state, message queue, a child process | check, flush, tick, send | collector | silence against reconnection, sends beside appends, failed sends | the last word is true; messages arrive |
| database sink (`storage/pg_sink.py`, `db.py`) | row buffers, back-off; spill files | write, flush, close, spill, replay-spill | collector, database, file system | ambiguous commits, crash, failing disk | no record lost but with its process; replay keeps rows |
| REST, signing, JSONL sinks | request weights | one call | all | retries, POST sent once | - |
| reports, web, replay, backtests, research, legacy, deployment | - | batch | - | - | - |

## 2. Modules

| Module | Models |
|---|---|
| `PastofiTrader` | `trader.py`, the order queue of `runner.py` (`build.submit`), the broker calls by their outcomes, the guard's halt |
| `TradeBook` | what the ledger promises: the stages of a signal, the sum and the halt. `PastofiTrader` is shown to implement it |
| `SymbolEngine` | `engine.py` and `feed.py`, beside a reference definition over the complete data |
| `PastofiApp` | both streams, `Health`, the gate, the clock loop and offset of `runner.py`, trade ids of `ws.py` |
| `PaperExchange`, `LiveBroker`, `Execution` | the two brokers, and the guard in front of either |
| `OvernightRunner`, `NightCalendar` | `overnight/runner.py` with guard and exchange; `overnight/spec.py` |
| `BookSync` | `orderbook.py` and `BookSynchronizer` against the exchange's book |
| `Collector` | streams, outages, monitor's check, back-fill, gap search, REST and archive |
| `CollectionWatch` | sleep guard, the monitor's queue, the notifier's outcomes |
| `PgSink` | `pg_sink.py` and `replay-spill`, as two processes on the same tables |
| `JsonLines`, `PastofiStore`, `PastofiReconcile` | a file of lines that may be torn; the records; the daily reconciliation |
| `MC*` | values for TLC, symmetry sets; `MCUpkeep` puts four small parts side by side |
| `PastofiTraderProofs`, `OvernightProofs`, `ExecutionProofs`, `CollectorProofs`, `UpkeepProofs`, `BookSyncProofs`, `PgSinkProofs`, `PastofiAppProofs` | theorems and proofs |

**PastofiTrader.** `ledger`, `halted`, `cum`, `entries` are `TraderState`; `disk` is `state.json`, replaced
at each `_save`. The event loop's handlers are one action each: they run without an await. A task of an order
thread is cut at each exchange call and each ledger update; `work[s].at` says where it stands. The environment
fills, triggers and expires orders at any time (`Sweeps` says whether a reduceOnly order goes when nothing is
left to reduce, as on the live exchange, or when a trade reaches it, as on paper). `fills` is what was executed,
`shown` what the broker's `fills()` tells of it: on the real exchange trades show later than the order's answer
(`live.py:272`), a stop's perhaps never under its own id (section 5), and the market orders of entry and exit may
fill in part. A step that so takes a trade for other than it is counts as a slip. The emergency stop closes all
of the position, whatever it is by then (`PastofiLiveBroker`, `brokers.py:62`, overrides the base broker's stop with
a quantity). A call may fail, or succeed with its answer lost (`faults`). `Crash` keeps `disk` and the exchange; the restart runs `recover` symbol by
symbol. Prices are left out: a booked trade carries the quantities its price was computed from, and a result.

**SymbolEngine.** A day of seconds; quotes come in order, trades may come late, the tick may lag. The engine's
lists, their pruning and its positions are kept as in the code (`eng`); `quotes` and `arrived` are the complete
data, from which `WholeDay` computes the same day second by second.

**PastofiApp.** A message is on the wire, received or lost; the synchronizer is reduced to whether it follows.
The connection loop of `ws.py`, `StrategySink`, `Health` and the gate are as in the code. `Silence`, `Latency`,
`GapWindow` and the engine's windows are constants.

**PaperExchange, LiveBroker, Execution.** The paper exchange polls the trades the collector shows, one action
per print, and may break off at a stale book or die after a save. The real broker is cut at each request: a POST
may be refused, lost on the way, or answered with nothing, and `_recover` asks for the order by id. An id that an
earlier process used may be used again, once its order is off the book: callers ask for the open orders, and so
track them, before they place any (`overnight/runner.py:363`). `Execution`
puts the guard's checks (three requests on the real exchange) in front of either.

**OvernightRunner.** One thread, `pc` stands between two calls or saves. Seven points of time per night stand
for `order_times`. Client ids are (night, leg, number), so placing a known id returns the old order. A guarded
entry order is three steps: the guard's request for the position, its request for the open orders, and the order;
the exchange may fill between any two. On the real exchange the trades of an order may show too late to be counted
(`ShownOf`): `late` is the quantity so missed since the night was entered, `raced` what entry orders left behind
filled between the guard's two requests. The nights,
their methods and the one that is skipped are those of a small calendar of `NightCalendar` (an assumption of
`MCOvernightRunner` ties them). Bad dates of `calendar_check` are skipped in the same place (`PassNight`).

**NightCalendar.** Pure operators over a calendar record; the hash of seed and date is an arbitrary coin per day.

**BookSync.** The exchange numbers its updates, and a level's value is the number of the update that set it:
so "the same book" is an equation, and a wrong diff shows. An action is what runs between two awaits; only the
replay of the buffer takes one action per diff, while the loop is blocked (`LoopFree`).

**Collector.** One trade and one diff per unit of time. Connections, jobs and the process fail; the database
stays. **CollectionWatch.** The event loop's appends against the thread that sends, and against `final` at the end.

**PgSink.** A record is keyed, an event (no primary key) or bad (cannot be converted). A flush is one
transaction: applied, not applied, or applied with the answer lost. `replay-spill` is a second process with the
same class, a line per action. The collector flushes on its status interval too, without a write and without
regard to the back-off (`Flush`).

**JsonLines.** A line that was cut, or lacks only its newline, swallows the next one; cut inside a character, the
file cannot be decoded as a whole any more (`decodes`), and whoever reads it fails. **PastofiStore.** Two
threads append under the lock and put into the queue after it. **PastofiReconcile.** Starts, refusals, stops and
deaths with the lines they leave, against the history of moments at which the process could decide (`able`).

## 3. Runs

All counters are bounded by constants named in the modules; each bound is in a guard.

| Run | Bounds | What it shows |
|---|---|---|
| `pastofi_symbol` | one symbol, two signals, quantity 2; at most two troubles (`MaxTrouble`) out of one crash, one failed or lost call, one slip and one manual resume; two entries a day, stop line 2 | the trader's safety and its deadline; 1.7 million states |
| `pastofi_pair` | two symbols (symmetric), one signal each, paper exchange, two crashes, no slips, stop line 1 | the sum over symbols, and the refinement of `TradeBook`; 2.1 million states |
| `engine` | eight seconds, five quotes, three trades up to three seconds late, tick up to one behind, pruning every five | the engine against complete data; 5.2 million states |
| `app` | eight seconds, two faults, messages up to two seconds late, loop up to one behind | the gate's promise; 6.8 million states |
| `execution` | three paper orders and one print of the market, or two alike client ids and two executions; two paper faults or one live fault, one night | limits, halts, fills, both brokers; 1.8 million states |
| `overnight` | three nights (limit orders, skipped, market), quantity 2, paper and live, two limit orders a leg; at most two troubles out of one crash, one refusal and the units that show late | the night's safety and the exit; 2.6 million states |
| `booksync` | two levels, five updates, buffer of two, two failures | mirror, currency, eventual sync; 350,000 states |
| `collector` | nine units, two faults, sweep every two over a window of four, REST for two ids and six units, archive three after its day | holes are filled, alerts match; 8.1 million states |
| `pg_sink` | two trades, two events, one bad record, four writes, buffer of two, three files, two replays, two faults | nothing lost, replay keeps rows; 580,000 states |
| `upkeep` | one of four parts per behaviour: 2816 calendars of eight days; two trades, two crashes, one database failure; three days of four moments, three ends; a queue of two, six messages | timetable, records, rows, coverage, days, messages; 4.9 million states |
| `overnight_held_night`, `execution_unnamed_stop` | those of their module | section 5 |

Why the bounds are enough: two signals make a position follow another (leftovers of the first meet the second);
quantity 2 has every partial fill there is to tell apart; one fault, one slip and one crash, and any two of them in
one behaviour, give every place and pair of places a failure can strike; two crashes in the pair run a crash during
recovery. Five updates overflow a buffer of two while a
snapshot is out and still leave updates for a second synchronization. The engine's day is longer than its warm-up,
a position's limit and a pruning period together, and the pruning bound is one below which a mutant of it shows.
The collector's time spans two sweeps, a day's publication and the age REST refuses. Two crashes let a torn line
meet the next record and the next start. Eight days hold a weekend, a long holiday and five nights, odd and even
counts of traded ones. The parts of `upkeep` share no state: each behaviour steps one, so their state spaces add
and do not multiply.

`CHECK_DEADLOCK FALSE` where the program may stop, or a bound of time or messages ends the behaviour.

## 4. Properties

| Module | Properties |
|---|---|
| `PastofiTrader` | `BookedOnce`, `EntersClean`, `Managed`, `NoOrphanStop`, `Protected`, `BookedOnItsFills`, `HaltIsDurable`, `SumIsBooked`, `KeepsTradeBook` (refinement), `DeadlineCloses` (liveness) |
| `SymbolEngine` | `AgreesWithReplay`, `EmitsPairs` |
| `PastofiApp` | `DepthIsWhole`, `VolumeIsWhole` |
| `Execution`, brokers | `Capped`, `NoTradePassed`, `FillsAreTrades`, `ClosedIsClosed`, `HaltHolds` |
| `OvernightRunner` | `RecordedOnce`, `Capped`, `StopCovers`, `DoneIsFlat`, `StopLineHolds`, `HeldIsClosed` (liveness) |
| `BookSync` | `Mirrors`, `SyncedIsCurrent`, `GetsSynced` (liveness) |
| `Collector` | `HolesAreFilled`, `OutageIsFilled`, `AlertsMatch` |
| `PgSink` | `Accounted`, `ReplayKeepsRows` |
| `MCUpkeep` and its parts | `Timetable`, `RecordsKept`, `RowsFollowFile`, `CoverageIsTrue`, `NoDayForgotten`, `ReleaseIsTold`, `MessagesArrive` |

Each stateful module but those of `upkeep` states its types: for `PastofiTrader`, `OvernightRunner`, `BookSync`,
`PgSink`, `PastofiApp`, `PaperExchange` and `Collector` they are proved (section 6); those of the engine and the real
broker hold on the instances of section 3 and are not part of a run. A property that speaks of behaviours without crashes or faults says so in its formula, and the
runs contain both kinds. `PROJECT.json` lists for each property a changed form of an operator (next to the
operator in its module) under which TLC finds it violated.

### Fairness

- `PastofiTrader`: weak fairness of the clock loop (`periodic` is called every second), of each order thread
  (a daemon thread that blocks on its queue only), of recovery and of the restart (launchd `KeepAlive`), and of
  the phases of the clock. None of the exchange: an order may rest for ever.
- `OvernightRunner`: weak fairness of its thread, of the clock, and of the restart.
- `BookSync`: weak fairness of the receiving task, the replay and the timer that retries, and strong fairness of a
  snapshot recent enough to be used: a request is repeated until it succeeds, and an exchange does not answer with
  old books for ever.

## 5. Where code and documentation differ

1. `overnight_held_night`: after a restart the runner leaves a night in which it holds a position; the docstring
   says the night is carried on.
2. `execution_unnamed_stop`: a stop that triggers between `poll`'s look at the stop and its look at the trades has
   its fill filed as `order:<id>` for good. The pastofi trader looks for fills by the stop's client id and finds
   none; the overnight runner counts fills named `order:` and is right.

What else the models show about the code; a property's formula or a hazard's note states each as an exception:

- `trader.py:618`: recovery books a position closed while the process was down and does not look at that symbol's
  open orders, so its emergency stop stays, although the strategy's README:52 says it is cleaned up.
  `trader.py:257`: an accepted entry whose follow-up query fails is taken for refused. `trader.py:471`: on the
  simulated exchange a maker exit survives a position closed by its emergency stop, and fills against the next one.
  `trader.py:605`: an entry that filled and was stopped
  while the process was down is taken for unsent. `trader.py:513`: `state.json` is saved before the trade is
  written, so a crash between the two leaves a trade out of `trades.jsonl`.
- Trades that show late (`live.py:272`) and market orders that fill in part, without any failure. `trader.py:264`: an
  entry filled in part whose trades do not show is taken for not filled, and its short is in nobody's ledger, without
  stop and exit; when a part of them shows, the ledger has too little. `trader.py:357`: an exit that bought back a
  part is booked as a whole, its stop cancelled and the rest left short in nobody's ledger (`Managed` excepts these by
  `slips`; the next entry is refused while the short lasts, `EntersClean`). `trader.py:350`: when a maker exit
  has closed the position and its trades do not show, the trade is booked at the entry price and its stop
  stays; the guard, halted with it, keeps it from the next position (`NoOrphanStop`).
- `overnight/runner.py:255`: a night counts the trades that show. An entry whose trades all show too late is skipped
  with its position held, without a stop and never closed (`HeldIsClosed` excepts it); one that shows in part gets a
  stop of that size (`StopCovers`), and the residual check sells the rest.
- `overnight/runner.py:376`: recovery leaves an entry order of a night it skips; it may fill later. If it fills
  between the guard's request for the position (`risk.py:149`) and that for the open orders (150), it is counted in
  neither, and the limit is exceeded by it (`Capped`).
  Bad dates found at a restart skip a held night as well (397).
- `risk.py:127`: `record_night` saves before it judges; a death in between leaves an active guard past its line.
  `reset_halt` leaves the cumulative loss in place.
- `paper.py:78`: an order is registered before the book may prove stale, and stays NEW. `paper.py:130`: the
  cursor passes a print before the stop it triggers is filled. `live.py:164`: an order that fills during
  `cancel_all` is called cancelled; its fills are still read.
- `runner.py:191`: the gate never asks how long no trade came; pings close a dead connection before the window of
  the order flow ends. An id left out before the first trade of a process is never noticed.
- `autobackfill.py:56`: a failed job waits for the sweep, and a hole older than the window of the sweep stays.
  `monitor.py`: a process that knew of no book before never reports the end of its first silence.
- `pg_sink.py:216`: a file spilled on overflow has one row more than a buffer holds, so its replay spills it again.
  `pg_sink.py:162`: a batch committed with its answer lost is inserted twice; events have no key.
- `monitor.py:52`: after a release, a tick in the network's grace hides the return to battery: no word of it.
  `monitor.py:79`: an append at a full queue drops its head, and the answer to the send in flight takes the next
  message away unsent. `collect_orderbook.py:138`: `final` may flush beside a thread that still does.
- `store.py:59`: a line torn inside a character (the records are written with `ensure_ascii=False` and hold Korean
  text) makes `read_text` raise, outside of the `try` and whatever is appended later; its comment (64) speaks of a torn
  last line only. From then on `sync_all` fails at every start and every reconciliation that reads the file fails.
- `store.py:94`: a torn line swallows the next record; if the database already has that record, the next `sync_all`
  puts the row back to the last line that can be read. A signal whose entry did not fill stays "traded" in the
  file (`trader.py:266`), and the record of a late refusal replaces the outcome the engine's exit has written.
- `reconcile.py:44`: a process that dies, or is refused at its start, leaves no stop, and coverage counts on to
  the next line. `runner.py:373`: the subprocess's result is not looked at; a failed day waits for the next start.
  `runner.py:338`: the summary's flag is saved before the summary is made; `trader.py:140`: so is an alert's key.

## 6. Proofs

TLAPS checks these for every value of the constants, from the assumptions named in the modules
(`TraderAssumption`, `RunnerAssumption`, `BookAssumption`, `SinkAssumption`, `AppAssumption`, `PaperAssumption`,
`LiveAssumption`, `ExecutionAssumption`, `CollectorAssumption`, `WatchAssumption`, `ReconcileAssumption`). They give
types, disjointness and finiteness of the constants. What they say more: the gate's gap window is longer than the
windows an entry reads, and pings close a dead connection before the order flow's window has passed
(`AppAssumption`); the stop line of the guard is a positive sum (`RunnerAssumption`; `execution/risk.py:33`); a day
has an even number of moments (`ReconcileAssumption`).

- **PastofiTrader.** `TypesHold`: the types are not inductive alone, since a task's step reads the ledger entry
  it works on. `TInv` adds `Aligned`: a thread in the middle of something works on the position in its ledger, and
  only in a running process. `BookedOnceHolds` adds `Unbooked`: a booked signal is in no ledger, in memory or on
  disk, and is not later than the last signal; a step either leaves ledgers and bookings alone, takes a later
  signal, or books what the ledger holds and clears it. `HaltIsDurableHolds` is an action
  property from the same invariant.
  `SumIsBookedHolds` is about a sum over all symbols and signals. The model's sum over a set is a chosen recursive
  function, so the first lemmas show that there is one for every finite set, and that it changes by as much as one
  summand does. The rest is `Durable` (below) and `Unbooked`: the booking that adds to the sum is of a trade that had
  no result.
- **TradeBook.** `ImplementsTradeBook`: the stage of a signal (`Stage`) is read from the bookings and from state.json;
  the initial state is the book's, and every step is a step of the book for one signal or leaves all stages alone.
  `Staged` says which tasks work on a position that is pending and which on one that is held. `Durable` says that
  the sum, the halt and the ledger on disk are those in memory, but for what an unfinished recovery has found out
  (`Recovered`); so a crash changes no stage.
- **PastofiTrader against the exchange.** `ManagedHolds` from `Held`: as long as no
  answer was lost and nothing slipped, short and closing fills add up to no more than the position in the ledger, in memory and on disk;
  each place in a task says what is known to be held, and nothing on the exchange is of a signal yet to come.
  `ProtectedHolds` adds `StopStands`: without failures the stop of a position that is
  still held rests from the moment it is placed, for a task cancels it only on its way to book the position, and it
  is booked once.
  `NoOrphanStopHolds` and `EntersCleanHolds` add `Tended` (`OwnStops`, `BlindLegs`), with slips: a stop on the
  exchange is that of the position in the ledger, or of one that was booked on no fills, and until its guard is halted
  the order thread is on the way to do so; a stop that has not fired has no fills, shown or not.
  `EntersCleanHolds` needs the step before, too: the answer to `_do_entry`'s question is still true when
  the order fills (`Empty`), for nobody else opens a position.
  `BookedOnItsFillsHolds` adds `Exact`, without slips: what rests belongs to the position in the ledger
  (`OrdersExact`), short and closing fills make up exactly the position (`FillsExact`), and what a task has counted
  agrees with the fills (`LegsExact`, `BookedExact`). It has the hypothesis `Sweeps`, because on the simulated
  exchange it is false: a position closed by its stop is booked without a look at the maker exit, which stays and
  fills against the next position (section 5, `trader.py:471`). The run `pastofi_symbol` has `Sweeps`, too; the other
  theorems hold for either exchange.
- **BookSync.** `MirrorsHolds` and `SyncedIsCurrentHolds` from one inductive invariant, whose heart is about
  diffs: each diff under way or buffered carries exactly the levels touched after its predecessor (`GoodDiffs`), so
  it takes every book between the two to the book of its last update (`DiffApplies`). Where a diff is missing, the
  check of `pu` (or of `U` for the first one after a snapshot) keeps the next one from being applied.
- **PgSink.** `AccountedHolds`: what is stored or filed stays so (`Growth`), a commit stores the whole batch and a
  spill files the whole buffer, so a record leaves the buffer for one of them. `ReplayKeepsRowsHolds` needs the
  strengthening `Progress`: each line a replay has read is in the database, its buffer or a younger file.
- **PastofiApp.** `AppDepthIsWhole` and `AppVolumeIsWhole` from one invariant, `Known`, that relates the streams as
  they were to what the gate reads. `Trades`: a trade on the wire waits no longer than the pings allow, and one that
  was lost is unknown, or not after the end of the last gap, or the connection is seen to be down. `Quotes`: unless a
  gap is open the book is followed, and whatever was lost up to the last diff it followed came before the first
  quote or the end of the last gap. What came after that diff is what the silence and latency limits bound.
- **Execution.** `ExecutionProofs` proves one invariant of both brokers behind the guard, `ExecInv`, for any requests
  and limits. `NoTradePassedHolds`: the cursor alone does not say what was looked at, since a first order moves it, a
  poll reads from it and a restart takes it back. `TimesOK` says that the file's cursor is never ahead of the
  memory's and that no order is placed beyond the tape; `FileOK` that the file has the first of the orders, each as
  it is, so a restart brings back no other order; `PollOK` that a poll goes on from the cursor, or from
  before the first order that rests. `ClosedIsClosedHolds` needs `BookOK` (at most one order on the exchange per
  client id, because an id that either side knows is not sent again; of the orders that had an id only the last may be open) and `TrackedOK` (an order that is taken for open
  was taken by the exchange), over all requests that fail or lose their answer. `FillsAreTradesHolds` needs `PulledOK`
  (without a last trade asked for there are no fills) and that the trade list only grows. The orders that the
  exchange makes for a triggered stop have no client id of the broker (`"none" \notin Cids`).
  `CappedHolds` and `HaltsHold` are about callers that sell only to reduce: the hypothesis `Callers`, which is what
  `enter` and `exit` of the overnight runner do (the pastofi trader, which sells to enter, is outside it). `CapInv`:
  position and resting orders, each counted as filled, stay within the limit, and the paper exchange's file has the
  same position and no more orders. `HaltInv`: while a halt holds the guard is halted, and a request between its three
  calls is one that reduces, because it read an active guard before. `LongInv`: such callers never turn the real
  position round, so an order that must reduce does.
- **OvernightRunner.** All theorems rest on the invariant of `TypesHold` (`Typed` and `Staged`: what the thread knows of
  its night at each step, and that an id has at most one order). `RecordedOnceHolds` adds `Owing` and `Inherits`: a
  night in progress, in memory or in runner.json, was entered once more than it was booked. `CappedHolds` bounds
  position and open entry orders by what the leg may still buy and by what has raced the guard: between its requests
  the position asked for and what has filled since make up the position; sums of orders are handled as the trader's.
  `StopLineHoldsHolds` adds `Lined`: past the line, without a crash, the guard is not active where an entry is decided.
  `DoneIsFlatHolds` and `StopCoversHolds` rest on the order of a night's steps (`CalmInv`): which ids can be known at
  which step (`Placed`), so that no order of a leg is answered with an old one, and which orders are open (`Needed`);
  and, without refusals, `Sound`: an entry leg has counted exactly what its orders filled but for `late`, so the stop
  lacks no more than that.
- **Collector.** `Timed` is the types and the backfiller's clock (how far the next sweep and the last poll may be).
  `HolesAreFilledHolds` needs `Sweeps`: for each hole in sight the next sweep comes in time, or it is the last of the
  jobs that run, or the hole has left the window. `OutageIsFilledHolds` needs `Outs`: the last outage is pending, or its
  job failed, or is under way, or has filled what REST had. `AlertsMatchHolds` needs `Alerts`, which ties the alert told
  to the alert believed and to the outages not yet drained.
- **The parts of upkeep**, each by its own specification (`StoreSpec`, `ReconcileSpec`, `WatchSpec`). `RecordsKeptHolds`:
  an unfinished line may cost one record more, or two (`Slack`), and in a file that decodes what is lost plus this slack
  is paid for by the crashes (`StoreInv`). `RowsFollowFileHolds` follows each record from its first write to its row (`FollowInv`): a record is begun
  once, as the stages of the trades show (`Fresh`), so no record is in a file twice (`Whole`, `Busy`); the last put of
  a key, in the queue or with a thread, is the last line of the key or a record that is lost (`PutsFollow`), which
  holds because two threads do not put records of one key at a time, unless it has raced (`Alone`); and where no put
  is under way the row is such a record (`RowsFollow`). A write adds its record to those read, or does not, or costs
  the last of them as well (`Written`). `NoDayForgottenHolds` needs only that the first start lies behind
  (`StartBehind`). `CoverageIsTrueHolds` is about the moments so far (`CoverInv`): the marks in the file are in order
  and, outside the blind moments, cover those at which the process could decide (`InOrder`, `Tells`); a mark on an
  unfinished line has had only blind moments since, so that it may be spoilt (`Loose`); and while every start and end
  has left its line the marks also tell what is to come (`Foresees`), so the next moment is decided as they say.
  `ReleaseIsToldHolds` is inductive as it stands. `MessagesArriveHolds` needs `WatchInv`: a flush that has sent a
  message which was pushed out meanwhile will take away another one, and that one is counted before it goes.

Only model-checked: the liveness properties (fairness is out of the prover's reach); `SymbolEngine` (its reference is a
recursion over the day and the engine folds over lists: induction over data); and `Timetable` (a fold over the calendar's
sessions). Reading a file is a recursion too, but its theorems need no induction over data: a line more, or a spoilt
last line, changes the records read by one step of the recursive function (`RecordsNext`, `SpoiltLines`).

## 7. Not modelled

- Reports, web pages, replay and charts, backtests and research code, the legacy strategy, deployment: they
  compute from finished data, or are not part of the running system.
- REST: weights, back-off times, signatures; a call is its outcomes. JSONL sinks and the fan-out only append.
- pastofi's `AsyncNotifier` (a queue and a thread with two tries) and the texts of messages; the outage alerts and
  the status file of its runner; the comparison of rows and the causes a reconciliation names.
- The engine's branches that `spec_v3.yaml` turns off (auction frames, price limits, future's filters), sizing,
  loading of specifications.
- Sizes that differ between two positions of pastofi (`Qty` is one constant), so a stop of the simulated exchange,
  which keeps its quantity, is as large as a later position; the trader's own read of the signals' file (`trader.py:316`).
- `verify_account`, `fills_since`, `funding_between`, filters and rounding of the real broker; a guard's file
  written by two processes; several symbols on one database.
- The report checks of `integrity.py`, the archive's cache and parsing.
Prices, formats and wording are abstracted everywhere.

## 8. Plan

Done, in the order of what can lose money or data first: the trader with its abstract book, the overnight runner
and calendar, the order book, the sink, engine and feed, the application's gate, the execution layer, the
collector with its back-fill, and the parts of `upkeep`; and the proofs of their safety properties but for those
named at the end of section 6. Open: `AsyncNotifier` with the keyed alerts of the trader.
