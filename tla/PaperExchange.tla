--------------------------- MODULE PaperExchange ---------------------------
(***************************************************************************)
(* The simulated exchange (src/src/execution/paper.py) on the market the   *)
(* collector writes into the database (src/src/execution/market.py).       *)
(*                                                                         *)
(* The market is the list of its trades; a trade's place in it is its time *)
(* and its id.  The database shows a first part of it.  The book is one    *)
(* choice at a time: fresh or stale, and on which side of an order's price *)
(* it lies.  Orders fill whole, as in the code, and their ids are the      *)
(* order they were given in, which is the order the code's dict keeps.     *)
(* A call is an action that says how it ends for the caller: poll is one   *)
(* step per trade and order, because each fill is saved on its own and the *)
(* process may die or the book go stale between two of them.               *)
(***************************************************************************)
EXTENDS Integers, Sequences

CONSTANTS
    Prices,        \* bound: prices of trades and orders
    Quantities,    \* bound: quantities of orders
    MaxTrades,     \* bound: trades of the market
    MaxOrders,     \* bound: orders given
    MaxPaperFaults \* bound: stale readings and deaths of the process

ASSUME PaperAssumption ==
    /\ Prices \subseteq Nat \ {0} /\ Quantities \subseteq Nat \ {0}
    /\ {MaxTrades, MaxOrders, MaxPaperFaults} \subseteq Nat

None == -1
Types == {"MARKET", "LIMIT", "STOP_MARKET"}
Sides == {"BUY", "SELL"}
Statuses == {"NEW", "FILLED", "CANCELED", "EXPIRED", "REJECTED"}

\* How a call ends: with an order (rejected or not), or by raising
\* StaleMarketData.
Answers == {"order", "rejected", "stale"}

Request ==
    [type : Types, side : Sides, qty : Quantities, px : Prices, reduce : BOOLEAN]

Order ==
    [type : Types, side : Sides, qty : Quantities, px : Prices, reduce : BOOLEAN,
     status : Statuses, placed : 0..MaxTrades]

VARIABLES
    tape,     \* prices of the trades of the market
    shown,    \* how many of them the database has
    orders,   \* _orders
    pos,      \* _pos.qty
    cursor,   \* _last_agg and _last_ts: the last trade looked at
    poll,     \* a poll under way: the trades it read, the orders still to look
              \* at for the trade at the cursor
    disk,     \* the state file
    skipped,  \* orders at which a poll ended early, by an error or a death
    pfaults   \* bound

paperVars == <<tape, shown, orders, pos, cursor, poll, disk, skipped, pfaults>>

Idle == [on |-> FALSE, at |-> 0, upto |-> 0, todo |-> {}]

PaperTypeOK ==
    /\ tape \in Seq(Prices) /\ Len(tape) <= MaxTrades /\ shown \in 0..Len(tape)
    /\ orders \in Seq(Order) /\ Len(orders) <= MaxOrders
    /\ pos \in Int /\ cursor \in (0..Len(tape)) \cup {None}
    /\ poll.on \in BOOLEAN /\ poll.at \in 0..shown /\ poll.upto \in 0..shown
    /\ poll.todo \subseteq {i \in DOMAIN orders : orders[i].status = "NEW"}
    /\ ~poll.on => poll = Idle
    /\ disk \in [orders : Seq(Order), pos : Int, cursor : (0..Len(tape)) \cup {None}]
    /\ skipped \subseteq 1..MaxOrders /\ pfaults \in 0..MaxPaperFaults

------------------------------------------------------------------------------

Open(i) == orders[i].status = "NEW"
Resting == {i \in DOMAIN orders : Open(i)}
Sign(side) == IF side = "BUY" THEN 1 ELSE -1
Size(q) == IF q < 0 THEN -q ELSE q

Reduces(p, side, q) == p # 0 /\ (p > 0) # (side = "BUY") /\ q <= Size(p)

ReduceOk(o) == ~o.reduce \/ Reduces(pos, o.side, o.qty)

\* _new: the order is registered, whatever becomes of the call.
New(r) ==
    [type |-> r.type, side |-> r.side, qty |-> r.qty, px |-> r.px, reduce |-> r.reduce,
     status |-> "NEW", placed |-> Len(tape)]

\* _save: one file, replaced whole.
Save == disk' = [orders |-> orders', pos |-> pos', cursor |-> cursor']

Registered(r, status) == orders' = Append(orders, [New(r) EXCEPT !.status = status])
Becomes(i, status) == orders' = [orders EXCEPT ![i].status = status]

\* Mutant of ResetCursor: every order that rests moves the cursor to its time.
ResetCursorAlways == cursor' = Len(tape)

\* _reset_cursor: the first order that rests moves the cursor to its time.
ResetCursor == cursor' = IF Resting = {} THEN Len(tape) ELSE cursor

StaleBook == pfaults < MaxPaperFaults /\ pfaults' = pfaults + 1

Calm == ~poll.on /\ Len(orders) < MaxOrders

\* A limit or market order that would not reduce the position, though it must.
PlaceUseless(r, answer) ==
    /\ Calm /\ r.type # "STOP_MARKET" /\ ~ReduceOk(New(r))
    /\ answer = "order" /\ Registered(r, "EXPIRED")
    /\ UNCHANGED <<tape, shown, pos, cursor, poll, skipped, pfaults>> /\ Save

\* place_market on a fresh book.
PlaceMarket(r, answer) ==
    /\ Calm /\ r.type = "MARKET" /\ ReduceOk(New(r))
    /\ answer = "order" /\ Registered(r, "FILLED")
    /\ pos' = pos + Sign(r.side) * r.qty
    /\ UNCHANGED <<tape, shown, cursor, poll, skipped, pfaults>> /\ Save

\* place_limit_gtx on a fresh book: it rests, or it would have filled at once.
PlaceLimit(r, answer) ==
    /\ Calm /\ r.type = "LIMIT" /\ ReduceOk(New(r))
    /\ answer = "order"
    /\ \/ Registered(r, "EXPIRED") /\ UNCHANGED cursor
       \/ Registered(r, "NEW") /\ ResetCursor
    /\ UNCHANGED <<tape, shown, pos, poll, skipped, pfaults>> /\ Save

Passed(side, last, stop) == IF side = "SELL" THEN last <= stop ELSE last >= stop

\* place_stop_market: it rests, unless the last trade has passed its price.
PlaceStop(r, answer) ==
    /\ Calm /\ r.type = "STOP_MARKET" /\ shown > 0
    /\ IF Passed(r.side, tape[shown], r.px)
       THEN answer = "rejected" /\ Registered(r, "REJECTED") /\ UNCHANGED cursor
       ELSE answer = "order" /\ Registered(r, "NEW") /\ ResetCursor
    /\ UNCHANGED <<tape, shown, pos, poll, skipped, pfaults>> /\ Save

\* Any of the three when the market is stale: the order is registered, neither
\* filled nor saved, and the caller gets an error.
PlaceStale(r, answer) ==
    /\ Calm /\ (r.type # "STOP_MARKET" => ReduceOk(New(r)))
    /\ StaleBook \/ (r.type = "STOP_MARKET" /\ shown = 0 /\ UNCHANGED pfaults)
    /\ answer = "stale" /\ Registered(r, "NEW")
    /\ UNCHANGED <<tape, shown, pos, cursor, poll, disk, skipped>>

PaperPlace(r, answer) ==
    \/ PlaceUseless(r, answer) \/ PlaceMarket(r, answer) \/ PlaceLimit(r, answer)
    \/ PlaceStop(r, answer) \/ PlaceStale(r, answer)

\* A call with an id that is taken: the order it has, and nothing else.
PaperRepeat(i, answer) ==
    /\ ~poll.on /\ i \in DOMAIN orders
    /\ answer = (IF orders[i].status = "REJECTED" THEN "rejected" ELSE "order")
    /\ UNCHANGED paperVars

\* cancel; cancel_all is cancel for each order that rests.
PaperCancel(i) ==
    /\ ~poll.on /\ i \in Resting
    /\ Becomes(i, "CANCELED")
    /\ UNCHANGED <<tape, shown, pos, cursor, poll, skipped, pfaults>> /\ Save

------------------------------------------------------------------------------
(* poll *)

Earliest == CHOOSE p \in {orders[i].placed : i \in Resting} :
                \A i \in Resting : p <= orders[i].placed

\* trades_after: the trades shown after the cursor, or after the first order.
Since == IF cursor = None THEN Earliest ELSE cursor

PollBegin ==
    /\ ~poll.on /\ Resting # {} /\ Since < shown
    /\ poll' = [on |-> TRUE, at |-> Since, upto |-> shown, todo |-> {}]
    /\ UNCHANGED <<tape, shown, orders, pos, cursor, disk, skipped, pfaults>>

\* No trade is new: the file is written all the same.
PollNothing ==
    /\ ~poll.on /\ Resting # {} /\ Since >= shown
    /\ UNCHANGED <<tape, shown, orders, pos, cursor, poll, skipped, pfaults>> /\ Save

\* Whether trade t executes an order: through a limit, to a stop.
Hits(o, t) ==
    \/ o.type = "LIMIT" /\ (IF o.side = "BUY" THEN tape[t] < o.px ELSE tape[t] > o.px)
    \/ o.type = "STOP_MARKET" /\ Passed(o.side, tape[t], o.px)

\* The next trade; the orders it does not hit are looked at without effect.
PollNext ==
    /\ poll.on /\ poll.todo = {} /\ poll.at < poll.upto
    /\ cursor' = poll.at + 1
    /\ poll' = [poll EXCEPT !.at = @ + 1,
                            !.todo = {i \in Resting : orders[i].placed < poll.at + 1
                                                      /\ Hits(orders[i], poll.at + 1)}]
    /\ UNCHANGED <<tape, shown, orders, pos, disk, skipped, pfaults>>

Turn(i) ==
    /\ poll.on /\ i \in poll.todo /\ \A k \in poll.todo : i <= k
    /\ poll' = [poll EXCEPT !.todo = @ \ {i}]

PollExpire(i) ==
    /\ Turn(i) /\ ~ReduceOk(orders[i])
    /\ Becomes(i, "EXPIRED")
    /\ UNCHANGED <<tape, shown, pos, cursor, skipped, pfaults>> /\ Save

\* _record_fill, of a limit or, on a fresh book, of a stop.
PollFill(i) ==
    /\ Turn(i) /\ ReduceOk(orders[i])
    /\ Becomes(i, "FILLED")
    /\ pos' = pos + Sign(orders[i].side) * orders[i].qty
    /\ UNCHANGED <<tape, shown, cursor, skipped, pfaults>> /\ Save

\* A stop that is hit while the book is stale: poll ends there, and the file
\* is not written.
PollStale(i) ==
    /\ poll.on /\ i \in poll.todo /\ \A k \in poll.todo : i <= k
    /\ orders[i].type = "STOP_MARKET" /\ ReduceOk(orders[i])
    /\ StaleBook
    /\ poll' = Idle /\ skipped' = skipped \cup poll.todo
    /\ UNCHANGED <<tape, shown, orders, pos, cursor, disk>>

PollEnd ==
    /\ poll.on /\ poll.todo = {} /\ poll.at = poll.upto
    /\ poll' = Idle
    /\ UNCHANGED <<tape, shown, orders, pos, cursor, skipped, pfaults>> /\ Save

PaperPoll ==
    \/ PollBegin \/ PollNothing \/ PollNext \/ PollEnd
    \/ \E i \in poll.todo : PollExpire(i) \/ PollFill(i) \/ PollStale(i)

------------------------------------------------------------------------------

\* The process dies and starts again: _load.
PaperRestart ==
    /\ pfaults < MaxPaperFaults /\ pfaults' = pfaults + 1
    /\ orders' = disk.orders /\ pos' = disk.pos /\ cursor' = disk.cursor
    /\ poll' = Idle
    /\ skipped' = (skipped \cup (IF disk.cursor = cursor THEN poll.todo ELSE {}))
                      \cap DOMAIN disk.orders
    /\ UNCHANGED <<tape, shown, disk>>

\* The market, and the collector behind it.
Trade(px) ==
    /\ Len(tape) < MaxTrades
    /\ tape' = Append(tape, px)
    /\ UNCHANGED <<shown, orders, pos, cursor, poll, disk, skipped, pfaults>>

Show ==
    /\ shown < Len(tape)
    /\ shown' = shown + 1
    /\ UNCHANGED <<tape, orders, pos, cursor, poll, disk, skipped, pfaults>>

Market == Show \/ \E px \in Prices : Trade(px)

PaperInit ==
    /\ tape = <<>> /\ shown = 0 /\ orders = <<>> /\ pos = 0 /\ cursor = None
    /\ poll = Idle /\ skipped = {} /\ pfaults = 0
    /\ disk = [orders |-> <<>>, pos |-> 0, cursor |-> None]

------------------------------------------------------------------------------

\* The trades an order has been passed by: those the cursor is beyond, but the
\* one a poll is looking at.
Behind(i) ==
    {t \in DOMAIN tape : orders[i].placed < t /\ t <= cursor
                         /\ ~(t = poll.at /\ i \in poll.todo)}

\* A trade through a resting order executes it: the cursor that all orders
\* share, reset, kept over restarts and read again, moves past no trade that
\* hits an order which then still rests.  Orders at which a poll broke off are
\* left out.
NoTradePassed ==
    \A i \in Resting \ skipped : \A t \in Behind(i) : ~Hits(orders[i], t)
==============================================================================
