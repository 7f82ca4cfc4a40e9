----------------------------- MODULE LiveBroker -----------------------------
(***************************************************************************)
(* The broker of real orders (BinanceFuturesBroker of                      *)
(* src/src/execution/live.py) against the exchange, over the REST client   *)
(* of src/src/exchange/rest.py.                                            *)
(*                                                                         *)
(* The exchange (external) is the list of its orders, conditional ones and *)
(* those they trigger included, and the list of its trades, a unit of      *)
(* quantity each.  An order's place in the list is its exchange id.  The   *)
(* account's trade list shows a trade some time after it was made.  A      *)
(* request is an action; what takes two requests (poll, a market order and *)
(* its fills, cancel_all) is two, with the exchange free in between.       *)
(***************************************************************************)
EXTENDS Integers, Sequences

CONSTANTS
    Cids,           \* bound: client ids
    MaxExecutions,  \* bound: trades on the exchange
    MaxLiveFaults   \* bound: requests that fail, restarts

ASSUME LiveAssumption ==
    /\ "none" \notin Cids
    /\ {MaxExecutions, MaxLiveFaults} \subseteq Nat

VARIABLES
    xorders,    \* the exchange's orders
    xtrades,    \* the exchange's trades, by the order they are of
    visible,    \* how many of them the trade list shows
    tracked,    \* _orders
    names,      \* _by_exchange_id: the exchange ids that have a client id
    fills,      \* _fills: a trade and whether its client id was known
    lastTrade,  \* _last_trade_id
    step,       \* what the broker is in the middle of
    before,     \* open_orders of a cancel_all under way
    lfaults     \* bound

liveVars ==
    <<xorders, xtrades, visible, tracked, names, fills, lastTrade, step, before, lfaults>>
exchange == <<xorders, xtrades, visible>>
broker == <<tracked, names, fills, lastTrade>>

NoOrder == [status |-> "NONE"]
Nothing == -1
LiveTypes == {"MARKET", "LIMIT", "STOP_MARKET"}

\* How a call ends: with an order, or raising OrderRejected or another error.
LiveAnswers == {"order", "rejected", "error"}

XOrder ==
    [cid : Cids \cup {"none"}, type : LiveTypes, side : {"BUY", "SELL"}, qty : Nat,
     reduce : BOOLEAN, filled : Nat, actual : Nat,
     status : {"NEW", "FILLED", "CANCELED", "EXPIRED", "TRIGGERED"}]

LiveTypeOK ==
    /\ xorders \in Seq(XOrder)
    /\ xtrades \in Seq(DOMAIN xorders) /\ Len(xtrades) <= MaxExecutions
    /\ visible \in 0..Len(xtrades)
    /\ \A c \in Cids :
           \/ tracked[c] = NoOrder
           \/ /\ tracked[c].status \in {"NEW", "PARTIALLY_FILLED", "FILLED", "CANCELED",
                                        "EXPIRED", "REJECTED"}
              /\ tracked[c].filled \in 0..MaxExecutions
    /\ names \subseteq DOMAIN xorders
    /\ fills \in Seq([trade : DOMAIN xtrades, named : BOOLEAN])
    /\ lastTrade \in (0..visible) \cup {Nothing}
    /\ step \in {"idle", "market", "poll", "cancel_all"}
    /\ before \subseteq Cids /\ lfaults \in 0..MaxLiveFaults

------------------------------------------------------------------------------
(* The exchange *)

Way(side) == IF side = "BUY" THEN 1 ELSE -1
Room(p, side) == IF (p > 0) # (side = "BUY") THEN (IF p < 0 THEN -p ELSE p) ELSE 0

\* The sum of the first n numbers of a sequence.
Total(f, n) ==
    LET sum[m \in 0..n] == IF m = 0 THEN 0 ELSE sum[m - 1] + f[m] IN sum[n]

\* positionRisk
Position == Total([k \in 1..Len(xtrades) |-> Way(xorders[xtrades[k]].side)], Len(xtrades))

XOpen(x) == x.status = "NEW"
OnBook == {x \in DOMAIN xorders : XOpen(xorders[x])}

Accepted(c, r, status) ==
    Append(xorders, [cid |-> c, type |-> r.type, side |-> r.side, qty |-> r.qty,
                     reduce |-> r.reduce, filled |-> 0, actual |-> 0, status |-> status])

\* n trades of order x
Made(x, n) == xtrades \o [k \in 1..n |-> x]

\* An order of r is taken: a market order is executed at once.
Take(c, r) ==
    LET x == Len(xorders) + 1
    IN  IF r.type = "MARKET"
        THEN /\ Len(xtrades) + r.qty <= MaxExecutions
             /\ xorders' = [Accepted(c, r, "FILLED") EXCEPT ![x].filled = r.qty]
             /\ xtrades' = Made(x, r.qty)
        ELSE /\ xorders' = Accepted(c, r, "NEW")
             /\ UNCHANGED xtrades

\* A market or stop order that must reduce the position, and would not.
Useless(r) == r.reduce /\ r.type # "STOP_MARKET" /\ r.qty > Room(Position, r.side)

\* A resting limit order is executed by one unit, or, having to reduce a
\* position that is gone, expires.
Execute(x) ==
    /\ XOpen(xorders[x]) /\ xorders[x].type = "LIMIT"
    /\ Len(xtrades) < MaxExecutions
    /\ IF xorders[x].reduce /\ Room(Position, xorders[x].side) = 0
       THEN xorders' = [xorders EXCEPT ![x].status = "EXPIRED"] /\ UNCHANGED xtrades
       ELSE /\ xorders' = [xorders EXCEPT ![x].filled = @ + 1,
                               ![x].status = IF xorders[x].filled + 1 = xorders[x].qty
                                             THEN "FILLED" ELSE @]
            /\ xtrades' = Made(x, 1)
    /\ UNCHANGED <<visible, broker, step, before, lfaults>>

\* A stop is triggered: another order, a market order, closes the position.
Trigger(x) ==
    /\ XOpen(xorders[x]) /\ xorders[x].type = "STOP_MARKET"
    /\ LET n == Room(Position, xorders[x].side)
           y == Len(xorders) + 1
           r == [type |-> "MARKET", side |-> xorders[x].side, qty |-> n, reduce |-> TRUE]
       IN  IF n = 0
           THEN xorders' = [xorders EXCEPT ![x].status = "EXPIRED"] /\ UNCHANGED xtrades
           ELSE /\ Len(xtrades) + n <= MaxExecutions
                /\ xorders' = [Accepted("none", r, "FILLED") EXCEPT
                                  ![x].status = "TRIGGERED", ![x].actual = y, ![y].filled = n]
                /\ xtrades' = Made(y, n)
    /\ UNCHANGED <<visible, broker, step, before, lfaults>>

Appear ==
    /\ visible < Len(xtrades)
    /\ visible' = visible + 1
    /\ UNCHANGED <<xorders, xtrades, broker, step, before, lfaults>>

Exchange == Appear \/ \E x \in DOMAIN xorders : Execute(x) \/ Trigger(x)

------------------------------------------------------------------------------
(* What the broker keeps *)

LiveOpen(c) == tracked[c].status \in {"NEW", "PARTIALLY_FILLED"}

\* The exchange's order of a client id: the last one it took.
Of(c, xs) == IF \E x \in DOMAIN xs : xs[x].cid = c
             THEN CHOOSE x \in DOMAIN xs :
                      xs[x].cid = c /\ \A y \in DOMAIN xs : xs[y].cid = c => y <= x
             ELSE 0

\* _ALGO_STATUS and Status(...): a triggered stop counts as filled.
StatusOf(x) ==
    IF x.status = "TRIGGERED" THEN "FILLED"
    ELSE IF x.status = "NEW" /\ x.filled > 0 THEN "PARTIALLY_FILLED" ELSE x.status

\* _apply and _apply_algo on order c as it was, from the exchange's orders xs.
Applied(o, x, xs) ==
    [type |-> x.type, side |-> x.side, qty |-> x.qty, reduce |-> x.reduce,
     placed |-> o.placed, status |-> StatusOf(x),
     filled |-> IF x.type # "STOP_MARKET" THEN x.filled
                ELSE IF x.actual # 0 THEN xs[x.actual].filled ELSE o.filled]

\* The exchange ids _apply and _apply_algo learn: an order's own, or that of the
\* order a stop triggered.
Named(x, xs) ==
    IF xs[x].type # "STOP_MARKET" THEN {x}
    ELSE IF xs[x].actual # 0 THEN {xs[x].actual} ELSE {}

\* A tracked order before its first answer; placed is how many trades there were.
Blank(r, placed) ==
    [type |-> r.type, side |-> r.side, qty |-> r.qty, reduce |-> r.reduce,
     placed |-> placed, status |-> "NEW", filled |-> 0]

\* Track and refresh the orders of C, all of them on the exchange.
Refreshed(C, xs) ==
    [c \in Cids |->
        IF c \in C
        THEN LET x == xs[Of(c, xs)]
             IN  Applied(IF tracked[c] = NoOrder THEN Blank(x, Nothing) ELSE tracked[c], x, xs)
        ELSE tracked[c]]
Learned(C, xs) == names \cup UNION {Named(Of(c, xs), xs) : c \in C}

Fault == lfaults < MaxLiveFaults /\ lfaults' = lfaults + 1

------------------------------------------------------------------------------
(* Orders *)

\* An id is free when this process has no order of it; one that a process before
\* it used may be used again.  The callers ask for the open orders when they
\* start, so that none of an untracked id is on the book.
Free(c) == step = "idle" /\ tracked[c] = NoOrder /\ \A x \in OnBook : xorders[x].cid # c

\* The order c of request r is tracked from what the exchange has; a market
\* order then waits for its fills.
Placed(c, r) ==
    /\ tracked' = [tracked EXCEPT ![c] =
           Applied(Blank(r, Len(xtrades)), xorders'[Of(c, xorders')], xorders')]
    /\ names' = names \cup Named(Of(c, xorders'), xorders')
    /\ step' = IF r.type = "MARKET" THEN "market" ELSE "idle"
    /\ UNCHANGED <<fills, lastTrade>>

\* The exchange takes it and says so.  A call that waits has no answer yet.
Post(c, r, answer) ==
    /\ Free(c) /\ ~Useless(r)
    /\ Take(c, r) /\ Placed(c, r)
    /\ answer = (IF r.type = "MARKET" THEN "waits" ELSE "order")
    /\ UNCHANGED <<visible, before, lfaults>>

\* A code of _EXPIRE_CODES: an order that expired.
PostExpires(c, r, answer) ==
    /\ Free(c) /\ (Useless(r) \/ r.type = "LIMIT")
    /\ answer = "order"
    /\ tracked' = [tracked EXCEPT ![c] = [Blank(r, Len(xtrades)) EXCEPT !.status = "EXPIRED"]]
    /\ UNCHANGED <<exchange, names, fills, lastTrade, step, before, lfaults>>

\* _reject: another 4xx.
PostRejected(c, r, answer) ==
    /\ Free(c) /\ Fault
    /\ answer = "rejected"
    /\ tracked' = [tracked EXCEPT ![c] = [Blank(r, Len(xtrades)) EXCEPT !.status = "REJECTED"]]
    /\ UNCHANGED <<exchange, names, fills, lastTrade, step, before>>

\* No answer, and the order was taken: _recover asks for it by its client id,
\* unless that fails too.
PostLost(c, r, answer) ==
    /\ Free(c) /\ ~Useless(r) /\ Fault
    /\ Take(c, r)
    /\ \/ Placed(c, r) /\ answer = (IF r.type = "MARKET" THEN "waits" ELSE "order")
       \/ UNCHANGED <<broker, step>> /\ answer = "error"
    /\ UNCHANGED <<visible, before>>

\* No answer, and no order: _recover finds that out, unless it fails too.
PostNowhere(c, r, answer) ==
    /\ Free(c) /\ Fault
    /\ answer \in {"rejected", "error"}
    /\ UNCHANGED <<exchange, broker, step, before>>

LivePlace(c, r, answer) ==
    \/ Post(c, r, answer) \/ PostExpires(c, r, answer) \/ PostRejected(c, r, answer)
    \/ PostLost(c, r, answer) \/ PostNowhere(c, r, answer)

\* A call with an id that is tracked.
LiveRepeat(c, answer) ==
    /\ step = "idle" /\ tracked[c] # NoOrder
    /\ answer = (IF tracked[c].status = "REJECTED" THEN "rejected" ELSE "order")
    /\ UNCHANGED liveVars

------------------------------------------------------------------------------
(* _pull_trades: the end of a market order and of poll *)

\* With no trade seen yet: from the first order placed, and a second before it.
Start ==
    LET placed == {tracked[c].placed : c \in {d \in Cids : tracked[d] # NoOrder}} \ {Nothing}
        first == CHOOSE p \in placed \cup {Len(xtrades)} :
                     \A q \in placed \cup {Len(xtrades)} : placed = {} \/ p <= q
    IN  {first, first - 1} \cap Nat

\* Mutant of From: the last trade seen is asked for again.
FromAgain == IF lastTrade = Nothing THEN Start ELSE {lastTrade - 1} \cap Nat

\* How many trades the request leaves out.
From == IF lastTrade = Nothing THEN Start ELSE {lastTrade}

\* The trades from one on are appended, each named as far as is known, and the
\* orders they are of take their quantities (_sync_from_fills).
Pulled(from) ==
    LET new == [k \in 1..(visible - from) |->
                   [trade |-> from + k, named |-> xtrades[from + k] \in names]]
        all == fills \o new
        Sum(c) == Len(SelectSeq(all, LAMBDA f :
                      f.named /\ (xorders[xtrades[f.trade]].cid = c
                                  \/ (Of(c, xorders) # 0
                                      /\ xorders[Of(c, xorders)].actual = xtrades[f.trade]))))
        touched == {c \in Cids : tracked[c] # NoOrder /\ Sum(c) > tracked[c].filled}
    IN  /\ fills' = all
        /\ lastTrade' = IF from < visible THEN visible ELSE lastTrade
        /\ tracked' = [c \in Cids |-> IF c \in touched
                                      THEN [tracked[c] EXCEPT !.filled = Sum(c)] ELSE tracked[c]]
        /\ UNCHANGED names

\* The fills that the list shows by now, or an error (a market order asks up to
\* ten times, so some may be in); the caller's answer.
Pull(answer) ==
    /\ step \in {"market", "poll"}
    /\ \/ answer = "order" /\ (\E from \in From : Pulled(from)) /\ UNCHANGED lfaults
       \/ /\ answer = "error" /\ Fault
          /\ UNCHANGED broker \/ (step = "market" /\ \E from \in From : Pulled(from))
    /\ step' = "idle"
    /\ UNCHANGED <<exchange, before>>

\* poll: the state of each open order, all of them or, when a request fails,
\* some, and then the trades.
PollOrders ==
    /\ step = "idle"
    /\ LET open == {c \in Cids : tracked[c] # NoOrder /\ LiveOpen(c)}
       IN  \E C \in SUBSET open :
              /\ tracked' = Refreshed(C, xorders) /\ names' = Learned(C, xorders)
              /\ IF C = open THEN step' = "poll" /\ UNCHANGED lfaults
                             ELSE Fault /\ UNCHANGED step
    /\ UNCHANGED <<exchange, fills, lastTrade, before>>

------------------------------------------------------------------------------
(* Cancelling *)

XCancel(X) == xorders' = [x \in DOMAIN xorders |->
                  IF x \in X THEN [xorders[x] EXCEPT !.status = "CANCELED"] ELSE xorders[x]]

\* cancel: done, or done and the answer lost (then the client's repeated DELETE
\* finds no order), or not done.
LiveCancel(c) ==
    /\ step = "idle" /\ tracked[c] # NoOrder
    /\ LET x == Of(c, xorders)
       IN  /\ x \in OnBook
           /\ \/ /\ XCancel({x})
                 /\ tracked' = [tracked EXCEPT ![c] = Applied(@, xorders'[x], xorders')]
                 /\ UNCHANGED lfaults
              \/ XCancel({x}) /\ Fault /\ UNCHANGED tracked
    /\ UNCHANGED <<xtrades, visible, names, fills, lastTrade, step, before>>

\* openOrders and openAlgoOrders: what is on the book is tracked from now on.
OnBookCids == {xorders[x].cid : x \in OnBook}
OpenOrders ==
    /\ tracked' = Refreshed(OnBookCids, xorders) /\ names' = Learned(OnBookCids, xorders)
    /\ UNCHANGED <<fills, lastTrade>>

\* cancel_all reads the open orders ...
CancelAllBegin ==
    /\ step = "idle" /\ OnBook # {}
    /\ OpenOrders
    /\ before' = OnBookCids /\ step' = "cancel_all"
    /\ UNCHANGED <<exchange, lfaults>>

\* Mutant of CancelAllEnd: only the orders of the book are cancelled, not the
\* conditional ones.
CancelAllEndBookOnly ==
    /\ step = "cancel_all"
    /\ XCancel({x \in OnBook : xorders[x].type # "STOP_MARKET"})
    /\ tracked' = [c \in Cids |-> IF c \in before THEN [tracked[c] EXCEPT !.status = "CANCELED"]
                                                  ELSE tracked[c]]
    /\ step' = "idle" /\ before' = {}
    /\ UNCHANGED <<xtrades, visible, names, fills, lastTrade, lfaults>>

\* ... and then cancels whatever is on the book and calls those it read
\* cancelled, or fails at either request.
CancelAllEnd ==
    /\ step = "cancel_all"
    /\ \/ /\ XCancel(OnBook)
          /\ tracked' = [c \in Cids |-> IF c \in before
                                        THEN [tracked[c] EXCEPT !.status = "CANCELED"]
                                        ELSE tracked[c]]
          /\ UNCHANGED lfaults
       \/ /\ Fault /\ UNCHANGED tracked
          /\ \/ UNCHANGED xorders
             \/ XCancel({x \in OnBook : xorders[x].type # "STOP_MARKET"})
    /\ step' = "idle" /\ before' = {}
    /\ UNCHANGED <<xtrades, visible, names, fills, lastTrade>>

------------------------------------------------------------------------------

\* The process starts again with nothing but the exchange's state.
LiveRestart ==
    /\ Fault
    /\ tracked' = [c \in Cids |-> NoOrder] /\ names' = {} /\ fills' = <<>>
    /\ lastTrade' = Nothing /\ step' = "idle" /\ before' = {}
    /\ UNCHANGED exchange

LiveInit ==
    /\ xorders = <<>> /\ xtrades = <<>> /\ visible = 0
    /\ tracked = [c \in Cids |-> NoOrder] /\ names = {} /\ fills = <<>>
    /\ lastTrade = Nothing /\ step = "idle" /\ before = {} /\ lfaults = 0

------------------------------------------------------------------------------

\* No fill is lost or taken twice: the fills are the exchange's trades from some
\* trade on, one after the other, up to the last one asked for.
FillsAreTrades ==
    /\ \A k \in 1..(Len(fills) - 1) : fills[k + 1].trade = fills[k].trade + 1
    /\ fills # <<>> => fills[Len(fills)].trade = lastTrade

\* What the broker takes for closed is closed: no order it no longer polls is
\* still on the exchange's book.
ClosedIsClosed ==
    \A c \in Cids :
        tracked[c] # NoOrder /\ ~LiveOpen(c) => c \notin OnBookCids

\* The trade of a stop the broker tracks is a fill of that stop (live.py:349).
StopFillsNamed ==
    \A k \in DOMAIN fills : \A c \in Cids :
        LET x == Of(c, xorders)
        IN  tracked[c] # NoOrder /\ x # 0 /\ xorders[x].actual = xtrades[fills[k].trade]
            => fills[k].named
==============================================================================
