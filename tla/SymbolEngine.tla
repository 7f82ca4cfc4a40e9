----------------------------- MODULE SymbolEngine -----------------------------
(***************************************************************************)
(* One symbol's signal engine and its feed for one UTC day                 *)
(* (src/src/strategies/pastofi_crypto/engine.py, feed.py).  The feed gets  *)
(* tops of the book and trades by exchange time, and a tick(T) which       *)
(* decides second T on data up to T - Guard; the tick comes after T, so    *)
(* quotes later than T may be in already, and it may be behind by seconds. *)
(*                                                                         *)
(* Prices and sizes are small numbers and thresholds differences of prices *)
(* for ratios of them.  The feed gives the engine each top as the stock's  *)
(* and as the future's quote, continuous and in session, with both sides;  *)
(* the specification (spec_v3.yaml) turns the limit, the filters and the   *)
(* auction rule off: those branches are never taken and are left out, and  *)
(* with them the wait for a missing side.  A day is an object of its own.  *)
(***************************************************************************)
EXTENDS Integers, Sequences, FiniteSets, SequencesExt

CONSTANTS
    Tops,          \* tops of the book: [b, bq, a, aq]
    Sizes,         \* sizes of trades
    Guard, MoveWin, OfiWin, VolWin, Hold,   \* Params
    Move, TakeProfit, StopLoss,             \* Params, as differences of prices
    Day,           \* seconds of a day, session_close
    Keep, KeepMore, Period,   \* _prune: _KEEP_SEC, 100 and 60
    Reported,      \* feed: the logic whose entries and exits are reported
    MaxQuotes,              \* bound: quotes, one a second
    TradeSecs,              \* bound: the seconds in which a trade happens
    MaxLag, MaxLate         \* bounds: seconds a tick is behind, a trade is late

Logics == {1, 2}

ASSUME EngineAssumption ==
    /\ Guard \in Nat \ {0} /\ Hold \in Nat \ {0} /\ Day \in Nat \ {0}
    /\ MoveWin \in Nat /\ OfiWin \in Nat \ {0} /\ VolWin \in Nat \ {0}
    /\ Period \in Nat \ {0} /\ KeepMore \in Nat
    /\ Keep >= Guard + OfiWin + VolWin /\ Keep >= Guard + MoveWin
    /\ Reported \in Logics /\ MaxLag \in Nat /\ MaxLate \in Nat /\ TradeSecs \subseteq 0..(Day - 1)

VARIABLES
    now,        \* exchange time
    quotes,     \* history: every quote the engine accepted, in the order of arrival
    eng,        \* SymbolEngine, made by the first quote
    pend,       \* trades not yet passed on: second -> size (pending_trades, then trades)
    told,       \* _DayState.pos_tsig
    emitted,    \* _DayState.n_trades
    ticked,     \* the clock loop's last second
    finished,   \* the day is in SymbolFeed.finished
    out,        \* history: the calls of on_entry and on_exit
    arrived,    \* history: every trade that came: second -> size
    late        \* history: data came after the decision that needed it

inputs == <<now, quotes, pend, arrived, late>>
vars == <<inputs, eng, told, emitted, ticked, finished, out>>

-----------------------------------------------------------------------------
(* The engine: the position of each logic and the second from which it may   *)
(* enter again, the trades, the last second decided, and the lists.  cut     *)
(* quotes are deleted from the front of _ts, _bid, ..., _xask (the same in   *)
(* all, as each gets every quote); vol is _vsec with _vcum.                  *)
None == -1
Flat == [sig |-> None, tin |-> None, pin |-> 0, due |-> None]
NewEngine == [pos |-> [l \in Logics |-> Flat], free |-> [l \in Logics |-> None],
              trades |-> <<>>, cut |-> 0, vol |-> <<>>, last |-> -1]

Kept(e) == SubSeq(quotes, e.cut + 1, Len(quotes))
AllFlat(e) == \A l \in Logics : e.pos[l] = Flat
\* bisect_right: the number of entries at or before x, of a list in order of time.
UpTo(times, x) == Cardinality({i \in DOMAIN times : times[i] <= x})
QuoteAt(q, x) == UpTo([i \in DOMAIN q |-> q[i].ts], x)
SecsUpTo(vol, x) == UpTo([i \in DOMAIN vol |-> vol[i].sec], x)
VolUpTo(vol, x) == LET i == SecsUpTo(vol, x) IN IF i = 0 THEN 0 ELSE vol[i].cum
Mid2(x) == x.b + x.a

\* The order flow of quote x after quote w.
Flow(w, x) ==
    LET ofb == IF x.b > w.b THEN x.bq ELSE IF x.b = w.b THEN x.bq - w.bq ELSE -w.bq
        ofa == IF x.a > w.a THEN -w.aq ELSE IF x.a = w.a THEN x.aq - w.aq ELSE x.aq
    IN ofb - ofa

\* Long enough after the start of the day for every window.
Warm(T) == T - Guard - OfiWin - VolWin >= 0 /\ T - Guard - MoveWin >= 0
\* The flow per minute's volume (OfiWin is the minute) beyond 0.5, against the move.
Fades(l, past, ofi, vol) ==
    /\ vol > 0
    /\ IF l = 1 THEN past >= 2 * Move /\ 2 * ofi * VolWin < -(vol * OfiWin)
                ELSE past <= -2 * Move /\ 2 * ofi * VolWin > vol * OfiWin

\* _features and the test of a logic in _second.
Signal(q, vol, T, l) ==
    LET c == T - Guard
        ia == QuoteAt(q, c - MoveWin)
        ib == QuoteAt(q, c)
        io == QuoteAt(q, c - OfiWin)
    IN /\ Warm(T) /\ ia > 0 /\ ib > 0
       /\ Fades(l, Mid2(q[ib]) - Mid2(q[ia]),
                q[ib].cum - (IF io > 0 THEN q[io].cum ELSE 0),
                VolUpTo(vol, c - OfiWin) - VolUpTo(vol, c - OfiWin - VolWin))

-----------------------------------------------------------------------------
(* Positions. *)
ExitPrice(l, x) == IF l = 1 THEN x.a ELSE x.b
EntryPrice(l, x) == IF l = 1 THEN x.b ELSE x.a
Gain(l, p, x) == IF l = 1 THEN p.pin - x.a ELSE x.b - p.pin

\* _check_exit: quote x closes position p.
Touches(l, p, x) ==
    /\ x.ts > p.tin /\ x.ts <= p.due
    /\ Gain(l, p, x) >= TakeProfit \/ Gain(l, p, x) <= -StopLoss

Close(e, l, x) ==
    [e EXCEPT !.trades = Append(@, [logic |-> l, sig |-> e.pos[l].sig, tin |-> e.pos[l].tin,
                                    tout |-> x.ts, pout |-> ExitPrice(l, x)]),
              !.pos[l] = Flat, !.free[l] = x.ts]

\* on_fut_quote: the newest quote is tried on every position.
TryExits(e, x) ==
    FoldLeft(LAMBDA f, l : IF f.pos[l] # Flat /\ Touches(l, f.pos[l], x) THEN Close(f, l, x)
                           ELSE f,
             e, <<1, 2>>)

\* The time limit: the last quote at or before the second.
AtLimit(p, s) == p # Flat /\ p.due = s
TimeExits(e, s) ==
    FoldLeft(LAMBDA f, l :
                IF AtLimit(f.pos[l], s)
                THEN Close(f, l, Kept(f)[QuoteAt(Kept(f), s)]) ELSE f,
             e, <<1, 2>>)

\* Quotes that came before the decision and are later than it are tried at once.
TryEarlier(e, l) ==
    LET q == Kept(e)
        hits == {i \in DOMAIN q : Touches(l, e.pos[l], q[i])}
    IN IF hits = {} THEN e ELSE Close(e, l, q[Min(hits)])

Enter(e, s, l) ==
    LET x == Kept(e)[QuoteAt(Kept(e), s)]
    IN TryEarlier([e EXCEPT !.pos[l] = [sig |-> s, tin |-> x.ts, pin |-> EntryPrice(l, x),
                                        due |-> s + Hold]], l)

Decide(e, s) ==
    FoldLeft(LAMBDA f, l :
                IF f.pos[l] = Flat /\ s >= f.free[l] /\ Signal(Kept(f), f.vol, s, l)
                THEN Enter(f, s, l) ELSE f,
             e, <<1, 2>>)

\* How many of n entries at or before a limit go: one stays, it is the state at the limit.
\* Mutant of Surplus: that one goes as well.
SurplusAll(n) == n
Surplus(n) == IF n > 0 THEN n - 1 ELSE 0

Prune(e, s) ==
    LET k == Surplus(QuoteAt(Kept(e), s - Keep))
        v == Surplus(SecsUpTo(e.vol, s - Keep - KeepMore))
    IN IF s % Period # 0 THEN e
       ELSE [e EXCEPT !.cut = IF AllFlat(e) THEN @ + k ELSE @,
                      !.vol = SubSeq(@, v + 1, Len(@))]

\* entry_end is session_close - hold.
Second(e, s) ==
    LET timed == TimeExits(e, s)
    IN Prune(IF s + Hold < Day THEN Decide(timed, s) ELSE timed, s)

Advance(e, T) ==
    [FoldLeft(Second, e, [i \in 1..(T - e.last) |-> e.last + i])
        EXCEPT !.last = IF T > @ THEN T ELSE @]

\* on_trade: a second known already, a new one, or one to be put between.
AddTrade(vol, sec, qty) ==
    LET n == SecsUpTo(vol, sec)
        before == SubSeq(vol, 1, n)
        known == n > 0 /\ vol[n].sec = sec
        base == IF n > 0 THEN vol[n].cum ELSE 0
        more == [i \in 1..(Len(vol) - n) |-> [vol[n + i] EXCEPT !.cum = @ + qty]]
    IN IF known THEN SubSeq(vol, 1, n - 1) \o <<[sec |-> sec, cum |-> base + qty]>> \o more
       ELSE before \o <<[sec |-> sec, cum |-> base + qty]>> \o more

-----------------------------------------------------------------------------
(* The feed. *)
Started == quotes # <<>>
Due(T) == {s \in DOMAIN pend : s <= T - 1}

\* Mutant of CallsFor: the entry of a trade that began and ended in one call is left out.
CallsForExit(t, known) == <<<<"exit", t.sig>>>>
CallsFor(t, known) ==
    (IF known = t.sig THEN <<>> ELSE <<<<"entry", t.sig>>>>) \o <<<<"exit", t.sig>>>>

\* _emit: the calls for the trades since the last time, and for the position.
Emitted(e) ==
    LET new == SelectSeq(SubSeq(e.trades, emitted + 1, Len(e.trades)),
                         LAMBDA t : t.logic = Reported)
        done == FoldLeft(LAMBDA a, t : [told |-> None, out |-> a.out \o CallsFor(t, a.told)],
                         [told |-> told, out |-> out], new)
        sig == e.pos[Reported].sig
    IN IF sig \in {None, done.told} THEN done
       ELSE [told |-> sig, out |-> Append(done.out, <<"entry", sig>>)]

Emit(e) ==
    /\ eng' = e
    /\ told' = Emitted(e).told
    /\ out' = Emitted(e).out
    /\ emitted' = Len(e.trades)

-----------------------------------------------------------------------------
Init ==
    /\ now = 0 /\ quotes = <<>> /\ eng = NewEngine
    /\ pend = <<>> /\ told = None /\ emitted = 0 /\ ticked = -1
    /\ finished = FALSE /\ out = <<>> /\ arrived = <<>> /\ late = FALSE

\* The exchange's clock; the clock loop is not more than MaxLag behind.
Pass ==
    /\ now < Day /\ now - ticked <= MaxLag
    /\ now' = now + 1
    /\ UNCHANGED <<quotes, pend, arrived, late, eng, told, emitted, ticked, finished, out>>

\* Bound: one input a day is late.
Arrives(isLate) == ~(late /\ isLate) /\ late' = (late \/ isLate)

\* on_l1: a top that differs from the last one; the first makes the engine.
OnTop(top) ==
    LET last == quotes[Len(quotes)]
        cum == IF Started THEN last.cum + Flow(last, top) ELSE 0
        x == [ts |-> now, b |-> top.b, bq |-> top.bq, a |-> top.a, aq |-> top.aq, cum |-> cum]
    IN /\ ~finished /\ now < Day /\ Len(quotes) < MaxQuotes
       /\ Started => last.ts < now /\ top # [b |-> last.b, bq |-> last.bq, a |-> last.a, aq |-> last.aq]
       /\ quotes' = Append(quotes, x)
       /\ Emit(TryExits(eng, x))
       /\ Arrives(now <= ticked)
       /\ UNCHANGED <<now, pend, arrived, ticked, finished>>

Plus(f, s, q) == [t \in DOMAIN f \cup {s} |-> (IF t \in DOMAIN f THEN f[t] ELSE 0)
                                              + (IF t = s THEN q ELSE 0)]
\* on_trade_raw: a trade of this second or of an earlier one.
OnTrade(sec, qty) ==
    /\ ~finished /\ sec \in TradeSecs \ DOMAIN arrived
    /\ pend' = Plus(pend, sec, qty)
    /\ arrived' = Plus(arrived, sec, qty)
    /\ Arrives(ticked >= sec + Guard + OfiWin)
    /\ UNCHANGED <<now, quotes, eng, told, emitted, ticked, finished, out>>

\* tick: trades up to the second before are passed on in order, then the second decided.
Fed(e, secs) ==
    [e EXCEPT !.vol = FoldLeft(LAMBDA v, s : AddTrade(v, s, pend[s]), @,
                               SetToSortSeq(secs, <))]
Tick ==
    LET T == ticked + 1
    IN /\ ~finished /\ T <= now /\ T < Day
       /\ ticked' = T
       /\ IF Started
          THEN /\ Emit(Advance(Fed(eng, Due(T)), T))
               /\ pend' = [s \in DOMAIN pend \ Due(T) |-> pend[s]]
          ELSE UNCHANGED <<eng, told, out, emitted, pend>>
       /\ UNCHANGED <<now, quotes, arrived, late, finished>>

\* finish_day, after the day's last tick.
FinishDay ==
    /\ ~finished /\ ticked = Day - 1
    /\ finished' = TRUE
    /\ pend' = <<>>
    /\ IF Started THEN Emit(Advance(eng, Day)) ELSE UNCHANGED <<eng, told, out, emitted>>
    /\ UNCHANGED <<now, quotes, arrived, late, ticked>>

Next ==
    \/ Pass \/ Tick \/ FinishDay
    \/ \E top \in Tops : OnTop(top)
    \/ \E sec \in (now - MaxLate)..now, qty \in Sizes : OnTrade(sec, qty)

Spec == Init /\ [][Next]_vars

-----------------------------------------------------------------------------
(* The same day from the complete data, second by second and without any of  *)
(* the engine's lists: what the back-test and the daily comparison compute.  *)

FlowIn(lo, hi) ==
    MapThenSumSet(LAMBDA i : IF i = 1 THEN 0 ELSE Flow(quotes[i-1], quotes[i]),
                  {i \in DOMAIN quotes : quotes[i].ts > lo /\ quotes[i].ts <= hi})
VolumeIn(lo, hi) ==
    MapThenSumSet(LAMBDA t : arrived[t], {t \in DOMAIN arrived : t > lo /\ t <= hi})
LastAt(x) == Max({i \in DOMAIN quotes : quotes[i].ts <= x} \cup {0})

WholeSignal(T, l) ==
    LET c == T - Guard
    IN /\ Warm(T) /\ LastAt(c - MoveWin) > 0
       /\ Fades(l, Mid2(quotes[LastAt(c)]) - Mid2(quotes[LastAt(c - MoveWin)]),
                FlowIn(c - OfiWin, c), VolumeIn(c - OfiWin - VolWin, c - OfiWin))

\* The logic after the entry at s: closed by the first quote that touches, or at the
\* limit, if that is known by second T; from then on it may enter again.
WholeEntry(s, l, T, trades) ==
    LET x == quotes[LastAt(s)]
        p == [sig |-> s, tin |-> x.ts, pin |-> EntryPrice(l, x), due |-> s + Hold]
        hits == {i \in DOMAIN quotes : Touches(l, p, quotes[i])}
        y == quotes[IF hits = {} THEN LastAt(p.due) ELSE Min(hits)]
    IN IF hits = {} /\ p.due > T THEN [pos |-> p, next |-> Day, trades |-> trades]
       ELSE [pos |-> Flat, next |-> IF hits = {} THEN p.due ELSE y.ts,
             trades |-> Append(trades, [logic |-> l, sig |-> s, tin |-> x.ts, tout |-> y.ts,
                                        pout |-> ExitPrice(l, y)])]

\* The position and the trades of a logic after second T.
WholeDay(l, T) ==
    LET run[s \in -1..T] ==
            IF s = -1 THEN [pos |-> Flat, next |-> 0, trades |-> <<>>]
            ELSE LET r == run[s - 1]
                 IN IF s >= r.next /\ s + Hold < Day /\ WholeSignal(s, l)
                    THEN WholeEntry(s, l, T, r.trades) ELSE r
    IN run[T]

-----------------------------------------------------------------------------
(* Every variable has its type, and the lists of the engine stay in order. *)
TypeOK ==
    /\ now \in 0..Day /\ ticked \in -1..(Day - 1) /\ finished \in BOOLEAN /\ late \in BOOLEAN
    /\ eng.cut \in 0..Len(quotes) /\ eng.last \in -1..Day /\ emitted \in 0..Len(eng.trades)
    /\ told \in -1..Day 
    /\ \A i \in 1..(Len(quotes) - 1) : quotes[i].ts <= quotes[i+1].ts
    /\ \A i \in 1..(Len(eng.vol) - 1) : eng.vol[i].sec < eng.vol[i+1].sec /\ eng.vol[i].cum <= eng.vol[i+1].cum

(* What the daily comparison relies on: from data that was there when it was *)
(* first needed the engine has the positions and the trades of the complete  *)
(* data, whatever was pruned, however far the tick was behind, whichever     *)
(* quotes came before it, and with trades late by up to the flow window.     *)
AgreesWithReplay ==
    ~late => \A l \in Logics :
                 LET whole == WholeDay(l, eng.last)
                 IN /\ SelectSeq(eng.trades, LAMBDA t : t.logic = l) = whole.trades
                    /\ eng.pos[l] = whole.pos

(* The trader is told of every trade of the reported logic once: an entry,   *)
(* then its exit, in order, also when both fall into one call, and nothing   *)
(* stays open at the end of the day.                                         *)
EmitsPairs ==
    LET done == SelectSeq(eng.trades, LAMBDA t : t.logic = Reported)
        open == eng.pos[Reported].sig
    IN /\ out = FlattenSeq([i \in DOMAIN done |-> <<<<"entry", done[i].sig>>, <<"exit", done[i].sig>>>>])
                \o (IF open # None THEN <<<<"entry", open>>>> ELSE <<>>)
       /\ finished => open = None

===============================================================================
