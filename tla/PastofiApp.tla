----------------------------- MODULE PastofiApp -----------------------------
(***************************************************************************)
(* From the exchange's two streams to the gate of an entry, for one symbol *)
(* (src/src/strategies/pastofi_crypto/runner.py: Health, StrategySink,     *)
(* App.gate, the clock loop; src/src/exchange/ws.py: the connections and   *)
(* the order of ids; src/src/strategies/pastofi_crypto/brokers.py).        *)
(*                                                                         *)
(* A message is the second of the exchange it is about: the depth stream   *)
(* has one each second, the trade stream at most one, so ids jump exactly  *)
(* when a message in between is missing.  A connection that is up delivers *)
(* in order, as late as the pings allow: half-open links and slow ones are *)
(* messages that stay on the wire until it is closed.  Synchronisation of  *)
(* the book (module BookSync) is three states; what the engine computes    *)
(* (module SymbolEngine) is only which data its windows cover.             *)
(***************************************************************************)
EXTENDS Integers

CONSTANTS
    Guard, MoveWin, OfiWin, VolWin,   \* spec: the windows of the engine
    GapWindow,                        \* spec gate.gap_window_s
    Silence, Latency, DecisionLag,    \* spec gate: max_depth_silence_s, ...
    PingLimit,      \* ping_interval + ping_timeout of a connection
    MaxTime,        \* bound: seconds
    MaxFaults,      \* bound: disconnections, messages skipped, restarts
    TradeSecs,      \* bound: the seconds in which a trade may happen
    MaxBehind       \* bound: seconds the clock loop is behind

None == -1
Streams == {"depth", "trade"}

ASSUME AppAssumption ==
    /\ {Guard, OfiWin} \subseteq Nat \ {0} /\ {MoveWin, VolWin} \subseteq Nat
    /\ OfiWin <= MoveWin
    /\ GapWindow \in Nat
    /\ GapWindow > Guard + OfiWin + VolWin /\ GapWindow > Guard + MoveWin
    /\ PingLimit \in Nat \ {0} /\ PingLimit < Guard + OfiWin
    /\ {Silence, Latency, DecisionLag, MaxTime, MaxFaults, MaxBehind} \subseteq Nat

VARIABLES
    now,       \* the exchange's time
    wire,      \* per stream, messages sent and not yet received
    lost,      \* per stream, messages that no longer come
    conn,      \* per stream, whether the collector's connection is up
    seen,      \* per stream, the last message followed: the book's last update
               \* id, and _last_agg_id, which outlives the connection
    sync,      \* the book: not asked for, being synchronised, followed
    health,    \* Health of the symbol
    first,     \* the first quote the feed got since the process started
    offset,    \* whether the clock offset is measured and within its limit
    last,      \* the clock loop's last second
    unknown,   \* trades left out and not seen to be missing
    faults     \* bound

vars == <<now, wire, lost, conn, seen, sync, health, first, offset, last, unknown, faults>>

Span == 0..MaxTime

Health ==
    [gapEnd : Span, open : BOOLEAN, topAt : Span \cup {None}, depthLat : Span, tradeLat : Span,
     trade : BOOLEAN]

TypeOK ==
    /\ now \in Span /\ last \in 0..now /\ now - last <= MaxBehind
    /\ unknown \subseteq lost["trade"]
    /\ wire \in [Streams -> SUBSET (0..now)] /\ lost \in [Streams -> SUBSET (0..now)]
    /\ \A s \in Streams : wire[s] \cap lost[s] = {} /\ (~conn[s] => wire[s] = {})
    /\ conn \in [Streams -> BOOLEAN] /\ seen \in [Streams -> (0..now) \cup {None}]
    /\ sync \in {"idle", "fetch", "live"} /\ (sync # "idle" => conn["depth"])
    /\ health \in Health
    /\ first \in Span \cup {None} /\ offset \in BOOLEAN
    /\ faults \in 0..MaxFaults

------------------------------------------------------------------------------
(* Health: of its gaps only the end of the last one is read *)

StartGap(h) == [h EXCEPT !.open = TRUE]
EndGap(h) == IF h.open THEN [h EXCEPT !.open = FALSE, !.gapEnd = now] ELSE h
PointGap(h) == [h EXCEPT !.gapEnd = now]

\* A new Health: what came before the process is a gap.
Fresh(t) ==
    [gapEnd |-> t, open |-> FALSE, topAt |-> None, depthLat |-> 0, tradeLat |-> 0,
     trade |-> FALSE]

(* StrategySink.write *)

\* A book_top about second t, written when the book is followed.
OnTop(h, t) == EndGap([h EXCEPT !.topAt = now, !.depthLat = now - t])

OnTrade(h, t) == [h EXCEPT !.tradeLat = now - t]

\* Mutant of OnConnected: only the end of a connection is recorded as a gap.
OnConnectedSilently(s, h) == [h EXCEPT !.trade = (s = "trade" \/ @)]
OnConnected(s, h) ==
    IF s = "trade" THEN PointGap([h EXCEPT !.trade = TRUE]) ELSE h

OnDisconnected(s, h) ==
    IF s = "trade" THEN PointGap([h EXCEPT !.trade = FALSE]) ELSE StartGap(h)

------------------------------------------------------------------------------
(* The streams *)

\* Messages up to the last one received are missing before message t.
Jump(s, t) == seen[s] # None /\ \E m \in lost[s] : seen[s] < m /\ m < t

\* A connection delivers in order.
Arriving(s) == {t \in wire[s] : \A k \in wire[s] : t <= k}

\* handle_message on a diff of a book that is followed: it continues the book,
\* and a top that changed is written (OnGap: or it does not, and the book starts
\* over).
FollowDiff(t) ==
    /\ t \in Arriving("depth") /\ sync = "live" /\ ~Jump("depth", t)
    /\ wire' = [wire EXCEPT !["depth"] = @ \ {t}]
    /\ seen' = [seen EXCEPT !["depth"] = t]
    /\ \/ health' = OnTop(health, t) /\ first' = (IF first = None THEN t ELSE first)
       \/ first # None /\ UNCHANGED <<health, first>>
    /\ UNCHANGED <<now, lost, conn, sync, offset, last, unknown, faults>>

OnGap(t) ==
    /\ t \in Arriving("depth") /\ sync = "live" /\ Jump("depth", t)
    /\ wire' = [wire EXCEPT !["depth"] = @ \ {t}]
    /\ lost' = [lost EXCEPT !["depth"] = @ \cup {t}]
    /\ seen' = [seen EXCEPT !["depth"] = None]
    /\ sync' = "fetch" /\ health' = StartGap(health)
    /\ UNCHANGED <<now, conn, first, offset, last, unknown, faults>>

\* handle_message on a diff of a book that is not: it is buffered, the snapshot
\* is asked for, and the feed never sees the top it made.
BufferDiff(t) ==
    /\ t \in Arriving("depth") /\ sync # "live"
    /\ wire' = [wire EXCEPT !["depth"] = @ \ {t}]
    /\ lost' = [lost EXCEPT !["depth"] = @ \cup {t}]
    /\ sync' = "fetch"
    /\ UNCHANGED <<now, conn, seen, health, first, offset, last, unknown, faults>>

\* The snapshot is in, and the buffer is replayed up to its last diff.
Synchronised ==
    /\ sync = "fetch"
    /\ sync' = "live"
    /\ \E t \in lost["depth"] :
           /\ \A m \in lost["depth"] : m <= t
           /\ \A m \in wire["depth"] : t < m
           /\ seen' = [seen EXCEPT !["depth"] = t]
    /\ UNCHANGED <<now, wire, lost, conn, health, first, offset, last, unknown, faults>>

\* handle_message on a trade: to the view and the feed, then the order of ids.
ReceiveTrade(t) ==
    /\ t \in Arriving("trade")
    /\ wire' = [wire EXCEPT !["trade"] = @ \ {t}]
    /\ seen' = [seen EXCEPT !["trade"] = t]
    /\ health' = IF Jump("trade", t) THEN PointGap(OnTrade(health, t)) ELSE OnTrade(health, t)
    /\ unknown' = IF seen["trade"] = None THEN unknown
                  ELSE {m \in unknown : m <= seen["trade"] \/ t < m}
    /\ UNCHANGED <<now, lost, conn, sync, first, offset, last, faults>>

Connect(s) ==
    /\ ~conn[s]
    /\ conn' = [conn EXCEPT ![s] = TRUE]
    /\ health' = OnConnected(s, health)
    /\ UNCHANGED <<now, wire, lost, seen, sync, first, offset, last, unknown, faults>>

\* An error, a missed pong, a stale stream or the end of the session.  The
\* depth connection takes its books with it.
Disconnect(s) ==
    /\ conn[s] /\ faults < MaxFaults
    /\ conn' = [conn EXCEPT ![s] = FALSE]
    /\ lost' = [lost EXCEPT ![s] = @ \cup wire[s]]
    /\ wire' = [wire EXCEPT ![s] = {}]
    /\ IF s = "depth"
       THEN sync' = "idle" /\ seen' = [seen EXCEPT !["depth"] = None]
       ELSE UNCHANGED <<sync, seen>>
    /\ health' = OnDisconnected(s, health)
    /\ unknown' = IF s = "trade" THEN {} ELSE unknown
    /\ faults' = faults + 1
    /\ UNCHANGED <<now, first, offset, last>>

\* The exchange leaves out a message on a connection that stays up.
Skip(s) ==
    /\ faults < MaxFaults
    /\ \E t \in wire[s] :
           /\ wire' = [wire EXCEPT ![s] = @ \ {t}]
           /\ lost' = [lost EXCEPT ![s] = @ \cup {t}]
           /\ unknown' = IF s = "trade" THEN unknown \cup {t} ELSE unknown
    /\ faults' = faults + 1
    /\ UNCHANGED <<now, conn, seen, sync, health, first, offset, last>>

------------------------------------------------------------------------------
(* The clock *)

\* A second passes: the book changes, and perhaps a trade happens.  A missed
\* pong closes a connection whose messages wait longer than the pings allow.
Advance ==
    /\ now < MaxTime /\ now - last < MaxBehind
    /\ \A s \in Streams : \A t \in wire[s] : now - t < PingLimit
    /\ now' = now + 1
    /\ \E made \in {{"depth"}} \cup (IF now + 1 \in TradeSecs THEN {Streams} ELSE {}) :
           /\ wire' = [s \in Streams |->
                  IF s \in made /\ conn[s] THEN wire[s] \cup {now + 1} ELSE wire[s]]
           /\ lost' = [s \in Streams |->
                  IF s \in made /\ ~conn[s] THEN lost[s] \cup {now + 1} ELSE lost[s]]
    /\ UNCHANGED <<conn, seen, sync, health, first, offset, last, unknown, faults>>

\* _measure_offset: a failed one leaves the last one standing.  That the
\* measured clock is beyond its limit counts as a fault.
MeasureOffset ==
    /\ offset' = ~offset
    /\ IF offset THEN faults < MaxFaults /\ faults' = faults + 1 ELSE UNCHANGED faults
    /\ UNCHANGED <<now, wire, lost, conn, seen, sync, health, first, last, unknown>>

\* Mutant of Gate: the silence of the depth stream is not looked at.
GateDeaf(T) ==
    /\ now - T <= DecisionLag /\ offset
    /\ sync = "live" /\ ~health.open /\ health.gapEnd <= T - GapWindow
    /\ health.depthLat <= Latency /\ health.tradeLat <= Latency /\ health.trade
\* App.gate for a signal of second T: it passes.
Gate(T) ==
    /\ now - T <= DecisionLag
    /\ offset
    /\ sync = "live" /\ ~health.open
    /\ health.gapEnd <= T - GapWindow
    /\ health.topAt # None /\ now - health.topAt <= Silence
    /\ health.depthLat <= Latency
    /\ health.tradeLat <= Latency
    /\ health.trade

\* The engine decides only with a quote as old as its longest window.
Warm(T) == first # None /\ first <= T - Guard - MoveWin

\* Due: the seconds the clock loop decides when it next runs, in one go.  The
\* entry of one of them is handed on if its gate is open then.
Due == (last + 1)..now
Admits(T) == T \in Due /\ Warm(T) /\ Gate(T)

\* _clock_loop
ClockLoop ==
    /\ last < now
    /\ last' = now
    /\ UNCHANGED <<now, wire, lost, conn, seen, sync, health, first, offset, unknown, faults>>

\* The process ends and starts again: run measures the offset (or fails to) and
\* makes a new Health; the first second decided is the next one.
Restart ==
    /\ faults < MaxFaults /\ faults' = faults + 1
    /\ conn' = [s \in Streams |-> FALSE]
    /\ lost' = [s \in Streams |-> lost[s] \cup wire[s]]
    /\ wire' = [s \in Streams |-> {}]
    /\ seen' = [s \in Streams |-> None]
    /\ sync' = "idle" /\ health' = Fresh(now) /\ first' = None
    /\ offset' \in BOOLEAN /\ last' = now /\ unknown' = {}
    /\ UNCHANGED now

Init ==
    /\ now = 0 /\ last = 0 /\ unknown = {} /\ faults = 0
    /\ wire = [s \in Streams |-> {}] /\ lost = [s \in Streams |-> {}]
    /\ conn = [s \in Streams |-> FALSE] /\ seen = [s \in Streams |-> None]
    /\ sync = "idle" /\ health = Fresh(0) /\ first = None
    /\ offset \in BOOLEAN

Next ==
    \/ \E t \in Span : FollowDiff(t) \/ OnGap(t) \/ BufferDiff(t) \/ ReceiveTrade(t)
    \/ Synchronised
    \/ \E s \in Streams : Connect(s) \/ Disconnect(s) \/ Skip(s)
    \/ Advance \/ MeasureOffset \/ ClockLoop \/ Restart

Spec == Init /\ [][Next]_vars

------------------------------------------------------------------------------

Missing(s) == wire[s] \cup lost[s]

\* The quotes behind an entry have no hole the process does not know of: from
\* the oldest second it reads, nothing of the depth stream is missing but the
\* last seconds, which a silent stream and a late one may hide from the gate
\* (Health.start_gap and end_gap, gate's gap window, silence and latency).
DepthIsWhole ==
    \A T \in Span : Admits(T) =>
        Missing("depth") \cap ((T - Guard - MoveWin)..(now - Silence - Latency - 1)) = {}

\* The volume behind an entry counts every trade of its window, although the
\* gate never looks at how long no trade came: a dead connection is closed by
\* its pings before its trades enter the window.  Only a trade left out by a
\* living connection stays unknown, until the next trade shows it (not if it
\* came before the first trade of the process) or the connection ends
\* (StrategySink's point gaps, _check_trade_seq).
VolumeIsWhole ==
    \A T \in Span : Admits(T) =>
        (Missing("trade") \ unknown)
            \cap ((T - Guard - OfiWin - VolWin + 1)..(T - Guard - OfiWin)) = {}
==============================================================================
