-------------------------- MODULE PastofiAppProofs --------------------------
(***************************************************************************)
(* What the gate of PastofiApp guarantees, for windows, limits and bounds  *)
(* of any size.  An entry reads the streams as they were; what the gate    *)
(* knows are the end of the last gap, the last top and the connections.    *)
(* The invariant Known relates the two: everything missing is either       *)
(* before the end of the last gap, or after the last message followed, or  *)
(* the gate is shut.                                                       *)
(***************************************************************************)
EXTENDS PastofiApp, TLAPS

\* Volumes: a trade on the wire waits no longer than the pings allow, and a lost
\* one is unknown, or before the end of the last gap, or the gate sees that the
\* connection is down.
Trades ==
    /\ \A t \in wire["trade"] : now - t <= PingLimit
    /\ health.trade = conn["trade"]
    /\ conn["trade"] => \A t \in lost["trade"] \ unknown : t <= health.gapEnd

\* Quotes: unless a gap is open the book is followed, and what was lost up to
\* the last diff followed came before the first quote or the end of the last gap.
Quotes ==
    /\ \A t \in wire["depth"] : seen["depth"] < t
    /\ sync = "live" => seen["depth"] # None
    /\ (first = None) = (health.topAt = None)
    /\ first # None /\ ~health.open =>
           /\ sync = "live"
           /\ health.topAt - health.depthLat <= seen["depth"]
           /\ \A t \in lost["depth"] : t <= seen["depth"] => t < first \/ t <= health.gapEnd

Known == TypeOK /\ Trades /\ Quotes

USE DEF None

\* Known holds when the process starts.
LEMMA InitKnown == Init => Known
<1> USE AppAssumption DEF Span, Streams
<1> SUFFICES ASSUME Init PROVE Known
  OBVIOUS
<1>1. /\ health \in Health /\ health.trade = FALSE /\ health.topAt = None /\ 0 \in Span
  BY DEF Init, Fresh, Health
<1>2. TypeOK
  BY <1>1 DEF Init, TypeOK
<1>3. Trades
  BY <1>1 DEF Init, Trades
<1>4. Quotes
  BY <1>1 DEF Init, Quotes
<1> QED BY <1>2, <1>3, <1>4 DEF Known

\* What each record of the sink does to the fields of Health.
LEMMA HealthSteps ==
    ASSUME NEW h \in Health, NEW t \in 0..now, now \in Span
    PROVE  /\ /\ StartGap(h) \in Health /\ StartGap(h).open
              /\ StartGap(h).gapEnd = h.gapEnd /\ StartGap(h).trade = h.trade
              /\ StartGap(h).topAt = h.topAt /\ StartGap(h).depthLat = h.depthLat
           /\ /\ PointGap(h) \in Health /\ PointGap(h).open = h.open
              /\ PointGap(h).gapEnd = now /\ PointGap(h).trade = h.trade
              /\ PointGap(h).topAt = h.topAt /\ PointGap(h).depthLat = h.depthLat
           /\ /\ OnTop(h, t) \in Health /\ ~OnTop(h, t).open
              /\ OnTop(h, t).gapEnd = (IF h.open THEN now ELSE h.gapEnd)
              /\ OnTop(h, t).trade = h.trade
              /\ OnTop(h, t).topAt = now /\ OnTop(h, t).depthLat = now - t
           /\ /\ OnTrade(h, t) \in Health /\ OnTrade(h, t).open = h.open
              /\ OnTrade(h, t).gapEnd = h.gapEnd /\ OnTrade(h, t).trade = h.trade
              /\ OnTrade(h, t).topAt = h.topAt /\ OnTrade(h, t).depthLat = h.depthLat
<1> USE AppAssumption DEF Health, Span
<1>1. now \in Nat /\ t \in Nat /\ now - t \in 0..MaxTime
  OBVIOUS
<1>2. StartGap(h) \in Health /\ StartGap(h).open
  BY DEF StartGap
<1>3. PointGap(h) \in Health
  BY DEF PointGap
<1>4. OnTop(h, t) \in Health /\ ~OnTop(h, t).open
  <2> DEFINE g == [h EXCEPT !.topAt = now, !.depthLat = now - t]
  <2>1. g \in Health /\ g.open = h.open
    BY <1>1
  <2>2. EndGap(g) \in Health /\ ~EndGap(g).open
    <3> HIDE DEF g
    <3> QED BY <2>1 DEF EndGap
  <2> QED BY <2>2 DEF OnTop
<1>5. OnTrade(h, t) \in Health
  BY <1>1 DEF OnTrade
<1> QED BY <1>2, <1>3, <1>4, <1>5 DEF StartGap, PointGap, OnTop, EndGap, OnTrade

\* A diff that continues the book.
LEMMA FollowKnown ==
    ASSUME Known, NEW t \in Span, FollowDiff(t)
    PROVE  Known'
<1> USE AppAssumption DEF Span, Streams
<1>1. /\ t \in wire["depth"] /\ \A k \in wire["depth"] : t <= k
      /\ t \in 0..now /\ seen["depth"] # None
      /\ \A m \in lost["depth"] : m <= seen["depth"] \/ t <= m
      /\ t \notin lost["depth"] /\ seen["depth"] < t
  BY DEF FollowDiff, Arriving, Jump, Known, Quotes, TypeOK
<1>2. CASE health' = OnTop(health, t) /\ first' = (IF first = None THEN t ELSE first)
  <2>1. /\ health' \in Health /\ ~health'.open /\ health'.trade = health.trade
        /\ health'.gapEnd = (IF health.open THEN now ELSE health.gapEnd)
        /\ health'.topAt = now /\ health'.depthLat = now - t
    BY <1>1, <1>2, HealthSteps DEF Known, TypeOK
  <2>2. TypeOK'
    BY <1>1, <1>2, <2>1 DEF FollowDiff, Known, TypeOK
  <2>3. Trades'
    <3>1. \A m \in lost["trade"] : m <= now
      BY DEF Known, TypeOK
    <3> QED BY <1>1, <2>1, <3>1 DEF FollowDiff, Known, TypeOK, Trades, Health
  <2>4. Quotes'
    BY <1>1, <1>2, <2>1 DEF FollowDiff, Known, TypeOK, Quotes
  <2> QED BY <2>2, <2>3, <2>4 DEF Known
<1>3. CASE first # None /\ UNCHANGED <<health, first>>
  <2>1. TypeOK'
    BY <1>1, <1>3 DEF FollowDiff, Known, TypeOK
  <2>2. Trades'
    BY <1>1, <1>3 DEF FollowDiff, Known, TypeOK, Trades
  <2>3. Quotes'
    <3>1. /\ health.topAt \in Int /\ health.depthLat \in Nat /\ seen["depth"] \in Int /\ t \in Nat
          /\ seen["depth"] \in {None} \cup Nat /\ lost["depth"] \subseteq Nat
      BY DEF Known, TypeOK, Health
    <3>2. seen'["depth"] = t
      BY DEF FollowDiff, Known, TypeOK
    <3>3. (\A k \in wire'["depth"] : t < k) /\ lost' = lost /\ sync' = "live"
      BY <1>1 DEF FollowDiff, Known, TypeOK
    <3>4. ~health.open => /\ health.topAt - health.depthLat <= t
                          /\ \A m \in lost["depth"] : m <= t => m < first \/ m <= health.gapEnd
      BY <1>1, <1>3, <3>1 DEF Known, Quotes, FollowDiff
    <3> QED BY <1>3, <3>1, <3>2, <3>3, <3>4 DEF Known, Quotes
  <2> QED BY <2>1, <2>2, <2>3 DEF Known
<1> QED BY <1>2, <1>3 DEF FollowDiff

\* A diff that does not continue it: the gap opens.
LEMMA GapKnown ==
    ASSUME Known, NEW t \in Span, OnGap(t)
    PROVE  Known'
<1> USE AppAssumption DEF Span, Streams
<1>1. t \in wire["depth"] /\ t \in 0..now /\ \A k \in wire["depth"] : t <= k
  BY DEF OnGap, Arriving, Known, TypeOK
<1>2. /\ health' \in Health /\ health'.open
      /\ health'.gapEnd = health.gapEnd /\ health'.trade = health.trade
      /\ health'.topAt = health.topAt /\ health'.depthLat = health.depthLat
  BY <1>1, HealthSteps DEF OnGap, Known, TypeOK
<1>3. TypeOK'
  BY <1>1, <1>2 DEF OnGap, Known, TypeOK
<1>4. Trades'
  BY <1>1, <1>2 DEF OnGap, Known, TypeOK, Trades
<1>5. Quotes'
  BY <1>1, <1>2 DEF OnGap, Known, TypeOK, Quotes
<1> QED BY <1>3, <1>4, <1>5 DEF Known

\* A diff that is buffered.
LEMMA BufferKnown ==
    ASSUME Known, NEW t \in Span, BufferDiff(t)
    PROVE  Known'
<1> USE AppAssumption DEF Span, Streams
<1>1. t \in wire["depth"] /\ t \in 0..now
  BY DEF BufferDiff, Arriving, Known, TypeOK
<1>2. TypeOK'
  BY <1>1 DEF BufferDiff, Known, TypeOK
<1>3. Trades'
  BY <1>1 DEF BufferDiff, Known, TypeOK, Trades
<1>4. Quotes'
  BY <1>1 DEF BufferDiff, Known, TypeOK, Quotes
<1> QED BY <1>2, <1>3, <1>4 DEF Known

\* The book is synchronised: no gap ends before its first top.
LEMMA SynchronisedKnown == Known /\ Synchronised => Known'
<1> USE AppAssumption DEF Span, Streams
<1> SUFFICES ASSUME Known, Synchronised PROVE Known'
  OBVIOUS
<1>1. TypeOK'
  BY DEF Synchronised, Known, TypeOK
<1>2. Trades'
  BY DEF Synchronised, Known, TypeOK, Trades
<1>3. Quotes'
  BY DEF Synchronised, Known, TypeOK, Quotes
<1> QED BY <1>1, <1>2, <1>3 DEF Known

\* A trade comes: what it shows to be missing is a gap now.
LEMMA TradeKnown ==
    ASSUME Known, NEW t \in Span, ReceiveTrade(t)
    PROVE  Known'
<1> USE AppAssumption DEF Span, Streams
<1>1. t \in wire["trade"] /\ t \in 0..now
  BY DEF ReceiveTrade, Arriving, Known, TypeOK
<1>2. /\ health' \in Health /\ health'.open = health.open
      /\ health'.gapEnd = (IF Jump("trade", t) THEN now ELSE health.gapEnd)
      /\ health'.trade = health.trade
      /\ health'.topAt = health.topAt /\ health'.depthLat = health.depthLat
  <2> DEFINE h == OnTrade(health, t)
  <2>1. /\ h \in Health /\ h.open = health.open /\ h.gapEnd = health.gapEnd
        /\ h.trade = health.trade /\ h.topAt = health.topAt /\ h.depthLat = health.depthLat
    BY <1>1, HealthSteps DEF Known, TypeOK
  <2>2. health' = IF Jump("trade", t) THEN PointGap(h) ELSE h
    BY DEF ReceiveTrade
  <2> HIDE DEF h
  <2>3. /\ PointGap(h) \in Health /\ PointGap(h).open = h.open /\ PointGap(h).gapEnd = now
        /\ PointGap(h).trade = h.trade /\ PointGap(h).topAt = h.topAt
        /\ PointGap(h).depthLat = h.depthLat
    BY <1>1, <2>1, HealthSteps DEF Known, TypeOK
  <2> QED BY <2>1, <2>2, <2>3
<1>3. TypeOK'
  BY <1>1, <1>2 DEF ReceiveTrade, Known, TypeOK
<1>4. Trades'
  <2>1. \A m \in lost["trade"] : m <= now
    BY DEF Known, TypeOK
  <2>2. \A m \in unknown \ unknown' : Jump("trade", t)
    BY <1>1 DEF ReceiveTrade, Known, TypeOK, Jump
  <2> QED BY <1>1, <1>2, <2>1, <2>2 DEF ReceiveTrade, Known, TypeOK, Trades
<1>5. Quotes'
  BY <1>1, <1>2 DEF ReceiveTrade, Known, TypeOK, Quotes
<1> QED BY <1>3, <1>4, <1>5 DEF Known

\* A connection is up: what the trade stream missed before is a gap.
LEMMA ConnectKnown ==
    ASSUME Known, NEW s \in Streams, Connect(s)
    PROVE  Known'
<1> USE AppAssumption DEF Span, Streams
<1>1. /\ health' \in Health /\ health'.open = health.open
      /\ health'.gapEnd = (IF s = "trade" THEN now ELSE health.gapEnd)
      /\ health'.trade = (s = "trade" \/ health.trade)
      /\ health'.topAt = health.topAt /\ health'.depthLat = health.depthLat
  BY DEF Connect, OnConnected, PointGap, Health, Known, TypeOK
<1>2. TypeOK'
  BY <1>1 DEF Connect, Known, TypeOK
<1>3. Trades'
  <2>1. \A m \in lost["trade"] : m <= now
    BY DEF Known, TypeOK
  <2> QED BY <1>1, <2>1 DEF Connect, Known, TypeOK, Trades
<1>4. Quotes'
  <2>1. \A m \in lost["depth"] : m <= now
    BY DEF Known, TypeOK
  <2> QED BY <1>1, <2>1 DEF Connect, Known, TypeOK, Quotes
<1> QED BY <1>2, <1>3, <1>4 DEF Known

\* A connection ends: the depth stream's gap opens, the trade stream's is seen
\* by the gate.
LEMMA DisconnectKnown ==
    ASSUME Known, NEW s \in Streams, Disconnect(s)
    PROVE  Known'
<1> USE AppAssumption DEF Span, Streams
<1>1. /\ health' \in Health /\ health'.open = (s = "depth" \/ health.open)
      /\ health'.gapEnd = (IF s = "trade" THEN now ELSE health.gapEnd)
      /\ health'.trade = (s # "trade" /\ health.trade)
      /\ health'.topAt = health.topAt /\ health'.depthLat = health.depthLat
  BY DEF Disconnect, OnDisconnected, PointGap, StartGap, Health, Known, TypeOK
<1>2. TypeOK'
  <2>1. /\ wire' \in [Streams -> SUBSET (0..now)] /\ lost' \in [Streams -> SUBSET (0..now)]
        /\ conn' \in [Streams -> BOOLEAN]
        /\ \A r \in Streams : wire'[r] \cap lost'[r] = {} /\ (~conn'[r] => wire'[r] = {})
    BY DEF Disconnect, Known, TypeOK
  <2>2. /\ seen' \in [Streams -> (0..now) \cup {None}]
        /\ sync' \in {"idle", "fetch", "live"} /\ (sync' # "idle" => conn'["depth"])
    BY DEF Disconnect, Known, TypeOK
  <2>3. unknown' \subseteq lost'["trade"]
    BY DEF Disconnect, Known, TypeOK
  <2>4. faults' \in 0..MaxFaults
    BY DEF Disconnect, Known, TypeOK
  <2> QED BY <1>1, <2>1, <2>2, <2>3, <2>4 DEF Disconnect, Known, TypeOK
<1>3. Trades'
  BY <1>1 DEF Disconnect, Known, TypeOK, Trades
<1>4. Quotes'
  <2>1. \A m \in lost["depth"] : m <= now
    BY DEF Known, TypeOK
  <2> QED BY <1>1, <2>1 DEF Disconnect, Known, TypeOK, Quotes
<1> QED BY <1>2, <1>3, <1>4 DEF Known

\* A message is left out.
LEMMA SkipKnown ==
    ASSUME Known, NEW s \in Streams, Skip(s)
    PROVE  Known'
<1> USE AppAssumption DEF Span, Streams
<1>1. PICK t \in wire[s] :
          /\ wire' = [wire EXCEPT ![s] = @ \ {t}]
          /\ lost' = [lost EXCEPT ![s] = @ \cup {t}]
          /\ unknown' = IF s = "trade" THEN unknown \cup {t} ELSE unknown
  BY DEF Skip
<1>2. TypeOK'
  BY <1>1 DEF Skip, Known, TypeOK
<1>3. Trades'
  BY <1>1 DEF Skip, Known, TypeOK, Trades
<1>4. Quotes'
  BY <1>1 DEF Skip, Known, TypeOK, Quotes
<1> QED BY <1>2, <1>3, <1>4 DEF Known

\* A second passes.
LEMMA AdvanceKnown == Known /\ Advance => Known'
<1> USE AppAssumption DEF Span, Streams
<1> SUFFICES ASSUME Known, Advance PROVE Known'
  OBVIOUS
<1>1. now \in Nat /\ now' = now + 1 /\ now' \in Span
  BY DEF Advance, Known, TypeOK
<1>2. PICK made \in {{"depth"}, Streams} :
          /\ wire' = [s \in Streams |->
                 IF s \in made /\ conn[s] THEN wire[s] \cup {now + 1} ELSE wire[s]]
          /\ lost' = [s \in Streams |->
                 IF s \in made /\ ~conn[s] THEN lost[s] \cup {now + 1} ELSE lost[s]]
  BY DEF Advance
<1>3. \A s \in Streams :
          /\ wire'[s] \in {wire[s], wire[s] \cup {now + 1}}
          /\ lost'[s] \in {lost[s], lost[s] \cup {now + 1}}
          /\ conn[s] => lost'[s] = lost[s]
          /\ ~conn[s] => wire'[s] = wire[s]
          /\ wire'[s] \cap lost'[s] = {}
          /\ \A t \in wire[s] \cup lost[s] : t <= now
  BY <1>1, <1>2 DEF Known, TypeOK
<1>4. TypeOK'
  BY <1>1, <1>2, <1>3 DEF Advance, Known, TypeOK
<1>5. Trades'
  BY <1>1, <1>3 DEF Advance, Known, TypeOK, Trades
<1>6. Quotes'
  <2>1. sync = "live" => conn["depth"]
    BY DEF Known, TypeOK
  <2>2. seen["depth"] <= now
    BY <1>1 DEF Known, TypeOK
  <2> QED BY <1>1, <1>3, <2>1, <2>2 DEF Advance, Known, TypeOK, Quotes
<1> QED BY <1>4, <1>5, <1>6 DEF Known

\* The clock loop, and a new offset.
LEMMA ClockKnown == Known /\ (ClockLoop \/ MeasureOffset) => Known'
<1> USE AppAssumption DEF Span, Streams
<1>1. Known /\ ClockLoop => Known'
  BY DEF ClockLoop, Known, TypeOK, Trades, Quotes
<1>2. Known /\ MeasureOffset => Known'
  BY DEF MeasureOffset, Known, TypeOK, Trades, Quotes
<1> QED BY <1>1, <1>2

\* The process starts again.
LEMMA RestartKnown == Known /\ Restart => Known'
<1> USE AppAssumption DEF Span, Streams
<1> SUFFICES ASSUME Known, Restart PROVE Known'
  OBVIOUS
<1>1. /\ health' \in Health /\ health'.trade = FALSE /\ health'.topAt = None
  BY DEF Restart, Fresh, Health, Known, TypeOK
<1>2. TypeOK'
  BY <1>1 DEF Restart, Known, TypeOK
<1>3. Trades'
  BY <1>1 DEF Restart, Known, TypeOK, Trades
<1>4. Quotes'
  BY <1>1 DEF Restart, Known, TypeOK, Quotes
<1> QED BY <1>2, <1>3, <1>4 DEF Known

\* Every step keeps what the gate relies on.
LEMMA NextKnown == Known /\ [Next]_vars => Known'
<1>1. Known /\ UNCHANGED vars => Known'
  BY DEF vars, Known, TypeOK, Trades, Quotes
<1> QED BY <1>1, FollowKnown, GapKnown, BufferKnown, SynchronisedKnown, TradeKnown, ConnectKnown,
           DisconnectKnown, SkipKnown, AdvanceKnown, ClockKnown, RestartKnown DEF Next

\* What the gate relies on holds always.
THEOREM AppInvariant == Spec => []Known
  BY InitKnown, NextKnown, PTL DEF Spec

\* The state stays in its types: every message is on the wire or lost or was
\* received, and none is on a connection that is down.
THEOREM AppTypeOK == Spec => []TypeOK
<1>1. Known => TypeOK
  BY DEF Known
<1> QED BY <1>1, AppInvariant, PTL

\* An entry the gate lets through has no unknown hole in its quotes.
THEOREM AppDepthIsWhole == Spec => []DepthIsWhole
<1>1. Known => DepthIsWhole
  <2> SUFFICES ASSUME Known, NEW T \in Span, Admits(T), NEW m \in Missing("depth"),
                      T - Guard - MoveWin <= m, m <= now - Silence - Latency - 1
               PROVE  FALSE
    BY DEF DepthIsWhole
  <2> USE AppAssumption DEF Span, Streams
  <2>1. /\ now \in Nat /\ T \in Nat /\ m \in Nat /\ seen["depth"] \in Int
        /\ health.gapEnd \in Nat /\ health.topAt \in Int /\ health.depthLat \in Nat
        /\ first \in Int
    BY DEF Known, TypeOK, Missing, Health
  <2>2. /\ first # None /\ first <= T - Guard - MoveWin
        /\ sync = "live" /\ ~health.open /\ health.gapEnd <= T - GapWindow
        /\ now - health.topAt <= Silence /\ health.depthLat <= Latency
    BY DEF Admits, Warm, Gate
  <2>3. seen["depth"] >= now - Silence - Latency
    BY <2>1, <2>2 DEF Known, Quotes
  <2>4. m \in lost["depth"] /\ m <= seen["depth"]
    BY <2>1, <2>3 DEF Known, Quotes, Missing
  <2>5. m < first \/ m <= health.gapEnd
    BY <2>2, <2>4 DEF Known, Quotes
  <2> QED BY <2>1, <2>2, <2>5
<1> QED BY <1>1, AppInvariant, PTL

\* An entry the gate lets through has no unknown hole in its volume.
THEOREM AppVolumeIsWhole == Spec => []VolumeIsWhole
<1>1. Known => VolumeIsWhole
  <2> SUFFICES ASSUME Known, NEW T \in Span, Admits(T), NEW m \in Missing("trade") \ unknown,
                      T - Guard - OfiWin - VolWin + 1 <= m, m <= T - Guard - OfiWin
               PROVE  FALSE
    BY DEF VolumeIsWhole
  <2> USE AppAssumption DEF Span, Streams
  <2>1. /\ now \in Nat /\ T \in Nat /\ m \in Nat /\ health.gapEnd \in Nat
    BY DEF Known, TypeOK, Missing, Health
  <2>2. T <= now /\ health.trade /\ health.gapEnd <= T - GapWindow
    BY <2>1 DEF Admits, Due, Gate, Known, TypeOK
  <2>3. m \in wire["trade"] => now - m <= PingLimit
    BY DEF Known, Trades
  <2>4. m \in lost["trade"] => m <= health.gapEnd
    BY <2>2 DEF Known, Trades
  <2> QED BY <2>1, <2>2, <2>3, <2>4 DEF Missing
<1> QED BY <1>1, AppInvariant, PTL
==============================================================================
