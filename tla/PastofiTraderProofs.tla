------------------------- MODULE PastofiTraderProofs -------------------------
(***************************************************************************)
(* The safety of the trader's ledger, for every number of symbols,         *)
(* signals, crashes and lost answers: its types (an invariant about the    *)
(* order threads, Aligned, makes them inductive; one lemma per action      *)
(* shows it preserved), its bookings, and the proof that state.json and    *)
(* the bookings implement TradeBook.  Then the ledger and the exchange:    *)
(* a short on the exchange is in the ledger unless a trade was booked      *)
(* short of what was executed (a slip: its trades showed late, or its exit *)
(* was partial); and, while nothing fails, the emergency stops on the      *)
(* exchange and the trades booked are those of the ledger.                 *)
(***************************************************************************)
EXTENDS PastofiTrader, TLAPS, FiniteSetTheorems, WellFoundedInduction
USE DEF fillVars

\* A position has a signal; an order thread which is in the middle of
\* something works on the position in the ledger, until it is booked.
AlignedAt(s) ==
    /\ ledger[s].status # "none" => ledger[s].ep \in Eps
    /\ disk.ledger[s].status # "none" => disk.ledger[s].ep \in Eps
    /\ work[s].at # "idle" => proc = "up" /\ work[s].ep \in Eps
    /\ work[s].at \notin {"idle", "store", "halt"} =>
          ledger[s].status # "none" /\ ledger[s].ep = work[s].ep
    /\ work[s].at = "market" => work[s].legs.maker <= ledger[s].qty
Aligned == \A s \in Sym : AlignedAt(s)

\* The exchange holds nothing when an entry is about to be sent: nobody else
\* opens a position, so the answer is still true then.
Empty == \A s \in Sym : work[s].at = "asked" => short[s] = 0

Sound == TypeOK /\ Aligned
TInv == Sound /\ Empty

\* The constant sets, with just what the proofs need of them: the provers do
\* better when they do not see the sets themselves.
LEMMA Constants == /\ MaxSig \in Nat /\ Qty \in Nat /\ Qty > 0
                   /\ StopLine \in Nat /\ Nets \subseteq Int
                   /\ Amount \subseteq Nat /\ 0 \in Amount /\ Qty \in Amount
                   /\ \A m \in Amount : m <= Qty
                   /\ \A m \in Nat : m <= Qty => m \in Amount
                   /\ Eps \subseteq EpOrNone /\ 0 \in EpOrNone /\ 0 \notin Eps
                   /\ EpOrNone \subseteq Nat
                   /\ \A ep \in EpOrNone : ep = 0 \/ ep \in Eps
                   /\ \A ep \in EpOrNone : ep < MaxSig => ep + 1 \in Eps
                   /\ \A p \in Phase : p < 3 => p + 1 \in Phase
                   /\ 0 \in Phase
BY TraderAssumption DEF Amount, Eps, EpOrNone, Phase

\* The labels of the order thread and the marks of positions are in their sets.
LEMMA Names ==
    /\ "none" \in Status /\ "opening" \in Status /\ "open" \in Status /\ "closing" \in Status
    /\ "engine" \in Source /\ "recovered" \in Source
    /\ "stop" \in Leg /\ "maker" \in Leg
    /\ "entry" \in Op /\ "exit" \in Op /\ "place" \in Op /\ "poll" \in Op /\ "check" \in Op
    /\ "idle" \in Step /\ "asked" \in Step /\ "filled" \in Step /\ "lost" \in Step
    /\ "stopped" \in Step /\ "makerset" \in Step /\ "maker" \in Step /\ "market" \in Step /\ "force" \in Step
    /\ "cancel" \in Step /\ "finalize" \in Step /\ "store" \in Step /\ "halt" \in Step
BY DEF Status, Source, Leg, Op, Step

\* The values that the actions write are in their sets.
LEMMA Values ==
    /\ Flat \in Pos /\ Flat.ep = 0 /\ Flat.status = "none"
    /\ \A ep \in Eps : Opening(ep) \in Pos /\ Opening(ep).ep = ep
    /\ NoLegs \in Legs /\ Idle \in Work /\ Idle.at = "idle"
    /\ \A at \in Step, ep \in Eps : At(at, ep) \in Work /\ At(at, ep).at = at
          /\ At(at, ep).ep = ep /\ At(at, ep).legs = NoLegs
<1>1. NoLegs \in Legs
  BY DEF NoLegs, Legs
<1>2. Flat \in Pos /\ Flat.ep = 0 /\ Flat.status = "none"
  BY Constants, Names DEF Flat, Pos
<1>3. \A ep \in Eps : Opening(ep) \in Pos /\ Opening(ep).ep = ep
  BY <1>2, Constants, Names DEF Opening, Pos
<1>4. Idle \in Work /\ Idle.at = "idle"
  BY <1>1, Names, Constants DEF Idle, Work
<1>5. \A at \in Step, ep \in Eps : At(at, ep) \in Work /\ At(at, ep).at = at
          /\ At(at, ep).ep = ep
  BY <1>4, Constants DEF At, Work
<1>6. \A at \in Step, ep \in Eps : At(at, ep).legs = NoLegs
  BY <1>4 DEF At, Idle
<1> QED BY <1>1, <1>2, <1>3, <1>4, <1>5, <1>6

\* What state.json holds after a save.
LEMMA Saved ==
    ASSUME ledger' \in [Sym -> Pos], halted' \in BOOLEAN, cum' \in Int,
           entries' \in [Sym -> Nat], Save
    PROVE  TraderOK' /\ disk'.ledger = ledger' /\ disk'.halted = halted' /\ disk'.cum = cum'
<1>1. disk' = [ledger |-> ledger', halted |-> halted', cum |-> cum', entries |-> entries']
  BY DEF Save
<1> QED BY <1>1 DEF TraderOK

\* The initial state has its types.
LEMMA InitTInv == Init => TInv
<1> SUFFICES ASSUME Init PROVE TInv
  OBVIOUS
<1>1. TraderOK
  <2>1. /\ ledger = [s \in Sym |-> Flat] /\ halted = FALSE /\ cum = 0
        /\ entries = [s \in Sym |-> 0]
    BY DEF Init
  <2>2. disk = [ledger |-> ledger, halted |-> halted, cum |-> cum, entries |-> entries]
    BY DEF Init
  <2>3. ledger \in [Sym -> Pos]
    BY <2>1, Values
  <2>4. entries \in [Sym -> Nat] /\ cum \in Int
    BY <2>1
  <2>5. halted \in BOOLEAN
    BY <2>1
  <2> QED BY <2>2, <2>3, <2>4, <2>5 DEF TraderOK
<1>2. TaskOK
  BY Values DEF Init, TaskOK
<1>3. ProcOK /\ LoopOK
  BY Constants DEF Init, ProcOK, LoopOK
<1>4. ExchOK
  BY Values, Constants DEF Init, ExchOK
<1>5. BookOK
  BY Values DEF Init, BookOK
<1>6. Aligned
  BY Values DEF Init, Aligned, AlignedAt
<1>7. Empty
  BY Values DEF Init, Empty
<1> QED BY <1>1, <1>2, <1>3, <1>4, <1>5, <1>6, <1>7 DEF TInv, Sound, TypeOK

\* A step about one symbol leaves the others aligned.
LEMMA OnlyAt ==
    ASSUME TInv, NEW s \in Sym, proc' = proc, AlignedAt(s)',
           \A t \in Sym \ {s} : /\ ledger'[t] = ledger[t] /\ work'[t] = work[t]
                                /\ disk'.ledger[t] \in {disk.ledger[t], ledger[t]}
    PROVE  Aligned'
<1> SUFFICES ASSUME NEW t \in Sym, t # s PROVE AlignedAt(t)'
  BY DEF Aligned
<1> QED BY DEF TInv, Sound, Aligned, AlignedAt

-----------------------------------------------------------------------------
(* Records, updated the way the actions update them.                       *)

\* The updates of a ledger entry give a ledger entry.
LEMMA PosUpdates ==
    ASSUME NEW p \in Pos, NEW st \in Status, NEW b \in BOOLEAN, NEW q \in Amount
    PROVE  /\ [p EXCEPT !.status = st] \in Pos
           /\ [p EXCEPT !.status = st].ep = p.ep
           /\ [p EXCEPT !.status = st].status = st
           /\ [p EXCEPT !.status = st].qty = p.qty
           /\ [p EXCEPT !.exitReq = TRUE] \in Pos
           /\ [p EXCEPT !.exitReq = TRUE].ep = p.ep
           /\ [p EXCEPT !.exitReq = TRUE].status = p.status
           /\ [p EXCEPT !.exitReq = TRUE].qty = p.qty
           /\ [p EXCEPT !.exitReq = TRUE, !.tried = b] \in Pos
           /\ [p EXCEPT !.exitReq = TRUE, !.tried = b].ep = p.ep
           /\ [p EXCEPT !.exitReq = TRUE, !.tried = b].status = p.status
           /\ [p EXCEPT !.exitReq = TRUE, !.tried = b].qty = p.qty
           /\ [p EXCEPT !.tried = b] \in Pos
           /\ [p EXCEPT !.tried = b].ep = p.ep
           /\ [p EXCEPT !.tried = b].status = p.status
           /\ [p EXCEPT !.tried = b].qty = p.qty
           /\ [p EXCEPT !.maker = TRUE] \in Pos
           /\ [p EXCEPT !.maker = TRUE].ep = p.ep
           /\ [p EXCEPT !.maker = TRUE].status = p.status
           /\ [p EXCEPT !.maker = TRUE].qty = p.qty
           /\ [p EXCEPT !.status = "open", !.qty = q, !.stop = b] \in Pos
           /\ [p EXCEPT !.status = "open", !.qty = q, !.stop = b].ep = p.ep
           /\ [p EXCEPT !.status = "open", !.qty = q, !.stop = b].status = "open"
           /\ [p EXCEPT !.status = "open", !.qty = q, !.stop = b].qty = q
           /\ [p EXCEPT !.status = "open", !.source = "recovered", !.exitReq = FALSE] \in Pos
           /\ [p EXCEPT !.status = "open", !.source = "recovered", !.exitReq = FALSE].ep = p.ep
           /\ [p EXCEPT !.status = "open", !.source = "recovered", !.exitReq = FALSE].status = "open"
           /\ [p EXCEPT !.status = "open", !.source = "recovered", !.exitReq = FALSE].qty = p.qty
<1>1. /\ [p EXCEPT !.status = st] \in Pos
      /\ [p EXCEPT !.status = st].ep = p.ep
      /\ [p EXCEPT !.status = st].status = st
      /\ [p EXCEPT !.status = st].qty = p.qty
  BY Names DEF Pos
<1>2. /\ [p EXCEPT !.exitReq = TRUE] \in Pos
      /\ [p EXCEPT !.exitReq = TRUE].ep = p.ep
      /\ [p EXCEPT !.exitReq = TRUE].status = p.status
      /\ [p EXCEPT !.exitReq = TRUE].qty = p.qty
  BY Names DEF Pos
<1>3. /\ [p EXCEPT !.exitReq = TRUE, !.tried = b] \in Pos
      /\ [p EXCEPT !.exitReq = TRUE, !.tried = b].ep = p.ep
      /\ [p EXCEPT !.exitReq = TRUE, !.tried = b].status = p.status
      /\ [p EXCEPT !.exitReq = TRUE, !.tried = b].qty = p.qty
  BY Names DEF Pos
<1>4. /\ [p EXCEPT !.tried = b] \in Pos
      /\ [p EXCEPT !.tried = b].ep = p.ep
      /\ [p EXCEPT !.tried = b].status = p.status
      /\ [p EXCEPT !.tried = b].qty = p.qty
  BY Names DEF Pos
<1>5. /\ [p EXCEPT !.maker = TRUE] \in Pos
      /\ [p EXCEPT !.maker = TRUE].ep = p.ep
      /\ [p EXCEPT !.maker = TRUE].status = p.status
      /\ [p EXCEPT !.maker = TRUE].qty = p.qty
  BY Names DEF Pos
<1>6. /\ [p EXCEPT !.status = "open", !.qty = q, !.stop = b] \in Pos
      /\ [p EXCEPT !.status = "open", !.qty = q, !.stop = b].ep = p.ep
      /\ [p EXCEPT !.status = "open", !.qty = q, !.stop = b].status = "open"
      /\ [p EXCEPT !.status = "open", !.qty = q, !.stop = b].qty = q
  BY Names DEF Pos
<1>7. /\ [p EXCEPT !.status = "open", !.source = "recovered", !.exitReq = FALSE] \in Pos
      /\ [p EXCEPT !.status = "open", !.source = "recovered", !.exitReq = FALSE].ep = p.ep
      /\ [p EXCEPT !.status = "open", !.source = "recovered", !.exitReq = FALSE].status = "open"
      /\ [p EXCEPT !.status = "open", !.source = "recovered", !.exitReq = FALSE].qty = p.qty
  BY Names DEF Pos
<1> QED BY <1>1, <1>2, <1>3, <1>4, <1>5, <1>6, <1>7

\* Quantities set in the legs of a trade give legs.
LEMMA LegsUpdates ==
    ASSUME NEW l \in Legs, NEW n \in Nat
    PROVE  /\ [l EXCEPT !.maker = n] \in Legs /\ [l EXCEPT !.market = n] \in Legs
           /\ [l EXCEPT !.stop = n] \in Legs /\ [l EXCEPT !.other = n] \in Legs
           /\ l.maker \in Nat /\ l.market \in Nat /\ l.stop \in Nat
           /\ [l EXCEPT !.maker = n].maker = n
BY DEF Legs

\* The updates of the thread's locals give locals.
LEMMA WorkUpdates ==
    ASSUME NEW w \in Work, NEW at \in Step, NEW q \in Amount, NEW b \in BOOLEAN, NEW l \in Legs
    PROVE  /\ [w EXCEPT !.at = at] \in Work /\ [w EXCEPT !.at = at].at = at
           /\ [w EXCEPT !.at = at].ep = w.ep /\ [w EXCEPT !.at = at].legs = w.legs
           /\ [w EXCEPT !.got = q] \in Work /\ [w EXCEPT !.got = q].at = w.at
           /\ [w EXCEPT !.got = q].ep = w.ep
           /\ [w EXCEPT !.at = at, !.set = b] \in Work
           /\ [w EXCEPT !.at = at, !.set = b].at = at /\ [w EXCEPT !.at = at, !.set = b].ep = w.ep
           /\ [w EXCEPT !.legs = l] \in Work /\ [w EXCEPT !.legs = l].at = w.at
           /\ [w EXCEPT !.legs = l].ep = w.ep
           /\ [w EXCEPT !.at = at, !.legs = l] \in Work
           /\ [w EXCEPT !.at = at, !.legs = l].at = at /\ [w EXCEPT !.at = at, !.legs = l].ep = w.ep
           /\ [w EXCEPT !.at = at, !.legs = l].legs = l
<1>1. /\ [w EXCEPT !.at = at] \in Work /\ [w EXCEPT !.at = at].at = at
      /\ [w EXCEPT !.at = at].ep = w.ep /\ [w EXCEPT !.at = at].legs = w.legs
  BY DEF Work
<1>2. /\ [w EXCEPT !.got = q] \in Work /\ [w EXCEPT !.got = q].at = w.at
      /\ [w EXCEPT !.got = q].ep = w.ep
  BY DEF Work
<1>3. /\ [w EXCEPT !.at = at, !.set = b] \in Work
      /\ [w EXCEPT !.at = at, !.set = b].at = at /\ [w EXCEPT !.at = at, !.set = b].ep = w.ep
  BY DEF Work
<1>4. /\ [w EXCEPT !.legs = l] \in Work /\ [w EXCEPT !.legs = l].at = w.at
      /\ [w EXCEPT !.legs = l].ep = w.ep
  BY DEF Work
<1>5. /\ [w EXCEPT !.at = at, !.legs = l] \in Work
      /\ [w EXCEPT !.at = at, !.legs = l].at = at /\ [w EXCEPT !.at = at, !.legs = l].ep = w.ep
      /\ [w EXCEPT !.at = at, !.legs = l].legs = l
  BY DEF Work
<1> QED BY <1>1, <1>2, <1>3, <1>4, <1>5

-----------------------------------------------------------------------------
(* What most steps have in common.                                         *)

\* A variable that stays keeps its type.
LEMMA Frame ==
    ASSUME TInv
    PROVE  /\ UNCHANGED traderVars => TraderOK' /\ ledger' = ledger /\ disk' = disk
           /\ UNCHANGED exchVars => ExchOK'
           /\ UNCHANGED bookVars => BookOK'
           /\ UNCHANGED loopVars => LoopOK'
           /\ UNCHANGED <<procVars, guardHalted, resumes>> /\ (Works \/ Fails)
                 => ProcOK' /\ proc' = proc
<1>1. UNCHANGED traderVars => TraderOK' /\ ledger' = ledger /\ disk' = disk
  BY DEF TInv, Sound, TypeOK, TraderOK, traderVars
<1>2. UNCHANGED exchVars => ExchOK'
  BY DEF TInv, Sound, TypeOK, ExchOK, exchVars
<1>3. UNCHANGED bookVars => BookOK'
  BY DEF TInv, Sound, TypeOK, BookOK, bookVars
<1>4. UNCHANGED loopVars => LoopOK'
  BY DEF TInv, Sound, TypeOK, LoopOK, loopVars
<1>5. UNCHANGED <<procVars, guardHalted, resumes>> /\ (Works \/ Fails)
                 => ProcOK' /\ proc' = proc
  BY DEF TInv, Sound, TypeOK, ProcOK, procVars, Works, Fails
<1> QED BY <1>1, <1>2, <1>3, <1>4, <1>5

\* Whatever the invariant says of every symbol holds of one.
LEMMA Parts ==
    ASSUME TInv, NEW s \in Sym
    PROVE  /\ AlignedAt(s) /\ ledger[s] \in Pos /\ disk.ledger[s] \in Pos
           /\ work[s] \in Work /\ short[s] \in Amount /\ orders[s] \subseteq Order
           /\ fills[s] \in [Eps -> Legs] /\ shown[s] \in [Eps -> Legs]
           /\ virt[s] \in EpOrNone
           /\ halted \in BOOLEAN /\ cum \in Int /\ entries \in [Sym -> Nat]
BY DEF TInv, Sound, TypeOK, TraderOK, TaskOK, ExchOK, LoopOK, Aligned

\* One position changes and is saved.
LEMMA Position ==
    ASSUME TInv, NEW s \in Sym, NEW p \in Pos, ledger' = [ledger EXCEPT ![s] = p],
           UNCHANGED <<halted, cum, entries>>, Save
    PROVE  /\ TraderOK' /\ ledger'[s] = p /\ disk'.ledger = ledger'
           /\ \A t \in Sym \ {s} : ledger'[t] = ledger[t]
<1>1. ledger' \in [Sym -> Pos] /\ ledger'[s] = p /\ \A t \in Sym \ {s} : ledger'[t] = ledger[t]
  BY DEF TInv, Sound, TypeOK, TraderOK
<1>2. halted' \in BOOLEAN /\ cum' \in Int /\ entries' \in [Sym -> Nat]
  BY DEF TInv, Sound, TypeOK, TraderOK
<1> QED BY <1>1, <1>2, Saved

\* The order thread of one symbol goes on.
LEMMA Working ==
    ASSUME TInv, NEW s \in Sym, NEW w \in Work, Do(s, w), queue' \in [Sym -> Seq(Task)]
    PROVE  TaskOK' /\ work'[s] = w /\ \A t \in Sym \ {s} : work'[t] = work[t]
BY DEF Do, TInv, Sound, TypeOK, TaskOK

\* Taking the first task leaves a queue of tasks.
LEMMA Popped ==
    ASSUME TInv, NEW s \in Sym, queue[s] # <<>>, Pop(s)
    PROVE  queue' \in [Sym -> Seq(Task)] /\ Head(queue[s]) \in Task
BY DEF Pop, TInv, Sound, TypeOK, TaskOK

-----------------------------------------------------------------------------
\* An entry signal queues the order of a new episode.
LEMMA OnEntryT == ASSUME TInv, NEW s \in Sym, OnEntry(s) PROVE Sound'
<1> DEFINE ep == lastSig[s] + 1
<1>1. lastSig' = [lastSig EXCEPT ![s] = ep] /\ virt' = [virt EXCEPT ![s] = ep] /\ ep \in Eps
  BY Constants DEF OnEntry, TInv, Sound, TypeOK, LoopOK
<1>3. ProcOK' /\ ExchOK' /\ BookOK' /\ proc' = proc /\ work' = work
  BY DEF OnEntry, TInv, Sound, TypeOK, ProcOK, ExchOK, BookOK, procVars, exchVars, bookVars
<1>4. CASE UNCHANGED <<traderVars, queue, phase>>
  <2>1. LoopOK'
    BY <1>1, <1>4, Constants DEF TInv, Sound, TypeOK, LoopOK
  <2>2. TraderOK' /\ TaskOK' /\ Aligned'
    BY <1>3, <1>4 DEF TInv, Sound, TypeOK, TraderOK, TaskOK, traderVars, Aligned, AlignedAt
  <2> QED BY <1>3, <2>1, <2>2 DEF TInv, Sound, TypeOK
<1>5. CASE TakeSignal(s, ep)
  <2>0. /\ ledger' = [ledger EXCEPT ![s] = Opening(ep)]
        /\ entries' = [entries EXCEPT ![s] = @ + 1]
        /\ queue' = [queue EXCEPT ![s] = Append(@, TaskOf("entry", ep))]
        /\ phase' = [phase EXCEPT ![s] = 0]
        /\ halted' = halted /\ cum' = cum /\ Save
        /\ ledger[s].status = "none"
    BY <1>5 DEF TakeSignal, CanEnter
  <2>1. LoopOK'
    BY <1>1, <2>0, Constants DEF TInv, Sound, TypeOK, LoopOK
  <2>2. ledger' \in [Sym -> Pos] /\ entries' \in [Sym -> Nat]
    BY <1>1, <2>0, Values DEF TInv, Sound, TypeOK, TraderOK
  <2>3. TraderOK' /\ disk'.ledger = ledger'
    BY <2>0, <2>2, Saved DEF TInv, Sound, TypeOK, TraderOK
  <2>4. TaskOf("entry", ep) \in Task
    BY <1>1, Names DEF TaskOf, Task
  <2>5. TaskOK'
    BY <1>3, <2>0, <2>4 DEF TInv, Sound, TypeOK, TaskOK
  <2>6. ledger'[s] = Opening(ep)
    BY <2>0 DEF TInv, Sound, TypeOK, TraderOK
  <2>7. AlignedAt(s)'
    BY <1>1, <1>3, <2>0, <2>3, <2>6, Values DEF TInv, Sound, Aligned, AlignedAt
  <2>8. Aligned'
    BY <1>3, <2>0, <2>3, <2>7, OnlyAt DEF TInv, Sound, TypeOK, TraderOK
  <2> QED BY <1>3, <2>1, <2>3, <2>5, <2>8 DEF TInv, Sound, TypeOK
<1> QED BY <1>4, <1>5 DEF OnEntry

\* An exit signal queues the close.
LEMMA OnExitT == ASSUME TInv, NEW s \in Sym, OnExit(s) PROVE Sound'
<1>1. LoopOK'
  BY Constants DEF OnExit, TInv, Sound, TypeOK, LoopOK
<1>2. ProcOK' /\ ExchOK' /\ BookOK' /\ proc' = proc /\ work' = work
  BY DEF OnExit, TInv, Sound, TypeOK, ProcOK, ExchOK, BookOK, procVars, exchVars, bookVars
<1>3. CASE UNCHANGED <<traderVars, queue>>
  BY <1>1, <1>2, <1>3 DEF TInv, Sound, TypeOK, TraderOK, TaskOK, traderVars, Aligned, AlignedAt
<1>4. CASE RequestExit(s)
  <2> DEFINE p == [ledger[s] EXCEPT !.exitReq = TRUE]
  <2>1. p \in Pos /\ p.ep = ledger[s].ep /\ p.status = ledger[s].status /\ p.qty = ledger[s].qty
    BY Parts, PosUpdates, Names, Constants
  <2>2. /\ TraderOK' /\ ledger'[s] = p /\ disk'.ledger = ledger'
        /\ \A t \in Sym \ {s} : ledger'[t] = ledger[t]
    BY <1>4, <2>1, Position DEF RequestExit
  <2>3. TaskOf("exit", virt[s]) \in Task
    BY Parts, Constants, Names DEF OnExit, TaskOf, Task
  <2>4. TaskOK'
    BY <1>2, <1>4, <2>3 DEF RequestExit, TInv, Sound, TypeOK, TaskOK
  <2>5. AlignedAt(s)'
    BY <1>2, <2>1, <2>2, Parts DEF AlignedAt
  <2>6. Aligned'
    BY <1>2, <2>2, <2>5, OnlyAt
  <2> QED BY <1>1, <1>2, <2>2, <2>4, <2>6 DEF TInv, Sound, TypeOK
<1> QED BY <1>3, <1>4 DEF OnExit

\* periodic changes what position p becomes and what it submits.
LEMMA PeriodicStep ==
    ASSUME TInv, NEW s \in Sym, Periodic(s), NEW p \in Pos,
           p.ep = ledger[s].ep, p.status = ledger[s].status, p.qty = ledger[s].qty,
           ledger' = [ledger EXCEPT ![s] = p], UNCHANGED <<halted, cum, entries>>, Save,
           queue' \in [Sym -> Seq(Task)]
    PROVE  Sound'
<1>1. LoopOK' /\ ProcOK' /\ ExchOK' /\ BookOK' /\ proc' = proc /\ work' = work
  BY DEF Periodic, TInv, Sound, TypeOK, LoopOK, ProcOK, ExchOK, BookOK, loopVars, procVars,
         exchVars, bookVars
<1>2. /\ TraderOK' /\ ledger'[s] = p /\ disk'.ledger = ledger'
      /\ \A t \in Sym \ {s} : ledger'[t] = ledger[t]
  BY Position
<1>3. TaskOK'
  BY <1>1 DEF TInv, Sound, TypeOK, TaskOK
<1>4. AlignedAt(s)'
  BY <1>1, <1>2, Parts DEF AlignedAt
<1>5. Aligned'
  BY <1>1, <1>2, <1>4, OnlyAt
<1> QED BY <1>1, <1>2, <1>3, <1>5 DEF TInv, Sound, TypeOK

\* Periodic queues retries, polls, checks and lost exits.
LEMMA PeriodicT == ASSUME TInv, NEW s \in Sym, Periodic(s) PROVE Sound'
<1>1. ledger[s].ep \in Eps /\ ledger[s] \in Pos
  BY Parts DEF Periodic, AlignedAt
<1>2. \A op \in Op : TaskOf(op, ledger[s].ep) \in Task
  BY <1>1 DEF TaskOf, Task
<1>3. MakerTasks(s) \in Seq(Task)
  BY <1>2, Names DEF MakerTasks
<1>4. (ledger[s].tried \/ PlaceDue(s)) \in BOOLEAN
  OBVIOUS
<1>5. queue \in [Sym -> Seq(Task)]
  BY DEF TInv, Sound, TypeOK, TaskOK
<1>6. CASE PeriodicRetryExit(s)
  <2>1. LoopOK' /\ ProcOK' /\ ExchOK' /\ BookOK' /\ proc' = proc /\ work' = work
    BY DEF Periodic, TInv, Sound, TypeOK, LoopOK, ProcOK, ExchOK, BookOK, loopVars, procVars,
           exchVars, bookVars
  <2>2. queue' \in [Sym -> Seq(Task)]
    BY <1>2, <1>5, <1>6, Names DEF PeriodicRetryExit
  <2>3. TraderOK' /\ TaskOK' /\ Aligned'
    BY <1>6, <2>1, <2>2 DEF PeriodicRetryExit, TInv, Sound, TypeOK, TraderOK, TaskOK, traderVars,
                            Aligned, AlignedAt
  <2> QED BY <2>1, <2>3 DEF TInv, Sound, TypeOK
<1>7. CASE PeriodicSoftExit(s)
  <2> DEFINE b == ledger[s].tried \/ PlaceDue(s)
             p == [ledger[s] EXCEPT !.exitReq = TRUE, !.tried = b]
  <2>1. ledger' = [ledger EXCEPT ![s] = p] /\ UNCHANGED <<halted, cum, entries>> /\ Save
    BY <1>7 DEF PeriodicSoftExit
  <2>2. queue' \in [Sym -> Seq(Task)]
    BY <1>2, <1>3, <1>5, <1>7, Names DEF PeriodicSoftExit
  <2>3. b \in BOOLEAN
    BY <1>4
  <2> HIDE DEF b
  <2>4. p \in Pos /\ p.ep = ledger[s].ep /\ p.status = ledger[s].status /\ p.qty = ledger[s].qty
    BY <1>1, <2>3 DEF Pos
  <2> QED BY <2>1, <2>2, <2>4, PeriodicStep
<1>8. CASE PeriodicWatch(s)
  <2> DEFINE b == ledger[s].tried \/ PlaceDue(s)
             p == [ledger[s] EXCEPT !.tried = b]
  <2>1. ledger' = [ledger EXCEPT ![s] = p] /\ UNCHANGED <<halted, cum, entries>> /\ Save
    BY <1>8 DEF PeriodicWatch
  <2>2. queue' \in [Sym -> Seq(Task)]
    <3>1. PICK check \in {<<>>, <<TaskOf("check", ledger[s].ep)>>} :
             queue' = [queue EXCEPT ![s] = @ \o MakerTasks(s) \o check]
      BY <1>8 DEF PeriodicWatch
    <3>2. TaskOf("check", ledger[s].ep) \in Task
      BY <1>2, Names
    <3>4. CASE check = <<>>
      BY <1>3, <1>5, <3>1, <3>4
    <3>5. CASE check = <<TaskOf("check", ledger[s].ep)>>
      BY <1>3, <1>5, <3>1, <3>2, <3>5
    <3> QED BY <3>4, <3>5
  <2>3. b \in BOOLEAN
    BY <1>4
  <2> HIDE DEF b
  <2>4. p \in Pos /\ p.ep = ledger[s].ep /\ p.status = ledger[s].status /\ p.qty = ledger[s].qty
    BY <1>1, <2>3 DEF Pos
  <2> QED BY <2>1, <2>2, <2>4, PeriodicStep
<1> QED BY <1>6, <1>7, <1>8 DEF Periodic

\* The operator lifts the halt.
LEMMA ConsumeResumeT == ASSUME TInv, ConsumeResume PROVE Sound'
<1>1. LoopOK' /\ ExchOK' /\ BookOK' /\ TaskOK' /\ proc' = proc /\ work' = work
  BY DEF ConsumeResume, TInv, Sound, TypeOK, LoopOK, TaskOK, ExchOK, BookOK, loopVars, procVars,
         exchVars, bookVars, taskVars
<1>2. ProcOK'
  BY DEF ConsumeResume, TInv, Sound, TypeOK, ProcOK, procVars
<1>3. ledger' = ledger /\ entries' = entries /\ halted' = FALSE /\ cum' \in {cum, 0} /\ Save
  BY DEF ConsumeResume
<1>4. TraderOK' /\ disk'.ledger = ledger'
  <2>1. ledger' \in [Sym -> Pos] /\ entries' \in [Sym -> Nat] /\ cum' \in Int
    BY <1>3 DEF TInv, Sound, TypeOK, TraderOK
  <2>2. halted' \in BOOLEAN
    BY <1>3
  <2> QED BY <1>3, <2>1, <2>2, Saved
<1>5. Aligned'
  BY <1>1, <1>3, <1>4 DEF TInv, Sound, Aligned, AlignedAt
<1> QED BY <1>1, <1>2, <1>4, <1>5 DEF TInv, Sound, TypeOK

-----------------------------------------------------------------------------
(* The order thread.                                                       *)

\* A task leaves the queue, or none does.
LEMMA TaskTaken ==
    ASSUME TInv, NEW s \in Sym, (queue[s] # <<>> /\ Pop(s)) \/ queue' = queue
    PROVE  queue' \in [Sym -> Seq(Task)]
BY Popped DEF TInv, Sound, TypeOK, TaskOK

\* A trade is seen late, or is not.
LEMMA SlipsOK ==
    ASSUME TInv, NEW proper \in BOOLEAN, Slips(proper) PROVE slips' \in Nat
BY DEF Slips, TInv, Sound, TypeOK, ExchOK

\* A step of the thread that leaves the ledger alone.
LEMMA WorkStep ==
    ASSUME TInv, NEW s \in Sym, NEW w \in Work, Do(s, w), proc = "up",
           (queue[s] # <<>> /\ Pop(s)) \/ queue' = queue,
           UNCHANGED <<traderVars, OutsideTasks>>, Works \/ Fails, ExchOK',
           w.at # "idle" => w.ep \in Eps,
           w.at \notin {"idle", "store", "halt"} =>
               ledger[s].status # "none" /\ ledger[s].ep = w.ep,
           w.at = "market" => w.legs.maker <= ledger[s].qty
    PROVE  Sound'
<1>1. TraderOK' /\ ledger' = ledger /\ disk' = disk
  BY Frame
<1>2. ProcOK' /\ LoopOK' /\ BookOK' /\ proc' = proc
  BY Frame DEF OutsideTasks
<1>3. TaskOK' /\ work'[s] = w /\ \A t \in Sym \ {s} : work'[t] = work[t]
  BY TaskTaken, Working
<1>4. AlignedAt(s)'
  BY <1>1, <1>2, <1>3, Parts DEF AlignedAt
<1>5. Aligned'
  BY <1>1, <1>2, <1>3, <1>4, OnlyAt
<1> QED BY <1>1, <1>2, <1>3, <1>5 DEF TInv, Sound, TypeOK

\* A step of the thread that changes the position.
LEMMA LedgerStep ==
    ASSUME TInv, NEW s \in Sym, NEW w \in Work, Do(s, w), NEW p \in Pos, proc = "up",
           ledger' = [ledger EXCEPT ![s] = p], UNCHANGED <<halted, cum, entries>>, Save,
           (queue[s] # <<>> /\ Pop(s)) \/ queue' = queue,
           UNCHANGED OutsideTasks, Works \/ Fails, ExchOK',
           p.status # "none" => p.ep \in Eps,
           w.at # "idle" => w.ep \in Eps,
           w.at \notin {"idle", "store", "halt"} => p.status # "none" /\ p.ep = w.ep,
           w.at = "market" => w.legs.maker <= p.qty
    PROVE  Sound'
<1>1. /\ TraderOK' /\ ledger'[s] = p /\ disk'.ledger = ledger'
      /\ \A t \in Sym \ {s} : ledger'[t] = ledger[t]
  BY Position
<1>2. ProcOK' /\ LoopOK' /\ BookOK' /\ proc' = proc
  BY Frame DEF OutsideTasks
<1>3. TaskOK' /\ work'[s] = w /\ \A t \in Sym \ {s} : work'[t] = work[t]
  BY TaskTaken, Working
<1>4. AlignedAt(s)'
  BY <1>1, <1>2, <1>3 DEF AlignedAt
<1>5. Aligned'
  BY <1>1, <1>2, <1>3, <1>4, OnlyAt
<1> QED BY <1>1, <1>2, <1>3, <1>5 DEF TInv, Sound, TypeOK

\* A task that Live lets through is about the position in the ledger.
LEMMA LiveEp ==
    ASSUME TInv, NEW s \in Sym, NEW op \in Op, HeadIs(s, op), Live(s, Head(queue[s]))
    PROVE  /\ ledger[s].status # "none" /\ ledger[s].ep \in Eps
           /\ proc = "up" /\ queue[s] # <<>> /\ work[s].at = "idle"
<1>1. ledger[s].status # "none"
  BY DEF Live, HeadIs, Op
<1> QED BY <1>1, Parts DEF HeadIs, AlignedAt

\* A task that finds nothing to do.
LEMMA DropTaskT == ASSUME TInv, NEW s \in Sym, DropTask(s) PROVE Sound'
<1>1. TraderOK' /\ LoopOK' /\ ExchOK' /\ BookOK' /\ ledger' = ledger /\ disk' = disk
  BY Frame DEF DropTask, OutsideTasks
<1>2. ProcOK' /\ proc' = proc /\ work' = work
  BY Frame DEF DropTask, OutsideTasks, Works
<1>3. TaskOK'
  BY <1>2, Popped DEF DropTask, TInv, Sound, TypeOK, TaskOK
<1>4. Aligned'
  BY <1>1, <1>2 DEF TInv, Sound, Aligned, AlignedAt
<1> QED BY <1>1, <1>2, <1>3, <1>4 DEF TInv, Sound, TypeOK

\* The exchange is asked for its position.
LEMMA EntryAsksT == ASSUME TInv, NEW s \in Sym, EntryAsks(s) PROVE Sound'
<1>1. /\ ledger[s].status # "none" /\ ledger[s].ep \in Eps
      /\ proc = "up" /\ queue[s] # <<>> /\ Pop(s)
  BY LiveEp, Names DEF EntryAsks
<1>2. ExchOK'
  BY Frame DEF EntryAsks
<1>3. LET w == At("asked", ledger[s].ep)
      IN  w \in Work /\ w.at = "asked" /\ w.ep = ledger[s].ep /\ Do(s, w)
  BY <1>1, Values, Names DEF EntryAsks
<1> QED BY <1>1, <1>2, <1>3, WorkStep DEF EntryAsks, Works

\* The entry is not sent, or is refused.
LEMMA EntryRefusedT == ASSUME TInv, NEW s \in Sym, EntryRefused(s) PROVE Sound'
<1>1. LoopOK' /\ ExchOK' /\ BookOK'
  BY Frame DEF EntryRefused
<1>2. ProcOK' /\ proc' = proc
  <2>1. guardHalted' \in [Sym -> BOOLEAN]
    BY DEF EntryRefused, TInv, Sound, TypeOK, ProcOK
  <2> QED BY <2>1 DEF EntryRefused, TInv, Sound, TypeOK, ProcOK, procVars
<1>3. /\ TraderOK' /\ ledger'[s] = Flat /\ disk'.ledger = ledger'
      /\ \A t \in Sym \ {s} : ledger'[t] = ledger[t]
  BY Position, Values DEF EntryRefused, Discard
<1>4. TaskOK' /\ work'[s].at = "idle" /\ \A t \in Sym \ {s} : work'[t] = work[t]
  <2>1. CASE HeadIs(s, "entry") /\ Pop(s) /\ work' = work
    BY <2>1, Popped DEF HeadIs, TInv, Sound, TypeOK, TaskOK
  <2>2. CASE Do(s, Idle) /\ queue' = queue
    <3>1. queue' \in [Sym -> Seq(Task)]
      BY <2>2 DEF TInv, Sound, TypeOK, TaskOK
    <3> QED BY <2>2, <3>1, Values, Working
  <2> QED BY <2>1, <2>2 DEF EntryRefused
<1>5. AlignedAt(s)'
  BY <1>2, <1>3, <1>4, Values DEF AlignedAt
<1>6. Aligned'
  BY <1>2, <1>3, <1>4, <1>5, OnlyAt
<1> QED BY <1>1, <1>2, <1>3, <1>4, <1>6 DEF TInv, Sound, TypeOK

\* The entry fills, whole or in part, and its answer may be lost.
LEMMA EntryFillsT == ASSUME TInv, NEW s \in Sym, EntryFills(s) PROVE Sound'
<1>1. /\ ledger[s].status # "none" /\ ledger[s].ep = work[s].ep /\ work[s].ep \in Eps
      /\ proc = "up" /\ queue' = queue /\ UNCHANGED <<traderVars, OutsideTasks>>
  BY Parts DEF EntryFills, AlignedAt
<1>2. PICK got \in 1..Qty : \E seen \in 0..got :
        /\ short' = [short EXCEPT ![s] = @ + got]
        /\ Slips(EntryQty(got, seen) = got)
        /\ \/ Works /\ Do(s, [work[s] EXCEPT !.at = "filled", !.got = EntryQty(got, seen)])
           \/ (Works \/ Fails) /\ Do(s, [work[s] EXCEPT !.at = "lost"])
  BY DEF EntryFills
<1>7. PICK seen \in 0..got :
        /\ Slips(EntryQty(got, seen) = got)
        /\ \/ Works /\ Do(s, [work[s] EXCEPT !.at = "filled", !.got = EntryQty(got, seen)])
           \/ (Works \/ Fails) /\ Do(s, [work[s] EXCEPT !.at = "lost"])
  BY <1>2
<1>3. short[s] + got \in Amount /\ EntryQty(got, seen) \in Amount
  <2>1. short[s] = 0
    BY DEF EntryFills, TInv, Empty
  <2>2. EntryQty(got, seen) \in Nat /\ EntryQty(got, seen) <= Qty
    BY Constants DEF EntryQty
  <2> QED BY <2>1, <2>2, Constants
<1>4. ExchOK'
  <2>1. slips' \in Nat
    BY <1>7, SlipsOK
  <2> QED BY <1>2, <1>3, <2>1 DEF EntryFills, TInv, Sound, TypeOK, ExchOK
<1>5. CASE Works /\ Do(s, [work[s] EXCEPT !.at = "filled", !.got = EntryQty(got, seen)])
  <2> DEFINE q == EntryQty(got, seen)
             w == [work[s] EXCEPT !.at = "filled", !.got = q]
  <2> HIDE DEF q
  <2>1. q \in Amount
    BY <1>3 DEF q
  <2>2. w \in Work /\ w.at = "filled" /\ w.ep = work[s].ep
    BY <2>1, Parts, Names DEF Work
  <2>3. Do(s, w)
    BY <1>5 DEF q
  <2> QED BY <1>1, <1>4, <1>5, <2>2, <2>3, WorkStep
<1>6. CASE (Works \/ Fails) /\ Do(s, [work[s] EXCEPT !.at = "lost"])
  <2> DEFINE w == [work[s] EXCEPT !.at = "lost"]
  <2>1. w \in Work /\ w.at = "lost" /\ w.ep = work[s].ep
    BY Parts, Names DEF Work
  <2> QED BY <1>1, <1>4, <1>6, <2>1, WorkStep
<1> QED BY <1>5, <1>6, <1>7

\* The entry is dropped from the ledger after an error.
LEMMA EntryLostT == ASSUME TInv, NEW s \in Sym, EntryLost(s) PROVE Sound'
<1>1. ExchOK'
  BY Frame DEF EntryLost
<1> QED BY <1>1, LedgerStep, Values DEF EntryLost, Discard, Works

\* The order that place_stop sends is an order.
LEMMA StopOrderOK == \A ep \in Eps : StopOrder(ep) \in Order
BY Constants, Names DEF StopOrder, Order

\* The emergency stop is sent.
LEMMA PlaceStopT == ASSUME TInv, NEW s \in Sym, PlaceStop(s) PROVE Sound'
<1>1. work[s].ep \in Eps /\ ledger[s].status # "none" /\ ledger[s].ep = work[s].ep
  BY Parts DEF PlaceStop, AlignedAt
<1>2. PICK placed \in BOOLEAN, known \in BOOLEAN :
        /\ orders' = [orders EXCEPT ![s] =
                          IF placed THEN @ \cup {StopOrder(work[s].ep)} ELSE @]
        /\ Do(s, [work[s] EXCEPT !.at = "stopped", !.set = known])
        /\ Works \/ Fails
  BY DEF PlaceStop
<1>3. ExchOK'
  BY <1>1, <1>2, StopOrderOK DEF PlaceStop, TInv, Sound, TypeOK, ExchOK
<1> DEFINE w == [work[s] EXCEPT !.at = "stopped", !.set = known]
<1>4. w \in Work /\ w.at = "stopped" /\ w.ep = work[s].ep
  BY Parts, Names DEF Work
<1> QED BY <1>1, <1>2, <1>3, <1>4, WorkStep DEF PlaceStop

\* The filled entry is saved.
LEMMA EntryDoneT == ASSUME TInv, NEW s \in Sym, EntryDone(s) PROVE Sound'
<1>1. work[s].ep \in Eps /\ ledger[s].status # "none" /\ ledger[s].ep = work[s].ep
  BY Parts DEF EntryDone, AlignedAt
<1>2. ExchOK'
  BY Frame DEF EntryDone
<1> DEFINE q == work[s].got
           b == work[s].set
           p == [ledger[s] EXCEPT !.status = "open", !.qty = q, !.stop = b]
<1>3. q \in Amount /\ b \in BOOLEAN
  BY Parts DEF Work
<1>4. /\ ledger' = [ledger EXCEPT ![s] = p] /\ UNCHANGED <<halted, cum, entries>> /\ Save
      /\ Do(s, Idle) /\ Works /\ queue' = queue /\ proc = "up" /\ UNCHANGED OutsideTasks
  BY DEF EntryDone, Works
<1> HIDE DEF q, b
<1>5. p \in Pos /\ p.ep = ledger[s].ep
  BY <1>3, Parts, Names DEF Pos
<1>6. Idle \in Work /\ Idle.at = "idle"
  BY Values
<1> QED BY <1>1, <1>2, <1>4, <1>5, <1>6, LedgerStep

\* The maker exit is sent.
LEMMA PlaceMakerT == ASSUME TInv, NEW s \in Sym, PlaceMaker(s) PROVE Sound'
<1>1. /\ ledger[s].status # "none" /\ ledger[s].ep \in Eps
      /\ proc = "up" /\ queue[s] # <<>> /\ Pop(s) /\ work[s].at = "idle"
  BY LiveEp, Names DEF PlaceMaker
<1>2. MakerOrder(ledger[s].ep, ledger[s].qty) \in Order
  BY <1>1, Parts, Names DEF MakerOrder, Order, Pos
<1>3. ExchOK'
  BY <1>2 DEF PlaceMaker, TInv, Sound, TypeOK, ExchOK
<1>4. CASE UNCHANGED work /\ (Works \/ Fails)
  <2>1. Do(s, work[s])
    BY <1>4 DEF Do, TInv, Sound, TypeOK, TaskOK
  <2> QED BY <1>1, <1>3, <1>4, <2>1, Parts, WorkStep DEF PlaceMaker
<1>5. CASE Works /\ Do(s, At("makerset", ledger[s].ep))
  BY <1>1, <1>3, <1>5, WorkStep, Values, Names DEF PlaceMaker
<1> QED BY <1>4, <1>5 DEF PlaceMaker

\* The maker exit is saved.
LEMMA MakerSetT == ASSUME TInv, NEW s \in Sym, MakerSet(s) PROVE Sound'
<1>1. ledger[s].ep \in Eps
  BY Parts DEF MakerSet, AlignedAt
<1>2. ExchOK'
  BY Frame DEF MakerSet
<1> DEFINE p == [ledger[s] EXCEPT !.maker = TRUE]
<1>3. p \in Pos /\ p.ep = ledger[s].ep
  BY Parts DEF Pos
<1>4. /\ ledger' = [ledger EXCEPT ![s] = p] /\ UNCHANGED <<halted, cum, entries>> /\ Save
      /\ Do(s, Idle) /\ Works /\ queue' = queue /\ proc = "up" /\ UNCHANGED OutsideTasks
  BY DEF MakerSet, Works
<1>5. Idle \in Work /\ Idle.at = "idle"
  BY Values
<1> QED BY <1>1, <1>2, <1>3, <1>4, <1>5, LedgerStep

\* What was filled of the maker exit and of the stop is a number.
LEMMA FilledOK ==
    ASSUME TInv, NEW s \in Sym, ledger[s].ep \in Eps
    PROVE  Filled(s, "maker") \in Nat /\ Filled(s, "stop") \in Nat
BY Parts DEF Filled, Legs

\* The maker exit is looked up.
LEMMA PollMakerT == ASSUME TInv, NEW s \in Sym, PollMaker(s) PROVE Sound'
<1>1. /\ ledger[s].status # "none" /\ ledger[s].ep \in Eps
      /\ proc = "up" /\ queue[s] # <<>> /\ Pop(s) /\ work[s].at = "idle"
  BY LiveEp, Names DEF PollMaker
<1>2. ExchOK'
  BY Frame DEF PollMaker
<1>3. CASE UNCHANGED work /\ (Works \/ Fails)
  <2>1. Do(s, work[s])
    BY <1>3 DEF Do, TInv, Sound, TypeOK, TaskOK
  <2> QED BY <1>1, <1>2, <1>3, <2>1, Parts, WorkStep DEF PollMaker
<1>4. CASE Works /\ Do(s, [At("cancel", ledger[s].ep) EXCEPT !.legs.maker = ledger[s].qty])
  <2> DEFINE v == At("cancel", ledger[s].ep)
             l == [v.legs EXCEPT !.maker = ledger[s].qty]
             w == [v EXCEPT !.legs = l]
  <2>1. v \in Work /\ v.at = "cancel" /\ v.ep = ledger[s].ep
    BY <1>1, Values, Names
  <2>2. l \in Legs
    <3>1. ledger[s].qty \in Nat
      BY Parts, Constants DEF Pos
    <3>2. v.legs \in Legs
      BY <2>1 DEF Work
    <3> QED BY <3>1, <3>2, LegsUpdates
  <2> HIDE DEF l, v
  <2>3. w \in Work /\ w.at = "cancel" /\ w.ep = ledger[s].ep
    BY <2>1, <2>2 DEF Work
  <2>4. Do(s, w)
    BY <1>4 DEF v, l
  <2> QED BY <1>1, <1>2, <1>4, <2>3, <2>4, WorkStep DEF PollMaker
<1> QED BY <1>3, <1>4 DEF PollMaker

\* The close begins.
LEMMA ExitStartT == ASSUME TInv, NEW s \in Sym, ExitStart(s) PROVE Sound'
<1>1. /\ ledger[s].status # "none" /\ ledger[s].ep \in Eps
      /\ proc = "up" /\ queue[s] # <<>> /\ Pop(s) /\ work[s].at = "idle"
  BY LiveEp, Names DEF ExitStart
<1>2. ExchOK'
  BY Frame DEF ExitStart
<1> DEFINE at == IF ledger[s].maker THEN "maker" ELSE "market"
           w == At(at, ledger[s].ep)
           p == [ledger[s] EXCEPT !.status = "closing"]
<1>3. at \in Step /\ at \notin {"idle", "store", "halt"}
  BY Names
<1>4. p \in Pos /\ p.ep = ledger[s].ep /\ p.status = "closing" /\ p.qty \in Nat
  BY Parts, Names, Constants DEF Pos
<1>5. w \in Work /\ w.at = at /\ w.ep = ledger[s].ep /\ w.legs = NoLegs
  BY <1>1, <1>3, Values
<1>6. w.legs.maker <= p.qty
  BY <1>4, <1>5 DEF NoLegs
<1>7. /\ ledger' = [ledger EXCEPT ![s] = p] /\ UNCHANGED <<halted, cum, entries>> /\ Save
      /\ Do(s, w) /\ Works /\ UNCHANGED OutsideTasks
  BY DEF ExitStart, SetStatus, Works
<1> HIDE DEF p, w, at
<1> QED BY <1>1, <1>2, <1>3, <1>4, <1>5, <1>6, <1>7, LedgerStep

\* The maker exit is cancelled before the market exit.
LEMMA CloseMakerT == ASSUME TInv, NEW s \in Sym, CloseMaker(s) PROVE Sound'
<1>1. /\ work[s].ep \in Eps /\ ledger[s].status # "none" /\ ledger[s].ep = work[s].ep
      /\ proc = "up" /\ queue' = queue /\ UNCHANGED <<traderVars, OutsideTasks>>
  BY Parts DEF CloseMaker, AlignedAt
<1> DEFINE at(m) == IF m >= ledger[s].qty THEN "cancel" ELSE "market"
           w(m) == [work[s] EXCEPT !.at = at(m), !.legs.maker = m]
<1>2. PICK m \in 0..Filled(s, "maker"), cancel \in BOOLEAN :
        /\ Works \/ Fails
        /\ orders' = [orders EXCEPT ![s] =
                         IF cancel THEN @ \ OrdersOf(s, "maker", work[s].ep) ELSE @]
        /\ Do(s, w(m))
  BY DEF CloseMaker
<1>3. ExchOK'
  BY <1>2 DEF CloseMaker, TInv, Sound, TypeOK, ExchOK
<1>4. m \in Nat /\ ledger[s].qty \in Nat
  BY <1>1, <1>2, FilledOK, Parts, Constants DEF Pos
<1> DEFINE l == [work[s].legs EXCEPT !.maker = m]
<1>5. l \in Legs /\ l.maker = m
  BY <1>4, Parts, LegsUpdates DEF Work
<1> HIDE DEF l
<1>6. [work[s] EXCEPT !.at = at(m), !.legs = l] \in Work
  BY <1>5, Parts, Names DEF Work
<1>7. LET v == [work[s] EXCEPT !.at = at(m), !.legs = l]
      IN  v.at = at(m) /\ v.ep = work[s].ep /\ v.legs = l
  BY <1>5, Parts, Names DEF Work
<1>8. Do(s, [work[s] EXCEPT !.at = at(m), !.legs = l])
  BY <1>2 DEF l
<1>9. at(m) = "market" => m <= ledger[s].qty
  BY <1>4
<1> QED BY <1>1, <1>2, <1>3, <1>5, <1>6, <1>7, <1>8, <1>9, WorkStep

\* The rest that the market exit buys is at most the short that is left.
LEMMA ExitRestOK ==
    ASSUME TInv, NEW s \in Sym, work[s].at = "market"
    PROVE  /\ ExitRest(s) \in Nat /\ ExitRest(s) <= short[s] /\ short[s] \in Nat
           /\ ExitWant(s) \in Nat /\ ExitRest(s) <= ExitWant(s)
           /\ ExitRest(s) = ExitWant(s) \/ ExitRest(s) = short[s]
<1>1. work[s].legs.maker \in Nat /\ ledger[s].qty \in Nat /\ short[s] \in Nat
  BY Parts, Constants DEF Work, Legs, Pos
<1>2. work[s].legs.maker <= ledger[s].qty
  BY Parts DEF AlignedAt
<1> QED BY <1>1, <1>2 DEF ExitRest, ExitWant, Lesser

\* More bought back by one leg gives legs.
LEMMA LegsMore ==
    ASSUME NEW l \in Legs, NEW n \in Nat, NEW leg \in {"maker", "market", "stop", "other"}
    PROVE  [l EXCEPT ![leg] = @ + n] \in Legs
<1>1. l.maker + n \in Nat /\ l.market + n \in Nat /\ l.stop + n \in Nat /\ l.other + n \in Nat
  BY DEF Legs
<1>2. \/ [l EXCEPT ![leg] = @ + n] = [l EXCEPT !.maker = l.maker + n]
      \/ [l EXCEPT ![leg] = @ + n] = [l EXCEPT !.market = l.market + n]
      \/ [l EXCEPT ![leg] = @ + n] = [l EXCEPT !.stop = l.stop + n]
      \/ [l EXCEPT ![leg] = @ + n] = [l EXCEPT !.other = l.other + n]
  OBVIOUS
<1> QED BY <1>1, <1>2, LegsUpdates

\* So does a table of them, when one of its entries gets more.
LEMMA TableMore ==
    ASSUME NEW f \in [Sym -> [Eps -> Legs]], NEW s \in Sym, NEW ep \in Eps, NEW n \in Nat,
           NEW leg \in {"maker", "market", "stop", "other"}
    PROVE  [f EXCEPT ![s][ep][leg] = @ + n] \in [Sym -> [Eps -> Legs]]
<1> DEFINE l == [f[s][ep] EXCEPT ![leg] = @ + n]
<1>1. l \in Legs
  BY LegsMore
<1>2. [f EXCEPT ![s][ep][leg] = @ + n] = [f EXCEPT ![s] = [f[s] EXCEPT ![ep] = l]]
  OBVIOUS
<1> HIDE DEF l
<1> QED BY <1>1, <1>2

\* Buying back at most the short leaves the exchange with its types.
LEMMA BuyBackOK ==
    ASSUME TInv, NEW s \in Sym, work[s].ep \in Eps, NEW k \in Nat, k <= short[s],
           NEW v \in Nat, BuyBack(s, k, v), slips' \in Nat
    PROVE  ExchOK'
<1>1. short[s] \in Amount /\ short[s] - k \in Amount
  BY Parts, TraderAssumption DEF Amount
<1>2. short' \in [Sym -> Amount]
  BY <1>1 DEF BuyBack, TInv, Sound, TypeOK, ExchOK
<1>3. orders' \in [Sym -> SUBSET Order]
  BY DEF BuyBack, Swept, TInv, Sound, TypeOK, ExchOK
<1>4. fills \in [Sym -> [Eps -> Legs]] /\ shown \in [Sym -> [Eps -> Legs]]
  BY DEF TInv, Sound, TypeOK, ExchOK
<1>5. fills' \in [Sym -> [Eps -> Legs]]
  BY <1>4, TableMore DEF BuyBack
<1>6. shown' \in [Sym -> [Eps -> Legs]]
  BY <1>4, TableMore DEF BuyBack
<1> QED BY <1>2, <1>3, <1>5, <1>6 DEF ExchOK

\* The market exit fills.
LEMMA ExitFillsT == ASSUME TInv, NEW s \in Sym, ExitFills(s) PROVE Sound'
<1>1. /\ work[s].ep \in Eps /\ ledger[s].status # "none" /\ ledger[s].ep = work[s].ep
      /\ proc = "up" /\ queue' = queue /\ UNCHANGED <<traderVars, OutsideTasks>>
      /\ work[s].at = "market" /\ Works
  BY Parts DEF ExitFills, AlignedAt, Works
<1>7. PICK k \in 0..ExitRest(s) : \E v \in 0..k :
        /\ BuyBack(s, k, v) /\ Slips(k = ExitRest(s) /\ v = k)
        /\ \/ Do(s, [work[s] EXCEPT !.at = "cancel", !.legs.market = IF v > 0 THEN v ELSE k])
           \/ Do(s, [work[s] EXCEPT !.at = "force"])
  BY DEF ExitFills
<1>2. PICK v \in 0..k :
        /\ BuyBack(s, k, v) /\ Slips(k = ExitRest(s) /\ v = k)
        /\ \/ Do(s, [work[s] EXCEPT !.at = "cancel", !.legs.market = IF v > 0 THEN v ELSE k])
           \/ Do(s, [work[s] EXCEPT !.at = "force"])
  BY <1>7
<1>3. k \in Nat /\ v \in Nat /\ k <= short[s]
  BY <1>1, ExitRestOK
<1>4. ExchOK'
  <2>1. slips' \in Nat
    BY <1>2, SlipsOK
  <2> QED BY <1>1, <1>2, <1>3, <2>1, BuyBackOK
<1>5. CASE Do(s, [work[s] EXCEPT !.at = "cancel", !.legs.market = IF v > 0 THEN v ELSE k])
  <2> DEFINE n == IF v > 0 THEN v ELSE k
             l == [work[s].legs EXCEPT !.market = n]
  <2>1. n \in Nat
    BY <1>3
  <2> HIDE DEF n
  <2>2. l \in Legs
    BY <2>1, Parts, LegsUpdates DEF Work
  <2>3. Do(s, [work[s] EXCEPT !.at = "cancel", !.legs = l])
    BY <1>5 DEF n
  <2> HIDE DEF l
  <2> DEFINE w == [work[s] EXCEPT !.at = "cancel", !.legs = l]
  <2>4. w \in Work /\ w.at = "cancel" /\ w.ep = work[s].ep
    BY <2>2, Parts, Names DEF Work
  <2> QED BY <1>1, <1>4, <2>3, <2>4, WorkStep
<1>6. CASE Do(s, [work[s] EXCEPT !.at = "force"])
  <2> DEFINE w == [work[s] EXCEPT !.at = "force"]
  <2>1. w \in Work /\ w.at = "force" /\ w.ep = work[s].ep
    BY Parts, Names DEF Work
  <2> QED BY <1>1, <1>4, <1>6, <2>1, WorkStep
<1> QED BY <1>2, <1>5, <1>6

\* The market exit finds no position.
LEMMA ExitExpiresT == ASSUME TInv, NEW s \in Sym, ExitExpires(s) PROVE Sound'
<1>1. /\ work[s].ep \in Eps /\ ledger[s].status # "none" /\ ledger[s].ep = work[s].ep
      /\ proc = "up" /\ queue' = queue /\ UNCHANGED <<traderVars, OutsideTasks>> /\ Works
  BY Parts DEF ExitExpires, AlignedAt, Works
<1>2. ExchOK'
  BY Frame DEF ExitExpires
<1> DEFINE at == IF work[s].legs.maker = 0 THEN "force" ELSE "cancel"
           w == [work[s] EXCEPT !.at = at]
<1>3. Do(s, w)
  BY DEF ExitExpires
<1>4. at \in Step /\ at \notin {"idle", "market"}
  BY Names
<1> HIDE DEF at
<1>5. w \in Work /\ w.at = at /\ w.ep = work[s].ep
  BY <1>4, Parts DEF Work
<1> QED BY <1>1, <1>2, <1>3, <1>4, <1>5, WorkStep

\* The market exit fails and is retried.
LEMMA ExitFailsT == ASSUME TInv, NEW s \in Sym, ExitFails(s) PROVE Sound'
<1>1. /\ work[s].ep \in Eps /\ ledger[s].status # "none" /\ ledger[s].ep = work[s].ep
      /\ proc = "up" /\ queue' = queue /\ UNCHANGED OutsideTasks
      /\ work[s].at = "market" /\ (Works \/ Fails)
  BY Parts DEF ExitFails, AlignedAt
<1>7. PICK k \in 0..ExitRest(s) : \E v \in {0, k} :
         /\ BuyBack(s, k, v)
         /\ slips' = slips \/ Slips(FALSE)
  BY DEF ExitFails
<1>2. PICK v \in {0, k} : BuyBack(s, k, v) /\ (slips' = slips \/ Slips(FALSE))
  BY <1>7
<1>3. ExchOK'
  <2>1. k \in Nat /\ k <= short[s] /\ v \in Nat
    BY <1>1, <1>2, ExitRestOK
  <2>2. slips' \in Nat
    BY <1>2, SlipsOK DEF TInv, Sound, TypeOK, ExchOK
  <2> QED BY <1>1, <1>2, <2>1, <2>2, BuyBackOK
<1> DEFINE p == [ledger[s] EXCEPT !.status = "open"]
<1>4. p \in Pos /\ p.ep = ledger[s].ep
  BY Parts, Names DEF Pos
<1>5. /\ ledger' = [ledger EXCEPT ![s] = p] /\ UNCHANGED <<halted, cum, entries>> /\ Save
      /\ Do(s, Idle)
  BY DEF ExitFails, SetStatus
<1>6. Idle \in Work /\ Idle.at = "idle"
  BY Values
<1> QED BY <1>1, <1>3, <1>4, <1>5, <1>6, LedgerStep

\* After a failed exit the position is looked up.
LEMMA ForceCheckT == ASSUME TInv, NEW s \in Sym, ForceCheck(s) PROVE Sound'
<1>1. /\ work[s].ep \in Eps /\ ledger[s].status # "none" /\ ledger[s].ep = work[s].ep
      /\ proc = "up" /\ queue' = queue /\ UNCHANGED <<traderVars, OutsideTasks>>
  BY Parts DEF ForceCheck, AlignedAt
<1>2. ExchOK'
  BY Frame DEF ForceCheck
<1> DEFINE k == StopTaken(s)
           l == [work[s].legs EXCEPT !.stop = k]
<1>3. l \in Legs
  <2>1. k \in Nat
    <3>1. ledger[s].qty \in Nat
      BY Parts, Constants DEF Pos
    <3> QED BY <1>1, <3>1, FilledOK DEF StopTaken
  <2> HIDE DEF k
  <2> QED BY <2>1, Parts, LegsUpdates DEF Work
<1>4. CASE Works /\ Do(s, [work[s] EXCEPT !.at = "finalize", !.legs.stop = k])
  <2>1. Do(s, [work[s] EXCEPT !.at = "finalize", !.legs = l])
    BY <1>4
  <2> HIDE DEF l
  <2> DEFINE w == [work[s] EXCEPT !.at = "finalize", !.legs = l]
  <2>2. w \in Work /\ w.at = "finalize" /\ w.ep = work[s].ep
    BY <1>3, Parts, Names DEF Work
  <2> QED BY <1>1, <1>2, <1>4, <2>1, <2>2, WorkStep
<1>5. CASE Fails /\ Do(s, [work[s] EXCEPT !.at = "finalize"])
  <2> DEFINE w == [work[s] EXCEPT !.at = "finalize"]
  <2>1. w \in Work /\ w.at = "finalize" /\ w.ep = work[s].ep
    BY Parts, Names DEF Work
  <2> QED BY <1>1, <1>2, <1>5, <2>1, WorkStep
<1> QED BY <1>4, <1>5 DEF ForceCheck

\* The stop is looked up.
LEMMA CheckStopT == ASSUME TInv, NEW s \in Sym, CheckStop(s) PROVE Sound'
<1>1. /\ ledger[s].status # "none" /\ ledger[s].ep \in Eps
      /\ proc = "up" /\ queue[s] # <<>> /\ Pop(s) /\ work[s].at = "idle"
  BY LiveEp, Names DEF CheckStop
<1>2. ExchOK'
  BY Frame DEF CheckStop
<1>3. CASE UNCHANGED work /\ (Works \/ Fails)
  <2>1. Do(s, work[s])
    BY <1>3 DEF Do, TInv, Sound, TypeOK, TaskOK
  <2> QED BY <1>1, <1>2, <1>3, <2>1, Parts, WorkStep DEF CheckStop
<1>4. CASE Works /\ Do(s, [At("finalize", ledger[s].ep) EXCEPT !.legs.stop = Filled(s, "stop")])
  <2> DEFINE v == At("finalize", ledger[s].ep)
             l == [v.legs EXCEPT !.stop = Filled(s, "stop")]
             w == [v EXCEPT !.legs = l]
  <2>1. v \in Work /\ v.at = "finalize" /\ v.ep = ledger[s].ep
    BY <1>1, Values, Names
  <2>2. l \in Legs
    BY <1>1, <2>1, FilledOK, LegsUpdates DEF Work
  <2> HIDE DEF l, v
  <2>3. w \in Work /\ w.at = "finalize" /\ w.ep = ledger[s].ep
    BY <2>1, <2>2 DEF Work
  <2>4. Do(s, w)
    BY <1>4 DEF v, l
  <2> QED BY <1>1, <1>2, <1>4, <2>3, <2>4, WorkStep DEF CheckStop
<1> QED BY <1>3, <1>4 DEF CheckStop

\* The stop is cancelled.
LEMMA CancelStopT == ASSUME TInv, NEW s \in Sym, CancelStop(s) PROVE Sound'
<1>1. /\ work[s].ep \in Eps /\ ledger[s].status # "none" /\ ledger[s].ep = work[s].ep
      /\ proc = "up" /\ queue' = queue /\ UNCHANGED <<traderVars, OutsideTasks>>
      /\ Works \/ Fails
  BY Parts DEF CancelStop, AlignedAt
<1>2. ExchOK'
  BY DEF CancelStop, OrdersOf, TInv, Sound, TypeOK, ExchOK
<1> DEFINE w == [work[s] EXCEPT !.at = "finalize"]
<1>3. w \in Work /\ w.at = "finalize" /\ w.ep = work[s].ep
  BY Parts, Names DEF Work
<1> QED BY <1>1, <1>2, <1>3, WorkStep DEF CancelStop

\* Booking leaves nothing in the ledger.
LEMMA BookOKs ==
    ASSUME TInv, NEW s \in Sym, NEW ep \in Eps, NEW legs \in Legs,
           NEW net \in NetsOf(legs), Book(s, ep, legs, net)
    PROVE  /\ TraderOK' /\ ledger'[s] = Flat /\ disk'.ledger = ledger'
           /\ \A t \in Sym \ {s} : ledger'[t] = ledger[t]
           /\ booked' \in [Sym -> [Eps -> [n : Nat, legs : Legs, net : Int]]]
<1>1. net \in Int
  BY Constants DEF NetsOf
<1>2. /\ cum' = cum + net /\ halted' = (halted \/ cum' <= -StopLine)
      /\ ledger' = [ledger EXCEPT ![s] = Flat] /\ entries' = entries /\ Save
      /\ booked' = [booked EXCEPT ![s][ep] = [n |-> @.n + 1, legs |-> legs, net |-> net]]
  BY DEF Book
<1>3. /\ ledger' \in [Sym -> Pos] /\ ledger'[s] = Flat
      /\ \A t \in Sym \ {s} : ledger'[t] = ledger[t]
  BY <1>2, Values DEF TInv, Sound, TypeOK, TraderOK
<1>4. cum' \in Int /\ entries' \in [Sym -> Nat]
  BY <1>1, <1>2 DEF TInv, Sound, TypeOK, TraderOK
<1>5. halted' \in BOOLEAN
  BY <1>2
<1>6. booked' \in [Sym -> [Eps -> [n : Nat, legs : Legs, net : Int]]]
  BY <1>1, <1>2 DEF TInv, Sound, TypeOK, BookOK
<1> QED BY <1>2, <1>3, <1>4, <1>5, <1>6, Saved

\* The result is computed and added to the sum.
LEMMA FinalizeT == ASSUME TInv, NEW s \in Sym, Finalize(s) PROVE Sound'
<1>1. /\ work[s] \in Work /\ work[s].ep \in Eps /\ work[s].legs \in Legs
      /\ proc = "up" /\ queue' = queue
  BY Parts DEF Finalize, AlignedAt, Work
<1>2. PICK net \in NetsOf(work[s].legs) : Book(s, work[s].ep, work[s].legs, net)
  BY DEF Finalize
<1>3. /\ TraderOK' /\ ledger'[s] = Flat /\ disk'.ledger = ledger'
      /\ \A t \in Sym \ {s} : ledger'[t] = ledger[t]
      /\ booked' \in [Sym -> [Eps -> [n : Nat, legs : Legs, net : Int]]]
  BY <1>1, <1>2, BookOKs
<1>4. BookOK'
  BY <1>3 DEF Finalize, TInv, Sound, TypeOK, BookOK
<1>5. LoopOK' /\ ExchOK' /\ ProcOK' /\ proc' = proc
  BY Frame DEF Finalize, Works
<1> DEFINE w == [work[s] EXCEPT !.at = "store"]
<1>6. w \in Work /\ w.at = "store" /\ w.ep = work[s].ep
  BY <1>1, Names DEF Work
<1>7. TaskOK' /\ work'[s] = w /\ \A t \in Sym \ {s} : work'[t] = work[t]
  <2>1. Do(s, w) /\ queue' \in [Sym -> Seq(Task)]
    BY <1>1 DEF Finalize, TInv, Sound, TypeOK, TaskOK
  <2> QED BY <1>6, <2>1, Working
<1>8. AlignedAt(s)'
  BY <1>1, <1>3, <1>5, <1>6, <1>7, Values DEF AlignedAt
<1>9. Aligned'
  BY <1>3, <1>5, <1>7, <1>8, OnlyAt
<1> QED BY <1>3, <1>4, <1>5, <1>7, <1>9 DEF TInv, Sound, TypeOK

\* The trade log is written.
LEMMA StoreTradeT == ASSUME TInv, NEW s \in Sym, StoreTrade(s) PROVE Sound'
<1>1. work[s] \in Work /\ work[s].ep \in Eps /\ proc = "up" /\ queue' = queue
  BY Parts DEF StoreTrade, AlignedAt
<1>2. BookOK'
  BY <1>1 DEF StoreTrade, TInv, Sound, TypeOK, BookOK
<1>3. /\ TraderOK' /\ LoopOK' /\ ExchOK' /\ ProcOK' /\ proc' = proc
      /\ ledger' = ledger /\ disk' = disk
  BY Frame DEF StoreTrade, Works
<1>4. PICK w \in Work : Do(s, w) /\ w.at \in {"idle", "halt"} /\ (w.at # "idle" => w.ep \in Eps)
  <2> DEFINE v == [work[s] EXCEPT !.at = "halt"]
  <2>1. v \in Work /\ v.at = "halt" /\ v.ep = work[s].ep
    BY <1>1, Names DEF Work
  <2>2. Do(s, v) \/ Do(s, Idle)
    BY DEF StoreTrade
  <2> QED BY <1>1, <2>1, <2>2, Values
<1>5. TaskOK' /\ work'[s] = w /\ \A t \in Sym \ {s} : work'[t] = work[t]
  <2>1. queue' \in [Sym -> Seq(Task)]
    BY <1>1 DEF TInv, Sound, TypeOK, TaskOK
  <2> QED BY <1>4, <2>1, Working
<1>6. AlignedAt(s)'
  BY <1>1, <1>3, <1>4, <1>5, Parts DEF AlignedAt
<1>7. Aligned'
  BY <1>3, <1>5, <1>6, OnlyAt
<1> QED BY <1>2, <1>3, <1>5, <1>7 DEF TInv, Sound, TypeOK

\* The guard is saved.
LEMMA HaltGuardT == ASSUME TInv, NEW s \in Sym, HaltGuard(s) PROVE Sound'
<1>1. /\ TraderOK' /\ LoopOK' /\ ExchOK' /\ BookOK' /\ ledger' = ledger /\ disk' = disk
  BY Frame DEF HaltGuard
<1>2. ProcOK' /\ proc' = proc
  BY DEF HaltGuard, TInv, Sound, TypeOK, ProcOK, procVars
<1>3. TaskOK' /\ work'[s] = Idle /\ \A t \in Sym \ {s} : work'[t] = work[t]
  <2>1. Do(s, Idle) /\ queue' \in [Sym -> Seq(Task)]
    BY DEF HaltGuard, TInv, Sound, TypeOK, TaskOK
  <2> QED BY <2>1, Values, Working
<1>4. AlignedAt(s)'
  BY <1>1, <1>2, <1>3, Values, Parts DEF AlignedAt
<1>5. Aligned'
  BY <1>1, <1>2, <1>3, <1>4, OnlyAt
<1> QED BY <1>1, <1>2, <1>3, <1>5 DEF TInv, Sound, TypeOK

\* The order thread as a whole.
LEMMA WorkerT == ASSUME TInv, NEW s \in Sym, Worker(s) PROVE Sound'
BY DropTaskT, EntryAsksT, EntryRefusedT, EntryFillsT, EntryLostT, PlaceStopT, EntryDoneT,
   PlaceMakerT, MakerSetT, PollMakerT, ExitStartT, CloseMakerT, ExitFillsT, ExitExpiresT, ExitFailsT,
   ForceCheckT, CheckStopT, CancelStopT, FinalizeT, StoreTradeT, HaltGuardT DEF Worker

-----------------------------------------------------------------------------
(* The exchange, the clock, crashes and restarts.                          *)

\* A fill of a resting order leaves the exchange with its types.
LEMMA ExecutesOK ==
    ASSUME TInv, NEW s \in Sym, NEW o \in orders[s], NEW k \in Nat, k <= short[s],
           NEW rest \in SUBSET Order, Executes(s, o, k, rest)
    PROVE  ExchOK'
<1>1. o \in Order /\ o.ep \in Eps /\ o.leg \in Leg
  BY Parts DEF Order
<1>2. short[s] - k \in Amount
  BY Parts, TraderAssumption DEF Amount
<1>3. short' \in [Sym -> Amount]
  BY <1>2 DEF Executes, TInv, Sound, TypeOK, ExchOK
<1>4. orders' \in [Sym -> SUBSET Order]
  BY DEF Executes, Swept, TInv, Sound, TypeOK, ExchOK
<1>5. ASSUME NEW f \in [Sym -> [Eps -> Legs]], NEW n \in Nat
      PROVE  Added(f, s, o, n) \in [Sym -> [Eps -> Legs]]
  <2>1. CASE ledger[s].ep \in {0, o.ep}
    BY <1>1, <2>1, TableMore DEF Added, Leg
  <2>2. CASE ledger[s].ep \notin {0, o.ep}
    <3>1. ledger[s].ep \in Eps
      BY <2>2, Parts, Constants DEF Pos
    <3>2. Added(f, s, o, n) = [f EXCEPT ![s][ledger[s].ep]["other"] = @ + n]
      BY <2>2 DEF Added
    <3>3. \A leg \in {"maker", "market", "stop", "other"} :
            [f EXCEPT ![s][ledger[s].ep][leg] = @ + n] \in [Sym -> [Eps -> Legs]]
      BY <3>1, TableMore
    <3> QED BY <3>2, <3>3
  <2> QED BY <2>1, <2>2
<1>6. fills' \in [Sym -> [Eps -> Legs]] /\ shown' \in [Sym -> [Eps -> Legs]] /\ slips' \in Nat
  <2>1. PICK v \in 0..k : shown' = Added(shown, s, o, v) /\ Slips(v = k)
    BY DEF Executes
  <2>2. v \in Nat /\ slips' \in Nat
    <3>1. (v = k) \in BOOLEAN
      OBVIOUS
    <3>2. slips' \in Nat
      BY <2>1, <3>1, SlipsOK
    <3> QED BY <3>2
  <2>3. fills \in [Sym -> [Eps -> Legs]] /\ shown \in [Sym -> [Eps -> Legs]]
    BY DEF TInv, Sound, TypeOK, ExchOK
  <2> QED BY <1>5, <2>1, <2>2, <2>3 DEF Executes
<1> QED BY <1>3, <1>4, <1>6 DEF ExchOK

\* Nothing but the exchange changes.
LEMMA OutsideStep ==
    ASSUME TInv, UNCHANGED Outside, ExchOK', LoopOK'
    PROVE  Sound'
<1>1. /\ TraderOK' /\ BookOK' /\ ProcOK' /\ proc' = proc /\ ledger' = ledger /\ disk' = disk
  BY Frame DEF Outside, Works
<1>2. TaskOK' /\ work' = work
  BY DEF Outside, taskVars, TInv, Sound, TypeOK, TaskOK
<1>3. Aligned'
  BY <1>1, <1>2 DEF TInv, Sound, Aligned, AlignedAt
<1> QED BY <1>1, <1>2, <1>3 DEF TInv, Sound, TypeOK

\* A resting maker order fills.
LEMMA MakerFillsT == ASSUME TInv, NEW s \in Sym, MakerFills(s) PROVE Sound'
<1>0. PICK o \in orders[s] : \E k \in 1..Lesser(o.left, short[s]) :
        Executes(s, o, k, IF k = o.left THEN {} ELSE {[o EXCEPT !.left = @ - k]})
  BY DEF MakerFills
<1>1. PICK k \in 1..Lesser(o.left, short[s]) :
        Executes(s, o, k, IF k = o.left THEN {} ELSE {[o EXCEPT !.left = @ - k]})
  BY <1>0
<1>2. o \in Order /\ o.left \in Nat /\ short[s] \in Nat
  BY Parts, Constants DEF Order
<1>3. k \in Nat /\ k <= short[s] /\ k <= o.left
  BY <1>2 DEF Lesser
<1>4. o.left - k \in Amount
  BY <1>2, <1>3, TraderAssumption DEF Amount, Order
<1>5. [o EXCEPT !.left = @ - k] \in Order
  BY <1>2, <1>4 DEF Order
<1>6. ExchOK'
  BY <1>1, <1>3, <1>5, ExecutesOK
<1>7. LoopOK'
  BY Frame DEF MakerFills
<1> QED BY <1>6, <1>7, OutsideStep DEF MakerFills

\* A resting maker order expires.
LEMMA MakerExpiresT == ASSUME TInv, NEW s \in Sym, MakerExpires(s) PROVE Sound'
<1>1. ExchOK'
  BY DEF MakerExpires, TInv, Sound, TypeOK, ExchOK
<1>2. LoopOK'
  BY Frame DEF MakerExpires
<1> QED BY <1>1, <1>2, OutsideStep DEF MakerExpires

\* The stop fires.
LEMMA StopFiresT == ASSUME TInv, NEW s \in Sym, StopFires(s) PROVE Sound'
<1>1. PICK o \in orders[s] : Executes(s, o, short[s], {})
  BY DEF StopFires
<1>2. short[s] \in Nat
  BY Parts, Constants
<1>3. ExchOK'
  BY <1>1, <1>2, ExecutesOK
<1>4. LoopOK'
  BY Frame DEF StopFires
<1> QED BY <1>3, <1>4, OutsideStep DEF StopFires

\* Trades that were late come in.
LEMMA TradesShowT == ASSUME TInv, NEW s \in Sym, TradesShow(s) PROVE Sound'
<1>1. ledger[s].ep \in Eps /\ ledger[s].ep # 0
  BY Parts, Constants DEF TradesShow, Pos
<1> DEFINE ep == ledger[s].ep
<1>2. PICK leg \in Leg, n \in Nat : shown' = [shown EXCEPT ![s][ep][leg] = n]
  <2>1. PICK leg \in Leg : \E n \in Filled(s, leg) + 1..fills[s][ep][leg] :
            shown' = [shown EXCEPT ![s][ep][leg] = n]
    BY DEF TradesShow
  <2>2. Filled(s, leg) \in Nat /\ fills[s][ep][leg] \in Nat
    BY <1>1, Parts DEF Filled, Legs, Leg
  <2>3. PICK n \in Filled(s, leg) + 1..fills[s][ep][leg] : shown' = [shown EXCEPT ![s][ep][leg] = n]
    BY <2>1
  <2>4. n \in Nat
    BY <2>2
  <2> QED BY <2>3, <2>4
<1> DEFINE l == [shown[s][ep] EXCEPT ![leg] = n]
<1>3. l \in Legs
  <2>1. l = [shown[s][ep] EXCEPT !.maker = n] \/ l = [shown[s][ep] EXCEPT !.stop = n]
    BY DEF Leg
  <2>2. shown[s][ep] \in Legs
    BY <1>1, Parts
  <2> HIDE DEF l
  <2> QED BY <2>1, <2>2, LegsUpdates
<1>4. shown' = [shown EXCEPT ![s] = [shown[s] EXCEPT ![ep] = l]]
  BY <1>2
<1> HIDE DEF l, ep
<1>5. shown' \in [Sym -> [Eps -> Legs]]
  BY <1>1, <1>3, <1>4 DEF TInv, Sound, TypeOK, ExchOK, ep
<1>6. ExchOK'
  BY <1>5 DEF TradesShow, TInv, Sound, TypeOK, ExchOK
<1>7. LoopOK'
  BY Frame DEF TradesShow
<1> QED BY <1>6, <1>7, OutsideStep DEF TradesShow

\* Time passes.
LEMMA TickT == ASSUME TInv, NEW s \in Sym, Tick(s) PROVE Sound'
<1>1. LoopOK'
  BY Constants DEF Tick, TInv, Sound, TypeOK, LoopOK
<1>2. ExchOK'
  BY Frame DEF Tick
<1> QED BY <1>1, <1>2, OutsideStep DEF Tick

\* The process dies.
LEMMA CrashT == ASSUME TInv, Crash PROVE Sound'
<1>1. TraderOK' /\ ledger' = disk.ledger /\ disk' = disk
  BY DEF Crash, TInv, Sound, TypeOK, TraderOK
<1>2. work' = [s \in Sym |-> Idle] /\ TaskOK'
  BY Values DEF Crash, TaskOK
<1>3. ProcOK'
  BY DEF Crash, TInv, Sound, TypeOK, ProcOK
<1>4. LoopOK'
  BY Constants DEF Crash, TInv, Sound, TypeOK, LoopOK
<1>5. ExchOK' /\ BookOK'
  BY Frame DEF Crash
<1>6. Aligned'
  BY <1>1, <1>2, Values DEF TInv, Sound, Aligned, AlignedAt
<1> QED BY <1>1, <1>2, <1>3, <1>4, <1>5, <1>6 DEF TInv, Sound, TypeOK

\* Outside "up" no order thread is in the middle of anything.
LEMMA DownIdle == ASSUME TInv, proc # "up", NEW s \in Sym PROVE work[s].at = "idle"
BY Parts DEF AlignedAt

\* A start or a refusal.
LEMMA ProcStep ==
    ASSUME TInv, proc # "up", proc' \in {"recovering", "refused"}, toRecover' \subseteq Sym,
           UNCHANGED <<traderVars, taskVars, crashes, guardHalted, loopVars, exchVars,
                       bookVars, faults, resumes>>
    PROVE  Sound'
<1>1. TraderOK' /\ LoopOK' /\ ExchOK' /\ BookOK' /\ ledger' = ledger /\ disk' = disk
  BY Frame
<1>2. ProcOK'
  BY DEF TInv, Sound, TypeOK, ProcOK
<1>3. TaskOK' /\ work' = work
  BY DEF taskVars, TInv, Sound, TypeOK, TaskOK
<1>4. Aligned'
  BY <1>1, <1>3, DownIdle DEF TInv, Sound, Aligned, AlignedAt
<1> QED BY <1>1, <1>2, <1>3, <1>4 DEF TInv, Sound, TypeOK

\* It starts again.
LEMMA StartT == ASSUME TInv, Start PROVE Sound'
BY ProcStep DEF Start

\* Recover refuses to start.
LEMMA RecoverRefusedT == ASSUME TInv, NEW s \in Sym, RecoverRefused(s) PROVE Sound'
BY ProcStep DEF RecoverRefused, Recovering

\* recover puts p in the place of a position; state.json is written at its end.
LEMMA RecoverStep ==
    ASSUME TInv, NEW s \in Sym, Recovering(s), NEW p \in Pos,
           p.status # "none" => p.ep \in Eps,
           ledger' = [ledger EXCEPT ![s] = p], NEW mine, CleanUp(s, mine),
           toRecover' = toRecover \ {s},
           UNCHANGED <<halted, cum, entries, disk, taskVars, proc, crashes, guardHalted,
                       loopVars, short, fillVars, bookVars, resumes>>
    PROVE  Sound'
<1>1. TraderOK' /\ ledger'[s] = p /\ \A t \in Sym \ {s} : ledger'[t] = ledger[t]
  BY DEF TInv, Sound, TypeOK, TraderOK
<1>2. ProcOK' /\ proc' = proc /\ proc # "up"
  BY DEF Recovering, CleanUp, Works, Fails, TInv, Sound, TypeOK, ProcOK
<1>3. LoopOK' /\ BookOK'
  BY Frame
<1>4. TaskOK' /\ work' = work
  BY DEF taskVars, TInv, Sound, TypeOK, TaskOK
<1>5. ExchOK'
  <2>1. PICK left \in SUBSET orders[s] : orders' = [orders EXCEPT ![s] = left]
    BY DEF CleanUp
  <2> QED BY <2>1 DEF TInv, Sound, TypeOK, ExchOK
<1>6. AlignedAt(s)'
  BY <1>1, <1>2, <1>4, DownIdle, Parts DEF AlignedAt
<1>7. Aligned'
  BY <1>1, <1>2, <1>4, <1>6, OnlyAt
<1> QED BY <1>1, <1>2, <1>3, <1>4, <1>5, <1>7 DEF TInv, Sound, TypeOK

\* Recover drops an entry that was never filled.
LEMMA RecoverFlatT == ASSUME TInv, NEW s \in Sym, RecoverFlat(s) PROVE Sound'
BY Values, RecoverStep DEF RecoverFlat

\* Recover carries an open position on.
LEMMA RecoverOpenT == ASSUME TInv, NEW s \in Sym, RecoverOpen(s) PROVE Sound'
<1> DEFINE p == [ledger[s] EXCEPT !.status = "open", !.source = "recovered", !.exitReq = FALSE]
<1>1. p \in Pos /\ p.ep = ledger[s].ep
  BY Parts, Names DEF Pos
<1>2. ledger[s].ep \in Eps
  BY Parts DEF RecoverOpen, AlignedAt
<1>3. ledger' = [ledger EXCEPT ![s] = p]
  BY DEF RecoverOpen
<1> HIDE DEF p
<1> QED BY <1>1, <1>2, <1>3, RecoverStep DEF RecoverOpen

\* Recover books a position that closed meanwhile.
LEMMA RecoverClosedT == ASSUME TInv, NEW s \in Sym, RecoverClosed(s) PROVE Sound'
<1>1. ledger[s].ep \in Eps
  BY Parts DEF RecoverClosed, AlignedAt
<1>2. PICK legs \in Answered(s, ledger[s].ep) \cup {NoLegs} :
        /\ Works \/ Fails
        /\ \E net \in NetsOf(legs) : Book(s, ledger[s].ep, legs, net)
  BY DEF RecoverClosed
<1>3. legs \in Legs
  BY <1>1, <1>2, Parts, Values DEF Answered
<1>4. /\ TraderOK' /\ ledger'[s] = Flat /\ disk'.ledger = ledger'
      /\ \A t \in Sym \ {s} : ledger'[t] = ledger[t]
      /\ booked' \in [Sym -> [Eps -> [n : Nat, legs : Legs, net : Int]]]
  BY <1>1, <1>2, <1>3, BookOKs
<1>5. BookOK'
  BY <1>1, <1>4 DEF RecoverClosed, TInv, Sound, TypeOK, BookOK
<1>6. ProcOK' /\ proc' = proc /\ proc # "up"
  BY <1>2 DEF RecoverClosed, Recovering, Works, Fails, TInv, Sound, TypeOK, ProcOK
<1>7. LoopOK' /\ ExchOK'
  BY Frame DEF RecoverClosed
<1>8. TaskOK' /\ work' = work
  BY DEF RecoverClosed, taskVars, TInv, Sound, TypeOK, TaskOK
<1>9. AlignedAt(s)'
  BY <1>4, <1>6, <1>8, DownIdle, Values DEF AlignedAt
<1>10. Aligned'
  BY <1>4, <1>6, <1>8, <1>9, OnlyAt
<1> QED BY <1>4, <1>5, <1>6, <1>7, <1>8, <1>10 DEF TInv, Sound, TypeOK

\* Recover is over.
LEMMA RecoverDoneT == ASSUME TInv, RecoverDone PROVE Sound'
<1>1. ledger' = ledger /\ halted' = halted /\ cum' = cum /\ entries' = entries /\ Save
  BY DEF RecoverDone
<1>2. TraderOK' /\ disk'.ledger = ledger'
  BY <1>1, Saved DEF TInv, Sound, TypeOK, TraderOK
<1>3. LoopOK' /\ ExchOK' /\ BookOK'
  BY Frame DEF RecoverDone
<1>4. ProcOK'
  BY DEF RecoverDone, TInv, Sound, TypeOK, ProcOK
<1>5. TaskOK' /\ work' = work /\ proc # "up"
  BY DEF RecoverDone, taskVars, TInv, Sound, TypeOK, TaskOK
<1>6. Aligned'
  BY <1>1, <1>2, <1>5, DownIdle DEF TInv, Sound, Aligned, AlignedAt
<1> QED BY <1>2, <1>3, <1>4, <1>5, <1>6 DEF TInv, Sound, TypeOK

-----------------------------------------------------------------------------
(* Who adds to a short.                                                    *)

\* No short grows but by the fill of an entry.
Ungrown == \A t \in Sym : short'[t] > short[t] => EntryFills(t)

\* A step that does not trade grows no short.
LEMMA SameShort == ASSUME TInv, short' = short PROVE Ungrown
<1> SUFFICES ASSUME NEW t \in Sym PROVE ~(short'[t] > short[t])
  BY DEF Ungrown
<1>1. short[t] \in Nat
  BY Parts, Constants
<1> QED BY <1>1

\* A buy that is at most the short it closes grows none.
LEMMA LessShort ==
    ASSUME TInv, NEW s \in Sym, NEW k \in Nat, short' = [short EXCEPT ![s] = @ - k]
    PROVE  Ungrown
<1> SUFFICES ASSUME NEW t \in Sym PROVE ~(short'[t] > short[t])
  BY DEF Ungrown
<1>1. short[t] \in Nat
  BY Parts, Constants
<1>2. short'[t] = IF t = s THEN short[t] - k ELSE short[t]
  BY DEF TInv, Sound, TypeOK, ExchOK
<1> QED BY <1>1, <1>2

\* Among the steps of the order thread only the fill of an entry adds.
LEMMA WorkerUngrown == ASSUME TInv, NEW s \in Sym, Worker(s) PROVE Ungrown
<1>1. CASE EntryFills(s)
  <2>1. PICK got \in 1..Qty : short' = [short EXCEPT ![s] = @ + got]
    BY <1>1 DEF EntryFills
  <2> SUFFICES ASSUME NEW t \in Sym, t # s PROVE ~(short'[t] > short[t])
    BY <1>1 DEF Ungrown
  <2>3. short'[t] = short[t] /\ short[t] \in Nat
    BY <2>1, Parts, Constants DEF TInv, Sound, TypeOK, ExchOK
  <2> QED BY <2>3
<1>2. CASE ExitFills(s)
  <2>1. PICK k \in 0..ExitRest(s) : short' = [short EXCEPT ![s] = @ - k]
    BY <1>2 DEF ExitFills, BuyBack
  <2>2. k \in Nat
    BY <1>2, ExitRestOK DEF ExitFills
  <2> QED BY <2>1, <2>2, LessShort
<1>3. CASE ExitFails(s)
  <2>1. PICK k \in 0..ExitRest(s) : short' = [short EXCEPT ![s] = @ - k]
    BY <1>3 DEF ExitFails, BuyBack
  <2>2. k \in Nat
    BY <1>3, ExitRestOK DEF ExitFails
  <2> QED BY <2>1, <2>2, LessShort
<1>4. CASE DropTask(s) \/ EntryAsks(s) \/ EntryRefused(s) \/ EntryLost(s) \/ PlaceStop(s)
           \/ EntryDone(s) \/ PlaceMaker(s) \/ MakerSet(s) \/ PollMaker(s) \/ ExitStart(s)
           \/ CloseMaker(s)
  BY <1>4, SameShort DEF DropTask, EntryAsks, EntryRefused, EntryLost, PlaceStop, EntryDone,
     PlaceMaker, MakerSet, PollMaker, ExitStart, CloseMaker, exchVars
<1>5. CASE ExitExpires(s) \/ ForceCheck(s) \/ CheckStop(s) \/ CancelStop(s)
           \/ Finalize(s) \/ StoreTrade(s) \/ HaltGuard(s)
  BY <1>5, SameShort DEF ExitExpires, ForceCheck, CheckStop, CancelStop, Finalize,
     StoreTrade, HaltGuard, exchVars
<1> QED BY <1>1, <1>2, <1>3, <1>4, <1>5 DEF Worker

\* Makers and stops only buy.
LEMMA ExchangeUngrown == ASSUME TInv, NEW s \in Sym, Exchange(s) PROVE Ungrown
<1>0. short[s] \in Nat /\ \A o \in orders[s] : o.left \in Nat
  BY Parts, Constants DEF Order
<1>1. CASE MakerFills(s)
  <2>1. PICK o \in orders[s] : \E k \in 1..Lesser(o.left, short[s]) :
            short' = [short EXCEPT ![s] = @ - k]
    BY <1>1 DEF MakerFills, Executes
  <2>2. PICK k \in 1..Lesser(o.left, short[s]) : short' = [short EXCEPT ![s] = @ - k]
    BY <2>1
  <2>3. k \in Nat
    BY <1>0 DEF Lesser
  <2> QED BY <2>2, <2>3, LessShort
<1>2. CASE MakerExpires(s) \/ TradesShow(s)
  BY <1>2, SameShort DEF MakerExpires, TradesShow
<1>3. CASE StopFires(s)
  BY <1>0, <1>3, LessShort DEF StopFires, Executes
<1> QED BY <1>1, <1>2, <1>3 DEF Exchange

\* No step grows a short but the fill of an entry.
LEMMA NextUngrown == ASSUME TInv, [Next]_vars PROVE Ungrown
<1>1. ASSUME NEW s \in Sym, Loop(s) PROVE Ungrown
  <2>1. short' = short
    BY <1>1 DEF Loop, OnEntry, OnExit, Periodic, exchVars
  <2> QED BY <2>1, SameShort
<1>2. ASSUME NEW s \in Sym, Tick(s) \/ Recover(s) PROVE Ungrown
  <2>1. short' = short
    BY <1>2 DEF Tick, Recover, RecoverRefused, RecoverFlat, RecoverOpen, RecoverClosed, exchVars
  <2> QED BY <2>1, SameShort
<1>3. CASE ConsumeResume \/ Crash \/ Start \/ RecoverDone \/ UNCHANGED vars
  <2>1. short' = short
    BY <1>3 DEF ConsumeResume, Crash, Start, RecoverDone, vars, exchVars
  <2> QED BY <2>1, SameShort
<1> QED BY <1>1, <1>2, <1>3, WorkerUngrown, ExchangeUngrown DEF Next

\* An order thread comes to the sending of an entry by asking for the position.
Asked == \A t \in Sym : work'[t].at = "asked" =>
             work[t].at = "asked" \/ (EntryAsks(t) /\ short' = short)

\* Where the step is written out, it is not this one.
LEMMA UnaskedStep ==
    ASSUME TInv, NEW s \in Sym, NEW w \in Work, Do(s, w) \/ UNCHANGED work,
           w.at = "asked" => work[s].at = "asked" \/ (EntryAsks(s) /\ short' = short)
    PROVE  Asked
<1> SUFFICES ASSUME NEW t \in Sym, work'[t].at = "asked", work[t].at # "asked"
             PROVE  EntryAsks(t) /\ short' = short
  BY DEF Asked
<1>1. work'[t] = IF t = s /\ Do(s, w) THEN w ELSE work[t]
  BY DEF Do, TInv, Sound, TypeOK, TaskOK
<1> QED BY <1>1

\* The order thread, step by step.
LEMMA WorkerAsked == ASSUME TInv, NEW s \in Sym, Worker(s) PROVE Asked
<1>0. /\ work \in [Sym -> Work] /\ work[s] \in Work
      /\ (ledger[s].status # "none" => ledger[s].ep \in Eps)
  BY Parts DEF TInv, Sound, TypeOK, TaskOK, AlignedAt
<1>1. ASSUME NEW w \in Work, Do(s, w), w.at # "asked" PROVE Asked
  BY <1>1, UnaskedStep
<1>2. ASSUME UNCHANGED work PROVE Asked
  BY <1>2 DEF Asked
<1>3. Do(s, Idle) => Asked
  BY <1>1, Values
<1>4. \A at \in Step, ep \in Eps : at # "asked" /\ Do(s, At(at, ep)) => Asked
  BY <1>1, Values
<1>5. \A at \in Step : at # "asked" /\ Do(s, [work[s] EXCEPT !.at = at]) => Asked
  <2> SUFFICES ASSUME NEW at \in Step, at # "asked", Do(s, [work[s] EXCEPT !.at = at])
               PROVE  Asked
    OBVIOUS
  <2>1. [work[s] EXCEPT !.at = at] \in Work /\ [work[s] EXCEPT !.at = at].at = at
    BY <1>0 DEF Work
  <2> QED BY <1>1, <2>1
<1>6. CASE DropTask(s)
  BY <1>2, <1>6 DEF DropTask
<1>7. CASE EntryAsks(s)
  <2>1. ledger[s].ep \in Eps
    BY <1>7, LiveEp, Names DEF EntryAsks
  <2>2. At("asked", ledger[s].ep) \in Work /\ Do(s, At("asked", ledger[s].ep)) /\ short' = short
    BY <1>7, <2>1, Values, Names DEF EntryAsks, exchVars
  <2> QED BY <1>7, <2>2, UnaskedStep
<1>8. CASE EntryRefused(s)
  BY <1>2, <1>3, <1>8 DEF EntryRefused
<1>9. CASE EntryFills(s)
  <2>1. \A t \in Sym : t # s => work'[t] = work[t]
    BY <1>0, <1>9 DEF EntryFills, Do
  <2>2. work[s].at = "asked"
    BY <1>9 DEF EntryFills
  <2> QED BY <2>1, <2>2 DEF Asked
<1>10. CASE EntryLost(s) \/ EntryDone(s) \/ MakerSet(s) \/ HaltGuard(s)
  BY <1>3, <1>10 DEF EntryLost, EntryDone, MakerSet, HaltGuard
<1>11. CASE ExitFails(s)
  BY <1>3, <1>11 DEF ExitFails
<1>12. ASSUME \/ ExitExpires(s) \/ CancelStop(s) \/ Finalize(s)
       PROVE  Asked
  BY <1>5, <1>12, Names DEF ExitExpires, CancelStop, Finalize
<1>13. CASE StoreTrade(s)
  BY <1>3, <1>5, <1>13, Names DEF StoreTrade
<1>14. CASE PlaceMaker(s)
  <2>1. ledger[s].ep \in Eps
    BY <1>14, LiveEp, Names DEF PlaceMaker
  <2> QED BY <1>2, <1>4, <1>14, <2>1, Names DEF PlaceMaker
<1>15. CASE ExitStart(s)
  <2>1. ledger[s].ep \in Eps
    BY <1>15, LiveEp, Names DEF ExitStart
  <2> QED BY <1>4, <1>15, <2>1, Names DEF ExitStart
<1>16. ASSUME NEW w, w.at # "asked", Do(s, w) PROVE Asked
  BY <1>0, <1>16 DEF Do, Asked
<1>17. CASE PlaceStop(s)
  <2>1. PICK b \in BOOLEAN : Do(s, [work[s] EXCEPT !.at = "stopped", !.set = b])
    BY <1>17 DEF PlaceStop
  <2>2. [work[s] EXCEPT !.at = "stopped", !.set = b].at = "stopped"
    BY <1>0 DEF Work
  <2> QED BY <1>16, <2>1, <2>2
<1>18. CASE PollMaker(s)
  <2> DEFINE v == At("cancel", ledger[s].ep)
             w == [v EXCEPT !.legs.maker = ledger[s].qty]
  <2>1. v \in Work /\ v.at = "cancel"
    BY <1>18, LiveEp, Values, Names DEF PollMaker
  <2>2. Do(s, w) \/ UNCHANGED work
    BY <1>18 DEF PollMaker
  <2> HIDE DEF v
  <2>3. w.at = "cancel"
    BY <2>1 DEF Work
  <2> QED BY <1>2, <1>16, <2>2, <2>3
<1>19. CASE CheckStop(s)
  <2> DEFINE v == At("finalize", ledger[s].ep)
             w == [v EXCEPT !.legs.stop = Filled(s, "stop")]
  <2>1. v \in Work /\ v.at = "finalize"
    BY <1>19, LiveEp, Values, Names DEF CheckStop
  <2>2. Do(s, w) \/ UNCHANGED work
    BY <1>19 DEF CheckStop
  <2> HIDE DEF v
  <2>3. w.at = "finalize"
    BY <2>1 DEF Work
  <2> QED BY <1>2, <1>16, <2>2, <2>3
<1>20. CASE CloseMaker(s)
  <2>1. PICK m : Do(s, [work[s] EXCEPT !.at = IF m >= ledger[s].qty THEN "cancel" ELSE "market",
                                       !.legs.maker = m])
    BY <1>20 DEF CloseMaker
  <2>2. PICK at : at = IF m >= ledger[s].qty THEN "cancel" ELSE "market"
    OBVIOUS
  <2> DEFINE w == [work[s] EXCEPT !.at = at, !.legs.maker = m]
  <2>3. Do(s, w)
    BY <2>1, <2>2
  <2>4. w.at = at
    BY <1>0 DEF Work
  <2>5. w.at # "asked"
    BY <2>2, <2>4
  <2> HIDE DEF w
  <2> QED BY <1>16, <2>3, <2>5
<1>21. CASE ExitFills(s)
  <2>1. \/ \E n : Do(s, [work[s] EXCEPT !.at = "cancel", !.legs.market = n])
        \/ Do(s, [work[s] EXCEPT !.at = "force"])
    BY <1>21 DEF ExitFills
  <2>2. ASSUME NEW n, Do(s, [work[s] EXCEPT !.at = "cancel", !.legs.market = n]) PROVE Asked
    <3>1. [work[s] EXCEPT !.at = "cancel", !.legs.market = n].at = "cancel"
      BY <1>0 DEF Work
    <3> QED BY <1>16, <2>2, <3>1
  <2> QED BY <1>5, <2>1, <2>2, Names
<1>22. CASE ForceCheck(s)
  <2>1. \/ \E n : Do(s, [work[s] EXCEPT !.at = "finalize", !.legs.stop = n])
        \/ Do(s, [work[s] EXCEPT !.at = "finalize"])
    BY <1>22 DEF ForceCheck
  <2>2. ASSUME NEW n, Do(s, [work[s] EXCEPT !.at = "finalize", !.legs.stop = n]) PROVE Asked
    <3>1. [work[s] EXCEPT !.at = "finalize", !.legs.stop = n].at = "finalize"
      BY <1>0 DEF Work
    <3> QED BY <1>16, <2>2, <3>1
  <2> QED BY <1>5, <2>1, <2>2, Names
<1> QED BY <1>6, <1>7, <1>8, <1>9, <1>10, <1>11, <1>12, <1>13, <1>14, <1>15, <1>17, <1>18,
           <1>19, <1>20, <1>21, <1>22 DEF Worker

\* Until the entry is sent the exchange stays empty.
LEMMA NextEmpty == ASSUME TInv, [Next]_vars, Sound' PROVE Empty'
<1>1. Asked
  <2>1. ASSUME UNCHANGED work PROVE Asked
    BY <2>1 DEF Asked
  <2>2. ASSUME NEW s \in Sym, Loop(s) \/ Exchange(s) \/ Tick(s) \/ Recover(s) PROVE UNCHANGED work
    BY <2>2 DEF Loop, OnEntry, OnExit, Periodic, Exchange, MakerFills, MakerExpires, StopFires,
       TradesShow, Tick, Outside, Recover, RecoverRefused, RecoverFlat, RecoverOpen,
       RecoverClosed, taskVars
  <2>3. CASE Crash
    BY <2>3, Values DEF Crash, Asked
  <2>4. CASE ConsumeResume \/ Start \/ RecoverDone \/ UNCHANGED vars
    BY <2>1, <2>4 DEF ConsumeResume, Start, RecoverDone, vars, taskVars
  <2> QED BY <2>1, <2>2, <2>3, <2>4, WorkerAsked DEF Next
<1> SUFFICES ASSUME NEW t \in Sym, work'[t].at = "asked" PROVE short'[t] = 0
  BY DEF Empty
<1>2. short[t] \in Nat /\ short'[t] \in Nat
  BY Parts, Constants DEF Sound, TypeOK, ExchOK
<1>3. CASE EntryAsks(t) /\ short' = short
  BY <1>3 DEF EntryAsks
<1>4. CASE work[t].at = "asked"
  <2>1. ~EntryFills(t)
    <3> SUFFICES ASSUME EntryFills(t) PROVE FALSE
      OBVIOUS
    <3>1. work[t] \in Work /\ work \in [Sym -> Work]
      BY Parts DEF TInv, Sound, TypeOK, TaskOK
    <3>2. (\E q : Do(t, [work[t] EXCEPT !.at = "filled", !.got = q]))
            \/ Do(t, [work[t] EXCEPT !.at = "lost"])
      BY DEF EntryFills
    <3>3. work'[t].at \in {"filled", "lost"}
      BY <3>1, <3>2 DEF Do, Work
    <3> QED BY <3>3
  <2>2. ~(short'[t] > short[t])
    BY <2>1, NextUngrown DEF Ungrown
  <2>3. short[t] = 0
    BY <1>4 DEF TInv, Empty
  <2> QED BY <1>2, <2>2, <2>3
<1> QED BY <1>1, <1>3, <1>4 DEF Asked

-----------------------------------------------------------------------------
\* Every step keeps the types.
LEMMA NextT == TInv /\ [Next]_vars => TInv'
<1> SUFFICES ASSUME TInv, [Next]_vars PROVE Sound'
  BY NextEmpty DEF TInv
<1>1. ASSUME NEW s \in Sym, Loop(s) PROVE Sound'
  BY <1>1, OnEntryT, OnExitT, PeriodicT DEF Loop
<1>2. ASSUME NEW s \in Sym, Worker(s) PROVE Sound'
  BY <1>2, WorkerT
<1>3. ASSUME NEW s \in Sym, Exchange(s) \/ Tick(s) PROVE Sound'
  BY <1>3, MakerFillsT, MakerExpiresT, StopFiresT, TradesShowT, TickT DEF Exchange
<1>4. ASSUME NEW s \in Sym, Recover(s) PROVE Sound'
  BY <1>4, RecoverRefusedT, RecoverFlatT, RecoverOpenT, RecoverClosedT DEF Recover
<1>5. CASE ConsumeResume \/ Crash \/ Start \/ RecoverDone
  BY <1>5, ConsumeResumeT, CrashT, StartT, RecoverDoneT
<1>6. CASE UNCHANGED vars
  <2>1. UNCHANGED Outside /\ UNCHANGED <<loopVars, exchVars>>
    BY <1>6 DEF vars, Outside
  <2> QED BY <2>1, Frame, OutsideStep
<1> QED BY <1>1, <1>2, <1>3, <1>4, <1>5, <1>6 DEF Next

\* Every variable keeps its type, and the exchange never turns the short into
\* a long: no exit, however it races the stop and the maker exit, buys back
\* more than there is.
THEOREM TypesHold == Spec => []TypeOK
<1>1. Spec => []TInv
  BY InitTInv, NextT, PTL DEF Spec
<1>2. TInv => TypeOK
  BY DEF TInv, Sound
<1> QED BY <1>1, <1>2, PTL

-----------------------------------------------------------------------------
(* The bookings and the ledger.                                            *)

\* A signal that was booked is in no ledger any more, neither in memory nor in
\* state.json, and lies in the past.
UnbookedAt(s) ==
    /\ ledger[s].ep <= lastSig[s] /\ disk.ledger[s].ep <= lastSig[s]
    /\ \A ep \in Eps : booked[s][ep].n > 0 =>
          /\ booked[s][ep].n = 1 /\ ep <= lastSig[s]
          /\ ledger[s].ep # ep /\ disk.ledger[s].ep # ep
Unbooked == \A s \in Sym : UnbookedAt(s)

\* Nothing is booked at the start.
LEMMA InitU == Init => Unbooked
<1> SUFFICES ASSUME Init, NEW s \in Sym PROVE UnbookedAt(s)
  BY DEF Unbooked
<1>1. ledger[s] = Flat /\ lastSig[s] = 0 /\ \A ep \in Eps : booked[s][ep].n = 0
  BY DEF Init
<1>2. disk.ledger[s] = Flat
  BY DEF Init
<1> QED BY <1>1, <1>2, Values DEF UnbookedAt

-----------------------------------------------------------------------------
(* What a step does to signals, ledger and bookings.                       *)

\* Nothing is booked, no signal comes in, and no position appears that memory
\* or state.json did not have.
Quiet ==
    /\ booked' = booked /\ lastSig' = lastSig
    /\ \A t \in Sym : /\ ledger'[t].ep \in {ledger[t].ep, disk.ledger[t].ep, 0}
                      /\ disk'.ledger[t].ep \in {disk.ledger[t].ep, ledger'[t].ep}

\* A signal comes in, to be taken or not.
Signals(s) ==
    /\ booked' = booked
    /\ lastSig[s] + 1 \in Eps /\ lastSig' = [lastSig EXCEPT ![s] = @ + 1]
    /\ ledger'[s].ep \in {ledger[s].ep, lastSig'[s]}
    /\ disk'.ledger[s].ep \in {disk.ledger[s].ep, ledger'[s].ep}
    /\ \A t \in Sym \ {s} : /\ ledger'[t].ep = ledger[t].ep
                            /\ disk'.ledger[t].ep \in {disk.ledger[t].ep, ledger[t].ep}

\* The position in the ledger is booked.
Books(s) ==
    /\ lastSig' = lastSig /\ ledger[s].ep \in Eps
    /\ \E legs \in Legs : \E net \in NetsOf(legs) : Book(s, ledger[s].ep, legs, net)

\* A step that leaves the results, the ledger and the order steps alone is quiet.
LEMMA QuietTrader ==
    ASSUME TInv, UNCHANGED traderVars, booked' = booked, lastSig' = lastSig
    PROVE  Quiet
BY DEF Quiet, traderVars

\* A step that changes one position, to one of the same signal or to none, is quiet.
LEMMA QuietPosition ==
    ASSUME TInv, NEW s \in Sym, NEW p \in Pos, p.ep \in {ledger[s].ep, 0},
           ledger' = [ledger EXCEPT ![s] = p], UNCHANGED <<halted, cum, entries>>,
           Save \/ disk' = disk, booked' = booked, lastSig' = lastSig
    PROVE  Quiet
<1>1. ledger'[s] = p /\ \A t \in Sym \ {s} : ledger'[t] = ledger[t]
  BY DEF TInv, Sound, TypeOK, TraderOK
<1>2. disk'.ledger = ledger' \/ disk' = disk
  BY Position
<1> QED BY <1>1, <1>2 DEF Quiet

\* An entry signal only starts a new episode.
LEMMA OnEntrySignals == ASSUME TInv, NEW s \in Sym, OnEntry(s) PROVE Signals(s)
<1> DEFINE ep == lastSig[s] + 1
<1>1. /\ lastSig' = [lastSig EXCEPT ![s] = @ + 1] /\ lastSig'[s] = ep /\ ep \in Eps
      /\ booked' = booked
  BY Constants DEF OnEntry, TInv, Sound, TypeOK, LoopOK, bookVars
<1>2. CASE UNCHANGED traderVars
  BY <1>1, <1>2 DEF Signals, traderVars
<1>3. CASE TakeSignal(s, ep)
  <2>1. Opening(ep) \in Pos /\ Opening(ep).ep = ep
    BY <1>1, Values
  <2>2. ledger' = [ledger EXCEPT ![s] = Opening(ep)] /\ Save /\ halted' = halted /\ cum' = cum
        /\ entries' \in [Sym -> Nat]
    BY <1>3 DEF TakeSignal, TInv, Sound, TypeOK, TraderOK
  <2>3. /\ ledger' \in [Sym -> Pos] /\ ledger'[s] = Opening(ep)
        /\ \A t \in Sym \ {s} : ledger'[t] = ledger[t]
    BY <2>1, <2>2 DEF TInv, Sound, TypeOK, TraderOK
  <2>4. disk'.ledger = ledger'
    BY <2>2, <2>3, Saved DEF TInv, Sound, TypeOK, TraderOK
  <2> QED BY <1>1, <2>1, <2>3, <2>4 DEF Signals
<1> QED BY <1>2, <1>3 DEF OnEntry

\* An exit signal keeps the signal of the position it marks.
LEMMA OnExitQuiet == ASSUME TInv, NEW s \in Sym, OnExit(s) PROVE Quiet
<1>1. booked' = booked /\ lastSig' = lastSig
  BY DEF OnExit, bookVars
<1>2. CASE UNCHANGED traderVars
  BY <1>1, <1>2, QuietTrader
<1>3. CASE RequestExit(s)
  <2> DEFINE p == [ledger[s] EXCEPT !.exitReq = TRUE]
  <2>1. p \in Pos /\ p.ep = ledger[s].ep
    BY Parts DEF Pos
  <2> QED BY <1>1, <1>3, <2>1, QuietPosition DEF RequestExit
<1> QED BY <1>2, <1>3 DEF OnExit

\* So does periodic.
LEMMA PeriodicQuiet == ASSUME TInv, NEW s \in Sym, Periodic(s) PROVE Quiet
<1>1. booked' = booked /\ lastSig' = lastSig
  BY DEF Periodic, bookVars, loopVars
<1> DEFINE b == ledger[s].tried \/ PlaceDue(s)
<1>2. b \in BOOLEAN /\ ledger[s] \in Pos
  BY Parts
<1>3. CASE PeriodicRetryExit(s)
  BY <1>1, <1>3, QuietTrader DEF PeriodicRetryExit
<1>4. CASE PeriodicSoftExit(s)
  <2> DEFINE p == [ledger[s] EXCEPT !.exitReq = TRUE, !.tried = b]
  <2>1. ledger' = [ledger EXCEPT ![s] = p] /\ UNCHANGED <<halted, cum, entries>> /\ Save
    BY <1>4 DEF PeriodicSoftExit
  <2> HIDE DEF b
  <2>2. p \in Pos /\ p.ep = ledger[s].ep
    BY <1>2 DEF Pos
  <2> QED BY <1>1, <2>1, <2>2, QuietPosition
<1>5. CASE PeriodicWatch(s)
  <2> DEFINE p == [ledger[s] EXCEPT !.tried = b]
  <2>1. ledger' = [ledger EXCEPT ![s] = p] /\ UNCHANGED <<halted, cum, entries>> /\ Save
    BY <1>5 DEF PeriodicWatch
  <2> HIDE DEF b
  <2>2. p \in Pos /\ p.ep = ledger[s].ep
    BY <1>2 DEF Pos
  <2> QED BY <1>1, <2>1, <2>2, QuietPosition
<1> QED BY <1>3, <1>4, <1>5 DEF Periodic

\* The operator who lifts the halt touches no position.
LEMMA ConsumeResumeQuiet == ASSUME TInv, ConsumeResume PROVE Quiet
<1>1. ledger' = ledger /\ booked' = booked /\ lastSig' = lastSig /\ Save
  BY DEF ConsumeResume, bookVars, loopVars
<1>2. disk'.ledger = ledger'
  BY <1>1 DEF Save
<1> QED BY <1>1, <1>2 DEF Quiet

\* A step of the order thread is quiet, or it is the booking in _finalize.
LEMMA WorkerQuiet ==
    ASSUME TInv, NEW s \in Sym, Worker(s)
    PROVE  Quiet \/ Books(s)
<1> DEFINE Kept == UNCHANGED traderVars /\ booked' = booked /\ lastSig' = lastSig
           Put(p) == /\ ledger' = [ledger EXCEPT ![s] = p]
                     /\ UNCHANGED <<halted, cum, entries>> /\ Save
                     /\ booked' = booked /\ lastSig' = lastSig
<1>1. ASSUME Kept PROVE Quiet
  BY <1>1, QuietTrader
<1>2. ASSUME NEW p \in Pos, p.ep \in {ledger[s].ep, 0}, Put(p) PROVE Quiet
  BY <1>2, QuietPosition
<1>3. CASE DropTask(s) \/ EntryAsks(s) \/ EntryFills(s) \/ PlaceStop(s) \/ PlaceMaker(s)
           \/ PollMaker(s)
  <2>1. Kept
    BY <1>3 DEF DropTask, EntryAsks, EntryFills, PlaceStop, PlaceMaker, PollMaker, OutsideTasks,
                bookVars, loopVars
  <2> QED BY <1>1, <2>1
<1>4. CASE CloseMaker(s) \/ ExitFills(s) \/ ExitExpires(s) \/ ForceCheck(s) \/ CheckStop(s)
           \/ CancelStop(s)
  <2>1. Kept
    BY <1>4 DEF CloseMaker, ExitFills, ExitExpires, ForceCheck, CheckStop, CancelStop,
                OutsideTasks, bookVars, loopVars
  <2> QED BY <1>1, <2>1
<1>5. CASE StoreTrade(s) \/ HaltGuard(s)
  <2>1. Kept
    BY <1>5 DEF StoreTrade, HaltGuard, bookVars, loopVars
  <2> QED BY <1>1, <2>1
<1>6. CASE EntryRefused(s) \/ EntryLost(s)
  <2>1. Put(Flat)
    BY <1>6 DEF EntryRefused, EntryLost, Discard, OutsideTasks, bookVars, loopVars
  <2> QED BY <1>2, <2>1, Values
<1>7. CASE EntryDone(s)
  <2> DEFINE q == work[s].got
             b == work[s].set
             p == [ledger[s] EXCEPT !.status = "open", !.qty = q, !.stop = b]
  <2>1. q \in Amount /\ b \in BOOLEAN
    BY Parts DEF Work
  <2>2. Put(p)
    BY <1>7 DEF EntryDone, OutsideTasks, bookVars, loopVars
  <2> HIDE DEF q, b
  <2>3. p \in Pos /\ p.ep = ledger[s].ep
    BY <2>1, Parts, Names DEF Pos
  <2> QED BY <1>2, <2>2, <2>3
<1>8. CASE MakerSet(s)
  <2> DEFINE p == [ledger[s] EXCEPT !.maker = TRUE]
  <2>1. Put(p)
    BY <1>8 DEF MakerSet, OutsideTasks, bookVars, loopVars
  <2>2. p \in Pos /\ p.ep = ledger[s].ep
    BY Parts DEF Pos
  <2> QED BY <1>2, <2>1, <2>2
<1>9. CASE ExitStart(s) \/ ExitFails(s)
  <2> DEFINE p(st) == [ledger[s] EXCEPT !.status = st]
  <2>1. Put(p("closing")) \/ Put(p("open"))
    BY <1>9 DEF ExitStart, ExitFails, SetStatus, OutsideTasks, bookVars, loopVars
  <2>2. \A st \in Status : p(st) \in Pos /\ p(st).ep = ledger[s].ep
    BY Parts DEF Pos
  <2> QED BY <1>2, <2>1, <2>2, Names
<1>10. CASE Finalize(s)
  <2>1. work[s].ep = ledger[s].ep /\ work[s].ep \in Eps /\ work[s].legs \in Legs
    BY <1>10, Parts DEF Finalize, AlignedAt, Work
  <2> QED BY <1>10, <2>1 DEF Finalize, Books, loopVars
<1> QED BY <1>3, <1>4, <1>5, <1>6, <1>7, <1>8, <1>9, <1>10 DEF Worker

\* What the exchange and the clock do books nothing.
LEMMA OutsideQuiet ==
    ASSUME TInv, NEW s \in Sym, Exchange(s) \/ Tick(s) PROVE Quiet
<1>1. UNCHANGED traderVars /\ booked' = booked /\ lastSig' = lastSig
  BY DEF Exchange, MakerFills, MakerExpires, StopFires, TradesShow, Tick, Outside, bookVars, loopVars
<1> QED BY <1>1, QuietTrader

\* Neither the end nor the start of the process books anything.
LEMMA CrashQuiet == ASSUME TInv, Crash \/ Start \/ RecoverDone PROVE Quiet
<1>1. CASE Crash
  BY <1>1 DEF Crash, Quiet, bookVars
<1>2. CASE Start
  BY <1>2, QuietTrader DEF Start, bookVars, loopVars
<1>3. CASE RecoverDone
  <2>1. ledger' = ledger /\ booked' = booked /\ lastSig' = lastSig /\ Save
    BY <1>3 DEF RecoverDone, bookVars, loopVars
  <2>2. disk'.ledger = ledger'
    BY <2>1 DEF Save
  <2> QED BY <2>1, <2>2 DEF Quiet
<1> QED BY <1>1, <1>2, <1>3

\* Recover is quiet but where it books a position that closed while the process was down.
LEMMA RecoverQuiet ==
    ASSUME TInv, NEW s \in Sym, Recover(s)
    PROVE  Quiet \/ Books(s)
<1>1. CASE RecoverRefused(s)
  BY <1>1, QuietTrader DEF RecoverRefused, bookVars, loopVars
<1>2. CASE RecoverFlat(s)
  BY <1>2, Values, QuietPosition DEF RecoverFlat, bookVars, loopVars
<1>3. CASE RecoverOpen(s)
  <2> DEFINE p == [ledger[s] EXCEPT !.status = "open", !.source = "recovered", !.exitReq = FALSE]
  <2>1. p \in Pos /\ p.ep = ledger[s].ep
    BY Parts, Names DEF Pos
  <2>2. ledger' = [ledger EXCEPT ![s] = p]
    BY <1>3 DEF RecoverOpen
  <2> HIDE DEF p
  <2> QED BY <1>3, <2>1, <2>2, QuietPosition DEF RecoverOpen, bookVars, loopVars
<1>4. CASE RecoverClosed(s)
  <2>1. ledger[s].ep \in Eps
    BY <1>4, Parts DEF RecoverClosed, AlignedAt
  <2>2. PICK legs \in Answered(s, ledger[s].ep) \cup {NoLegs} :
            \E net \in NetsOf(legs) : Book(s, ledger[s].ep, legs, net)
    BY <1>4 DEF RecoverClosed
  <2>3. legs \in Legs
    BY <2>1, <2>2, Parts, Values DEF Answered
  <2> QED BY <1>4, <2>1, <2>2, <2>3 DEF Books, RecoverClosed, loopVars
<1> QED BY <1>1, <1>2, <1>3, <1>4 DEF Recover

\* Every step is one of the kinds the invariant is shown for.
LEMMA StepKinds ==
    ASSUME TInv, [Next]_vars
    PROVE  Quiet \/ \E s \in Sym : Signals(s) \/ Books(s)
<1>1. ASSUME NEW s \in Sym, Loop(s) PROVE Quiet \/ Signals(s)
  BY <1>1, OnEntrySignals, OnExitQuiet, PeriodicQuiet DEF Loop
<1>2. ASSUME NEW s \in Sym, Worker(s) \/ Recover(s) PROVE Quiet \/ Books(s)
  BY <1>2, WorkerQuiet, RecoverQuiet
<1>3. ASSUME NEW s \in Sym, Exchange(s) \/ Tick(s) PROVE Quiet
  BY <1>3, OutsideQuiet
<1>4. CASE ConsumeResume \/ Crash \/ Start \/ RecoverDone
  BY <1>4, ConsumeResumeQuiet, CrashQuiet
<1>5. CASE UNCHANGED vars
  BY <1>5, QuietTrader DEF vars, bookVars, loopVars
<1> QED BY <1>1, <1>2, <1>3, <1>4, <1>5 DEF Next

-----------------------------------------------------------------------------
(* A trade is booked once.                                                 *)

\* Episodes and counters are integers.
LEMMA Numbers ==
    ASSUME TInv, NEW s \in Sym
    PROVE  /\ ledger[s].ep \in Nat /\ disk.ledger[s].ep \in Nat /\ lastSig[s] \in Nat
           /\ \A ep \in Eps : ep \in Nat /\ ep # 0 /\ booked[s][ep].n \in Nat
<1>1. ledger[s].ep \in Nat /\ disk.ledger[s].ep \in Nat
  BY Parts, Constants DEF Pos
<1>2. lastSig[s] \in Nat
  BY Constants DEF TInv, Sound, TypeOK, LoopOK
<1>3. \A ep \in Eps : ep \in Nat /\ ep # 0 /\ booked[s][ep].n \in Nat
  BY Constants DEF TInv, Sound, TypeOK, BookOK
<1> QED BY <1>1, <1>2, <1>3

\* Every step keeps the strengthening.
LEMMA NextU == ASSUME TInv, Unbooked, [Next]_vars PROVE Unbooked'
<1> SUFFICES ASSUME NEW t \in Sym PROVE UnbookedAt(t)'
  BY DEF Unbooked
<1>1. UnbookedAt(t) /\ lastSig \in [Sym -> EpOrNone]
  BY DEF Unbooked, TInv, Sound, TypeOK, LoopOK
<1>2. CASE Quiet
  BY <1>1, <1>2, Numbers DEF Quiet, UnbookedAt
<1>3. ASSUME NEW s \in Sym, Signals(s) PROVE UnbookedAt(t)'
  <2>1. CASE t = s
    <3>1. /\ booked' = booked /\ lastSig'[t] = lastSig[t] + 1
          /\ ledger'[t].ep \in {ledger[t].ep, lastSig[t] + 1}
          /\ disk'.ledger[t].ep \in {disk.ledger[t].ep, ledger'[t].ep}
      BY <1>1, <1>3, <2>1 DEF Signals
    <3> QED BY <1>1, <3>1, Numbers DEF UnbookedAt
  <2>2. CASE t # s
    BY <1>1, <1>3, <2>2, Numbers DEF Signals, UnbookedAt
  <2> QED BY <2>1, <2>2
<1>4. ASSUME NEW s \in Sym, Books(s) PROVE UnbookedAt(t)'
  <2>1. PICK legs \in Legs : \E net \in NetsOf(legs) : Book(s, ledger[s].ep, legs, net)
    BY <1>4 DEF Books
  <2>2. /\ ledger[s].ep \in Eps /\ lastSig' = lastSig
        /\ ledger'[s] = Flat /\ disk'.ledger = ledger'
        /\ \A u \in Sym \ {s} : ledger'[u] = ledger[u]
    BY <1>4, <2>1, BookOKs DEF Books
  <2>3. PICK net : booked' = [booked EXCEPT ![s][ledger[s].ep] =
                                  [n |-> @.n + 1, legs |-> legs, net |-> net]]
    BY <2>1 DEF Book
  <2>4. CASE t = s
    <3>1. booked[t][ledger[t].ep].n = 0
      BY <1>1, <2>2, <2>4, Numbers DEF UnbookedAt
    <3>2. booked'[t][ledger[t].ep].n = 1
      BY <2>2, <2>3, <2>4, <3>1 DEF TInv, Sound, TypeOK, BookOK
    <3>3. \A ep \in Eps : ep # ledger[t].ep => booked'[t][ep] = booked[t][ep]
      BY <2>2, <2>3, <2>4 DEF TInv, Sound, TypeOK, BookOK
    <3>4. ledger'[t].ep = 0 /\ disk'.ledger[t].ep = 0
      BY <2>2, <2>4, Values
    <3> QED BY <1>1, <2>2, <3>2, <3>3, <3>4, Numbers DEF UnbookedAt
  <2>5. CASE t # s
    <3>1. booked'[t] = booked[t]
      BY <2>3, <2>5 DEF TInv, Sound, TypeOK, BookOK
    <3> QED BY <1>1, <2>2, <2>5, <3>1 DEF UnbookedAt
  <2> QED BY <2>4, <2>5
<1> QED BY <1>2, <1>3, <1>4, StepKinds

\* The engine's exit, the retry, the maker poll, the stop check and the
\* recovery after a crash at any moment book a trade once between them.
THEOREM BookedOnceHolds == Spec => []BookedOnce
<1>1. TInv /\ Unbooked /\ [Next]_vars => (TInv /\ Unbooked)'
  BY NextT, NextU
<1>2. Init => TInv /\ Unbooked
  BY InitTInv, InitU
<1>3. TInv /\ Unbooked => BookedOnce
  <2> SUFFICES ASSUME TInv, Unbooked, NEW s \in Sym, NEW ep \in Eps PROVE booked[s][ep].n <= 1
    BY DEF BookedOnce
  <2> QED BY Numbers DEF Unbooked, UnbookedAt
<1> QED BY <1>1, <1>2, <1>3, PTL DEF Spec

-----------------------------------------------------------------------------
(* The halt survives.                                                      *)

\* Whoever books the trade that takes the sum to the stop line leaves the halt
\* and the sum in state.json in the same step.
THEOREM HaltIsDurableHolds == Spec => HaltIsDurable
<1>1. TInv /\ [Next]_vars =>
          [booked' # booked /\ cum' <= -StopLine => disk'.halted /\ disk'.cum = cum']_vars
  <2> SUFFICES ASSUME TInv, [Next]_vars, booked' # booked, cum' <= -StopLine
               PROVE  disk'.halted /\ disk'.cum = cum'
    OBVIOUS
  <2>1. PICK s \in Sym : Books(s)
    BY StepKinds DEF Quiet, Signals
  <2>2. halted' = (halted \/ cum' <= -StopLine) /\ Save
    BY <2>1 DEF Books, Book
  <2>3. disk'.halted = halted' /\ disk'.cum = cum'
    BY <2>2 DEF Save
  <2> QED BY <2>2, <2>3
<1>2. Spec => []TInv
  BY InitTInv, NextT, PTL DEF Spec
<1> QED BY <1>1, <1>2, PTL DEF Spec, HaltIsDurable

-----------------------------------------------------------------------------
(* The order thread and its position.                                      *)

\* How far the order thread is says how far its position is.
StagedAt(s) ==
    /\ work[s].at \in {"asked", "filled", "lost", "stopped"} => ledger[s].status = "opening"
    /\ work[s].at \in {"makerset", "maker", "market", "force", "cancel", "finalize"}
          => ledger[s].status \in {"open", "closing"}
Staged == \A s \in Sym : StagedAt(s)

\* What there is of a symbol.
Local(s) == <<ledger[s], work[s], short[s], orders[s], fills[s], shown[s], booked[s], lastSig[s],
              guardHalted[s]>>

\* A step about one symbol leaves the others alone, but may save what memory holds.
LEMMA WorkerElsewhere ==
    ASSUME TInv, NEW s \in Sym, Worker(s), NEW t \in Sym \ {s}
    PROVE  UNCHANGED Local(t) /\ disk'.ledger[t] \in {disk.ledger[t], ledger[t]}
<1>0. /\ DOMAIN ledger = Sym /\ DOMAIN work = Sym /\ DOMAIN short = Sym /\ DOMAIN orders = Sym
      /\ DOMAIN fills = Sym /\ DOMAIN shown = Sym /\ DOMAIN booked = Sym
      /\ DOMAIN guardHalted = Sym
  BY DEF TInv, Sound, TypeOK, TraderOK, TaskOK, ExchOK, BookOK, ProcOK
<1> USE DEF Local, Pop, Do, Save, Works, Fails, OutsideTasks, traderVars, exchVars, loopVars,
            bookVars, procVars
<1>1. CASE DropTask(s) \/ EntryAsks(s)
  BY <1>0, <1>1 DEF DropTask, EntryAsks
<1>2. CASE EntryRefused(s)
  BY <1>0, <1>2 DEF EntryRefused, Discard
<1>3. CASE EntryFills(s)
  BY <1>0, <1>3 DEF EntryFills
<1>4. CASE EntryLost(s)
  BY <1>0, <1>4 DEF EntryLost, Discard
<1>5. CASE PlaceStop(s)
  BY <1>0, <1>5 DEF PlaceStop
<1>6. CASE EntryDone(s)
  BY <1>0, <1>6 DEF EntryDone
<1>7. CASE PlaceMaker(s)
  BY <1>0, <1>7 DEF PlaceMaker
<1>8. CASE MakerSet(s)
  BY <1>0, <1>8 DEF MakerSet
<1>9. CASE PollMaker(s)
  BY <1>0, <1>9 DEF PollMaker
<1>10. CASE ExitStart(s)
  BY <1>0, <1>10 DEF ExitStart, SetStatus
<1>11. CASE CloseMaker(s)
  BY <1>0, <1>11 DEF CloseMaker
<1>12. CASE ExitFills(s)
  BY <1>0, <1>12 DEF ExitFills, BuyBack
<1>13. CASE ExitExpires(s)
  BY <1>0, <1>13 DEF ExitExpires
<1>14. CASE ExitFails(s)
  BY <1>0, <1>14 DEF ExitFails, SetStatus, BuyBack
<1>15. CASE ForceCheck(s)
  BY <1>0, <1>15 DEF ForceCheck
<1>16. CASE CheckStop(s)
  BY <1>0, <1>16 DEF CheckStop
<1>17. CASE CancelStop(s)
  BY <1>0, <1>17 DEF CancelStop
<1>18. CASE Finalize(s)
  BY <1>0, <1>18 DEF Finalize, Book
<1>19. CASE StoreTrade(s)
  BY <1>0, <1>19 DEF StoreTrade
<1>20. CASE HaltGuard(s)
  BY <1>0, <1>20 DEF HaltGuard
<1> QED BY <1>1, <1>2, <1>3, <1>4, <1>5, <1>6, <1>7, <1>8, <1>9, <1>10, <1>11, <1>12, <1>13,
           <1>14, <1>15, <1>16, <1>17, <1>18, <1>19, <1>20 DEF Worker

\* So do the event loop, the exchange, the clock and recover.
LEMMA Elsewhere ==
    ASSUME TInv, NEW s \in Sym, Loop(s) \/ Worker(s) \/ Exchange(s) \/ Tick(s) \/ Recover(s),
           NEW t \in Sym \ {s}
    PROVE  UNCHANGED Local(t) /\ disk'.ledger[t] \in {disk.ledger[t], ledger[t]}
<1>0. /\ DOMAIN ledger = Sym /\ DOMAIN short = Sym /\ DOMAIN orders = Sym
      /\ DOMAIN fills = Sym /\ DOMAIN shown = Sym /\ DOMAIN booked = Sym /\ DOMAIN lastSig = Sym
  BY DEF TInv, Sound, TypeOK, TraderOK, LoopOK, ExchOK, BookOK
<1> USE DEF Local, Save, traderVars, taskVars, exchVars, loopVars, bookVars, procVars
<1>1. CASE OnEntry(s)
  BY <1>0, <1>1 DEF OnEntry, TakeSignal
<1>2. CASE OnExit(s)
  BY <1>0, <1>2 DEF OnExit, RequestExit
<1>3. CASE Periodic(s)
  BY <1>0, <1>3 DEF Periodic, PeriodicRetryExit, PeriodicSoftExit, PeriodicWatch
<1>4. CASE Exchange(s) \/ Tick(s)
  <2>1. ASSUME NEW o, NEW k, NEW rest, Executes(s, o, k, rest), UNCHANGED <<Outside, loopVars>>
        PROVE  UNCHANGED Local(t) /\ disk'.ledger[t] \in {disk.ledger[t], ledger[t]}
    BY <1>0, <2>1 DEF Executes, Added, Outside
  <2>2. CASE MakerFills(s)
    BY <2>1, <2>2 DEF MakerFills
  <2>3. CASE StopFires(s)
    BY <2>1, <2>3 DEF StopFires
  <2>4. CASE MakerExpires(s)
    BY <1>0, <2>4 DEF MakerExpires, Outside
  <2>5. CASE TradesShow(s)
    BY <1>0, <2>5 DEF TradesShow, Outside
  <2>6. CASE Tick(s)
    BY <1>0, <2>6 DEF Tick, Outside
  <2> QED BY <1>4, <2>2, <2>3, <2>4, <2>5, <2>6 DEF Exchange
<1>5. CASE RecoverRefused(s) \/ RecoverFlat(s) \/ RecoverOpen(s)
  BY <1>0, <1>5 DEF RecoverRefused, RecoverFlat, RecoverOpen, CleanUp
<1>6. CASE RecoverClosed(s)
  BY <1>0, <1>6 DEF RecoverClosed, Book
<1> QED BY <1>1, <1>2, <1>3, <1>4, <1>5, <1>6, WorkerElsewhere DEF Loop, Recover

\* The first task is of the operation that is looked for, and its position is live.
LEMMA LiveStatus ==
    ASSUME TInv, NEW s \in Sym, NEW op \in Op, HeadIs(s, op), Live(s, Head(queue[s]))
    PROVE  /\ op = "entry" => ledger[s].status = "opening"
           /\ op \in {"exit", "place", "poll"} => ledger[s].status = "open"
           /\ op = "check" => ledger[s].status \in {"open", "closing"}
BY DEF HeadIs, Live

\* The order thread keeps its step in line with its position.
LEMMA WorkerStaged == ASSUME TInv, NEW s \in Sym, StagedAt(s), Worker(s) PROVE StagedAt(s)'
<1>0. /\ DOMAIN ledger = Sym /\ DOMAIN work = Sym /\ ledger[s] \in Pos /\ work[s] \in Work
  BY Parts DEF TInv, Sound, TypeOK, TraderOK, TaskOK
<1> USE DEF StagedAt, Do, traderVars
<1>1. CASE DropTask(s)
  BY <1>0, <1>1 DEF DropTask, Pos, Work
<1>21. CASE EntryAsks(s)
  <2>1. ledger[s].status = "opening" /\ ledger[s].ep \in Eps
    BY <1>21, LiveStatus, LiveEp, Names DEF EntryAsks
  <2>2. work'[s].at = "asked" /\ ledger' = ledger
    BY <1>0, <1>21, <2>1, Values, Names DEF EntryAsks
  <2> QED BY <2>1, <2>2
<1>2. CASE EntryRefused(s)
  <2>1. work'[s].at = "idle"
    BY <1>0, <1>2, Values DEF EntryRefused, HeadIs
  <2> QED BY <2>1
<1>3. CASE EntryFills(s)
  <2>1. ledger[s].status = "opening"
    BY <1>3 DEF EntryFills
  <2>3. (\E got : Do(s, [work[s] EXCEPT !.at = "filled", !.got = got]))
           \/ Do(s, [work[s] EXCEPT !.at = "lost"])
    BY <1>3 DEF EntryFills
  <2>4. work'[s].at \in {"filled", "lost"}
    BY <1>0, <2>3 DEF Work
  <2>5. ledger' = ledger
    BY <1>3 DEF EntryFills
  <2> QED BY <2>1, <2>4, <2>5
<1>4. CASE EntryLost(s)
  BY <1>0, Values, Names, <1>4 DEF EntryLost, Pos, Work, Discard, Flat
<1>5. CASE PlaceStop(s)
  BY <1>0, <1>5 DEF PlaceStop, Pos, Work
<1>6. CASE EntryDone(s)
  BY <1>0, Values, Names, <1>6 DEF EntryDone, Pos, Work
<1>7. CASE PlaceMaker(s)
  <2>1. ledger[s].status = "open" /\ ledger[s].ep \in Eps
    BY <1>7, LiveStatus, LiveEp, Names DEF PlaceMaker
  <2>2. At("makerset", ledger[s].ep).at = "makerset"
    BY <2>1, Values, Names
  <2>3. work'[s].at \in {"makerset", work[s].at} /\ ledger' = ledger
    BY <1>0, <1>7, <2>2 DEF PlaceMaker
  <2> QED BY <2>1, <2>3
<1>8. CASE MakerSet(s)
  BY <1>0, Values, Names, <1>8 DEF MakerSet, Pos, Work
<1>9. CASE PollMaker(s)
  <2> DEFINE v == At("cancel", ledger[s].ep)
  <2>1. ledger[s].status = "open" /\ ledger[s].ep \in Eps
    BY <1>9, LiveStatus, LiveEp, Names DEF PollMaker
  <2>2. v \in Work /\ v.at = "cancel"
    BY <2>1, Values, Names
  <2>3. (\E m : Do(s, [v EXCEPT !.legs.maker = m])) \/ UNCHANGED work
    BY <1>9 DEF PollMaker
  <2> HIDE DEF v
  <2>4. work'[s].at \in {"cancel", work[s].at}
    BY <1>0, <2>2, <2>3 DEF Work
  <2>5. ledger' = ledger
    BY <1>9 DEF PollMaker
  <2> QED BY <2>1, <2>4, <2>5
<1>10. CASE ExitStart(s)
  <2>1. ledger'[s].status = "closing"
    BY <1>0, <1>10, Names DEF ExitStart, SetStatus, Pos
  <2>2. ledger[s].ep \in Eps
    BY <1>10, LiveEp, Names DEF ExitStart
  <2>3. work'[s].at \in {"maker", "market"}
    BY <1>0, <1>10, <2>2, Values, Names DEF ExitStart
  <2> QED BY <2>1, <2>3
<1>11. CASE CloseMaker(s)
  BY <1>0, <1>11 DEF CloseMaker, Pos, Work
<1>12. CASE ExitFills(s)
  <2>1. \/ \E n : Do(s, [work[s] EXCEPT !.at = "cancel", !.legs.market = n])
        \/ Do(s, [work[s] EXCEPT !.at = "force"])
    BY <1>12 DEF ExitFills
  <2>2. work'[s].at \in {"cancel", "force"}
    BY <1>0, <2>1 DEF Work
  <2>3. ledger' = ledger /\ work[s].at = "market"
    BY <1>12 DEF ExitFills
  <2> QED BY <2>2, <2>3
<1>13. CASE ExitExpires(s)
  BY <1>0, <1>13 DEF ExitExpires, Pos, Work
<1>14. CASE ExitFails(s)
  BY <1>0, <1>14, Values DEF ExitFails
<1>15. CASE ForceCheck(s)
  <2>1. \/ \E n : Do(s, [work[s] EXCEPT !.at = "finalize", !.legs.stop = n])
        \/ Do(s, [work[s] EXCEPT !.at = "finalize"])
    BY <1>15 DEF ForceCheck
  <2>2. work'[s].at = "finalize"
    BY <1>0, <2>1 DEF Work
  <2>3. ledger' = ledger /\ work[s].at = "force"
    BY <1>15 DEF ForceCheck
  <2> QED BY <2>2, <2>3
<1>16. CASE CheckStop(s)
  <2> DEFINE v == At("finalize", ledger[s].ep)
  <2>1. ledger[s].status \in {"open", "closing"} /\ ledger[s].ep \in Eps
    BY <1>16, LiveStatus, LiveEp, Names DEF CheckStop
  <2>2. v \in Work /\ v.at = "finalize"
    BY <2>1, Values, Names
  <2>3. (\E m : Do(s, [v EXCEPT !.legs.stop = m])) \/ UNCHANGED work
    BY <1>16 DEF CheckStop
  <2> HIDE DEF v
  <2>4. work'[s].at \in {"finalize", work[s].at}
    BY <1>0, <2>2, <2>3 DEF Work
  <2>5. ledger' = ledger
    BY <1>16 DEF CheckStop
  <2> QED BY <2>1, <2>4, <2>5
<1>17. CASE CancelStop(s)
  BY <1>0, <1>17 DEF CancelStop, Pos, Work
<1>18. CASE Finalize(s)
  BY <1>0, <1>18 DEF Finalize, Pos, Work, Book, Flat
<1>19. CASE StoreTrade(s)
  BY <1>0, Values, Names, <1>19 DEF StoreTrade, Pos, Work
<1>20. CASE HaltGuard(s)
  BY <1>0, Values, Names, <1>20 DEF HaltGuard, Pos, Work
<1> QED BY <1>1, <1>2, <1>3, <1>4, <1>5, <1>6, <1>7, <1>8, <1>9, <1>10, <1>11, <1>12, <1>13,
           <1>14, <1>15, <1>16, <1>17, <1>18, <1>19, <1>20, <1>21 DEF Worker

\* So does every step.
LEMMA NextStaged == ASSUME TInv, Staged, [Next]_vars PROVE Staged'
<1>0. \A s \in Sym : ledger[s] \in Pos /\ work[s] \in Work /\ StagedAt(s) /\ AlignedAt(s)
  BY Parts DEF Staged
<1>1. ASSUME NEW s \in Sym, Loop(s) \/ Worker(s) \/ Exchange(s) \/ Tick(s) \/ Recover(s)
      PROVE  Staged'
  <2>1. \A t \in Sym \ {s} : StagedAt(t)'
    BY <1>0, <1>1, Elsewhere DEF Local, StagedAt
  <2> SUFFICES StagedAt(s)'
    BY <2>1 DEF Staged
  <2>2. CASE Worker(s)
    BY <1>0, <2>2, WorkerStaged
  <2>3. CASE OnEntry(s)
    <3>1. work' = work /\ (ledger' = ledger \/ ledger[s].status = "none")
      BY <2>3 DEF OnEntry, TakeSignal, CanEnter, traderVars
    <3> QED BY <1>0, <3>1 DEF StagedAt, AlignedAt
  <2>4. CASE OnExit(s) \/ Periodic(s)
    <3>1. work' = work
      BY <2>4 DEF OnExit, Periodic
    <3>2. ledger'[s].status = ledger[s].status
      BY <1>0, <2>4 DEF OnExit, RequestExit, Periodic, PeriodicRetryExit, PeriodicSoftExit,
         PeriodicWatch, traderVars, TInv, Sound, TypeOK, TraderOK, Pos
    <3> QED BY <1>0, <3>1, <3>2 DEF StagedAt
  <2>5. CASE Exchange(s) \/ Tick(s)
    BY <1>0, <2>5 DEF Exchange, MakerFills, MakerExpires, StopFires, TradesShow, Tick, Outside,
       traderVars, taskVars, StagedAt
  <2>6. CASE Recover(s)
    <3>1. work' = work /\ proc # "up"
      BY <2>6 DEF Recover, Recovering, RecoverRefused, RecoverFlat, RecoverOpen, RecoverClosed,
         taskVars
    <3> QED BY <3>1, DownIdle DEF StagedAt
  <2> QED BY <1>1, <2>2, <2>3, <2>4, <2>5, <2>6 DEF Loop
<1>2. CASE ConsumeResume \/ Start \/ RecoverDone \/ UNCHANGED vars
  <2>1. work' = work /\ ledger' = ledger
    BY <1>2 DEF ConsumeResume, Start, RecoverDone, vars, traderVars, taskVars
  <2> QED BY <1>0, <2>1 DEF Staged, StagedAt
<1>3. CASE Crash
  BY <1>3, Values DEF Crash, Staged, StagedAt
<1> QED BY <1>1, <1>2, <1>3 DEF Next

-----------------------------------------------------------------------------
(* The ledger in memory and state.json.                                    *)

\* What recover has made of the position d of state.json, not saved yet.
Recovered(p, d) ==
    \/ p = d
    \/ p.status = "none" /\ p.ep = 0 /\ d.status \in {"none", "opening"}
    \/ p.status = "open" /\ p.ep = d.ep /\ d.status # "none"

\* Sum and halt are saved in the step that changes them, and so is a position but
\* for what recover finds out, which is saved with the next booking or at its end.
DurableAt(s) ==
    /\ ledger[s].status = "none" => ledger[s].ep = 0
    /\ disk.ledger[s].status = "none" => disk.ledger[s].ep = 0
    /\ proc \in {"up", "down"} => ledger[s] = disk.ledger[s]
    /\ s \in toRecover => ledger[s] = disk.ledger[s]
    /\ proc = "recovering" /\ s \notin toRecover => ledger[s].status \in {"none", "open"}
    /\ Recovered(ledger[s], disk.ledger[s])
Durable == cum = disk.cum /\ halted = disk.halted /\ \A s \in Sym : DurableAt(s)

\* Everything is saved at the start.
LEMMA InitD == Init => Durable
<1> SUFFICES ASSUME Init PROVE Durable
  OBVIOUS
<1>1. disk.ledger = ledger /\ disk.cum = cum /\ disk.halted = halted
  BY DEF Init
<1>2. \A s \in Sym : ledger[s] = Flat
  BY DEF Init
<1> QED BY <1>1, <1>2, Values DEF Durable, DurableAt, Recovered, Init

\* How a position may become another one in one save.
Follows(d, e) ==
    \/ e = d
    \/ e.status = "none" /\ e.ep = 0 /\ d.status \in {"none", "opening"}
    \/ /\ e.ep = d.ep /\ d.status # "none" /\ e.status # "none"
       /\ e.status = "opening" => d.status = "opening"

\* The kinds of steps, as far as ledger and process are concerned: nothing ...
Still == UNCHANGED <<traderVars, proc, toRecover, booked, lastSig>>

\* ... the program, running, changes a position and saves it ...
Puts(s, p) ==
    /\ proc = "up" /\ UNCHANGED <<proc, toRecover, cum, halted, booked>>
    /\ p \in Pos /\ (p.status = "none" => p.ep = 0)
    /\ ledger' = [ledger EXCEPT ![s] = p] /\ entries' \in [Sym -> Nat] /\ Save
Changes(s, p) == Puts(s, p) /\ lastSig' = lastSig /\ Follows(ledger[s], p)

\* ... a signal comes in ...
Takes(s, ep) == Puts(s, Opening(ep)) /\ CanEnter(s)
Comes(s, ep) ==
    /\ ep = lastSig[s] + 1 /\ ep \in Eps /\ lastSig' = [lastSig EXCEPT ![s] = ep]
    /\ Takes(s, ep) \/ UNCHANGED <<traderVars, proc, toRecover, booked>>

\* ... the operator resumes ...
Resumes ==
    /\ resumes' = resumes + 1
    /\ proc = "up" /\ UNCHANGED <<proc, toRecover, ledger, entries, booked, lastSig>>
    /\ halted' = FALSE /\ cum' \in {cum, 0} /\ Save

\* ... a trade is booked, by the order thread or by recover ...
Closes(s) ==
    /\ Books(s) /\ proc' = proc
    /\ \/ proc = "up" /\ toRecover' = toRecover
       \/ proc = "recovering" /\ s \in toRecover /\ toRecover' = toRecover \ {s}
    /\ ledger[s].status \in {"open", "closing"}

\* ... recover finds out about a position ...
Finds(s, p) ==
    /\ proc = "recovering" /\ s \in toRecover
    /\ proc' = proc /\ toRecover' = toRecover \ {s}
    /\ UNCHANGED <<disk, cum, halted, entries, booked, lastSig>>
    /\ ledger' = [ledger EXCEPT ![s] = p] /\ p \in Pos
    /\ \/ p = Flat /\ ledger[s].status \in {"none", "opening"}
       \/ p.status = "open" /\ p.ep = ledger[s].ep /\ ledger[s].status # "none"

\* ... or the process ends, starts, refuses to, or is recovered.
Ends ==
    /\ proc' = "down" /\ toRecover' = {} /\ UNCHANGED <<disk, booked, lastSig>>
    /\ ledger' = disk.ledger /\ halted' = disk.halted /\ cum' = disk.cum
Starts ==
    \/ proc = "down" /\ proc' = "recovering" /\ toRecover' = Sym
       /\ UNCHANGED <<traderVars, booked, lastSig>>
    \/ proc' = "refused" /\ toRecover' = {} /\ UNCHANGED <<traderVars, booked, lastSig>>
IsUp ==
    /\ proc = "recovering" /\ toRecover = {} /\ proc' = "up" /\ toRecover' = toRecover
    /\ UNCHANGED <<ledger, halted, cum, entries, booked, lastSig>> /\ Save

\* One position changes and is saved.
LEMMA PutChanges ==
    ASSUME TInv, Durable, NEW s \in Sym, proc = "up", NEW p \in Pos,
           p.status = "none" => p.ep = 0, Follows(ledger[s], p),
           ledger' = [ledger EXCEPT ![s] = p], UNCHANGED <<halted, cum, entries>>, Save,
           UNCHANGED <<proc, toRecover, booked, lastSig>>
    PROVE  \E q \in Pos : Changes(s, q)
<1>1. entries \in [Sym -> Nat]
  BY Parts
<1>2. Puts(s, p)
  BY <1>1 DEF Puts
<1> QED BY <1>2 DEF Changes

\* The order thread's step puts a position, books, or leaves the ledger alone.
LEMMA WorkerKinds ==
    ASSUME TInv, Staged, Durable, NEW s \in Sym, Worker(s)
    PROVE  Still \/ Closes(s) \/ \E p \in Pos : Changes(s, p)
<1> DEFINE Put(p) == /\ proc = "up" /\ UNCHANGED <<proc, toRecover, booked, lastSig>>
                     /\ ledger' = [ledger EXCEPT ![s] = p]
                     /\ UNCHANGED <<halted, cum, entries>> /\ Save
<1>0. ledger[s] \in Pos /\ StagedAt(s) /\ AlignedAt(s)
  BY Parts DEF Staged
<1>1. ASSUME NEW p \in Pos, Put(p), p.status = "none" => p.ep = 0, Follows(ledger[s], p)
      PROVE  \E q \in Pos : Changes(s, q)
  BY <1>1, PutChanges
<1>2. CASE DropTask(s) \/ EntryAsks(s) \/ EntryFills(s) \/ PlaceStop(s) \/ PlaceMaker(s)
           \/ PollMaker(s)
  BY <1>2 DEF DropTask, EntryAsks, EntryFills, PlaceStop, PlaceMaker, PollMaker, OutsideTasks,
              bookVars, loopVars, procVars, Still
<1>3. CASE CloseMaker(s) \/ ExitFills(s) \/ ExitExpires(s) \/ ForceCheck(s) \/ CheckStop(s)
           \/ CancelStop(s)
  BY <1>3 DEF CloseMaker, ExitFills, ExitExpires, ForceCheck, CheckStop, CancelStop,
              OutsideTasks, bookVars, loopVars, procVars, Still
<1>4. CASE StoreTrade(s) \/ HaltGuard(s)
  BY <1>4 DEF StoreTrade, HaltGuard, bookVars, loopVars, procVars, Still
<1>5. CASE EntryRefused(s) \/ EntryLost(s)
  <2>1. Put(Flat)
    BY <1>5 DEF EntryRefused, EntryLost, Discard, OutsideTasks, bookVars, loopVars, procVars, HeadIs
  <2>2. CASE EntryRefused(s)
    <3>1. ledger[s].status = "opening"
      BY <1>0, <2>2, LiveStatus, Names DEF EntryRefused, StagedAt
    <3> QED BY <1>1, <2>1, <3>1, Values DEF Follows
  <2>3. CASE EntryLost(s)
    <3>1. ledger[s].status = "opening"
      BY <1>0, <2>3 DEF EntryLost, StagedAt
    <3> QED BY <1>1, <2>1, <3>1, Values DEF Follows
  <2> QED BY <1>5, <2>2, <2>3
<1>7. CASE EntryDone(s)
  <2> DEFINE q == work[s].got
             b == work[s].set
             p == [ledger[s] EXCEPT !.status = "open", !.qty = q, !.stop = b]
  <2>1. q \in Amount /\ b \in BOOLEAN
    BY Parts DEF Work
  <2>2. Put(p)
    BY <1>7 DEF EntryDone, OutsideTasks, bookVars, loopVars, procVars
  <2>3. ledger[s].status = "opening"
    BY <1>0, <1>7 DEF EntryDone, StagedAt
  <2> HIDE DEF q, b
  <2>4. p \in Pos /\ p.ep = ledger[s].ep /\ p.status = "open"
    BY <1>0, <2>1, Names DEF Pos
  <2> HIDE DEF p
  <2> QED BY <1>1, <2>2, <2>3, <2>4 DEF Follows
<1>8. CASE MakerSet(s)
  <2> DEFINE p == [ledger[s] EXCEPT !.maker = TRUE]
  <2>1. Put(p)
    BY <1>8 DEF MakerSet, OutsideTasks, bookVars, loopVars, procVars
  <2>2. p \in Pos /\ p.ep = ledger[s].ep /\ p.status = ledger[s].status
    BY <1>0 DEF Pos
  <2>3. ledger[s].status \in {"open", "closing"}
    BY <1>0, <1>8 DEF MakerSet, StagedAt
  <2> HIDE DEF p
  <2> QED BY <1>1, <2>1, <2>2, <2>3 DEF Follows
<1>9. CASE ExitStart(s) \/ ExitFails(s)
  <2> DEFINE p(st) == [ledger[s] EXCEPT !.status = st]
  <2>1. Put(p("closing")) \/ Put(p("open"))
    BY <1>9 DEF ExitStart, ExitFails, SetStatus, OutsideTasks, bookVars, loopVars, procVars, HeadIs
  <2>2. \A st \in Status : p(st) \in Pos /\ p(st).ep = ledger[s].ep /\ p(st).status = st
    BY <1>0 DEF Pos
  <2>3. ledger[s].status # "none"
    <3>1. CASE ExitStart(s)
      BY <3>1, LiveStatus, Names DEF ExitStart
    <3>2. CASE ExitFails(s)
      BY <1>0, <3>2 DEF ExitFails, StagedAt
    <3> QED BY <1>9, <3>1, <3>2
  <2> HIDE DEF p
  <2>4. ASSUME NEW st \in {"open", "closing"}, Put(p(st)) PROVE \E q \in Pos : Changes(s, q)
    <3>1. p(st) \in Pos /\ p(st).ep = ledger[s].ep /\ p(st).status = st
      BY <2>2, Names
    <3>2. Follows(ledger[s], p(st)) /\ p(st).status # "none"
      BY <2>3, <3>1 DEF Follows
    <3> QED BY <1>1, <2>4, <3>1, <3>2
  <2> QED BY <2>1, <2>4
<1>10. CASE Finalize(s)
  <2>1. work[s].ep = ledger[s].ep /\ work[s].ep \in Eps /\ work[s].legs \in Legs
    BY <1>0, <1>10, Parts DEF Finalize, AlignedAt, Work
  <2>2. Books(s)
    BY <1>10, <2>1 DEF Finalize, Books, loopVars
  <2>3. ledger[s].status \in {"open", "closing"}
    BY <1>0, <1>10 DEF Finalize, StagedAt
  <2> QED BY <1>10, <2>2, <2>3 DEF Closes, Finalize, procVars
<1> QED BY <1>2, <1>3, <1>4, <1>5, <1>7, <1>8, <1>9, <1>10 DEF Worker

\* A signal that comes in is taken with an empty position, or skipped.
LEMMA OnEntryKinds ==
    ASSUME TInv, NEW s \in Sym, OnEntry(s) PROVE \E ep \in Eps : Comes(s, ep)
<1> DEFINE ep == lastSig[s] + 1
<1>1. /\ ep \in Eps /\ lastSig' = [lastSig EXCEPT ![s] = ep]
      /\ UNCHANGED <<proc, toRecover, booked>> /\ proc = "up"
  BY Constants DEF OnEntry, TInv, Sound, TypeOK, LoopOK, procVars, bookVars
<1>2. CASE UNCHANGED traderVars
  BY <1>1, <1>2 DEF Comes
<1>3. CASE TakeSignal(s, ep)
  <2>1. entries' \in [Sym -> Nat]
    BY <1>3 DEF TakeSignal, TInv, Sound, TypeOK, TraderOK
  <2>2. Opening(ep) \in Pos /\ Opening(ep).status = "opening"
    BY <1>1, Values DEF Opening, Flat
  <2>3. Takes(s, ep)
    BY <1>1, <1>3, <2>1, <2>2 DEF TakeSignal, Takes, Puts
  <2> QED BY <1>1, <2>3 DEF Comes
<1> QED BY <1>2, <1>3 DEF OnEntry

\* The exit signal and periodic change marks of the position.
LEMMA LoopKinds ==
    ASSUME TInv, Durable, NEW s \in Sym, OnExit(s) \/ Periodic(s)
    PROVE  Still \/ \E p \in Pos : Changes(s, p)
<1>0. ledger[s] \in Pos /\ (ledger[s].status = "none" => ledger[s].ep = 0)
  BY Parts DEF Durable, DurableAt
<1>1. UNCHANGED <<proc, toRecover, booked, lastSig>> /\ proc = "up"
  BY DEF OnExit, Periodic, procVars, bookVars, loopVars
<1>2. CASE UNCHANGED traderVars
  BY <1>1, <1>2 DEF Still
<1>3. ASSUME NEW p \in Pos, p.ep = ledger[s].ep, p.status = ledger[s].status,
             ledger' = [ledger EXCEPT ![s] = p], UNCHANGED <<halted, cum, entries>>, Save,
             ledger[s].status # "none"
      PROVE  \E q \in Pos : Changes(s, q)
  BY <1>1, <1>3, PutChanges DEF Follows
<1>4. CASE RequestExit(s) /\ IsItsTrade(s)
  <2> DEFINE p == [ledger[s] EXCEPT !.exitReq = TRUE]
  <2>1. p \in Pos /\ p.ep = ledger[s].ep /\ p.status = ledger[s].status
    BY <1>0 DEF Pos
  <2> QED BY <1>3, <1>4, <2>1 DEF RequestExit, IsItsTrade
<1>5. CASE PeriodicSoftExit(s) /\ ledger[s].status = "open"
  <2> DEFINE b == ledger[s].tried \/ PlaceDue(s)
             p == [ledger[s] EXCEPT !.exitReq = TRUE, !.tried = b]
  <2>1. b \in BOOLEAN
    OBVIOUS
  <2>2. ledger' = [ledger EXCEPT ![s] = p] /\ UNCHANGED <<halted, cum, entries>> /\ Save
    BY <1>5 DEF PeriodicSoftExit
  <2> HIDE DEF b
  <2>3. p \in Pos /\ p.ep = ledger[s].ep /\ p.status = ledger[s].status
    BY <1>0, <2>1 DEF Pos
  <2> HIDE DEF p
  <2> QED BY <1>3, <1>5, <2>2, <2>3
<1>6. CASE PeriodicWatch(s) /\ ledger[s].status = "open"
  <2> DEFINE b == ledger[s].tried \/ PlaceDue(s)
             p == [ledger[s] EXCEPT !.tried = b]
  <2>1. b \in BOOLEAN
    OBVIOUS
  <2>2. ledger' = [ledger EXCEPT ![s] = p] /\ UNCHANGED <<halted, cum, entries>> /\ Save
    BY <1>6 DEF PeriodicWatch
  <2> HIDE DEF b
  <2>3. p \in Pos /\ p.ep = ledger[s].ep /\ p.status = ledger[s].status
    BY <1>0, <2>1 DEF Pos
  <2> HIDE DEF p
  <2> QED BY <1>3, <1>6, <2>2, <2>3
<1> QED BY <1>2, <1>4, <1>5, <1>6 DEF OnExit, Periodic, PeriodicRetryExit

\* Recover finds out about a position, books one that closed, or refuses.
LEMMA RecoverKinds ==
    ASSUME TInv, NEW s \in Sym, Recover(s)
    PROVE  Starts \/ Closes(s) \/ \E p \in Pos : Finds(s, p)
<1>0. ledger[s] \in Pos
  BY Parts
<1>1. CASE RecoverRefused(s)
  BY <1>1 DEF RecoverRefused, Starts, bookVars, loopVars
<1>2. CASE RecoverFlat(s)
  BY <1>2, Values DEF RecoverFlat, Recovering, Finds, bookVars, loopVars
<1>3. CASE RecoverOpen(s)
  <2> DEFINE p == [ledger[s] EXCEPT !.status = "open", !.source = "recovered", !.exitReq = FALSE]
  <2>1. p \in Pos /\ p.ep = ledger[s].ep /\ p.status = "open"
    BY <1>0, Names DEF Pos
  <2>2. ledger' = [ledger EXCEPT ![s] = p]
    BY <1>3 DEF RecoverOpen
  <2> HIDE DEF p
  <2> QED BY <1>3, <2>1, <2>2 DEF RecoverOpen, Recovering, Finds, bookVars, loopVars
<1>4. CASE RecoverClosed(s)
  <2>1. ledger[s].ep \in Eps
    BY <1>4, Parts DEF RecoverClosed, AlignedAt
  <2>2. PICK legs \in Answered(s, ledger[s].ep) \cup {NoLegs} :
            \E net \in NetsOf(legs) : Book(s, ledger[s].ep, legs, net)
    BY <1>4 DEF RecoverClosed
  <2>3. legs \in Legs
    BY <2>1, <2>2, Parts, Values DEF Answered
  <2>4. Books(s)
    BY <1>4, <2>1, <2>2, <2>3 DEF Books, RecoverClosed, loopVars
  <2> QED BY <1>4, <2>4 DEF Closes, RecoverClosed, Recovering
<1> QED BY <1>1, <1>2, <1>3, <1>4 DEF Recover

\* The kinds of steps there are.
Kinds ==
    \/ Still \/ Resumes \/ Ends \/ Starts \/ IsUp
    \/ \E s \in Sym : \/ Closes(s)
                      \/ \E ep \in Eps : Comes(s, ep)
                      \/ \E p \in Pos : Changes(s, p) \/ Finds(s, p)

\* Every step is of one of them.
LEMMA NextKinds == ASSUME TInv, Staged, Durable, [Next]_vars PROVE Kinds
<1>1. ASSUME NEW s \in Sym, Loop(s) PROVE Kinds
  BY <1>1, OnEntryKinds, LoopKinds DEF Loop, Kinds
<1>2. ASSUME NEW s \in Sym, Worker(s) PROVE Kinds
  BY <1>2, WorkerKinds DEF Kinds
<1>3. ASSUME NEW s \in Sym, Exchange(s) \/ Tick(s) PROVE Still
  BY <1>3 DEF Exchange, MakerFills, MakerExpires, StopFires, TradesShow, Tick, Outside, procVars,
              bookVars, loopVars, Still
<1>4. ASSUME NEW s \in Sym, Recover(s) PROVE Kinds
  BY <1>4, RecoverKinds DEF Kinds
<1>5. CASE ConsumeResume
  BY <1>5 DEF ConsumeResume, Resumes, Kinds, procVars, bookVars, loopVars
<1>6. CASE Crash
  BY <1>6 DEF Crash, Ends, Kinds, bookVars
<1>7. CASE Start
  BY <1>7 DEF Start, Starts, Kinds, bookVars, loopVars
<1>8. CASE RecoverDone
  BY <1>8 DEF RecoverDone, IsUp, Kinds, bookVars, loopVars
<1>9. CASE UNCHANGED vars
  BY <1>9 DEF vars, procVars, bookVars, loopVars, Still, Kinds
<1> QED BY <1>1, <1>2, <1>3, <1>4, <1>5, <1>6, <1>7, <1>8, <1>9 DEF Next, Kinds

\* Every step keeps memory and state.json in step.
LEMMA NextD == ASSUME TInv, Staged, Durable, [Next]_vars PROVE Durable'
<1>0. /\ cum = disk.cum /\ halted = disk.halted
      /\ \A t \in Sym : DurableAt(t) /\ ledger[t] \in Pos /\ disk.ledger[t] \in Pos
      /\ ledger \in [Sym -> Pos] /\ disk.ledger \in [Sym -> Pos]
  BY Parts DEF Durable, TInv, Sound, TypeOK, TraderOK
<1>1. CASE Still
  BY <1>0, <1>1 DEF Still, traderVars, Durable, DurableAt
<1>2. CASE Resumes
  <2>1. /\ disk'.ledger = ledger' /\ disk'.cum = cum' /\ disk'.halted = halted'
        /\ ledger' = ledger /\ proc = "up" /\ proc' = proc /\ toRecover' = toRecover
    BY <1>2 DEF Resumes, Save
  <2> QED BY <1>0, <2>1 DEF Durable, DurableAt, Recovered
<1>3. CASE Starts
  BY <1>0, <1>3 DEF Starts, traderVars, Durable, DurableAt
<1>4. CASE Ends
  BY <1>0, <1>4 DEF Ends, Durable, DurableAt, Recovered
<1>5. CASE IsUp
  <2>1. disk'.ledger = ledger' /\ disk'.cum = cum' /\ disk'.halted = halted' /\ ledger' = ledger
    BY <1>5 DEF IsUp, Save
  <2> QED BY <1>0, <1>5, <2>1 DEF IsUp, Durable, DurableAt, Recovered
<1>6. ASSUME NEW s \in Sym, NEW p \in Pos, Puts(s, p) PROVE Durable'
  <2>1. /\ disk'.ledger = ledger' /\ disk'.cum = cum' /\ disk'.halted = halted'
        /\ ledger' = [ledger EXCEPT ![s] = p] /\ (p.status = "none" => p.ep = 0)
        /\ proc = "up" /\ proc' = proc /\ toRecover' = toRecover
    BY <1>6 DEF Puts, Save
  <2> QED BY <1>0, <2>1 DEF Durable, DurableAt, Recovered
<1>7. ASSUME NEW s \in Sym, NEW ep \in Eps, Comes(s, ep) PROVE Durable'
  <2>1. CASE Takes(s, ep)
    BY <1>6, <2>1, Values DEF Takes
  <2>2. CASE UNCHANGED <<traderVars, proc, toRecover, booked>>
    BY <1>0, <2>2 DEF traderVars, Durable, DurableAt
  <2> QED BY <1>7, <2>1, <2>2 DEF Comes
<1>8. ASSUME NEW s \in Sym, NEW p \in Pos, Finds(s, p) PROVE Durable'
  <2>1. /\ ledger' = [ledger EXCEPT ![s] = p] /\ disk' = disk /\ proc = "recovering" /\ proc' = proc
        /\ toRecover' = toRecover \ {s} /\ s \in toRecover /\ cum' = cum /\ halted' = halted
    BY <1>8 DEF Finds
  <2>2. ASSUME NEW t \in Sym, t # s PROVE DurableAt(t)'
    BY <1>0, <2>1, <2>2 DEF DurableAt
  <2>3. DurableAt(s)'
    <3>1. ledger[s] = disk.ledger[s] /\ ledger'[s] = p
      BY <1>0, <2>1 DEF DurableAt
    <3>2. CASE p = Flat /\ ledger[s].status \in {"none", "opening"}
      BY <1>0, <2>1, <3>1, <3>2, Values DEF DurableAt, Recovered
    <3>3. CASE p.status = "open" /\ p.ep = ledger[s].ep /\ ledger[s].status # "none"
      BY <1>0, <2>1, <3>1, <3>3 DEF DurableAt, Recovered
    <3> QED BY <1>8, <3>2, <3>3 DEF Finds
  <2> QED BY <1>0, <2>1, <2>2, <2>3 DEF Durable
<1>9. ASSUME NEW s \in Sym, Closes(s) PROVE Durable'
  <2>1. PICK legs \in Legs : \E net \in NetsOf(legs) : Book(s, ledger[s].ep, legs, net)
    BY <1>9 DEF Closes, Books
  <2>2. /\ disk'.ledger = ledger' /\ disk'.cum = cum' /\ disk'.halted = halted'
        /\ ledger' = [ledger EXCEPT ![s] = Flat] /\ proc' = proc
    BY <1>9, <2>1 DEF Closes, Book, Save
  <2> QED BY <1>0, <1>9, <2>2, Values DEF Closes, Durable, DurableAt, Recovered
<1> QED BY <1>1, <1>2, <1>3, <1>4, <1>5, <1>6, <1>7, <1>8, <1>9, NextKinds DEF Kinds, Changes

-----------------------------------------------------------------------------
(* The ledger implements the abstract book of trades.                      *)

\* The stages of all signals, as Promise is instantiated with.
Stages == [s \in Sym |-> [ep \in Eps |-> Stage(s, ep)]]

\* Every stage is one of the abstract book.
LEMMA StageOK == Stages \in [Sym -> [Eps -> Promise!Stages]]
BY DEF Stages, Stage, Promise!Stages

\* A position that another one follows in state.json takes its signal to a stage
\* that the abstract book allows.
LEMMA FollowsSettles ==
    ASSUME TInv, Durable, Unbooked, NEW t \in Sym, NEW ep \in Eps,
           booked'[t][ep].n = booked[t][ep].n, lastSig'[t] = lastSig[t],
           Follows(disk.ledger[t], disk'.ledger[t])
    PROVE  Stage(t, ep)' \in Promise!Outcomes(Stage(t, ep))
<1> DEFINE d == disk.ledger[t]
           e == disk'.ledger[t]
<1>1. /\ ep # 0 /\ (d.status = "none" => d.ep = 0)
      /\ d.ep \in Nat /\ lastSig[t] \in Nat /\ ep \in Nat /\ d.ep <= lastSig[t]
  BY Numbers DEF Durable, DurableAt, Unbooked, UnbookedAt
<1>2. CASE booked[t][ep].n > 0
  BY <1>2 DEF Stage, Promise!Outcomes
<1>3. CASE ~(booked[t][ep].n > 0) /\ d.ep = ep
  <2>1. Stage(t, ep) = IF d.status = "opening" THEN "pending" ELSE "held"
    BY <1>3 DEF Stage
  <2>2. Stage(t, ep)' = IF e.ep = ep THEN (IF e.status = "opening" THEN "pending" ELSE "held")
                        ELSE "dropped"
    BY <1>1, <1>3 DEF Stage
  <2> HIDE DEF d, e
  <2>3. Follows(d, e)
    BY DEF d, e
  <2> QED BY <1>1, <1>3, <2>1, <2>2, <2>3 DEF Follows, Promise!Outcomes
<1>4. CASE ~(booked[t][ep].n > 0) /\ d.ep # ep
  <2>1. e.ep # ep
    BY <1>1, <1>4 DEF Follows
  <2>2. Stage(t, ep)' = Stage(t, ep)
    BY <1>4, <2>1 DEF Stage
  <2>3. Stage(t, ep) \in {"dropped", "unseen"}
    BY <1>4 DEF Stage
  <2> QED BY <2>2, <2>3 DEF Promise!Outcomes
<1> QED BY <1>2, <1>3, <1>4

\* Such a step of all positions settles, when sum and halt stay.
LEMMA Settles ==
    ASSUME TInv, Durable, Unbooked, booked' = booked, lastSig' = lastSig,
           \A t \in Sym : Follows(disk.ledger[t], disk'.ledger[t]),
           disk'.cum = disk.cum, disk'.halted = disk.halted
    PROVE  Promise!Settle
<1>1. Stages' \in [Sym -> [Eps -> Promise!Stages]]
  BY DEF Stages, Stage, Promise!Stages
<1>2. \A t \in Sym, ep \in Eps : Stage(t, ep)' \in Promise!Outcomes(Stage(t, ep))
  BY FollowsSettles
<1>3. \A t \in Sym, ep \in Eps : /\ Stages'[t][ep] = Stage(t, ep)'
                                 /\ Stages[t][ep] = Stage(t, ep)
  BY DEF Stages
<1> QED BY <1>1, <1>2, <1>3 DEF Promise!Settle, Promise!Settled, Stages

\* Saving what memory holds is such a step, for the positions not changed by it.
LEMMA SavedFollows ==
    ASSUME TInv, Durable, NEW t \in Sym, disk'.ledger[t] = ledger[t]
    PROVE  Follows(disk.ledger[t], disk'.ledger[t])
<1>1. Recovered(ledger[t], disk.ledger[t])
  BY DEF Durable, DurableAt
<1>2. disk.ledger[t].status = "none" => disk.ledger[t].ep = 0
  BY DEF Durable, DurableAt
<1> QED BY <1>1, <1>2 DEF Recovered, Follows

\* Tables with the same entries are the same.
LEMMA SameTable ==
    ASSUME NEW T, NEW f \in [Sym -> [Eps -> T]], NEW g \in [Sym -> [Eps -> T]],
           \A t \in Sym, x \in Eps : f[t][x] = g[t][x]
    PROVE  f = g
<1>1. ASSUME NEW t \in Sym PROVE f[t] = g[t]
  <2>1. f[t] \in [Eps -> T] /\ g[t] \in [Eps -> T]
    OBVIOUS
  <2> QED BY <2>1
<1> QED BY <1>1

\* One entry of the table of stages changes.
LEMMA OneStage ==
    ASSUME NEW s \in Sym, NEW ep \in Eps, NEW v \in Promise!Stages,
           \A t \in Sym, x \in Eps :
               Stage(t, x)' = IF t = s /\ x = ep THEN v ELSE Stage(t, x)
    PROVE  Stages' = [Stages EXCEPT ![s][ep] = v]
<1>1. /\ Stages \in [Sym -> [Eps -> Promise!Stages]] /\ Stages' \in [Sym -> [Eps -> Promise!Stages]]
      /\ \A t \in Sym, x \in Eps : Stages[t][x] = Stage(t, x) /\ Stages'[t][x] = Stage(t, x)'
  BY StageOK DEF Stages, Stage, Promise!Stages
<1> DEFINE f == Stages
           f1 == Stages'
           g == [f EXCEPT ![s][ep] = v]
<1>2. g \in [Sym -> [Eps -> Promise!Stages]]
  BY <1>1
<1>3. \A t \in Sym, x \in Eps : g[t][x] = IF t = s /\ x = ep THEN v ELSE f[t][x]
  BY <1>1
<1>4. \A t \in Sym, x \in Eps : f1[t][x] = g[t][x]
  BY <1>1, <1>3
<1> HIDE DEF f1, g
<1>5. f1 = g
  BY <1>1, <1>2, <1>4, SameTable DEF f1
<1> QED BY <1>5 DEF f1, g

\* A signal that comes in is accepted or skipped.
LEMMA ComesImplements ==
    ASSUME TInv, Durable, Unbooked, NEW s \in Sym, NEW ep \in Eps, Comes(s, ep)
    PROVE  Promise!Accept(s, ep) \/ Promise!Skip(s, ep)
<1>0. /\ disk.ledger \in [Sym -> Pos] /\ ledger \in [Sym -> Pos] /\ lastSig \in [Sym -> EpOrNone]
      /\ disk.cum = cum /\ disk.halted = halted
  BY DEF TInv, Sound, TypeOK, TraderOK, LoopOK, Durable
<1>1. /\ ep = lastSig[s] + 1 /\ lastSig' = [lastSig EXCEPT ![s] = ep] /\ booked' = booked
  BY DEF Comes, Takes, Puts
<1>2. /\ Stages \in [Sym -> [Eps -> Promise!Stages]]
      /\ \A t \in Sym, x \in Eps : Stages[t][x] = Stage(t, x) /\ Stages'[t][x] = Stage(t, x)'
  BY StageOK DEF Stages
<1>3. \A t \in Sym, x \in Eps : x \in Nat /\ lastSig[t] \in Nat /\ booked[t][x].n \in Nat
  BY Numbers
<1>4. /\ ~(booked[s][ep].n > 0) /\ disk.ledger[s].ep <= lastSig[s] /\ disk.ledger[s].ep \in Nat
  BY <1>1, <1>3, Numbers DEF Unbooked, UnbookedAt
<1>5. Stage(s, ep) = "unseen"
  BY <1>1, <1>3, <1>4 DEF Stage
<1>7. CASE UNCHANGED traderVars
  <2>1. ASSUME NEW t \in Sym, NEW x \in Eps
        PROVE  Stage(t, x)' = IF t = s /\ x = ep THEN "dropped" ELSE Stage(t, x)
    <3>1. /\ booked'[t][x] = booked[t][x] /\ disk' = disk
          /\ lastSig'[t] = IF t = s THEN ep ELSE lastSig[t]
      BY <1>0, <1>1, <1>7 DEF traderVars
    <3>2. CASE t = s /\ x = ep
      BY <1>1, <1>3, <1>4, <3>1, <3>2 DEF Stage
    <3>3. CASE t # s
      BY <3>1, <3>3 DEF Stage
    <3>4. CASE t = s /\ x # ep
      <4>1. x <= lastSig'[t] <=> x <= lastSig[t]
        BY <1>1, <1>3, <3>1, <3>4
      <4> QED BY <3>1, <3>4, <4>1 DEF Stage
    <3> QED BY <3>2, <3>3, <3>4
  <2>2. Stages' = [Stages EXCEPT ![s][ep] = "dropped"]
    BY <2>1, OneStage DEF Promise!Stages
  <2> QED BY <1>2, <1>5, <1>7, <2>2 DEF Promise!Skip, traderVars, Stages
<1>8. CASE Takes(s, ep)
  <2>1. /\ disk'.ledger = [ledger EXCEPT ![s] = Opening(ep)] /\ disk'.cum = cum
        /\ disk'.halted = halted /\ ~halted /\ ledger[s].status = "none"
        /\ disk.ledger = ledger
    <3>1. /\ proc = "up" /\ ledger' = [ledger EXCEPT ![s] = Opening(ep)]
          /\ cum' = cum /\ halted' = halted /\ Save /\ ~halted /\ ledger[s].status = "none"
      BY <1>8 DEF Takes, Puts, CanEnter
    <3>2. disk.ledger = ledger
      BY <1>0, <3>1 DEF Durable, DurableAt
    <3> QED BY <3>1, <3>2 DEF Save
  <2>2. ledger[s].ep = 0
    BY <2>1 DEF Durable, DurableAt
  <2>3. Opening(ep).ep = ep /\ Opening(ep).status = "opening"
    BY Values DEF Opening, Flat
  <2>4. ASSUME NEW t \in Sym, NEW x \in Eps
        PROVE  Stage(t, x)' = IF t = s /\ x = ep THEN "pending" ELSE Stage(t, x)
    <3>1. /\ booked'[t][x] = booked[t][x] /\ lastSig'[t] = IF t = s THEN ep ELSE lastSig[t]
          /\ disk'.ledger[t] = IF t = s THEN Opening(ep) ELSE disk.ledger[t]
      BY <1>0, <1>1, <2>1
    <3>2. CASE t = s /\ x = ep
      BY <1>1, <1>3, <1>4, <2>3, <3>1, <3>2 DEF Stage
    <3>3. CASE t # s
      BY <3>1, <3>3 DEF Stage
    <3>4. CASE t = s /\ x # ep
      <4>1. x <= lastSig'[t] <=> x <= lastSig[t]
        BY <1>1, <1>3, <3>1, <3>4
      <4>2. disk'.ledger[t].ep # x /\ disk.ledger[t].ep # x
        BY <2>1, <2>2, <2>3, <3>1, <3>4, Constants
      <4> QED BY <3>1, <3>4, <4>1, <4>2 DEF Stage
    <3> QED BY <3>2, <3>3, <3>4
  <2>5. Stages' = [Stages EXCEPT ![s][ep] = "pending"]
    BY <2>4, OneStage DEF Promise!Stages
  <2>6. \A x \in Eps : ~Promise!IsLive(Stage(s, x))
    BY <2>1, <2>2, Constants DEF Stage, Promise!IsLive
  <2> QED BY <1>0, <1>2, <1>5, <2>1, <2>5, <2>6 DEF Promise!Accept, Stages
<1> QED BY <1>7, <1>8 DEF Comes

\* A booking closes the trade; what recover found out about others settles with it.
LEMMA ClosesImplements ==
    ASSUME TInv, Durable, Unbooked, NEW s \in Sym, Closes(s)
    PROVE  \E ep \in Eps : Promise!Close(s, ep)
<1>. PICK ep \in Eps : ep = ledger[s].ep
  BY DEF Closes, Books
<1>0. /\ disk.ledger \in [Sym -> Pos] /\ ledger \in [Sym -> Pos]
      /\ disk.cum = cum /\ disk.halted = halted
  BY DEF TInv, Sound, TypeOK, TraderOK, Durable
<1>1. PICK legs \in Legs : \E net \in NetsOf(legs) : Book(s, ledger[s].ep, legs, net)
  BY DEF Closes, Books
<1>2. PICK net \in NetsOf(legs) : Book(s, ep, legs, net)
  BY <1>1
<1>3. /\ ep \in Eps /\ lastSig' = lastSig /\ ledger[s].status \in {"open", "closing"}
      /\ ledger[s] = disk.ledger[s]
  <2>1. proc = "up" \/ s \in toRecover
    BY DEF Closes
  <2> QED BY <2>1 DEF Closes, Books, Durable, DurableAt
<1>4. /\ cum' = cum + net /\ halted' = (halted \/ cum' <= -StopLine)
      /\ disk'.ledger = [ledger EXCEPT ![s] = Flat] /\ disk'.cum = cum' /\ disk'.halted = halted'
      /\ booked' = [booked EXCEPT ![s][ep] = [n |-> @.n + 1, legs |-> legs, net |-> net]]
  BY <1>2 DEF Book, Save
<1>5. /\ net \in Nets \cup {0}
  BY DEF NetsOf
<1>6. /\ Stages \in [Sym -> [Eps -> Promise!Stages]] /\ Stages' \in [Sym -> [Eps -> Promise!Stages]]
      /\ \A t \in Sym, x \in Eps : Stages[t][x] = Stage(t, x) /\ Stages'[t][x] = Stage(t, x)'
  BY StageOK DEF Stages, Stage, Promise!Stages
<1>7. booked[s][ep].n = 0 /\ booked'[s][ep].n = 1
  <2>1. booked[s][ep].n = 0
    BY <1>3, Numbers DEF Unbooked, UnbookedAt
  <2> QED BY <1>3, <1>4, <2>1 DEF TInv, Sound, TypeOK, BookOK
<1>8. Stage(s, ep) = "held" /\ Stage(s, ep)' = "booked"
  <2>1. Stage(s, ep) = "held"
    BY <1>3, <1>7 DEF Stage
  <2>2. Stage(s, ep)' = "booked"
    BY <1>7 DEF Stage
  <2> QED BY <2>1, <2>2
<1>9. ASSUME NEW t \in Sym, NEW x \in Eps, ~(t = s /\ x = ep)
      PROVE  Stage(t, x)' \in Promise!Outcomes(Stage(t, x))
  <2>1. booked'[t][x].n = booked[t][x].n
    BY <1>3, <1>4, <1>9 DEF TInv, Sound, TypeOK, BookOK
  <2>2. CASE t # s
    <3>1. disk'.ledger[t] = ledger[t]
      BY <1>0, <1>4, <2>2
    <3> QED BY <1>3, <2>1, <3>1, SavedFollows, FollowsSettles
  <2>3. CASE t = s
    <3>1. disk'.ledger[s].ep # x /\ disk.ledger[s].ep # x
      BY <1>0, <1>3, <1>4, <1>9, <2>3, Values, Constants
    <3>2. Stage(t, x)' = Stage(t, x)
      BY <1>3, <2>1, <2>3, <3>1 DEF Stage
    <3> QED BY <3>2 DEF Promise!Outcomes, Stage
  <2> QED BY <2>2, <2>3
<1>10. Promise!Settled([Stages' EXCEPT ![s][ep] = "held"])
  <2>1. ASSUME NEW t \in Sym, NEW x \in Eps
        PROVE  [Stages' EXCEPT ![s][ep] = "held"][t][x] \in Promise!Outcomes(Stages[t][x])
    <3>1. CASE t = s /\ x = ep
      BY <1>3, <1>6, <1>8, <3>1 DEF Promise!Outcomes
    <3>2. CASE ~(t = s /\ x = ep)
      <4>1. [Stages' EXCEPT ![s][ep] = "held"][t][x] = Stages'[t][x]
        BY <1>6, <3>2
      <4> QED BY <1>6, <1>9, <3>2, <4>1
    <3> QED BY <3>1, <3>2
  <2> QED BY <2>1 DEF Promise!Settled, Stages
<1>11. \E n \in Nets \cup {0} : disk'.cum = disk.cum + n
  BY <1>0, <1>4, <1>5
<1>12. disk'.halted = (disk.halted \/ disk'.cum <= -StopLine)
  BY <1>0, <1>4
<1>13. Stages[s][ep] = "held" /\ Stages'[s][ep] = "booked"
  BY <1>3, <1>6, <1>8
<1>14. Promise!Close(s, ep)
  BY <1>6, <1>10, <1>11, <1>12, <1>13 DEF Promise!Close, Stages
<1> QED BY <1>14

\* The abstract book's initial state and steps.
LEMMA InitImplements == Init => Promise!Init
<1> SUFFICES ASSUME Init PROVE Promise!Init
  OBVIOUS
<1>1. disk.ledger = [s \in Sym |-> Flat] /\ disk.cum = 0 /\ disk.halted = FALSE
  BY DEF Init
<1>2. ASSUME NEW s \in Sym, NEW ep \in Eps PROVE Stage(s, ep) = "unseen"
  <2>1. /\ ~(booked[s][ep].n > 0) /\ disk.ledger[s].ep # ep /\ ~(ep <= lastSig[s])
    BY <1>1, Values, Constants DEF Init
  <2> QED BY <2>1 DEF Stage
<1> QED BY <1>1, <1>2 DEF Promise!Init

\* Every step is one of the book's, or leaves it as it is.
LEMMA NextImplements ==
    ASSUME TInv, Staged, Durable, Unbooked, [Next]_vars
    PROVE  Promise!Next
<1>0. /\ disk.cum = cum /\ disk.halted = halted
      /\ \A t \in Sym : Follows(disk.ledger[t], disk.ledger[t])
  BY DEF Durable, Follows
<1>1. CASE Still \/ Ends \/ Starts
  <2>1. disk' = disk /\ booked' = booked /\ lastSig' = lastSig
    BY <1>1 DEF Still, Ends, Starts, traderVars
  <2> QED BY <1>0, <2>1, Settles DEF Promise!Next
<1>2. CASE IsUp
  <2>1. /\ disk'.ledger = ledger /\ disk'.cum = cum /\ disk'.halted = halted
        /\ booked' = booked /\ lastSig' = lastSig
    BY <1>2 DEF IsUp, Save
  <2>2. \A t \in Sym : Follows(disk.ledger[t], disk'.ledger[t])
    BY <2>1, SavedFollows
  <2> QED BY <1>0, <2>1, <2>2, Settles DEF Promise!Next
<1>3. CASE Resumes
  <2>1. /\ disk'.ledger = disk.ledger /\ disk'.halted = FALSE /\ disk'.cum \in {disk.cum, 0}
        /\ booked' = booked /\ lastSig' = lastSig
    <3>1. /\ ledger' = ledger /\ halted' = FALSE /\ cum' \in {cum, 0} /\ Save /\ proc = "up"
          /\ booked' = booked /\ lastSig' = lastSig
      BY <1>3 DEF Resumes
    <3>2. disk.ledger = ledger
      BY <3>1 DEF Durable, DurableAt, TInv, Sound, TypeOK, TraderOK
    <3> QED BY <1>0, <3>1, <3>2 DEF Save
  <2>2. \A t \in Sym, x \in Eps : Stage(t, x)' = Stage(t, x)
    BY <2>1 DEF Stage
  <2> QED BY <2>1, <2>2 DEF Promise!Next, Promise!Resume
<1>4. ASSUME NEW s \in Sym, NEW p \in Pos, Changes(s, p) PROVE Promise!Next
  <2>1. /\ disk'.ledger = [ledger EXCEPT ![s] = p] /\ disk'.cum = cum /\ disk'.halted = halted
        /\ booked' = booked /\ lastSig' = lastSig /\ Follows(ledger[s], p) /\ proc = "up"
    BY <1>4 DEF Changes, Puts, Save
  <2>2. disk.ledger = ledger /\ ledger \in [Sym -> Pos]
    BY <2>1 DEF Durable, DurableAt, TInv, Sound, TypeOK, TraderOK
  <2>3. \A t \in Sym : Follows(disk.ledger[t], disk'.ledger[t])
    <3> SUFFICES ASSUME NEW t \in Sym PROVE Follows(disk.ledger[t], disk'.ledger[t])
      OBVIOUS
    <3>1. CASE t = s
      BY <2>1, <2>2, <3>1
    <3>2. CASE t # s
      BY <1>0, <2>1, <2>2, <3>2
    <3> QED BY <3>1, <3>2
  <2> QED BY <1>0, <2>1, <2>3, Settles DEF Promise!Next
<1>5. ASSUME NEW s \in Sym, NEW p \in Pos, Finds(s, p) PROVE Promise!Next
  BY <1>0, <1>5, Settles DEF Finds, Promise!Next
<1>6. ASSUME NEW s \in Sym, NEW ep \in Eps, Comes(s, ep) PROVE Promise!Next
  BY <1>6, ComesImplements DEF Promise!Next
<1>7. ASSUME NEW s \in Sym, Closes(s) PROVE Promise!Next
  BY <1>7, ClosesImplements DEF Promise!Next
<1> QED BY <1>1, <1>2, <1>3, <1>4, <1>5, <1>6, <1>7, NextKinds DEF Kinds

\* As long as all goes as it should, every trade is seen at once.
Seen == slips = 0 => shown = fills

\* Every step keeps this.
LEMMA NextSeen == ASSUME TInv, Seen, [Next]_vars PROVE Seen' /\ (slips' = 0 => slips = 0)
<1> SUFFICES ASSUME slips' = 0 PROVE slips = 0 /\ shown' = fills'
  BY DEF Seen
<1>0. slips \in Nat
  BY DEF TInv, Sound, TypeOK, ExchOK
<1>1. ASSUME UNCHANGED fillVars PROVE slips = 0 /\ shown' = fills'
  BY <1>1 DEF Seen
<1>2. ASSUME NEW b \in BOOLEAN, Slips(b) PROVE b /\ slips = 0 /\ shown = fills
  BY <1>0, <1>2 DEF Slips, Seen
<1>3. ASSUME NEW s \in Sym, NEW k, NEW v, BuyBack(s, k, v), v = k, slips = 0
      PROVE  shown' = fills'
  BY <1>3 DEF BuyBack, Seen
<1>4. ASSUME NEW s \in Sym, NEW o, NEW k \in Nat, NEW rest, Executes(s, o, k, rest)
      PROVE  slips = 0 /\ shown' = fills'
  <2>1. PICK v \in 0..k : shown' = Added(shown, s, o, v) /\ Slips(v = k)
    BY <1>4 DEF Executes
  <2>2. v = k /\ slips = 0 /\ shown = fills
    BY <1>2, <2>1
  <2> QED BY <1>4, <2>1, <2>2 DEF Executes
<1>5. ASSUME NEW s \in Sym, Worker(s) PROVE slips = 0 /\ shown' = fills'
  <2>1. CASE \/ DropTask(s) \/ EntryAsks(s) \/ EntryRefused(s) \/ EntryLost(s)
             \/ PlaceStop(s) \/ EntryDone(s) \/ PlaceMaker(s) \/ MakerSet(s) \/ PollMaker(s)
    BY <1>1, <2>1 DEF DropTask, EntryAsks, EntryRefused, EntryLost, PlaceStop, EntryDone, PlaceMaker,
       MakerSet, PollMaker, exchVars
  <2>2. CASE \/ ExitStart(s) \/ CloseMaker(s) \/ ExitExpires(s) \/ ForceCheck(s) \/ CheckStop(s)
             \/ CancelStop(s) \/ Finalize(s) \/ StoreTrade(s) \/ HaltGuard(s)
    BY <1>1, <2>2 DEF ExitStart, CloseMaker, ExitExpires, ForceCheck, CheckStop, CancelStop,
       Finalize, StoreTrade, HaltGuard, exchVars
  <2>3. CASE EntryFills(s)
    <3>1. PICK got \in 1..Qty : \E seen \in 0..got : Slips(EntryQty(got, seen) = got)
      BY <2>3 DEF EntryFills
    <3>2. PICK seen \in 0..got : Slips(EntryQty(got, seen) = got)
      BY <3>1
    <3>3. slips = 0 /\ shown = fills
      BY <1>2, <3>2
    <3> QED BY <2>3, <3>3 DEF EntryFills
  <2>4. CASE ExitFills(s)
    <3>1. PICK k \in 0..ExitRest(s) : \E v \in 0..k : BuyBack(s, k, v) /\ Slips(k = ExitRest(s) /\ v = k)
      BY <2>4 DEF ExitFills
    <3>2. PICK v \in 0..k : BuyBack(s, k, v) /\ Slips(k = ExitRest(s) /\ v = k)
      BY <3>1
    <3>3. (k = ExitRest(s) /\ v = k) /\ slips = 0
      BY <1>2, <3>2
    <3> QED BY <1>3, <3>2, <3>3
  <2>5. CASE ExitFails(s)
    <3>1. PICK k \in 0..ExitRest(s) : \E v \in {0, k} :
             /\ BuyBack(s, k, v)
             /\ (UNCHANGED slips /\ v = k) \/ Slips(FALSE)
      BY <2>5 DEF ExitFails
    <3>2. PICK v \in {0, k} : BuyBack(s, k, v) /\ ((UNCHANGED slips /\ v = k) \/ Slips(FALSE))
      BY <3>1
    <3>3. ~Slips(FALSE)
      BY <1>2
    <3> QED BY <1>3, <3>2, <3>3
  <2> QED BY <1>5, <2>1, <2>2, <2>3, <2>4, <2>5 DEF Worker
<1>6. ASSUME NEW s \in Sym, Exchange(s) PROVE slips = 0 /\ shown' = fills'
  <2>0. short[s] \in Nat /\ \A o \in orders[s] : o.left \in Nat
    BY Parts, Constants DEF Order
  <2>1. CASE MakerFills(s)
    <3>1. PICK o \in orders[s] : \E k \in 1..Lesser(o.left, short[s]) :
             Executes(s, o, k, IF k = o.left THEN {} ELSE {[o EXCEPT !.left = @ - k]})
      BY <2>1 DEF MakerFills
    <3>2. PICK k \in 1..Lesser(o.left, short[s]) :
             Executes(s, o, k, IF k = o.left THEN {} ELSE {[o EXCEPT !.left = @ - k]})
      BY <3>1
    <3>3. k \in Nat
      BY <2>0 DEF Lesser
    <3> QED BY <1>4, <3>2, <3>3
  <2>2. CASE MakerExpires(s)
    BY <1>1, <2>2 DEF MakerExpires
  <2>3. CASE StopFires(s)
    BY <1>4, <2>0, <2>3 DEF StopFires
  <2>4. CASE TradesShow(s)
    <3>1. slips = 0 /\ shown = fills
      BY <2>4 DEF TradesShow, Seen
    <3>2. ledger[s].ep \in Eps
      BY <2>4, Parts, Constants DEF TradesShow, Pos
    <3>3. PICK leg \in Leg : Filled(s, leg) + 1..fills[s][ledger[s].ep][leg] # {}
      BY <2>4 DEF TradesShow
    <3>4. Filled(s, leg) = fills[s][ledger[s].ep][leg] /\ Filled(s, leg) \in Nat
      BY <3>1, <3>2, Parts DEF Filled, Leg, Legs
    <3> QED BY <3>3, <3>4
  <2> QED BY <1>6, <2>1, <2>2, <2>3, <2>4 DEF Exchange
<1>7. ASSUME NEW s \in Sym, Loop(s) \/ Tick(s) \/ Recover(s) PROVE UNCHANGED fillVars
  BY <1>7 DEF Loop, OnEntry, OnExit, Periodic, Tick, Recover, RecoverRefused, RecoverFlat,
     RecoverOpen, RecoverClosed, exchVars
<1>8. CASE ConsumeResume \/ Crash \/ Start \/ RecoverDone \/ UNCHANGED vars
  BY <1>1, <1>8 DEF ConsumeResume, Crash, Start, RecoverDone, vars, exchVars
<1> QED BY <1>1, <1>5, <1>6, <1>7, <1>8 DEF Next

\* What the trader's ledger invariants have in common: types, order threads,
\* memory and state.json, bookings, trades seen.
LedgerInv == TInv /\ Staged /\ Durable /\ Unbooked /\ Seen

\* The invariant holds.
LEMMA LedgerInvHolds == Spec => []LedgerInv
<1>1. Init => LedgerInv
  BY InitTInv, InitD, InitU, Values DEF LedgerInv, Init, Staged, StagedAt, Seen
<1>2. LedgerInv /\ [Next]_vars => LedgerInv'
  BY NextT, NextStaged, NextD, NextU, NextSeen DEF LedgerInv
<1> QED BY <1>1, <1>2, PTL DEF Spec

\* Through threads, crashes, interrupted recoveries and lost answers, state.json
\* and the bookings behave like the abstract book of trades: a signal is accepted
\* once and not during a halt, one trade per symbol is live, a held trade is booked
\* once and the booking that reaches the stop line halts.
THEOREM ImplementsTradeBook == Spec => KeepsTradeBook
<1>1. Init => Promise!Init
  BY InitImplements
<1>2. LedgerInv /\ [Next]_vars => Promise!Next
  BY NextImplements DEF LedgerInv
<1> QED BY <1>1, <1>2, LedgerInvHolds, PTL DEF Spec, KeepsTradeBook, Promise!Spec

-----------------------------------------------------------------------------
(* The sum of the results.                                                 *)

\* A sum over a set as the function that gives the sum of each of its subsets.
AddUp(F, g, s) ==
    IF s = {} THEN 0 ELSE F[CHOOSE x \in s : TRUE] + g[s \ {CHOOSE x \in s : TRUE}]
Adds(F, S, g) == g = [s \in SUBSET S |-> AddUp(F, g, s)]
SumOver(F, S) == (CHOOSE g : Adds(F, S, g))[S]

\* Of a set of finite sets, one is smallest.
LEMMA Smallest ==
  ASSUME NEW T, T # {}, \A s \in T : IsFiniteSet(s)
  PROVE  \E s \in T : \A u \in T : u \subseteq s => u = s
<1> DEFINE C == {Cardinality(s) : s \in T}
           Less == OpToRel(<, Nat)
<1>1. C \subseteq Nat /\ C # {}
  BY FS_CardinalityType
<1>2. \E x \in C : \A y \in C : <<y, x>> \notin OpToRel(<, Nat)
  BY <1>1, NatLessThanWellFounded, WFMin, Zenon
<1>3. PICK s \in T : \A y \in C : <<y, Cardinality(s)>> \notin OpToRel(<, Nat)
  BY <1>2
<1>4. \A u \in T : ~(Cardinality(u) < Cardinality(s))
  <2> SUFFICES ASSUME NEW u \in T, Cardinality(u) < Cardinality(s) PROVE FALSE
    OBVIOUS
  <2>1. Cardinality(u) \in C /\ Cardinality(u) \in Nat /\ Cardinality(s) \in Nat
    BY FS_CardinalityType
  <2> QED BY <1>3, <2>1 DEF OpToRel
<1>5. \A u \in T : u \subseteq s => u = s
  <2> SUFFICES ASSUME NEW u \in T, u \subseteq s, u # s PROVE FALSE
    OBVIOUS
  <2>1. IsFiniteSet(s) /\ IsFiniteSet(u)
    OBVIOUS
  <2>2. Cardinality(u) <= Cardinality(s) /\ Cardinality(u) # Cardinality(s)
    BY <2>1, FS_Subset
  <2>3. Cardinality(u) < Cardinality(s)
    BY <2>1, <2>2, FS_CardinalityType
  <2> QED BY <2>3, <1>4
<1> QED BY <1>5

\* Two functions that give the sums of a set's subsets agree on them.
LEMMA AddsUnique ==
  ASSUME NEW F, NEW A, NEW B, NEW S, IsFiniteSet(S), S \subseteq A, S \subseteq B,
         NEW g, NEW h, Adds(F, A, g), Adds(F, B, h)
  PROVE  g[S] = h[S]
<1> DEFINE T == {s \in SUBSET S : g[s] # h[s]}
<1> SUFFICES ASSUME T # {} PROVE FALSE
  OBVIOUS
<1>1. \A s \in T : IsFiniteSet(s)
  BY FS_Subset
<1>2. PICK s \in T : \A u \in T : u \subseteq s => u = s
  <2> HIDE DEF T
  <2> QED BY <1>1, Smallest
<1>3. g[s] = AddUp(F, g, s) /\ h[s] = AddUp(F, h, s)
  BY DEF Adds
<1>4. s # {}
  BY <1>3 DEF AddUp
<1> DEFINE x == CHOOSE x \in s : TRUE
<1>5. x \in s
  BY <1>4
<1>6. g[s \ {x}] = h[s \ {x}]
  BY <1>2, <1>5
<1> QED BY <1>3, <1>4, <1>6 DEF AddUp

\* There is such a function.
LEMMA AddsExist ==
  ASSUME NEW F, NEW S, IsFiniteSet(S)
  PROVE  \E g : Adds(F, S, g)
<1> DEFINE T == {s \in SUBSET S : ~\E g : Adds(F, s, g)}
<1> SUFFICES ASSUME T # {} PROVE FALSE
  OBVIOUS
<1>1. (\A s \in SUBSET S : IsFiniteSet(s)) /\ \A s \in T : IsFiniteSet(s)
  BY FS_Subset
<1>2. PICK s \in T : \A u \in T : u \subseteq s => u = s
  <2> HIDE DEF T
  <2> QED BY <1>1, Smallest
<1>3. \A u : u \subseteq s /\ u # s => \E g : Adds(F, u, g)
  BY <1>2
<1>4. \A u : u \subseteq s /\ u # s => Adds(F, u, CHOOSE g : Adds(F, u, g))
  BY <1>3
<1> DEFINE W(u) == CHOOSE g : Adds(F, u, g)
           x == CHOOSE x \in s : TRUE
           G == [u \in SUBSET s |-> IF u = s THEN AddUp(F, W(s \ {x}), s) ELSE W(u)[u]]
<1>5. \A u \in SUBSET s : G[u] = AddUp(F, G, u)
  <2> SUFFICES ASSUME NEW u \in SUBSET s PROVE G[u] = AddUp(F, G, u)
    OBVIOUS
  <2>1. CASE u = {} /\ u = s
    BY <2>1 DEF AddUp
  <2>2. CASE u = {} /\ u # s
    <3>1. Adds(F, u, W(u))
      BY <1>4, <2>2
    <3>2. W(u)[u] = AddUp(F, W(u), u)
      BY <3>1 DEF Adds
    <3> QED BY <3>2, <2>2 DEF AddUp
  <2>3. CASE u # {} /\ u = s
    <3>1. x \in s /\ s \ {x} # s
      BY <2>3
    <3>2. G[s \ {x}] = W(s \ {x})[s \ {x}]
      BY <3>1
    <3> QED BY <2>3, <3>2 DEF AddUp
  <2>4. CASE u # {} /\ u # s
    <3> DEFINE y == CHOOSE y \in u : TRUE
    <3>1. y \in u /\ u \ {y} \subseteq s /\ u \ {y} # s
      BY <2>4
    <3>2. Adds(F, u, W(u)) /\ Adds(F, u \ {y}, W(u \ {y}))
      BY <1>4, <2>4, <3>1
    <3>3. G[u] = W(u)[u] /\ G[u \ {y}] = W(u \ {y})[u \ {y}]
      BY <2>4, <3>1
    <3>4. W(u)[u \ {y}] = W(u \ {y})[u \ {y}]
      <4> DEFINE v == u \ {y}
      <4>1. IsFiniteSet(v) /\ v \subseteq u /\ v \subseteq v
        BY <1>1
      <4>2. Adds(F, u, W(u)) /\ Adds(F, v, W(v))
        BY <3>2
      <4> HIDE DEF W, y, v
      <4>3. W(u)[v] = W(v)[v]
        BY ONLY <4>1, <4>2, AddsUnique
      <4> QED BY <4>3 DEF v
    <3>5. W(u)[u] = AddUp(F, W(u), u)
      BY <3>2 DEF Adds
    <3> QED BY <2>4, <3>3, <3>4, <3>5 DEF AddUp
  <2> QED BY <2>1, <2>2, <2>3, <2>4
<1>6. G = [u \in SUBSET s |-> AddUp(F, G, u)]
  <2> DEFINE E == [u \in SUBSET s |-> IF u = s THEN AddUp(F, W(s \ {x}), s) ELSE W(u)[u]]
  <2> QED BY <1>5
<1>7. Adds(F, s, G)
  <2> HIDE DEF G
  <2> QED BY <1>6 DEF Adds
<1> QED BY <1>7

\* The sum over a subset is what the function of the set gives for it.
LEMMA SumPart ==
  ASSUME NEW F, NEW S, IsFiniteSet(S), NEW g, Adds(F, S, g), NEW A, A \subseteq S
  PROVE  g[A] = SumOver(F, A)
<1>1. IsFiniteSet(A)
  BY FS_Subset
<1>2. PICK h : Adds(F, A, h)
  BY <1>1, AddsExist
<1>3. \A k : Adds(F, A, k) => g[A] = k[A]
  <2> SUFFICES ASSUME NEW k, Adds(F, A, k) PROVE g[A] = k[A]
    OBVIOUS
  <2>1. A \subseteq A
    OBVIOUS
  <2>2. Adds(F, S, g) /\ Adds(F, A, k) /\ A \subseteq S
    OBVIOUS
  <2> QED BY ONLY <1>1, <2>1, <2>2, AddsUnique
<1>4. g[A] = (CHOOSE k : Adds(F, A, k))[A]
  BY <1>2, <1>3
<1> QED BY <1>4 DEF SumOver

\* The sum over nothing, and the total of a set by the element chosen from it.
LEMMA SumChosen ==
  ASSUME NEW F, NEW S, IsFiniteSet(S)
  PROVE  /\ S = {} => SumOver(F, S) = 0
         /\ S # {} => LET x == CHOOSE x \in S : TRUE
                      IN  x \in S /\ SumOver(F, S) = F[x] + SumOver(F, S \ {x})
<1>1. PICK g : Adds(F, S, g)
  BY AddsExist
<1>2. \A A : A \subseteq S => g[A] = SumOver(F, A)
  BY <1>1, SumPart
<1>3. g[S] = AddUp(F, g, S)
  BY <1>1 DEF Adds
<1>4. S = {} => SumOver(F, S) = 0
  BY <1>2, <1>3 DEF AddUp
<1>5. ASSUME S # {}
      PROVE  LET x == CHOOSE x \in S : TRUE
             IN  x \in S /\ SumOver(F, S) = F[x] + SumOver(F, S \ {x})
  <2> DEFINE x == CHOOSE x \in S : TRUE
  <2>1. x \in S
    BY <1>5
  <2>2. g[S] = F[x] + g[S \ {x}]
    BY <1>3, <1>5 DEF AddUp
  <2>3. g[S] = SumOver(F, S) /\ g[S \ {x}] = SumOver(F, S \ {x})
    BY <1>2
  <2> QED BY <2>1, <2>2, <2>3
<1> QED BY <1>4, <1>5

\* When one summand changes, the sum changes by as much.
LEMMA SumChanges ==
  ASSUME NEW S, IsFiniteSet(S), NEW F, NEW G, NEW x \in S, NEW d \in Int, G[x] = F[x] + d,
         \A y \in S : F[y] \in Int /\ (y # x => G[y] = F[y])
  PROVE  SumOver(F, S) \in Int /\ SumOver(G, S) = SumOver(F, S) + d
<1> DEFINE Law(s) == /\ SumOver(F, s) \in Int
                     /\ SumOver(G, s) = SumOver(F, s) + (IF x \in s THEN d ELSE 0)
           T == {s \in SUBSET S : ~Law(s)}
<1>1. SUFFICES ASSUME T # {} PROVE FALSE
  BY <1>1
<1>2. \A s \in SUBSET S : IsFiniteSet(s)
  BY FS_Subset
<1>3. PICK s \in T : \A u \in T : u \subseteq s => u = s
  <2>1. \A u \in T : IsFiniteSet(u)
    BY <1>2
  <2> HIDE DEF T
  <2> QED BY <1>1, <2>1, Smallest
<1>4. s \subseteq S /\ IsFiniteSet(s) /\ ~Law(s)
  BY <1>2
<1>5. s # {}
  <2>1. s = {} => SumOver(F, s) = 0 /\ SumOver(G, s) = 0
    BY <1>4, SumChosen
  <2> QED BY <1>4, <2>1
<1> DEFINE y == CHOOSE y \in s : TRUE
<1>6. /\ y \in s /\ SumOver(F, s) = F[y] + SumOver(F, s \ {y})
      /\ SumOver(G, s) = G[y] + SumOver(G, s \ {y})
  BY <1>4, <1>5, SumChosen
<1>7. Law(s \ {y})
  <2>1. s \ {y} \in SUBSET S /\ s \ {y} # s /\ s \ {y} \subseteq s
    BY <1>4, <1>6
  <2> HIDE DEF Law
  <2> QED BY <1>3, <2>1
<1>8. F[y] \in Int /\ (y # x => G[y] = F[y]) /\ (y = x => G[y] = F[y] + d)
  BY <1>4, <1>6
<1>9. (x \in s \ {y}) <=> (x \in s /\ x # y)
  OBVIOUS
<1>10. Law(s)
  <2> HIDE DEF y
  <2>1. CASE y = x
    BY <1>6, <1>7, <1>8, <1>9, <2>1
  <2>2. CASE y # x
    BY <1>6, <1>7, <1>8, <1>9, <2>2
  <2> QED BY <2>1, <2>2
<1> QED BY <1>4, <1>10

\* Nothing sums up to nothing.
LEMMA SumZero ==
  ASSUME NEW S, IsFiniteSet(S), NEW F, \A y \in S : F[y] = 0
  PROVE  SumOver(F, S) = 0
<1> DEFINE T == {s \in SUBSET S : SumOver(F, s) # 0}
<1>1. SUFFICES ASSUME T # {} PROVE FALSE
  BY <1>1
<1>2. \A s \in SUBSET S : IsFiniteSet(s)
  BY FS_Subset
<1>3. PICK s \in T : \A u \in T : u \subseteq s => u = s
  <2>1. \A u \in T : IsFiniteSet(u)
    BY <1>2
  <2> HIDE DEF T
  <2> QED BY <1>1, <2>1, Smallest
<1>4. s # {}
  BY <1>2, SumChosen
<1>5. PICK y \in s : SumOver(F, s) = F[y] + SumOver(F, s \ {y})
  BY <1>2, <1>4, SumChosen
<1>6. SumOver(F, s \ {y}) = 0
  BY <1>3, <1>5
<1> QED BY <1>5, <1>6

\* The results by booking.
Results == [se \in Bookings |-> booked[se[1]][se[2]].net]

\* There are finitely many bookings, and their total is the sum over them.
LEMMA TotalIsSum == IsFiniteSet(Bookings) /\ Total = SumOver(Results, Bookings)
<1>1. IsFiniteSet(Bookings)
  <2>1. IsFiniteSet(Eps)
    BY Constants, FS_Interval DEF Eps
  <2> QED BY <2>1, TraderAssumption, FS_Product DEF Bookings
<1> DEFINE Body(g) == [s \in SUBSET Bookings |->
                         IF s = {} THEN 0
                         ELSE booked[(CHOOSE x \in s : TRUE)[1]][(CHOOSE x \in s : TRUE)[2]].net
                                + g[s \ {CHOOSE x \in s : TRUE}]]
           P(g) == g = Body(g)
           Q(g) == Adds(Results, Bookings, g)
<1>2. \A g : Body(g) = [s \in SUBSET Bookings |-> AddUp(Results, g, s)]
  <2> SUFFICES ASSUME NEW g, NEW s \in SUBSET Bookings
               PROVE (IF s = {} THEN 0
                      ELSE booked[(CHOOSE x \in s : TRUE)[1]][(CHOOSE x \in s : TRUE)[2]].net
                                + g[s \ {CHOOSE x \in s : TRUE}]) = AddUp(Results, g, s)
    OBVIOUS
  <2>1. CASE s = {}
    BY <2>1 DEF AddUp
  <2>2. CASE s # {}
    <3> DEFINE x == CHOOSE x \in s : TRUE
    <3>1. x \in Bookings
      BY <2>2
    <3>2. Results[x] = booked[x[1]][x[2]].net
      BY <3>1 DEF Results
    <3> QED BY <2>2, <3>2 DEF AddUp
  <2> QED BY <2>1, <2>2
<1>3. Total = (CHOOSE g : P(g))[Bookings]
  BY DEF Total, MapThenSumSet, MapThenFoldSet
<1>4. \A g : P(g) <=> Q(g)
  BY <1>2 DEF Adds
<1>5. SumOver(Results, Bookings) = (CHOOSE g : Q(g))[Bookings]
  BY DEF SumOver
<1>6. (CHOOSE g : P(g)) = (CHOOSE g : Q(g))
  <2> HIDE DEF P, Q
  <2> QED BY <1>4
<1> QED BY <1>1, <1>3, <1>5, <1>6

\* So they are after a step.
LEMMA TotalNext == Total' = SumOver(Results', Bookings)
<1>1. (Total = SumOver(Results, Bookings))'
  BY TotalIsSum, PTL
<1> QED BY <1>1 DEF Bookings

\* Until somebody resumes, the sum in memory is the total of what is booked, and
\* a trade that is not booked has no result.
Summed ==
    /\ resumes = 0 => cum = Total
    /\ \A s \in Sym, ep \in Eps : booked[s][ep].n = 0 => booked[s][ep].net = 0

\* Nothing is booked at the start, and the sum is nothing.
LEMMA InitSummed == Init => Summed
<1> SUFFICES ASSUME Init PROVE Summed
  OBVIOUS
<1>1. cum = 0 /\ \A s \in Sym, ep \in Eps : booked[s][ep].net = 0
  BY DEF Init
<1>2. \A se \in Bookings : Results[se] = 0
  BY <1>1 DEF Results, Bookings
<1> QED BY <1>1, <1>2, TotalIsSum, SumZero DEF Summed

\* Only the operator's resume is counted.
LEMMA ResumesStep ==
    ASSUME TInv, [Next]_vars
    PROVE  resumes' = resumes \/ (ConsumeResume /\ resumes' # 0)
<1>1. resumes \in Nat
  BY DEF TInv, Sound, TypeOK, ProcOK
<1>2. CASE ConsumeResume
  BY <1>1, <1>2 DEF ConsumeResume
<1>3. ASSUME NEW s \in Sym, Loop(s) PROVE resumes' = resumes
  BY <1>3 DEF Loop, OnEntry, OnExit, Periodic
<1>4. ASSUME NEW s \in Sym, Worker(s) PROVE resumes' = resumes
  <2>1. CASE \/ DropTask(s) \/ EntryAsks(s) \/ EntryRefused(s) \/ EntryFills(s) \/ EntryLost(s)
             \/ PlaceStop(s) \/ EntryDone(s)
    BY <2>1 DEF DropTask, EntryAsks, EntryRefused, EntryFills, EntryLost, PlaceStop, EntryDone, OutsideTasks
  <2>2. CASE PlaceMaker(s) \/ MakerSet(s) \/ PollMaker(s) \/ ExitStart(s) \/ CloseMaker(s)
    BY <2>2 DEF PlaceMaker, MakerSet, PollMaker, ExitStart, CloseMaker, OutsideTasks
  <2>3. CASE ExitFills(s) \/ ExitExpires(s) \/ ExitFails(s)
    BY <2>3 DEF ExitFills, ExitExpires, ExitFails, OutsideTasks
  <2>4. CASE \/ ForceCheck(s) \/ CheckStop(s) \/ CancelStop(s)
             \/ Finalize(s) \/ StoreTrade(s) \/ HaltGuard(s)
    BY <2>4 DEF ForceCheck, CheckStop, CancelStop, Finalize, StoreTrade, HaltGuard, OutsideTasks
  <2> QED BY <1>4, <2>1, <2>2, <2>3, <2>4 DEF Worker
<1>5. ASSUME NEW s \in Sym, Exchange(s) \/ Tick(s) PROVE resumes' = resumes
  BY <1>5 DEF Exchange, MakerFills, MakerExpires, StopFires, TradesShow, Tick, Outside
<1>6. ASSUME NEW s \in Sym, Recover(s) PROVE resumes' = resumes
  BY <1>6 DEF Recover, RecoverRefused, RecoverFlat, RecoverOpen, RecoverClosed
<1>7. CASE Crash \/ Start \/ RecoverDone \/ UNCHANGED vars
  BY <1>7 DEF Crash, Start, RecoverDone, vars
<1> QED BY <1>2, <1>3, <1>4, <1>5, <1>6, <1>7 DEF Next

\* A booking adds its result to the sum and to the total.
LEMMA ClosesSummed ==
    ASSUME LedgerInv, Summed, NEW s \in Sym, Closes(s), resumes' = resumes
    PROVE  Summed'
<1> DEFINE ep == ledger[s].ep
           x == <<s, ep>>
<1>0. PICK legs \in Legs : \E net \in NetsOf(legs) : Book(s, ep, legs, net)
  BY DEF Closes, Books
<1>1. PICK net \in NetsOf(legs) : Book(s, ep, legs, net)
  BY <1>0
<1>2. ep \in Eps /\ net \in Int /\ cum \in Int
  BY Constants DEF Closes, Books, NetsOf, LedgerInv, TInv, Sound, TypeOK, TraderOK
<1>3. /\ cum' = cum + net
      /\ booked' = [booked EXCEPT ![s][ep] = [n |-> @.n + 1, legs |-> legs, net |-> net]]
  BY <1>1 DEF Book
<1>4. booked[s][ep].n = 0 /\ booked[s][ep].net = 0
  BY <1>2, Numbers DEF LedgerInv, Unbooked, UnbookedAt, Summed
<1>5. /\ booked'[s][ep].net = net /\ booked'[s][ep].n = 1
      /\ \A t \in Sym, e \in Eps : <<t, e>> # x => booked'[t][e] = booked[t][e]
  BY <1>2, <1>3, <1>4 DEF LedgerInv, TInv, Sound, TypeOK, BookOK
<1>6. \A t \in Sym, e \in Eps : booked[t][e].net \in Int
  BY DEF LedgerInv, TInv, Sound, TypeOK, BookOK
<1>7. x \in Bookings /\ Results[x] = 0 /\ Results'[x] = Results[x] + net
  BY <1>2, <1>4, <1>5 DEF Bookings, Results
<1>8. \A y \in Bookings : Results[y] \in Int /\ (y # x => Results'[y] = Results[y])
  BY <1>5, <1>6 DEF Bookings, Results
<1>9. /\ SumOver(Results, Bookings) \in Int
      /\ SumOver(Results', Bookings) = SumOver(Results, Bookings) + net
  <2> HIDE DEF x
  <2> QED BY <1>2, <1>7, <1>8, TotalIsSum, SumChanges
<1>10. IsFiniteSet(Bookings) /\ Total = SumOver(Results, Bookings)
  BY TotalIsSum
<1>11. Total' = SumOver(Results', Bookings)
  BY TotalNext
<1>12. \A t \in Sym, e \in Eps : booked'[t][e].n = 0 => booked'[t][e].net = 0
  BY <1>5 DEF Summed
<1> QED BY <1>3, <1>9, <1>10, <1>11, <1>12 DEF Summed

\* Every step keeps the sum the total.
LEMMA NextSummed == ASSUME LedgerInv, Summed, [Next]_vars PROVE Summed'
<1>1. ASSUME booked' = booked, cum' = cum, resumes' = resumes PROVE Summed'
  <2>1. Results' = Results
    BY <1>1 DEF Results, Bookings
  <2>2. Total' = Total
    BY <2>1, TotalIsSum, TotalNext
  <2> QED BY <1>1, <2>2 DEF Summed
<1>2. CASE resumes' = resumes
  <2>1. Kinds
    BY NextKinds DEF LedgerInv
  <2>2. CASE Still \/ Ends \/ Starts \/ IsUp
    <3>1. booked' = booked /\ cum' = cum
      BY <2>2 DEF Still, Ends, Starts, IsUp, traderVars, LedgerInv, Durable
    <3> QED BY <1>1, <1>2, <3>1
  <2>3. CASE Resumes
    <3>1. resumes \in Nat
      BY DEF LedgerInv, TInv, Sound, TypeOK, ProcOK
    <3> QED BY <1>2, <2>3, <3>1 DEF Resumes
  <2>4. ASSUME NEW s \in Sym, Closes(s) PROVE Summed'
    BY <1>2, <2>4, ClosesSummed
  <2>5. ASSUME NEW s \in Sym, NEW ep \in Eps, Comes(s, ep) PROVE Summed'
    <3>1. booked' = booked /\ cum' = cum
      BY <2>5 DEF Comes, Takes, Puts, traderVars
    <3> QED BY <1>1, <1>2, <3>1
  <2>6. ASSUME NEW s \in Sym, NEW p \in Pos, Changes(s, p) \/ Finds(s, p) PROVE Summed'
    <3>1. booked' = booked /\ cum' = cum
      BY <2>6 DEF Changes, Puts, Finds
    <3> QED BY <1>1, <1>2, <3>1
  <2> QED BY <2>1, <2>2, <2>3, <2>4, <2>5, <2>6 DEF Kinds
<1>3. CASE ConsumeResume /\ resumes' # 0
  <2>1. booked' = booked
    BY <1>3 DEF ConsumeResume, bookVars
  <2> QED BY <1>3, <2>1 DEF Summed
<1> QED BY <1>2, <1>3, ResumesStep DEF LedgerInv

\* As long as nobody resumes by hand, the sum in state.json, which the stop line is
\* compared with, is the total of the results booked: over any number of symbols,
\* trades, crashes and interrupted recoveries, none is lost or counted twice.
THEOREM SumIsBookedHolds == Spec => []SumIsBooked
<1>1. Init => Summed
  BY InitSummed
<1>2. LedgerInv /\ Summed /\ [Next]_vars => Summed'
  BY NextSummed
<1>3. LedgerInv /\ Summed => SumIsBooked
  BY DEF LedgerInv, Durable, Summed, SumIsBooked
<1> QED BY <1>1, <1>2, <1>3, LedgerInvHolds, PTL DEF Spec

-----------------------------------------------------------------------------
(* The ledger and the exchange.                                            *)


\* All that was bought back.
LegsSum(l) == l.maker + l.market + l.stop + l.other

\* A position is as large as the short and what was bought back of it.
Accounts(p, sh, fl) ==
    /\ p.status = "none" => sh = 0
    /\ p.status # "none" => sh + LegsSum(fl[p.ep]) <= p.qty
    /\ p.status = "opening" => p.qty = Qty

\* The fills of the position in the ledger.
Back(s) == fills[s][ledger[s].ep]

\* What the exchange holds and did belongs to signals of the past.
PastAt(s) ==
    /\ \A o \in orders[s] : o.ep <= lastSig[s]
    /\ \A ep \in Eps : ep > lastSig[s] => fills[s][ep] = NoLegs

\* The ledger and state.json account for the short, before, during and after
\* every step of the order thread.
HeldAt(s) ==
    /\ PastAt(s)
    /\ Accounts(ledger[s], short[s], fills[s]) /\ Accounts(disk.ledger[s], short[s], fills[s])
    /\ short[s] > 0 => disk.ledger[s].ep = ledger[s].ep
    /\ ledger[s].status # "none" /\ Back(s).stop > 0 => short[s] = 0
    /\ work[s].at # "lost"
    /\ work[s].at \in {"filled", "stopped"} => short[s] + LegsSum(Back(s)) <= work[s].got
    /\ proc = "up" /\ ledger[s].status = "opening" /\ work[s].at \notin {"filled", "stopped"}
          => short[s] = 0 /\ LegsSum(Back(s)) = 0
    /\ work[s].at = "market" => work[s].legs.maker <= Back(s).maker
    /\ work[s].at \in {"cancel", "force", "finalize", "store", "halt"} => short[s] = 0
Held == faults = 0 /\ slips = 0 => \A s \in Sym : HeldAt(s)

\* Nothing failed up to now if nothing failed up to the next state.
LEMMA NoFault ==
    ASSUME TInv, [Next]_vars, faults' = 0
    PROVE  faults = 0
<1>1. faults \in Nat /\ (faults' = faults \/ faults' = faults + 1)
  <2>1. faults \in Nat
    BY DEF TInv, Sound, TypeOK, ProcOK
  <2> USE DEF Works, Fails
  <2>2. ASSUME NEW s \in Sym, Loop(s) \/ Exchange(s) \/ Tick(s)
        PROVE  faults' = faults
    BY <2>2 DEF Loop, OnEntry, OnExit, Periodic, Exchange, MakerFills, MakerExpires, StopFires,
       TradesShow, Tick, Outside
  <2>3. ASSUME NEW s \in Sym, Recover(s) PROVE faults' = faults \/ faults' = faults + 1
    BY <2>3 DEF Recover, RecoverRefused, RecoverFlat, RecoverOpen, RecoverClosed, CleanUp
  <2>4. CASE ConsumeResume \/ Crash \/ Start \/ RecoverDone \/ UNCHANGED vars
    BY <2>4 DEF ConsumeResume, Crash, Start, RecoverDone, vars
  <2>5. ASSUME NEW s \in Sym, Worker(s) PROVE faults' = faults \/ faults' = faults + 1
    <3>1. CASE DropTask(s) \/ EntryAsks(s) \/ EntryRefused(s) \/ EntryFills(s) \/ EntryLost(s)
               \/ PlaceStop(s) \/ EntryDone(s) \/ PlaceMaker(s) \/ MakerSet(s) \/ PollMaker(s)
               \/ ExitStart(s)
      BY <3>1 DEF DropTask, EntryAsks, EntryRefused, EntryFills, EntryLost, PlaceStop, EntryDone,
         PlaceMaker, MakerSet, PollMaker, ExitStart
    <3>2. CASE CloseMaker(s) \/ ExitFills(s) \/ ExitExpires(s) \/ ExitFails(s) \/ ForceCheck(s)
               \/ CheckStop(s) \/ CancelStop(s) \/ Finalize(s) \/ StoreTrade(s) \/ HaltGuard(s)
      BY <3>2 DEF CloseMaker, ExitFills, ExitExpires, ExitFails, ForceCheck, CheckStop,
         CancelStop, Finalize, StoreTrade, HaltGuard
    <3> QED BY <2>5, <3>1, <3>2 DEF Worker
  <2> QED BY <2>1, <2>2, <2>3, <2>4, <2>5 DEF Next
<1> QED BY <1>1

\* Quantities are numbers.
LEMMA Amounts ==
    ASSUME TInv, NEW s \in Sym
    PROVE  /\ ledger[s].qty \in Nat /\ disk.ledger[s].qty \in Nat /\ work[s].got \in Nat
           /\ work[s].legs.maker \in Nat /\ short[s] \in Nat
           /\ \A ep \in Eps : /\ fills[s][ep] \in Legs
                              /\ fills[s][ep].maker \in Nat /\ fills[s][ep].market \in Nat
                              /\ fills[s][ep].stop \in Nat /\ fills[s][ep].other \in Nat
           /\ ledger[s].status # "none" => ledger[s].ep \in Eps
           /\ disk.ledger[s].status # "none" => disk.ledger[s].ep \in Eps
<1>1. /\ AlignedAt(s) /\ ledger[s] \in Pos /\ disk.ledger[s] \in Pos /\ work[s] \in Work
      /\ short[s] \in Amount /\ fills[s] \in [Eps -> Legs]
  BY Parts
<1>2. ledger[s].qty \in Nat /\ disk.ledger[s].qty \in Nat /\ work[s].got \in Nat /\ short[s] \in Nat
  BY <1>1, Constants DEF Pos, Work
<1>3. work[s].legs.maker \in Nat
  BY <1>1 DEF Work, Legs
<1>4. \A ep \in Eps : /\ fills[s][ep] \in Legs
                      /\ fills[s][ep].maker \in Nat /\ fills[s][ep].market \in Nat
                      /\ fills[s][ep].stop \in Nat /\ fills[s][ep].other \in Nat
  BY <1>1 DEF Legs
<1> QED BY <1>1, <1>2, <1>3, <1>4 DEF AlignedAt

\* Nothing in all is nothing of each.
LEMMA Totals ==
    ASSUME NEW l \in Legs
    PROVE  /\ LegsSum(l) \in Nat /\ l.maker <= LegsSum(l) /\ l.stop <= LegsSum(l)
           /\ LegsSum(l) = 0 => l.maker = 0 /\ l.market = 0 /\ l.stop = 0 /\ l.other = 0
<1> DEFINE a == l.maker
           b == l.market
           c == l.stop
           d == l.other
<1>1. a \in Nat /\ b \in Nat /\ c \in Nat /\ d \in Nat
  BY DEF Legs
<1>2. LegsSum(l) = a + b + c + d
  BY DEF LegsSum
<1> HIDE DEF a, b, c, d
<1>3. /\ LegsSum(l) \in Nat /\ a <= LegsSum(l) /\ c <= LegsSum(l)
      /\ LegsSum(l) = 0 => a = 0 /\ b = 0 /\ c = 0 /\ d = 0
  BY <1>1, <1>2
<1> QED BY <1>3 DEF a, b, c, d

\* A position that was put and saved is in memory and in state.json.
LEMMA Put ==
    ASSUME TInv, NEW s \in Sym, NEW p, ledger' = [ledger EXCEPT ![s] = p], Save
    PROVE  ledger'[s] = p /\ disk'.ledger[s] = p
BY DEF TInv, Sound, TypeOK, TraderOK, Save

\* A step about one symbol keeps what holds of the others.
LEMMA HeldElsewhere ==
    ASSUME LedgerInv, NEW s \in Sym, Loop(s) \/ Worker(s) \/ Exchange(s) \/ Tick(s) \/ Recover(s),
           NEW t \in Sym \ {s}, HeldAt(t)
    PROVE  HeldAt(t)'
<1>1. /\ UNCHANGED Local(t) /\ disk'.ledger[t] \in {disk.ledger[t], ledger[t]}
  BY Elsewhere DEF LedgerInv
<1>2. proc' = "up" => proc = "up"
  BY DEF Loop, OnEntry, OnExit, Periodic, Worker, DropTask, EntryAsks, EntryRefused, EntryFills,
     EntryLost, PlaceStop, EntryDone, PlaceMaker, MakerSet, PollMaker, ExitStart, CloseMaker,
     ExitFills, ExitExpires, ExitFails, ForceCheck, CheckStop, CancelStop, Finalize, StoreTrade,
     HaltGuard, HeadIs, Exchange, MakerFills, MakerExpires, StopFires, TradesShow, Tick, Outside,
     procVars, Recover, RecoverRefused, RecoverFlat, RecoverOpen, RecoverClosed
<1>3. /\ ledger'[t] = ledger[t] /\ work'[t] = work[t] /\ short'[t] = short[t]
      /\ orders'[t] = orders[t] /\ fills'[t] = fills[t] /\ lastSig'[t] = lastSig[t]
  BY <1>1 DEF Local
<1> QED BY <1>1, <1>2, <1>3 DEF HeldAt, PastAt, Back, Accounts

\* A step of the order thread that changes neither the position nor the short.
LEMMA ThreadStep ==
    ASSUME LedgerInv, NEW s \in Sym, HeldAt(s), proc = "up",
           UNCHANGED <<traderVars, short, fills, lastSig>>,
           \A o \in orders'[s] : o.ep <= lastSig[s],
           work'[s].at # "lost",
           work'[s].at \in {"filled", "stopped"} => short[s] + LegsSum(Back(s)) <= work'[s].got,
           ledger[s].status = "opening" => \/ work'[s].at \in {"filled", "stopped"}
                                           \/ short[s] = 0 /\ LegsSum(Back(s)) = 0,
           work'[s].at = "market" => work'[s].legs.maker <= Back(s).maker,
           work'[s].at \in {"cancel", "force", "finalize", "store", "halt"} => short[s] = 0
    PROVE  HeldAt(s)'
BY DEF HeldAt, PastAt, Back, traderVars

\* What every step of the order thread starts from.
LEMMA ThreadFacts ==
    ASSUME LedgerInv, NEW s \in Sym, Worker(s)
    PROVE  /\ proc = "up" /\ proc' = "up" /\ disk.ledger[s] = ledger[s]
           /\ lastSig' = lastSig /\ ledger[s].ep <= lastSig[s]
           /\ work[s] \in Work /\ StagedAt(s) /\ AlignedAt(s)
           /\ DOMAIN work = Sym /\ DOMAIN short = Sym /\ DOMAIN orders = Sym
<1>1. proc = "up" /\ proc' = "up" /\ lastSig' = lastSig
  BY DEF Worker, DropTask, EntryAsks, EntryRefused, EntryFills, EntryLost, OutsideTasks,
     procVars, loopVars, PlaceStop, EntryDone, PlaceMaker, MakerSet, PollMaker, ExitStart, CloseMaker, ExitFills,
     ExitExpires, ExitFails, ForceCheck, CheckStop, CancelStop, Finalize, StoreTrade, HaltGuard,
     HeadIs
<1>2. disk.ledger[s] = ledger[s] /\ ledger[s].ep <= lastSig[s]
  BY <1>1 DEF LedgerInv, Durable, DurableAt, Unbooked, UnbookedAt
<1>3. work[s] \in Work /\ AlignedAt(s) /\ StagedAt(s)
  BY Parts DEF LedgerInv, Staged
<1>4. DOMAIN work = Sym /\ DOMAIN short = Sym /\ DOMAIN orders = Sym
  BY DEF LedgerInv, TInv, Sound, TypeOK, TaskOK, ExchOK
<1> QED BY <1>1, <1>2, <1>3, <1>4

\* A step at which all goes as it should.
LEMMA NoSlip ==
    ASSUME TInv, NEW proper \in BOOLEAN, Slips(proper), slips' = 0
    PROVE  proper
BY DEF Slips, TInv, Sound, TypeOK, ExchOK

\* The entry.
LEMMA EntryHeld ==
    ASSUME LedgerInv, NEW s \in Sym, HeldAt(s), faults' = 0, slips' = 0,
           Worker(s), DropTask(s) \/ EntryAsks(s) \/ EntryRefused(s) \/ EntryFills(s) \/ EntryLost(s)
                      \/ PlaceStop(s) \/ EntryDone(s)
    PROVE  HeldAt(s)'
<1>0. /\ proc = "up" /\ proc' = "up" /\ disk.ledger[s] = ledger[s]
      /\ lastSig' = lastSig /\ ledger[s].ep <= lastSig[s]
      /\ work[s] \in Work /\ StagedAt(s) /\ AlignedAt(s)
      /\ DOMAIN work = Sym /\ DOMAIN short = Sym /\ DOMAIN orders = Sym
  BY ThreadFacts
<1>1. TInv /\ ~Fails
  BY DEF LedgerInv, Fails, TInv, Sound, TypeOK, ProcOK
<1>2. CASE DropTask(s)
  BY <1>0, <1>2, ThreadStep DEF DropTask, exchVars, HeldAt, PastAt
<1>3. CASE EntryRefused(s)
  <2>1. ledger[s].status = "opening" /\ work[s].at \in {"idle", "asked"}
    BY <1>0, <1>1, <1>3, LiveStatus, Names DEF EntryRefused, HeadIs, StagedAt
  <2>2. ledger'[s] = Flat /\ disk'.ledger[s] = Flat
    BY <1>1, <1>3, Put DEF EntryRefused, Discard
  <2>3. UNCHANGED <<short, orders, fills>> /\ work'[s].at \in {"idle", "asked"}
    BY <1>0, <1>3, <2>1, Values DEF EntryRefused, Do, exchVars
  <2> QED BY <1>0, <2>1, <2>2, <2>3, Values DEF HeldAt, PastAt, Back, Accounts
<1>4. CASE EntryFills(s)
  <2>1. ledger[s].status = "opening" /\ work[s].at = "asked" /\ ledger[s].ep \in Eps
    BY <1>0, <1>4 DEF EntryFills, StagedAt, AlignedAt
  <2>2. PICK got \in 1..Qty : /\ short' = [short EXCEPT ![s] = @ + got]
                              /\ Do(s, [work[s] EXCEPT !.at = "filled", !.got = got])
    <3>1. PICK got \in 1..Qty : \E seen \in 0..got :
            /\ short' = [short EXCEPT ![s] = @ + got] /\ Slips(EntryQty(got, seen) = got)
            /\ \/ Do(s, [work[s] EXCEPT !.at = "filled", !.got = EntryQty(got, seen)])
               \/ EntryQty(got, seen) = 0
      BY <1>1, <1>4 DEF EntryFills
    <3>2. PICK seen \in 0..got :
            /\ Slips(EntryQty(got, seen) = got)
            /\ \/ Do(s, [work[s] EXCEPT !.at = "filled", !.got = EntryQty(got, seen)])
               \/ EntryQty(got, seen) = 0
      BY <3>1
    <3>3. EntryQty(got, seen) = got
      BY <1>1, <3>2, NoSlip
    <3>4. got # 0
      OBVIOUS
    <3> QED BY <3>1, <3>2, <3>3, <3>4
  <2>3. UNCHANGED <<ledger, disk, orders, fills>> /\ short[s] = 0
    BY <1>1, <1>4, <2>1 DEF EntryFills, traderVars, TInv, Empty
  <2> DEFINE v == [work[s] EXCEPT !.at = "filled"]
  <2>4. v \in Work /\ v.at = "filled"
    BY <1>0, Names DEF Work
  <2> HIDE DEF v
  <2>5. work'[s].at = "filled" /\ work'[s].got = got /\ short'[s] = got /\ got \in Nat /\ got <= Qty
    <3>1. work'[s] = [v EXCEPT !.got = got]
      BY <1>0, <2>2 DEF Do, v
    <3>2. short'[s] = 0 + got /\ got \in Nat /\ got <= Qty
      BY <1>0, <2>2, <2>3, Constants
    <3> QED BY <2>4, <3>1, <3>2 DEF Work
  <2>6. LegsSum(Back(s)) = 0 /\ Back(s).stop = 0
    <3>2. LegsSum(Back(s)) = 0
      BY <1>0, <2>1 DEF HeldAt
    <3>3. Back(s) \in Legs
      BY <1>1, <2>1, Amounts DEF Back
    <3> QED BY <3>2, <3>3, Totals
  <2> QED BY <1>0, <2>1, <2>3, <2>5, <2>6 DEF HeldAt, PastAt, Back, Accounts
<1>5. CASE EntryLost(s)
  BY <1>5 DEF EntryLost, HeldAt
<1>6. CASE PlaceStop(s)
  <2>1. PICK placed, known \in BOOLEAN :
          /\ orders' = [orders EXCEPT ![s] =
                           IF placed THEN @ \cup {StopOrder(work[s].ep)} ELSE @]
          /\ Do(s, [work[s] EXCEPT !.at = "stopped", !.set = known])
    BY <1>6 DEF PlaceStop
  <2>2. work'[s].at = "stopped" /\ work'[s].got = work[s].got
    BY <1>0, <2>1 DEF Do, Work
  <2>3. \A o \in orders'[s] : o \in orders[s] \/ o.ep = work[s].ep
    BY <1>0, <2>1 DEF StopOrder
  <2>4. work[s].at = "filled" /\ work[s].ep = ledger[s].ep
    BY <1>0, <1>6 DEF PlaceStop, AlignedAt
  <2>5. UNCHANGED <<traderVars, short, fills, lastSig>>
    BY <1>6 DEF PlaceStop, OutsideTasks, loopVars
  <2> QED BY <1>0, <2>2, <2>3, <2>4, <2>5, ThreadStep DEF HeldAt, PastAt
<1>7. CASE EntryDone(s)
  <2>1. /\ work[s].at = "stopped" /\ UNCHANGED <<short, orders, fills>>
        /\ ledger' = [ledger EXCEPT ![s].status = "open", ![s].qty = work[s].got,
                                ![s].stop = work[s].set]
        /\ UNCHANGED <<halted, cum, entries>> /\ Save /\ Do(s, Idle)
    BY <1>7 DEF EntryDone, exchVars
  <2> DEFINE q == work[s].got
             b == work[s].set
             p == [ledger[s] EXCEPT !.status = "open", !.qty = q, !.stop = b]
  <2>3. ledger' = [ledger EXCEPT ![s] = p] /\ q \in Amount /\ b \in BOOLEAN /\ ledger[s] \in Pos
    BY <1>0, <1>1, <2>1, Parts DEF Work
  <2> HIDE DEF q, b
  <2>2. p \in Pos /\ p.ep = ledger[s].ep /\ p.qty = q /\ p.status = "open"
    BY <2>3, Names DEF Pos
  <2> USE DEF q
  <2> HIDE DEF p
  <2>4. ledger'[s] = p /\ disk'.ledger[s] = p
    BY <1>1, <2>1, <2>3, Put
  <2>5. work'[s].at = "idle"
    BY <1>0, <2>1, Values DEF Do
  <2>6. ledger[s].status = "opening"
    BY <1>0, <2>1 DEF StagedAt
  <2> QED BY <1>0, <2>1, <2>2, <2>4, <2>5, <2>6 DEF HeldAt, PastAt, Back, Accounts
<1>8. CASE EntryAsks(s)
  <2>1. ledger[s].status = "opening" /\ ledger[s].ep \in Eps
    BY <1>1, <1>8, LiveStatus, LiveEp, Names DEF EntryAsks
  <2>2. /\ UNCHANGED <<traderVars, short, fills, lastSig, orders>> /\ work[s].at = "idle"
    BY <1>0, <1>8 DEF EntryAsks, exchVars, HeadIs
  <2>3. work'[s].at = "asked"
    <3>1. At("asked", ledger[s].ep).at = "asked"
      BY <2>1, Values, Names
    <3> QED BY <1>0, <1>8, <3>1 DEF EntryAsks, Do
  <2> QED BY <1>0, <2>1, <2>2, <2>3, ThreadStep DEF HeldAt, PastAt
<1> QED BY <1>2, <1>3, <1>4, <1>5, <1>6, <1>7, <1>8

\* The fills of a position are counted in its legs.
LEMMA BackOK ==
    ASSUME TInv, Seen, slips = 0, NEW s \in Sym, ledger[s].status # "none"
    PROVE  /\ ledger[s].ep \in Eps /\ Back(s) \in Legs
           /\ Filled(s, "maker") = Back(s).maker /\ Filled(s, "stop") = Back(s).stop
           /\ Back(s).maker \in Nat /\ Back(s).stop \in Nat /\ LegsSum(Back(s)) \in Nat
           /\ Back(s).maker <= LegsSum(Back(s)) /\ Back(s).stop <= LegsSum(Back(s))
<1>1. ledger[s].ep \in Eps /\ Back(s) \in Legs
  BY Amounts DEF Back
<1>2. Filled(s, "maker") = Back(s).maker /\ Filled(s, "stop") = Back(s).stop
  BY DEF Filled, Back, Seen
<1>3. Back(s).maker \in Nat /\ Back(s).stop \in Nat
  BY <1>1 DEF Legs
<1> QED BY <1>1, <1>2, <1>3, Totals

\* A position that has bought back all of its size has no short left.
LEMMA BoughtBack ==
    ASSUME TInv, Seen, slips = 0, NEW s \in Sym, HeldAt(s), ledger[s].status # "none",
           ledger[s].qty <= Back(s).maker
    PROVE  short[s] = 0
<1>1. short[s] + LegsSum(Back(s)) <= ledger[s].qty
  BY DEF HeldAt, Accounts, Back
<1> QED BY <1>1, BackOK, Amounts

\* The maker exit.
LEMMA MakerHeld ==
    ASSUME LedgerInv, NEW s \in Sym, HeldAt(s), faults' = 0, slips = 0, Worker(s),
           PlaceMaker(s) \/ MakerSet(s) \/ PollMaker(s) \/ CloseMaker(s)
    PROVE  HeldAt(s)'
<1>0. /\ proc = "up" /\ proc' = "up" /\ disk.ledger[s] = ledger[s]
      /\ lastSig' = lastSig /\ ledger[s].ep <= lastSig[s]
      /\ work[s] \in Work /\ StagedAt(s) /\ AlignedAt(s)
      /\ DOMAIN work = Sym /\ DOMAIN short = Sym /\ DOMAIN orders = Sym
  BY ThreadFacts
<1>1. TInv /\ Seen /\ slips = 0 /\ ~Fails
  BY DEF LedgerInv, Fails, TInv, Sound, TypeOK, ProcOK
<1>2. CASE PlaceMaker(s)
  <2>1. ledger[s].status = "open" /\ ledger[s].ep \in Eps
    BY <1>1, <1>2, LiveStatus, LiveEp, Names DEF PlaceMaker
  <2>2. UNCHANGED <<traderVars, short, fills, lastSig>>
    BY <1>0, <1>2 DEF PlaceMaker
  <2>3. work'[s].at \in {"makerset", "idle"}
    <3>1. At("makerset", ledger[s].ep).at = "makerset"
      BY <2>1, Values, Names
    <3> QED BY <1>0, <1>2, <3>1 DEF PlaceMaker, Do, HeadIs
  <2>4. \A o \in orders'[s] : o \in orders[s] \/ o.ep = ledger[s].ep
    BY <1>0, <1>2 DEF PlaceMaker, MakerOrder
  <2> QED BY <1>0, <2>1, <2>2, <2>3, <2>4, ThreadStep DEF HeldAt, PastAt
<1>3. CASE MakerSet(s)
  <2> DEFINE p == [ledger[s] EXCEPT !.maker = TRUE]
  <2>1. p.ep = ledger[s].ep /\ p.qty = ledger[s].qty /\ p.status = ledger[s].status
    BY <1>1, Parts DEF Pos
  <2> HIDE DEF p
  <2>2. ledger'[s] = p /\ disk'.ledger[s] = p
    BY <1>1, <1>3, Put DEF MakerSet, p
  <2>3. work'[s].at = "idle" /\ UNCHANGED <<short, orders, fills>>
    BY <1>0, <1>3, Values DEF MakerSet, Do, exchVars
  <2>4. ledger[s].status # "opening"
    BY <1>0, <1>3 DEF MakerSet, StagedAt
  <2> QED BY <1>0, <2>1, <2>2, <2>3, <2>4 DEF HeldAt, PastAt, Back, Accounts
<1>4. CASE PollMaker(s)
  <2>1. ledger[s].status = "open" /\ ledger[s].ep \in Eps
    BY <1>1, <1>4, LiveStatus, LiveEp, Names DEF PollMaker
  <2>2. UNCHANGED <<traderVars, short, fills, lastSig, orders>>
    BY <1>0, <1>4 DEF PollMaker, exchVars
  <2> DEFINE v == At("cancel", ledger[s].ep)
  <2>3. v \in Work /\ v.at = "cancel"
    BY <2>1, Values, Names
  <2>4. \/ (\E m : Do(s, [v EXCEPT !.legs.maker = m])) /\ Filled(s, "maker") >= ledger[s].qty
        \/ work' = work /\ work[s].at = "idle"
    BY <1>4 DEF PollMaker, HeadIs
  <2> HIDE DEF v
  <2>5. \/ work'[s].at = "cancel" /\ short[s] = 0
        \/ work' = work /\ work[s].at = "idle"
    <3>1. Filled(s, "maker") >= ledger[s].qty => short[s] = 0
      BY <1>1, <2>1, BackOK, BoughtBack
    <3> QED BY <1>0, <2>3, <2>4, <3>1 DEF Do, Work
  <2> QED BY <1>0, <2>1, <2>2, <2>5, ThreadStep DEF HeldAt, PastAt
<1>5. CASE CloseMaker(s)
  <2>1. work[s].at = "maker" /\ ledger[s].status \in {"open", "closing"}
    BY <1>0, <1>5 DEF CloseMaker, StagedAt
  <2>2. UNCHANGED <<traderVars, short, fills, lastSig>>
    BY <1>0, <1>5 DEF CloseMaker
  <2>3. PICK m \in 0..Filled(s, "maker"), cancel \in BOOLEAN :
          /\ m = Filled(s, "maker")
          /\ orders' = [orders EXCEPT ![s] =
                           IF cancel THEN @ \ OrdersOf(s, "maker", work[s].ep) ELSE @]
          /\ Do(s, [work[s] EXCEPT !.at = IF m >= ledger[s].qty THEN "cancel" ELSE "market",
                                   !.legs.maker = m])
    BY <1>1, <1>5 DEF CloseMaker
  <2>4. \A o \in orders'[s] : o \in orders[s]
    BY <1>0, <2>3
  <2>5. /\ work'[s].at = IF m >= ledger[s].qty THEN "cancel" ELSE "market"
        /\ work'[s].legs.maker = m
    BY <1>0, <2>3 DEF Do, Work, Legs
  <2>6. m = Back(s).maker /\ m \in Nat
    BY <1>1, <2>1, <2>3, BackOK
  <2>7. m >= ledger[s].qty => short[s] = 0
    BY <1>1, <2>1, <2>6, BoughtBack, Amounts
  <2> QED BY <1>0, <2>1, <2>2, <2>4, <2>5, <2>6, <2>7, ThreadStep DEF HeldAt, PastAt
<1> QED BY <1>2, <1>3, <1>4, <1>5

\* Selling the rest back, and looking for a stop that fired.
LEMMA ExitHeld ==
    ASSUME LedgerInv, NEW s \in Sym, HeldAt(s), faults' = 0, slips = 0, slips' = 0, Worker(s),
           ExitStart(s) \/ ExitFills(s) \/ ExitExpires(s) \/ ExitFails(s)
           \/ ForceCheck(s) \/ CheckStop(s) \/ CancelStop(s)
    PROVE  HeldAt(s)'
<1>0. /\ proc = "up" /\ proc' = "up" /\ disk.ledger[s] = ledger[s]
      /\ lastSig' = lastSig /\ ledger[s].ep <= lastSig[s]
      /\ work[s] \in Work /\ StagedAt(s) /\ AlignedAt(s)
      /\ DOMAIN work = Sym /\ DOMAIN short = Sym /\ DOMAIN orders = Sym
  BY ThreadFacts
<1>1. TInv /\ Seen /\ slips = 0 /\ ~Fails
  BY DEF LedgerInv, Fails, TInv, Sound, TypeOK, ProcOK
<1>2. CASE ExitStart(s)
  <2>1. ledger[s].status = "open" /\ ledger[s].ep \in Eps
    BY <1>1, <1>2, LiveStatus, LiveEp, Names DEF ExitStart
  <2> DEFINE p == [ledger[s] EXCEPT !.status = "closing"]
             at == IF ledger[s].maker THEN "maker" ELSE "market"
  <2>2. p.ep = ledger[s].ep /\ p.qty = ledger[s].qty /\ p.status = "closing"
    BY <1>1, Parts, Names DEF Pos
  <2> HIDE DEF p
  <2>3. ledger'[s] = p /\ disk'.ledger[s] = p
    BY <1>1, <1>2, Put DEF ExitStart, SetStatus, p
  <2>4. work'[s] = At(at, ledger[s].ep) /\ UNCHANGED <<short, orders, fills>>
    BY <1>0, <1>2 DEF ExitStart, Do, exchVars
  <2>5. work'[s].at \in {"maker", "market"} /\ work'[s].legs = NoLegs
    BY <2>1, <2>4, Values, Names
  <2>6. Back(s).maker \in Nat
    BY <1>1, <2>1, BackOK
  <2> QED BY <1>0, <2>1, <2>2, <2>3, <2>4, <2>5, <2>6 DEF HeldAt, PastAt, Back, Accounts, NoLegs
<1>3. CASE ExitFills(s)
  <2>1. /\ work[s].at = "market" /\ ledger[s].status \in {"open", "closing"}
        /\ ledger[s].ep = work[s].ep
    BY <1>0, <1>3 DEF ExitFills, StagedAt, AlignedAt
  <2>2. short[s] + LegsSum(Back(s)) <= ledger[s].qty /\ work[s].legs.maker <= Back(s).maker
    BY <2>1 DEF HeldAt, Accounts, Back
  <2>3. ExitWant(s) \in Int /\ short[s] <= ExitWant(s) /\ ExitRest(s) = short[s]
    <3>1. short[s] <= ledger[s].qty - work[s].legs.maker
      BY <1>1, <2>1, <2>2, BackOK, Amounts
    <3> QED BY <1>1, <3>1, Amounts DEF ExitRest, ExitWant, Lesser
  <2>4. /\ short' = [short EXCEPT ![s] = @ - short[s]]
        /\ orders' = [orders EXCEPT ![s] = Swept(@, short'[s])]
        /\ fills' = [fills EXCEPT ![s][work[s].ep].market = @ + short[s]]
        /\ Do(s, [work[s] EXCEPT !.at = "cancel", !.legs.market = short[s]])
        /\ UNCHANGED traderVars
    <3>1. PICK k \in 0..ExitRest(s) : \E v \in 0..k :
            /\ BuyBack(s, k, v) /\ Slips(k = ExitRest(s) /\ v = k)
            /\ \/ Do(s, [work[s] EXCEPT !.at = "cancel", !.legs.market = IF v > 0 THEN v ELSE k])
               \/ SeemsGone(s, k, v)
      BY <1>3 DEF ExitFills
    <3>2. PICK v \in 0..k :
            /\ BuyBack(s, k, v) /\ Slips(k = ExitRest(s) /\ v = k)
            /\ \/ Do(s, [work[s] EXCEPT !.at = "cancel", !.legs.market = IF v > 0 THEN v ELSE k])
               \/ SeemsGone(s, k, v)
      BY <3>1
    <3>3. k = short[s] /\ v = k
      BY <1>1, <2>3, <3>2, NoSlip
    <3>4. short[s] > 0 /\ UNCHANGED traderVars
      BY <1>3 DEF ExitFills
    <3>5. ~SeemsGone(s, k, v)
      BY <1>1, <2>3, <3>3, <3>4, Amounts DEF SeemsGone
    <3>6. (IF v > 0 THEN v ELSE k) = short[s]
      BY <3>3
    <3> QED BY <3>2, <3>3, <3>4, <3>5, <3>6 DEF BuyBack
  <2>5. short'[s] = 0 /\ work'[s].at = "cancel" /\ orders'[s] \subseteq orders[s]
        /\ UNCHANGED <<ledger, disk>>
    BY <1>0, <1>1, <2>4, Amounts DEF Do, Work, Swept, traderVars
  <2>6. /\ fills'[s][ledger[s].ep] = [Back(s) EXCEPT !.market = @ + short[s]]
        /\ \A ep \in Eps : ep # ledger[s].ep => fills'[s][ep] = fills[s][ep]
    BY <1>1, <2>1, <2>4, BackOK DEF Back, TInv, Sound, TypeOK, ExchOK
  <2>7. LegsSum(fills'[s][ledger[s].ep]) = LegsSum(Back(s)) + short[s]
    BY <1>1, <2>1, <2>6, BackOK, Amounts DEF LegsSum, Legs
  <2>8. short'[s] + LegsSum(fills'[s][ledger[s].ep]) <= ledger[s].qty
    BY <1>1, <2>1, <2>2, <2>5, <2>7, BackOK, Amounts
  <2>9. PastAt(s)'
    BY <1>0, <1>1, <2>1, <2>5, <2>6, Numbers DEF HeldAt, PastAt
  <2>10. ledger'[s] = ledger[s] /\ disk'.ledger[s] = ledger[s]
    BY <1>0, <2>5
  <2>11. Accounts(ledger[s], short[s], fills[s])' /\ Accounts(disk.ledger[s], short[s], fills[s])'
    BY <2>1, <2>5, <2>8, <2>10 DEF Accounts
  <2> QED BY <1>0, <2>1, <2>5, <2>9, <2>10, <2>11 DEF HeldAt
<1>4. CASE ExitExpires(s)
  <2>1. UNCHANGED <<traderVars, short, fills, lastSig, orders>> /\ work[s].at = "market"
        /\ short[s] = 0
    BY <1>0, <1>4 DEF ExitExpires, exchVars
  <2>2. work'[s].at \in {"force", "cancel"}
    BY <1>0, <1>4 DEF ExitExpires, Do, Work
  <2>3. ledger[s].status # "opening"
    BY <1>0, <2>1 DEF StagedAt
  <2> QED BY <1>0, <2>1, <2>2, <2>3, ThreadStep DEF HeldAt, PastAt
<1>5. CASE ExitFails(s)
  BY <1>1, <1>5, NoSlip DEF ExitFails
<1>6. CASE ForceCheck(s)
  <2>1. UNCHANGED <<traderVars, short, fills, lastSig, orders>> /\ work[s].at = "force"
    BY <1>0, <1>6 DEF ForceCheck, exchVars
  <2>2. \E n : Do(s, [work[s] EXCEPT !.at = "finalize", !.legs.stop = n])
    BY <1>1, <1>6 DEF ForceCheck
  <2>3. work'[s].at = "finalize"
    BY <1>0, <2>2 DEF Do, Work
  <2>4. ledger[s].status # "opening"
    BY <1>0, <2>1 DEF StagedAt
  <2> QED BY <1>0, <2>1, <2>3, <2>4, ThreadStep DEF HeldAt, PastAt
<1>7. CASE CheckStop(s)
  <2>1. ledger[s].status \in {"open", "closing"} /\ ledger[s].ep \in Eps
    BY <1>1, <1>7, LiveStatus, LiveEp, Names DEF CheckStop
  <2>2. UNCHANGED <<traderVars, short, fills, lastSig, orders>>
    BY <1>0, <1>7 DEF CheckStop, exchVars
  <2> DEFINE v == At("finalize", ledger[s].ep)
  <2>3. v \in Work /\ v.at = "finalize"
    BY <2>1, Values, Names
  <2>4. \/ (\E m : Do(s, [v EXCEPT !.legs.stop = m])) /\ Filled(s, "stop") > 0
        \/ work' = work /\ work[s].at = "idle"
    BY <1>7 DEF CheckStop, HeadIs
  <2> HIDE DEF v
  <2>5. \/ work'[s].at = "finalize" /\ short[s] = 0
        \/ work' = work /\ work[s].at = "idle"
    <3>1. Filled(s, "stop") > 0 => short[s] = 0
      BY <1>1, <2>1, BackOK DEF HeldAt
    <3> QED BY <1>0, <2>3, <2>4, <3>1 DEF Do, Work
  <2> QED BY <1>0, <2>1, <2>2, <2>5, ThreadStep DEF HeldAt, PastAt
<1>8. CASE CancelStop(s)
  <2>1. UNCHANGED <<traderVars, short, fills, lastSig>> /\ work[s].at = "cancel"
        /\ orders'[s] \subseteq orders[s]
    BY <1>0, <1>8 DEF CancelStop
  <2>2. work'[s].at = "finalize"
    BY <1>0, <1>8 DEF CancelStop, Do, Work
  <2>3. ledger[s].status # "opening"
    BY <1>0, <2>1 DEF StagedAt
  <2> QED BY <1>0, <2>1, <2>2, <2>3, ThreadStep DEF HeldAt, PastAt
<1> QED BY <1>2, <1>3, <1>4, <1>5, <1>6, <1>7, <1>8

\* Booking the trade.
LEMMA BookHeld ==
    ASSUME LedgerInv, NEW s \in Sym, HeldAt(s), Worker(s),
           Finalize(s) \/ StoreTrade(s) \/ HaltGuard(s)
    PROVE  HeldAt(s)'
<1>0. /\ proc = "up" /\ proc' = "up" /\ disk.ledger[s] = ledger[s]
      /\ lastSig' = lastSig /\ ledger[s].ep <= lastSig[s]
      /\ work[s] \in Work /\ StagedAt(s) /\ AlignedAt(s)
      /\ DOMAIN work = Sym /\ DOMAIN short = Sym /\ DOMAIN orders = Sym
  BY ThreadFacts
<1>1. TInv
  BY DEF LedgerInv
<1>2. CASE Finalize(s)
  <2>1. work[s].at = "finalize" /\ UNCHANGED <<short, orders, fills>>
    BY <1>2 DEF Finalize, exchVars
  <2>2. ledger'[s] = Flat /\ disk'.ledger[s] = Flat
    BY <1>1, <1>2, Put DEF Finalize, Book
  <2>3. work'[s].at = "store"
    BY <1>0, <1>2 DEF Finalize, Do, Work
  <2>4. short[s] = 0
    BY <2>1 DEF HeldAt
  <2> QED BY <1>0, <2>1, <2>2, <2>3, <2>4, Values DEF HeldAt, PastAt, Accounts
<1>3. CASE StoreTrade(s)
  <2>1. work[s].at = "store" /\ UNCHANGED <<traderVars, short, fills, lastSig, orders>>
    BY <1>0, <1>3 DEF StoreTrade, exchVars
  <2>2. work'[s].at \in {"halt", "idle"}
    BY <1>0, <1>3, Values DEF StoreTrade, Do, Work
  <2> QED BY <1>0, <2>1, <2>2, ThreadStep DEF HeldAt, PastAt
<1>4. CASE HaltGuard(s)
  <2>1. work[s].at = "halt" /\ UNCHANGED <<traderVars, short, fills, lastSig, orders>>
    BY <1>0, <1>4 DEF HaltGuard, exchVars
  <2>2. work'[s].at = "idle"
    BY <1>0, <1>4, Values DEF HaltGuard, Do
  <2> QED BY <1>0, <2>1, <2>2, ThreadStep DEF HeldAt, PastAt
<1> QED BY <1>2, <1>3, <1>4

\* The order thread keeps it.
LEMMA WorkerHeld ==
    ASSUME LedgerInv, NEW s \in Sym, HeldAt(s), faults' = 0, slips = 0, slips' = 0, Worker(s)
    PROVE  HeldAt(s)'
BY EntryHeld, MakerHeld, ExitHeld, BookHeld DEF Worker

\* The event loop, which only takes a signal when there is no position.
LEMMA LoopHeld ==
    ASSUME LedgerInv, NEW s \in Sym, HeldAt(s), Loop(s)
    PROVE  HeldAt(s)'
<1>0. /\ proc = "up" /\ proc' = "up" /\ UNCHANGED <<work, short, orders, fills>>
  BY DEF Loop, OnEntry, OnExit, Periodic, procVars, exchVars
<1>1. /\ TInv /\ disk.ledger[s] = ledger[s] /\ ledger[s] \in Pos /\ AlignedAt(s)
      /\ lastSig[s] \in Nat /\ short[s] \in Nat
  BY <1>0, Parts, Numbers, Amounts DEF LedgerInv, Durable, DurableAt
<1>2. CASE OnEntry(s)
  <2> DEFINE ep == lastSig[s] + 1
  <2>1. lastSig'[s] = ep /\ ep \in Eps
    BY <1>1, <1>2, Constants DEF OnEntry, TInv, Sound, TypeOK, LoopOK
  <2>2. PastAt(s)'
    <3>1. \A o \in orders[s] : o.ep \in Nat /\ o.ep <= lastSig[s]
      BY <1>1, Parts, Constants DEF HeldAt, PastAt, Order
    <3>2. \A x \in Eps : x \in Nat
      BY Constants
    <3> QED BY <1>0, <1>1, <2>1, <3>1, <3>2 DEF HeldAt, PastAt
  <2>3. CASE UNCHANGED traderVars
    BY <1>0, <2>2, <2>3 DEF HeldAt, Back, traderVars
  <2>4. CASE TakeSignal(s, ep)
    <3>1. ledger[s].status = "none" /\ work[s].at \notin {"filled", "stopped", "market"}
      BY <1>1, <2>4 DEF TakeSignal, CanEnter, AlignedAt
    <3>2. ledger'[s] = Opening(ep) /\ disk'.ledger[s] = Opening(ep)
      BY <1>1, <2>4, Put DEF TakeSignal
    <3>3. Opening(ep).ep = ep /\ Opening(ep).status = "opening" /\ Opening(ep).qty = Qty
      BY <2>1, Values DEF Opening, Flat
    <3>4. fills[s][ep] = NoLegs /\ LegsSum(NoLegs) = 0 /\ NoLegs.stop = 0
      BY <1>1, <2>1 DEF HeldAt, PastAt, NoLegs, LegsSum
    <3>5. short[s] = 0 /\ Qty \in Nat
      BY <3>1, Constants DEF HeldAt, Accounts
    <3> HIDE DEF ep
    <3> QED BY <1>0, <2>2, <3>1, <3>2, <3>3, <3>4, <3>5 DEF HeldAt, Back, Accounts
  <2> QED BY <1>2, <2>3, <2>4 DEF OnEntry
<1>3. CASE OnExit(s) \/ Periodic(s)
  <2>1. /\ ledger'[s].status = ledger[s].status /\ ledger'[s].ep = ledger[s].ep
        /\ ledger'[s].qty = ledger[s].qty /\ disk'.ledger[s] = ledger'[s] /\ lastSig' = lastSig
    <3>1. lastSig' = lastSig
      BY <1>3 DEF OnExit, Periodic, loopVars
    <3>2. /\ ledger'[s].status = ledger[s].status /\ ledger'[s].ep = ledger[s].ep
          /\ ledger'[s].qty = ledger[s].qty
      BY <1>1, <1>3 DEF OnExit, RequestExit, Periodic, PeriodicRetryExit, PeriodicSoftExit,
         PeriodicWatch, traderVars, TInv, Sound, TypeOK, TraderOK, Pos
    <3>3. disk'.ledger[s] = ledger'[s]
      <4>1. Save \/ UNCHANGED traderVars
        BY <1>3 DEF OnExit, RequestExit, Periodic, PeriodicRetryExit, PeriodicSoftExit,
           PeriodicWatch
      <4> QED BY <1>1, <4>1 DEF Save, traderVars
    <3> QED BY <3>1, <3>2, <3>3
  <2> QED BY <1>0, <1>1, <2>1 DEF HeldAt, PastAt, Back, Accounts
<1> QED BY <1>2, <1>3 DEF Loop

\* Fills added to a leg count in all.
LEMMA MoreFills ==
    ASSUME NEW l \in Legs, NEW k \in Nat, NEW leg \in {"maker", "market", "stop", "other"}
    PROVE  LET m == [l EXCEPT ![leg] = @ + k]
           IN  /\ m \in Legs /\ LegsSum(m) = LegsSum(l) + k /\ l.maker <= m.maker
               /\ leg # "stop" => m.stop = l.stop
<1> DEFINE m == [l EXCEPT ![leg] = @ + k]
<1>1. l.maker \in Nat /\ l.market \in Nat /\ l.stop \in Nat /\ l.other \in Nat
  BY DEF Legs
<1>2. /\ m.maker = IF leg = "maker" THEN l.maker + k ELSE l.maker
      /\ m.market = IF leg = "market" THEN l.market + k ELSE l.market
      /\ m.stop = IF leg = "stop" THEN l.stop + k ELSE l.stop
      /\ m.other = IF leg = "other" THEN l.other + k ELSE l.other
  BY DEF Legs
<1>3. m \in Legs
  BY <1>1 DEF Legs
<1> DEFINE a == l.maker
           b == l.market
           c == l.stop
           d == l.other
           a1 == m.maker
           b1 == m.market
           c1 == m.stop
           d1 == m.other
<1>4. LegsSum(l) = a + b + c + d /\ LegsSum(m) = a1 + b1 + c1 + d1
  BY DEF LegsSum
<1> HIDE DEF m, a, b, c, d, a1, b1, c1, d1
<1>5. /\ a \in Nat /\ b \in Nat /\ c \in Nat /\ d \in Nat
      /\ a1 = IF leg = "maker" THEN a + k ELSE a
      /\ b1 = IF leg = "market" THEN b + k ELSE b
      /\ c1 = IF leg = "stop" THEN c + k ELSE c
      /\ d1 = IF leg = "other" THEN d + k ELSE d
  BY <1>1, <1>2 DEF a, b, c, d, a1, b1, c1, d1
<1>6. LegsSum(m) = LegsSum(l) + k /\ a <= a1 /\ (leg # "stop" => c1 = c)
  BY <1>4, <1>5
<1> QED BY <1>3, <1>6 DEF m, a, a1, c, c1

\* An order that executes takes from the short what it adds to the fills of the position.
LEMMA ExecutesHeld ==
    ASSUME LedgerInv, NEW s \in Sym, HeldAt(s), NEW o \in orders[s], NEW k \in Nat,
           k <= short[s], o.leg = "stop" => k = short[s],
           NEW rest, \A r \in rest : r.ep = o.ep, Executes(s, o, k, rest),
           UNCHANGED <<traderVars, work, proc, lastSig>>
    PROVE  HeldAt(s)'
<1>0. /\ TInv /\ short[s] \in Nat /\ o.ep \in Eps /\ o.leg \in Leg /\ lastSig[s] \in Nat
      /\ ledger[s].ep <= lastSig[s] /\ o.ep <= lastSig[s] /\ fills[s] \in [Eps -> Legs]
      /\ \A ep \in Eps : ep \in Nat
  BY Amounts, Parts, Numbers, Constants
  DEF LedgerInv, Order, HeldAt, PastAt, Unbooked, UnbookedAt
<1>1. /\ short'[s] = short[s] - k /\ UNCHANGED <<ledger, disk, work, proc, lastSig>>
      /\ \A r \in orders'[s] : r.ep <= lastSig[s]
  <2>1. orders'[s] \subseteq orders[s] \cup rest
    BY <1>0 DEF Executes, Swept, TInv, Sound, TypeOK, ExchOK
  <2> QED BY <1>0, <2>1 DEF Executes, TInv, Sound, TypeOK, ExchOK, HeldAt, PastAt, traderVars
<1>2. CASE k = 0
  <2>1. fills'[s] = fills[s]
    <3>1. CASE ledger[s].ep \in {0, o.ep}
      <4> DEFINE l == fills[s][o.ep]
                 leg == o.leg
      <4>1. l \in Legs /\ leg \in {"maker", "stop"}
        BY <1>0 DEF Leg
      <4>2. fills' = [fills EXCEPT ![s][o.ep] = [l EXCEPT ![leg] = @ + 0]]
        BY <1>2, <3>1 DEF Executes, Added
      <4> HIDE DEF l, leg
      <4>3. [l EXCEPT ![leg] = @ + 0] = l
        BY <4>1 DEF Legs
      <4> QED BY <1>0, <4>2, <4>3 DEF l, TInv, Sound, TypeOK, ExchOK
    <3>2. CASE ledger[s].ep \notin {0, o.ep}
      <4> DEFINE l == fills[s][ledger[s].ep]
      <4>1. l \in Legs
        BY <1>0, <3>2, Parts, Constants DEF Pos
      <4>2. fills' = [fills EXCEPT ![s][ledger[s].ep] = [l EXCEPT !.other = @ + 0]]
        BY <1>2, <3>2 DEF Executes, Added
      <4> HIDE DEF l
      <4>3. [l EXCEPT !.other = @ + 0] = l
        BY <4>1 DEF Legs
      <4> QED BY <1>0, <4>2, <4>3 DEF l, TInv, Sound, TypeOK, ExchOK
    <3> QED BY <3>1, <3>2
  <2>2. short'[s] = short[s]
    BY <1>0, <1>1, <1>2
  <2> QED BY <1>1, <2>1, <2>2 DEF HeldAt, PastAt, Back, Accounts
<1>3. CASE k # 0
  <2>1. /\ short[s] > 0 /\ ledger[s].status # "none" /\ disk.ledger[s].status # "none"
        /\ disk.ledger[s].ep = ledger[s].ep /\ ledger[s].ep \in Eps
    BY <1>0, <1>3, Amounts DEF HeldAt, Accounts
  <2> DEFINE leg == IF ledger[s].ep = o.ep THEN o.leg ELSE "other"
             l == Back(s)
             m == [l EXCEPT ![leg] = @ + k]
  <2>2. fills' = [fills EXCEPT ![s][ledger[s].ep] = m]
    BY <1>0, <2>1, Constants DEF Executes, Added, Back
  <2>3. /\ leg \in {"maker", "stop", "other"} /\ l \in Legs
        /\ leg = "stop" => k = short[s]
    BY <1>0, <2>1 DEF Back, Leg
  <2> HIDE DEF leg, l
  <2>4. /\ m \in Legs /\ LegsSum(m) = LegsSum(l) + k /\ l.maker <= m.maker
        /\ leg # "stop" => m.stop = l.stop
    BY <2>3, MoreFills
  <2> HIDE DEF m
  <2>5. LegsSum(l) \in Nat /\ l.maker \in Nat /\ m.maker \in Nat /\ l.stop \in Nat
    BY <2>3, <2>4, Totals DEF Legs
  <2>6. /\ fills'[s][ledger[s].ep] = m
        /\ \A ep \in Eps : ep # ledger[s].ep => fills'[s][ep] = fills[s][ep]
    BY <1>0, <2>1, <2>2 DEF TInv, Sound, TypeOK, ExchOK
  <2>7. l.stop = 0 /\ short'[s] \in Nat /\ (m.stop > 0 => short'[s] = 0)
    <3>1. ~(l.stop > 0)
      BY <2>1 DEF HeldAt, l
    <3>2. l.stop = 0
      BY <2>5, <3>1
    <3>3. short'[s] \in Nat /\ (k = short[s] => short'[s] = 0)
      BY <1>0, <1>1
    <3> QED BY <2>3, <2>4, <3>2, <3>3
  <2>8. short'[s] + LegsSum(m) = short[s] + LegsSum(l)
    BY <1>0, <1>1, <2>4, <2>5
  <2>9. PastAt(s)'
    BY <1>0, <1>1, <2>6 DEF HeldAt, PastAt
  <2>10. Accounts(ledger[s], short[s], fills[s])' /\ Accounts(disk.ledger[s], short[s], fills[s])'
    BY <1>1, <2>1, <2>6, <2>8 DEF HeldAt, Accounts, Back, l
  <2>11. Back(s)' = m
    BY <1>1, <2>6 DEF Back
  <2>12. /\ work[s].at \in {"filled", "stopped"} => short'[s] + LegsSum(m) <= work[s].got
         /\ work[s].at = "market" => work[s].legs.maker <= m.maker
    BY <1>0, <2>4, <2>5, <2>8, Amounts DEF HeldAt, l
  <2> QED BY <1>0, <1>1, <1>3, <2>1, <2>7, <2>9, <2>10, <2>11, <2>12 DEF HeldAt
<1> QED BY <1>2, <1>3

\* The exchange and the clock keep it.
LEMMA OutsideHeld ==
    ASSUME LedgerInv, NEW s \in Sym, HeldAt(s), Exchange(s) \/ Tick(s)
    PROVE  HeldAt(s)'
<1>0. /\ TInv /\ short[s] \in Nat /\ \A o \in orders[s] : o.left \in Nat
      /\ UNCHANGED <<traderVars, work, proc, lastSig>>
  BY Amounts, Parts, Constants DEF LedgerInv, Order, Exchange, MakerFills, MakerExpires,
     StopFires, TradesShow, Tick, Outside, taskVars, procVars, loopVars
<1>1. CASE MakerFills(s)
  <2>1. PICK o \in orders[s] :
          /\ o.leg = "maker"
          /\ \E k \in 1..Lesser(o.left, short[s]) :
                Executes(s, o, k, IF k = o.left THEN {} ELSE {[o EXCEPT !.left = @ - k]})
    BY <1>1 DEF MakerFills
  <2>2. PICK k \in 1..Lesser(o.left, short[s]) :
            Executes(s, o, k, IF k = o.left THEN {} ELSE {[o EXCEPT !.left = @ - k]})
    BY <2>1
  <2>3. k \in Nat /\ k <= short[s]
    BY <1>0 DEF Lesser
  <2> DEFINE rest == IF k = o.left THEN {} ELSE {[o EXCEPT !.left = @ - k]}
  <2>4. \A r \in rest : r.ep = o.ep
    BY <1>0, Parts DEF Order
  <2> HIDE DEF rest
  <2>5. Executes(s, o, k, rest)
    BY <2>2 DEF rest
  <2> QED BY <1>0, <2>1, <2>3, <2>4, <2>5, ExecutesHeld
<1>2. CASE MakerExpires(s)
  BY <1>0, <1>2 DEF MakerExpires, HeldAt, PastAt, Back, Accounts, traderVars, TInv, Sound, TypeOK, ExchOK
<1>3. CASE StopFires(s)
  <2>1. PICK o \in orders[s] : o.leg = "stop" /\ Executes(s, o, short[s], {})
    BY <1>3 DEF StopFires
  <2> QED BY <1>0, <2>1, ExecutesHeld
<1>4. CASE Tick(s)
  BY <1>0, <1>4 DEF Tick, exchVars, HeldAt, PastAt, Back, Accounts, traderVars
<1>5. CASE TradesShow(s)
  BY <1>0, <1>5 DEF TradesShow, HeldAt, PastAt, Back, Accounts, traderVars
<1> QED BY <1>1, <1>2, <1>3, <1>4, <1>5 DEF Exchange

\* So does recover, which only keeps a position the exchange holds.
LEMMA RecoverHeld ==
    ASSUME LedgerInv, NEW s \in Sym, HeldAt(s), Recover(s)
    PROVE  HeldAt(s)'
<1>0. /\ TInv /\ proc = "recovering" /\ proc' # "up" /\ work' = work /\ work[s].at = "idle"
      /\ disk.ledger[s] = ledger[s] /\ UNCHANGED <<short, fills, lastSig>> /\ ledger[s] \in Pos
  <2>1. /\ proc = "recovering" /\ proc' # "up" /\ work' = work /\ s \in toRecover
        /\ UNCHANGED <<short, fills, lastSig>>
    BY DEF Recover, Recovering, RecoverRefused, RecoverFlat, RecoverOpen, RecoverClosed,
       taskVars, exchVars, loopVars
  <2>2. TInv /\ disk.ledger[s] = ledger[s]
    BY <2>1 DEF LedgerInv, Durable, DurableAt
  <2> QED BY <2>1, <2>2, DownIdle, Parts
<1>1. orders'[s] \subseteq orders[s]
  BY <1>0 DEF Recover, RecoverRefused, RecoverFlat, RecoverOpen, RecoverClosed, CleanUp, exchVars,
     TInv, Sound, TypeOK, ExchOK
<1>2. PastAt(s)'
  BY <1>0, <1>1 DEF HeldAt, PastAt
<1>3. CASE RecoverRefused(s)
  BY <1>0, <1>2, <1>3 DEF RecoverRefused, traderVars, HeldAt, Back, Accounts
<1>4. CASE RecoverFlat(s)
  <2>1. ledger'[s] = Flat /\ disk' = disk /\ short[s] = 0
    BY <1>0, <1>4 DEF RecoverFlat, TInv, Sound, TypeOK, TraderOK
  <2> QED BY <1>0, <1>2, <2>1, Values DEF HeldAt, Accounts
<1>5. CASE RecoverOpen(s)
  <2> DEFINE p == [ledger[s] EXCEPT !.status = "open", !.source = "recovered", !.exitReq = FALSE]
  <2>1. p.ep = ledger[s].ep /\ p.qty = ledger[s].qty /\ p.status = "open"
    BY <1>0, Names DEF Pos
  <2>2. ledger'[s] = p /\ disk' = disk /\ ledger[s].status # "none"
    BY <1>0, <1>5 DEF RecoverOpen, TInv, Sound, TypeOK, TraderOK
  <2> HIDE DEF p
  <2> QED BY <1>0, <1>2, <2>1, <2>2 DEF HeldAt, Back, Accounts
<1>6. CASE RecoverClosed(s)
  <2>1. ledger'[s] = Flat /\ disk'.ledger[s] = Flat /\ short[s] = 0
    BY <1>0, <1>6, Put DEF RecoverClosed, Book
  <2> QED BY <1>0, <1>2, <2>1, Values DEF HeldAt, Accounts
<1> QED BY <1>3, <1>4, <1>5, <1>6 DEF Recover

\* The steps of the whole process: a crash falls back to a position that accounts
\* for the short, for state.json does.
LEMMA ProcessHeld ==
    ASSUME LedgerInv, NEW s \in Sym, HeldAt(s),
           ConsumeResume \/ Crash \/ Start \/ RecoverDone \/ UNCHANGED vars
    PROVE  HeldAt(s)'
<1>0. /\ TInv /\ UNCHANGED <<short, orders, fills, lastSig>> /\ ledger[s] \in Pos
      /\ disk.ledger[s] \in Pos
  BY Parts DEF LedgerInv, ConsumeResume, Crash, Start, RecoverDone, vars, exchVars, loopVars
<1>1. PastAt(s)'
  BY <1>0 DEF HeldAt, PastAt
<1>2. CASE ConsumeResume
  <2>1. /\ ledger' = ledger /\ disk'.ledger = ledger /\ work' = work /\ proc' = proc
    BY <1>2 DEF ConsumeResume, Save, taskVars, procVars
  <2> QED BY <1>0, <1>1, <2>1 DEF HeldAt, Back, Accounts
<1>3. CASE Crash
  <2>1. ledger'[s] = disk.ledger[s] /\ disk' = disk /\ work'[s].at = "idle" /\ proc' # "up"
    BY <1>3, Values DEF Crash
  <2>2. Accounts(ledger[s], short[s], fills[s])' /\ Accounts(disk.ledger[s], short[s], fills[s])'
    BY <1>0, <2>1 DEF HeldAt, Accounts
  <2>3. disk.ledger[s].status # "none" /\ Back(s)'.stop > 0 => short[s] = 0
    <3>1. short[s] \in Nat
      BY <1>0, Amounts
    <3>2. CASE short[s] > 0
      <4>1. disk.ledger[s].ep = ledger[s].ep /\ ledger[s].status # "none"
        BY <1>0, <3>2, Amounts DEF HeldAt, Accounts
      <4>2. Back(s)' = Back(s)
        BY <1>0, <2>1, <4>1 DEF Back
      <4> QED BY <4>1, <4>2 DEF HeldAt
    <3> QED BY <3>1, <3>2
  <2> QED BY <1>0, <1>1, <2>1, <2>2, <2>3 DEF HeldAt
<1>4. CASE Start
  BY <1>0, <1>1, <1>4 DEF Start, traderVars, taskVars, HeldAt, Back, Accounts
<1>5. CASE RecoverDone
  <2>1. /\ ledger' = ledger /\ disk'.ledger = ledger /\ work' = work
        /\ ledger[s].status \in {"none", "open"}
    BY <1>5 DEF RecoverDone, Save, taskVars, LedgerInv, Durable, DurableAt
  <2>2. work[s].at = "idle"
    BY <1>0, <1>5, DownIdle DEF RecoverDone
  <2> QED BY <1>0, <1>1, <2>1, <2>2 DEF HeldAt, Back, Accounts
<1>6. CASE UNCHANGED vars
  BY <1>0, <1>1, <1>6 DEF vars, traderVars, taskVars, procVars, HeldAt, Back, Accounts
<1> QED BY <1>2, <1>3, <1>4, <1>5, <1>6

\* Every step keeps it.
LEMMA NextHeld == ASSUME LedgerInv, Held, [Next]_vars PROVE Held'
<1> SUFFICES ASSUME faults' = 0, slips' = 0, NEW t \in Sym PROVE HeldAt(t)'
  BY DEF Held
<1>1. slips = 0 /\ \A u \in Sym : HeldAt(u)
  BY NoFault, NextSeen DEF Held, LedgerInv
<1>2. ASSUME NEW s \in Sym, Loop(s) \/ Worker(s) \/ Exchange(s) \/ Tick(s) \/ Recover(s)
      PROVE  HeldAt(t)'
  <2>1. CASE t # s
    BY <1>1, <1>2, <2>1, HeldElsewhere
  <2>2. CASE t = s
    BY <1>1, <1>2, <2>2, LoopHeld, WorkerHeld, OutsideHeld, RecoverHeld
  <2> QED BY <2>1, <2>2
<1>3. CASE ConsumeResume \/ Crash \/ Start \/ RecoverDone \/ UNCHANGED vars
  BY <1>1, <1>3, ProcessHeld
<1> QED BY <1>2, <1>3 DEF Next

\* Nothing is held at the start.
LEMMA InitHeld == Init => Held
<1> SUFFICES ASSUME Init, NEW s \in Sym PROVE HeldAt(s)
  BY DEF Held
<1>1. /\ ledger[s] = Flat /\ disk.ledger[s] = Flat /\ work[s].at = "idle" /\ short[s] = 0
      /\ orders[s] = {} /\ \A ep \in Eps : fills[s][ep] = NoLegs
  BY Values DEF Init
<1> QED BY <1>1, Values DEF HeldAt, PastAt, Accounts

\* As long as no answer was lost, no trade was seen late and no exit was filled in
\* part, whatever the exchange holds is in the ledger and in state.json at every
\* moment, through every crash and recovery.
THEOREM ManagedHolds == Spec => []Managed
<1>1. Init => Held
  BY InitHeld
<1>2. LedgerInv /\ Held /\ [Next]_vars => Held'
  BY NextHeld
<1>3. LedgerInv /\ Held => Managed
  BY Amounts DEF LedgerInv, Held, HeldAt, Accounts, Managed
<1> QED BY <1>1, <1>2, <1>3, LedgerInvHolds, PTL DEF Spec

-----------------------------------------------------------------------------
(* While nothing fails: the emergency stops.                               *)

\* Nothing has failed yet.
Calm == faults = 0 /\ crashes = 0

\* The stop of an open position stands on the exchange until the short is gone, or
\* the order thread takes it to be.
StopStandsAt(s) ==
    (ledger[s].status \in {"open", "closing"} /\ work[s].at # "finalize")
            \/ work[s].at = "stopped"
        => short[s] = 0 \/ StopOrder(ledger[s].ep) \in orders[s]
StopStands == Calm => proc = "up" /\ \A s \in Sym : StopStandsAt(s)

\* Nothing had failed if nothing has failed after the step, and a process that is up
\* stays up.
LEMMA StayCalm ==
    ASSUME TInv, [Next]_vars, Calm'
    PROVE  Calm /\ (proc = "up" => proc' = "up")
<1>1. faults = 0
  BY NoFault DEF Calm
<1>2. crashes \in Nat
  BY DEF TInv, Sound, TypeOK, ProcOK
<1> USE DEF procVars
<1>3. ASSUME NEW s \in Sym, Loop(s) \/ Exchange(s) \/ Tick(s) \/ Worker(s)
      PROVE  crashes' = crashes /\ proc' = proc
  <2>1. CASE Loop(s) \/ Exchange(s) \/ Tick(s)
    BY <2>1 DEF Loop, OnEntry, OnExit, Periodic, Exchange, MakerFills, MakerExpires, StopFires,
       TradesShow, Tick, Outside
  <2>2. CASE Worker(s)
    BY <2>2 DEF Worker, DropTask, EntryAsks, EntryRefused, EntryFills, EntryLost, PlaceStop, EntryDone,
       PlaceMaker, MakerSet, PollMaker, ExitStart, CloseMaker, ExitFills, ExitExpires,
       ExitFails, ForceCheck, CheckStop, CancelStop, Finalize, StoreTrade, HaltGuard, OutsideTasks
  <2> QED BY <1>3, <2>1, <2>2
<1>4. ASSUME NEW s \in Sym, Recover(s) PROVE crashes' = crashes /\ proc # "up"
  BY <1>4 DEF Recover, Recovering, RecoverRefused, RecoverFlat, RecoverOpen, RecoverClosed
<1>5. CASE ConsumeResume \/ Crash \/ Start \/ RecoverDone \/ UNCHANGED vars
  BY <1>2, <1>5 DEF ConsumeResume, Crash, Start, RecoverDone, vars, Calm
<1> QED BY <1>1, <1>3, <1>4, <1>5 DEF Next, Calm

\* A stop is not a maker exit.
LEMMA StopOrders == \A ep \in Eps : StopOrder(ep).leg = "stop" /\ StopOrder(ep).ep = ep
BY DEF StopOrder

\* What the order thread does about an entry that opens leaves it opening.
LEMMA EntryFilled ==
    ASSUME LedgerInv, NEW s \in Sym, EntryFills(s)
    PROVE  /\ ledger[s].status = "opening" /\ work'[s].at \in {"filled", "lost"}
           /\ UNCHANGED <<ledger, orders, fills, shown, guardHalted, lastSig>>
<1>0. work[s] \in Work /\ StagedAt(s) /\ DOMAIN work = Sym
  BY ThreadFacts DEF Worker
<1>1. ledger[s].status = "opening" /\ UNCHANGED <<ledger, orders, fills, shown, guardHalted, lastSig>>
  BY <1>0 DEF EntryFills, StagedAt, traderVars, OutsideTasks, loopVars
<1>2. \/ \E got : Do(s, [work[s] EXCEPT !.at = "filled", !.got = got])
      \/ Do(s, [work[s] EXCEPT !.at = "lost"])
  <2>1. PICK got \in 1..Qty : \E seen \in 0..got :
          \/ Do(s, [work[s] EXCEPT !.at = "filled", !.got = EntryQty(got, seen)])
          \/ Do(s, [work[s] EXCEPT !.at = "lost"])
    BY DEF EntryFills
  <2> QED BY <2>1
<1>3. work'[s].at \in {"filled", "lost"}
  BY <1>0, <1>2 DEF Do, Work
<1> QED BY <1>1, <1>3

\* The order thread keeps the stop until it takes the short to be gone.
LEMMA WorkerStands ==
    ASSUME LedgerInv, NEW s \in Sym, Worker(s), Calm, Calm', StopStandsAt(s)
    PROVE  StopStandsAt(s)'
<1>0. /\ proc = "up" /\ work[s] \in Work /\ StagedAt(s) /\ AlignedAt(s)
      /\ DOMAIN work = Sym /\ DOMAIN short = Sym /\ DOMAIN orders = Sym
  BY ThreadFacts
<1>1. /\ TInv /\ ~Fails /\ DOMAIN ledger = Sym /\ ledger[s] \in Pos
  BY Parts DEF LedgerInv, Fails, TInv, Sound, TypeOK, ProcOK, TraderOK, Calm
<1>2. CASE DropTask(s) \/ EntryAsks(s)
  <2>1. UNCHANGED <<ledger, short, orders>> /\ work[s].at \in {"idle", "asked"}
    BY <1>2 DEF DropTask, EntryAsks, traderVars, exchVars, HeadIs
  <2>2. work'[s].at # "stopped"
    <3>1. EntryAsks(s) => At("asked", ledger[s].ep).at = "asked"
      BY <1>1, LiveEp, Values, Names DEF EntryAsks
    <3> QED BY <1>0, <1>2, <2>1, <3>1 DEF DropTask, EntryAsks, Do
  <2> QED BY <2>1, <2>2 DEF StopStandsAt
<1>11. CASE EntryRefused(s) \/ EntryLost(s)
  <2>1. ledger'[s].status = "none" /\ work'[s].at # "stopped"
    BY <1>0, <1>1, <1>11, Values DEF EntryRefused, EntryLost, Discard, HeadIs, Do
  <2> QED BY <2>1 DEF StopStandsAt
<1>3. CASE EntryFills(s)
  BY <1>3, EntryFilled DEF StopStandsAt
<1>4. CASE PlaceStop(s)
  <2>1. orders' = [orders EXCEPT ![s] = @ \cup {StopOrder(work[s].ep)}]
    BY <1>1, <1>4 DEF PlaceStop
  <2>2. ledger' = ledger /\ ledger[s].ep = work[s].ep
    BY <1>0, <1>4 DEF PlaceStop, traderVars, AlignedAt
  <2> QED BY <1>0, <2>1, <2>2 DEF StopStandsAt
<1>5. CASE EntryDone(s) \/ MakerSet(s) \/ ExitStart(s)
  <2>1. ledger'[s].ep = ledger[s].ep /\ UNCHANGED <<short, orders>>
    BY <1>1, <1>5 DEF EntryDone, MakerSet, ExitStart, SetStatus, exchVars, Pos
  <2>2. \/ work[s].at = "stopped"
        \/ ledger[s].status \in {"open", "closing"} /\ work[s].at # "finalize"
    <3>1. ExitStart(s) => ledger[s].status = "open" /\ work[s].at = "idle"
      BY <1>1, LiveStatus, Names DEF ExitStart, HeadIs
    <3> QED BY <1>0, <1>5, <3>1 DEF EntryDone, MakerSet, StagedAt
  <2> QED BY <2>1, <2>2 DEF StopStandsAt
<1>6. CASE PlaceMaker(s) \/ PollMaker(s) \/ CloseMaker(s) \/ ExitExpires(s)
           \/ ForceCheck(s) \/ CheckStop(s) \/ StoreTrade(s) \/ HaltGuard(s)
  <2>1. UNCHANGED <<ledger, short>>
    BY <1>6 DEF PlaceMaker, PollMaker, CloseMaker, ExitExpires, ForceCheck, CheckStop,
       StoreTrade, HaltGuard, traderVars, exchVars
  <2>2. \A o \in orders[s] : o.leg = "stop" => o \in orders'[s]
    BY <1>0, <1>6 DEF PlaceMaker, PollMaker, CloseMaker, ExitExpires, ForceCheck, CheckStop,
       StoreTrade, HaltGuard, exchVars, OrdersOf
  <2>3. work'[s].at # "stopped"
    <3>1. CASE PlaceMaker(s) \/ PollMaker(s)
      <4>1. ledger[s].ep \in Eps /\ work[s].at = "idle"
        BY <1>1, <3>1, LiveEp, Names DEF PlaceMaker, PollMaker
      <4> DEFINE v == At("cancel", ledger[s].ep)
                 u == At("makerset", ledger[s].ep)
      <4>2. v \in Work /\ v.at = "cancel" /\ u.at = "makerset"
        BY <4>1, Values, Names
      <4>3. work' = work \/ Do(s, u) \/ \E m : Do(s, [v EXCEPT !.legs.maker = m])
        BY <3>1 DEF PlaceMaker, PollMaker
      <4> HIDE DEF v, u
      <4> QED BY <1>0, <4>1, <4>2, <4>3 DEF Do, Work
    <3>2. CASE CheckStop(s)
      <4>1. ledger[s].ep \in Eps /\ work[s].at = "idle"
        BY <1>1, <3>2, LiveEp, Names DEF CheckStop
      <4> DEFINE v == At("finalize", ledger[s].ep)
      <4>2. v \in Work /\ v.at = "finalize"
        BY <4>1, Values, Names
      <4>3. work' = work \/ \E m : Do(s, [v EXCEPT !.legs.stop = m])
        BY <3>2 DEF CheckStop
      <4> HIDE DEF v
      <4> QED BY <1>0, <4>1, <4>2, <4>3 DEF Do, Work
    <3>3. CASE CloseMaker(s) \/ ForceCheck(s)
      <4>1. \/ \E at \in {"cancel", "market"} : \E m :
                  Do(s, [work[s] EXCEPT !.at = at, !.legs.maker = m])
            \/ \E m : Do(s, [work[s] EXCEPT !.at = "finalize", !.legs.stop = m])
        BY <1>1, <3>3 DEF CloseMaker, ForceCheck
      <4> QED BY <1>0, <4>1 DEF Do, Work
    <3>4. CASE ExitExpires(s) \/ StoreTrade(s) \/ HaltGuard(s)
      BY <1>0, <3>4, Values DEF ExitExpires, StoreTrade, HaltGuard, Do, Work
    <3> QED BY <1>6, <3>1, <3>2, <3>3, <3>4
  <2>4. (ledger[s].status # "none" => ledger[s].ep \in Eps) /\ work[s].at # "finalize"
    BY <1>0, <1>6 DEF AlignedAt, PlaceMaker, PollMaker, CloseMaker, ExitExpires, ForceCheck,
       CheckStop, StoreTrade, HaltGuard, HeadIs
  <2> QED BY <2>1, <2>2, <2>3, <2>4, StopOrders DEF StopStandsAt
<1>7. CASE ExitFills(s) \/ ExitFails(s)
  <2>1. /\ work[s].at = "market" /\ ledger[s].ep \in Eps
        /\ ledger[s].status \in {"open", "closing"} /\ ledger'[s].ep = ledger[s].ep
    BY <1>0, <1>1, <1>7 DEF ExitFills, ExitFails, SetStatus, AlignedAt, traderVars, StagedAt, Pos
  <2>2. \A o \in orders[s] : o.leg = "stop" => o \in orders'[s]
    BY <1>0, <1>7 DEF ExitFills, ExitFails, BuyBack, Swept
  <2>3. short[s] = 0 => short'[s] = 0
    <3>1. PICK k \in 0..ExitRest(s) : short' = [short EXCEPT ![s] = @ - k]
      BY <1>7 DEF ExitFills, ExitFails, BuyBack
    <3>2. k \in Nat /\ k <= short[s] /\ short[s] \in Nat
      BY <1>1, <2>1, <3>1, ExitRestOK, Amounts
    <3> QED BY <1>0, <3>1, <3>2
  <2> QED BY <2>1, <2>2, <2>3, StopOrders DEF StopStandsAt
<1>8. CASE CancelStop(s)
  <2>1. work'[s].at = "finalize"
    BY <1>0, <1>8 DEF CancelStop, Do, Work
  <2> QED BY <2>1 DEF StopStandsAt
<1>9. CASE Finalize(s)
  <2>1. ledger'[s].status = "none" /\ work'[s].at = "store"
    BY <1>0, <1>1, <1>9, Values DEF Finalize, Book, Do, Work
  <2> QED BY <2>1 DEF StopStandsAt
<1> QED BY <1>2, <1>3, <1>4, <1>5, <1>6, <1>7, <1>8, <1>9, <1>11 DEF Worker

\* The loop asks for a position only when there is none, and keeps the one there is.
LEMMA LoopKeeps ==
    ASSUME TInv, NEW s \in Sym, Loop(s)
    PROVE  /\ UNCHANGED <<work, short, orders, fills, shown, booked, guardHalted>>
           /\ lastSig'[s] \in {lastSig[s], lastSig[s] + 1}
           /\ \/ /\ ledger'[s].status = ledger[s].status /\ ledger'[s].ep = ledger[s].ep
                 /\ ledger'[s].qty = ledger[s].qty /\ ledger'[s].stop = ledger[s].stop
                 /\ ledger'[s].maker = ledger[s].maker
              \/ /\ ledger[s].status = "none" /\ ~guardHalted[s]
                 /\ lastSig[s] + 1 \in Eps /\ ledger'[s] = Opening(lastSig[s] + 1)
                 /\ lastSig'[s] = lastSig[s] + 1
<1>1. UNCHANGED <<work, short, orders, fills, shown, booked, guardHalted>>
  BY DEF Loop, OnEntry, OnExit, Periodic, exchVars, bookVars
<1>2. DOMAIN ledger = Sym /\ ledger[s] \in Pos
  BY Parts DEF TInv, Sound, TypeOK, TraderOK
<1>3. CASE OnEntry(s)
  <2>1. lastSig[s] + 1 \in Eps /\ lastSig'[s] = lastSig[s] + 1
    BY <1>3, Constants DEF OnEntry, TInv, Sound, TypeOK, LoopOK
  <2> QED BY <1>1, <1>2, <1>3, <2>1 DEF OnEntry, TakeSignal, CanEnter, traderVars
<1>4. CASE OnExit(s) \/ Periodic(s)
  BY <1>1, <1>2, <1>4 DEF OnExit, RequestExit, Periodic, PeriodicRetryExit, PeriodicSoftExit,
     PeriodicWatch, traderVars, loopVars, Pos
<1> QED BY <1>3, <1>4 DEF Loop

\* So do the loop, the exchange and the clock: an order that fills is not the stop, or
\* buys back all of the short.
LEMMA OutsideStands ==
    ASSUME LedgerInv, NEW s \in Sym, Loop(s) \/ Exchange(s) \/ Tick(s), StopStandsAt(s)
    PROVE  StopStandsAt(s)'
<1>0. /\ TInv /\ AlignedAt(s) /\ StagedAt(s) /\ short[s] \in Nat
      /\ DOMAIN short = Sym /\ DOMAIN orders = Sym
      /\ \A o \in orders[s] : o \in Order /\ o.left \in Nat
  BY Parts, Amounts, Constants
  DEF LedgerInv, Staged, TInv, Sound, TypeOK, ExchOK, Order
<1>1. CASE Loop(s)
  <2>1. \A ep \in Eps : Opening(ep).status = "opening"
    BY Values DEF Opening, Flat
  <2> QED BY <1>0, <1>1, <2>1, LoopKeeps DEF StopStandsAt, StagedAt
<1>2. CASE MakerFills(s)
  <2>1. PICK o \in orders[s] :
          /\ o.leg = "maker"
          /\ \E k \in 1..Lesser(o.left, short[s]) :
                Executes(s, o, k, IF k = o.left THEN {} ELSE {[o EXCEPT !.left = @ - k]})
    BY <1>2 DEF MakerFills
  <2>2. short[s] # 0
    BY <1>0, <2>1 DEF Lesser
  <2>3. \A x \in orders[s] : x.leg = "stop" => x \in orders'[s]
    BY <1>0, <2>1 DEF Executes, Swept
  <2>4. ledger' = ledger /\ work' = work
    BY <1>2 DEF MakerFills, Outside, traderVars, taskVars
  <2> QED BY <1>0, <2>2, <2>3, <2>4, StopOrders DEF StopStandsAt, AlignedAt
<1>3. CASE MakerExpires(s) \/ TradesShow(s)
  BY <1>0, <1>3 DEF MakerExpires, TradesShow, StopStandsAt, Outside, traderVars, taskVars
<1>4. CASE StopFires(s)
  <2>1. short' = [short EXCEPT ![s] = @ - short[s]]
    BY <1>4 DEF StopFires, Executes
  <2>2. short'[s] = 0
    BY <1>0, <2>1
  <2> QED BY <2>2 DEF StopStandsAt
<1>5. CASE Tick(s)
  BY <1>5 DEF Tick, StopStandsAt, Outside, traderVars, taskVars, exchVars
<1> QED BY <1>1, <1>2, <1>3, <1>4, <1>5 DEF Exchange

\* Every step keeps it: without a crash there is no recovery.
LEMMA NextStands == ASSUME LedgerInv, StopStands, [Next]_vars PROVE StopStands'
<1> SUFFICES ASSUME Calm' PROVE proc' = "up" /\ \A t \in Sym : StopStandsAt(t)'
  BY DEF StopStands
<1>1. TInv /\ Calm /\ proc = "up" /\ proc' = "up" /\ \A u \in Sym : StopStandsAt(u)
  BY StayCalm DEF LedgerInv, StopStands
<1> SUFFICES ASSUME NEW t \in Sym PROVE StopStandsAt(t)'
  BY <1>1
<1>2. ASSUME NEW s \in Sym, Loop(s) \/ Worker(s) \/ Exchange(s) \/ Tick(s) \/ Recover(s)
      PROVE  StopStandsAt(t)'
  <2>1. ~Recover(s)
    BY <1>1 DEF Recover, Recovering, RecoverRefused, RecoverFlat, RecoverOpen, RecoverClosed
  <2>2. CASE t # s
    <3>1. UNCHANGED Local(t)
      BY <1>1, <1>2, <2>2, Elsewhere
    <3> QED BY <1>1, <3>1 DEF Local, StopStandsAt
  <2>3. CASE t = s
    BY <1>1, <1>2, <2>1, <2>3, WorkerStands, OutsideStands
  <2> QED BY <2>2, <2>3
<1>3. CASE ConsumeResume \/ UNCHANGED vars
  BY <1>1, <1>3 DEF ConsumeResume, vars, traderVars, taskVars, exchVars, StopStandsAt
<1>4. CASE Crash \/ Start \/ RecoverDone
  BY <1>1, <1>4 DEF Crash, Start, RecoverDone, Calm, TInv, Sound, TypeOK, ProcOK
<1> QED BY <1>2, <1>3, <1>4 DEF Next

\* Without lost answers and crashes, an open position that the exchange still holds
\* has its emergency stop there, all the way through the exit, however late trades
\* are seen and however little an exit fills.
THEOREM ProtectedHolds == Spec => []Protected
<1>1. Init => StopStands
  BY Values DEF Init, StopStands, StopStandsAt
<1>2. LedgerInv /\ StopStands /\ [Next]_vars => StopStands'
  BY NextStands
<1>3. LedgerInv /\ StopStands => Protected
  <2> SUFFICES ASSUME LedgerInv, StopStands, Calm, NEW s \in Sym, short[s] > 0,
                      ledger[s].status \in {"open", "closing"}, work[s].at # "finalize"
               PROVE  OrdersOf(s, "stop", ledger[s].ep) # {}
    BY DEF Protected, Calm
  <2>1. StopOrder(ledger[s].ep) \in orders[s]
    BY DEF StopStands, StopStandsAt
  <2> QED BY <2>1 DEF OrdersOf, StopOrder
<1> QED BY <1>1, <1>2, <1>3, LedgerInvHolds, PTL DEF Spec

-----------------------------------------------------------------------------
(* While nothing fails: whose the emergency stops are.                     *)

\* No fill of the emergency stop of a signal is counted.
Unused(s, ep) == fills[s][ep].stop = 0 /\ shown[s][ep].stop = 0

\* The emergency stops are those of the position in the ledger, or of one that was
\* booked blind; an entry that is on its way has none yet, and a stop that is there has
\* not been filled.
OwnStops(s) ==
    /\ \A o \in StopsOf(s) : /\ o = StopOrder(o.ep) /\ o.ep <= lastSig[s]
                             /\ o.ep = ledger[s].ep \/ guardHalted[s] \/ BookedBlind(s)
    /\ ledger[s].status = "opening" /\ work[s].at # "stopped" =>
          Unused(s, ledger[s].ep) /\ StopOrder(ledger[s].ep) \notin orders[s]
    /\ ledger[s].status # "none" /\ StopOrder(ledger[s].ep) \in orders[s] =>
          Unused(s, ledger[s].ep)
    /\ \A ep \in Eps : ep > lastSig[s] => Unused(s, ep)
    /\ ledger[s].status \in {"open", "closing"} => ledger[s].stop

\* The order thread sees no fill of a position whose stop it leaves there.
BlindLegs(s) ==
    /\ work[s].at = "stopped" => work[s].set
    /\ work[s].at \in {"maker", "force"} => work[s].legs = NoLegs
    /\ work[s].at = "market" => work[s].legs = [NoLegs EXCEPT !.maker = work[s].legs.maker]
    /\ work[s].at = "finalize" /\ StopOrder(ledger[s].ep) \in orders[s] => work[s].legs = NoLegs

Unaided == Calm /\ resumes = 0
Tended == Unaided => \A s \in Sym : OwnStops(s) /\ BlindLegs(s)

\* A step that puts no stop there and counts no fill of one.
LEMMA StopFrame ==
    ASSUME TInv, NEW s \in Sym, OwnStops(s),
           ledger'[s].ep = ledger[s].ep, ledger'[s].stop = ledger[s].stop,
           \/ ledger'[s].status = ledger[s].status
           \/ {ledger'[s].status, ledger[s].status} \subseteq {"open", "closing"},
           \A o \in orders'[s] : o.leg = "stop" => o \in orders[s],
           \A ep \in Eps : /\ fills'[s][ep].stop = fills[s][ep].stop
                           /\ shown'[s][ep].stop = shown[s][ep].stop,
           guardHalted'[s] = guardHalted[s], lastSig'[s] \in {lastSig[s], lastSig[s] + 1},
           BookedBlind(s) => BookedBlind(s)',
           ledger[s].status = "opening" => (work'[s].at = "stopped" <=> work[s].at = "stopped")
    PROVE  OwnStops(s)'
<1>1. /\ lastSig[s] \in Nat /\ \A ep \in Eps : ep \in Nat
      /\ ledger[s].status # "none" => ledger[s].ep \in Eps
      /\ \A o \in orders[s] : o.ep \in Eps
  BY Parts, Numbers, Constants DEF AlignedAt, Order
<1>2. \A ep \in Eps : Unused(s, ep)' <=> Unused(s, ep)
  BY DEF Unused
<1>3. \A o \in StopsOf(s)' : o \in StopsOf(s)
  BY DEF StopsOf
<1>4. \A ep : StopOrder(ep) \in orders'[s] => StopOrder(ep) \in orders[s]
  BY DEF StopOrder
<1>5. \A ep \in Eps : ep > lastSig'[s] => ep > lastSig[s]
  BY <1>1
<1>6. \A o \in StopsOf(s) : o.ep <= lastSig[s] => o.ep <= lastSig'[s]
  BY <1>1 DEF StopsOf
<1>7. \A o \in StopsOf(s)' : /\ o = StopOrder(o.ep) /\ o.ep <= lastSig'[s]
                             /\ o.ep = ledger'[s].ep \/ guardHalted'[s] \/ BookedBlind(s)'
  BY <1>3, <1>6 DEF OwnStops
<1>8. ledger'[s].status = "opening" /\ work'[s].at # "stopped" =>
          Unused(s, ledger[s].ep)' /\ StopOrder(ledger[s].ep) \notin orders'[s]
  BY <1>1, <1>2, <1>4 DEF OwnStops
<1>9. ledger'[s].status # "none" /\ StopOrder(ledger[s].ep) \in orders'[s] =>
          Unused(s, ledger[s].ep)'
  BY <1>1, <1>2, <1>4 DEF OwnStops
<1>10. \A ep \in Eps : ep > lastSig'[s] => Unused(s, ep)'
  BY <1>2, <1>5 DEF OwnStops
<1>11. ledger'[s].status \in {"open", "closing"} => ledger'[s].stop
  BY DEF OwnStops
<1> QED BY <1>7, <1>8, <1>9, <1>10, <1>11 DEF OwnStops, StopOrder, Unused

\* What the order thread writes down of a leg.
LEMMA SeenLegs ==
    ASSUME NEW v \in Work, NEW at, NEW m
    PROVE  /\ [v EXCEPT !.at = at, !.legs.maker = m].at = at
           /\ [v EXCEPT !.at = at, !.legs.maker = m].legs = [v.legs EXCEPT !.maker = m]
           /\ [v EXCEPT !.at = at, !.legs.market = m].at = at
           /\ [v EXCEPT !.at = at, !.legs.market = m].legs = [v.legs EXCEPT !.market = m]
           /\ [v EXCEPT !.at = at, !.legs.stop = m].at = at
           /\ [v EXCEPT !.at = at, !.legs.stop = m].legs = [v.legs EXCEPT !.stop = m]
           /\ [v EXCEPT !.legs.maker = m].at = v.at
           /\ [v EXCEPT !.legs.maker = m].legs = [v.legs EXCEPT !.maker = m]
           /\ [v EXCEPT !.legs.stop = m].at = v.at
           /\ [v EXCEPT !.legs.stop = m].legs = [v.legs EXCEPT !.stop = m]
BY DEF Work

\* The entry.
LEMMA EntryTended ==
    ASSUME LedgerInv, NEW s \in Sym, Calm, Calm', OwnStops(s), BlindLegs(s), Worker(s),
           DropTask(s) \/ EntryAsks(s) \/ EntryRefused(s) \/ EntryFills(s) \/ EntryLost(s)
           \/ PlaceStop(s) \/ EntryDone(s)
    PROVE  OwnStops(s)' /\ BlindLegs(s)'
<1>0. /\ work[s] \in Work /\ StagedAt(s) /\ AlignedAt(s) /\ lastSig' = lastSig
      /\ DOMAIN work = Sym /\ DOMAIN orders = Sym
  BY ThreadFacts
<1>1. /\ TInv /\ ~Fails /\ DOMAIN ledger = Sym /\ ledger[s] \in Pos /\ DOMAIN guardHalted = Sym
  BY Parts DEF LedgerInv, Fails, TInv, Sound, TypeOK, ProcOK, TraderOK, Calm
<1>2. CASE DropTask(s)
  <2>1. UNCHANGED <<ledger, work, orders, fills, shown, guardHalted>>
    BY <1>2 DEF DropTask, traderVars, exchVars, OutsideTasks
  <2>2. OwnStops(s)'
    BY <1>0, <1>1, <2>1, StopFrame DEF BookedBlind
  <2> QED BY <2>1, <2>2 DEF BlindLegs
<1>3. CASE EntryAsks(s)
  <2>1. UNCHANGED <<ledger, orders, fills, shown, guardHalted>> /\ work[s].at = "idle"
    BY <1>3 DEF EntryAsks, traderVars, exchVars, OutsideTasks, HeadIs
  <2>2. work'[s].at = "asked"
    <3>1. At("asked", ledger[s].ep).at = "asked"
      BY <1>1, <1>3, LiveEp, Values, Names DEF EntryAsks
    <3> QED BY <1>0, <1>3, <3>1 DEF EntryAsks, Do
  <2>3. OwnStops(s)'
    BY <1>0, <1>1, <2>1, <2>2, StopFrame DEF BookedBlind
  <2> QED BY <2>2, <2>3 DEF BlindLegs
<1>4. CASE EntryRefused(s) \/ EntryLost(s)
  <2>1. /\ ledger[s].status = "opening" /\ work[s].at \in {"idle", "asked", "lost"}
        /\ ledger[s].ep \in Eps
    BY <1>0, <1>1, <1>4, LiveStatus, LiveEp, Names DEF EntryRefused, EntryLost, HeadIs, StagedAt,
       AlignedAt
  <2>2. /\ ledger'[s] = Flat /\ UNCHANGED <<orders, fills, shown>>
        /\ guardHalted[s] => guardHalted'[s]
    BY <1>1, <1>4 DEF EntryRefused, EntryLost, Discard, exchVars, OutsideTasks
  <2>3. work'[s].at \in {"idle", "asked", "lost"}
    BY <1>0, <1>4, <2>1, Values DEF EntryRefused, EntryLost, Do
  <2>4. \A o \in StopsOf(s)' : o = StopOrder(o.ep) /\ o.ep <= lastSig[s] /\ guardHalted'[s]
    <3>1. \A o \in StopsOf(s) : o.ep # ledger[s].ep
      BY <2>1 DEF OwnStops, StopsOf
    <3> QED BY <2>1, <2>2, <3>1 DEF OwnStops, StopsOf, BookedBlind
  <2>5. \A ep \in Eps : ep > lastSig[s] => Unused(s, ep)'
    BY <2>2 DEF OwnStops, Unused
  <2> QED BY <1>0, <2>2, <2>3, <2>4, <2>5, Values DEF OwnStops, BlindLegs
<1>5. CASE EntryFills(s)
  <2>1. work[s].at = "asked"
    BY <1>5 DEF EntryFills
  <2>2. OwnStops(s)'
    BY <1>0, <1>1, <1>5, <2>1, EntryFilled, StopFrame DEF BookedBlind
  <2> QED BY <1>5, <2>2, EntryFilled DEF BlindLegs
<1>6. CASE PlaceStop(s)
  <2> DEFINE mine == StopOrder(work[s].ep)
  <2>1. /\ orders' = [orders EXCEPT ![s] = @ \cup {mine}]
        /\ Do(s, [work[s] EXCEPT !.at = "stopped", !.set = TRUE])
        /\ UNCHANGED <<ledger, fills, shown, guardHalted>> /\ work[s].at = "filled"
    BY <1>1, <1>6 DEF PlaceStop, traderVars, OutsideTasks
  <2>2. work'[s].at = "stopped" /\ work'[s].set
    BY <1>0, <2>1 DEF Do, Work
  <2>3. /\ ledger[s].status = "opening" /\ work[s].ep = ledger[s].ep /\ ledger[s].ep \in Eps
        /\ ledger[s].ep <= lastSig[s]
    BY <1>0, <2>1, ThreadFacts DEF StagedAt, AlignedAt
  <2>4. Unused(s, ledger[s].ep)
    BY <2>1, <2>3 DEF OwnStops
  <2>5. \A o \in StopsOf(s)' : /\ o = StopOrder(o.ep) /\ o.ep <= lastSig[s]
                               /\ o.ep = ledger[s].ep \/ guardHalted[s]
    <3>1. ASSUME NEW o \in StopsOf(s)'
          PROVE  o \in StopsOf(s) \/ o = mine
      BY <1>0, <2>1 DEF StopsOf
    <3>2. mine.ep = ledger[s].ep /\ mine = StopOrder(mine.ep)
      BY <2>3 DEF StopOrder
    <3>3. ~BookedBlind(s)
      BY <2>1 DEF BookedBlind
    <3> QED BY <2>3, <3>1, <3>2, <3>3 DEF OwnStops
  <2> HIDE DEF mine
  <2>6. \A ep \in Eps : Unused(s, ep)' <=> Unused(s, ep)
    BY <2>1 DEF Unused
  <2>7. OwnStops(s)'
    BY <1>0, <2>1, <2>2, <2>3, <2>4, <2>5, <2>6 DEF OwnStops, StopOrder, Unused
  <2> QED BY <2>2, <2>7 DEF BlindLegs
<1>7. CASE EntryDone(s)
  <2>1. /\ work[s].at = "stopped" /\ UNCHANGED <<orders, fills, shown, guardHalted>>
        /\ ledger' = [ledger EXCEPT ![s].status = "open", ![s].qty = work[s].got,
                                ![s].stop = work[s].set]
        /\ Do(s, Idle)
    BY <1>7 DEF EntryDone, exchVars, OutsideTasks
  <2> DEFINE q == work[s].got
             b == work[s].set
  <2>2. ledger' = [ledger EXCEPT ![s].status = "open", ![s].qty = q, ![s].stop = b]
    BY <2>1
  <2>3. b
    BY <2>1 DEF BlindLegs
  <2> HIDE DEF q, b
  <2>4. /\ ledger'[s].status = "open" /\ ledger'[s].ep = ledger[s].ep /\ ledger'[s].stop
        /\ ledger[s].status = "opening"
    BY <1>0, <1>1, <2>1, <2>2, <2>3 DEF Pos, StagedAt
  <2>5. work'[s].at = "idle"
    BY <1>0, <2>1, Values DEF Do
  <2>6. \A ep \in Eps : Unused(s, ep)' <=> Unused(s, ep)
    BY <2>1 DEF Unused
  <2>7. \A o \in StopsOf(s)' : /\ o = StopOrder(o.ep) /\ o.ep <= lastSig[s]
                               /\ o.ep = ledger[s].ep \/ guardHalted[s]
    BY <2>1 DEF OwnStops, StopsOf, BookedBlind
  <2>8. OwnStops(s)'
    BY <1>0, <2>1, <2>4, <2>5, <2>6, <2>7 DEF OwnStops, Unused
  <2> QED BY <2>5, <2>8 DEF BlindLegs
<1> QED BY <1>2, <1>3, <1>4, <1>5, <1>6, <1>7

\* The maker exit.
LEMMA MakerTended ==
    ASSUME LedgerInv, NEW s \in Sym, OwnStops(s), BlindLegs(s), Worker(s),
           PlaceMaker(s) \/ MakerSet(s) \/ PollMaker(s) \/ ExitStart(s) \/ CloseMaker(s)
    PROVE  OwnStops(s)' /\ BlindLegs(s)'
<1>0. /\ work[s] \in Work /\ StagedAt(s) /\ AlignedAt(s) /\ lastSig' = lastSig
      /\ DOMAIN work = Sym /\ DOMAIN orders = Sym
  BY ThreadFacts
<1>1. /\ TInv /\ DOMAIN ledger = Sym /\ ledger[s] \in Pos
      /\ UNCHANGED <<fills, shown, guardHalted>>
  BY Parts DEF LedgerInv, TInv, Sound, TypeOK, TraderOK, PlaceMaker, MakerSet, PollMaker,
     ExitStart, CloseMaker, exchVars, OutsideTasks
<1>2. \A o \in orders'[s] : o.leg = "stop" => o \in orders[s]
  <2>1. CASE PlaceMaker(s)
    <3> DEFINE m == MakerOrder(ledger[s].ep, ledger[s].qty)
    <3>1. orders' = orders \/ orders' = [orders EXCEPT ![s] = @ \cup {m}]
      BY <2>1 DEF PlaceMaker
    <3>2. m.leg = "maker"
      BY DEF MakerOrder
    <3> HIDE DEF m
    <3> QED BY <1>0, <3>1, <3>2
  <2>2. CASE CloseMaker(s)
    BY <1>0, <2>2 DEF CloseMaker
  <2>3. CASE MakerSet(s) \/ PollMaker(s) \/ ExitStart(s)
    BY <2>3 DEF MakerSet, PollMaker, ExitStart, exchVars
  <2> QED BY <2>1, <2>2, <2>3
<1>3. ASSUME ledger'[s].ep = ledger[s].ep, ledger'[s].stop = ledger[s].stop,
             {ledger'[s].status, ledger[s].status} \subseteq {"open", "closing"},
             ~BookedBlind(s)
      PROVE  OwnStops(s)'
  BY <1>0, <1>1, <1>2, <1>3, StopFrame
<1>4. CASE PlaceMaker(s) \/ PollMaker(s)
  <2>1. ledger[s].status = "open" /\ ledger[s].ep \in Eps /\ work[s].at = "idle"
    BY <1>1, <1>4, LiveStatus, LiveEp, Names DEF PlaceMaker, PollMaker
  <2>2. ledger' = ledger
    BY <1>4 DEF PlaceMaker, PollMaker, traderVars
  <2>3. work'[s].at \in {"idle", "makerset", "cancel"}
    <3> DEFINE v == At("cancel", ledger[s].ep)
               u == At("makerset", ledger[s].ep)
    <3>1. v \in Work /\ v.at = "cancel" /\ u.at = "makerset"
      BY <2>1, Values, Names
    <3>2. work' = work \/ Do(s, u) \/ \E m : Do(s, [v EXCEPT !.legs.maker = m])
      BY <1>4 DEF PlaceMaker, PollMaker
    <3> HIDE DEF v, u
    <3> QED BY <1>0, <2>1, <3>1, <3>2 DEF Do, Work
  <2> QED BY <1>3, <2>1, <2>2, <2>3 DEF BookedBlind, BlindLegs
<1>5. CASE MakerSet(s)
  <2>1. work[s].at = "makerset" /\ ledger[s].status \in {"open", "closing"}
    BY <1>0, <1>5 DEF MakerSet, StagedAt
  <2>2. /\ ledger'[s].ep = ledger[s].ep /\ ledger'[s].stop = ledger[s].stop
        /\ ledger'[s].status = ledger[s].status
    BY <1>1, <1>5 DEF MakerSet, Pos
  <2>3. work'[s].at = "idle"
    BY <1>0, <1>5, Values DEF MakerSet, Do
  <2> QED BY <1>3, <2>1, <2>2, <2>3 DEF BookedBlind, BlindLegs
<1>6. CASE ExitStart(s)
  <2>1. ledger[s].status = "open" /\ ledger[s].ep \in Eps /\ work[s].at = "idle"
    BY <1>1, <1>6, LiveStatus, LiveEp, Names DEF ExitStart
  <2>2. /\ ledger'[s].ep = ledger[s].ep /\ ledger'[s].stop = ledger[s].stop
        /\ ledger'[s].status = "closing"
    BY <1>1, <1>6 DEF ExitStart, SetStatus, Pos
  <2>3. work'[s].at \in {"maker", "market"} /\ work'[s].legs = NoLegs
    <3> DEFINE at == IF ledger[s].maker THEN "maker" ELSE "market"
    <3>1. work'[s] = At(at, ledger[s].ep) /\ at \in {"maker", "market"}
      BY <1>0, <1>6 DEF ExitStart, Do
    <3> HIDE DEF at
    <3> QED BY <2>1, <3>1, Values, Names
  <2>4. NoLegs = [NoLegs EXCEPT !.maker = NoLegs.maker]
    BY DEF NoLegs
  <2> QED BY <1>3, <2>1, <2>2, <2>3, <2>4 DEF BookedBlind, BlindLegs
<1>7. CASE CloseMaker(s)
  <2>1. /\ work[s].at = "maker" /\ ledger[s].status \in {"open", "closing"} /\ ledger' = ledger
    BY <1>0, <1>7 DEF CloseMaker, StagedAt, traderVars
  <2>2. \E at \in {"cancel", "market"} : \E m :
            Do(s, [work[s] EXCEPT !.at = at, !.legs.maker = m])
    BY <1>7 DEF CloseMaker
  <2>3. PICK at \in {"cancel", "market"} : \E m :
            Do(s, [work[s] EXCEPT !.at = at, !.legs.maker = m])
    BY <2>2
  <2>4. PICK m : Do(s, [work[s] EXCEPT !.at = at, !.legs.maker = m])
    BY <2>3
  <2>5. work[s].legs = NoLegs
    BY <2>1 DEF BlindLegs
  <2>6. work'[s].at = at /\ work'[s].legs = [NoLegs EXCEPT !.maker = m]
    BY <1>0, <2>4, <2>5, SeenLegs DEF Do
  <2>7. [NoLegs EXCEPT !.maker = m] = [NoLegs EXCEPT !.maker = work'[s].legs.maker]
    BY <2>6 DEF NoLegs
  <2> QED BY <1>3, <2>1, <2>6, <2>7 DEF BookedBlind, BlindLegs
<1> QED BY <1>4, <1>5, <1>6, <1>7

\* Selling the rest back: what seems to be gone has left no fill.
LEMMA SellTended ==
    ASSUME LedgerInv, NEW s \in Sym, OwnStops(s), BlindLegs(s), Worker(s),
           ExitFills(s) \/ ExitExpires(s) \/ ExitFails(s)
    PROVE  OwnStops(s)' /\ BlindLegs(s)'
<1>0. /\ work[s] \in Work /\ StagedAt(s) /\ AlignedAt(s) /\ lastSig' = lastSig
      /\ DOMAIN work = Sym /\ DOMAIN orders = Sym
  BY ThreadFacts
<1>1. /\ TInv /\ DOMAIN ledger = Sym /\ ledger[s] \in Pos /\ guardHalted' = guardHalted
      /\ work[s].at = "market" /\ ledger[s].status \in {"open", "closing"}
  BY <1>0, Parts DEF LedgerInv, TInv, Sound, TypeOK, TraderOK, StagedAt,
     ExitFills, ExitExpires, ExitFails, OutsideTasks
<1>2. \A o \in orders'[s] : o.leg = "stop" => o \in orders[s]
  BY <1>0 DEF ExitFills, ExitExpires, ExitFails, BuyBack, Swept, exchVars
<1>3. /\ ledger'[s].ep = ledger[s].ep /\ ledger'[s].stop = ledger[s].stop
      /\ ledger'[s].status \in {"open", "closing"}
  BY <1>1 DEF ExitFills, ExitExpires, ExitFails, SetStatus, traderVars, Pos
<1>4. \A ep \in Eps : /\ fills'[s][ep].stop = fills[s][ep].stop
                      /\ shown'[s][ep].stop = shown[s][ep].stop
  <2>1. CASE ExitExpires(s)
    BY <2>1 DEF ExitExpires, exchVars
  <2>2. CASE ExitFills(s) \/ ExitFails(s)
    <3>1. PICK k, v : /\ fills' = [fills EXCEPT ![s][work[s].ep].market = @ + k]
                      /\ shown' = [shown EXCEPT ![s][work[s].ep].market = @ + v]
      BY <2>2 DEF ExitFills, ExitFails, BuyBack
    <3>2. ASSUME NEW f \in [Sym -> [Eps -> Legs]], NEW n, NEW ep \in Eps
          PROVE  [f EXCEPT ![s][work[s].ep].market = @ + n][s][ep].stop = f[s][ep].stop
      BY <3>2 DEF Legs
    <3>3. fills \in [Sym -> [Eps -> Legs]] /\ shown \in [Sym -> [Eps -> Legs]]
      BY <1>1 DEF TInv, Sound, TypeOK, ExchOK
    <3> QED BY <3>1, <3>2, <3>3
  <2> QED BY <2>1, <2>2
<1>5. OwnStops(s)'
  BY <1>0, <1>1, <1>2, <1>3, <1>4, StopFrame DEF BookedBlind
<1>6. work[s].legs = [NoLegs EXCEPT !.maker = work[s].legs.maker]
  BY <1>1 DEF BlindLegs
<1>7. work[s].legs.maker = 0 => work[s].legs = NoLegs
  BY <1>6 DEF NoLegs
<1>8. \/ work'[s].at \in {"cancel", "idle"}
      \/ work'[s].at = "force" /\ work'[s].legs = NoLegs
  <2>1. CASE ExitFills(s)
    <3>1. \/ \E m : Do(s, [work[s] EXCEPT !.at = "cancel", !.legs.market = m])
          \/ work[s].legs.maker = 0 /\ Do(s, [work[s] EXCEPT !.at = "force"])
      BY <2>1 DEF ExitFills, SeemsGone
    <3> QED BY <1>0, <1>7, <3>1 DEF Do, Work
  <2>2. CASE ExitExpires(s)
    BY <1>0, <1>7, <2>2 DEF ExitExpires, Do, Work
  <2>3. CASE ExitFails(s)
    BY <1>0, <2>3, Values DEF ExitFails, Do
  <2> QED BY <2>1, <2>2, <2>3
<1> QED BY <1>5, <1>8 DEF BlindLegs

\* Looking for a stop that fired, taking the stop away, and booking the trade.
LEMMA BookTended ==
    ASSUME LedgerInv, NEW s \in Sym, Calm, Calm', OwnStops(s), BlindLegs(s), Worker(s),
           ForceCheck(s) \/ CheckStop(s) \/ CancelStop(s)
           \/ Finalize(s) \/ StoreTrade(s) \/ HaltGuard(s)
    PROVE  OwnStops(s)' /\ BlindLegs(s)'
<1>0. /\ work[s] \in Work /\ StagedAt(s) /\ AlignedAt(s) /\ lastSig' = lastSig
      /\ DOMAIN work = Sym /\ DOMAIN orders = Sym
  BY ThreadFacts
<1>1. /\ TInv /\ ~Fails /\ DOMAIN ledger = Sym /\ ledger[s] \in Pos /\ DOMAIN guardHalted = Sym
      /\ UNCHANGED <<fills, shown>>
  BY Parts DEF LedgerInv, Fails, TInv, Sound, TypeOK, ProcOK, TraderOK, Calm,
     ForceCheck, CheckStop, CancelStop, Finalize, StoreTrade, HaltGuard, exchVars
<1>2. \A o \in orders'[s] : o \in orders[s]
  BY <1>0 DEF ForceCheck, CheckStop, CancelStop, Finalize, StoreTrade, HaltGuard, exchVars
<1>3. ASSUME ledger' = ledger, guardHalted' = guardHalted, ledger[s].status # "opening",
             ~BookedBlind(s)
      PROVE  OwnStops(s)'
  BY <1>0, <1>1, <1>2, <1>3, StopFrame
\* A fill of the stop that is seen means that the stop is not there any more.
<1>4. ASSUME ledger[s].status # "none", Filled(s, "stop") # 0
      PROVE  StopOrder(ledger[s].ep) \notin orders[s]
  BY <1>4 DEF Filled, OwnStops, Unused
<1>5. CASE ForceCheck(s)
  <2>1. /\ work[s].at = "force" /\ ledger[s].status \in {"open", "closing"}
        /\ UNCHANGED <<ledger, guardHalted, orders>>
    BY <1>0, <1>5 DEF ForceCheck, StagedAt, traderVars, OutsideTasks, exchVars
  <2>2. Do(s, [work[s] EXCEPT !.at = "finalize", !.legs.stop = StopTaken(s)])
    BY <1>1, <1>5 DEF ForceCheck
  <2>3. work[s].legs = NoLegs /\ ledger[s].stop
    BY <2>1 DEF BlindLegs, OwnStops
  <2>4. work'[s].at = "finalize" /\ work'[s].legs = [NoLegs EXCEPT !.stop = StopTaken(s)]
    BY <1>0, <2>2, <2>3, SeenLegs DEF Do
  <2>5. StopOrder(ledger[s].ep) \in orders[s] => StopTaken(s) = 0
    <3>1. StopOrder(ledger[s].ep) \in orders[s] => OrdersOf(s, "stop", ledger[s].ep) # {}
      BY DEF OrdersOf, StopOrder
    <3>2. StopOrder(ledger[s].ep) \in orders[s] => Filled(s, "stop") = 0
      BY <1>4, <2>1
    <3> QED BY <3>1, <3>2 DEF StopTaken
  <2>6. [NoLegs EXCEPT !.stop = 0] = NoLegs
    BY DEF NoLegs
  <2> QED BY <1>3, <2>1, <2>4, <2>5, <2>6 DEF BookedBlind, BlindLegs
<1>6. CASE CheckStop(s)
  <2>1. /\ ledger[s].status \in {"open", "closing"} /\ work[s].at = "idle"
        /\ UNCHANGED <<ledger, guardHalted, orders>> /\ ledger[s].ep \in Eps
    BY <1>1, <1>6, LiveStatus, LiveEp, Names DEF CheckStop, traderVars, OutsideTasks, exchVars
  <2> DEFINE v == At("finalize", ledger[s].ep)
  <2>2. v \in Work /\ v.at = "finalize"
    BY <2>1, Values, Names
  <2>3. \/ Filled(s, "stop") > 0 /\ \E m : Do(s, [v EXCEPT !.legs.stop = m])
        \/ work' = work
    BY <1>6 DEF CheckStop
  <2> HIDE DEF v
  <2>4. \/ work'[s].at = "finalize" /\ StopOrder(ledger[s].ep) \notin orders[s]
        \/ work'[s].at = "idle"
    BY <1>0, <1>4, <2>1, <2>2, <2>3 DEF Do, Work
  <2> QED BY <1>3, <2>1, <2>4 DEF BookedBlind, BlindLegs
<1>7. CASE CancelStop(s)
  <2>1. /\ work[s].at = "cancel" /\ ledger[s].status \in {"open", "closing"}
        /\ work[s].ep = ledger[s].ep /\ UNCHANGED <<ledger, guardHalted>>
    BY <1>0, <1>7 DEF CancelStop, StagedAt, AlignedAt, traderVars, OutsideTasks
  <2>2. ledger[s].stop
    BY <2>1 DEF OwnStops
  <2>3. StopOrder(ledger[s].ep) \notin orders'[s]
    BY <1>0, <1>1, <1>7, <2>1, <2>2 DEF CancelStop, OrdersOf, StopOrder
  <2>4. work'[s].at = "finalize"
    BY <1>0, <1>7 DEF CancelStop, Do, Work
  <2> QED BY <1>3, <2>1, <2>3, <2>4 DEF BookedBlind, BlindLegs
<1>8. CASE Finalize(s)
  <2>1. /\ work[s].at = "finalize" /\ UNCHANGED <<orders, guardHalted>>
        /\ ledger[s].status # "none" /\ ledger[s].ep = work[s].ep
    BY <1>0, <1>8 DEF Finalize, exchVars, AlignedAt
  <2>2. ledger'[s] = Flat
    BY <1>1, <1>8 DEF Finalize, Book
  <2>3. work'[s].at = "store" /\ work'[s].legs = work[s].legs
    BY <1>0, <1>8 DEF Finalize, Do, Work
  <2>4. ASSUME NEW o \in StopsOf(s)'
        PROVE  /\ o = StopOrder(o.ep) /\ o.ep <= lastSig[s]
               /\ guardHalted[s] \/ BookedBlind(s)'
    <3>1. o \in StopsOf(s) /\ o \in orders[s] /\ ~BookedBlind(s)
      BY <2>1, <2>4 DEF StopsOf, BookedBlind
    <3>2. o = StopOrder(o.ep) /\ o.ep <= lastSig[s] /\ (o.ep = ledger[s].ep \/ guardHalted[s])
      BY <3>1 DEF OwnStops
    <3>3. o.ep = ledger[s].ep => work[s].legs = NoLegs
      BY <2>1, <3>1, <3>2 DEF BlindLegs
    <3> QED BY <2>3, <3>2, <3>3 DEF BookedBlind
  <2>5. \A ep \in Eps : ep > lastSig[s] => Unused(s, ep)'
    BY <1>1 DEF OwnStops, Unused
  <2> QED BY <1>0, <2>1, <2>2, <2>3, <2>4, <2>5, Values DEF OwnStops, BlindLegs
<1>9. CASE StoreTrade(s)
  <2>1. work[s].at = "store" /\ UNCHANGED <<ledger, orders, guardHalted>>
    BY <1>9 DEF StoreTrade, exchVars, traderVars
  <2>2. /\ work'[s].at \in {"halt", "idle"}
        /\ work[s].legs = NoLegs => work'[s].at = "halt" /\ work'[s].legs = NoLegs
    BY <1>0, <1>9, Values DEF StoreTrade, Do, Work
  <2>3. BookedBlind(s) => BookedBlind(s)'
    BY <2>2 DEF BookedBlind
  <2>4. OwnStops(s)'
    BY <1>0, <1>1, <1>2, <2>1, <2>2, <2>3, StopFrame
  <2> QED BY <2>2, <2>4 DEF BlindLegs
<1>10. CASE HaltGuard(s)
  <2>1. work[s].at = "halt" /\ UNCHANGED <<ledger, orders>> /\ guardHalted'[s]
    BY <1>1, <1>10 DEF HaltGuard, exchVars, traderVars
  <2>2. work'[s].at = "idle"
    BY <1>0, <1>10, Values DEF HaltGuard, Do
  <2>3. \A ep \in Eps : Unused(s, ep)' <=> Unused(s, ep)
    BY <1>1 DEF Unused
  <2>4. \A o \in StopsOf(s)' : o = StopOrder(o.ep) /\ o.ep <= lastSig[s]
    BY <2>1 DEF OwnStops, StopsOf
  <2>5. OwnStops(s)'
    BY <1>0, <1>1, <2>1, <2>2, <2>3, <2>4 DEF OwnStops, Unused
  <2> QED BY <2>2, <2>5 DEF BlindLegs
<1> QED BY <1>5, <1>6, <1>7, <1>8, <1>9, <1>10

\* The loop opens a position for a new signal, of which there is nothing yet, and only
\* when the guard is not halted.
LEMMA LoopTended ==
    ASSUME LedgerInv, NEW s \in Sym, Loop(s), OwnStops(s), BlindLegs(s)
    PROVE  OwnStops(s)' /\ BlindLegs(s)'
<1>0. /\ TInv /\ AlignedAt(s) /\ lastSig[s] \in Nat /\ (\A ep \in Eps : ep \in Nat)
      /\ UNCHANGED <<work, orders, fills, shown, guardHalted>>
      /\ \A o \in orders[s] : o.ep \in Eps
  BY Parts, Numbers, Constants, LoopKeeps DEF LedgerInv, Order
<1>1. CASE ledger'[s].status = ledger[s].status /\ ledger'[s].ep = ledger[s].ep
           /\ ledger'[s].stop = ledger[s].stop
  <2>1. OwnStops(s)'
    BY <1>0, <1>1, LoopKeeps, StopFrame DEF BookedBlind
  <2> QED BY <1>0, <1>1, <2>1 DEF BlindLegs
<1>2. CASE /\ ledger[s].status = "none" /\ ~guardHalted[s] /\ lastSig[s] + 1 \in Eps
           /\ ledger'[s] = Opening(lastSig[s] + 1) /\ lastSig'[s] = lastSig[s] + 1
  <2>1. ledger[s].ep = 0 /\ work[s].at \in {"idle", "store", "halt"}
    BY <1>0, <1>2 DEF LedgerInv, Durable, DurableAt, AlignedAt
  <2>2. PICK new \in Eps : new > lastSig[s] /\ lastSig'[s] = new /\ ledger'[s] = Opening(new)
    BY <1>0, <1>2
  <2>3. ledger'[s].ep = new /\ ledger'[s].status = "opening"
    BY <2>2, Values DEF Opening, Flat
  <2>4. \A o \in StopsOf(s) : o = StopOrder(o.ep) /\ o.ep <= lastSig[s] /\ BookedBlind(s)
    BY <1>0, <1>2, <2>1, Constants DEF OwnStops, StopsOf
  <2>5. StopOrder(new) \notin orders[s]
    <3>1. StopOrder(new) \in orders[s] => StopOrder(new) \in StopsOf(s) /\ StopOrder(new).ep = new
      BY DEF StopsOf, StopOrder
    <3>2. new \in Nat /\ ~(new <= lastSig[s])
      BY <1>0, <2>2
    <3> QED BY <2>4, <3>1, <3>2
  <2>6. \A ep \in Eps : Unused(s, ep)' <=> Unused(s, ep)
    BY <1>0 DEF Unused
  <2>7. Unused(s, new)'
    BY <2>2, <2>6 DEF OwnStops
  <2>8. \A ep \in Eps : ep > new => Unused(s, ep)'
    <3>1. \A ep \in Eps : ep > new => ep > lastSig[s]
      BY <1>0, <2>2
    <3> QED BY <2>6, <3>1 DEF OwnStops
  <2>9. \A o \in StopsOf(s)' : o = StopOrder(o.ep) /\ o.ep <= new /\ BookedBlind(s)'
    <3>1. \A o \in StopsOf(s) : o.ep <= lastSig[s] => o.ep <= new
      BY <1>0, <2>2 DEF StopsOf
    <3> QED BY <1>0, <2>4, <3>1 DEF StopsOf, BookedBlind
  <2>10. OwnStops(s)'
    BY <1>0, <2>2, <2>3, <2>5, <2>7, <2>8, <2>9 DEF OwnStops, Unused
  <2> QED BY <1>0, <2>1, <2>10 DEF BlindLegs
<1> QED BY <1>0, <1>1, <1>2, LoopKeeps

\* What an order buys back is counted as a fill of a stop when it is the stop of its
\* position.
LEMMA AddedStop ==
    ASSUME TInv, NEW s \in Sym, NEW o \in orders[s], NEW k \in Nat,
           NEW f \in [Sym -> [Eps -> Legs]], NEW ep \in Eps,
           o.leg # "stop" \/ ep # o.ep \/ ledger[s].ep \notin {0, o.ep}
    PROVE  Added(f, s, o, k)[s][ep].stop = f[s][ep].stop
<1>1. o.ep \in Eps /\ o.leg \in {"maker", "stop"} /\ (ledger[s].ep # 0 => ledger[s].ep \in Eps)
  BY Parts, Constants DEF Order, Leg, Pos
<1>2. ASSUME NEW e \in Eps, NEW l \in {"maker", "other"}
      PROVE  [f EXCEPT ![s][e][l] = @ + k][s][ep].stop = f[s][ep].stop
  <2> DEFINE m == [f[s][e] EXCEPT ![l] = @ + k]
  <2>1. m.stop = f[s][e].stop
    BY <1>2 DEF Legs
  <2>2. [f EXCEPT ![s][e][l] = @ + k] = [f EXCEPT ![s][e] = m]
    OBVIOUS
  <2> HIDE DEF m
  <2> QED BY <2>1, <2>2
<1>3. CASE ledger[s].ep \notin {0, o.ep}
  <2>1. Added(f, s, o, k) = [f EXCEPT ![s][ledger[s].ep]["other"] = @ + k]
    BY <1>3 DEF Added
  <2> QED BY <1>1, <1>2, <1>3, <2>1
<1>4. CASE ledger[s].ep \in {0, o.ep}
  <2>1. Added(f, s, o, k) = [f EXCEPT ![s][o.ep][o.leg] = @ + k]
    BY <1>4 DEF Added
  <2>2. CASE o.leg # "stop"
    BY <1>1, <1>2, <2>1, <2>2
  <2>3. CASE ep # o.ep
    BY <1>1, <2>1, <2>3
  <2> QED BY <1>4, <2>2, <2>3
<1> QED BY <1>3, <1>4

\* The exchange and the clock.
LEMMA OutsideTended ==
    ASSUME LedgerInv, NEW s \in Sym, Exchange(s) \/ Tick(s), OwnStops(s), BlindLegs(s)
    PROVE  OwnStops(s)' /\ BlindLegs(s)'
<1>0. /\ TInv /\ AlignedAt(s) /\ lastSig[s] \in Nat /\ ledger[s].ep <= lastSig[s]
      /\ \A ep \in Eps : ep \in Nat
      /\ DOMAIN orders = Sym /\ fills \in [Sym -> [Eps -> Legs]] /\ shown \in [Sym -> [Eps -> Legs]]
      /\ \A o \in orders[s] : o \in Order /\ o.ep \in Eps /\ o.left \in Nat
      /\ short[s] \in Nat
  <2>1. TInv /\ AlignedAt(s) /\ lastSig[s] \in Nat /\ ledger[s].ep <= lastSig[s]
    BY Parts, Numbers DEF LedgerInv, Unbooked, UnbookedAt
  <2>2. TypeOK
    BY <2>1 DEF TInv, Sound
  <2>3. /\ DOMAIN orders = Sym /\ fills \in [Sym -> [Eps -> Legs]] /\ shown \in [Sym -> [Eps -> Legs]]
        /\ \A o \in orders[s] : o \in Order
    BY <2>2 DEF TypeOK, ExchOK
  <2>4. \A ep \in Eps : ep \in Nat
    BY Constants
  <2>5. short[s] \in Nat
    BY <2>1, Amounts
  <2>6. \A o \in orders[s] : o.ep \in Eps /\ o.left \in Nat
    BY <2>3, Constants DEF Order
  <2> QED BY <2>1, <2>3, <2>4, <2>5, <2>6
<1>1. UNCHANGED <<ledger, work, guardHalted, lastSig>>
  BY DEF Exchange, MakerFills, MakerExpires, StopFires, TradesShow, Tick, Outside, traderVars,
     taskVars, loopVars
\* Unless a stop is filled or shown to be, all that counts is that it is still there.
<1>2. ASSUME \A o \in orders'[s] : o.leg = "stop" => o \in orders[s],
             \A ep \in Eps : /\ fills'[s][ep].stop = fills[s][ep].stop
                             /\ shown'[s][ep].stop = shown[s][ep].stop
      PROVE  OwnStops(s)'
  BY <1>0, <1>1, <1>2, StopFrame DEF BookedBlind
<1>3. ASSUME \A o \in orders'[s] : o.leg = "stop" => o \in orders[s], OwnStops(s)'
      PROVE  OwnStops(s)' /\ BlindLegs(s)'
  BY <1>1, <1>3 DEF BlindLegs, StopOrder
<1>4. CASE MakerFills(s)
  <2>1. PICK o \in orders[s] :
          /\ o.leg = "maker"
          /\ \E k \in 1..Lesser(o.left, short[s]) :
                Executes(s, o, k, IF k = o.left THEN {} ELSE {[o EXCEPT !.left = @ - k]})
    BY <1>4 DEF MakerFills
  <2>2. PICK k \in 1..Lesser(o.left, short[s]) :
            Executes(s, o, k, IF k = o.left THEN {} ELSE {[o EXCEPT !.left = @ - k]})
    BY <2>1
  <2> DEFINE rest == IF k = o.left THEN {} ELSE {[o EXCEPT !.left = @ - k]}
  <2>3. k \in Nat /\ \A r \in rest : r.leg = "maker"
    BY <1>0, <2>1 DEF Order, Lesser
  <2> HIDE DEF rest
  <2>4. Executes(s, o, k, rest)
    BY <2>2 DEF rest
  <2>5. PICK v \in 0..k : shown' = Added(shown, s, o, v)
    BY <2>4 DEF Executes
  <2>6. \A ep \in Eps : /\ fills'[s][ep].stop = fills[s][ep].stop
                        /\ shown'[s][ep].stop = shown[s][ep].stop
    BY <1>0, <2>1, <2>3, <2>4, <2>5, AddedStop DEF Executes
  <2>7. \A x \in orders'[s] : x.leg = "stop" => x \in orders[s]
    BY <1>0, <2>3, <2>4 DEF Executes, Swept
  <2> QED BY <1>2, <1>3, <2>6, <2>7
<1>5. CASE MakerExpires(s) \/ Tick(s)
  <2>1. fills' = fills /\ shown' = shown /\ \A o \in orders'[s] : o \in orders[s]
    BY <1>0, <1>5 DEF MakerExpires, Tick, exchVars
  <2> QED BY <1>2, <1>3, <2>1
<1>6. CASE StopFires(s)
  <2>1. PICK o \in orders[s] : o.leg = "stop" /\ Executes(s, o, short[s], {})
    BY <1>6 DEF StopFires
  <2>2. PICK v \in 0..short[s] : shown' = Added(shown, s, o, v)
    BY <2>1 DEF Executes
  <2>3. o = StopOrder(o.ep) /\ o.ep <= lastSig[s] /\ o.ep \in Eps
    BY <1>0, <2>1 DEF OwnStops, StopsOf
  <2>4. \A x \in orders'[s] : x \in orders[s] /\ x # o
    BY <1>0, <2>1 DEF Executes, Swept
  <2>5. \A ep \in Eps : ep # o.ep => /\ fills'[s][ep].stop = fills[s][ep].stop
                                     /\ shown'[s][ep].stop = shown[s][ep].stop
    BY <1>0, <2>1, <2>2, AddedStop DEF Executes
  <2>6. \A ep \in Eps : ep # o.ep /\ Unused(s, ep) => Unused(s, ep)'
    BY <2>5 DEF Unused
  <2>7. \A x \in StopsOf(s)' : /\ x = StopOrder(x.ep) /\ x.ep <= lastSig[s]
                               /\ x.ep = ledger[s].ep \/ guardHalted[s] \/ BookedBlind(s)'
    BY <1>1, <2>4 DEF OwnStops, StopsOf, BookedBlind
  <2>8. ledger[s].status = "opening" /\ work[s].at # "stopped" =>
            Unused(s, ledger[s].ep)' /\ StopOrder(ledger[s].ep) \notin orders'[s]
    BY <1>0, <1>1, <2>1, <2>3, <2>4, <2>6 DEF OwnStops, AlignedAt, Unused
  <2>9. ledger[s].status # "none" /\ StopOrder(ledger[s].ep) \in orders'[s] =>
            Unused(s, ledger[s].ep)'
    BY <1>0, <1>1, <2>3, <2>4, <2>6 DEF OwnStops, AlignedAt, Unused
  <2>10. \A ep \in Eps : ep > lastSig[s] => Unused(s, ep)'
    <3>1. \A ep \in Eps : ep > lastSig[s] => ep # o.ep
      BY <1>0, <2>3
    <3> QED BY <2>6, <3>1 DEF OwnStops
  <2>11. OwnStops(s)'
    BY <1>1, <2>7, <2>8, <2>9, <2>10 DEF OwnStops, StopOrder, Unused
  <2> QED BY <1>3, <2>4, <2>11
<1>7. CASE TradesShow(s)
  <2>1. ledger[s].ep \in Eps /\ fills' = fills /\ orders' = orders
    BY <1>0, <1>7, Parts, Constants DEF TradesShow, Pos
  <2> DEFINE mine == ledger[s].ep
  <2>2. PICK leg \in Leg : \E n \in shown[s][mine][leg] + 1..fills[s][mine][leg] :
            shown' = [shown EXCEPT ![s][mine][leg] = n]
    BY <1>7 DEF TradesShow, Filled
  <2>3. PICK n \in shown[s][mine][leg] + 1..fills[s][mine][leg] :
            shown' = [shown EXCEPT ![s][mine][leg] = n]
    BY <2>2
  <2> HIDE DEF mine
  <2>4. mine \in Eps /\ leg \in {"maker", "stop"} /\ mine = ledger[s].ep
    BY <2>1 DEF mine, Leg
  <2>5. ASSUME NEW ep \in Eps, Unused(s, ep)
        PROVE  Unused(s, ep)'
    <3>1. ep = mine => leg # "stop"
      <4>1. ep = mine /\ leg = "stop" => n \in 0 + 1..0
        BY <2>3, <2>5 DEF Unused
      <4> QED BY <4>1
    <3>2. ep # mine => shown'[s][ep] = shown[s][ep]
      BY <1>0, <2>3, <2>4
    <3>3. leg # "stop" => shown'[s][mine].stop = shown[s][mine].stop
      <4> DEFINE m == [shown[s][mine] EXCEPT ![leg] = n]
      <4>1. leg # "stop" => m.stop = shown[s][mine].stop
        BY <1>0, <2>4 DEF Legs
      <4>2. shown' = [shown EXCEPT ![s][mine] = m]
        BY <2>3
      <4> HIDE DEF m
      <4> QED BY <1>0, <2>4, <4>1, <4>2
    <3> QED BY <2>1, <2>5, <3>1, <3>2, <3>3 DEF Unused
  <2>6. \A x \in StopsOf(s)' : /\ x = StopOrder(x.ep) /\ x.ep <= lastSig[s]
                               /\ x.ep = ledger[s].ep \/ guardHalted[s] \/ BookedBlind(s)'
    BY <1>1, <2>1 DEF OwnStops, StopsOf, BookedBlind
  <2>7. OwnStops(s)'
    <3>1. Unused(s, ledger[s].ep) => Unused(s, ledger[s].ep)'
      BY <1>1, <2>1, <2>5 DEF Unused
    <3>2. \A ep \in Eps : ep > lastSig[s] => Unused(s, ep)'
      BY <2>5 DEF OwnStops
    <3> QED BY <1>1, <2>1, <2>6, <3>1, <3>2 DEF OwnStops, StopOrder, Unused
  <2> QED BY <1>3, <2>1, <2>7
<1> QED BY <1>4, <1>5, <1>6, <1>7 DEF Exchange

\* The order thread.
LEMMA WorkerTended ==
    ASSUME LedgerInv, NEW s \in Sym, Calm, Calm', OwnStops(s), BlindLegs(s), Worker(s)
    PROVE  OwnStops(s)' /\ BlindLegs(s)'
BY EntryTended, MakerTended, SellTended, BookTended DEF Worker

\* Every step keeps it: without a crash there is no recovery.
LEMMA NextTended ==
    ASSUME LedgerInv, StopStands, Tended, [Next]_vars
    PROVE  Tended'
<1> SUFFICES ASSUME Unaided' PROVE \A t \in Sym : OwnStops(t)' /\ BlindLegs(t)'
  BY DEF Tended
<1>1. /\ TInv /\ Calm /\ Calm' /\ proc = "up" /\ proc' = "up" /\ ~ConsumeResume
      /\ \A u \in Sym : OwnStops(u) /\ BlindLegs(u)
  <2>1. TInv /\ Calm' /\ resumes' = 0 /\ resumes \in Nat
    BY DEF LedgerInv, TInv, Sound, TypeOK, ProcOK, Unaided
  <2>2. Calm /\ proc = "up" /\ proc' = "up"
    BY <2>1, StayCalm DEF StopStands
  <2>3. resumes = 0 /\ ~ConsumeResume
    <3>1. ConsumeResume => resumes' = resumes + 1
      BY DEF ConsumeResume
    <3>2. resumes + 1 # 0
      BY <2>1
    <3> QED BY <2>1, <3>1, <3>2, ResumesStep
  <2> QED BY <2>1, <2>2, <2>3 DEF Tended, Unaided
<1> SUFFICES ASSUME NEW t \in Sym PROVE OwnStops(t)' /\ BlindLegs(t)'
  OBVIOUS
<1>2. ASSUME NEW s \in Sym, Loop(s) \/ Worker(s) \/ Exchange(s) \/ Tick(s) \/ Recover(s)
      PROVE  OwnStops(t)' /\ BlindLegs(t)'
  <2>1. ~Recover(s)
    BY <1>1 DEF Recover, Recovering, RecoverRefused, RecoverFlat, RecoverOpen, RecoverClosed
  <2>2. CASE t # s
    <3>1. UNCHANGED Local(t)
      BY <1>1, <1>2, <2>2, Elsewhere
    <3> QED BY <1>1, <3>1 DEF Local, OwnStops, BlindLegs, StopsOf, BookedBlind, Unused
  <2>3. CASE t = s
    BY <1>1, <1>2, <2>1, <2>3, LoopTended, WorkerTended, OutsideTended
  <2> QED BY <2>2, <2>3
<1>3. CASE UNCHANGED vars
  BY <1>1, <1>3 DEF vars, traderVars, taskVars, exchVars, loopVars, OwnStops, BlindLegs, StopsOf,
     BookedBlind, Unused
<1>4. CASE Crash \/ Start \/ RecoverDone
  BY <1>1, <1>4 DEF Crash, Start, RecoverDone
<1> QED BY <1>1, <1>2, <1>3, <1>4 DEF Next

\* It holds at the start.
LEMMA InitTended == Init => StopStands /\ Tended
<1> SUFFICES ASSUME Init PROVE StopStands /\ Tended
  OBVIOUS
<1>1. proc = "up" /\ \A s \in Sym : /\ orders[s] = {} /\ ledger[s] = Flat /\ work[s] = Idle
                                    /\ fills[s] = [ep \in Eps |-> NoLegs] /\ shown[s] = fills[s]
  BY DEF Init
<1>2. NoLegs.stop = 0
  BY DEF NoLegs
<1>3. StopStands
  BY <1>1, Values DEF StopStands, StopStandsAt
<1>4. \A s \in Sym : OwnStops(s) /\ BlindLegs(s)
  BY <1>1, <1>2, Values DEF OwnStops, BlindLegs, StopsOf, Unused
<1> QED BY <1>3, <1>4 DEF Tended

\* Without lost answers, crashes and the operator, an emergency stop on the exchange
\* belongs to the position in the ledger, or to one that was booked at its entry
\* price, and then the guard lets no later one be opened that it could hit; however
\* late trades are seen and however little an exit fills.
THEOREM NoOrphanStopHolds == Spec => []NoOrphanStop
<1>1. LedgerInv /\ StopStands /\ [Next]_vars => StopStands'
  BY NextStands
<1>2. LedgerInv /\ StopStands /\ Tended /\ [Next]_vars => Tended'
  BY NextTended
<1>3. Tended => NoOrphanStop
  BY DEF Tended, Unaided, Calm, OwnStops, NoOrphanStop
<1> QED BY <1>1, <1>2, <1>3, InitTended, LedgerInvHolds, PTL DEF Spec

\* Without lost answers, crashes and the operator, an entry is filled on an exchange
\* that holds neither a short nor an emergency stop of an earlier position: the
\* position was asked for in a step before, and whoever was booked without knowing
\* that his stop was gone has halted the guard.
THEOREM EntersCleanHolds == Spec => EntersClean
<1> DEFINE Clean == faults = 0 /\ crashes = 0 /\ resumes = 0 =>
                \A s \in Sym : short'[s] > short[s] => short[s] = 0 /\ StopsOf(s) = {}
<1>1. LedgerInv /\ StopStands /\ [Next]_vars => StopStands'
  BY NextStands
<1>2. LedgerInv /\ StopStands /\ Tended /\ [Next]_vars => Tended'
  BY NextTended
<1>3. LedgerInv /\ Tended /\ [Next]_vars => [Clean]_vars
  <2> SUFFICES ASSUME LedgerInv, Tended, [Next]_vars, Unaided,
                      NEW s \in Sym, short'[s] > short[s]
               PROVE  short[s] = 0 /\ StopsOf(s) = {}
    BY DEF Unaided, Calm
  <2>1. TInv /\ OwnStops(s)
    BY DEF LedgerInv, Tended
  <2>2. EntryFills(s)
    BY <2>1, NextUngrown DEF Ungrown
  <2>3. work[s].at = "asked" /\ ~guardHalted[s]
    BY <2>2 DEF EntryFills
  <2>4. short[s] = 0
    BY <2>1, <2>3 DEF TInv, Empty
  <2>5. ledger[s].status = "opening"
    BY <2>3, Parts DEF LedgerInv, Staged, StagedAt
  <2>6. StopsOf(s) = {}
    BY <2>1, <2>3, <2>5 DEF OwnStops, StopsOf, BookedBlind
  <2> QED BY <2>4, <2>6
<1>4. EntersClean <=> [][Clean]_vars
  BY DEF EntersClean
<1> HIDE DEF Clean
<1> QED BY <1>1, <1>2, <1>3, <1>4, InitTended, LedgerInvHolds, PTL DEF Spec

-----------------------------------------------------------------------------
(* While all goes as it should: the orders left and the trades booked.     *)

\* Orders on the exchange belong to the position in the ledger, the maker exit
\* to one step of its life, and none is left when the trade is booked.
OrdersExact(s) ==
    /\ \A o \in orders[s] : o.ep = ledger[s].ep /\ (o.leg = "stop" => o.left = 0)
    /\ ledger[s].status = "none" \/ work[s].at = "finalize" => orders[s] = {}
    /\ ledger[s].status = "opening" /\ work[s].at # "stopped" => orders[s] = {}
    /\ ledger[s].status # "none" /\ Back(s).stop > 0 => orders[s] = {}
    /\ \A o \in orders[s] : o.leg = "maker" =>
          /\ short[s] > 0
          /\ \/ work[s].at = "makerset"
             \/ work[s].at = "maker" /\ ledger[s].maker
             \/ work[s].at = "idle" /\ ledger[s].maker /\ ledger[s].status = "open"
    /\ work[s].at = "makerset" => ledger[s].status = "open"

\* The short and the closing fills make up the position.
FillsExact(s) ==
    /\ ledger[s].status # "none" =>
          /\ Back(s).other = 0 /\ (Back(s).stop = 0 \/ Back(s).market = 0)
          /\ work[s].at \notin {"cancel", "finalize"} => Back(s).market = 0
          /\ ledger[s].maker \/ work[s].at = "makerset" \/ Back(s).maker = 0
    /\ work[s].at = "filled" => work[s].got > 0 /\ short[s] = work[s].got /\ LegsSum(Back(s)) = 0
    /\ work[s].at = "stopped" => /\ work[s].got > 0 /\ work[s].set /\ Back(s).maker = 0
                                 /\ short[s] + LegsSum(Back(s)) = work[s].got
    /\ ledger[s].status \in {"open", "closing"} =>
          ledger[s].stop /\ ledger[s].qty > 0 /\ short[s] + LegsSum(Back(s)) = ledger[s].qty

\* What the order thread has seen of the fills.
SameLegs(l, maker, market, stop) ==
    l.maker = maker /\ l.market = market /\ l.stop = stop /\ l.other = 0
LegsExact(s) ==
    LET l == work[s].legs
        b == Back(s)
    IN  /\ work[s].at \in {"maker", "force"} => SameLegs(l, 0, 0, 0)
        /\ work[s].at = "force" => b.maker = 0
        /\ work[s].at = "market" => SameLegs(l, b.maker, 0, 0)
        /\ work[s].at = "cancel" => SameLegs(l, b.maker, b.market, 0) /\ l # NoLegs
        /\ work[s].at = "finalize" =>
              l # NoLegs /\ (b.maker = 0 \/ b.stop = 0 => l = b)

\* What was booked is what was filled.
BookedExact(s) ==
    \A ep \in Eps : booked[s][ep].n > 0 =>
        /\ booked[s][ep].legs # NoLegs
        /\ fills[s][ep].maker = 0 \/ fills[s][ep].stop = 0
              => booked[s][ep].legs = fills[s][ep]

\* All went as it should.
Smooth == Calm /\ slips = 0

ExactAt(s) == OrdersExact(s) /\ FillsExact(s) /\ LegsExact(s) /\ BookedExact(s)
Exact == Sweeps /\ Smooth => \A s \in Sym : ExactAt(s)

\* What the proofs start from: the ledger in line with its order thread, and
\* the short in the ledger.
HeldInv == LedgerInv /\ Held

\* They hold throughout.
LEMMA HeldInvHolds == Spec => []HeldInv
<1>1. Init => Held
  BY InitHeld
<1>2. LedgerInv /\ Held /\ [Next]_vars => Held'
  BY NextHeld
<1> QED BY <1>1, <1>2, LedgerInvHolds, PTL DEF Spec, HeldInv

\* A step that leaves alone what Exact speaks of.
LEMMA SameExact ==
    ASSUME NEW s \in Sym, ExactAt(s),
           UNCHANGED <<work[s], short[s], orders[s], fills[s], booked[s]>>,
           ledger'[s].status = ledger[s].status, ledger'[s].ep = ledger[s].ep,
           ledger'[s].qty = ledger[s].qty, ledger'[s].stop = ledger[s].stop,
           ledger'[s].maker = ledger[s].maker
    PROVE  ExactAt(s)'
<1>1. OrdersExact(s)'
  BY DEF ExactAt, OrdersExact, Back
<1>2. FillsExact(s)'
  BY DEF ExactAt, FillsExact, Back
<1>3. LegsExact(s)'
  BY DEF ExactAt, LegsExact, SameLegs, Back
<1>4. BookedExact(s)'
  BY DEF ExactAt, BookedExact
<1> QED BY <1>1, <1>2, <1>3, <1>4 DEF ExactAt

\* The fills of a trade that was booked do not change any more: new ones are those of
\* the position in the ledger, which is not booked yet.
LEMMA BookedSame ==
    ASSUME HeldInv, NEW s \in Sym, BookedExact(s), booked'[s] = booked[s],
           \A ep \in Eps : ep # ledger[s].ep => fills'[s][ep] = fills[s][ep]
    PROVE  BookedExact(s)'
<1>1. \A ep \in Eps : booked[s][ep].n > 0 => ledger[s].ep # ep
  BY DEF HeldInv, LedgerInv, Unbooked, UnbookedAt
<1> QED BY <1>1 DEF BookedExact

\* What the proofs about one symbol start from.
LEMMA ExactFacts ==
    ASSUME HeldInv, Smooth, NEW s \in Sym
    PROVE  /\ TInv /\ ledger[s] \in Pos /\ work[s] \in Work /\ AlignedAt(s) /\ StagedAt(s)
           /\ HeldAt(s) /\ short[s] \in Nat /\ work[s].got \in Nat /\ ledger[s].qty \in Nat
           /\ DOMAIN ledger = Sym /\ DOMAIN work = Sym /\ DOMAIN short = Sym
           /\ DOMAIN orders = Sym /\ DOMAIN fills = Sym /\ Seen /\ slips = 0
<1>1. /\ TInv /\ StagedAt(s) /\ HeldAt(s)
      /\ DOMAIN ledger = Sym /\ DOMAIN work = Sym /\ DOMAIN short = Sym
      /\ DOMAIN orders = Sym /\ DOMAIN fills = Sym
  BY DEF HeldInv, LedgerInv, Held, Smooth, Calm, Staged, TInv, Sound, TypeOK, TraderOK, TaskOK, ExchOK
<1>2. ledger[s] \in Pos /\ work[s] \in Work /\ AlignedAt(s)
  BY <1>1, Parts
<1>3. Seen /\ slips = 0
  BY DEF HeldInv, LedgerInv, Smooth
<1> QED BY <1>1, <1>2, <1>3, Amounts

\* The legs of a position in their numbers.
LEMMA BackLegs ==
    ASSUME HeldInv, NEW s \in Sym, ledger[s].status # "none"
    PROVE  /\ Back(s) \in Legs /\ Back(s).maker \in Nat /\ Back(s).market \in Nat
           /\ Back(s).stop \in Nat /\ Back(s).other \in Nat
           /\ LegsSum(Back(s)) = Back(s).maker + Back(s).market + Back(s).stop + Back(s).other
<1>1. TInv
  BY DEF HeldInv, LedgerInv
<1> QED BY <1>1, Amounts DEF Back, LegsSum

\* Without failures a call of the order thread works.
LEMMA SmoothWorks ==
    ASSUME HeldInv, Smooth, Smooth'
    PROVE  ~Fails /\ ~Slips(FALSE) /\ slips' = 0
<1>1. ~Fails
  BY DEF HeldInv, LedgerInv, Smooth, Calm, Fails, TInv, Sound, TypeOK, ProcOK
<1>2. ~Slips(FALSE) /\ slips' = 0
  BY DEF HeldInv, LedgerInv, Smooth, Slips, TInv, Sound, TypeOK, ExchOK
<1> QED BY <1>1, <1>2

\* The entry.
LEMMA EntryExact ==
    ASSUME HeldInv, NEW s \in Sym, Smooth, Smooth', ExactAt(s), Worker(s),
           DropTask(s) \/ EntryAsks(s) \/ EntryRefused(s) \/ EntryFills(s) \/ EntryLost(s)
           \/ PlaceStop(s) \/ EntryDone(s)
    PROVE  ExactAt(s)'
<1>0. /\ TInv /\ ledger[s] \in Pos /\ work[s] \in Work /\ AlignedAt(s) /\ StagedAt(s)
      /\ HeldAt(s) /\ short[s] \in Nat /\ work[s].got \in Nat /\ ledger[s].qty \in Nat
      /\ DOMAIN ledger = Sym /\ DOMAIN work = Sym /\ DOMAIN short = Sym
      /\ DOMAIN orders = Sym /\ DOMAIN fills = Sym /\ Seen /\ slips = 0
  BY ExactFacts
<1>1. ~Fails /\ slips' = 0 /\ booked' = booked
  BY SmoothWorks DEF DropTask, EntryAsks, EntryRefused, EntryFills, EntryLost, PlaceStop, EntryDone,
     OutsideTasks, bookVars
<1>2. CASE DropTask(s)
  BY <1>1, <1>2, SameExact DEF DropTask, traderVars, exchVars
<1>8. CASE EntryAsks(s)
  <2>1. /\ ledger[s].status = "opening" /\ ledger[s].ep \in Eps /\ work[s].at = "idle"
        /\ UNCHANGED <<ledger, short, orders, fills>>
    BY <1>0, <1>8, LiveStatus, LiveEp, Names DEF EntryAsks, traderVars, exchVars, HeadIs
  <2>2. work'[s].at = "asked"
    <3>1. At("asked", ledger[s].ep).at = "asked"
      BY <2>1, Values, Names
    <3> QED BY <1>0, <1>8, <3>1 DEF EntryAsks, Do
  <2>3. orders[s] = {}
    BY <2>1 DEF ExactAt, OrdersExact
  <2>4. OrdersExact(s)'
    BY <2>1, <2>2, <2>3 DEF OrdersExact
  <2>5. FillsExact(s)'
    BY <2>1, <2>2 DEF FillsExact, ExactAt, Back
  <2>6. LegsExact(s)'
    BY <2>2 DEF LegsExact
  <2> QED BY <1>1, <2>1, <2>4, <2>5, <2>6, BookedSame DEF ExactAt
<1>3. CASE EntryRefused(s)
  <2>1. ledger[s].status = "opening" /\ work[s].at \in {"idle", "asked"}
    BY <1>0, <1>3, LiveStatus, LiveEp, Names DEF EntryRefused, HeadIs, StagedAt
  <2>2. /\ ledger'[s] = Flat /\ UNCHANGED <<short, orders, fills>>
        /\ work'[s].at \in {"idle", "asked"}
    BY <1>0, <1>3, <2>1, Values DEF EntryRefused, Discard, exchVars, Do
  <2>3. orders[s] = {}
    BY <2>1 DEF ExactAt, OrdersExact
  <2>4. OrdersExact(s)'
    BY <2>1, <2>2, <2>3 DEF OrdersExact
  <2>5. FillsExact(s)' /\ LegsExact(s)'
    BY <2>1, <2>2, Values DEF FillsExact, LegsExact
  <2> QED BY <1>1, <2>2, <2>4, <2>5, BookedSame DEF ExactAt
<1>4. CASE EntryFills(s)
  <2>1. ledger[s].status = "opening" /\ work[s].at = "asked" /\ ledger[s].ep \in Eps
    BY <1>0, <1>4 DEF EntryFills, StagedAt, AlignedAt
  <2>2. PICK got \in 1..Qty : /\ short' = [short EXCEPT ![s] = @ + got]
                              /\ Do(s, [work[s] EXCEPT !.at = "filled", !.got = got])
    <3>1. PICK got \in 1..Qty : \E seen \in 0..got :
            /\ short' = [short EXCEPT ![s] = @ + got] /\ Slips(EntryQty(got, seen) = got)
            /\ \/ Do(s, [work[s] EXCEPT !.at = "filled", !.got = EntryQty(got, seen)])
               \/ EntryQty(got, seen) = 0
      BY <1>1, <1>4 DEF EntryFills
    <3>2. PICK seen \in 0..got :
            /\ Slips(EntryQty(got, seen) = got)
            /\ \/ Do(s, [work[s] EXCEPT !.at = "filled", !.got = EntryQty(got, seen)])
               \/ EntryQty(got, seen) = 0
      BY <3>1
    <3>3. EntryQty(got, seen) = got
      BY <1>0, <1>1, <3>2, NoSlip
    <3>4. got # 0
      OBVIOUS
    <3> QED BY <3>1, <3>2, <3>3, <3>4
  <2>3. UNCHANGED <<ledger, orders, fills>> /\ short[s] = 0
    BY <1>0, <1>4, <2>1 DEF EntryFills, traderVars, TInv, Empty
  <2> DEFINE v == [work[s] EXCEPT !.at = "filled"]
  <2>4. v \in Work /\ v.at = "filled"
    BY <1>0, Names DEF Work
  <2>5. work'[s] = [v EXCEPT !.got = got]
    BY <1>0, <2>2 DEF Do
  <2> HIDE DEF v
  <2>6. work'[s].at = "filled" /\ work'[s].got = got /\ short'[s] = got /\ got > 0
    <3>1. short'[s] = 0 + got /\ got \in Nat /\ got > 0
      BY <1>0, <2>2, <2>3, Constants
    <3> QED BY <2>4, <2>5, <3>1 DEF Work
  <2>7. LegsSum(Back(s)) = 0 /\ Back(s).maker = 0 /\ Back(s).market = 0 /\ Back(s).stop = 0
        /\ Back(s).other = 0 /\ orders[s] = {}
    <3>1. LegsSum(Back(s)) = 0
      BY <2>1, ThreadFacts, <1>0 DEF HeldAt, HeldInv
    <3>2. Back(s) \in Legs
      BY <2>1, BackLegs
    <3>3. orders[s] = {}
      BY <2>1 DEF ExactAt, OrdersExact
    <3> QED BY <3>1, <3>2, <3>3, Totals
  <2>8. OrdersExact(s)'
    BY <2>1, <2>3, <2>6, <2>7 DEF OrdersExact
  <2>9. FillsExact(s)'
    BY <2>1, <2>3, <2>6, <2>7 DEF FillsExact, Back
  <2>10. LegsExact(s)'
    BY <2>6 DEF LegsExact
  <2> QED BY <1>1, <2>3, <2>8, <2>9, <2>10, BookedSame DEF ExactAt
<1>5. CASE EntryLost(s)
  BY <1>0, <1>5 DEF EntryLost, HeldAt
<1>6. CASE PlaceStop(s)
  <2>1. /\ orders' = [orders EXCEPT ![s] = @ \cup {StopOrder(work[s].ep)}]
        /\ Do(s, [work[s] EXCEPT !.at = "stopped", !.set = TRUE])
        /\ UNCHANGED <<ledger, short, fills>> /\ work[s].at = "filled"
    BY <1>1, <1>6 DEF PlaceStop, traderVars
  <2>2. work'[s].at = "stopped" /\ work'[s].got = work[s].got /\ work'[s].set
    BY <1>0, <2>1 DEF Do, Work
  <2>3. ledger[s].status = "opening" /\ work[s].ep = ledger[s].ep
    BY <1>0, <2>1 DEF StagedAt, AlignedAt
  <2>4. orders'[s] = {StopOrder(ledger[s].ep)}
    BY <1>0, <2>1, <2>3 DEF ExactAt, OrdersExact
  <2>5. /\ LegsSum(Back(s)) = 0 /\ Back(s).maker = 0 /\ Back(s).stop = 0
        /\ work[s].got > 0 /\ short[s] = work[s].got
    <3>1. LegsSum(Back(s)) = 0 /\ work[s].got > 0 /\ short[s] = work[s].got
      BY <2>1 DEF ExactAt, FillsExact
    <3> QED BY <2>3, <3>1, BackLegs, Totals
  <2>6. OrdersExact(s)'
    BY <2>1, <2>2, <2>3, <2>4, <2>5 DEF OrdersExact, StopOrder, Back
  <2>7. FillsExact(s)'
    <3>1. short[s] + LegsSum(Back(s)) = work[s].got
      BY <1>0, <2>5
    <3> QED BY <2>1, <2>2, <2>3, <2>5, <3>1 DEF FillsExact, ExactAt, Back
  <2>8. LegsExact(s)'
    BY <2>2 DEF LegsExact
  <2> QED BY <1>1, <2>1, <2>6, <2>7, <2>8, BookedSame DEF ExactAt
<1>7. CASE EntryDone(s)
  <2>1. /\ work[s].at = "stopped" /\ UNCHANGED <<short, orders, fills>>
        /\ ledger' = [ledger EXCEPT ![s].status = "open", ![s].qty = work[s].got,
                                ![s].stop = work[s].set]
        /\ Do(s, Idle)
    BY <1>7 DEF EntryDone, exchVars
  <2> DEFINE q == work[s].got
             b == work[s].set
  <2>2. ledger' = [ledger EXCEPT ![s].status = "open", ![s].qty = q, ![s].stop = b]
    BY <2>1
  <2>3. q > 0 /\ b /\ short[s] + LegsSum(Back(s)) = q /\ Back(s).maker = 0
    BY <2>1 DEF ExactAt, FillsExact
  <2> HIDE DEF q, b
  <2>4. /\ ledger'[s].status = "open" /\ ledger'[s].ep = ledger[s].ep /\ ledger'[s].qty = q
        /\ ledger'[s].stop /\ ledger[s].status = "opening" /\ ledger'[s].maker = ledger[s].maker
    BY <1>0, <2>1, <2>2, <2>3 DEF Pos, StagedAt
  <2>5. work'[s].at = "idle"
    BY <1>0, <2>1, Values DEF Do
  <2>6. OrdersExact(s)'
    BY <2>1, <2>4, <2>5 DEF OrdersExact, ExactAt, Back
  <2>7. FillsExact(s)'
    BY <2>1, <2>3, <2>4, <2>5 DEF FillsExact, ExactAt, Back
  <2>8. LegsExact(s)'
    BY <2>5 DEF LegsExact
  <2> QED BY <1>1, <2>1, <2>6, <2>7, <2>8, BookedSame DEF ExactAt
<1> QED BY <1>2, <1>3, <1>4, <1>5, <1>6, <1>7, <1>8

\* One leg counted, the others as they were.
LEMMA OneLeg ==
    ASSUME NEW l \in Legs, NEW a, NEW b, NEW c, SameLegs(l, a, b, c), NEW m
    PROVE  /\ SameLegs([l EXCEPT !.maker = m], m, b, c)
           /\ SameLegs([l EXCEPT !.market = m], a, m, c)
           /\ SameLegs([l EXCEPT !.stop = m], a, b, m)
           /\ m # 0 => /\ [l EXCEPT !.maker = m] # NoLegs
                       /\ [l EXCEPT !.market = m] # NoLegs
                       /\ [l EXCEPT !.stop = m] # NoLegs
BY DEF Legs, SameLegs, NoLegs

\* A position that the maker exit has bought back has no other fill.
LEMMA AllMaker ==
    ASSUME HeldInv, NEW s \in Sym, Smooth, ExactAt(s), ledger[s].status \in {"open", "closing"},
           Back(s).maker >= ledger[s].qty
    PROVE  Back(s).maker = ledger[s].qty /\ ledger[s].qty > 0 /\ short[s] = 0 /\ Back(s).stop = 0
<1> DEFINE a == Back(s).maker
           b == Back(s).market
           c == Back(s).stop
           d == Back(s).other
           q == ledger[s].qty
           sh == short[s]
<1>1. a \in Nat /\ b \in Nat /\ c \in Nat /\ d \in Nat /\ q \in Nat /\ sh \in Nat
  BY BackLegs, ExactFacts
<1>2. sh + LegsSum(Back(s)) = q /\ q > 0
  BY DEF ExactAt, FillsExact
<1>3. LegsSum(Back(s)) = a + b + c + d
  BY BackLegs
<1>4. a >= q
  OBVIOUS
<1> HIDE DEF a, b, c, d, q, sh
<1>5. sh + (a + b + c + d) = q
  BY <1>2, <1>3
<1>6. a = q /\ q > 0 /\ sh = 0 /\ c = 0
  BY <1>1, <1>2, <1>4, <1>5
<1> QED BY <1>6 DEF a, c, q, sh

\* The maker exit.
LEMMA MakerExact ==
    ASSUME HeldInv, NEW s \in Sym, Smooth, Smooth', ExactAt(s), Worker(s),
           PlaceMaker(s) \/ MakerSet(s) \/ PollMaker(s) \/ CloseMaker(s)
    PROVE  ExactAt(s)'
<1>0. /\ TInv /\ ledger[s] \in Pos /\ work[s] \in Work /\ AlignedAt(s) /\ StagedAt(s)
      /\ HeldAt(s) /\ short[s] \in Nat /\ work[s].got \in Nat /\ ledger[s].qty \in Nat
      /\ DOMAIN ledger = Sym /\ DOMAIN work = Sym /\ DOMAIN short = Sym
      /\ DOMAIN orders = Sym /\ DOMAIN fills = Sym /\ Seen /\ slips = 0
  BY ExactFacts
<1>1. /\ ~Fails /\ UNCHANGED <<booked, fills, short>>
  BY SmoothWorks DEF PlaceMaker, MakerSet, PollMaker, CloseMaker, OutsideTasks, bookVars, exchVars
<1>2. CASE PlaceMaker(s)
  <2>1. /\ ledger[s].status = "open" /\ ledger[s].ep \in Eps /\ work[s].at = "idle"
        /\ ledger' = ledger
    BY <1>0, <1>2, LiveStatus, LiveEp, Names DEF PlaceMaker, traderVars
  <2>2. CASE UNCHANGED <<work, orders>>
    BY <1>1, <2>1, <2>2, SameExact
  <2>3. CASE /\ short[s] > 0 /\ Do(s, At("makerset", ledger[s].ep))
             /\ orders' = [orders EXCEPT ![s] = @ \cup {MakerOrder(ledger[s].ep, ledger[s].qty)}]
    <3>1. work'[s].at = "makerset"
      BY <1>0, <2>1, <2>3, Values, Names DEF Do
    <3>2. \A o \in orders'[s] : o \in orders[s] \/ o = MakerOrder(ledger[s].ep, ledger[s].qty)
      BY <1>0, <2>3
    <3>3. ~(Back(s).stop > 0)
      BY <1>0, <2>1, <2>3 DEF HeldAt
    <3>4. OrdersExact(s)'
      BY <1>1, <2>1, <2>3, <3>1, <3>2, <3>3 DEF OrdersExact, ExactAt, MakerOrder, Back
    <3>5. FillsExact(s)'
      BY <1>1, <2>1, <3>1 DEF FillsExact, ExactAt, Back
    <3>6. LegsExact(s)'
      BY <3>1 DEF LegsExact
    <3> QED BY <1>1, <3>4, <3>5, <3>6, BookedSame DEF ExactAt
  <2> QED BY <1>1, <1>2, <2>2, <2>3 DEF PlaceMaker
<1>3. CASE MakerSet(s)
  <2>1. work[s].at = "makerset" /\ ledger[s].status = "open" /\ orders' = orders
    BY <1>3 DEF MakerSet, ExactAt, OrdersExact, exchVars
  <2>2. /\ ledger'[s].status = "open" /\ ledger'[s].ep = ledger[s].ep /\ ledger'[s].maker
        /\ ledger'[s].qty = ledger[s].qty /\ ledger'[s].stop = ledger[s].stop
    BY <1>0, <1>3, <2>1 DEF MakerSet, Pos
  <2>3. work'[s].at = "idle"
    BY <1>0, <1>3, Values DEF MakerSet, Do
  <2>4. OrdersExact(s)'
    BY <1>1, <2>1, <2>2, <2>3 DEF OrdersExact, ExactAt, Back
  <2>5. FillsExact(s)'
    BY <1>1, <2>1, <2>2, <2>3 DEF FillsExact, ExactAt, Back
  <2>6. LegsExact(s)'
    BY <2>3 DEF LegsExact
  <2> QED BY <1>1, <2>4, <2>5, <2>6, BookedSame DEF ExactAt
<1>4. CASE PollMaker(s)
  <2>1. ledger[s].status = "open" /\ ledger[s].ep \in Eps /\ work[s].at = "idle"
    BY <1>0, <1>4, LiveStatus, LiveEp, Names DEF PollMaker
  <2>2. UNCHANGED <<ledger, orders>>
    BY <1>4 DEF PollMaker, traderVars, exchVars
  <2>3. CASE work' = work
    BY <1>1, <2>2, <2>3, SameExact
  <2>4. CASE /\ Filled(s, "maker") >= ledger[s].qty
             /\ Do(s, [At("cancel", ledger[s].ep) EXCEPT !.legs.maker = ledger[s].qty])
    <3> DEFINE v == At("cancel", ledger[s].ep)
               q == ledger[s].qty
    <3>1. v \in Work /\ v.at = "cancel" /\ v.legs = NoLegs
      BY <2>1, Values, Names
    <3>2. work'[s] = [v EXCEPT !.legs.maker = q]
      BY <1>0, <2>4 DEF Do
    <3> HIDE DEF v
    <3>3. work'[s].at = "cancel" /\ work'[s].legs = [NoLegs EXCEPT !.maker = q]
      BY <3>1, <3>2, SeenLegs
    <3>4. Back(s).maker = q /\ q > 0 /\ short[s] = 0
      BY <1>0, <2>1, <2>4, AllMaker, BackOK
    <3>5. Back(s).market = 0
      BY <2>1 DEF ExactAt, FillsExact
    <3>6. SameLegs(work'[s].legs, q, 0, 0) /\ work'[s].legs # NoLegs
      BY <3>3, <3>4 DEF SameLegs, NoLegs
    <3> HIDE DEF q
    <3>7. OrdersExact(s)'
      BY <1>1, <2>1, <2>2, <3>3, <3>4 DEF OrdersExact, ExactAt, Back
    <3>8. FillsExact(s)'
      BY <1>1, <2>1, <2>2, <3>3 DEF FillsExact, ExactAt, Back
    <3>9. LegsExact(s)'
      BY <1>1, <2>2, <3>3, <3>4, <3>5, <3>6 DEF LegsExact, Back
    <3> QED BY <1>1, <3>7, <3>8, <3>9, BookedSame DEF ExactAt
  <2> QED BY <1>1, <1>4, <2>3, <2>4 DEF PollMaker
<1>5. CASE CloseMaker(s)
  <2>1. /\ work[s].at = "maker" /\ ledger[s].status \in {"open", "closing"} /\ ledger' = ledger
        /\ ledger[s].ep = work[s].ep
    BY <1>0, <1>5 DEF CloseMaker, StagedAt, AlignedAt, traderVars
  <2>2. PICK m \in 0..Filled(s, "maker") :
          /\ m = Filled(s, "maker")
          /\ orders' = [orders EXCEPT ![s] = @ \ OrdersOf(s, "maker", work[s].ep)]
          /\ Do(s, [work[s] EXCEPT !.at = IF m >= ledger[s].qty THEN "cancel" ELSE "market",
                                   !.legs.maker = m])
    BY <1>1, <1>5 DEF CloseMaker
  <2> DEFINE at == IF m >= ledger[s].qty THEN "cancel" ELSE "market"
  <2>3. m = Back(s).maker /\ m \in Nat
    BY <1>0, <2>1, <2>2, BackOK
  <2>4. SameLegs(work[s].legs, 0, 0, 0)
    BY <2>1 DEF ExactAt, LegsExact
  <2>5. work'[s] = [work[s] EXCEPT !.at = at, !.legs.maker = m] /\ work[s].legs \in Legs
    BY <1>0, <2>2 DEF Do, Work
  <2>6. work'[s].at = at /\ SameLegs(work'[s].legs, m, 0, 0) /\ (m # 0 => work'[s].legs # NoLegs)
    <3> DEFINE l == work[s].legs
    <3> HIDE DEF at
    <3>1. work'[s].at = at /\ work'[s].legs = [l EXCEPT !.maker = m]
      BY <1>0, <2>5, SeenLegs
    <3>2. l \in Legs /\ SameLegs(l, 0, 0, 0)
      BY <2>4, <2>5
    <3> HIDE DEF l
    <3>3. SameLegs([l EXCEPT !.maker = m], m, 0, 0)
      BY <3>2, OneLeg
    <3>4. m # 0 => [l EXCEPT !.maker = m] # NoLegs
      BY <3>2, OneLeg
    <3> QED BY <3>1, <3>3, <3>4
  <2>7. \A o \in orders'[s] : o \in orders[s] /\ o.leg # "maker"
    BY <1>0, <2>1, <2>2 DEF ExactAt, OrdersExact, OrdersOf
  <2>8. at = "cancel" => m = ledger[s].qty /\ ledger[s].qty > 0
    BY <2>1, <2>3, AllMaker
  <2>9. Back(s).market = 0 /\ (ledger[s].maker \/ Back(s).maker = 0)
    BY <2>1 DEF ExactAt, FillsExact
  <2>10. at \in {"cancel", "market"}
    OBVIOUS
  <2> HIDE DEF at
  <2>11. OrdersExact(s)'
    BY <1>1, <2>1, <2>6, <2>7, <2>10 DEF OrdersExact, ExactAt, Back
  <2>12. FillsExact(s)'
    BY <1>1, <2>1, <2>6, <2>9, <2>10 DEF FillsExact, ExactAt, Back
  <2>13. LegsExact(s)'
    BY <1>1, <2>1, <2>3, <2>6, <2>8, <2>9, <2>10 DEF LegsExact, Back
  <2> QED BY <1>1, <2>11, <2>12, <2>13, BookedSame DEF ExactAt
<1> QED BY <1>2, <1>3, <1>4, <1>5

\* Legs that agree in every number are the same.
LEMMA EqualLegs ==
    ASSUME NEW l \in Legs, NEW b \in Legs, SameLegs(l, b.maker, b.market, b.stop), b.other = 0
    PROVE  l = b
BY DEF SameLegs, Legs

\* Selling starts, and sells back what the maker exit has not.
LEMMA SellExact ==
    ASSUME HeldInv, Sweeps, NEW s \in Sym, Smooth, Smooth', ExactAt(s), Worker(s),
           ExitStart(s) \/ ExitFills(s) \/ ExitExpires(s) \/ ExitFails(s)
    PROVE  ExactAt(s)'
<1>0. /\ TInv /\ ledger[s] \in Pos /\ work[s] \in Work /\ AlignedAt(s) /\ StagedAt(s)
      /\ HeldAt(s) /\ short[s] \in Nat /\ work[s].got \in Nat /\ ledger[s].qty \in Nat
      /\ DOMAIN ledger = Sym /\ DOMAIN work = Sym /\ DOMAIN short = Sym
      /\ DOMAIN orders = Sym /\ DOMAIN fills = Sym /\ Seen /\ slips = 0
  BY ExactFacts
<1>1. ~Fails /\ ~Slips(FALSE) /\ slips' = 0
  BY SmoothWorks
<1>2. CASE ExitStart(s)
  <2>1. ledger[s].status = "open" /\ ledger[s].ep \in Eps /\ work[s].at = "idle"
    BY <1>0, <1>2, LiveStatus, LiveEp, Names DEF ExitStart
  <2>2. UNCHANGED <<short, orders, fills, booked>>
    BY <1>2 DEF ExitStart, exchVars, OutsideTasks, bookVars
  <2>3. /\ ledger'[s].status = "closing" /\ ledger'[s].ep = ledger[s].ep
        /\ ledger'[s].maker = ledger[s].maker
        /\ ledger'[s].qty = ledger[s].qty /\ ledger'[s].stop = ledger[s].stop
    BY <1>0, <1>2 DEF ExitStart, SetStatus, Pos
  <2> DEFINE at == IF ledger[s].maker THEN "maker" ELSE "market"
  <2>4. work'[s] = At(at, ledger[s].ep)
    BY <1>0, <1>2 DEF ExitStart, Do
  <2>5. work'[s].at = at /\ SameLegs(work'[s].legs, 0, 0, 0)
    BY <2>1, <2>4, Values, Names DEF SameLegs, NoLegs
  <2>6. ledger[s].maker \/ Back(s).maker = 0
    BY <2>1 DEF ExactAt, FillsExact
  <2>7. OrdersExact(s)'
    BY <2>1, <2>2, <2>3, <2>5 DEF OrdersExact, ExactAt, Back
  <2>8. FillsExact(s)'
    BY <2>1, <2>2, <2>3, <2>5, <2>6 DEF FillsExact, ExactAt, Back
  <2>9. LegsExact(s)'
    BY <2>2, <2>3, <2>5, <2>6 DEF LegsExact, Back, SameLegs
  <2> QED BY <2>2, <2>7, <2>8, <2>9, BookedSame DEF ExactAt
<1>3. CASE ExitFills(s)
  <2>1. /\ work[s].at = "market" /\ ledger[s].status \in {"open", "closing"}
        /\ ledger[s].ep = work[s].ep /\ ledger[s].ep \in Eps /\ short[s] > 0
    BY <1>0, <1>3 DEF ExitFills, StagedAt, AlignedAt
  <2> DEFINE sh == short[s]
             b == Back(s)
             m == [b EXCEPT !.market = @ + sh]
             l == work[s].legs
  <2>2. ExitWant(s) \in Int /\ short[s] <= ExitWant(s) /\ ExitRest(s) = short[s]
    <3>1. short[s] + LegsSum(Back(s)) <= ledger[s].qty /\ work[s].legs.maker <= Back(s).maker
      BY <1>0, <2>1 DEF HeldAt, Accounts, Back
    <3>2. short[s] <= ledger[s].qty - work[s].legs.maker
      BY <1>0, <2>1, <3>1, BackOK, Amounts
    <3> QED BY <1>0, <3>2, Amounts DEF ExitRest, ExitWant, Lesser
  <2>3. /\ short' = [short EXCEPT ![s] = @ - sh]
        /\ orders' = [orders EXCEPT ![s] = Swept(@, short'[s])]
        /\ fills' = [fills EXCEPT ![s][work[s].ep].market = @ + sh]
        /\ Do(s, [work[s] EXCEPT !.at = "cancel", !.legs.market = sh])
        /\ UNCHANGED <<ledger, booked>>
    <3>1. PICK k \in 0..ExitRest(s) : \E v \in 0..k :
            /\ BuyBack(s, k, v) /\ Slips(k = ExitRest(s) /\ v = k)
            /\ \/ Do(s, [work[s] EXCEPT !.at = "cancel", !.legs.market = IF v > 0 THEN v ELSE k])
               \/ SeemsGone(s, k, v)
      BY <1>3 DEF ExitFills
    <3>2. PICK v \in 0..k :
            /\ BuyBack(s, k, v) /\ Slips(k = ExitRest(s) /\ v = k)
            /\ \/ Do(s, [work[s] EXCEPT !.at = "cancel", !.legs.market = IF v > 0 THEN v ELSE k])
               \/ SeemsGone(s, k, v)
      BY <3>1
    <3>3. k = short[s] /\ v = k
      BY <1>0, <1>1, <2>2, <3>2, NoSlip
    <3>4. short[s] > 0 /\ UNCHANGED <<ledger, booked>>
      BY <1>3 DEF ExitFills, traderVars, OutsideTasks, bookVars
    <3>5. ~SeemsGone(s, k, v)
      BY <1>0, <2>2, <3>3, <3>4 DEF SeemsGone
    <3>6. (IF v > 0 THEN v ELSE k) = short[s]
      BY <3>3
    <3> QED BY <3>2, <3>3, <3>4, <3>5, <3>6 DEF BuyBack
  <2>4. short'[s] = 0 /\ \A o \in orders'[s] : o \in orders[s] /\ o.leg # "maker"
    <3>1. short'[s] = 0
      BY <1>0, <2>3
    <3> QED BY <1>0, <2>3, <3>1 DEF Swept
  <2>5. /\ fills'[s][ledger[s].ep] = m
        /\ \A ep \in Eps : ep # ledger[s].ep => fills'[s][ep] = fills[s][ep]
    BY <1>0, <2>1, <2>3, BackOK DEF Back, TInv, Sound, TypeOK, ExchOK
  <2>6. /\ b \in Legs /\ b.maker \in Nat /\ b.market = 0 /\ b.stop = 0 /\ b.other = 0
        /\ SameLegs(l, b.maker, 0, 0) /\ l \in Legs /\ sh \in Nat /\ sh # 0
        /\ sh + LegsSum(b) = ledger[s].qty
    <3>1. b \in Legs /\ b.maker \in Nat /\ b.stop \in Nat
      BY <2>1, BackLegs
    <3>2. /\ b.market = 0 /\ b.other = 0 /\ SameLegs(l, b.maker, 0, 0)
          /\ sh + LegsSum(b) = ledger[s].qty
      BY <2>1 DEF ExactAt, FillsExact, LegsExact
    <3>3. ~(b.stop > 0)
      BY <1>0, <2>1 DEF HeldAt
    <3>4. l \in Legs
      BY <1>0 DEF Work
    <3> QED BY <1>0, <2>1, <3>1, <3>2, <3>3, <3>4
  <2>7. work'[s].at = "cancel" /\ work'[s].legs = [l EXCEPT !.market = sh]
    BY <1>0, <2>3, SeenLegs DEF Do
  <2>8. /\ m.maker = b.maker /\ m.market = sh /\ m.stop = 0 /\ m.other = 0
        /\ LegsSum(m) = sh + LegsSum(b)
    <3>1. m.maker = b.maker /\ m.market = sh /\ m.stop = 0 /\ m.other = 0
      BY <2>6 DEF Legs
    <3> HIDE DEF m, b, sh
    <3> QED BY <2>6, <3>1 DEF LegsSum
  <2>10. SameLegs(work'[s].legs, b.maker, sh, 0) /\ work'[s].legs # NoLegs
    <3> HIDE DEF l, b, sh, m
    <3>1. l \in Legs /\ SameLegs(l, b.maker, 0, 0) /\ sh # 0
      BY <2>6
    <3>2. SameLegs([l EXCEPT !.market = sh], b.maker, sh, 0)
      BY <3>1, OneLeg
    <3>3. [l EXCEPT !.market = sh] # NoLegs
      BY <3>1, OneLeg
    <3> QED BY <2>7, <3>2, <3>3
  <2>11. Back(s)' = m
    BY <2>3, <2>5 DEF Back
  <2> HIDE DEF m, b, l, sh
  <2>12. OrdersExact(s)'
    BY <2>1, <2>3, <2>4, <2>7, <2>8, <2>11 DEF OrdersExact, ExactAt
  <2>13. FillsExact(s)'
    <3>1. short'[s] + LegsSum(m) = ledger[s].qty
      BY <2>4, <2>6, <2>8, BackLegs, <2>1, Totals DEF b
    <3> QED BY <2>1, <2>3, <2>6, <2>7, <2>8, <2>11, <3>1 DEF FillsExact, ExactAt, b
  <2>14. LegsExact(s)'
    BY <2>7, <2>8, <2>10, <2>11 DEF LegsExact
  <2> QED BY <2>3, <2>5, <2>12, <2>13, <2>14, BookedSame DEF ExactAt
<1>4. CASE ExitExpires(s)
  <2>1. /\ work[s].at = "market" /\ ledger[s].status \in {"open", "closing"} /\ short[s] = 0
        /\ UNCHANGED <<ledger, short, orders, fills, booked>>
    BY <1>0, <1>4 DEF ExitExpires, StagedAt, traderVars, exchVars, OutsideTasks, bookVars
  <2>2. /\ work'[s].at = IF work[s].legs.maker = 0 THEN "force" ELSE "cancel"
        /\ work'[s].legs = work[s].legs
    BY <1>0, <1>4 DEF ExitExpires, Do, Work
  <2>3. Back(s).market = 0 /\ SameLegs(work[s].legs, Back(s).maker, 0, 0)
    BY <2>1 DEF ExactAt, FillsExact, LegsExact
  <2>4. \A o \in orders[s] : o.leg # "maker"
    BY <2>1 DEF ExactAt, OrdersExact
  <2>5. OrdersExact(s)'
    BY <2>1, <2>2, <2>4 DEF OrdersExact, ExactAt, Back
  <2>6. FillsExact(s)'
    BY <2>1, <2>2, <2>3 DEF FillsExact, ExactAt, Back
  <2>7. LegsExact(s)'
    BY <2>1, <2>2, <2>3 DEF LegsExact, Back, SameLegs, NoLegs
  <2> QED BY <2>1, <2>5, <2>6, <2>7, BookedSame DEF ExactAt
<1>5. CASE ExitFails(s)
  BY <1>1, <1>5 DEF ExitFails
<1> QED BY <1>2, <1>3, <1>4, <1>5

\* Looking for a stop that fired, and taking the stop away.
LEMMA LookExact ==
    ASSUME HeldInv, NEW s \in Sym, Smooth, Smooth', ExactAt(s), Worker(s),
           ForceCheck(s) \/ CheckStop(s) \/ CancelStop(s)
    PROVE  ExactAt(s)'
<1>0. /\ TInv /\ ledger[s] \in Pos /\ work[s] \in Work /\ AlignedAt(s) /\ StagedAt(s)
      /\ HeldAt(s) /\ short[s] \in Nat /\ work[s].got \in Nat /\ ledger[s].qty \in Nat
      /\ DOMAIN ledger = Sym /\ DOMAIN work = Sym /\ DOMAIN short = Sym
      /\ DOMAIN orders = Sym /\ DOMAIN fills = Sym /\ Seen /\ slips = 0
  BY ExactFacts
<1>1. ~Fails /\ UNCHANGED <<ledger, short, fills, booked>>
  BY SmoothWorks DEF ForceCheck, CheckStop, CancelStop, traderVars, exchVars, OutsideTasks, bookVars
<1> DEFINE b == Back(s)
           l == work[s].legs
\* It is enough to know what the thread has written down, and that no order is left.
<1>2. ASSUME ledger[s].status # "none", work[s].at # "makerset", work'[s].at = "finalize",
             orders'[s] = {}, work'[s].legs # NoLegs,
             b.maker = 0 \/ b.stop = 0 => work'[s].legs = b
      PROVE  ExactAt(s)'
  <2>1. OrdersExact(s)'
    BY <1>1, <1>2 DEF OrdersExact, ExactAt
  <2>2. FillsExact(s)'
    BY <1>1, <1>2 DEF FillsExact, ExactAt, Back
  <2>3. LegsExact(s)'
    BY <1>1, <1>2 DEF LegsExact, Back
  <2> QED BY <1>1, <2>1, <2>2, <2>3, BookedSame DEF ExactAt
<1>3. l \in Legs
  BY <1>0 DEF Work
<1>4. CASE ForceCheck(s)
  <2>1. /\ work[s].at = "force" /\ ledger[s].status \in {"open", "closing"} /\ orders' = orders
        /\ short[s] = 0
    BY <1>0, <1>4 DEF ForceCheck, StagedAt, exchVars, HeldAt
  <2>2. /\ ledger[s].stop /\ ledger[s].qty > 0 /\ short[s] + LegsSum(b) = ledger[s].qty
        /\ b.maker = 0 /\ b.market = 0 /\ b.other = 0 /\ SameLegs(l, 0, 0, 0)
    BY <2>1 DEF ExactAt, FillsExact, LegsExact
  <2>3. b \in Legs /\ b.stop \in Nat /\ Filled(s, "stop") = b.stop
        /\ LegsSum(b) = b.maker + b.market + b.stop + b.other
    BY <1>0, <2>1, BackLegs, BackOK
  <2>6. b.stop > 0
    <3> DEFINE x == b.stop
    <3>1. x \in Nat /\ ledger[s].qty = 0 + (0 + 0 + x + 0)
      BY <2>1, <2>2, <2>3
    <3> HIDE DEF x
    <3>2. x > 0
      BY <2>2, <3>1
    <3> QED BY <3>2 DEF x
  <2>4. Do(s, [work[s] EXCEPT !.at = "finalize", !.legs.stop = b.stop])
    BY <1>1, <1>4, <2>2, <2>3, <2>6 DEF ForceCheck, StopTaken
  <2>5. work'[s].at = "finalize" /\ work'[s].legs = [l EXCEPT !.stop = b.stop]
    BY <1>0, <2>4, SeenLegs DEF Do
  <2>7. orders[s] = {}
    BY <2>1, <2>6 DEF ExactAt, OrdersExact
  <2> HIDE DEF l, b
  <2>8. SameLegs(work'[s].legs, 0, 0, b.stop)
    <3>1. SameLegs([l EXCEPT !.stop = b.stop], 0, 0, b.stop)
      BY <1>3, <2>2, OneLeg
    <3> QED BY <2>5, <3>1
  <2>9. work'[s].legs # NoLegs /\ work'[s].legs \in Legs
    BY <2>3, <2>5, <2>6, <2>8, <1>3 DEF SameLegs, NoLegs, Legs
  <2>10. work'[s].legs = b
    BY <2>2, <2>3, <2>8, <2>9, EqualLegs
  <2> QED BY <1>2, <2>1, <2>5, <2>7, <2>9, <2>10 DEF b
<1>5. CASE CheckStop(s)
  <2>1. /\ ledger[s].status \in {"open", "closing"} /\ work[s].at = "idle" /\ orders' = orders
        /\ ledger[s].ep \in Eps
    BY <1>0, <1>5, LiveStatus, LiveEp, Names DEF CheckStop, exchVars
  <2>2. CASE work' = work
    BY <1>1, <2>1, <2>2, SameExact
  <2>3. CASE /\ Filled(s, "stop") > 0
             /\ Do(s, [At("finalize", ledger[s].ep) EXCEPT !.legs.stop = Filled(s, "stop")])
    <3> DEFINE v == At("finalize", ledger[s].ep)
    <3>1. v \in Work /\ v.at = "finalize" /\ v.legs = NoLegs
      BY <2>1, Values, Names
    <3>2. b \in Legs /\ b.stop \in Nat /\ Filled(s, "stop") = b.stop /\ b.stop > 0
      BY <1>0, <2>1, <2>3, BackLegs, BackOK
    <3>3. work'[s] = [v EXCEPT !.legs.stop = b.stop]
      BY <1>0, <2>3, <3>2 DEF Do
    <3> HIDE DEF v
    <3>4. work'[s].at = "finalize" /\ work'[s].legs = [NoLegs EXCEPT !.stop = b.stop]
      BY <3>1, <3>3, SeenLegs
    <3>5. orders[s] = {} /\ b.market = 0 /\ b.other = 0
      BY <2>1, <3>2 DEF ExactAt, OrdersExact, FillsExact
    <3> HIDE DEF b
    <3>6. /\ SameLegs(work'[s].legs, 0, 0, b.stop) /\ work'[s].legs # NoLegs
          /\ work'[s].legs \in Legs
      BY <3>2, <3>4 DEF SameLegs, NoLegs, Legs
    <3>7. b.maker = 0 => work'[s].legs = b
      BY <3>2, <3>5, <3>6, EqualLegs
    <3> QED BY <1>2, <2>1, <3>2, <3>4, <3>5, <3>6, <3>7 DEF b
  <2> QED BY <1>1, <1>5, <2>2, <2>3 DEF CheckStop
<1>6. CASE CancelStop(s)
  <2>1. /\ work[s].at = "cancel" /\ ledger[s].status \in {"open", "closing"} /\ short[s] = 0
        /\ ledger[s].ep = work[s].ep
    BY <1>0, <1>6 DEF CancelStop, StagedAt, HeldAt, AlignedAt
  <2>2. /\ ledger[s].stop /\ b.other = 0 /\ (b.stop = 0 \/ b.market = 0)
        /\ SameLegs(l, b.maker, b.market, 0) /\ l # NoLegs
    BY <2>1 DEF ExactAt, FillsExact, LegsExact
  <2>3. orders' = [orders EXCEPT ![s] = @ \ OrdersOf(s, "stop", work[s].ep)]
    BY <1>1, <1>6, <2>2 DEF CancelStop
  <2>4. \A o \in orders[s] : o.ep = ledger[s].ep /\ o.leg # "maker" /\ o.leg \in Leg
    BY <1>0, <2>1, Parts DEF ExactAt, OrdersExact, Order
  <2>5. orders'[s] = {}
    <3>1. orders'[s] = orders[s] \ OrdersOf(s, "stop", work[s].ep)
      BY <1>0, <2>3
    <3> QED BY <2>1, <2>4, <3>1 DEF OrdersOf, Leg
  <2>6. work'[s].at = "finalize" /\ work'[s].legs = l
    BY <1>0, <1>6 DEF CancelStop, Do, Work
  <2>7. b \in Legs /\ b.stop \in Nat
    BY <2>1, BackLegs
  <2> HIDE DEF l, b
  <2>8. b.stop = 0 => l = b
    BY <1>3, <2>2, <2>7, EqualLegs
  <2>9. b.stop # 0 => b.maker # 0
    <3>1. ~(b.maker = 0 /\ b.market = 0)
      BY <1>3, <2>2 DEF SameLegs, NoLegs, Legs
    <3> QED BY <2>2, <3>1
  <2> QED BY <1>2, <2>1, <2>2, <2>5, <2>6, <2>8, <2>9 DEF b
<1> QED BY <1>4, <1>5, <1>6

\* Booking the trade on what the order thread has seen.
LEMMA BookExact ==
    ASSUME HeldInv, NEW s \in Sym, Smooth, ExactAt(s), Worker(s),
           Finalize(s) \/ StoreTrade(s) \/ HaltGuard(s)
    PROVE  ExactAt(s)'
<1>0. /\ TInv /\ ledger[s] \in Pos /\ work[s] \in Work /\ AlignedAt(s) /\ StagedAt(s)
      /\ HeldAt(s) /\ short[s] \in Nat /\ work[s].got \in Nat /\ ledger[s].qty \in Nat
      /\ DOMAIN ledger = Sym /\ DOMAIN work = Sym /\ DOMAIN short = Sym
      /\ DOMAIN orders = Sym /\ DOMAIN fills = Sym /\ Seen /\ slips = 0
  BY ExactFacts
<1>1. UNCHANGED <<short, orders, fills>>
  BY DEF Finalize, StoreTrade, HaltGuard, exchVars
<1>2. CASE Finalize(s)
  <2>1. work[s].at = "finalize" /\ ledger[s].ep = work[s].ep /\ work[s].ep \in Eps
    BY <1>0, <1>2 DEF Finalize, AlignedAt
  <2>2. /\ ledger'[s] = Flat
        /\ \E net : booked' = [booked EXCEPT ![s][work[s].ep] =
                                   [n |-> @.n + 1, legs |-> work[s].legs, net |-> net]]
    BY <1>0, <1>2 DEF Finalize, Book
  <2>3. work'[s].at = "store"
    BY <1>0, <1>2 DEF Finalize, Do, Work
  <2>4. orders[s] = {}
    BY <2>1 DEF ExactAt, OrdersExact
  <2>5. OrdersExact(s)' /\ FillsExact(s)' /\ LegsExact(s)'
    BY <1>1, <2>2, <2>3, <2>4, Values DEF OrdersExact, FillsExact, LegsExact
  <2>6. BookedExact(s)'
    <3>1. /\ booked'[s][work[s].ep].legs = work[s].legs
          /\ \A ep \in Eps : ep # work[s].ep => booked'[s][ep] = booked[s][ep]
      BY <1>0, <2>1, <2>2 DEF TInv, Sound, TypeOK, BookOK
    <3>2. /\ work[s].legs # NoLegs
          /\ fills[s][work[s].ep].maker = 0 \/ fills[s][work[s].ep].stop = 0
                => work[s].legs = fills[s][work[s].ep]
      BY <2>1 DEF ExactAt, LegsExact, Back
    <3> QED BY <1>1, <3>1, <3>2 DEF ExactAt, BookedExact
  <2> QED BY <2>5, <2>6 DEF ExactAt
<1>3. CASE StoreTrade(s) \/ HaltGuard(s)
  <2>1. work[s].at \in {"store", "halt"} /\ UNCHANGED <<ledger, booked>>
    BY <1>3 DEF StoreTrade, HaltGuard, traderVars, bookVars
  <2>2. work'[s].at \in {"halt", "idle"}
    BY <1>0, <1>3, Values DEF StoreTrade, HaltGuard, Do, Work
  <2>3. OrdersExact(s)'
    BY <1>1, <2>1, <2>2 DEF OrdersExact, ExactAt, Back
  <2>4. FillsExact(s)'
    BY <1>1, <2>1, <2>2 DEF FillsExact, ExactAt, Back
  <2>5. LegsExact(s)'
    BY <2>2 DEF LegsExact
  <2> QED BY <1>1, <2>1, <2>3, <2>4, <2>5, BookedSame DEF ExactAt
<1> QED BY <1>2, <1>3

\* The order thread keeps it.
LEMMA WorkerExact ==
    ASSUME HeldInv, Sweeps, NEW s \in Sym, Smooth, Smooth', ExactAt(s), Worker(s)
    PROVE  ExactAt(s)'
BY EntryExact, MakerExact, SellExact, LookExact, BookExact DEF Worker

\* The event loop: the fills of a position that is only just asked for are none.
LEMMA LoopExact ==
    ASSUME HeldInv, NEW s \in Sym, Smooth, ExactAt(s), Loop(s)
    PROVE  ExactAt(s)'
<1>0. TInv /\ HeldAt(s) /\ AlignedAt(s) /\ lastSig[s] \in Nat
  BY ExactFacts, Numbers
<1>1. UNCHANGED <<work, short, orders, fills, booked>>
  BY <1>0, LoopKeeps
<1> DEFINE ep == lastSig[s] + 1
<1>2. CASE ledger[s].status = "none" /\ ep \in Eps /\ ledger'[s] = Opening(ep)
  <2>1. ledger'[s].status = "opening" /\ ledger'[s].ep = ep
    BY <1>2, Values DEF Opening, Flat
  <2>2. fills[s][ep] = NoLegs
    BY <1>0, <1>2 DEF HeldAt, PastAt
  <2>3. Back(s)' = NoLegs
    BY <1>1, <2>1, <2>2 DEF Back
  <2>4. orders[s] = {} /\ work[s].at \in {"idle", "store", "halt"}
    BY <1>0, <1>2 DEF ExactAt, OrdersExact, AlignedAt
  <2>5. NoLegs.maker = 0 /\ NoLegs.market = 0 /\ NoLegs.stop = 0 /\ NoLegs.other = 0
    BY DEF NoLegs
  <2> HIDE DEF ep
  <2>6. OrdersExact(s)' /\ LegsExact(s)'
    BY <1>1, <2>1, <2>4, <2>3, <2>5 DEF OrdersExact, LegsExact
  <2>7. FillsExact(s)'
    BY <1>1, <2>1, <2>3, <2>4, <2>5 DEF FillsExact
  <2>8. BookedExact(s)'
    BY <1>1 DEF ExactAt, BookedExact
  <2> QED BY <2>6, <2>7, <2>8 DEF ExactAt
<1> QED BY <1>0, <1>1, <1>2, LoopKeeps, SameExact

\* An order that executes is one of the position in the ledger, and what it buys back
\* is counted there.
LEMMA ExecutesCounts ==
    ASSUME HeldInv, Smooth, NEW s \in Sym, ExactAt(s), NEW o \in orders[s], NEW k \in Nat,
           k <= short[s], NEW rest, Executes(s, o, k, rest), ledger' = ledger
    PROVE  /\ ledger[s].status # "none" /\ o.ep = ledger[s].ep /\ Back(s).stop = 0
           /\ Back(s) \in Legs /\ Back(s)' \in Legs
           /\ o.leg \in {"maker", "stop"}
           /\ Back(s)'.maker = IF o.leg = "maker" THEN Back(s).maker + k ELSE Back(s).maker
           /\ Back(s)'.stop = IF o.leg = "stop" THEN k ELSE 0
           /\ Back(s)'.market = Back(s).market /\ Back(s)'.other = Back(s).other
           /\ short'[s] \in Nat /\ short'[s] = short[s] - k
           /\ short'[s] + LegsSum(Back(s)') = short[s] + LegsSum(Back(s))
           /\ \A ep \in Eps : ep # ledger[s].ep => fills'[s][ep] = fills[s][ep]
<1> DEFINE b == Back(s)
           leg == o.leg
           m == [b EXCEPT ![leg] = @ + k]
<1>0. /\ TInv /\ short[s] \in Nat /\ leg \in {"maker", "stop"} /\ DOMAIN short = Sym
      /\ fills \in [Sym -> [Eps -> Legs]]
  BY ExactFacts, Parts DEF Order, Leg, TInv, Sound, TypeOK, ExchOK
<1>1. ledger[s].status # "none" /\ o.ep = ledger[s].ep /\ ~(b.stop > 0)
  BY DEF ExactAt, OrdersExact
<1>2. b \in Legs /\ b.maker \in Nat /\ b.stop \in Nat /\ ledger[s].ep \in Eps
  BY <1>0, <1>1, BackLegs, Amounts
<1>3. b.stop = 0
  BY <1>1, <1>2
<1>4. fills' = [fills EXCEPT ![s][ledger[s].ep] = m]
  BY <1>1 DEF Executes, Added, Back
<1>5. /\ fills'[s][ledger[s].ep] = m
      /\ \A ep \in Eps : ep # ledger[s].ep => fills'[s][ep] = fills[s][ep]
  BY <1>0, <1>2, <1>4
<1>6. Back(s)' = m
  BY <1>5 DEF Back
<1>7. short'[s] = short[s] - k /\ short'[s] \in Nat
  BY <1>0 DEF Executes
<1> HIDE DEF b, leg
<1>8. m \in Legs /\ LegsSum(m) = LegsSum(b) + k
  BY <1>0, <1>2, MoreFills
<1>9. /\ m.maker = IF leg = "maker" THEN b.maker + k ELSE b.maker
      /\ m.stop = IF leg = "stop" THEN b.stop + k ELSE b.stop
      /\ m.market = b.market /\ m.other = b.other
  BY <1>0, <1>2 DEF Legs
<1>10. short'[s] + LegsSum(m) = short[s] + LegsSum(b)
  <2>1. LegsSum(b) \in Nat
    BY <1>2, Totals
  <2> HIDE DEF m
  <2> QED BY <1>0, <1>7, <1>8, <2>1
<1> HIDE DEF m
<1> QED BY <1>0, <1>1, <1>2, <1>3, <1>5, <1>6, <1>7, <1>8, <1>9, <1>10 DEF b, leg

\* The exchange and the clock keep it: the stop leaves nothing behind, the maker exit
\* is filled while it may be.
LEMMA OutsideExact ==
    ASSUME HeldInv, Sweeps, NEW s \in Sym, Smooth, ExactAt(s), Exchange(s) \/ Tick(s)
    PROVE  ExactAt(s)'
<1>0. /\ TInv /\ ledger[s] \in Pos /\ work[s] \in Work /\ AlignedAt(s) /\ StagedAt(s)
      /\ HeldAt(s) /\ short[s] \in Nat /\ DOMAIN short = Sym /\ DOMAIN orders = Sym
      /\ \A o \in orders[s] : o \in Order /\ o.left \in Nat /\ o.leg \in Leg
  BY ExactFacts, Parts, Constants DEF Order
<1>1. UNCHANGED <<ledger, work, booked>>
  BY DEF Exchange, MakerFills, MakerExpires, StopFires, TradesShow, Tick, Outside, traderVars,
     taskVars, bookVars
<1>2. CASE MakerFills(s)
  <2>1. PICK o \in orders[s] :
          /\ o.leg = "maker"
          /\ \E k \in 1..Lesser(o.left, short[s]) :
                Executes(s, o, k, IF k = o.left THEN {} ELSE {[o EXCEPT !.left = @ - k]})
    BY <1>2 DEF MakerFills
  <2>2. PICK k \in 1..Lesser(o.left, short[s]) :
            Executes(s, o, k, IF k = o.left THEN {} ELSE {[o EXCEPT !.left = @ - k]})
    BY <2>1
  <2>3. k \in Nat /\ k <= short[s]
    BY <1>0 DEF Lesser
  <2> DEFINE rest == IF k = o.left THEN {} ELSE {[o EXCEPT !.left = @ - k]}
  <2>4. \A r \in rest : r.ep = o.ep /\ r.leg = "maker"
    BY <1>0, <2>1 DEF Order
  <2> HIDE DEF rest
  <2>5. Executes(s, o, k, rest)
    BY <2>2 DEF rest
  <2>6. /\ ledger[s].status # "none" /\ o.ep = ledger[s].ep
        /\ Back(s)'.stop = 0 /\ Back(s)'.market = Back(s).market /\ Back(s)'.other = Back(s).other
        /\ short'[s] \in Nat
        /\ short'[s] + LegsSum(Back(s)') = short[s] + LegsSum(Back(s))
        /\ \A ep \in Eps : ep # ledger[s].ep => fills'[s][ep] = fills[s][ep]
    BY <1>1, <2>1, <2>3, <2>5, ExecutesCounts
  <2>7. \A r \in orders'[s] : /\ r \in orders[s] \/ r \in rest
                              /\ short'[s] = 0 => r.leg # "maker"
    BY <1>0, <2>5 DEF Executes, Swept
  <2>8. \/ work[s].at = "makerset" /\ ledger[s].status = "open"
        \/ work[s].at = "maker" /\ ledger[s].maker
        \/ work[s].at = "idle" /\ ledger[s].maker /\ ledger[s].status = "open"
    BY <2>1 DEF ExactAt, OrdersExact
  <2>9. OrdersExact(s)'
    <3>1. \A r \in orders'[s] : r.ep = ledger[s].ep /\ (r.leg = "stop" => r.left = 0)
      BY <2>4, <2>6, <2>7 DEF ExactAt, OrdersExact
    <3>2. ledger[s].status # "opening"
      BY <1>0, <2>8 DEF StagedAt
    <3>3. \A r \in orders'[s] : r.leg = "maker" => short'[s] > 0
      BY <2>6, <2>7
    <3> QED BY <1>1, <2>6, <2>8, <3>1, <3>2, <3>3 DEF OrdersExact
  <2>10. FillsExact(s)'
    <3>1. ledger[s].maker \/ work[s].at = "makerset"
      BY <2>8
    <3>2. Back(s).other = 0 /\ Back(s).market = 0
      BY <2>6, <2>8 DEF ExactAt, FillsExact
    <3>3. ledger[s].status \in {"open", "closing"} =>
          ledger[s].stop /\ ledger[s].qty > 0 /\ short[s] + LegsSum(Back(s)) = ledger[s].qty
      BY DEF ExactAt, FillsExact
    <3> QED BY <1>1, <2>6, <2>8, <3>1, <3>2, <3>3 DEF FillsExact
  <2>11. LegsExact(s)'
    BY <1>1, <2>8 DEF ExactAt, LegsExact
  <2> QED BY <1>1, <2>6, <2>9, <2>10, <2>11, BookedSame DEF ExactAt
<1>3. CASE MakerExpires(s)
  BY <1>0, <1>3 DEF MakerExpires, ExactAt, OrdersExact
<1>4. CASE StopFires(s)
  <2>1. PICK o \in orders[s] : o.leg = "stop" /\ Executes(s, o, short[s], {})
    BY <1>4 DEF StopFires
  <2>2. /\ ledger[s].status # "none" /\ o.ep = ledger[s].ep /\ Back(s).stop = 0
        /\ Back(s)'.maker = Back(s).maker /\ Back(s)'.stop = short[s]
        /\ Back(s)'.market = Back(s).market /\ Back(s)'.other = Back(s).other
        /\ short'[s] = 0 /\ short'[s] + LegsSum(Back(s)') = short[s] + LegsSum(Back(s))
        /\ \A ep \in Eps : ep # ledger[s].ep => fills'[s][ep] = fills[s][ep]
    <3>1. short[s] <= short[s] /\ short[s] - short[s] = 0
      BY <1>0
    <3> QED BY <1>0, <1>1, <2>1, <3>1, ExecutesCounts
  <2>3. orders'[s] = {}
    <3>1. \A r \in orders'[s] : r \in orders[s] /\ r # o /\ r.leg # "maker"
      BY <1>0, <2>1, <2>2 DEF Executes, Swept
    <3>2. \A r \in orders[s] : r.leg = "stop" => r = o
      BY <1>0, <2>1 DEF ExactAt, OrdersExact, Order
    <3> QED BY <1>0, <3>1, <3>2 DEF Leg
  <2>4. /\ work[s].at # "filled" /\ work[s].at # "finalize"
        /\ work[s].at \in {"cancel", "force"} => short[s] = 0
    <3>1. work[s].at # "filled" /\ work[s].at # "finalize"
      BY <1>0 DEF ExactAt, OrdersExact, StagedAt
    <3> QED BY <1>0, <3>1 DEF HeldAt
  <2>5. OrdersExact(s)'
    BY <1>1, <2>3 DEF OrdersExact, ExactAt
  <2>6. FillsExact(s)'
    <3>1. short[s] = 0 \/ Back(s).market = 0
      BY <2>2, <2>4 DEF ExactAt, FillsExact
    <3> HIDE DEF ExactAt
    <3>2. FillsExact(s)
      BY DEF ExactAt
    <3> QED BY <1>1, <2>2, <2>4, <3>1, <3>2 DEF FillsExact
  <2>7. LegsExact(s)'
    <3>1. LegsExact(s)
      BY DEF ExactAt
    <3> QED BY <1>1, <2>2, <2>4, <3>1 DEF LegsExact
  <2> QED BY <1>1, <2>2, <2>5, <2>6, <2>7, BookedSame DEF ExactAt
<1>5. CASE Tick(s)
  BY <1>1, <1>5, SameExact DEF Tick, exchVars
<1>6. CASE TradesShow(s)
  BY <1>1, <1>6, SameExact DEF TradesShow
<1> QED BY <1>2, <1>3, <1>4, <1>5, <1>6 DEF Exchange

\* Every step keeps it.
LEMMA NextExact == ASSUME HeldInv, StopStands, Exact, [Next]_vars PROVE Exact'
<1> SUFFICES ASSUME Sweeps, Smooth', NEW t \in Sym PROVE ExactAt(t)'
  BY DEF Exact
<1>1. TInv /\ Smooth /\ Calm' /\ proc = "up" /\ \A u \in Sym : ExactAt(u)
  <2>1. TInv /\ Seen /\ Calm' /\ slips' = 0
    BY DEF HeldInv, LedgerInv, Smooth
  <2>2. Calm /\ slips = 0
    BY <2>1, StayCalm, NextSeen
  <2> QED BY <2>1, <2>2 DEF StopStands, Exact, Smooth
<1>2. ASSUME NEW s \in Sym, Loop(s) \/ Worker(s) \/ Exchange(s) \/ Tick(s) \/ Recover(s)
      PROVE  ExactAt(t)'
  <2>1. ~Recover(s)
    BY <1>1 DEF Recover, Recovering, RecoverRefused, RecoverFlat, RecoverOpen, RecoverClosed
  <2>2. CASE t # s
    <3>1. UNCHANGED Local(t)
      BY <1>1, <1>2, <2>2, Elsewhere
    <3> QED BY <1>1, <3>1, SameExact DEF Local
  <2>3. CASE t = s
    BY <1>1, <1>2, <2>1, <2>3, WorkerExact, LoopExact, OutsideExact
  <2> QED BY <2>2, <2>3
<1>3. CASE ConsumeResume \/ UNCHANGED vars
  BY <1>1, <1>3, SameExact DEF ConsumeResume, vars, traderVars, taskVars, exchVars, bookVars
<1>4. CASE Crash \/ Start \/ RecoverDone
  BY <1>1, <1>4 DEF Crash, Start, RecoverDone, Smooth, Calm, TInv, Sound, TypeOK, ProcOK
<1> QED BY <1>2, <1>3, <1>4 DEF Next

\* There is nothing at the start.
LEMMA InitExact == Init => StopStands /\ Exact
<1> SUFFICES ASSUME Init, NEW s \in Sym PROVE StopStandsAt(s) /\ ExactAt(s)
  BY DEF StopStands, Exact, Init
<1>1. /\ ledger[s] = Flat /\ work[s] = Idle /\ orders[s] = {}
      /\ \A ep \in Eps : booked[s][ep].n = 0
  BY DEF Init
<1> QED BY <1>1, Values
    DEF StopStandsAt, ExactAt, OrdersExact, FillsExact, LegsExact, BookedExact

\* The invariants together.
LEMMA ExactHolds == Spec => [](HeldInv /\ StopStands /\ Exact)
<1>1. Init => StopStands /\ Exact
  BY InitExact
<1>2. HeldInv /\ StopStands /\ Exact /\ [Next]_vars => StopStands' /\ Exact'
  BY NextStands, NextExact DEF HeldInv
<1> QED BY <1>1, <1>2, HeldInvHolds, PTL DEF Spec

\* When no call fails, no trade is seen late and no exit is filled in part, and on an
\* exchange that sweeps reduceOnly orders, a trade is booked on the fills that closed
\* it: on all of them unless a maker part was followed by the stop, and never on none.
THEOREM BookedOnItsFillsHolds == ASSUME Sweeps PROVE Spec => []BookedOnItsFills
<1>1. HeldInv /\ StopStands /\ Exact => BookedOnItsFills
  BY DEF BookedOnItsFills, Exact, Smooth, Calm, ExactAt, BookedExact
<1> QED BY <1>1, ExactHolds, PTL
=============================================================================
