--------------------------- MODULE ExecutionProofs ---------------------------
(***************************************************************************)
(* The two brokers behind the guard, for every number of orders, trades,   *)
(* errors and restarts.                                                    *)
(***************************************************************************)
EXTENDS Execution, TLAPS, WellFoundedInduction, SequenceTheorems

-----------------------------------------------------------------------------
(* The simulated exchange: no trade through a resting order is passed over. *)

\* A poll is a record; what it reads, the database shows.
PollShape == poll \in [on : BOOLEAN, at : Nat, upto : Nat, todo : SUBSET Nat]

\* Orders are placed on the tape there is, and the file is behind the memory.
TimesOK ==
    /\ \A i \in DOMAIN orders : orders[i].placed <= Len(tape)
    /\ disk.cursor <= cursor

\* The file has the first of the orders, each as it is: only an order on a
\* stale market is not saved, and it is the last one then.
FileOK ==
    /\ Len(disk.orders) <= Len(orders)
    /\ \A i \in 1..Len(disk.orders) : disk.orders[i] = orders[i]

\* A poll goes on from the cursor, or from the first order that rests.
PollOK ==
    /\ poll.on => \/ cursor = poll.at
                  \/ cursor = None /\ \A i \in Resting : poll.at <= orders[i].placed
    /\ poll.todo # {} => poll.on /\ cursor = poll.at

PaperInv == PaperTypeOK /\ PollShape /\ TimesOK /\ FileOK /\ PollOK /\ NoTradePassed

\* Quantities are numbers above nothing.
LEMMA QuantityNat ==
    ASSUME NEW q \in Quantities
    PROVE  q \in Nat /\ q \in Int /\ q > 0
  BY PaperAssumption

\* A new order comes last, with the time of the tape's end.
LEMMA Registering ==
    ASSUME PaperInv, Calm, NEW r \in Request, NEW st \in Statuses, Registered(r, st)
    PROVE  /\ orders' \in Seq(Order) /\ Len(orders') = Len(orders) + 1 /\ Len(orders') <= MaxOrders
           /\ \A i \in 1..Len(orders) : orders'[i] = orders[i]
           /\ orders'[Len(orders) + 1].placed = Len(tape)
<1>1. /\ orders \in Seq(Order) /\ Len(orders) \in Nat /\ Len(tape) \in 0..MaxTrades
      /\ Len(orders) < MaxOrders /\ MaxOrders \in Nat
  BY PaperAssumption DEF PaperInv, PaperTypeOK, Calm
<1> DEFINE o == [New(r) EXCEPT !.status = st]
<1>2. o \in Order /\ o.placed = Len(tape)
  BY <1>1 DEF New, Order, Request, Statuses
<1>3. orders' = Append(orders, o)
  BY DEF Registered
<1> HIDE DEF o
<1> QED  BY <1>1, <1>2, <1>3

\* An order's status changes, and nothing else.
LEMMA Changing ==
    ASSUME PaperInv, NEW k \in DOMAIN orders, NEW st \in Statuses, Becomes(k, st)
    PROVE  /\ orders' \in Seq(Order) /\ Len(orders') = Len(orders)
           /\ \A i \in DOMAIN orders : i # k => orders'[i] = orders[i]
           /\ orders'[k].placed = orders[k].placed /\ orders'[k].status = st
<1>1. orders \in Seq(Order) /\ orders[k] \in Order
  BY DEF PaperInv, PaperTypeOK
<1> DEFINE o == [orders[k] EXCEPT !.status = st]
<1>2. o \in Order /\ o.placed = orders[k].placed /\ o.status = st
  BY <1>1 DEF Order
<1>3. orders' = [orders EXCEPT ![k] = o]
  BY DEF Becomes
<1> HIDE DEF o
<1> QED  BY <1>1, <1>2, <1>3

\* The numbers of a state.
LEMMA Numbers ==
    ASSUME PaperInv
    PROVE  /\ Len(tape) \in Nat /\ DOMAIN tape = 1..Len(tape) /\ shown \in 0..Len(tape)
           /\ Len(orders) \in Nat /\ DOMAIN orders = 1..Len(orders)
           /\ \A i \in DOMAIN orders : orders[i].placed \in Nat /\ orders[i].placed <= Len(tape)
           /\ cursor \in Int /\ -1 <= cursor /\ cursor <= Len(tape)
           /\ poll.at \in Nat /\ poll.upto \in Nat /\ poll.at <= shown /\ poll.upto <= shown
           /\ Len(disk.orders) \in Nat /\ disk.cursor \in Int
<1>1. /\ tape \in Seq(Prices) /\ orders \in Seq(Order) /\ disk.orders \in Seq(Order)
      /\ disk.cursor \in (0..Len(tape)) \cup {None}
  BY DEF PaperInv, PaperTypeOK
<1>2. /\ Len(tape) \in Nat /\ DOMAIN tape = 1..Len(tape) /\ Len(orders) \in Nat
      /\ DOMAIN orders = 1..Len(orders) /\ Len(disk.orders) \in Nat
  BY <1>1
<1>3. \A i \in DOMAIN orders : orders[i].placed \in Nat
  <2>1. MaxTrades \in Nat /\ \A i \in DOMAIN orders : orders[i] \in Order
    BY <1>1, PaperAssumption
  <2> QED BY <2>1 DEF Order
<1>4. cursor \in (0..Len(tape)) \cup {None} /\ shown \in 0..Len(tape)
      /\ poll.at \in 0..shown /\ poll.upto \in 0..shown
  BY DEF PaperInv, PaperTypeOK
<1> QED  BY <1>1, <1>2, <1>3, <1>4 DEF PaperInv, TimesOK, None

\* An order is placed.
LEMMA PaperPlaces ==
    ASSUME PaperInv, NEW r \in Request, NEW answer, PaperPlace(r, answer)
    PROVE  PaperInv'
<1>1. /\ Calm /\ UNCHANGED <<tape, shown, poll, skipped>>
      /\ \E st \in Statuses : Registered(r, st)
      /\ cursor' = cursor \/ (Resting = {} /\ cursor' = Len(tape))
      /\ Save \/ (cursor' = cursor /\ disk' = disk)
  BY DEF PaperPlace, PlaceUseless, PlaceMarket, PlaceLimit, PlaceStop, PlaceStale, ResetCursor, Statuses
<1>2. pos' \in Int
  <2>1. pos \in Int /\ r.qty \in Int /\ Sign(r.side) \in {1, -1}
    <3>1. pos \in Int
      BY DEF PaperInv, PaperTypeOK
    <3>2. r.qty \in Int
      <4>1. r.qty \in Quantities
        BY DEF Request
      <4>2. \A q \in Quantities : q \in Int
        BY QuantityNat
      <4> QED BY <4>1, <4>2
    <3> QED BY <3>1, <3>2 DEF Sign
  <2>2. pos' = pos \/ pos' = pos + Sign(r.side) * r.qty
    BY DEF PaperPlace, PlaceUseless, PlaceMarket, PlaceLimit, PlaceStop, PlaceStale
  <2> QED BY <2>1, <2>2
<1>3. pfaults' \in 0..MaxPaperFaults
  <2>1. pfaults' = pfaults \/ (pfaults < MaxPaperFaults /\ pfaults' = pfaults + 1)
    BY DEF PaperPlace, PlaceUseless, PlaceMarket, PlaceLimit, PlaceStop, PlaceStale, StaleBook
  <2>2. pfaults \in 0..MaxPaperFaults /\ MaxPaperFaults \in Nat
    BY PaperAssumption DEF PaperInv, PaperTypeOK
  <2> QED BY <2>1, <2>2
<1>4. /\ orders' \in Seq(Order) /\ Len(orders') = Len(orders) + 1 /\ Len(orders') <= MaxOrders
      /\ \A i \in 1..Len(orders) : orders'[i] = orders[i]
      /\ orders'[Len(orders) + 1].placed = Len(tape)
  BY <1>1, Registering
<1>5. poll = Idle /\ poll' = Idle
  BY <1>1 DEF Calm, PaperInv, PaperTypeOK
<1>6. DOMAIN orders = 1..Len(orders) /\ DOMAIN orders' = 1..(Len(orders) + 1) /\ Len(orders) \in Nat
  <2>1. orders \in Seq(Order)
    BY DEF PaperInv, PaperTypeOK
  <2> QED BY <1>4, <2>1
<1>7. TimesOK' /\ FileOK'
  <2>0. cursor \in Int /\ disk.cursor \in Int /\ cursor <= Len(tape) /\ Len(tape) \in Nat
        /\ disk.cursor <= cursor /\ Len(disk.orders) \in Nat
        /\ \A i \in 1..Len(orders) : orders[i].placed <= Len(tape)
    BY Numbers DEF PaperInv, TimesOK
  <2>1. \A i \in DOMAIN orders' : orders'[i].placed <= Len(tape)'
    BY <2>0, <1>1, <1>4, <1>6
  <2>2. disk'.cursor <= cursor'
    BY <2>0, <1>1 DEF Save
  <2>3. CASE Save
    <3>1. disk'.orders = orders' /\ Len(orders') \in Nat
      BY <2>3, <1>4, <1>6 DEF Save
    <3> QED BY <2>1, <2>2, <3>1 DEF TimesOK, FileOK
  <2>4. CASE disk' = disk
    <3>1. FileOK'
      BY <2>0, <2>4, <1>4, <1>6 DEF PaperInv, FileOK
    <3> QED BY <2>1, <2>2, <3>1 DEF TimesOK
  <2> QED BY <1>1, <2>3, <2>4
<1>8. PaperTypeOK'
  <2>1. disk' \in [orders : Seq(Order), pos : Int, cursor : (0..Len(tape)) \cup {None}]
    <3>1. disk \in [orders : Seq(Order), pos : Int, cursor : (0..Len(tape)) \cup {None}]
      BY DEF PaperInv, PaperTypeOK
    <3>2. cursor' \in (0..Len(tape)) \cup {None}
      BY <1>1, Numbers DEF PaperInv, PaperTypeOK
    <3>3. CASE Save
      BY <1>2, <1>4, <3>2, <3>3 DEF Save
    <3>4. CASE disk' = disk
      BY <3>1, <3>4
    <3> QED BY <1>1, <3>3, <3>4
  <2>2. /\ tape' \in Seq(Prices) /\ Len(tape') <= MaxTrades /\ shown' \in 0..Len(tape')
        /\ skipped' \subseteq 1..MaxOrders /\ Len(tape') = Len(tape)
    BY <1>1 DEF PaperInv, PaperTypeOK
  <2>3. cursor' \in (0..Len(tape')) \cup {None}
    BY <1>1, Numbers DEF PaperInv, PaperTypeOK
  <2>4. /\ poll'.on \in BOOLEAN /\ poll'.at \in 0..shown' /\ poll'.upto \in 0..shown'
        /\ poll'.todo \subseteq {i \in DOMAIN orders' : orders'[i].status = "NEW"}
    BY <1>1, <1>5, Numbers DEF Idle
  <2> QED BY <1>2, <1>3, <1>4, <1>5, <2>1, <2>2, <2>3, <2>4 DEF PaperTypeOK
<1>9. NoTradePassed'
  <2> SUFFICES ASSUME NEW i \in Resting', i \notin skipped, NEW t \in Behind(i)'
               PROVE  ~Hits(orders[i], t)'
    BY <1>1 DEF NoTradePassed
  <2>1. t \in 1..Len(tape) /\ orders'[i].placed < t /\ t <= cursor' /\ i \in 1..(Len(orders) + 1)
    BY <1>1, <1>6, Numbers DEF Behind, Resting
  <2>2. i \in 1..Len(orders) /\ orders'[i] = orders[i]
    BY <2>1, <1>4, <1>6, Numbers
  <2>3. i \in Resting /\ cursor' = cursor
    BY <2>2, <1>1, <1>6 DEF Resting, Open
  <2>4. t \in Behind(i)
    BY <2>1, <2>2, <2>3, <1>5, Numbers DEF Behind, Idle
  <2>5. ~Hits(orders[i], t)
    BY <2>3, <2>4 DEF PaperInv, NoTradePassed
  <2> QED BY <2>2, <2>5, <1>1 DEF Hits
<1>10. PollShape' /\ PollOK'
  BY <1>5 DEF PollShape, PollOK, Idle
<1> QED  BY <1>7, <1>8, <1>9, <1>10 DEF PaperInv

\* The status of an order that rests changes, and the file is written.
LEMMA PaperChanges ==
    ASSUME PaperInv, NEW k \in Resting, NEW st \in Statuses \ {"NEW"}, Becomes(k, st), Save,
           UNCHANGED <<tape, shown, cursor, skipped, pfaults>>, pos' \in Int,
           PollShape', poll'.on = poll.on, poll'.at = poll.at, poll'.upto = poll.upto,
           poll'.todo = poll.todo \ {k}, ~poll.on => poll' = Idle
    PROVE  PaperInv'
<1>1. /\ orders' \in Seq(Order) /\ Len(orders') = Len(orders)
      /\ \A i \in DOMAIN orders : i # k => orders'[i] = orders[i]
      /\ orders'[k].placed = orders[k].placed /\ orders'[k].status = st
  BY Changing DEF Resting
<1>2. DOMAIN orders' = DOMAIN orders /\ k \in DOMAIN orders
  BY <1>1, Numbers DEF Resting
<1>4. /\ PollShape' /\ poll'.on = poll.on /\ poll'.at = poll.at /\ poll'.upto = poll.upto
      /\ poll'.todo = poll.todo \ {k} /\ ~poll.on => poll' = Idle
  OBVIOUS
<1>5. Resting' = Resting \ {k}
  BY <1>1, <1>2 DEF Resting, Open
<1>6. TimesOK' /\ FileOK'
  <2>1. \A i \in DOMAIN orders' : orders'[i].placed = orders[i].placed
    BY <1>1, <1>2
  <2>2. \A i \in DOMAIN orders' : orders'[i].placed <= Len(tape)'
    BY <1>2, <2>1 DEF PaperInv, TimesOK
  <2>3. disk'.orders = orders' /\ disk'.cursor = cursor' /\ cursor' \in Int /\ Len(orders') \in Nat
    BY <1>1, Numbers DEF Save
  <2> QED BY <2>2, <2>3 DEF TimesOK, FileOK
<1>7. PaperTypeOK'
  <2>1. disk' \in [orders : Seq(Order), pos : Int, cursor : (0..Len(tape)) \cup {None}]
    <3>1. cursor' \in (0..Len(tape)) \cup {None}
      BY DEF PaperInv, PaperTypeOK
    <3> QED BY <1>1, <3>1 DEF Save
  <2>2. poll'.todo \subseteq {i \in DOMAIN orders' : orders'[i].status = "NEW"}
    <3>1. poll.todo \subseteq {i \in DOMAIN orders : orders[i].status = "NEW"}
      BY DEF PaperInv, PaperTypeOK
    <3> QED BY <1>1, <1>2, <1>4, <3>1
  <2> QED BY <1>1, <1>4, <2>1, <2>2 DEF PaperInv, PaperTypeOK
<1>8. PollOK'
  BY <1>1, <1>2, <1>4, <1>5 DEF PaperInv, PollOK, Resting
<1>9. NoTradePassed'
  <2> SUFFICES ASSUME NEW i \in Resting', i \notin skipped, NEW t \in Behind(i)'
               PROVE  ~Hits(orders[i], t)'
    BY DEF NoTradePassed
  <2>0. i \in Resting /\ i # k
    BY <1>5
  <2>1. i \in DOMAIN orders /\ orders'[i] = orders[i]
    BY <1>1, <2>0 DEF Resting
  <2>2. t \in Behind(i)
    <3>1. /\ t \in DOMAIN tape /\ orders'[i].placed < t /\ t <= cursor
          /\ ~(t = poll'.at /\ i \in poll'.todo)
      BY DEF Behind
    <3> QED BY <3>1, <2>0, <2>1, <1>4 DEF Behind
  <2>3. ~Hits(orders[i], t)
    BY <2>0, <2>2 DEF PaperInv, NoTradePassed
  <2> QED BY <2>1, <2>3 DEF Hits
<1> QED  BY <1>4, <1>6, <1>7, <1>8, <1>9 DEF PaperInv

\* The orders stay as they are, and the poll or the cursor goes on.
LEMMA PollMoves ==
    ASSUME PaperInv, UNCHANGED <<tape, shown, orders, pos>>, disk' = disk \/ Save,
           PollShape', PollOK', poll'.at <= shown, poll'.upto <= shown, poll'.todo \subseteq Resting,
           ~poll'.on => poll' = Idle,
           cursor' = cursor \/ (cursor' \in 0..Len(tape) /\ cursor <= cursor'),
           skipped' = skipped \/ skipped' = skipped \cup poll.todo, pfaults' \in 0..MaxPaperFaults,
           \A i \in Resting \ skipped' : \A t \in Behind(i)' : t \in Behind(i) \/ ~Hits(orders[i], t)
    PROVE  PaperInv'
<1>1. cursor' \in Int /\ cursor' \in (0..Len(tape)) \cup {None} /\ cursor <= cursor'
  BY Numbers DEF PaperInv, PaperTypeOK
<1>2. Resting' = Resting
  BY DEF Resting, Open
<1>3. TimesOK' /\ FileOK'
  <2>1. disk'.cursor <= cursor' /\ \A i \in DOMAIN orders : orders[i].placed <= Len(tape)
    BY <1>1, Numbers DEF PaperInv, TimesOK, Save
  <2>2. FileOK'
    BY Numbers DEF PaperInv, FileOK, Save
  <2> QED BY <2>1, <2>2 DEF TimesOK
<1>4. PaperTypeOK'
  <2>1. disk' \in [orders : Seq(Order), pos : Int, cursor : (0..Len(tape)) \cup {None}]
    BY <1>1 DEF PaperInv, PaperTypeOK, Save
  <2>2. poll'.on \in BOOLEAN /\ poll'.at \in 0..shown /\ poll'.upto \in 0..shown
    BY DEF PollShape
  <2>3. poll'.todo \subseteq {i \in DOMAIN orders : orders[i].status = "NEW"}
    BY DEF Resting, Open
  <2>4. skipped' \subseteq 1..MaxOrders
    <3>1. skipped \subseteq 1..MaxOrders /\ poll.todo \subseteq DOMAIN orders /\ Len(orders) <= MaxOrders
      BY DEF PaperInv, PaperTypeOK
    <3>2. MaxOrders \in Nat
      BY PaperAssumption
    <3>3. 1..Len(orders) \subseteq 1..MaxOrders
      BY <3>1, <3>2, Numbers
    <3>4. poll.todo \subseteq 1..MaxOrders
      BY <3>1, <3>3, Numbers, Zenon
    <3> QED BY <3>1, <3>4, Zenon
  <2>5. /\ tape' \in Seq(Prices) /\ Len(tape') <= MaxTrades /\ shown' \in 0..Len(tape')
        /\ orders' \in Seq(Order) /\ Len(orders') <= MaxOrders /\ pos' \in Int
    BY DEF PaperInv, PaperTypeOK
  <2> QED BY <1>1, <2>1, <2>2, <2>3, <2>4, <2>5 DEF PaperTypeOK
<1>5. NoTradePassed'
  <2> SUFFICES ASSUME NEW i \in Resting', i \notin skipped', NEW t \in Behind(i)'
               PROVE  ~Hits(orders[i], t)'
    BY DEF NoTradePassed
  <2>1. i \in Resting /\ i \notin skipped
    BY <1>2
  <2>2. t \in Behind(i) => ~Hits(orders[i], t)
    BY <2>1 DEF PaperInv, NoTradePassed
  <2>3. ~Hits(orders[i], t)
    BY <2>1, <2>2
  <2> QED BY <2>3 DEF Hits
<1> QED  BY <1>3, <1>4, <1>5 DEF PaperInv

\* What Behind says, in one place.
LEMMA Passing ==
    ASSUME NEW i, NEW t
    PROVE  /\ t \in Behind(i) <=> /\ t \in DOMAIN tape /\ orders[i].placed < t /\ t <= cursor
                                  /\ ~(t = poll.at /\ i \in poll.todo)
           /\ t \in Behind(i)' <=> /\ t \in DOMAIN tape' /\ orders'[i].placed < t /\ t <= cursor'
                                   /\ ~(t = poll'.at /\ i \in poll'.todo)
  BY DEF Behind

Less == {ss \in Nat \X Nat : ss[1] < ss[2]}

\* A set of numbers has a least one.
LEMMA Least ==
    ASSUME NEW S, S \subseteq Nat, S # {}
    PROVE  \E x \in S : \A y \in S : x <= y
<1>1. IsWellFoundedOn(Less, Nat)
  BY NatLessThanWellFounded, Zenon DEF OpToRel, Less
<1>2. \E x \in S : \A y \in S : <<y, x>> \notin Less
  BY <1>1, WFMin, Zenon
<1>3. \A x, y \in Nat : <<y, x>> \notin Less => x <= y
  BY DEF Less
<1> QED BY <1>2, <1>3

\* The first of the times at which what rests was placed.
LEMMA First ==
    ASSUME PaperInv, Resting # {}
    PROVE  Earliest \in Nat /\ \A i \in Resting : Earliest <= orders[i].placed
<1> DEFINE S == {orders[i].placed : i \in Resting}
<1>1. S \subseteq 0..Len(tape) /\ S # {} /\ Len(tape) \in Nat
  BY Numbers DEF Resting
<1>2. S \subseteq Nat
  BY <1>1
<1>3. PICK p \in S : \A q \in S : p <= q
  BY <1>1, <1>2, Least
<1>4. Earliest \in S /\ \A i \in Resting : Earliest <= orders[i].placed
  BY <1>3 DEF Earliest
<1> QED BY <1>2, <1>4

Polls == [on : BOOLEAN, at : Nat, upto : Nat, todo : SUBSET Nat]

\* What becomes of the record of a poll.
LEMMA PollSteps ==
    ASSUME NEW p \in Polls, NEW U \in SUBSET Nat, NEW k
    PROVE  /\ LET q == [p EXCEPT !.at = @ + 1, !.todo = U]
              IN  q \in Polls /\ q.on = p.on /\ q.at = p.at + 1 /\ q.upto = p.upto /\ q.todo = U
           /\ LET q == [p EXCEPT !.todo = @ \ {k}]
              IN  q \in Polls /\ q.on = p.on /\ q.at = p.at /\ q.upto = p.upto /\ q.todo = p.todo \ {k}
<1>1. p.at + 1 \in Nat /\ p.todo \ {k} \in SUBSET Nat
  BY DEF Polls
<1>2. \A n \in Nat, V \in SUBSET Nat :
         LET q == [p EXCEPT !.at = n, !.todo = V]
         IN  q \in Polls /\ q.on = p.on /\ q.at = n /\ q.upto = p.upto /\ q.todo = V
  BY DEF Polls
<1>3. \A V \in SUBSET Nat :
         LET q == [p EXCEPT !.todo = V]
         IN  q \in Polls /\ q.on = p.on /\ q.at = p.at /\ q.upto = p.upto /\ q.todo = V
  BY DEF Polls
<1>4. LET q == [p EXCEPT !.at = p.at + 1, !.todo = U]
      IN  q \in Polls /\ q.on = p.on /\ q.at = p.at + 1 /\ q.upto = p.upto /\ q.todo = U
  BY <1>1, <1>2, Zenon
<1>5. LET q == [p EXCEPT !.todo = p.todo \ {k}]
      IN  q \in Polls /\ q.on = p.on /\ q.at = p.at /\ q.upto = p.upto /\ q.todo = p.todo \ {k}
  BY <1>1, <1>3, Zenon
<1> QED BY <1>4, <1>5, Zenon

\* A poll begins, goes on to the next trade, ends or breaks off.
LEMMA PaperLooks ==
    ASSUME PaperInv, PollBegin \/ PollNothing \/ PollNext \/ PollEnd \/ \E i \in poll.todo : PollStale(i)
    PROVE  PaperInv'
<1>0. /\ poll \in [on : BOOLEAN, at : Nat, upto : Nat, todo : SUBSET Nat]
      /\ poll.todo \subseteq Resting /\ pfaults \in 0..MaxPaperFaults
      /\ ~poll.on => poll = Idle
  BY DEF PaperInv, PollShape, PaperTypeOK, Resting, Open
<1>1. Idle \in [on : BOOLEAN, at : Nat, upto : Nat, todo : SUBSET Nat]
      /\ Idle.todo = {} /\ Idle.at = 0 /\ Idle.upto = 0 /\ ~Idle.on
  BY DEF Idle
<1>2. CASE PollBegin
  <2>1. /\ UNCHANGED <<tape, shown, orders, pos, cursor, disk, skipped, pfaults>>
        /\ Since < shown /\ Resting # {} /\ poll = Idle
        /\ poll' = [on |-> TRUE, at |-> Since, upto |-> shown, todo |-> {}]
    BY <1>0, <1>2 DEF PollBegin
  <2>2. /\ Since \in Nat
        /\ Since = cursor \/ (cursor = None /\ \A i \in Resting : Since <= orders[i].placed)
    BY <2>1, First, Numbers DEF Since, None
  <2>3. /\ PollShape' /\ poll'.on /\ poll'.at = Since /\ poll'.upto = shown /\ poll'.todo = {}
    BY <2>1, <2>2, Numbers DEF PollShape
  <2>4. PollOK'
    <3>1. Resting' = Resting
      BY <2>1 DEF Resting, Open
    <3> QED BY <2>1, <2>2, <2>3, <3>1 DEF PollOK, Resting
  <2>5. \A i \in Resting \ skipped' : \A t \in Behind(i)' : t \in Behind(i)
    BY <2>1, <2>3, <1>1, Passing
  <2> QED BY <2>1, <2>2, <2>3, <2>4, <2>5, <1>0, Numbers, PollMoves
<1>3. CASE PollNothing \/ PollEnd \/ \E i \in poll.todo : PollStale(i)
  <2>1. /\ UNCHANGED <<tape, shown, orders, pos, cursor>> /\ (disk' = disk \/ Save)
        /\ poll' = Idle
        /\ \/ poll.todo = {} /\ skipped' = skipped
           \/ skipped' = skipped \cup poll.todo
    BY <1>0, <1>1, <1>3 DEF PollNothing, PollEnd, PollStale
  <2>2. pfaults' \in 0..MaxPaperFaults
    BY <1>0, <1>3, PaperAssumption DEF PollNothing, PollEnd, PollStale, StaleBook
  <2>3. PollShape' /\ PollOK'
    BY <2>1, <1>1 DEF PollShape, PollOK
  <2>4. \A i \in Resting \ skipped' : \A t \in Behind(i)' : t \in Behind(i)
    BY <2>1, <1>1, Passing
  <2> QED BY <2>1, <2>2, <2>3, <2>4, <1>1, Numbers, PollMoves
<1>4. CASE PollNext
  <2>1. /\ UNCHANGED <<tape, shown, orders, pos, disk, skipped, pfaults>>
        /\ poll.on /\ poll.todo = {} /\ poll.at < poll.upto /\ cursor' = poll.at + 1
    BY <1>4 DEF PollNext
  <2> DEFINE T == {i \in Resting : orders[i].placed < poll.at + 1 /\ Hits(orders[i], poll.at + 1)}
  <2>2. poll' = [poll EXCEPT !.at = @ + 1, !.todo = T]
    BY <1>4 DEF PollNext
  <2>3. T \subseteq Resting /\ Resting \subseteq Nat
    BY Numbers DEF Resting
  <2> DEFINE U == T
  <2>3a. U \subseteq Resting /\ U \subseteq Nat /\ poll' = [poll EXCEPT !.at = @ + 1, !.todo = U]
    BY <2>2, <2>3
  <2>3b. \A i \in Resting \ U : ~(orders[i].placed < poll.at + 1 /\ Hits(orders[i], poll.at + 1))
    OBVIOUS
  <2> HIDE DEF U
  <2>4. /\ PollShape' /\ poll'.on /\ poll'.at = poll.at + 1 /\ poll'.upto = poll.upto /\ poll'.todo = U
    <3>1. poll \in Polls /\ U \in SUBSET Nat
      BY <1>0, <2>3a DEF Polls
    <3> QED BY <3>1, <2>1, <2>3a, PollSteps DEF PollShape, Polls
  <2>5. PollOK'
    BY <2>1, <2>4 DEF PollOK
  <2>6. cursor' \in 0..Len(tape) /\ cursor <= cursor' /\ poll'.at <= shown
    BY <2>1, <2>4, Numbers DEF PaperInv, PollOK, None
  <2>7. \A i \in Resting \ skipped' : \A t \in Behind(i)' : t \in Behind(i) \/ ~Hits(orders[i], t)
    <3> SUFFICES ASSUME NEW i \in Resting, NEW t \in Behind(i)', Hits(orders[i], t) PROVE t \in Behind(i)
      OBVIOUS
    <3>1. /\ t \in 1..Len(tape) /\ orders[i].placed < t /\ t <= poll.at + 1
          /\ ~(t = poll.at + 1 /\ i \in U) /\ orders[i].placed \in Nat
      BY <2>1, <2>4, Numbers, Passing DEF Resting
    <3>2. t <= poll.at
      BY <3>1, <2>3b, Numbers
    <3>3. cursor = poll.at
      BY <3>1, <3>2, <2>1, Numbers DEF PaperInv, PollOK
    <3> QED BY <3>1, <3>2, <3>3, <2>1, Numbers, Passing
  <2> QED BY <2>1, <2>3a, <2>4, <2>5, <2>6, <2>7, <1>0, Numbers, PollMoves
<1> QED  BY <1>2, <1>3, <1>4

\* Cancelled, expired or filled, by hand or by a trade.
LEMMA PaperEnds ==
    ASSUME PaperInv, \/ \E i \in DOMAIN orders : PaperCancel(i)
                     \/ \E i \in poll.todo : PollExpire(i) \/ PollFill(i)
    PROVE  PaperInv'
<1>0. poll \in Polls
  BY DEF PaperInv, PollShape, Polls
<1>a. poll.todo \subseteq Resting
  BY DEF PaperInv, PaperTypeOK, Resting, Open
<1>b. pos \in Int
  BY DEF PaperInv, PaperTypeOK
<1>c. ~poll.on => poll = Idle
  BY DEF PaperInv, PaperTypeOK
<1>1. CASE \E i \in DOMAIN orders : PaperCancel(i)
  <2>1. PICK k \in Resting : PaperCancel(k)
    BY <1>1 DEF PaperCancel
  <2>2. poll = Idle /\ poll' = poll /\ poll.todo = {}
    <3>1. ~poll.on /\ poll' = poll
      BY <2>1 DEF PaperCancel
    <3>2. Idle.todo = {}
      BY DEF Idle
    <3> QED BY <3>1, <3>2, <1>c
  <2>3. PollShape' /\ poll'.todo = poll.todo \ {k}
    <3>1. PollShape'
      BY <2>2 DEF PaperInv, PollShape
    <3> QED BY <3>1, <2>2
  <2>4. /\ Becomes(k, "CANCELED") /\ Save /\ UNCHANGED <<tape, shown, cursor, skipped, pfaults>> /\ pos' \in Int
    BY <2>1, <1>b DEF PaperCancel
  <2>5. "CANCELED" \in Statuses \ {"NEW"}
    BY DEF Statuses
  <2> QED BY <2>2, <2>3, <2>4, <2>5, PaperChanges
<1>2. CASE \E i \in poll.todo : PollExpire(i) \/ PollFill(i)
  <2>1. PICK k \in poll.todo : PollExpire(k) \/ PollFill(k)
    BY <1>2
  <2>2. PICK st \in {"EXPIRED", "FILLED"} : Becomes(k, st)
    BY <2>1 DEF PollExpire, PollFill
  <2>3. /\ Save /\ UNCHANGED <<tape, shown, cursor, skipped, pfaults>>
        /\ poll.on /\ poll' = [poll EXCEPT !.todo = @ \ {k}]
    BY <2>1 DEF PollExpire, PollFill, Turn
  <2>4. /\ PollShape' /\ poll'.on = poll.on /\ poll'.at = poll.at /\ poll'.upto = poll.upto
        /\ poll'.todo = poll.todo \ {k}
    BY <2>3, <1>0, PollSteps DEF PollShape, Polls
  <2>5. pos' \in Int
    <3>1. k \in DOMAIN orders /\ orders[k] \in Order
      BY <1>a DEF Resting, PaperInv, PaperTypeOK
    <3>2. \A q \in Quantities : q \in Int
      BY QuantityNat
    <3>3. orders[k].qty \in Int /\ Sign(orders[k].side) \in {1, -1}
      BY <3>1, <3>2 DEF Order, Sign
    <3>4. pos' = pos \/ pos' = pos + Sign(orders[k].side) * orders[k].qty
      <4>1. CASE PollExpire(k)
        BY <4>1 DEF PollExpire
      <4>2. CASE PollFill(k)
        BY <4>2 DEF PollFill
      <4> QED BY <2>1, <4>1, <4>2
    <3> QED BY <3>3, <3>4, <1>b
  <2>6. st \in Statuses \ {"NEW"} /\ k \in Resting
    BY <2>2, <1>a DEF Statuses
  <2> QED BY <2>2, <2>3, <2>4, <2>5, <2>6, <1>c, PaperChanges
<1> QED  BY <1>1, <1>2

\* The market goes on.
LEMMA MarketMoves ==
    ASSUME PaperInv, Market
    PROVE  PaperInv'
<1>1. UNCHANGED <<orders, pos, cursor, poll, disk, skipped, pfaults>>
  BY DEF Market, Trade, Show
<1>2. /\ tape' \in Seq(Prices) /\ Len(tape') <= MaxTrades /\ shown' \in 0..Len(tape') /\ shown <= shown'
      /\ Len(tape') \in Nat /\ Len(tape) <= Len(tape')
      /\ \A t \in 1..Len(tape) : tape'[t] = tape[t]
  <2>1. tape \in Seq(Prices) /\ Len(tape) <= MaxTrades /\ shown \in 0..Len(tape)
    BY DEF PaperInv, PaperTypeOK
  <2>2. MaxTrades \in Nat
    BY PaperAssumption
  <2>3. CASE Show
    BY <2>1, <2>3 DEF Show
  <2>4. CASE \E px \in Prices : Trade(px)
    BY <2>1, <2>2, <2>4 DEF Trade
  <2> QED BY <2>3, <2>4 DEF Market
<1>3. TimesOK' /\ FileOK' /\ PollOK' /\ PollShape'
  <2>1. \A i \in DOMAIN orders : orders[i].placed <= Len(tape')
    BY <1>2, Numbers
  <2>2. Resting' = Resting
    BY <1>1 DEF Resting, Open
  <2> QED BY <1>1, <2>1, <2>2 DEF PaperInv, TimesOK, FileOK, PollOK, PollShape
<1>4. PaperTypeOK'
  <2>1. cursor' \in (0..Len(tape')) \cup {None}
    BY <1>1, <1>2, Numbers DEF PaperInv, PaperTypeOK
  <2>2. disk \in [orders : Seq(Order), pos : Int, cursor : (0..Len(tape)) \cup {None}]
    BY DEF PaperInv, PaperTypeOK
  <2>3. (0..Len(tape)) \cup {None} \subseteq (0..Len(tape')) \cup {None}
    BY <1>2, Numbers
  <2>4. disk \in [orders : Seq(Order), pos : Int, cursor : (0..Len(tape')) \cup {None}]
    BY <2>2, <2>3
  <2>5. poll.at \in 0..shown' /\ poll.upto \in 0..shown'
    BY <1>2, Numbers
  <2> QED BY <1>1, <1>2, <2>1, <2>4, <2>5 DEF PaperInv, PaperTypeOK
<1>5. NoTradePassed'
  <2> SUFFICES ASSUME NEW i \in Resting', i \notin skipped, NEW t \in Behind(i)'
               PROVE  ~Hits(orders[i], t)'
    BY <1>1 DEF NoTradePassed
  <2>1. i \in Resting
    BY <1>1 DEF Resting, Open
  <2>2. t \in 1..Len(tape) /\ t \in Behind(i) /\ tape'[t] = tape[t]
    BY <1>1, <1>2, Numbers, Passing
  <2>3. ~Hits(orders[i], t)
    BY <2>1, <2>2 DEF PaperInv, NoTradePassed
  <2> QED BY <2>2, <2>3, <1>1 DEF Hits
<1> QED  BY <1>3, <1>4, <1>5 DEF PaperInv

\* The process starts again with what the file has.
LEMMA PaperRestarts ==
    ASSUME PaperInv, PaperRestart
    PROVE  PaperInv'
<1>1. /\ UNCHANGED <<tape, shown, disk>> /\ poll' = Idle
      /\ orders' = disk.orders /\ pos' = disk.pos /\ cursor' = disk.cursor
      /\ skipped' = (skipped \cup (IF disk.cursor = cursor THEN poll.todo ELSE {})) \cap DOMAIN disk.orders
  BY DEF PaperRestart
<1>2. pfaults' \in 0..MaxPaperFaults
  <2>1. pfaults < MaxPaperFaults /\ pfaults' = pfaults + 1
    BY DEF PaperRestart
  <2> QED BY <2>1, PaperAssumption DEF PaperInv, PaperTypeOK
<1>3. /\ disk.orders \in Seq(Order) /\ disk.pos \in Int /\ disk.cursor \in (0..Len(tape)) \cup {None}
      /\ Len(disk.orders) <= Len(orders) /\ \A i \in DOMAIN disk.orders : disk.orders[i] = orders[i]
      /\ DOMAIN disk.orders = 1..Len(disk.orders)
  <2>1. /\ disk.orders \in Seq(Order) /\ disk.pos \in Int /\ disk.cursor \in (0..Len(tape)) \cup {None}
    BY DEF PaperInv, PaperTypeOK
  <2>2. DOMAIN disk.orders = 1..Len(disk.orders)
    BY <2>1
  <2> QED BY <2>1, <2>2 DEF PaperInv, FileOK
<1>4. DOMAIN disk.orders \subseteq DOMAIN orders
  BY <1>3, Numbers
<1>5. PollShape' /\ PollOK' /\ Idle.todo = {} /\ Idle.at = 0 /\ Idle.upto = 0 /\ ~Idle.on
  BY <1>1 DEF PollShape, PollOK, Idle
<1>6. TimesOK' /\ FileOK'
  <2>1. \A i \in DOMAIN disk.orders : disk.orders[i].placed <= Len(tape)
    BY <1>3, <1>4, Numbers
  <2>2. disk.cursor <= disk.cursor /\ Len(disk.orders) <= Len(disk.orders)
    BY Numbers
  <2> QED BY <1>1, <2>1, <2>2 DEF TimesOK, FileOK
<1>7. PaperTypeOK'
  <2>1. /\ tape \in Seq(Prices) /\ Len(tape) <= MaxTrades /\ shown \in 0..Len(tape) /\ Len(orders) <= MaxOrders
        /\ disk \in [orders : Seq(Order), pos : Int, cursor : (0..Len(tape)) \cup {None}]
    BY DEF PaperInv, PaperTypeOK
  <2>2. MaxOrders \in Nat
    BY PaperAssumption
  <2>3. Len(disk.orders) <= MaxOrders
    BY <2>1, <2>2, <1>3, Numbers
  <2>4. 1..Len(disk.orders) \subseteq 1..MaxOrders
    BY <2>2, <2>3, Numbers
  <2>5. skipped' \subseteq 1..MaxOrders
    BY <1>1, <1>3, <2>4, Zenon
  <2>6. Idle.on \in BOOLEAN /\ 0 \in 0..shown
    BY Numbers DEF Idle
  <2> QED BY <1>1, <1>2, <1>3, <1>5, <2>1, <2>3, <2>5, <2>6 DEF PaperTypeOK
<1>8. NoTradePassed'
  <2> SUFFICES ASSUME NEW i \in Resting', i \notin skipped', NEW t \in Behind(i)'
               PROVE  ~Hits(orders[i], t)'
    BY DEF NoTradePassed
  <2>1. i \in DOMAIN disk.orders /\ orders'[i] = orders[i] /\ i \in Resting
    BY <1>1, <1>3, <1>4 DEF Resting, Open
  <2>2. i \notin skipped /\ (disk.cursor = cursor => i \notin poll.todo)
    BY <1>1, <2>1
  <2>3. t \in DOMAIN tape /\ orders[i].placed < t /\ t <= disk.cursor
    BY <1>1, <2>1, Passing
  <2>4. t <= cursor
    BY <2>3, Numbers DEF PaperInv, TimesOK
  <2>5. ~(t = poll.at /\ i \in poll.todo)
    <3> SUFFICES ASSUME t = poll.at, i \in poll.todo PROVE FALSE
      OBVIOUS
    <3>1. cursor = poll.at
      BY DEF PaperInv, PollOK
    <3>2. disk.cursor = cursor
      BY <3>1, <2>3, Numbers DEF PaperInv, TimesOK
    <3> QED BY <3>2, <2>2
  <2>6. t \in Behind(i)
    BY <2>3, <2>4, <2>5, Passing
  <2>7. ~Hits(orders[i], t)
    BY <2>1, <2>2, <2>6 DEF PaperInv, NoTradePassed
  <2> QED BY <2>1, <2>7, <1>1 DEF Hits
<1> QED  BY <1>5, <1>6, <1>7, <1>8 DEF PaperInv

-----------------------------------------------------------------------------
(* The real broker. *)

Entries(s) == {s[i] : i \in DOMAIN s}

\* Of the exchange's orders of a client id only the last may be open.
BookOK ==
    /\ xorders \in Seq(Entries(xorders))
    /\ \A x \in DOMAIN xorders : {"cid", "status"} \subseteq DOMAIN xorders[x]
    /\ \A x, y \in DOMAIN xorders :
          xorders[x].cid \in Cids /\ xorders[x].cid = xorders[y].cid /\ x < y
          => xorders[x].status # "NEW"

\* An order that is taken for open was taken by the exchange.
TrackedOK ==
    /\ DOMAIN tracked = Cids /\ \A c \in Cids : "status" \in DOMAIN tracked[c]
    /\ \A c \in Cids : LiveOpen(c) => \E x \in DOMAIN xorders : xorders[x].cid = c

\* The last trade asked for is the last fill there is.
PulledOK ==
    /\ fills \in Seq([trade : Nat, named : BOOLEAN])
    /\ visible \in Nat /\ lastTrade \in Nat \cup {Nothing}
    /\ lastTrade = Nothing => fills = <<>>

LiveInv == BookOK /\ TrackedOK /\ PulledOK /\ ClosedIsClosed /\ FillsAreTrades

\* A sequence of anything.
LEMMA AnySeq ==
    ASSUME NEW s, NEW n \in Nat, DOMAIN s = 1..n, s = [i \in 1..n |-> s[i]]
    PROVE  s \in Seq(Entries(s)) /\ Len(s) = n
<1>1. s \in [1..n -> Entries(s)]
  BY DEF Entries
<1> HIDE DEF Entries
<1> QED BY <1>1

\* One more at its end.
LEMMA AnyAppend ==
    ASSUME NEW s, s \in Seq(Entries(s)), NEW e
    PROVE  LET a == Append(s, e)
           IN  /\ a \in Seq(Entries(a)) /\ Len(s) \in Nat /\ Len(a) = Len(s) + 1
               /\ DOMAIN s = 1..Len(s) /\ DOMAIN a = 1..(Len(s) + 1)
               /\ \A i \in 1..Len(s) : a[i] = s[i]
               /\ a[Len(s) + 1] = e /\ a = [i \in 1..(Len(s) + 1) |-> a[i]]
<1> DEFINE S == Entries(s) \cup {e}
           a == Append(s, e)
<1>1. Len(s) \in Nat /\ DOMAIN s = 1..Len(s) /\ s \in [1..Len(s) -> Entries(s)]
  OBVIOUS
<1>2. s \in Seq(S)
  BY <1>1
<1>3. /\ a \in Seq(S) /\ Len(a) = Len(s) + 1 /\ \A i \in 1..Len(s) : a[i] = s[i]
      /\ a[Len(s) + 1] = e
  <2> HIDE DEF S
  <2>1. e \in S
    BY DEF S
  <2> QED BY <1>2, <2>1
<1>4. DOMAIN a = 1..(Len(s) + 1) /\ a = [i \in 1..(Len(s) + 1) |-> a[i]]
  <2> HIDE DEF a, S
  <2>1. a \in [1..Len(a) -> S]
    BY <1>3
  <2> QED BY <1>3, <2>1
<1>5. a \in Seq(Entries(a))
  <2> HIDE DEF a
  <2>1. Len(s) + 1 \in Nat
    BY <1>1
  <2> QED BY <2>1, <1>4, AnySeq
<1> QED BY <1>1, <1>3, <1>4, <1>5

\* Order x is the last of a client id.
LastOf(c, x, xs) ==
    x \in DOMAIN xs /\ xs[x].cid = c /\ \A y \in DOMAIN xs : xs[y].cid = c => y <= x

\* The order Of finds is the last of the id.
LEMMA OfIs ==
    ASSUME NEW xs, NEW c, NEW n \in Nat, DOMAIN xs = 1..n
    PROVE  /\ \A x : LastOf(c, x, xs) => Of(c, xs) = x
           /\ (\E x \in DOMAIN xs : xs[x].cid = c) => LastOf(c, Of(c, xs), xs)
<1>1. ASSUME NEW x, LastOf(c, x, xs) PROVE Of(c, xs) = x
  <2> DEFINE IsLast(z) == xs[z].cid = c /\ \A y \in DOMAIN xs : xs[y].cid = c => y <= z
  <2>1. x \in DOMAIN xs /\ IsLast(x) /\ \A z \in DOMAIN xs : IsLast(z) => z = x
    BY <1>1 DEF LastOf
  <2>2. Of(c, xs) = CHOOSE z \in DOMAIN xs : IsLast(z)
    BY <2>1 DEF Of
  <2> HIDE DEF IsLast
  <2> QED BY <2>1, <2>2
<1>2. ASSUME NEW w \in DOMAIN xs, xs[w].cid = c PROVE \E x : LastOf(c, x, xs)
  <2> DEFINE S == {n - x : x \in {y \in DOMAIN xs : xs[y].cid = c}}
  <2>1. S \subseteq Nat /\ S # {}
    BY <1>2
  <2>2. PICK m \in S : \A k \in S : m <= k
    BY <2>1, Least
  <2>3. PICK x \in DOMAIN xs : xs[x].cid = c /\ m = n - x
    BY <2>2
  <2>4. \A y \in DOMAIN xs : xs[y].cid = c => n - x <= n - y
    BY <2>2, <2>3
  <2> QED BY <2>3, <2>4 DEF LastOf
<1> QED BY <1>1, <1>2

\* What a step of the exchange does to the orders it has.
StillThere == /\ DOMAIN xorders \subseteq DOMAIN xorders'
              /\ \A x \in DOMAIN xorders : xorders'[x].cid = xorders[x].cid
Fewer == OnBookCids' \subseteq OnBookCids

\* The list of the exchange's orders has a length.
LEMMA BookHas ==
    ASSUME BookOK
    PROVE  Len(xorders) \in Nat /\ DOMAIN xorders = 1..Len(xorders)
<1> QED BY DEF BookOK

\* Orders change, but keep their ids, and none is reopened; there may be one more
\* that is not open and has no client id.
LEMMA OrdersChange ==
    ASSUME BookOK, NEW n \in {0, 1}, xorders' = [x \in 1..(Len(xorders) + n) |-> xorders'[x]],
           \A x \in DOMAIN xorders' : {"cid", "status"} \subseteq DOMAIN xorders'[x],
           \A x \in DOMAIN xorders : /\ xorders'[x].cid = xorders[x].cid
                                     /\ xorders'[x].status = "NEW" => xorders[x].status = "NEW",
           \A x \in DOMAIN xorders' \ DOMAIN xorders :
               xorders'[x].cid \notin Cids /\ xorders'[x].status # "NEW"
    PROVE  BookOK' /\ StillThere /\ Fewer
<1>1. DOMAIN xorders' = 1..(Len(xorders) + n) /\ DOMAIN xorders = 1..Len(xorders) /\ Len(xorders) \in Nat
      /\ Len(xorders) + n \in Nat
  BY BookHas
<1>2. xorders' \in Seq(Entries(xorders'))
  BY <1>1, AnySeq
<1>3. BookOK'
  <2>1. \A x, y \in DOMAIN xorders' :
          xorders'[x].cid \in Cids /\ xorders'[x].cid = xorders'[y].cid /\ x < y
          => xorders'[x].status # "NEW"
    BY <1>1 DEF BookOK
  <2>2. Entries(xorders') = Entries(xorders)'
    BY DEF Entries
  <2> QED BY <1>2, <2>1, <2>2 DEF BookOK
<1>4. Fewer
  <2>1. \A x \in OnBook' : x \in OnBook /\ xorders'[x].cid = xorders[x].cid
    BY <1>1 DEF OnBook, XOpen
  <2> QED BY <2>1 DEF Fewer, OnBookCids
<1>5. StillThere
  BY <1>1 DEF StillThere
<1> QED BY <1>3, <1>4, <1>5

\* Another order is taken, of an id that no open one has, or of none.
LEMMA OrderTaken ==
    ASSUME BookOK, NEW c, NEW e, {"cid", "status"} \subseteq DOMAIN e, e.cid = c,
           c \notin Cids \/ c \notin OnBookCids, xorders' = Append(xorders, e)
    PROVE  /\ BookOK' /\ StillThere /\ OnBookCids' \subseteq OnBookCids \cup {c}
           /\ Of(c, xorders') = Len(xorders) + 1 /\ LastOf(c, Len(xorders) + 1, xorders')
           /\ Len(xorders) + 1 \in DOMAIN xorders' /\ xorders'[Len(xorders) + 1] = e
           /\ e.status # "NEW" => Fewer
<1>1. /\ xorders' \in Seq(Entries(xorders')) /\ Len(xorders) \in Nat
      /\ DOMAIN xorders = 1..Len(xorders) /\ DOMAIN xorders' = 1..(Len(xorders) + 1)
      /\ \A x \in 1..Len(xorders) : xorders'[x] = xorders[x]
      /\ xorders'[Len(xorders) + 1] = e
  BY AnyAppend DEF BookOK
<1>2. c \in Cids => \A x \in DOMAIN xorders : xorders[x].cid = c => xorders[x].status # "NEW"
  BY DEF OnBookCids, OnBook, XOpen
<1>3. BookOK'
  <2>1. \A x \in DOMAIN xorders' : {"cid", "status"} \subseteq DOMAIN xorders'[x]
    BY <1>1 DEF BookOK
  <2>2. \A x, y \in DOMAIN xorders' :
          xorders'[x].cid \in Cids /\ xorders'[x].cid = xorders'[y].cid /\ x < y
          => xorders'[x].status # "NEW"
    BY <1>1, <1>2 DEF BookOK
  <2>3. Entries(xorders') = Entries(xorders)'
    BY DEF Entries
  <2> QED BY <1>1, <2>1, <2>2, <2>3 DEF BookOK
<1>4. StillThere
  BY <1>1 DEF StillThere
<1>5. \A x \in OnBook' : (x \in OnBook /\ xorders'[x].cid = xorders[x].cid) \/ x = Len(xorders) + 1
  BY <1>1 DEF OnBook, XOpen
<1>6. OnBookCids' \subseteq OnBookCids \cup {c}
  BY <1>1, <1>5 DEF OnBookCids
<1>7. Of(c, xorders') = Len(xorders) + 1 /\ LastOf(c, Len(xorders) + 1, xorders')
  <2>1. LastOf(c, Len(xorders) + 1, xorders')
    BY <1>1 DEF LastOf
  <2>2. Len(xorders) + 1 \in Nat
    BY <1>1
  <2> QED BY <1>1, <2>1, <2>2, OfIs
<1>8. e.status # "NEW" => Fewer
  <2>1. e.status # "NEW" => \A x \in OnBook' : x # Len(xorders) + 1
    BY <1>1 DEF OnBook, XOpen
  <2> QED BY <1>5, <2>1 DEF Fewer, OnBookCids
<1> QED BY <1>1, <1>3, <1>4, <1>6, <1>7, <1>8

\* One of n orders differs, but not in its id.
Sameness(s, b, n, x) ==
    /\ DOMAIN b = 1..n /\ b = [z \in 1..n |-> b[z]] /\ \A z \in (1..n) \ {x} : b[z] = s[z]
    /\ DOMAIN b[x] = DOMAIN s[x] /\ b[x].cid = s[x].cid

\* An order's quantity and status change.
LEMMA OneOrder ==
    ASSUME NEW n \in Nat, NEW s, DOMAIN s = 1..n, NEW x \in 1..n, {"cid", "status"} \subseteq DOMAIN s[x],
           NEW f, NEW v
    PROVE  /\ Sameness(s, [s EXCEPT ![x].status = v], n, x)
           /\ Sameness(s, [s EXCEPT ![x].filled = f, ![x].status = v], n, x)
<1>1. ASSUME NEW r PROVE LET b == [s EXCEPT ![x] = r]
                         IN  DOMAIN b = 1..n /\ b = [z \in 1..n |-> b[z]] 
                             /\ (\A z \in (1..n) \ {x} : b[z] = s[z]) /\ b[x] = r
  OBVIOUS
<1>2. DOMAIN [s[x] EXCEPT !.status = v] = DOMAIN s[x] /\ [s[x] EXCEPT !.status = v].cid = s[x].cid
  OBVIOUS
<1>3. DOMAIN [s[x] EXCEPT !.filled = f, !.status = v] = DOMAIN s[x]
      /\ [s[x] EXCEPT !.filled = f, !.status = v].cid = s[x].cid
  OBVIOUS
<1>4. [s EXCEPT ![x].status = v] = [s EXCEPT ![x] = [s[x] EXCEPT !.status = v]]
  OBVIOUS
<1>5. [s EXCEPT ![x].filled = f, ![x].status = v] = [s EXCEPT ![x] = [s[x] EXCEPT !.filled = f, !.status = v]]
  OBVIOUS
<1>6. Sameness(s, [s EXCEPT ![x].status = v], n, x)
  <2> DEFINE r == [s[x] EXCEPT !.status = v]
  <2>1. DOMAIN r = DOMAIN s[x] /\ r.cid = s[x].cid
    BY <1>2
  <2> HIDE DEF r
  <2>2. Sameness(s, [s EXCEPT ![x] = r], n, x)
    BY <1>1, <2>1 DEF Sameness
  <2> QED BY <1>4, <2>2 DEF r
<1>7. Sameness(s, [s EXCEPT ![x].filled = f, ![x].status = v], n, x)
  <2> DEFINE r == [s[x] EXCEPT !.filled = f, !.status = v]
  <2>1. DOMAIN r = DOMAIN s[x] /\ r.cid = s[x].cid
    BY <1>3
  <2> HIDE DEF r
  <2>2. Sameness(s, [s EXCEPT ![x] = r], n, x)
    BY <1>1, <2>1 DEF Sameness
  <2> QED BY <1>5, <2>2 DEF r
<1> QED BY <1>6, <1>7

\* The two orders of a stop that is triggered.
LEMMA TwoOrders ==
    ASSUME NEW n \in Nat, NEW s, DOMAIN s = 1..n, NEW x \in 1..n, NEW y \in 1..n, x # y,
           {"cid", "status"} \subseteq DOMAIN s[x], {"cid", "status"} \subseteq DOMAIN s[y],
           NEW v, NEW w, NEW f, NEW b, b = [s EXCEPT ![x].status = v, ![x].actual = w, ![y].filled = f]
    PROVE  /\ DOMAIN b = 1..n /\ b = [z \in 1..n |-> b[z]]
           /\ \A z \in (1..n) \ {x, y} : b[z] = s[z]
           /\ DOMAIN b[x] = DOMAIN s[x] /\ b[x].cid = s[x].cid
           /\ DOMAIN b[y] = DOMAIN s[y] /\ b[y].cid = s[y].cid /\ b[y].status = s[y].status
<1> DEFINE r == [s[x] EXCEPT !.status = v, !.actual = w]
           q == [s[y] EXCEPT !.filled = f]
<1>1. DOMAIN r = DOMAIN s[x] /\ r.cid = s[x].cid
  OBVIOUS
<1>2. DOMAIN q = DOMAIN s[y] /\ q.cid = s[y].cid /\ q.status = s[y].status
  OBVIOUS
<1>3. b = [s EXCEPT ![x] = r, ![y] = q]
  OBVIOUS
<1> HIDE DEF r, q
<1>4. /\ DOMAIN b = 1..n /\ b = [z \in 1..n |-> b[z]]
      /\ \A z \in (1..n) \ {x, y} : b[z] = s[z]
      /\ b[x] = r /\ b[y] = q
  BY <1>3
<1> QED BY <1>1, <1>2, <1>4

\* The exchange works on by itself.
LEMMA ExchangeWorks ==
    ASSUME BookOK, Exchange
    PROVE  BookOK' /\ StillThere /\ Fewer
<1>0. /\ DOMAIN xorders = 1..Len(xorders) /\ Len(xorders) \in Nat
      /\ xorders \in Seq(Entries(xorders))
      /\ \A x \in DOMAIN xorders : {"cid", "status"} \subseteq DOMAIN xorders[x]
  BY BookHas DEF BookOK
<1>1. CASE Appear
  BY <1>1 DEF Appear, BookOK, StillThere, Fewer, OnBookCids, OnBook, XOpen, Entries
<1>2. ASSUME NEW x \in DOMAIN xorders, Execute(x) PROVE BookOK' /\ StillThere /\ Fewer
  <2>1. xorders[x].status = "NEW"
    BY <1>2 DEF Execute, XOpen
  <2>2. \/ xorders' = [xorders EXCEPT ![x].status = "EXPIRED"]
        \/ \E f, st : xorders' = [xorders EXCEPT ![x].filled = f, ![x].status = st]
    BY <1>2 DEF Execute
  <2>3. /\ xorders' = [z \in 1..(Len(xorders) + 0) |-> xorders'[z]] /\ DOMAIN xorders' = DOMAIN xorders
        /\ \A z \in DOMAIN xorders : z # x => xorders'[z] = xorders[z]
        /\ DOMAIN xorders'[x] = DOMAIN xorders[x] /\ xorders'[x].cid = xorders[x].cid
    <3>1. Sameness(xorders, xorders', Len(xorders), x)
      <4>1. CASE xorders' = [xorders EXCEPT ![x].status = "EXPIRED"]
        BY <1>0, <4>1, OneOrder
      <4>2. CASE \E f, st : xorders' = [xorders EXCEPT ![x].filled = f, ![x].status = st]
        <5>1. PICK f, st : xorders' = [xorders EXCEPT ![x].filled = f, ![x].status = st]
          BY <4>2
        <5>2. Sameness(xorders, [xorders EXCEPT ![x].filled = f, ![x].status = st], Len(xorders), x)
          BY <1>0, OneOrder
        <5> QED BY <5>1, <5>2
      <4> QED BY <2>2, <4>1, <4>2
    <3>2. Len(xorders) + 0 = Len(xorders)
      BY <1>0
    <3> QED BY <1>0, <3>1, <3>2 DEF Sameness
  <2>4. /\ \A z \in DOMAIN xorders' : {"cid", "status"} \subseteq DOMAIN xorders'[z]
        /\ \A z \in DOMAIN xorders : /\ xorders'[z].cid = xorders[z].cid
                                     /\ xorders'[z].status = "NEW" => xorders[z].status = "NEW"
    BY <1>0, <2>1, <2>3
  <2> QED BY <2>3, <2>4, OrdersChange
<1>3. ASSUME NEW x \in DOMAIN xorders, Trigger(x) PROVE BookOK' /\ StillThere /\ Fewer
  <2>1. xorders[x].status = "NEW"
    BY <1>3 DEF Trigger, XOpen
  <2>2. CASE xorders' = [xorders EXCEPT ![x].status = "EXPIRED"]
    <3>3. /\ xorders' = [z \in 1..(Len(xorders) + 0) |-> xorders'[z]] /\ DOMAIN xorders' = DOMAIN xorders
          /\ \A z \in DOMAIN xorders : z # x => xorders'[z] = xorders[z]
          /\ DOMAIN xorders'[x] = DOMAIN xorders[x] /\ xorders'[x].cid = xorders[x].cid
      <4>1. Sameness(xorders, xorders', Len(xorders), x)
        BY <1>0, <2>2, OneOrder
      <4>2. Len(xorders) + 0 = Len(xorders)
        BY <1>0
      <4> QED BY <1>0, <4>1, <4>2 DEF Sameness
    <3>4. /\ \A z \in DOMAIN xorders' : {"cid", "status"} \subseteq DOMAIN xorders'[z]
          /\ \A z \in DOMAIN xorders : /\ xorders'[z].cid = xorders[z].cid
                                       /\ xorders'[z].status = "NEW" => xorders[z].status = "NEW"
      BY <1>0, <2>1, <3>3
    <3> QED BY <3>3, <3>4, OrdersChange
  <2>3. CASE \E n, r : xorders' = [Accepted("none", r, "FILLED") EXCEPT
                          ![x].status = "TRIGGERED", ![x].actual = Len(xorders) + 1,
                          ![Len(xorders) + 1].filled = n]
    <3>1. PICK n, r : xorders' = [Accepted("none", r, "FILLED") EXCEPT
                          ![x].status = "TRIGGERED", ![x].actual = Len(xorders) + 1,
                          ![Len(xorders) + 1].filled = n]
      BY <2>3
    <3> DEFINE a == Accepted("none", r, "FILLED")
               y == Len(xorders) + 1
    <3>2. /\ DOMAIN a = 1..y /\ \A z \in 1..Len(xorders) : a[z] = xorders[z]
          /\ {"cid", "status"} \subseteq DOMAIN a[y] /\ a[y].cid = "none" /\ a[y].status = "FILLED"
      BY AnyAppend, <1>0 DEF Accepted
    <3> HIDE DEF a
    <3>3. xorders' = [a EXCEPT ![x].status = "TRIGGERED", ![x].actual = y, ![y].filled = n]
      BY <3>1 DEF a
    <3>4. x # y /\ x \in 1..y /\ y \in 1..y /\ y \in Nat
      BY <1>0
    <3>4a. {"cid", "status"} \subseteq DOMAIN a[x]
      BY <1>0, <3>2
    <3> HIDE DEF y
    <3>5. /\ DOMAIN xorders' = 1..y /\ xorders' = [z \in 1..y |-> xorders'[z]]
          /\ \A z \in 1..y : z # x /\ z # y => xorders'[z] = a[z]
          /\ DOMAIN xorders'[x] = DOMAIN a[x] /\ xorders'[x].cid = a[x].cid
          /\ DOMAIN xorders'[y] = DOMAIN a[y] /\ xorders'[y].cid = a[y].cid
          /\ xorders'[y].status = a[y].status
      BY <3>2, <3>3, <3>4, <3>4a, TwoOrders
    <3>6. /\ \A z \in 1..y : {"cid", "status"} \subseteq DOMAIN xorders'[z]
      BY <1>0, <3>2, <3>4, <3>5 DEF y
    <3>7. \A z \in DOMAIN xorders : /\ xorders'[z].cid = xorders[z].cid
                                    /\ xorders'[z].status = "NEW" => xorders[z].status = "NEW"
      BY <1>0, <2>1, <3>2, <3>4, <3>5 DEF y
    <3>8. \A z \in DOMAIN xorders' \ DOMAIN xorders : z = y
      BY <1>0, <3>5 DEF y
    <3>9. \A z \in DOMAIN xorders' \ DOMAIN xorders : xorders'[z].cid \notin Cids /\ xorders'[z].status # "NEW"
      BY <3>2, <3>5, <3>8, LiveAssumption
    <3>10. xorders' = [z \in 1..(Len(xorders) + 1) |-> xorders'[z]]
      BY <3>5 DEF y
    <3> QED BY <3>5, <3>6, <3>7, <3>9, <3>10, OrdersChange
  <2>4. \/ xorders' = [xorders EXCEPT ![x].status = "EXPIRED"]
        \/ \E n, r : xorders' = [Accepted("none", r, "FILLED") EXCEPT
                          ![x].status = "TRIGGERED", ![x].actual = Len(xorders) + 1,
                          ![Len(xorders) + 1].filled = n]
    BY <1>3 DEF Trigger
  <2> QED BY <2>2, <2>3, <2>4
<1> QED BY <1>1, <1>2, <1>3 DEF Exchange

\* Orders are taken off the book.
LEMMA BookCancels ==
    ASSUME BookOK, NEW X, XCancel(X)
    PROVE  /\ BookOK' /\ StillThere /\ Fewer /\ OnBook' \cap X = {}
           /\ \A x \in DOMAIN xorders : x \in X => xorders'[x].status = "CANCELED"
           /\ DOMAIN xorders' = DOMAIN xorders
<1>0. /\ DOMAIN xorders = 1..Len(xorders) /\ Len(xorders) \in Nat
      /\ \A x \in DOMAIN xorders : {"cid", "status"} \subseteq DOMAIN xorders[x]
  BY BookHas DEF BookOK
<1>1. /\ xorders' = [z \in 1..(Len(xorders) + 0) |-> xorders'[z]] /\ DOMAIN xorders' = DOMAIN xorders
      /\ \A z \in DOMAIN xorders : z \notin X => xorders'[z] = xorders[z]
      /\ \A z \in DOMAIN xorders : z \in X => xorders'[z] = [xorders[z] EXCEPT !.status = "CANCELED"]
  BY <1>0 DEF XCancel
<1>2. \A z \in DOMAIN xorders : z \in X =>
         /\ xorders'[z].status = "CANCELED" /\ DOMAIN xorders'[z] = DOMAIN xorders[z]
         /\ xorders'[z].cid = xorders[z].cid
  BY <1>0, <1>1
<1>3. BookOK' /\ StillThere /\ Fewer
  <2>1. /\ \A z \in DOMAIN xorders' : {"cid", "status"} \subseteq DOMAIN xorders'[z]
        /\ \A z \in DOMAIN xorders : /\ xorders'[z].cid = xorders[z].cid
                                     /\ xorders'[z].status = "NEW" => xorders[z].status = "NEW"
    BY <1>0, <1>1, <1>2
  <2> QED BY <1>1, <2>1, OrdersChange
<1> QED BY <1>1, <1>2, <1>3 DEF OnBook, XOpen

\* The exchange takes an order of a free id.
LEMMA Takes ==
    ASSUME BookOK, NEW c \in Cids, NEW r, c \notin OnBookCids, Take(c, r)
    PROVE  /\ BookOK' /\ StillThere /\ OnBookCids' \subseteq OnBookCids \cup {c}
           /\ LastOf(c, Of(c, xorders'), xorders')
<1> DEFINE e(st) == [cid |-> c, type |-> r.type, side |-> r.side, qty |-> r.qty,
                     reduce |-> r.reduce, filled |-> 0, actual |-> 0, status |-> st]
           f == [e("FILLED") EXCEPT !.filled = r.qty]
<1>1. \E d : /\ xorders' = Append(xorders, d) /\ d.cid = c /\ {"cid", "status"} \subseteq DOMAIN d
  <2>1. CASE r.type # "MARKET"
    <3>1. xorders' = Append(xorders, e("NEW"))
      BY <2>1 DEF Take, Accepted
    <3>2. e("NEW").cid = c /\ {"cid", "status"} \subseteq DOMAIN e("NEW")
      OBVIOUS
    <3> QED BY <3>1, <3>2
  <2>2. CASE r.type = "MARKET"
    <3> DEFINE a == Append(xorders, e("FILLED"))
               g == e("FILLED")
               y == Len(xorders) + 1
    <3>1. xorders' = [a EXCEPT ![y].filled = r.qty]
      BY <2>2 DEF Take, Accepted
    <3>2. f.cid = c /\ {"cid", "status"} \subseteq DOMAIN f
      OBVIOUS
    <3>3. f = [g EXCEPT !.filled = r.qty] /\ a = Append(xorders, g)
      OBVIOUS
    <3> HIDE DEF f, g
    <3>4. a[y] = g
      BY <3>3, AnyAppend DEF BookOK
    <3>5. xorders' = [a EXCEPT ![y] = f]
      BY <3>1, <3>3, <3>4
    <3>6. [a EXCEPT ![y] = f] = Append(xorders, f)
      <4>1. /\ DOMAIN a = 1..y /\ \A i \in 1..Len(xorders) : a[i] = xorders[i]
            /\ Len(xorders) \in Nat
        BY <3>3, AnyAppend DEF BookOK
      <4> HIDE DEF a
      <4>2. LET b == Append(xorders, f)
            IN  /\ b = [i \in 1..y |-> b[i]] /\ \A i \in 1..Len(xorders) : b[i] = xorders[i]
                /\ b[y] = f
        BY AnyAppend DEF BookOK
      <4>3. \A i \in 1..y : [a EXCEPT ![y] = f][i] = Append(xorders, f)[i]
        BY <4>1, <4>2
      <4>4. [a EXCEPT ![y] = f] = [i \in 1..y |-> [a EXCEPT ![y] = f][i]]
        BY <4>1
      <4> QED BY <4>2, <4>3, <4>4
    <3> QED BY <3>2, <3>5, <3>6
  <2> QED BY <2>1, <2>2
<1>2. PICK d : xorders' = Append(xorders, d) /\ d.cid = c /\ {"cid", "status"} \subseteq DOMAIN d
  BY <1>1
<1> HIDE DEF f, e
<1>3. xorders'[Len(xorders) + 1] = d
  BY <1>2, OrderTaken
<1> QED BY <1>2, <1>3, OrderTaken

\* What is taken over from the exchange.
LEMMA AppliedStatus ==
    ASSUME NEW o, NEW x, NEW xs
    PROVE  /\ Applied(o, x, xs).status = StatusOf(x) /\ "status" \in DOMAIN Applied(o, x, xs)
           /\ x.status = "NEW" => StatusOf(x) \in {"NEW", "PARTIALLY_FILLED"}
  BY DEF Applied, StatusOf

\* How the tracked orders may change beside the exchange's.
TrackedStep(c) ==
    \/ /\ tracked'[c].status = tracked[c].status /\ (tracked'[c] # NoOrder => tracked[c] # NoOrder)
       /\ c \in OnBookCids' => c \in OnBookCids
    \/ tracked'[c] = NoOrder
    \/ \E x : LastOf(c, x, xorders') /\ tracked'[c].status = StatusOf(xorders'[x])
    \/ tracked'[c].status \notin {"NEW", "PARTIALLY_FILLED"} /\ c \notin OnBookCids'

\* If each tracked order takes such a step, what holds of them stays so.
LEMMA Tracks ==
    ASSUME TrackedOK, ClosedIsClosed, BookOK', StillThere, DOMAIN tracked' = Cids,
           \A c \in Cids : "status" \in DOMAIN tracked'[c] /\ TrackedStep(c)
    PROVE  TrackedOK' /\ ClosedIsClosed'
<1>1. ASSUME NEW c \in Cids, LiveOpen(c)' PROVE \E x \in DOMAIN xorders' : xorders'[x].cid = c
  <2>1. tracked'[c].status \in {"NEW", "PARTIALLY_FILLED"}
    BY <1>1 DEF LiveOpen
  <2>2. tracked'[c] # NoOrder
    BY <2>1 DEF NoOrder
  <2>3. CASE tracked'[c].status = tracked[c].status
    BY <2>1, <2>3 DEF TrackedOK, LiveOpen, StillThere
  <2> QED BY <2>1, <2>2, <2>3 DEF TrackedStep, LastOf
<1>2. ASSUME NEW c \in Cids, tracked'[c] # NoOrder, ~LiveOpen(c)' PROVE c \notin OnBookCids'
  <2>1. tracked'[c].status \notin {"NEW", "PARTIALLY_FILLED"}
    BY <1>2 DEF LiveOpen
  <2>2. CASE /\ tracked'[c].status = tracked[c].status /\ tracked[c] # NoOrder
             /\ c \in OnBookCids' => c \in OnBookCids
    BY <2>1, <2>2 DEF ClosedIsClosed, LiveOpen
  <2>3. CASE \E x : LastOf(c, x, xorders') /\ tracked'[c].status = StatusOf(xorders'[x])
    <3>1. PICK x : LastOf(c, x, xorders') /\ tracked'[c].status = StatusOf(xorders'[x])
      BY <2>3
    <3>2. xorders'[x].status # "NEW"
      BY <2>1, <3>1, AppliedStatus
    <3>3. DOMAIN xorders' \subseteq Nat
      BY DEF BookOK
    <3>4. \A y \in DOMAIN xorders' : xorders'[y].cid = c => y = x \/ y < x
      BY <3>1, <3>3 DEF LastOf
    <3>5. \A y \in DOMAIN xorders' : xorders'[y].cid = c => xorders'[y].status # "NEW"
      BY <1>2, <3>1, <3>2, <3>4 DEF BookOK, LastOf
    <3> QED BY <3>5 DEF OnBookCids, OnBook, XOpen
  <2> QED BY <1>2, <2>2, <2>3 DEF TrackedStep
<1> QED BY <1>1, <1>2 DEF TrackedOK, ClosedIsClosed

\* The fills stay while the broker does other things.
LEMMA FillsStay ==
    ASSUME PulledOK, FillsAreTrades, UNCHANGED <<fills, lastTrade>>, visible' \in {visible, visible + 1}
    PROVE  PulledOK' /\ FillsAreTrades'
<1>1. visible' \in Nat
  BY DEF PulledOK
<1> QED BY <1>1 DEF PulledOK, FillsAreTrades

\* An order is placed, or placed again.
LEMMA LivePlaces ==
    ASSUME LiveInv, NEW c \in Cids, NEW r, NEW answer, LivePlace(c, r, answer) \/ LiveRepeat(c, answer)
    PROVE  LiveInv'
<1>0. /\ BookOK /\ TrackedOK /\ PulledOK /\ ClosedIsClosed /\ FillsAreTrades
      /\ DOMAIN tracked = Cids /\ \A d \in Cids : "status" \in DOMAIN tracked[d]
  BY DEF LiveInv, TrackedOK
<1>1. /\ UNCHANGED <<fills, lastTrade, visible>>
  BY DEF LivePlace, LiveRepeat, Post, PostExpires, PostRejected, PostLost, PostNowhere, Placed,
         exchange, broker, liveVars
<1>2. PulledOK' /\ FillsAreTrades'
  BY <1>0, <1>1, FillsStay
<1>3. CASE UNCHANGED <<xorders, tracked>>
  <2>1. BookOK' /\ TrackedOK' /\ ClosedIsClosed'
    BY <1>0, <1>3 DEF BookOK, TrackedOK, ClosedIsClosed, LiveOpen, OnBookCids, OnBook, XOpen, Entries
  <2> QED BY <1>2, <2>1 DEF LiveInv
<1>4. CASE /\ c \notin OnBookCids /\ xorders' = xorders
           /\ \E st \in {"EXPIRED", "REJECTED"} :
                 tracked' = [tracked EXCEPT ![c] = [Blank(r, Len(xtrades)) EXCEPT !.status = st]]
  <2>1. PICK st \in {"EXPIRED", "REJECTED"} :
                 tracked' = [tracked EXCEPT ![c] = [Blank(r, Len(xtrades)) EXCEPT !.status = st]]
    BY <1>4
  <2>2. DOMAIN tracked' = Cids /\ \A d \in Cids \ {c} : tracked'[d] = tracked[d]
    BY <1>0, <2>1
  <2>3. "status" \in DOMAIN tracked'[c] /\ tracked'[c].status = st
    <3>1. tracked'[c] = [Blank(r, Len(xtrades)) EXCEPT !.status = st]
      BY <1>0, <2>1
    <3> QED BY <3>1 DEF Blank
  <2>4. BookOK' /\ StillThere /\ OnBookCids' = OnBookCids
    BY <1>0, <1>4 DEF BookOK, StillThere, OnBookCids, OnBook, XOpen, Entries
  <2>5. \A d \in Cids : "status" \in DOMAIN tracked'[d] /\ TrackedStep(d)
    BY <1>0, <1>4, <2>2, <2>3, <2>4 DEF TrackedStep
  <2> QED BY <1>0, <1>2, <2>2, <2>4, <2>5, Tracks DEF LiveInv
<1>5. CASE /\ c \notin OnBookCids /\ tracked[c] = NoOrder /\ Take(c, r)
           /\ Placed(c, r) \/ UNCHANGED tracked
  <2>1. /\ BookOK' /\ StillThere /\ OnBookCids' \subseteq OnBookCids \cup {c}
        /\ LastOf(c, Of(c, xorders'), xorders')
    BY <1>0, <1>5, Takes
  <2>2. DOMAIN tracked' = Cids /\ \A d \in Cids \ {c} : tracked'[d] = tracked[d]
    BY <1>0, <1>5 DEF Placed
  <2>3. "status" \in DOMAIN tracked'[c] /\ TrackedStep(c)
    <3>1. CASE UNCHANGED tracked
      BY <1>0, <1>5, <3>1 DEF TrackedStep
    <3>2. CASE Placed(c, r)
      <4> DEFINE x == xorders'[Of(c, xorders')]
      <4>1. tracked'[c] = Applied(Blank(r, Len(xtrades)), x, xorders')
        BY <1>0, <3>2 DEF Placed
      <4> QED BY <2>1, <4>1, AppliedStatus DEF TrackedStep
    <3> QED BY <1>5, <3>1, <3>2
  <2>4. \A d \in Cids : "status" \in DOMAIN tracked'[d] /\ TrackedStep(d)
    BY <1>0, <2>1, <2>2, <2>3 DEF TrackedStep
  <2> QED BY <1>0, <1>2, <2>1, <2>2, <2>4, Tracks DEF LiveInv
<1>6. \/ UNCHANGED <<xorders, tracked>>
      \/ /\ c \notin OnBookCids /\ xorders' = xorders
         /\ \E st \in {"EXPIRED", "REJECTED"} :
                 tracked' = [tracked EXCEPT ![c] = [Blank(r, Len(xtrades)) EXCEPT !.status = st]]
      \/ /\ c \notin OnBookCids /\ tracked[c] = NoOrder /\ Take(c, r)
         /\ Placed(c, r) \/ UNCHANGED tracked
  <2>1. CASE Post(c, r, answer) \/ PostLost(c, r, answer)
    BY <2>1 DEF Post, PostLost, Free, broker, OnBookCids
  <2>2. CASE PostExpires(c, r, answer) \/ PostRejected(c, r, answer)
    BY <2>2 DEF PostExpires, PostRejected, Free, exchange, OnBookCids
  <2>3. CASE PostNowhere(c, r, answer) \/ LiveRepeat(c, answer)
    BY <2>3 DEF PostNowhere, LiveRepeat, exchange, broker, liveVars
  <2> QED BY <2>1, <2>2, <2>3 DEF LivePlace
<1> QED BY <1>3, <1>4, <1>5, <1>6

\* The exchange works on, beside the broker.
LEMMA LiveExchanges ==
    ASSUME LiveInv, Exchange
    PROVE  LiveInv'
<1>0. /\ BookOK /\ TrackedOK /\ PulledOK /\ ClosedIsClosed /\ FillsAreTrades
      /\ DOMAIN tracked = Cids /\ \A d \in Cids : "status" \in DOMAIN tracked[d]
  BY DEF LiveInv, TrackedOK
<1>1. UNCHANGED <<tracked, fills, lastTrade>> /\ visible' \in {visible, visible + 1}
  BY DEF Exchange, Appear, Execute, Trigger, broker
<1>2. BookOK' /\ StillThere /\ Fewer
  BY <1>0, ExchangeWorks
<1>3. \A d \in Cids : "status" \in DOMAIN tracked'[d] /\ TrackedStep(d)
  BY <1>0, <1>1, <1>2 DEF TrackedStep, Fewer
<1> QED BY <1>0, <1>1, <1>2, <1>3, Tracks, FillsStay DEF LiveInv

\* Orders that are on the exchange are asked for.
LEMMA Refreshes ==
    ASSUME LiveInv, NEW C, tracked' = Refreshed(C, xorders), UNCHANGED <<xorders, fills, lastTrade, visible>>,
           \A c \in C \cap Cids : \E x \in DOMAIN xorders : xorders[x].cid = c
    PROVE  LiveInv'
<1>0. /\ BookOK /\ TrackedOK /\ PulledOK /\ ClosedIsClosed /\ FillsAreTrades
      /\ DOMAIN tracked = Cids /\ \A d \in Cids : "status" \in DOMAIN tracked[d]
  BY DEF LiveInv, TrackedOK
<1>1. BookOK' /\ StillThere /\ OnBookCids' = OnBookCids
  BY <1>0 DEF BookOK, StillThere, OnBookCids, OnBook, XOpen, Entries
<1>2. DOMAIN tracked' = Cids /\ \A c \in Cids \ C : tracked'[c] = tracked[c]
  BY DEF Refreshed
<1>3. ASSUME NEW c \in Cids PROVE "status" \in DOMAIN tracked'[c] /\ TrackedStep(c)
  <2>1. CASE c \notin C
    BY <1>0, <1>1, <1>2, <2>1 DEF TrackedStep
  <2>2. CASE c \in C
    <3>1. PICK x : x = Of(c, xorders) /\ LastOf(c, x, xorders)
      <4>1. \E y \in DOMAIN xorders : xorders[y].cid = c
        BY <2>2
      <4> QED BY <1>0, <4>1, BookHas, OfIs
    <3> DEFINE o == IF tracked[c] = NoOrder THEN Blank(xorders[x], Nothing) ELSE tracked[c]
    <3>3. tracked'[c] = Applied(o, xorders[x], xorders)
      BY <2>2, <3>1 DEF Refreshed
    <3> HIDE DEF o
    <3> QED BY <3>1, <3>3, AppliedStatus DEF TrackedStep
  <2> QED BY <2>1, <2>2
<1> QED BY <1>0, <1>1, <1>2, <1>3, Tracks, FillsStay DEF LiveInv

\* poll and openOrders.
LEMMA LiveReads ==
    ASSUME LiveInv, \/ PollOrders \/ CancelAllBegin
                    \/ OpenOrders /\ UNCHANGED exchange
    PROVE  LiveInv'
<1>1. CASE PollOrders
  <2>1. PICK C \in SUBSET {c \in Cids : tracked[c] # NoOrder /\ LiveOpen(c)} : tracked' = Refreshed(C, xorders)
    BY <1>1 DEF PollOrders
  <2>2. UNCHANGED <<xorders, fills, lastTrade, visible>>
    BY <1>1 DEF PollOrders, exchange
  <2>3. \A c \in C \cap Cids : \E x \in DOMAIN xorders : xorders[x].cid = c
    BY <2>1 DEF LiveInv, TrackedOK
  <2> QED BY <2>1, <2>2, <2>3, Refreshes
<1>2. CASE OpenOrders /\ UNCHANGED exchange
  <2>1. tracked' = Refreshed(OnBookCids, xorders) /\ UNCHANGED <<xorders, fills, lastTrade, visible>>
    BY <1>2 DEF OpenOrders, exchange
  <2>2. \A c \in OnBookCids \cap Cids : \E x \in DOMAIN xorders : xorders[x].cid = c
    BY DEF OnBookCids, OnBook
  <2> QED BY <2>1, <2>2, Refreshes
<1> QED BY <1>1, <1>2 DEF CancelAllBegin

\* Orders are cancelled.
LEMMA LiveCancels ==
    ASSUME LiveInv, CancelAllEnd \/ \E c \in Cids : LiveCancel(c)
    PROVE  LiveInv'
<1>0. /\ BookOK /\ TrackedOK /\ PulledOK /\ ClosedIsClosed /\ FillsAreTrades
      /\ DOMAIN tracked = Cids /\ \A d \in Cids : "status" \in DOMAIN tracked[d]
  BY DEF LiveInv, TrackedOK
<1>1. PulledOK' /\ FillsAreTrades'
  <2>1. UNCHANGED <<fills, lastTrade, visible>>
    BY DEF CancelAllEnd, LiveCancel
  <2> QED BY <1>0, <2>1, FillsStay
<1>2. CASE UNCHANGED <<xorders, tracked>>
  <2>1. BookOK' /\ TrackedOK' /\ ClosedIsClosed'
    BY <1>0, <1>2 DEF BookOK, TrackedOK, ClosedIsClosed, LiveOpen, OnBookCids, OnBook, XOpen, Entries
  <2> QED BY <1>1, <2>1 DEF LiveInv
<1>3. CASE UNCHANGED tracked /\ \E X : XCancel(X)
  <2>1. BookOK' /\ StillThere /\ Fewer
    BY <1>0, <1>3, BookCancels
  <2>2. \A d \in Cids : "status" \in DOMAIN tracked'[d] /\ TrackedStep(d)
    BY <1>0, <1>3, <2>1 DEF TrackedStep, Fewer
  <2> QED BY <1>0, <1>1, <1>3, <2>1, <2>2, Tracks DEF LiveInv
<1>4. CASE /\ XCancel(OnBook)
           /\ tracked' = [c \in Cids |-> IF c \in before THEN [tracked[c] EXCEPT !.status = "CANCELED"]
                                                         ELSE tracked[c]]
  <2>1. BookOK' /\ StillThere /\ Fewer /\ OnBook' \cap OnBook = {}
    BY <1>0, <1>4, BookCancels
  <2>2. OnBook' = {}
    <3>1. OnBook' \subseteq OnBook
      BY <1>4 DEF XCancel, OnBook, XOpen
    <3> QED BY <2>1, <3>1
  <2>3. OnBookCids' = {}
    BY <2>2 DEF OnBookCids
  <2>4. ASSUME NEW c \in Cids PROVE "status" \in DOMAIN tracked'[c] /\ TrackedStep(c)
    <3>1. CASE c \in before
      <4>1. tracked'[c] = [tracked[c] EXCEPT !.status = "CANCELED"]
        BY <1>4, <3>1
      <4>2. "status" \in DOMAIN tracked'[c] /\ tracked'[c].status = "CANCELED"
        BY <1>0, <4>1
      <4> QED BY <2>3, <4>2 DEF TrackedStep
    <3>2. CASE c \notin before
      BY <1>0, <1>4, <2>3, <3>2 DEF TrackedStep
    <3> QED BY <3>1, <3>2
  <2>5. DOMAIN tracked' = Cids
    BY <1>4
  <2> QED BY <1>0, <1>1, <2>1, <2>4, <2>5, Tracks DEF LiveInv
<1>5. ASSUME NEW c \in Cids, Of(c, xorders) \in OnBook, XCancel({Of(c, xorders)}), tracked[c] # NoOrder,
             tracked' = [tracked EXCEPT ![c] = Applied(@, xorders'[Of(c, xorders)], xorders')]
      PROVE  LiveInv'
  <2> DEFINE x == Of(c, xorders)
  <2>1. BookOK' /\ StillThere /\ Fewer /\ x \in DOMAIN xorders /\ x \notin OnBook'
    BY <1>0, <1>5, BookCancels DEF OnBook
  <2>2. x \in DOMAIN xorders' /\ xorders'[x].status = "CANCELED"
    BY <1>0, <1>5, <2>1, BookCancels
  <2>3. /\ DOMAIN tracked' = Cids /\ \A d \in Cids \ {c} : tracked'[d] = tracked[d]
        /\ tracked'[c] = Applied(tracked[c], xorders'[x], xorders')
    BY <1>0, <1>5
  <2>4. \A d \in Cids \ {c} : "status" \in DOMAIN tracked'[d] /\ TrackedStep(d)
    BY <1>0, <2>1, <2>3 DEF TrackedStep, Fewer
  <2>5. LastOf(c, x, xorders')
    <3>1. \E z \in DOMAIN xorders : xorders[z].cid = c
      <4>1. x # 0
        BY <1>0, <2>1, BookHas
      <4> QED BY <4>1 DEF Of
    <3>2. LastOf(c, x, xorders)
      BY <1>0, <3>1, BookHas, OfIs
    <3>3. DOMAIN xorders' = DOMAIN xorders
      BY <1>0, <1>5, BookCancels
    <3> QED BY <2>1, <3>2, <3>3 DEF StillThere, LastOf
  <2> HIDE DEF x
  <2>6. "status" \in DOMAIN tracked'[c] /\ TrackedStep(c)
    <3>1. "status" \in DOMAIN tracked'[c] /\ tracked'[c].status = StatusOf(xorders'[x])
      <4>1. tracked'[c] = Applied(tracked[c], xorders'[x], xorders')
        BY <2>3
      <4> QED BY <4>1 DEF Applied
    <3> QED BY <2>2, <2>5, <3>1 DEF TrackedStep
  <2> QED BY <1>0, <1>1, <2>1, <2>3, <2>4, <2>6, Tracks DEF LiveInv
<1>6. CASE CancelAllEnd
  BY <1>2, <1>3, <1>4, <1>6 DEF CancelAllEnd
<1>7. CASE \E c \in Cids : LiveCancel(c)
  BY <1>3, <1>5, <1>7 DEF LiveCancel
<1> QED BY <1>6, <1>7

\* The process starts again.
LEMMA LiveRestarts ==
    ASSUME LiveInv, LiveRestart
    PROVE  LiveInv'
<1>1. /\ tracked' = [c \in Cids |-> NoOrder] /\ fills' = <<>> /\ lastTrade' = Nothing
      /\ UNCHANGED <<xorders, visible>>
  BY DEF LiveRestart, exchange
<1>2. BookOK' /\ StillThere
  BY <1>1 DEF LiveInv, BookOK, StillThere, Entries
<1>3. \A c \in Cids : "status" \in DOMAIN tracked'[c] /\ TrackedStep(c)
  BY <1>1 DEF TrackedStep, NoOrder
<1>4. TrackedOK' /\ ClosedIsClosed'
  BY <1>1, <1>2, <1>3, Tracks DEF LiveInv
<1>5. PulledOK' /\ FillsAreTrades'
  BY <1>1 DEF LiveInv, PulledOK, FillsAreTrades
<1> QED BY <1>2, <1>4, <1>5 DEF LiveInv

\* One sequence after the other.
LEMMA Joined ==
    ASSUME NEW S, NEW s \in Seq(S), NEW w \in Seq(S), NEW m, m = Len(s), NEW n, n = Len(w)
    PROVE  /\ s \o w \in Seq(S) /\ Len(s \o w) = m + n
           /\ \A i \in 1..(m + n) : (s \o w)[i] = IF i <= m THEN s[i] ELSE w[i - m]
  BY ConcatProperties

Fill == [trade : Nat, named : BOOLEAN]
News(from) == [k \in 1..(visible - from) |->
                  [trade |-> from + k, named |-> xtrades[from + k] \in names]]

\* The trades after from are appended.
LEMMA FillsAppend ==
    ASSUME PulledOK, FillsAreTrades, NEW from \in From,
           fills' = fills \o News(from), lastTrade' = IF from < visible THEN visible ELSE lastTrade,
           visible' = visible
    PROVE  PulledOK' /\ FillsAreTrades'
<1>1. /\ fills \in Seq(Fill) /\ visible \in Nat /\ lastTrade \in Nat \cup {Nothing}
      /\ lastTrade = Nothing => fills = <<>>
  BY DEF PulledOK, Fill
<1>2. from \in Nat /\ (lastTrade # Nothing => from = lastTrade)
  BY <1>1 DEF From, Start
<1>3. CASE visible <= from
  <2>1. News(from) = <<>>
    <3>1. 1..(visible - from) = {}
      BY <1>1, <1>2, <1>3
    <3> QED BY <3>1 DEF News
  <2>2. fills' = fills /\ lastTrade' = lastTrade
    BY <1>1, <1>2, <1>3, <2>1
  <2> QED BY <2>2, FillsStay
<1>4. CASE from < visible
  <2> DEFINE n == visible - from
             w == News(from)
             m == Len(fills)
  <2>1. n \in Nat /\ n >= 1 /\ m \in Nat /\ DOMAIN fills = 1..m /\ \A k \in 1..m : fills[k] \in Fill
    BY <1>1, <1>2, <1>4
  <2>2. \A k \in 1..n : w[k] \in Fill /\ w[k].trade = from + k
    BY <1>2, <2>1 DEF News, Fill
  <2>3. w \in [1..n -> Fill]
    BY <2>2 DEF News
  <2> HIDE DEF w, n
  <2>4. w \in Seq(Fill) /\ Len(w) = n
    BY <2>1, <2>3
  <2>5. /\ fills' \in Seq(Fill) /\ Len(fills') = m + n
        /\ \A k \in 1..(m + n) : fills'[k] = IF k <= m THEN fills[k] ELSE w[k - m]
    <3>1. fills' = fills \o w
      BY DEF w
    <3> HIDE DEF m
    <3>2. Len(fills) = m
      BY DEF m
    <3> QED BY <1>1, <2>4, <3>1, <3>2, Joined
  <2>5a. Len(fills') = m + n
    BY <2>5
  <2>6. m > 0 => fills[m].trade = from
    <3>1. m > 0 => fills # <<>>
      BY <1>1
    <3> QED BY <1>1, <1>2, <3>1 DEF FillsAreTrades
  <2>6a. \A k \in 1..(m - 1) : fills[k + 1].trade = fills[k].trade + 1
    BY DEF FillsAreTrades
  <2> HIDE DEF m
  <2>7. \A k \in 1..(m + n) : k > m => fills'[k].trade = from + (k - m)
    <3> SUFFICES ASSUME NEW k \in 1..(m + n), k > m PROVE fills'[k].trade = from + (k - m)
      OBVIOUS
    <3>1. k - m \in 1..n /\ ~(k <= m)
      BY <2>1
    <3> QED BY <2>2, <2>5, <3>1
  <2>8. ASSUME NEW k \in 1..(m + n - 1) PROVE fills'[k + 1].trade = fills'[k].trade + 1
    <3>0. k \in 1..(m + n) /\ k + 1 \in 1..(m + n)
      BY <2>1
    <3>1. CASE k < m
      <4>1. fills'[k] = fills[k] /\ fills'[k + 1] = fills[k + 1] /\ k \in 1..(m - 1)
        BY <2>1, <2>5, <3>0, <3>1
      <4> QED BY <4>1, <2>6a
    <3>2. CASE k = m
      <4>1. fills'[k] = fills[m] /\ m > 0
        BY <2>1, <2>5, <3>0, <3>2
      <4>2. fills'[k + 1].trade = from + ((k + 1) - m)
        <5>1. k + 1 > m
          BY <2>1, <3>2
        <5> QED BY <2>7, <3>0, <5>1
      <4>3. (k + 1) - m = 1
        BY <2>1, <3>2
      <4> QED BY <2>6, <4>1, <4>2, <4>3
    <3>3. CASE k > m
      <4>1. fills'[k].trade = from + (k - m)
        BY <2>7, <3>0, <3>3
      <4>2. k + 1 > m
        BY <2>1, <3>3
      <4>3. fills'[k + 1].trade = from + ((k + 1) - m)
        BY <2>7, <3>0, <4>2
      <4> QED BY <1>2, <2>1, <4>1, <4>3
    <3>4. k < m \/ k = m \/ k > m
      BY <2>1
    <3> QED BY <3>1, <3>2, <3>3, <3>4
  <2>9. fills'[m + n].trade = visible /\ lastTrade' = visible
    <3>1. m + n \in 1..(m + n) /\ m + n > m
      BY <2>1
    <3>2. fills'[m + n].trade = from + ((m + n) - m)
      BY <2>7, <3>1
    <3>3. from + ((m + n) - m) = visible
      BY <1>1, <1>2, <2>1 DEF n
    <3> QED BY <1>4, <3>2, <3>3
  <2>10. FillsAreTrades'
    <3>1. \A k \in 1..(Len(fills') - 1) : fills'[k + 1].trade = fills'[k].trade + 1
      <4>1. \A k \in 1..(m + n - 1) : fills'[k + 1].trade = fills'[k].trade + 1
        BY <2>8
      <4>2. Len(fills') - 1 = m + n - 1
        BY <2>1, <2>5a
      <4>3. 1..(Len(fills') - 1) = 1..(m + n - 1)
        BY <4>2, Zenon
      <4> QED BY <4>1, <4>3, Zenon
    <3>2. fills'[Len(fills')].trade = lastTrade'
      BY <2>5a, <2>9
    <3> QED BY <3>1, <3>2 DEF FillsAreTrades
  <2>11. PulledOK'
    BY <1>1, <2>5, <2>9 DEF PulledOK, Fill, Nothing
  <2> QED BY <2>10, <2>11
<1> QED BY <1>1, <1>2, <1>3, <1>4

\* _pull_trades.
LEMMA LivePulls ==
    ASSUME LiveInv, NEW answer, Pull(answer)
    PROVE  LiveInv'
<1>0. /\ BookOK /\ TrackedOK /\ PulledOK /\ ClosedIsClosed /\ FillsAreTrades
      /\ DOMAIN tracked = Cids /\ \A d \in Cids : "status" \in DOMAIN tracked[d]
  BY DEF LiveInv, TrackedOK
<1>1. UNCHANGED <<xorders, xtrades, visible>> /\ (UNCHANGED broker \/ \E from \in From : Pulled(from))
  BY DEF Pull, exchange
<1>2. BookOK' /\ StillThere /\ OnBookCids' = OnBookCids
  BY <1>0, <1>1 DEF BookOK, StillThere, OnBookCids, OnBook, XOpen, Entries
<1>3. CASE UNCHANGED broker
  <2>1. UNCHANGED <<tracked, fills, lastTrade>>
    BY <1>3 DEF broker
  <2>2. \A d \in Cids : "status" \in DOMAIN tracked'[d] /\ TrackedStep(d)
    BY <1>0, <1>2, <2>1 DEF TrackedStep
  <2> QED BY <1>0, <1>1, <1>2, <2>1, <2>2, Tracks, FillsStay DEF LiveInv
<1>4. ASSUME NEW from \in From, Pulled(from) PROVE LiveInv'
  <2>1. fills' = fills \o News(from) /\ lastTrade' = IF from < visible THEN visible ELSE lastTrade
    BY <1>4 DEF Pulled, News
  <2>2. PulledOK' /\ FillsAreTrades'
    BY <1>0, <1>1, <2>1, FillsAppend
  <2>3. DOMAIN tracked' = Cids
    BY <1>4 DEF Pulled
  <2>4. \A c \in Cids : \/ tracked'[c] = tracked[c]
                        \/ tracked[c] # NoOrder /\ \E v : tracked'[c] = [tracked[c] EXCEPT !.filled = v]
    BY <1>4 DEF Pulled
  <2>5. ASSUME NEW c \in Cids PROVE "status" \in DOMAIN tracked'[c] /\ TrackedStep(c)
    <3>1. "status" \in DOMAIN tracked'[c] /\ tracked'[c].status = tracked[c].status
      BY <1>0, <2>4
    <3> QED BY <1>2, <2>4, <3>1 DEF TrackedStep
  <2> QED BY <1>0, <1>2, <2>2, <2>3, <2>5, Tracks DEF LiveInv
<1> QED BY <1>1, <1>3, <1>4

-----------------------------------------------------------------------------
(* Both, behind the guard. *)

ExecInv == PaperInv /\ LiveInv

\* A simulated exchange that nothing happens to stays as it is.
LEMMA PaperSame ==
    ASSUME PaperInv, UNCHANGED paperVars
    PROVE  PaperInv'
<1>1. /\ UNCHANGED <<tape, shown, orders, pos, cursor, poll, disk, skipped, pfaults>>
      /\ Resting' = Resting
  BY DEF paperVars, Resting, Open
<1>2. PaperTypeOK'
  BY <1>1 DEF PaperInv, PaperTypeOK
<1>3. NoTradePassed'
  BY <1>1 DEF PaperInv, NoTradePassed, Behind, Hits, Passed
<1>4. PollShape' /\ TimesOK' /\ FileOK' /\ PollOK'
  BY <1>1 DEF PaperInv, PollShape, TimesOK, FileOK, PollOK
<1> QED BY <1>2, <1>3, <1>4 DEF PaperInv

\* And so does the real broker.
LEMMA LiveSame ==
    ASSUME LiveInv, UNCHANGED liveVars
    PROVE  LiveInv'
<1>1. /\ UNCHANGED <<xorders, tracked, fills, lastTrade, visible>>
      /\ OnBookCids' = OnBookCids
  BY DEF liveVars, OnBookCids, OnBook, XOpen
<1>2. BookOK' /\ TrackedOK'
  BY <1>1 DEF LiveInv, BookOK, TrackedOK, Entries, LiveOpen
<1>3. PulledOK' /\ FillsAreTrades' /\ ClosedIsClosed'
  BY <1>1 DEF LiveInv, PulledOK, FillsAreTrades, ClosedIsClosed, LiveOpen
<1> QED BY <1>2, <1>3 DEF LiveInv

\* Nothing is placed, tracked or filled at first.
LEMMA ExecStarts ==
    ASSUME Init
    PROVE  ExecInv
<1>1. PaperInit /\ LiveInit
  BY DEF Init
<1>2. PaperTypeOK
  <2>1. <<>> \in Seq(Prices) /\ <<>> \in Seq(Order) /\ Len(<<>>) = 0 /\ DOMAIN <<>> = {}
    OBVIOUS
  <2> QED BY <1>1, <2>1, PaperAssumption DEF PaperInit, PaperTypeOK, Idle, None
<1>3. Resting = {} /\ PollShape /\ TimesOK /\ FileOK /\ PollOK /\ NoTradePassed
  BY <1>1 DEF PaperInit, PollShape, TimesOK, FileOK, PollOK, NoTradePassed, Resting, Idle, None
<1>4. xorders = <<>> /\ DOMAIN xorders = {} /\ visible = 0 /\ fills = <<>> /\ lastTrade = -1
      /\ tracked = [c \in Cids |-> NoOrder]
  BY <1>1 DEF LiveInit, Nothing
<1>5. BookOK
  BY <1>4 DEF BookOK, Entries
<1>6. TrackedOK /\ ClosedIsClosed
  BY <1>4 DEF TrackedOK, ClosedIsClosed, LiveOpen, NoOrder, OnBookCids, OnBook
<1>7. PulledOK /\ FillsAreTrades
  BY <1>4 DEF PulledOK, FillsAreTrades, Nothing
<1> QED BY <1>2, <1>3, <1>5, <1>6, <1>7 DEF ExecInv, PaperInv, LiveInv

\* A process that starts again has the file of the simulated exchange, or the
\* real one and nothing else.
LEMMA Starting ==
    ASSUME ExecInv, Restarted
    PROVE  ExecInv'
<1>1. CASE PaperRestart /\ UNCHANGED liveVars
  BY <1>1, PaperRestarts, LiveSame DEF ExecInv
<1>2. CASE LiveRestart /\ UNCHANGED paperVars
  BY <1>2, LiveRestarts, PaperSame DEF ExecInv
<1> QED BY <1>1, <1>2 DEF Restarted

\* Orders through the guard in front of the simulated exchange.
LEMMA PaperOrders ==
    ASSUME ExecInv, NEW r \in Requests, GuardedPaper(r)
    PROVE  ExecInv'
<1>1. UNCHANGED liveVars /\ r \in Request
  BY ExecutionAssumption DEF GuardedPaper
<1>2. \/ UNCHANGED paperVars
      \/ \E answer \in Answers : PaperPlace(r, answer)
  BY DEF GuardedPaper, PaperRepeat
<1>3. PaperInv'
  <2>1. CASE UNCHANGED paperVars
    BY <2>1, PaperSame DEF ExecInv
  <2>2. ASSUME NEW answer \in Answers, PaperPlace(r, answer) PROVE PaperInv'
    BY <1>1, <2>2, PaperPlaces DEF ExecInv
  <2> QED BY <1>2, <2>1, <2>2
<1> QED BY <1>1, <1>3, LiveSame DEF ExecInv

\* And in front of the real one: the requests a check and an order are.
LEMMA LiveOrders ==
    ASSUME ExecInv, GuardedCount \/ GuardedPost \/ GuardedPull
    PROVE  ExecInv'
<1>1. UNCHANGED paperVars
  BY DEF GuardedCount, GuardedPost, GuardedPull
<1>0. LiveInv
  BY DEF ExecInv
<1>2. ASSUME GuardedCount PROVE LiveInv'
  <2>1. OpenOrders /\ UNCHANGED exchange
    BY <1>2 DEF GuardedCount
  <2> QED BY <1>0, <2>1, LiveReads
<1>3. ASSUME GuardedPost PROVE LiveInv'
  <2>1. PICK c \in Cids, answer \in LiveAnswers \cup {"waits"} :
            LivePlace(c, look.r, answer) \/ LiveRepeat(c, answer)
    BY <1>3 DEF GuardedPost
  <2> QED BY <1>0, <2>1, LivePlaces
<1>4. ASSUME GuardedPull PROVE LiveInv'
  <2>1. PICK answer \in LiveAnswers : Pull(answer)
    BY <1>4 DEF GuardedPull
  <2> QED BY <1>0, <2>1, LivePulls
<1>5. LiveInv'
  BY <1>2, <1>3, <1>4
<1> QED BY <1>1, <1>5, PaperSame DEF ExecInv

\* What passes the guard untouched.
LEMMA Untouched ==
    ASSUME ExecInv, PaperPasses \/ LivePasses
    PROVE  ExecInv'
<1>1. CASE PaperPasses
  <2>1. UNCHANGED liveVars /\ (PaperPoll \/ Market \/ \E i \in DOMAIN orders : PaperCancel(i))
    BY <1>1 DEF PaperPasses
  <2>2. ASSUME PaperPoll PROVE PaperInv'
    <3>1. \/ PollBegin \/ PollNothing \/ PollNext \/ PollEnd \/ \E i \in poll.todo : PollStale(i)
          \/ \E i \in poll.todo : PollExpire(i) \/ PollFill(i)
      BY <2>2 DEF PaperPoll
    <3>2. PaperInv
      BY DEF ExecInv
    <3> QED BY <3>1, <3>2, PaperLooks, PaperEnds
  <2>3. PaperInv'
    BY <2>1, <2>2, PaperEnds, MarketMoves DEF ExecInv
  <2> QED BY <2>1, <2>3, LiveSame DEF ExecInv
<1>2. CASE LivePasses
  <2>1. /\ UNCHANGED paperVars
        /\ \/ Exchange \/ PollOrders \/ CancelAllBegin \/ CancelAllEnd
           \/ \E c \in Cids : LiveCancel(c)
    BY <1>2 DEF LivePasses
  <2>2. LiveInv'
    BY <2>1, LiveExchanges, LiveReads, LiveCancels DEF ExecInv
  <2> QED BY <2>1, <2>2, PaperSame DEF ExecInv
<1> QED BY <1>1, <1>2

\* The inductive invariant: every step keeps it.
LEMMA ExecSteps ==
    ASSUME ExecInv, [Next]_vars
    PROVE  ExecInv'
<1>1. CASE PaperPasses \/ LivePasses
  BY <1>1, Untouched
<1>2. CASE GuardedCount \/ GuardedPost \/ GuardedPull
  BY <1>2, LiveOrders
<1>3. ASSUME NEW r \in Requests, GuardedPaper(r) PROVE ExecInv'
  BY <1>3, PaperOrders
<1>4. CASE UNCHANGED <<paperVars, liveVars>>
  BY <1>4, PaperSame, LiveSame DEF ExecInv
<1>5. CASE Restarted
  BY <1>5, Starting
<1>6. ASSUME NEW r \in Requests, GuardedLook(r) PROVE ExecInv'
  BY <1>6, <1>4 DEF GuardedLook
<1>7. CASE Unhealthy \/ Resume \/ ResetHalt \/ UNCHANGED vars
  BY <1>7, <1>4 DEF Unhealthy, Resume, ResetHalt, vars
<1>8. ASSUME NEW result \in Results, RecordNight(result) \/ RecordNightCut(result) PROVE ExecInv'
  BY <1>8, <1>4, <1>5 DEF RecordNight, RecordNightCut
<1>9. CASE Restart
  BY <1>9, <1>5 DEF Restart
<1> QED BY <1>1, <1>2, <1>3, <1>6, <1>7, <1>8, <1>9 DEF Next

\* The inductive invariant holds.
LEMMA ExecInvHolds == Spec => []ExecInv
<1>1. Init => ExecInv
  BY ExecStarts
<1>2. ExecInv /\ [Next]_vars => ExecInv'
  BY ExecSteps
<1> QED BY <1>1, <1>2, PTL DEF Spec

\* The simulated exchange's variables keep their types: the cursor, a poll's
\* place and the file never leave the tape there is (_save, _load and
\* _reset_cursor of paper.py).
THEOREM PaperTypesHold == Spec => []PaperTypeOK
<1>1. ExecInv => PaperTypeOK
  BY DEF ExecInv, PaperInv
<1> QED BY <1>1, ExecInvHolds, PTL

\* No trade through a resting order is passed over, whatever resets the cursor,
\* polls, breaks off, saves and starts again (poll of paper.py).
THEOREM NoTradePassedHolds == Spec => []NoTradePassed
<1>1. ExecInv => NoTradePassed
  BY DEF ExecInv, PaperInv
<1> QED BY <1>1, ExecInvHolds, PTL

\* No trade of the account is lost or taken twice, whatever fails and however
\* late the trade list shows it (_pull_trades of live.py).
THEOREM FillsAreTradesHolds == Spec => []FillsAreTrades
<1>1. ExecInv => FillsAreTrades
  BY DEF ExecInv, LiveInv
<1> QED BY <1>1, ExecInvHolds, PTL

\* No order the broker no longer polls is on the exchange's book, lost answers,
\* orders that are not found and a cancel_all cut in two included (_call,
\* _recover and cancel_all of live.py).
THEOREM ClosedIsClosedHolds == Spec => []ClosedIsClosed
<1>1. ExecInv => ClosedIsClosed
  BY DEF ExecInv, LiveInv
<1> QED BY <1>1, ExecInvHolds, PTL

-----------------------------------------------------------------------------
(* Sums. *)

\* The recursion of a sum.
Sums(f, N, g) == g = [m \in 0..N |-> IF m = 0 THEN 0 ELSE g[m - 1] + f[m]]

\* There is a function that sums number by number.
LEMMA SumsExist ==
    ASSUME NEW f, NEW N \in Nat
    PROVE  \E g : Sums(f, N, g)
<1> DEFINE T == {n \in Nat : ~\E g : Sums(f, n, g)}
<1> SUFFICES ASSUME T # {} PROVE FALSE
  OBVIOUS
<1>1. PICK n \in T : \A m \in T : n <= m
  <2> HIDE DEF T
  <2>1. T \subseteq Nat
    BY DEF T
  <2> QED BY <2>1, Least
<1>2. n # 0
  <2>1. Sums(f, 0, [m \in 0..0 |-> 0])
    BY DEF Sums
  <2> QED BY <1>1, <2>1
<1>3. PICK p \in Nat : n = p + 1
  <2>1. n - 1 \in Nat /\ n = (n - 1) + 1
    BY <1>1, <1>2
  <2> QED BY <2>1
<1>4. PICK g : Sums(f, p, g)
  <2>1. p \notin T
    BY <1>1, <1>3
  <2> QED BY <2>1
<1> DEFINE h == [m \in 0..n |-> IF m = n THEN g[p] + f[n] ELSE g[m]]
<1>5. \A m \in 0..n : h[m] = IF m = 0 THEN 0 ELSE h[m - 1] + f[m]
  <2> SUFFICES ASSUME NEW m \in 0..n PROVE h[m] = IF m = 0 THEN 0 ELSE h[m - 1] + f[m]
    OBVIOUS
  <2>1. CASE m = n
    <3>1. m - 1 = p /\ p \in 0..n /\ p # n /\ m # 0
      BY <1>3, <2>1
    <3>2. h[m - 1] = g[p]
      BY <3>1
    <3> QED BY <2>1, <3>1, <3>2
  <2>2. CASE m # n
    <3>1. m \in 0..p /\ h[m] = g[m]
      BY <1>3, <2>2
    <3>2. m # 0 => h[m - 1] = g[m - 1]
      BY <1>3, <2>2
    <3>3. g[m] = IF m = 0 THEN 0 ELSE g[m - 1] + f[m]
      BY <1>4, <3>1 DEF Sums
    <3> QED BY <3>1, <3>2, <3>3
  <2> QED BY <2>1, <2>2
<1>6. Sums(f, n, h)
  <2>1. h = [m \in 0..n |-> h[m]]
    OBVIOUS
  <2> HIDE DEF h
  <2> QED BY <1>5, <2>1 DEF Sums
<1> QED BY <1>1, <1>6

\* Two that sum the same numbers agree.
LEMMA SumsAgree ==
    ASSUME NEW N \in Nat, NEW M \in Nat, NEW f, NEW h, NEW g, NEW e, Sums(f, N, g), Sums(h, M, e),
           NEW n \in Nat, n <= N, n <= M, \A i \in 1..n : f[i] = h[i]
    PROVE  g[n] = e[n]
<1> DEFINE T == {k \in 0..n : g[k] # e[k]}
<1>1. T = {}
  <2> SUFFICES ASSUME T # {} PROVE FALSE
    OBVIOUS
  <2>1. PICK k \in T : \A m \in T : k <= m
    <3>1. T \subseteq Nat
      BY DEF T
    <3> HIDE DEF T
    <3> QED BY <3>1, Least
  <2>2. k \in 0..N /\ k \in 0..M /\ k \in 0..n
    BY <2>1
  <2>3. /\ g[k] = IF k = 0 THEN 0 ELSE g[k - 1] + f[k]
        /\ e[k] = IF k = 0 THEN 0 ELSE e[k - 1] + h[k]
    <3>1. \A m \in 0..N : g[m] = IF m = 0 THEN 0 ELSE g[m - 1] + f[m]
      BY DEF Sums
    <3>2. \A m \in 0..M : e[m] = IF m = 0 THEN 0 ELSE e[m - 1] + h[m]
      BY DEF Sums
    <3> QED BY <2>2, <3>1, <3>2
  <2>4. k # 0
    BY <2>1, <2>3
  <2>5. k \in 1..n /\ k - 1 \in 0..n /\ k - 1 < k
    BY <2>2, <2>4
  <2>6. k - 1 \notin T
    BY <2>1, <2>5
  <2>7. g[k - 1] = e[k - 1] /\ f[k] = h[k]
    BY <2>5, <2>6
  <2> QED BY <2>1, <2>3, <2>7
<1>2. n \in 0..n
  OBVIOUS
<1> QED BY <1>1, <1>2

\* A total is what such a function gives.
LEMMA TotalBy ==
    ASSUME NEW f, NEW N \in Nat
    PROVE  \E g : Sums(f, N, g) /\ Total(f, N) = g[N]
<1>1. Total(f, N) = (CHOOSE g : Sums(f, N, g))[N]
  BY DEF Total, Sums
<1> QED BY <1>1, SumsExist

\* The total of the same numbers.
LEMMA TotalSame ==
    ASSUME NEW f, NEW h, NEW N \in Nat, \A i \in 1..N : f[i] = h[i]
    PROVE  Total(f, N) = Total(h, N)
<1>1. PICK g : Sums(f, N, g) /\ Total(f, N) = g[N]
  BY TotalBy
<1>2. PICK e : Sums(h, N, e) /\ Total(h, N) = e[N]
  BY TotalBy
<1> QED BY <1>1, <1>2, SumsAgree

\* The total of no numbers, and of one more.
LEMMA TotalNext ==
    ASSUME NEW f, NEW N \in Nat
    PROVE  Total(f, 0) = 0 /\ Total(f, N + 1) = Total(f, N) + f[N + 1]
<1>1. PICK g : Sums(f, N, g) /\ Total(f, N) = g[N]
  BY TotalBy
<1>2. N + 1 \in Nat
  OBVIOUS
<1>3. PICK e : Sums(f, N + 1, e) /\ Total(f, N + 1) = e[N + 1]
  BY <1>2, TotalBy
<1>4. g[N] = e[N]
  <2>1. N <= N /\ N <= N + 1
    OBVIOUS
  <2> QED BY <1>1, <1>2, <1>3, <2>1, SumsAgree
<1>5. e[N + 1] = e[N] + f[N + 1]
  <2>1. \A m \in 0..N + 1 : e[m] = IF m = 0 THEN 0 ELSE e[m - 1] + f[m]
    BY <1>3 DEF Sums
  <2>2. N + 1 \in 0..N + 1 /\ N + 1 # 0 /\ (N + 1) - 1 = N
    OBVIOUS
  <2> QED BY <2>1, <2>2
<1>6. Total(f, 0) = 0
  <2>1. PICK d : Sums(f, 0, d) /\ Total(f, 0) = d[0]
    BY TotalBy
  <2>2. d[0] = IF 0 = 0 THEN 0 ELSE d[0 - 1] + f[0]
    <3>1. \A m \in 0..0 : d[m] = IF m = 0 THEN 0 ELSE d[m - 1] + f[m]
      BY <2>1 DEF Sums
    <3> QED BY <3>1
  <2> QED BY <2>1, <2>2
<1> QED BY <1>1, <1>3, <1>4, <1>5, <1>6

\* The total of integers is one.
LEMMA TotalInt ==
    ASSUME NEW f, NEW N \in Nat, \A i \in 1..N : f[i] \in Int
    PROVE  Total(f, N) \in Int
<1> DEFINE T == {k \in 0..N : Total(f, k) \notin Int}
<1>1. T = {}
  <2> SUFFICES ASSUME T # {} PROVE FALSE
    OBVIOUS
  <2>1. PICK k \in T : \A m \in T : k <= m
    <3>1. T \subseteq Nat
      BY DEF T
    <3> HIDE DEF T
    <3> QED BY <3>1, Least
  <2>2. k # 0
    <3>1. 0 \in Nat
      OBVIOUS
    <3> QED BY <2>1, <3>1, TotalNext
  <2>3. PICK p \in 0..N : k = p + 1
    <3>1. k - 1 \in 0..N /\ k = (k - 1) + 1
      BY <2>1, <2>2
    <3> QED BY <3>1
  <2>4. Total(f, p) \in Int /\ f[p + 1] \in Int /\ p \in Nat
    <3>1. p \notin T /\ p + 1 \in 1..N
      BY <2>1, <2>3
    <3> QED BY <3>1
  <2>5. Total(f, p + 1) = Total(f, p) + f[p + 1]
    BY <2>4, TotalNext
  <2>6. Total(f, k) \in Int
    BY <2>3, <2>4, <2>5
  <2> QED BY <2>1, <2>6
<1>2. N \in 0..N
  OBVIOUS
<1> QED BY <1>1, <1>2

\* A total of which one number changes.
LEMMA TotalChange ==
    ASSUME NEW f, NEW h, NEW N \in Nat, \A i \in 1..N : f[i] \in Int, NEW k \in 1..N, h[k] \in Int,
           \A i \in 1..N : i # k => h[i] = f[i]
    PROVE  Total(h, N) = Total(f, N) + h[k] - f[k]
<1> DEFINE Law(n) == IF n < k THEN Total(h, n) = Total(f, n) ELSE Total(h, n) = Total(f, n) + h[k] - f[k]
           T == {n \in 0..N : ~Law(n)}
<1>1. T = {}
  <2> SUFFICES ASSUME T # {} PROVE FALSE
    OBVIOUS
  <2>1. PICK n \in T : \A m \in T : n <= m
    <3>1. T \subseteq Nat
      BY DEF T
    <3> HIDE DEF T
    <3> QED BY <3>1, Least
  <2>2. n # 0
    <3>1. 0 \in Nat /\ 0 < k
      OBVIOUS
    <3>2. Total(f, 0) = 0 /\ Total(h, 0) = 0
      BY <3>1, TotalNext
    <3> QED BY <2>1, <3>1, <3>2
  <2>3. PICK p \in 0..N : n = p + 1
    <3>1. n - 1 \in 0..N /\ n = (n - 1) + 1
      BY <2>1, <2>2
    <3> QED BY <3>1
  <2>4. Law(p) /\ p \in Nat /\ n \in 1..N
    <3>1. p \notin T /\ n \in 1..N
      BY <2>1, <2>3
    <3> QED BY <3>1
  <2>5. Total(f, n) = Total(f, p) + f[n] /\ Total(h, n) = Total(h, p) + h[n]
    BY <2>3, <2>4, TotalNext
  <2>6. Total(f, p) \in Int
    <3>1. \A i \in 1..p : f[i] \in Int
      BY <2>3
    <3> QED BY <2>4, <3>1, TotalInt
  <2>7. CASE n = k
    <3>1. Total(h, p) = Total(f, p)
      BY <2>3, <2>4, <2>7
    <3>2. Law(n)
      BY <2>5, <2>6, <2>7, <3>1
    <3> QED BY <2>1, <3>2
  <2>8. CASE n # k
    <3>1. h[n] = f[n] /\ f[n] \in Int /\ f[k] \in Int
      BY <2>4, <2>8
    <3>2. Law(n)
      <4>1. CASE n < k
        <5>1. Total(h, p) = Total(f, p)
          BY <2>3, <2>4, <4>1
        <5> QED BY <2>5, <3>1, <4>1, <5>1
      <4>2. CASE ~(n < k)
        <5>1. Total(h, p) = Total(f, p) + h[k] - f[k]
          BY <2>3, <2>4, <2>8, <4>2
        <5> QED BY <2>5, <2>6, <3>1, <4>2, <5>1
      <4> QED BY <4>1, <4>2
    <3> QED BY <2>1, <3>2
  <2> QED BY <2>7, <2>8
<1>2. N \in 0..N /\ ~(N < k)
  OBVIOUS
<1> QED BY <1>1, <1>2

-----------------------------------------------------------------------------
(* The guard's limit: the position and what rests. *)

\* What resting orders would add to the position.
Pending(os) == Total([i \in 1..Len(os) |-> Weight(os[i])], Len(os))

\* An order that reduces the position, or buys to enter.
Enters(o) == o.side = "BUY" /\ o.type # "STOP_MARKET"
Sound(o) == o.reduce \/ Enters(o)

\* What an order adds: nothing, unless it rests and enters.
LEMMA Weights ==
    ASSUME NEW o \in Order
    PROVE  /\ Weight(o) \in Int
           /\ o.reduce \/ o.status # "NEW" => Weight(o) = 0
           /\ Enters(o) /\ ~o.reduce /\ o.status = "NEW" => Weight(o) = o.qty
           /\ Sound(o) => Weight(o) \in Nat
<1>1. o.qty \in Nat
  <2>1. o.qty \in Quantities
    BY DEF Order
  <2> QED BY <2>1, QuantityNat
<1>2. o.reduce \in BOOLEAN
  BY DEF Order
<1>3. Sign(o.side) \in Int /\ (o.side = "BUY" => Sign(o.side) = 1)
  BY DEF Sign
<1>4. Weight(o) = IF o.status = "NEW" /\ ~o.reduce /\ o.type # "STOP_MARKET" THEN Sign(o.side) * o.qty ELSE 0
  BY DEF Weight, Counts
<1> HIDE DEF Sign
<1>5. Sign(o.side) * o.qty \in Int
  BY <1>1, <1>3
<1>6. o.side = "BUY" => Sign(o.side) * o.qty = o.qty
  BY <1>1, <1>3
<1> QED BY <1>1, <1>2, <1>4, <1>5, <1>6 DEF Sound, Enters

\* What rests is an integer.
LEMMA PendingInt ==
    ASSUME NEW os \in Seq(Order)
    PROVE  Pending(os) \in Int
<1> DEFINE f == [i \in 1..Len(os) |-> Weight(os[i])]
<1>1. Len(os) \in Nat /\ \A i \in 1..Len(os) : os[i] \in Order
  OBVIOUS
<1>2. \A i \in 1..Len(os) : f[i] \in Int
  BY <1>1, Weights
<1>3. Pending(os) = Total(f, Len(os))
  BY DEF Pending
<1> HIDE DEF f
<1> QED BY <1>1, <1>2, <1>3, TotalInt

\* One more order adds what it weighs.
LEMMA PendingAppend ==
    ASSUME NEW os \in Seq(Order), NEW more \in Seq(Order), Len(more) = Len(os) + 1,
           \A i \in 1..Len(os) : more[i] = os[i]
    PROVE  Pending(more) = Pending(os) + Weight(more[Len(os) + 1])
<1> DEFINE n == Len(os)
           f == [i \in 1..n |-> Weight(os[i])]
           h == [i \in 1..n + 1 |-> Weight(more[i])]
<1>1. n \in Nat
  OBVIOUS
<1>2. \A i \in 1..n : f[i] = h[i]
  OBVIOUS
<1>3. Pending(os) = Total(f, n) /\ Pending(more) = Total(h, n + 1)
  BY DEF Pending
<1>4. h[n + 1] = Weight(more[n + 1])
  BY <1>1
<1> HIDE DEF f, h
<1>5. Total(f, n) = Total(h, n)
  BY <1>1, <1>2, TotalSame
<1>6. Total(h, n + 1) = Total(h, n) + h[n + 1]
  BY <1>1, TotalNext
<1> QED BY <1>3, <1>4, <1>5, <1>6

\* An order that changes takes away what it weighed and adds what it weighs.
LEMMA PendingChange ==
    ASSUME NEW os \in Seq(Order), NEW others \in Seq(Order), Len(others) = Len(os), NEW k \in DOMAIN os,
           \A i \in DOMAIN os : i # k => others[i] = os[i]
    PROVE  Pending(others) = Pending(os) + Weight(others[k]) - Weight(os[k])
<1> DEFINE n == Len(os)
           f == [i \in 1..n |-> Weight(os[i])]
           h == [i \in 1..n |-> Weight(others[i])]
<1>1. n \in Nat /\ k \in 1..n /\ \A i \in 1..n : os[i] \in Order /\ others[i] \in Order
  OBVIOUS
<1>2. \A i \in 1..n : f[i] \in Int /\ h[i] \in Int
  BY <1>1, Weights
<1>3. \A i \in 1..n : i # k => h[i] = f[i]
  BY <1>1
<1>4. Pending(os) = Total(f, n) /\ Pending(others) = Total(h, n)
  BY DEF Pending
<1>5. h[k] = Weight(others[k]) /\ f[k] = Weight(os[k]) /\ h[k] \in Int
  BY <1>1, <1>2
<1> HIDE DEF f, h
<1>6. Total(h, n) = Total(f, n) + h[k] - f[k]
  BY <1>1, <1>2, <1>3, <1>5, TotalChange
<1> QED BY <1>4, <1>5, <1>6

\* Callers buy to enter and sell to leave (enter and exit of
\* src/src/overnight/runner.py).
Callers == \A r \in Requests : r.side = "SELL" => r.reduce

\* The position and what rests, in memory and in the file.
CapInv ==
    mode = "paper" =>
        /\ \A i \in DOMAIN orders : Sound(orders[i])
        /\ 0 <= pos /\ pos + Pending(orders) <= MaxAbs
        /\ disk.pos = pos /\ Pending(disk.orders) <= Pending(orders)

\* An order is placed: the position does not turn, and with what rests it grows
\* by no more than an order that enters.
LEMMA CapPlaces ==
    ASSUME PaperInv, NEW r \in Request, Sound(r), NEW answer, PaperPlace(r, answer), 0 <= pos,
           disk.pos = pos, Pending(disk.orders) <= Pending(orders),
           \A i \in DOMAIN orders : Sound(orders[i])
    PROVE  /\ \A i \in DOMAIN orders' : Sound(orders'[i])
           /\ 0 <= pos' /\ disk'.pos = pos' /\ Pending(disk'.orders) <= Pending(orders')
           /\ pos' + Pending(orders') <= pos + Pending(orders) + (IF r.reduce THEN 0 ELSE r.qty)
<1>1. /\ orders \in Seq(Order) /\ pos \in Int /\ Len(orders) \in Nat /\ DOMAIN orders = 1..Len(orders)
      /\ disk.orders \in Seq(Order)
  BY DEF PaperInv, PaperTypeOK
<1>2. PICK st \in Statuses :
          /\ Registered(r, st)
          /\ \/ st \in {"NEW", "EXPIRED", "REJECTED"} /\ pos' = pos
             \/ st = "FILLED" /\ pos' = pos + Sign(r.side) * r.qty /\ ReduceOk(New(r)) /\ Save
          /\ Save \/ (UNCHANGED <<pos, disk>>)
  <2>1. {"NEW", "EXPIRED", "REJECTED", "FILLED"} \subseteq Statuses
    BY DEF Statuses
  <2> QED BY <2>1 DEF PaperPlace, PlaceUseless, PlaceMarket, PlaceLimit, PlaceStop, PlaceStale
<1>3. Calm
  BY DEF PaperPlace, PlaceUseless, PlaceMarket, PlaceLimit, PlaceStop, PlaceStale
<1>4. /\ orders' \in Seq(Order) /\ Len(orders') = Len(orders) + 1
      /\ \A i \in 1..Len(orders) : orders'[i] = orders[i]
  BY <1>2, <1>3, Registering
<1> DEFINE o == orders'[Len(orders) + 1]
<1>5. /\ o.type = r.type /\ o.side = r.side /\ o.qty = r.qty /\ o.reduce = r.reduce /\ o.status = st
      /\ o \in Order
  <2>1. orders' = Append(orders, [New(r) EXCEPT !.status = st])
    BY <1>2 DEF Registered
  <2>2. o = [New(r) EXCEPT !.status = st]
    BY <1>1, <2>1
  <2>3. o \in Order
    BY <1>1, <1>4
  <2> HIDE DEF o
  <2> QED BY <2>2, <2>3 DEF New
<1>6. Pending(orders') = Pending(orders) + Weight(o)
  BY <1>1, <1>4, PendingAppend
<1> HIDE DEF o
<1>7. Sound(o)
  BY <1>5 DEF Sound, Enters
<1>8. /\ Weight(o) \in Nat /\ (r.reduce \/ st # "NEW" => Weight(o) = 0)
      /\ ~r.reduce /\ st = "NEW" => Weight(o) = r.qty
  BY <1>5, <1>7, Weights DEF Sound
<1>9. Pending(orders) \in Int /\ Pending(orders') \in Int /\ Pending(disk.orders) \in Int
  BY <1>1, <1>4, PendingInt
<1>10. r.qty \in Nat /\ r.reduce \in BOOLEAN /\ r.side \in {"BUY", "SELL"}
  <2>1. r.qty \in Quantities /\ r.reduce \in BOOLEAN /\ r.side \in {"BUY", "SELL"}
    BY DEF Request, Sides
  <2> QED BY <2>1, QuantityNat
<1>11. \A i \in DOMAIN orders' : Sound(orders'[i])
  <2>1. DOMAIN orders' = 1..Len(orders) + 1
    BY <1>1, <1>4
  <2> SUFFICES ASSUME NEW i \in DOMAIN orders' PROVE Sound(orders'[i])
    OBVIOUS
  <2>2. i \in DOMAIN orders \/ i = Len(orders) + 1
    BY <1>1, <2>1
  <2> QED BY <1>1, <1>4, <1>7, <2>2 DEF o
<1>12. disk'.pos = pos' /\ Pending(disk'.orders) <= Pending(orders')
  <2>1. CASE Save
    BY <2>1, <1>9 DEF Save
  <2>2. CASE UNCHANGED <<pos, disk>>
    BY <2>2, <1>6, <1>8, <1>9
  <2> QED BY <1>2, <2>1, <2>2
<1>13. 0 <= pos' /\ pos' + Pending(orders') <= pos + Pending(orders) + (IF r.reduce THEN 0 ELSE r.qty)
  <2>1. CASE pos' = pos
    BY <2>1, <1>1, <1>6, <1>8, <1>9, <1>10
  <2>2. CASE st = "FILLED" /\ pos' = pos + Sign(r.side) * r.qty /\ ReduceOk(New(r))
    <3>1. Weight(o) = 0
      BY <2>2, <1>8
    <3>2. r.reduce => r.side = "SELL" /\ r.qty <= pos
      <4>1. r.reduce => Reduces(pos, r.side, r.qty)
        BY <2>2 DEF ReduceOk, New
      <4> QED BY <4>1, <1>1, <1>10 DEF Reduces, Size
    <3>3. CASE r.reduce
      <4>1. pos' = pos - r.qty
        BY <2>2, <3>2, <3>3, <1>1, <1>10 DEF Sign
      <4> QED BY <4>1, <3>1, <3>2, <3>3, <1>1, <1>6, <1>9, <1>10
    <3>4. CASE ~r.reduce
      <4>1. pos' = pos + r.qty
        BY <2>2, <3>4, <1>1, <1>10 DEF Sign, Sound, Enters
      <4> QED BY <4>1, <3>1, <3>4, <1>1, <1>6, <1>9, <1>10
    <3> QED BY <1>10, <3>3, <3>4
  <2> QED BY <1>2, <2>1, <2>2
<1> QED BY <1>11, <1>12, <1>13

\* An order that rests comes to its end in a poll or is cancelled: the position
\* does not turn, and with what rests it does not grow.
LEMMA CapEnds ==
    ASSUME PaperInv, NEW k \in Resting, NEW st \in Statuses \ {"NEW"}, Becomes(k, st), Save,
           0 <= pos, \A i \in DOMAIN orders : Sound(orders[i]),
           \/ pos' = pos
           \/ ReduceOk(orders[k]) /\ pos' = pos + Sign(orders[k].side) * orders[k].qty
    PROVE  /\ \A i \in DOMAIN orders' : Sound(orders'[i])
           /\ 0 <= pos' /\ disk'.pos = pos' /\ Pending(disk'.orders) <= Pending(orders')
           /\ pos' + Pending(orders') <= pos + Pending(orders)
<1>1. orders \in Seq(Order) /\ pos \in Int /\ k \in DOMAIN orders
  BY DEF PaperInv, PaperTypeOK, Resting
<1>2. /\ orders' \in Seq(Order) /\ Len(orders') = Len(orders)
      /\ \A i \in DOMAIN orders : i # k => orders'[i] = orders[i]
      /\ orders'[k].status = st
  BY <1>1, Changing
<1>3. orders'[k] = [orders[k] EXCEPT !.status = st]
  BY <1>1 DEF Becomes
<1>4. orders[k] \in Order /\ orders'[k] \in Order /\ DOMAIN orders' = DOMAIN orders
  BY <1>1, <1>2
<1>5. /\ orders'[k].reduce = orders[k].reduce /\ orders'[k].side = orders[k].side
      /\ orders'[k].type = orders[k].type
  BY <1>3, <1>4 DEF Order
<1>6. Sound(orders[k]) /\ Sound(orders'[k]) /\ orders[k].status = "NEW"
  BY <1>1, <1>5 DEF Sound, Enters, Resting, Open
<1>7. Weight(orders'[k]) = 0 /\ Weight(orders[k]) \in Nat
      /\ (~orders[k].reduce => Weight(orders[k]) = orders[k].qty)
  BY <1>2, <1>4, <1>6, Weights DEF Sound
<1>8. Pending(orders') = Pending(orders) + Weight(orders'[k]) - Weight(orders[k])
  BY <1>1, <1>2, PendingChange
<1>9. Pending(orders) \in Int /\ Pending(orders') \in Int
  BY <1>1, <1>2, PendingInt
<1>10. orders[k].qty \in Nat /\ orders[k].reduce \in BOOLEAN /\ orders[k].side \in {"BUY", "SELL"}
  <2>1. orders[k].qty \in Quantities /\ orders[k].reduce \in BOOLEAN /\ orders[k].side \in {"BUY", "SELL"}
    BY <1>4 DEF Order, Sides
  <2> QED BY <2>1, QuantityNat
<1>11. \A i \in DOMAIN orders' : Sound(orders'[i])
  BY <1>1, <1>2, <1>4, <1>6
<1>12. disk'.pos = pos' /\ disk'.orders = orders'
  BY DEF Save
<1>13. 0 <= pos' /\ pos' + Pending(orders') <= pos + Pending(orders)
  <2>1. CASE pos' = pos
    BY <2>1, <1>1, <1>7, <1>8, <1>9
  <2>2. CASE ReduceOk(orders[k]) /\ pos' = pos + Sign(orders[k].side) * orders[k].qty
    <3>1. orders[k].reduce => orders[k].side = "SELL" /\ orders[k].qty <= pos
      <4>1. orders[k].reduce => Reduces(pos, orders[k].side, orders[k].qty)
        BY <2>2 DEF ReduceOk
      <4> QED BY <4>1, <1>1, <1>10 DEF Reduces, Size
    <3>2. CASE orders[k].reduce
      <4>1. pos' = pos - orders[k].qty
        BY <2>2, <3>1, <3>2, <1>1, <1>10 DEF Sign
      <4> QED BY <4>1, <3>1, <3>2, <1>1, <1>7, <1>8, <1>9, <1>10
    <3>3. CASE ~orders[k].reduce
      <4>1. pos' = pos + orders[k].qty
        BY <2>2, <3>3, <1>1, <1>6, <1>10 DEF Sign, Sound, Enters
      <4> QED BY <4>1, <3>3, <1>1, <1>7, <1>8, <1>9, <1>10
    <3> QED BY <1>10, <3>2, <3>3
  <2> QED BY <2>1, <2>2
<1> QED BY <1>9, <1>11, <1>12, <1>13

\* The simulated exchange without the guard: nothing grows.
LEMMA CapPasses ==
    ASSUME PaperInv, PaperPasses, CapInv
    PROVE  CapInv' /\ pos' + Pending(orders') <= pos + Pending(orders)
<1>1. /\ mode = "paper" /\ mode' = mode /\ \A i \in DOMAIN orders : Sound(orders[i])
      /\ 0 <= pos /\ pos + Pending(orders) <= MaxAbs /\ disk.pos = pos
      /\ Pending(disk.orders) <= Pending(orders)
  BY DEF PaperPasses, CapInv
<1>2. pos \in Int /\ Pending(orders) \in Int /\ poll.todo \subseteq Resting
  <2>1. pos \in Int /\ orders \in Seq(Order) /\ poll.todo \subseteq Resting
    BY DEF PaperInv, PaperTypeOK, Resting, Open
  <2> QED BY <2>1, PendingInt
<1>a. MaxAbs \in Int
  BY ExecutionAssumption
<1>3. CASE UNCHANGED <<orders, pos>> /\ (disk' = disk \/ Save)
  <2>1. disk'.pos = pos' /\ Pending(disk'.orders) <= Pending(orders')
    BY <1>1, <1>2, <1>3 DEF Save
  <2> QED BY <2>1, <1>1, <1>2, <1>3 DEF CapInv
<1>4. ASSUME NEW k \in Resting, NEW st \in Statuses \ {"NEW"}, Becomes(k, st), Save,
             \/ pos' = pos
             \/ ReduceOk(orders[k]) /\ pos' = pos + Sign(orders[k].side) * orders[k].qty
      PROVE  CapInv' /\ pos' + Pending(orders') <= pos + Pending(orders)
  <2>1. /\ \A i \in DOMAIN orders' : Sound(orders'[i])
        /\ 0 <= pos' /\ disk'.pos = pos' /\ Pending(disk'.orders) <= Pending(orders')
        /\ pos' + Pending(orders') <= pos + Pending(orders)
    BY <1>1, <1>4, CapEnds
  <2>2. pos' \in Int /\ Pending(orders') \in Int
    <3>1. orders' \in Seq(Order)
      BY <1>4, Changing DEF Resting
    <3>2. orders[k].qty \in Int /\ Sign(orders[k].side) \in {1, -1}
      <4>1. orders[k] \in Order
        BY DEF Resting, PaperInv, PaperTypeOK
      <4>2. orders[k].qty \in Quantities
        BY <4>1 DEF Order
      <4> QED BY <4>2, QuantityNat DEF Sign
    <3>3. pos' \in Int
      BY <1>2, <1>4, <3>2
    <3> QED BY <3>1, <3>3, PendingInt
  <2>3. pos' + Pending(orders') <= MaxAbs
    BY <1>1, <1>2, <1>a, <2>1, <2>2
  <2> QED BY <1>1, <2>1, <2>3 DEF CapInv
<1>5. \/ PollBegin \/ PollNothing \/ PollNext \/ PollEnd \/ (\E i \in poll.todo : PollStale(i))
      \/ Market \/ (\E i \in poll.todo : PollExpire(i) \/ PollFill(i)) \/ \E i \in DOMAIN orders : PaperCancel(i)
  BY DEF PaperPasses, PaperPoll
<1>6. CASE \/ PollBegin \/ PollNothing \/ PollNext \/ PollEnd \/ (\E i \in poll.todo : PollStale(i)) \/ Market
  <2>1. UNCHANGED <<orders, pos>> /\ (disk' = disk \/ Save)
    BY <1>6 DEF PollBegin, PollNothing, PollNext, PollEnd, PollStale, Market, Show, Trade
  <2> QED BY <2>1, <1>3
<1>7. CASE \E i \in poll.todo : PollExpire(i) \/ PollFill(i)
  <2>1. PICK k \in poll.todo : PollExpire(k) \/ PollFill(k)
    BY <1>7
  <2>2. k \in Resting /\ {"EXPIRED", "FILLED"} \subseteq Statuses \ {"NEW"}
    BY <1>2, <2>1 DEF Statuses
  <2>3. CASE PollExpire(k)
    <3>1. Becomes(k, "EXPIRED") /\ Save /\ pos' = pos
      BY <2>3 DEF PollExpire
    <3> QED BY <2>2, <3>1, <1>4
  <2>4. CASE PollFill(k)
    <3>1. Becomes(k, "FILLED") /\ Save /\ ReduceOk(orders[k])
          /\ pos' = pos + Sign(orders[k].side) * orders[k].qty
      BY <2>4 DEF PollFill
    <3> QED BY <2>2, <3>1, <1>4
  <2> QED BY <2>1, <2>3, <2>4
<1>8. CASE \E i \in DOMAIN orders : PaperCancel(i)
  <2>1. PICK k \in DOMAIN orders : PaperCancel(k)
    BY <1>8
  <2>2. k \in Resting /\ "CANCELED" \in Statuses \ {"NEW"} /\ Becomes(k, "CANCELED") /\ Save /\ pos' = pos
    BY <2>1 DEF PaperCancel, Statuses
  <2> QED BY <2>2, <1>4
<1> QED BY <1>5, <1>6, <1>7, <1>8

\* An order through the guard: what rests counts, and in a halt nothing grows.
LEMMA CapGuarded ==
    ASSUME PaperInv, Callers, CapInv, NEW r \in Requests, GuardedPaper(r)
    PROVE  /\ CapInv'
           /\ guard.status = "halted" => pos' + Pending(orders') <= pos + Pending(orders)
<1>1. /\ mode = "paper" /\ mode' = mode /\ \A i \in DOMAIN orders : Sound(orders[i])
      /\ 0 <= pos /\ pos + Pending(orders) <= MaxAbs /\ disk.pos = pos
      /\ Pending(disk.orders) <= Pending(orders)
  BY DEF GuardedPaper, CapInv
<1>2. pos \in Int /\ Pending(orders) \in Int /\ MaxAbs \in Int
  <2>1. pos \in Int /\ orders \in Seq(Order)
    BY DEF PaperInv, PaperTypeOK
  <2> QED BY <2>1, PendingInt, ExecutionAssumption
<1>3. r \in Request /\ (r.side = "SELL" => r.reduce) /\ r.side \in {"BUY", "SELL"} /\ r.qty \in Nat
      /\ r.reduce \in BOOLEAN
  <2>1. r \in Request
    BY ExecutionAssumption
  <2>2. r.qty \in Quantities /\ r.side \in {"BUY", "SELL"} /\ r.reduce \in BOOLEAN
    BY <2>1 DEF Request, Sides
  <2> QED BY <2>1, <2>2, QuantityNat DEF Callers
<1>4. CASE UNCHANGED paperVars
  <2>1. UNCHANGED <<orders, pos, disk>>
    BY <1>4 DEF paperVars
  <2> QED BY <1>1, <1>2, <2>1 DEF CapInv
<1>5. ASSUME NEW g \in CheckKill(guard), Passes(g, r, pos, PaperPending),
             NEW answer \in Answers, PaperPlace(r, answer)
      PROVE  /\ CapInv'
             /\ guard.status = "halted" => pos' + Pending(orders') <= pos + Pending(orders)
  <2>1. PaperPending = Pending(orders)
    BY DEF PaperPending, Pending
  <2>2. guard.status = "halted" => g.status = "halted"
    BY <1>5 DEF CheckKill, Halt, Set
  <2>3. ~Reduces(pos, "BUY", r.qty)
    BY <1>1, <1>2 DEF Reduces
  <2>4. \/ r.reduce
        \/ Enters(r) /\ ~r.reduce /\ g.status = "active" /\ pos + Pending(orders) + r.qty <= MaxAbs
    <3>1. CASE r.reduce
      BY <3>1
    <3>2. CASE ~r.reduce
      <4>1. r.side = "BUY"
        BY <1>3, <3>2
      <4>2. r.type # "STOP_MARKET" /\ g.status = "active" /\ Within(r, pos, PaperPending)
        BY <1>5, <2>3, <3>2, <4>1 DEF Passes, Closes
      <4>3. Size(pos + Pending(orders) + 1 * r.qty) <= MaxAbs
        BY <2>1, <4>1, <4>2 DEF Within, Sign
      <4>4. pos + Pending(orders) + r.qty <= MaxAbs
        BY <4>3, <1>2, <1>3 DEF Size
      <4> QED BY <3>2, <4>1, <4>2, <4>4 DEF Enters
    <3> QED BY <1>3, <3>1, <3>2
  <2>5. Sound(r)
    BY <2>4 DEF Sound
  <2>6. /\ \A i \in DOMAIN orders' : Sound(orders'[i])
        /\ 0 <= pos' /\ disk'.pos = pos' /\ Pending(disk'.orders) <= Pending(orders')
        /\ pos' + Pending(orders') <= pos + Pending(orders) + (IF r.reduce THEN 0 ELSE r.qty)
    BY <1>1, <1>3, <1>5, <2>5, CapPlaces
  <2>7. pos' \in Int /\ Pending(orders') \in Int
    <3>1. PaperTypeOK'
      BY <1>3, <1>5, PaperPlaces DEF PaperInv
    <3>2. pos' \in Int /\ orders' \in Seq(Order)
      BY <3>1 DEF PaperTypeOK
    <3> QED BY <3>2, PendingInt
  <2>8. pos' + Pending(orders') <= MaxAbs
    BY <1>1, <1>2, <1>3, <2>4, <2>6, <2>7
  <2>9. guard.status = "halted" => pos' + Pending(orders') <= pos + Pending(orders)
    BY <1>2, <2>2, <2>4, <2>6, <2>7
  <2> QED BY <1>1, <2>6, <2>8, <2>9 DEF CapInv
<1> QED BY <1>4, <1>5 DEF GuardedPaper, PaperRepeat

\* A process that starts again has the position, and no more orders than rested.
LEMMA CapRestarts ==
    ASSUME PaperInv, CapInv, Restarted, mode' = mode
    PROVE  CapInv'
<1> SUFFICES ASSUME mode = "paper" PROVE CapInv'
  BY DEF CapInv
<1>1. /\ \A i \in DOMAIN orders : Sound(orders[i])
      /\ 0 <= pos /\ pos + Pending(orders) <= MaxAbs /\ disk.pos = pos
      /\ Pending(disk.orders) <= Pending(orders)
  BY DEF CapInv
<1>2. PaperRestart
  BY DEF Restarted
<1>3. orders' = disk.orders /\ pos' = disk.pos /\ disk' = disk
  BY <1>2 DEF PaperRestart
<1>4. /\ orders \in Seq(Order) /\ disk.orders \in Seq(Order) /\ pos \in Int
      /\ Len(disk.orders) <= Len(orders)
      /\ \A i \in 1..Len(disk.orders) : disk.orders[i] = orders[i]
  BY DEF PaperInv, PaperTypeOK, FileOK
<1>5. \A i \in DOMAIN orders' : Sound(orders'[i])
  <2>1. \A i \in DOMAIN disk.orders : i \in DOMAIN orders /\ disk.orders[i] = orders[i]
    BY <1>4
  <2> QED BY <1>1, <1>3, <2>1
<1>6. Pending(orders) \in Int /\ Pending(disk.orders) \in Int /\ MaxAbs \in Int
  BY <1>4, PendingInt, ExecutionAssumption
<1>7. pos' + Pending(orders') <= MaxAbs /\ 0 <= pos' /\ Pending(disk'.orders) <= Pending(orders')
  BY <1>1, <1>3, <1>4, <1>6
<1> QED BY <1>1, <1>3, <1>5, <1>7 DEF CapInv

\* Every step keeps the position within the limit.
LEMMA CapSteps ==
    ASSUME PaperInv, Callers, CapInv, [Next]_vars
    PROVE  CapInv'
<1>1. CASE UNCHANGED <<paperVars, mode>>
  BY <1>1 DEF CapInv, paperVars
<1>2. CASE PaperPasses
  BY <1>2, CapPasses
<1>3. CASE LivePasses \/ GuardedCount \/ GuardedPost \/ GuardedPull
  BY <1>1, <1>3 DEF LivePasses, GuardedCount, GuardedPost, GuardedPull
<1>4. ASSUME NEW r \in Requests, GuardedPaper(r) \/ GuardedLook(r) PROVE CapInv'
  <2>1. CASE GuardedPaper(r)
    BY <2>1, CapGuarded
  <2>2. CASE GuardedLook(r)
    BY <1>1, <2>2 DEF GuardedLook
  <2> QED BY <1>4, <2>1, <2>2
<1>5. CASE Unhealthy \/ Resume \/ ResetHalt \/ UNCHANGED vars
  BY <1>1, <1>5 DEF Unhealthy, Resume, ResetHalt, vars
<1>6. CASE Restart
  BY <1>6, CapRestarts DEF Restart
<1>7. ASSUME NEW result \in Results, RecordNight(result) \/ RecordNightCut(result) PROVE CapInv'
  <2>1. CASE RecordNight(result)
    BY <1>1, <2>1 DEF RecordNight
  <2>2. CASE RecordNightCut(result)
    BY <2>2, CapRestarts DEF RecordNightCut
  <2> QED BY <1>7, <2>1, <2>2
<1> QED BY <1>2, <1>3, <1>4, <1>5, <1>6, <1>7 DEF Next

\* Nothing is held and nothing rests at first.
LEMMA CapStarts ==
    ASSUME Init
    PROVE  CapInv
<1>1. orders = <<>> /\ pos = 0 /\ disk.orders = <<>> /\ disk.pos = 0
  BY DEF Init, PaperInit
<1>2. Pending(<<>>) = 0
  <2>1. Len(<<>>) = 0 /\ 0 \in Nat
    OBVIOUS
  <2>2. \A f : Total(f, 0) = 0
    BY <2>1, TotalNext
  <2>3. Pending(<<>>) = Total([i \in 1..0 |-> Weight(<<>>[i])], 0)
    BY <2>1 DEF Pending
  <2> QED BY <2>2, <2>3
<1>3. MaxAbs \in Nat /\ DOMAIN <<>> = {}
  BY ExecutionAssumption
<1> QED BY <1>1, <1>2, <1>3 DEF CapInv

\* With callers that only buy to enter, what rests counts: the simulated position
\* stays between nothing and the limit, and what must reduce it never turns it
\* round (_pre_trade of risk.py, _record_fill and _reduce_ok of paper.py).
THEOREM CappedHolds ==
    ASSUME Callers
    PROVE  Spec => []Capped
<1>1. Init => CapInv
  BY CapStarts
<1>2. ExecInv /\ CapInv /\ [Next]_vars => CapInv'
  BY CapSteps DEF ExecInv
<1>3. CapInv => Capped
  BY DEF CapInv, Capped, Pending, PaperPending
<1> QED BY <1>1, <1>2, <1>3, ExecInvHolds, PTL DEF Spec

-----------------------------------------------------------------------------
(* The real exchange behind the guard: what a halt keeps out. *)

\* The total of a number that repeats.
LEMMA TotalRepeats ==
    ASSUME NEW h, NEW N \in Nat, NEW n \in Nat, NEW w \in {1, -1}, Total(h, N) \in Int,
           \A i \in (N + 1)..(N + n) : h[i] = w
    PROVE  Total(h, N + n) = Total(h, N) + (IF w = 1 THEN n ELSE -n)
<1> DEFINE Law(m) == Total(h, N + m) = Total(h, N) + (IF w = 1 THEN m ELSE -m)
           T == {m \in 0..n : ~Law(m)}
<1>1. T = {}
  <2> SUFFICES ASSUME T # {} PROVE FALSE
    OBVIOUS
  <2>1. PICK m \in T : \A k \in T : m <= k
    <3>1. T \subseteq Nat
      BY DEF T
    <3> HIDE DEF T
    <3> QED BY <3>1, Least
  <2>2. m # 0
    <3>1. N + 0 = N
      OBVIOUS
    <3> QED BY <2>1, <3>1
  <2>3. PICK p \in 0..n : m = p + 1
    <3>1. m - 1 \in 0..n /\ m = (m - 1) + 1
      BY <2>1, <2>2
    <3> QED BY <3>1
  <2>4. Law(p) /\ m \in 0..n
    <3>1. p \notin T /\ m \in 0..n
      BY <2>1, <2>3
    <3> QED BY <3>1
  <2>5. N + p \in Nat /\ N + m = (N + p) + 1 /\ N + m \in (N + 1)..(N + n)
    BY <2>3, <2>4
  <2>6. Total(h, N + m) = Total(h, N + p) + h[N + m]
    <3>1. Total(h, (N + p) + 1) = Total(h, N + p) + h[(N + p) + 1]
      BY <2>5, TotalNext
    <3> QED BY <2>5, <3>1
  <2>7. h[N + m] = w
    BY <2>5
  <2>8. Law(m)
    <3>1. Total(h, N + m) = Total(h, N) + (IF w = 1 THEN p ELSE -p) + w
      BY <2>4, <2>6, <2>7
    <3> QED BY <2>3, <3>1
  <2> QED BY <2>1, <2>8
<1>2. n \in 0..n
  OBVIOUS
<1> QED BY <1>1, <1>2

\* The orders the exchange has stay what was asked for.
Kept ==
    /\ DOMAIN xorders \subseteq DOMAIN xorders'
    /\ \A x \in DOMAIN xorders : xorders'[x].side = xorders[x].side /\ xorders'[x].reduce = xorders[x].reduce

\* Trades of one order move the position by their number.
LEMMA Positions ==
    ASSUME xtrades \in Seq(DOMAIN xorders), Kept
    PROVE  /\ Position \in Int
           /\ xtrades' = xtrades => Position' = Position
           /\ \A y \in DOMAIN xorders', n \in Nat :
                 xtrades' = Made(y, n) =>
                    /\ xtrades' \in Seq(DOMAIN xorders')
                    /\ Position' = Position + (IF xorders'[y].side = "BUY" THEN n ELSE -n)
<1> DEFINE N == Len(xtrades)
           f == [k \in 1..N |-> Way(xorders[xtrades[k]].side)]
           h == [k \in 1..Len(xtrades') |-> Way(xorders'[xtrades'[k]].side)]
<1>1. N \in Nat /\ \A k \in 1..N : xtrades[k] \in DOMAIN xorders
  OBVIOUS
<1>2. Position = Total(f, N) /\ Position' = Total(h, Len(xtrades'))
  BY DEF Position
<1>3. \A s : Way(s) \in {1, -1} /\ (Way(s) = 1 <=> s = "BUY")
  BY DEF Way
<1>4. \A k \in 1..N : f[k] \in Int
  BY <1>3
<1>5. Position \in Int
  <2> HIDE DEF f, N
  <2> QED BY <1>1, <1>2, <1>4, TotalInt
<1>6. ASSUME xtrades' = xtrades PROVE Position' = Position
  <2>1. Len(xtrades') = N /\ \A k \in 1..N : f[k] = h[k]
    BY <1>1, <1>6 DEF Kept
  <2> HIDE DEF f, h, N
  <2> QED BY <1>1, <1>2, <2>1, TotalSame
<1>7. ASSUME NEW y \in DOMAIN xorders', NEW n \in Nat, xtrades' = Made(y, n)
      PROVE  /\ xtrades' \in Seq(DOMAIN xorders')
             /\ Position' = Position + (IF xorders'[y].side = "BUY" THEN n ELSE -n)
  <2> DEFINE D == DOMAIN xorders'
             more == [k \in 1..n |-> y]
  <2>1. xtrades \in Seq(D) /\ more \in Seq(D) /\ Len(more) = n
    <3>1. xtrades \in [1..N -> D]
      BY <1>1 DEF Kept
    <3>2. more \in [1..n -> D]
      OBVIOUS
    <3> HIDE DEF D, more
    <3>3. xtrades \in Seq(D)
      BY <1>1, <3>1
    <3>4. more \in Seq(D)
      BY <3>2
    <3> QED BY <3>2, <3>3, <3>4
  <2>2. xtrades' = xtrades \o more
    BY <1>7 DEF Made
  <2>3. /\ xtrades' \in Seq(D) /\ Len(xtrades') = N + n
        /\ \A k \in 1..N : xtrades'[k] = xtrades[k]
        /\ \A k \in (N + 1)..(N + n) : xtrades'[k] = more[k - N]
    <3> HIDE DEF D, more
    <3> QED BY <2>1, <2>2
  <2>4. \A k \in (N + 1)..(N + n) : xtrades'[k] = y
    <3>1. \A k \in (N + 1)..(N + n) : k - N \in 1..n
      BY <1>1
    <3> QED BY <2>3, <3>1
  <2>5. \A k \in 1..N : h[k] = f[k]
    BY <1>1, <2>3 DEF Kept
  <2>6. \A k \in (N + 1)..(N + n) : h[k] = Way(xorders'[y].side)
    BY <1>1, <2>3, <2>4
  <2> HIDE DEF f, h, N
  <2>7. Total(h, N) = Total(f, N)
    BY <1>1, <2>5, TotalSame
  <2>8. Total(h, N + n) = Total(h, N) + (IF Way(xorders'[y].side) = 1 THEN n ELSE -n)
    <3>1. Way(xorders'[y].side) \in {1, -1} /\ Total(h, N) \in Int
      BY <1>2, <1>3, <1>5, <2>7
    <3> QED BY <1>1, <2>6, <3>1, TotalRepeats
  <2> QED BY <1>2, <1>3, <2>3, <2>7, <2>8
<1> QED BY <1>5, <1>6, <1>7

\* The real position is not turned, and only buying enters.
LongInv ==
    /\ xorders \in Seq(XOrder) /\ xtrades \in Seq(DOMAIN xorders)
    /\ \A x \in DOMAIN xorders : xorders[x].side = "SELL" => xorders[x].reduce
    /\ Position \in Nat

\* Orders of the exchange come and change, and one of them is traded.
LEMMA LongStep ==
    ASSUME LongInv, xorders' \in Seq(XOrder), Kept,
           \A x \in DOMAIN xorders' : xorders'[x].side = "SELL" => xorders'[x].reduce,
           \/ xtrades' = xtrades
           \/ \E y \in DOMAIN xorders', n \in Nat :
                 xtrades' = Made(y, n) /\ (xorders'[y].side # "BUY" => n <= Position)
    PROVE  LongInv'
<1>1. xtrades \in Seq(DOMAIN xorders) /\ Position \in Nat
  BY DEF LongInv
<1>2. xtrades' \in Seq(DOMAIN xorders') /\ Position' \in Nat
  <2>1. CASE xtrades' = xtrades
    <3>1. Position' = Position
      BY <1>1, <2>1, Positions
    <3>2. xtrades \in Seq(DOMAIN xorders')
      <4> DEFINE D == DOMAIN xorders'
      <4>1. xtrades \in [1..Len(xtrades) -> D] /\ Len(xtrades) \in Nat
        BY <1>1 DEF Kept
      <4> HIDE DEF D
      <4>2. xtrades \in Seq(D)
        BY <4>1
      <4> QED BY <4>2 DEF D
    <3> QED BY <1>1, <2>1, <3>1, <3>2
  <2>2. ASSUME NEW y \in DOMAIN xorders', NEW n \in Nat,
               xtrades' = Made(y, n), xorders'[y].side # "BUY" => n <= Position
        PROVE  xtrades' \in Seq(DOMAIN xorders') /\ Position' \in Nat
    <3>1. /\ xtrades' \in Seq(DOMAIN xorders')
          /\ Position' = Position + (IF xorders'[y].side = "BUY" THEN n ELSE -n)
      BY <1>1, <2>2, Positions
    <3> QED BY <1>1, <2>2, <3>1
  <2> QED BY <2>1, <2>2
<1> QED BY <1>2 DEF LongInv

\* An order of the exchange changes, but not what was asked for.
LEMMA XChange ==
    ASSUME NEW o \in XOrder, NEW v \in {"NEW", "FILLED", "CANCELED", "EXPIRED", "TRIGGERED"}, NEW f \in Nat
    PROVE  /\ LET a == [o EXCEPT !.status = v] IN a \in XOrder /\ a.side = o.side /\ a.reduce = o.reduce
           /\ LET a == [o EXCEPT !.filled = f] IN a \in XOrder /\ a.side = o.side /\ a.reduce = o.reduce
           /\ LET a == [o EXCEPT !.filled = f, !.status = v]
              IN  a \in XOrder /\ a.side = o.side /\ a.reduce = o.reduce
           /\ LET a == [o EXCEPT !.status = v, !.actual = f]
              IN  a \in XOrder /\ a.side = o.side /\ a.reduce = o.reduce
  BY DEF XOrder

\* One of the orders changes.
LEMMA XOne ==
    ASSUME LongInv, NEW x \in DOMAIN xorders, NEW o \in XOrder, xorders' = [xorders EXCEPT ![x] = o],
           o.side = xorders[x].side, o.reduce = xorders[x].reduce
    PROVE  /\ xorders' \in Seq(XOrder) /\ Kept /\ DOMAIN xorders' = DOMAIN xorders
           /\ \A y \in DOMAIN xorders' : xorders'[y].side = "SELL" => xorders'[y].reduce
<1>1. xorders \in Seq(XOrder)
  BY DEF LongInv
<1>2. xorders' \in Seq(XOrder) /\ DOMAIN xorders' = DOMAIN xorders
  BY <1>1
<1>3. \A y \in DOMAIN xorders : xorders'[y].side = xorders[y].side /\ xorders'[y].reduce = xorders[y].reduce
  BY <1>1
<1> QED BY <1>2, <1>3 DEF Kept, LongInv

\* One more order.
LEMMA XMore ==
    ASSUME LongInv, NEW o \in XOrder, o.side = "SELL" => o.reduce, xorders' = Append(xorders, o)
    PROVE  /\ xorders' \in Seq(XOrder) /\ Kept /\ Len(xorders) + 1 \in DOMAIN xorders'
           /\ xorders'[Len(xorders) + 1] = o
           /\ \A y \in DOMAIN xorders' : y \in DOMAIN xorders \/ y = Len(xorders) + 1
           /\ \A y \in DOMAIN xorders' : xorders'[y].side = "SELL" => xorders'[y].reduce
<1>1. xorders \in Seq(XOrder)
  BY DEF LongInv
<1>2. /\ xorders' \in Seq(XOrder) /\ DOMAIN xorders' = 1..(Len(xorders) + 1) /\ Len(xorders) \in Nat
      /\ DOMAIN xorders = 1..Len(xorders)
      /\ \A y \in DOMAIN xorders : xorders'[y] = xorders[y]
      /\ xorders'[Len(xorders) + 1] = o
  BY <1>1
<1>3. \A y \in DOMAIN xorders' : y \in DOMAIN xorders \/ y = Len(xorders) + 1
  BY <1>2
<1> QED BY <1>2, <1>3 DEF Kept, LongInv

\* An order that is asked for, as the exchange has it.
LEMMA XNew ==
    ASSUME NEW c \in Cids \cup {"none"}, NEW r, r.type \in LiveTypes, r.side \in {"BUY", "SELL"}, r.qty \in Nat,
           r.reduce \in BOOLEAN, NEW f \in Nat, NEW st \in {"NEW", "FILLED"}
    PROVE  [cid |-> c, type |-> r.type, side |-> r.side, qty |-> r.qty,
            reduce |-> r.reduce, filled |-> f, actual |-> 0, status |-> st] \in XOrder
  BY DEF XOrder

\* The exchange takes an order.
LEMMA LongTakes ==
    ASSUME LongInv, NEW c \in Cids, NEW r \in Request, r.side = "SELL" => r.reduce, ~Useless(r), Take(c, r)
    PROVE  /\ LongInv'
           /\ \A y \in DOMAIN xorders' : y \in DOMAIN xorders \/ xorders'[y].reduce = r.reduce
<1>1. /\ r.type \in LiveTypes /\ r.side \in {"BUY", "SELL"} /\ r.qty \in Nat /\ r.reduce \in BOOLEAN
  <2>1. r.type \in LiveTypes /\ r.side \in {"BUY", "SELL"} /\ r.qty \in Quantities /\ r.reduce \in BOOLEAN
    BY DEF Request, Types, LiveTypes, Sides
  <2> QED BY <2>1, QuantityNat
<1> DEFINE e(f, st) == [cid |-> c, type |-> r.type, side |-> r.side, qty |-> r.qty,
                        reduce |-> r.reduce, filled |-> f, actual |-> 0, status |-> st]
<1>2. \A f \in Nat, st \in {"NEW", "FILLED"} :
         e(f, st) \in XOrder /\ e(f, st).side = r.side /\ e(f, st).reduce = r.reduce
  BY <1>1, XNew
<1>3. xorders \in Seq(XOrder) /\ Position \in Nat
  BY DEF LongInv
<1>4. CASE r.type # "MARKET"
  <2>1. xorders' = Append(xorders, e(0, "NEW")) /\ xtrades' = xtrades
    BY <1>4 DEF Take, Accepted
  <2>2. e(0, "NEW") \in XOrder /\ (e(0, "NEW").side = "SELL" => e(0, "NEW").reduce)
    BY <1>2
  <2> HIDE DEF e
  <2>3. /\ xorders' \in Seq(XOrder) /\ Kept /\ xorders'[Len(xorders) + 1] = e(0, "NEW")
        /\ \A y \in DOMAIN xorders' : y \in DOMAIN xorders \/ y = Len(xorders) + 1
        /\ \A y \in DOMAIN xorders' : xorders'[y].side = "SELL" => xorders'[y].reduce
    BY <2>1, <2>2, XMore
  <2>4. LongInv'
    BY <2>1, <2>3, LongStep
  <2> QED BY <1>2, <2>3, <2>4
<1>5. CASE r.type = "MARKET"
  <2> DEFINE n == Len(xorders) + 1
             a == Append(xorders, e(0, "FILLED"))
  <2>1. xorders' = [a EXCEPT ![n].filled = r.qty] /\ xtrades' = Made(n, r.qty)
    BY <1>5 DEF Take, Accepted
  <2>2. [e(0, "FILLED") EXCEPT !.filled = r.qty] = e(r.qty, "FILLED")
    OBVIOUS
  <2>3. e(0, "FILLED") \in XOrder /\ e(r.qty, "FILLED") \in XOrder
        /\ e(r.qty, "FILLED").side = r.side /\ e(r.qty, "FILLED").reduce = r.reduce
    BY <1>1, <1>2
  <2> HIDE DEF e
  <2>4. xorders' = Append(xorders, e(r.qty, "FILLED"))
    <3>1. /\ a \in Seq(XOrder) /\ DOMAIN a = 1..n /\ a[n] = e(0, "FILLED") /\ n \in 1..n /\ Len(xorders) \in Nat
          /\ \A i \in 1..Len(xorders) : a[i] = xorders[i]
      BY <1>3, <2>3
    <3> DEFINE b == Append(xorders, e(r.qty, "FILLED"))
    <3>2. /\ b \in Seq(XOrder) /\ DOMAIN b = 1..n /\ b[n] = e(r.qty, "FILLED")
          /\ \A i \in 1..Len(xorders) : b[i] = xorders[i]
      BY <1>3, <2>3
    <3> HIDE DEF a, b
    <3>3. xorders' = [a EXCEPT ![n] = e(r.qty, "FILLED")]
      BY <2>1, <2>2, <3>1
    <3>4. \A i \in 1..n : [a EXCEPT ![n] = e(r.qty, "FILLED")][i] = b[i]
      BY <3>1, <3>2
    <3>5. [a EXCEPT ![n] = e(r.qty, "FILLED")] = [i \in 1..n |-> [a EXCEPT ![n] = e(r.qty, "FILLED")][i]]
      BY <3>1
    <3>6. b = [i \in 1..n |-> b[i]]
      <4>1. b \in [1..n -> XOrder]
        BY <3>2
      <4> QED BY <4>1
    <3> QED BY <3>3, <3>4, <3>5, <3>6 DEF b
  <2>5. /\ xorders' \in Seq(XOrder) /\ Kept /\ xorders'[n] = e(r.qty, "FILLED") /\ n \in DOMAIN xorders'
        /\ \A y \in DOMAIN xorders' : y \in DOMAIN xorders \/ y = n
        /\ \A y \in DOMAIN xorders' : xorders'[y].side = "SELL" => xorders'[y].reduce
    BY <2>3, <2>4, XMore
  <2>6. xorders'[n].side # "BUY" => r.qty <= Position
    <3>1. xorders'[n].side # "BUY" => r.side = "SELL" /\ r.reduce
      BY <1>1, <2>3, <2>5
    <3>2. r.reduce => r.qty <= Room(Position, r.side)
      <4>1. Room(Position, r.side) \in Int
        BY <1>3 DEF Room
      <4> QED BY <1>1, <1>5, <4>1 DEF Useless
    <3>3. Room(Position, "SELL") <= Position
      BY <1>3 DEF Room
    <3>4. Room(Position, "SELL") \in Int
      BY <1>3 DEF Room
    <3> QED BY <1>1, <1>3, <3>1, <3>2, <3>3, <3>4
  <2> HIDE DEF n
  <2>7. LongInv'
    BY <1>1, <2>1, <2>5, <2>6, LongStep
  <2> QED BY <2>3, <2>5, <2>7
<1> QED BY <1>4, <1>5

\* What is new in the exchange's list has to reduce.
NewReduce == \A y \in DOMAIN xorders' : y \in DOMAIN xorders \/ xorders'[y].reduce

\* A limit order is executed.
LEMMA LongExecutes ==
    ASSUME LongInv, NEW x \in DOMAIN xorders, Execute(x)
    PROVE  LongInv' /\ NewReduce
<1>1. xorders \in Seq(XOrder) /\ xorders[x] \in XOrder /\ Position \in Nat
  BY DEF LongInv
<1>2. xorders[x].filled \in Nat /\ xorders[x].side \in {"BUY", "SELL"} /\ xorders[x].status = "NEW"
  BY <1>1 DEF XOrder, Execute, XOpen
<1>3. CASE xorders' = [xorders EXCEPT ![x].status = "EXPIRED"] /\ UNCHANGED xtrades
  <2> DEFINE o == [xorders[x] EXCEPT !.status = "EXPIRED"]
  <2>1. o \in XOrder /\ o.side = xorders[x].side /\ o.reduce = xorders[x].reduce
    BY <1>1, XChange
  <2>2. xorders' = [xorders EXCEPT ![x] = o]
    BY <1>3
  <2> HIDE DEF o
  <2>3. /\ xorders' \in Seq(XOrder) /\ Kept /\ DOMAIN xorders' = DOMAIN xorders
        /\ \A y \in DOMAIN xorders' : xorders'[y].side = "SELL" => xorders'[y].reduce
    BY <2>1, <2>2, XOne
  <2>4. LongInv'
    BY <1>3, <2>3, LongStep
  <2> QED BY <2>3, <2>4 DEF NewReduce
<1>4. CASE /\ ~(xorders[x].reduce /\ Room(Position, xorders[x].side) = 0)
           /\ xorders' = [xorders EXCEPT ![x].filled = @ + 1,
                             ![x].status = IF xorders[x].filled + 1 = xorders[x].qty THEN "FILLED" ELSE @]
           /\ xtrades' = Made(x, 1)
  <2> DEFINE f == xorders[x].filled + 1
             st == IF xorders[x].filled + 1 = xorders[x].qty THEN "FILLED" ELSE xorders[x].status
             o == [xorders[x] EXCEPT !.filled = f, !.status = st]
  <2>1. f \in Nat /\ st \in {"NEW", "FILLED", "CANCELED", "EXPIRED", "TRIGGERED"}
    BY <1>2
  <2>2. o \in XOrder /\ o.side = xorders[x].side /\ o.reduce = xorders[x].reduce
    <3> HIDE DEF f, st
    <3> QED BY <1>1, <2>1 DEF XOrder
  <2>3. xorders' = [xorders EXCEPT ![x] = o]
    BY <1>1, <1>4
  <2> HIDE DEF o
  <2>4. /\ xorders' \in Seq(XOrder) /\ Kept /\ DOMAIN xorders' = DOMAIN xorders
        /\ \A y \in DOMAIN xorders' : xorders'[y].side = "SELL" => xorders'[y].reduce
    BY <2>2, <2>3, XOne
  <2>5. xorders'[x].side # "BUY" => 1 <= Position
    <3>1. xorders'[x].side = xorders[x].side
      BY <2>4 DEF Kept
    <3>2. xorders[x].side # "BUY" => xorders[x].side = "SELL" /\ xorders[x].reduce
      BY <1>2 DEF LongInv
    <3>3. xorders[x].side # "BUY" => Room(Position, "SELL") # 0
      BY <1>4, <3>2
    <3>4. Room(Position, "SELL") # 0 => Position > 0
      BY <1>1 DEF Room
    <3> QED BY <1>1, <3>1, <3>3, <3>4
  <2>6. x \in DOMAIN xorders' /\ 1 \in Nat
    BY <2>4
  <2>7. LongInv'
    BY <1>4, <2>4, <2>5, <2>6, LongStep
  <2> QED BY <2>4, <2>7 DEF NewReduce
<1> QED BY <1>3, <1>4 DEF Execute

\* A stop is triggered.
LEMMA LongTriggers ==
    ASSUME LongInv, NEW x \in DOMAIN xorders, Trigger(x)
    PROVE  LongInv' /\ NewReduce
<1>1. xorders \in Seq(XOrder) /\ xorders[x] \in XOrder /\ Position \in Nat
  BY DEF LongInv
<1>2. xorders[x].side \in {"BUY", "SELL"}
  BY <1>1 DEF XOrder
<1>3. CASE xorders' = [xorders EXCEPT ![x].status = "EXPIRED"] /\ UNCHANGED xtrades
  <2> DEFINE o == [xorders[x] EXCEPT !.status = "EXPIRED"]
  <2>1. o \in XOrder /\ o.side = xorders[x].side /\ o.reduce = xorders[x].reduce
    BY <1>1, XChange
  <2>2. xorders' = [xorders EXCEPT ![x] = o]
    BY <1>3
  <2> HIDE DEF o
  <2>3. /\ xorders' \in Seq(XOrder) /\ Kept /\ DOMAIN xorders' = DOMAIN xorders
        /\ \A y \in DOMAIN xorders' : xorders'[y].side = "SELL" => xorders'[y].reduce
    BY <2>1, <2>2, XOne
  <2>4. LongInv'
    BY <1>3, <2>3, LongStep
  <2> QED BY <2>3, <2>4 DEF NewReduce
<1> DEFINE n == Room(Position, xorders[x].side)
           y == Len(xorders) + 1
           r == [type |-> "MARKET", side |-> xorders[x].side, qty |-> n, reduce |-> TRUE]
<1>4. CASE /\ xorders' = [Accepted("none", r, "FILLED") EXCEPT
                              ![x].status = "TRIGGERED", ![x].actual = y, ![y].filled = n]
           /\ xtrades' = Made(y, n)
  <2>1. n \in Nat /\ (xorders[x].side # "BUY" => n <= Position)
    BY <1>1, <1>2 DEF Room
  <2>2. y \in Nat /\ x # y /\ DOMAIN xorders = 1..Len(xorders) /\ x \in 1..y /\ Len(xorders) \in Nat /\ y \in 1..y
    BY <1>1
  <2> DEFINE e == [cid |-> "none", type |-> "MARKET", side |-> xorders[x].side, qty |-> n,
                   reduce |-> TRUE, filled |-> 0, actual |-> 0, status |-> "FILLED"]
             a == Append(xorders, e)
             p == [xorders[x] EXCEPT !.status = "TRIGGERED", !.actual = y]
             q == [e EXCEPT !.filled = n]
  <2>3. xorders' = [a EXCEPT ![x].status = "TRIGGERED", ![x].actual = y, ![y].filled = n]
    BY <1>4 DEF Accepted
  <2>4. e \in XOrder /\ e.side = xorders[x].side /\ e.reduce = TRUE
    <3> HIDE DEF n
    <3> QED BY <1>2, <2>1 DEF XOrder, LiveTypes
  <2>5. p \in XOrder /\ p.side = xorders[x].side /\ p.reduce = xorders[x].reduce
    <3> HIDE DEF y
    <3> QED BY <1>1, <2>2, XChange
  <2>6. q \in XOrder /\ q.side = xorders[x].side /\ q.reduce = TRUE
    <3> HIDE DEF n, e
    <3> QED BY <2>1, <2>4, XChange
  <2>7. /\ a \in Seq(XOrder) /\ DOMAIN a = 1..y /\ a[y] = e /\ Len(a) = y
        /\ \A i \in 1..Len(xorders) : a[i] = xorders[i]
    <3> HIDE DEF e
    <3> QED BY <1>1, <2>4
  <2>8. xorders' = [a EXCEPT ![x] = p, ![y] = q]
    <3>1. a[x] = xorders[x] /\ a[y] = e
      BY <2>2, <2>7
    <3> HIDE DEF a, y, n, e
    <3> QED BY <2>2, <2>3, <3>1
  <2> HIDE DEF a, p, q, e, n, y
  <2>9. /\ xorders' \in Seq(XOrder) /\ DOMAIN xorders' = 1..y
        /\ xorders'[x] = p /\ xorders'[y] = q /\ \A i \in (1..y) \ {x, y} : xorders'[i] = a[i]
    BY <2>2, <2>5, <2>6, <2>7, <2>8
  <2>10. \A i \in DOMAIN xorders : /\ i \in DOMAIN xorders'
                                   /\ xorders'[i].side = xorders[i].side
                                   /\ xorders'[i].reduce = xorders[i].reduce
    <3> SUFFICES ASSUME NEW i \in DOMAIN xorders
                 PROVE  /\ i \in DOMAIN xorders'
                        /\ xorders'[i].side = xorders[i].side
                        /\ xorders'[i].reduce = xorders[i].reduce
      OBVIOUS
    <3>1. i \in 1..y /\ i # y /\ a[i] = xorders[i]
      BY <2>2, <2>7 DEF y
    <3>2. CASE i = x
      BY <2>5, <2>9, <3>1, <3>2
    <3>3. CASE i # x
      BY <2>9, <3>1, <3>3
    <3> QED BY <3>2, <3>3
  <2>11. Kept
    BY <2>10 DEF Kept
  <2>12. \A i \in DOMAIN xorders' : i \in DOMAIN xorders \/ i = y
    BY <2>2, <2>9 DEF y
  <2>13. \A i \in DOMAIN xorders' : xorders'[i].side = "SELL" => xorders'[i].reduce
    BY <2>6, <2>9, <2>10, <2>12 DEF LongInv
  <2>14. y \in DOMAIN xorders' /\ (xorders'[y].side # "BUY" => n <= Position)
    BY <2>1, <2>2, <2>6, <2>9
  <2>15. LongInv'
    BY <1>4, <2>1, <2>9, <2>11, <2>13, <2>14, LongStep
  <2>16. NewReduce
    BY <2>6, <2>9, <2>12 DEF NewReduce
  <2> QED BY <2>15, <2>16
<1> QED BY <1>3, <1>4 DEF Trigger

\* Orders are taken off the book.
LEMMA LongCancels ==
    ASSUME LongInv, NEW X, XCancel(X), UNCHANGED xtrades
    PROVE  LongInv' /\ NewReduce
<1>1. xorders \in Seq(XOrder)
  BY DEF LongInv
<1>2. /\ DOMAIN xorders' = DOMAIN xorders
      /\ \A x \in DOMAIN xorders : xorders'[x] = xorders[x] \/ xorders'[x] = [xorders[x] EXCEPT !.status = "CANCELED"]
      /\ xorders' = [x \in DOMAIN xorders |-> xorders'[x]]
  BY DEF XCancel
<1>3. \A x \in DOMAIN xorders : /\ xorders'[x] \in XOrder
                                /\ xorders'[x].side = xorders[x].side
                                /\ xorders'[x].reduce = xorders[x].reduce
  <2> SUFFICES ASSUME NEW x \in DOMAIN xorders
               PROVE  /\ xorders'[x] \in XOrder
                      /\ xorders'[x].side = xorders[x].side
                      /\ xorders'[x].reduce = xorders[x].reduce
    OBVIOUS
  <2>1. xorders[x] \in XOrder
    BY <1>1
  <2>2. [xorders[x] EXCEPT !.status = "CANCELED"] \in XOrder
    BY <2>1 DEF XOrder
  <2>3. /\ [xorders[x] EXCEPT !.status = "CANCELED"].side = xorders[x].side
        /\ [xorders[x] EXCEPT !.status = "CANCELED"].reduce = xorders[x].reduce
    BY <2>1 DEF XOrder
  <2> QED BY <1>2, <2>1, <2>2, <2>3
<1>4. xorders' \in Seq(XOrder)
  <2>1. DOMAIN xorders = 1..Len(xorders) /\ Len(xorders) \in Nat
    BY <1>1
  <2>2. xorders' \in [1..Len(xorders) -> XOrder]
    BY <1>2, <1>3, <2>1
  <2> QED BY <2>1, <2>2
<1>5. Kept /\ \A x \in DOMAIN xorders' : xorders'[x].side = "SELL" => xorders'[x].reduce
  BY <1>2, <1>3 DEF Kept, LongInv
<1>6. LongInv'
  BY <1>4, <1>5, LongStep
<1> QED BY <1>2, <1>6 DEF NewReduce

\* Nothing happens on the exchange.
LEMMA LongSame ==
    ASSUME LongInv, UNCHANGED <<xorders, xtrades>>
    PROVE  LongInv' /\ NewReduce
  BY DEF LongInv, NewReduce, Position

\* The guard's state, its counters without a bound.
Judgements == [status : {"active", "paused", "halted"}, cum : Int, losses : Nat, rejects : Nat]

\* What may become of the guard's state: a halt stays.
Sticks(g, h) == h \in Judgements /\ (g.status = "halted" => h.status = "halted")

\* What the guard makes of the kill switch, of an answer and of a night.
LEMMA GuardSteps ==
    ASSUME NEW g \in Judgements
    PROVE  /\ \A s \in {"active", "paused", "halted"} : Sticks(g, Set(g, s))
           /\ Sticks(g, Halt(g)) /\ (\A h \in CheckKill(g) : Sticks(g, h))
           /\ (\A answer : Sticks(g, After(g, answer))) /\ Sticks(g, Judged(g))
<1>1. \A s \in {"active", "paused", "halted"}, h \in Judgements : Sticks(h, Set(h, s))
  BY DEF Sticks, Set, Judgements
<1>2. \A h \in Judgements : Sticks(h, Halt(h)) /\ Sticks(h, h)
  BY <1>1 DEF Halt, Sticks
<1>3. \A h \in CheckKill(g) : Sticks(g, h)
  BY <1>2 DEF CheckKill
<1>4. Sticks(g, [g EXCEPT !.rejects = 0])
  BY DEF Sticks, Judgements
<1>5. Sticks(g, Rejected(g))
  <2> DEFINE r == [g EXCEPT !.rejects = IF @ < MaxRejects THEN @ + 1 ELSE @]
  <2>1. MaxRejects \in Nat
    BY ExecutionAssumption
  <2>2. r \in Judgements /\ r.status = g.status
    BY <2>1 DEF Judgements
  <2>3. Rejected(g) = IF r.rejects = MaxRejects THEN Halt(r) ELSE r
    BY DEF Rejected
  <2> HIDE DEF r
  <2> QED BY <1>2, <2>2, <2>3 DEF Sticks
<1>6. \A answer : Sticks(g, After(g, answer))
  BY <1>2, <1>4, <1>5 DEF After
<1>7. Sticks(g, Judged(g))
  <2>1. Judged(g) = Halt(g) \/ Judged(g) = Set(g, "paused") \/ Judged(g) = g
    BY DEF Judged
  <2> QED BY <1>1, <1>2, <2>1
<1> QED BY <1>1, <1>2, <1>3, <1>6, <1>7

\* The guard is halted while a halt holds, and an order that is under way in a
\* halt has to reduce.
HaltInv ==
    /\ guard \in Judgements
    /\ halted => guard.status = "halted"
    /\ look # NoLook => /\ mode = "live" /\ step = "idle"
                        /\ look \in [stage : {"count", "post"}, r : Requests, pos : Int]
                        /\ look.r.reduce \/ ~halted

\* The guard becomes what a halt sticks to.
LEMMA Becomings ==
    ASSUME HaltInv, NEW h, Sticks(guard, h), Becoming(h)
    PROVE  guard' \in Judgements /\ (halted' => guard'.status = "halted")
  BY DEF HaltInv, Sticks, Becoming

\* A check that begins in front of the real exchange.
LEMMA HaltLooks ==
    ASSUME HaltInv, LongInv, Callers, NEW r \in Requests, GuardedLook(r)
    PROVE  HaltInv'
<1>1. PICK g \in CheckKill(guard) :
        /\ mode = "live" /\ step = "idle"
        /\ Becoming(g)
        /\ look' = [stage |-> IF r.type = "STOP_MARKET" \/ Closes(r, Position) THEN "post" ELSE "count",
                    r |-> r, pos |-> Position]
        /\ r.type = "STOP_MARKET" => Passes(g, r, Position, 0)
        /\ r.type # "STOP_MARKET" => Closes(r, Position) \/ g.status = "active"
        /\ UNCHANGED <<paperVars, liveVars, mode, nights>>
  BY DEF GuardedLook
<1>2. Position \in Nat
  BY DEF LongInv
<1>3. Sticks(guard, g)
  BY GuardSteps DEF HaltInv
<1>4. guard' \in Judgements /\ (halted' => guard'.status = "halted")
  BY <1>1, <1>3, Becomings
<1>5. mode' = "live" /\ step' = "idle"
  BY <1>1 DEF liveVars
<1>6. look' \in [stage : {"count", "post"}, r : Requests, pos : Int] /\ look'.r = r
  BY <1>1, <1>2
<1>7. r \in Request /\ r.side \in {"BUY", "SELL"} /\ (r.side = "SELL" => r.reduce)
  <2>1. r \in Request
    BY ExecutionAssumption
  <2> QED BY <2>1 DEF Request, Sides, Callers
<1>8. Reduces(Position, r.side, r.qty) => r.reduce
  BY <1>2, <1>7 DEF Reduces
<1>9. r.reduce \/ g.status = "active"
  BY <1>1, <1>8 DEF Passes, Closes
<1>10. g.status = "active" => ~halted'
  BY <1>1, <1>3 DEF Becoming, Sticks, HaltInv
<1> QED BY <1>4, <1>5, <1>6, <1>9, <1>10 DEF HaltInv

\* Nothing is being looked at.
LEMMA Idling ==
    ASSUME guard' \in Judgements, halted' => guard'.status = "halted", look' = NoLook
    PROVE  HaltInv'
  BY DEF HaltInv, NoLook

\* The guard judges a night, and its state is written before it does.
LEMMA NightSteps ==
    ASSUME HaltInv, NEW result \in Results
    PROVE  Sticks(guard, Recorded(result)) /\ Sticks(guard, Judged(Recorded(result)))
<1>1. Sticks(guard, Recorded(result))
  <2>1. result \in Int
    BY ExecutionAssumption
  <2>2. guard \in Judgements
    BY DEF HaltInv
  <2> DEFINE l == IF result < 0 THEN guard.losses + 1 ELSE 0
  <2>3. l \in Nat /\ guard.cum + result \in Int
    BY <2>1, <2>2 DEF Judgements
  <2>4. Recorded(result) = [guard EXCEPT !.cum = guard.cum + result, !.losses = l]
    BY <2>2 DEF Recorded
  <2> HIDE DEF l
  <2>5. Recorded(result) \in Judgements /\ Recorded(result).status = guard.status
    BY <2>2, <2>3, <2>4 DEF Judgements
  <2> QED BY <2>5 DEF Sticks
<1>2. Sticks(Recorded(result), Judged(Recorded(result)))
  BY <1>1, GuardSteps DEF Sticks
<1> QED BY <1>1, <1>2 DEF Sticks

\* Every step keeps it.
LEMMA HaltSteps ==
    ASSUME HaltInv, LongInv, Callers, [Next]_vars
    PROVE  HaltInv'
<1>0. /\ guard \in Judgements /\ (halted => guard.status = "halted")
      /\ mode = "paper" => look = NoLook
      /\ step # "idle" => look = NoLook
  BY DEF HaltInv
<1>1. CASE UNCHANGED <<mode, step, guardVars>>
  BY <1>1 DEF HaltInv, guardVars, NoLook
<1>2. CASE UNCHANGED guardVars /\ look = NoLook
  BY <1>0, <1>2, Idling DEF guardVars
<1>3. CASE PaperPasses
  BY <1>1, <1>3 DEF PaperPasses, liveVars
<1>4. CASE LivePasses
  <2>1. CASE Exchange
    <3>1. UNCHANGED <<mode, step, guardVars>>
      BY <1>4, <2>1 DEF LivePasses, Exchange, Appear, Execute, Trigger
    <3> QED BY <1>1, <3>1
  <2>2. CASE look = NoLook
    BY <1>2, <1>4, <2>2 DEF LivePasses
  <2> QED BY <1>4, <2>1, <2>2 DEF LivePasses
<1>5. CASE GuardedCount
  <2>1. UNCHANGED <<step, mode, guard, nights, halted>> /\ look.stage = "count"
        /\ (look' = NoLook \/ look' = [look EXCEPT !.stage = "post"])
    BY <1>5 DEF GuardedCount
  <2>2. CASE look' = NoLook
    BY <1>0, <2>1, <2>2, Idling
  <2>3. CASE look' = [look EXCEPT !.stage = "post"]
    <3>1. look # NoLook
      BY <2>1 DEF NoLook
    <3>2. /\ look \in [stage : {"count", "post"}, r : Requests, pos : Int] /\ (look.r.reduce \/ ~halted)
          /\ mode = "live" /\ step = "idle"
      BY <3>1 DEF HaltInv
    <3>3. look' \in [stage : {"count", "post"}, r : Requests, pos : Int] /\ look'.r = look.r
      BY <2>3, <3>2
    <3> QED BY <1>0, <2>1, <3>2, <3>3 DEF HaltInv
  <2> QED BY <2>1, <2>2, <2>3
<1>6. CASE GuardedPost
  <2>1. PICK answer \in LiveAnswers \cup {"waits"} : Becoming(After(guard, answer))
    BY <1>6 DEF GuardedPost
  <2>2. look' = NoLook
    BY <1>6 DEF GuardedPost
  <2>3. Sticks(guard, After(guard, answer))
    BY <1>0, GuardSteps
  <2> QED BY <2>1, <2>2, <2>3, Becomings, Idling
<1>7. CASE GuardedPull
  <2>1. PICK answer \in LiveAnswers :
            /\ Pull(answer) /\ Becoming(IF step = "market" THEN After(guard, answer) ELSE guard)
    BY <1>7 DEF GuardedPull
  <2>2. look' = NoLook
    BY <1>0, <1>7, <2>1 DEF Pull, GuardedPull
  <2>3. Sticks(guard, After(guard, answer)) /\ Sticks(guard, guard)
    BY <1>0, GuardSteps DEF Sticks
  <2> QED BY <2>1, <2>2, <2>3, Becomings, Idling
<1>8. ASSUME NEW r \in Requests, GuardedPaper(r) PROVE HaltInv'
  <2>1. PICK g \in CheckKill(guard) : \/ Becoming(g)
                                      \/ \E answer \in Answers : Becoming(After(g, answer))
    BY <1>8 DEF GuardedPaper
  <2>2. Sticks(guard, g)
    BY <1>0, GuardSteps
  <2>3. \A answer : Sticks(guard, After(g, answer))
    BY <2>2, GuardSteps DEF Sticks
  <2>4. guard' \in Judgements /\ (halted' => guard'.status = "halted")
    BY <2>1, <2>2, <2>3, Becomings
  <2>5. look' = NoLook
    BY <1>0, <1>8 DEF GuardedPaper
  <2> QED BY <2>4, <2>5, Idling
<1>9. ASSUME NEW r \in Requests, GuardedLook(r) PROVE HaltInv'
  BY <1>9, HaltLooks
<1>10. CASE Unhealthy
  <2>1. Becoming(Halt(guard)) /\ look' = NoLook
    BY <1>10 DEF Unhealthy, Between
  <2>2. Sticks(guard, Halt(guard))
    BY <1>0, GuardSteps
  <2> QED BY <2>1, <2>2, Becomings, Idling
<1>11. CASE Resume
  <2>1. /\ guard.status = "paused" /\ guard' = [guard EXCEPT !.status = "active", !.losses = 0]
        /\ look' = NoLook /\ halted' = halted
    BY <1>11 DEF Resume, Between
  <2>2. guard' \in Judgements /\ ~halted'
    BY <1>0, <2>1 DEF Judgements
  <2> QED BY <2>1, <2>2, Idling
<1>12. CASE ResetHalt
  <2>1. /\ guard' = [guard EXCEPT !.status = "active", !.rejects = 0]
        /\ look' = NoLook /\ halted' = FALSE
    BY <1>12 DEF ResetHalt, Between
  <2>2. guard' \in Judgements
    BY <1>0, <2>1 DEF Judgements
  <2> QED BY <2>1, <2>2, Idling
<1>13. CASE Restart
  BY <1>0, <1>13, Idling DEF Restart
<1>14. ASSUME NEW result \in Results, RecordNight(result) PROVE HaltInv'
  <2>1. Becoming(Judged(Recorded(result))) /\ look' = NoLook
    BY <1>14 DEF RecordNight, Between
  <2> QED BY <2>1, NightSteps, Becomings, Idling
<1>15. ASSUME NEW result \in Results, RecordNightCut(result) PROVE HaltInv'
  <2>1. guard' = Recorded(result) /\ look' = NoLook /\ halted' = halted
    BY <1>15 DEF RecordNightCut
  <2>2. guard' \in Judgements /\ (halted' => guard'.status = "halted")
    BY <1>0, <2>1, NightSteps DEF Sticks
  <2> QED BY <2>1, <2>2, Idling
<1>16. CASE UNCHANGED vars
  BY <1>1, <1>16 DEF vars, liveVars, guardVars
<1> QED BY <1>3, <1>4, <1>5, <1>6, <1>7, <1>8, <1>9, <1>10, <1>11, <1>12, <1>13, <1>14, <1>15, <1>16 DEF Next

\* What a step does to the real exchange: it keeps its invariant, and in a halt
\* only orders that have to reduce are new.
LEMMA LongSteps ==
    ASSUME LongInv, HaltInv, Callers, [Next]_vars
    PROVE  LongInv' /\ (halted => NewReduce)
<1>1. CASE UNCHANGED liveVars
  BY <1>1, LongSame DEF liveVars
<1>2. CASE LivePasses
  <2>1. CASE Exchange
    <3>1. CASE Appear
      BY <3>1, LongSame DEF Appear
    <3>2. ASSUME NEW x \in DOMAIN xorders, Execute(x) \/ Trigger(x) PROVE LongInv' /\ NewReduce
      BY <3>2, LongExecutes, LongTriggers
    <3> QED BY <2>1, <3>1, <3>2 DEF Exchange
  <2>2. CASE PollOrders \/ CancelAllBegin
    BY <2>2, LongSame DEF PollOrders, CancelAllBegin, exchange
  <2>3. CASE CancelAllEnd
    <3>1. UNCHANGED xtrades /\ (UNCHANGED xorders \/ \E X : XCancel(X))
      BY <2>3 DEF CancelAllEnd
    <3> QED BY <3>1, LongSame, LongCancels
  <2>4. ASSUME NEW c \in Cids, LiveCancel(c) PROVE LongInv' /\ NewReduce
    <3>1. UNCHANGED xtrades /\ \E X : XCancel(X)
      BY <2>4 DEF LiveCancel
    <3> QED BY <3>1, LongCancels
  <2> QED BY <1>2, <2>1, <2>2, <2>3, <2>4 DEF LivePasses
<1>3. CASE GuardedCount
  BY <1>3, LongSame DEF GuardedCount, exchange
<1>4. CASE GuardedPost
  <2>1. PICK c \in Cids, answer \in LiveAnswers \cup {"waits"} :
            LivePlace(c, look.r, answer) \/ LiveRepeat(c, answer)
    BY <1>4 DEF GuardedPost
  <2>2. /\ look.r \in Request /\ (look.r.side = "SELL" => look.r.reduce)
        /\ halted => look.r.reduce
    <3>1. look # NoLook
      BY <1>4 DEF GuardedPost, NoLook
    <3>2. look.r \in Requests /\ (halted => look.r.reduce)
      BY <3>1 DEF HaltInv
    <3> QED BY <3>2, ExecutionAssumption DEF Callers
  <2> DEFINE r == look.r
  <2>3. \/ UNCHANGED <<xorders, xtrades>>
        \/ ~Useless(r) /\ Take(c, r)
    BY <2>1 DEF LivePlace, LiveRepeat, Post, PostExpires, PostRejected, PostLost, PostNowhere,
                liveVars, exchange
  <2>4. CASE UNCHANGED <<xorders, xtrades>>
    BY <2>4, LongSame
  <2>5. CASE ~Useless(r) /\ Take(c, r)
    <3> HIDE DEF r
    <3>1. r \in Request /\ (r.side = "SELL" => r.reduce) /\ (halted => r.reduce)
      BY <2>2 DEF r
    <3>2. /\ LongInv'
          /\ \A y \in DOMAIN xorders' : y \in DOMAIN xorders \/ xorders'[y].reduce = r.reduce
      BY <2>5, <3>1, LongTakes
    <3> QED BY <3>1, <3>2 DEF NewReduce
  <2> QED BY <2>3, <2>4, <2>5
<1>5. CASE GuardedPull
  BY <1>5, LongSame DEF GuardedPull, Pull, exchange
<1>6. CASE Restarted
  <2>1. CASE UNCHANGED liveVars
    BY <1>1, <2>1
  <2>2. CASE LiveRestart
    BY <2>2, LongSame DEF LiveRestart, exchange
  <2> QED BY <1>6, <2>1, <2>2 DEF Restarted
<1>7. CASE PaperPasses \/ Unhealthy \/ Resume \/ ResetHalt \/ UNCHANGED vars
  BY <1>1, <1>7 DEF PaperPasses, Unhealthy, Resume, ResetHalt, vars
<1>8. ASSUME NEW r \in Requests, GuardedPaper(r) \/ GuardedLook(r) PROVE LongInv' /\ (halted => NewReduce)
  BY <1>1, <1>8 DEF GuardedPaper, GuardedLook
<1>9. CASE Restart
  BY <1>6, <1>9 DEF Restart
<1>10. ASSUME NEW result \in Results, RecordNight(result) \/ RecordNightCut(result)
       PROVE  LongInv' /\ (halted => NewReduce)
  BY <1>1, <1>6, <1>10 DEF RecordNight, RecordNightCut
<1> QED BY <1>2, <1>3, <1>4, <1>5, <1>7, <1>8, <1>9, <1>10 DEF Next

\* The simulated side in a halt.
LEMMA PaperHalts ==
    ASSUME PaperInv, Callers, CapInv, HaltInv, halted, mode = "paper", [Next]_vars
    PROVE  pos' + Pending(orders') <= pos + Pending(orders)
<1>0. guard.status = "halted" /\ pos \in Int /\ Pending(orders) \in Int
  <2>1. guard.status = "halted" /\ pos \in Int /\ orders \in Seq(Order)
    BY DEF HaltInv, PaperInv, PaperTypeOK
  <2> QED BY <2>1, PendingInt
<1>1. CASE UNCHANGED paperVars
  <2>1. pos' = pos /\ orders' = orders
    BY <1>1 DEF paperVars
  <2> QED BY <1>0, <2>1
<1>2. CASE PaperPasses
  BY <1>2, CapPasses
<1>3. ASSUME NEW r \in Requests, GuardedPaper(r)
      PROVE  pos' + Pending(orders') <= pos + Pending(orders)
  BY <1>0, <1>3, CapGuarded
<1>4. CASE Restarted
  <2>1. orders' = disk.orders /\ pos' = disk.pos
    BY <1>4 DEF Restarted, PaperRestart
  <2>2. disk.pos = pos /\ Pending(disk.orders) <= Pending(orders)
    BY DEF CapInv
  <2>3. Pending(disk.orders) \in Int
    <3>1. disk.orders \in Seq(Order)
      BY DEF PaperInv, PaperTypeOK
    <3> QED BY <3>1, PendingInt
  <2> QED BY <1>0, <2>1, <2>2, <2>3
<1>5. CASE GuardedCount \/ GuardedPost \/ GuardedPull \/ LivePasses
  BY <1>1, <1>5 DEF GuardedCount, GuardedPost, GuardedPull, LivePasses
<1>6. CASE Unhealthy \/ Resume \/ ResetHalt \/ UNCHANGED vars
  BY <1>1, <1>6 DEF Unhealthy, Resume, ResetHalt, vars
<1>7. CASE Restart
  BY <1>4, <1>7 DEF Restart
<1>8. ASSUME NEW result \in Results, RecordNight(result) \/ RecordNightCut(result)
      PROVE  pos' + Pending(orders') <= pos + Pending(orders)
  BY <1>1, <1>4, <1>8 DEF RecordNight, RecordNightCut
<1>9. ASSUME NEW r \in Requests, GuardedLook(r)
      PROVE  pos' + Pending(orders') <= pos + Pending(orders)
  BY <1>1, <1>9 DEF GuardedLook
<1> QED BY <1>2, <1>3, <1>5, <1>6, <1>7, <1>8, <1>9 DEF Next

\* Nothing grows in a halt.
LEMMA HaltStep ==
    ASSUME ExecInv, Callers, CapInv, LongInv, HaltInv, [Next]_vars
    PROVE  halted => ~Growth
<1> SUFFICES ASSUME halted PROVE ~Growth
  OBVIOUS
<1>0. PaperInv
  BY DEF ExecInv
<1>1. mode = "paper" => ~(pos' + PaperPending' > pos + PaperPending)
  <2> SUFFICES ASSUME mode = "paper" PROVE ~(pos' + PaperPending' > pos + PaperPending)
    OBVIOUS
  <2>1. PaperPending = Pending(orders) /\ PaperPending' = Pending(orders')
    BY DEF PaperPending, Pending
  <2>2. pos' + Pending(orders') <= pos + Pending(orders)
    BY <1>0, PaperHalts
  <2>3. pos \in Int /\ Pending(orders) \in Int
    <3>1. pos \in Int /\ orders \in Seq(Order)
      BY <1>0 DEF PaperInv, PaperTypeOK
    <3> QED BY <3>1, PendingInt
  <2>4. pos' \in Int /\ Pending(orders') \in Int
    <3>1. PaperInv'
      BY ExecSteps DEF ExecInv
    <3>2. pos' \in Int /\ orders' \in Seq(Order)
      BY <3>1 DEF PaperInv, PaperTypeOK
    <3> QED BY <3>2, PendingInt
  <2> QED BY <2>1, <2>2, <2>3, <2>4
<1>2. NewReduce
  BY LongSteps
<1> QED BY <1>1, <1>2 DEF Growth, NewReduce

\* Nothing is on the exchange, and no check is under way, at first.
LEMMA HaltStarts ==
    ASSUME Init
    PROVE  LongInv /\ HaltInv
<1>1. LongInv
  <2>1. xorders = <<>> /\ xtrades = <<>>
    BY DEF Init, LiveInit
  <2>2. Len(<<>>) = 0 /\ 0 \in Nat /\ DOMAIN <<>> = {} /\ <<>> \in Seq(XOrder) /\ \A S : <<>> \in Seq(S)
    OBVIOUS
  <2>3. \A f : Total(f, 0) = 0
    BY <2>2, TotalNext
  <2>4. Position = 0
    <3>1. Position = Total([k \in 1..0 |-> Way(xorders[xtrades[k]].side)], 0)
      BY <2>1, <2>2 DEF Position
    <3> QED BY <2>3, <3>1
  <2> QED BY <2>1, <2>2, <2>4 DEF LongInv
<1>2. HaltInv
  BY DEF Init, HaltInv, Judgements
<1> QED BY <1>1, <1>2

\* A halt holds until reset_halt: no step adds to the simulated position and its
\* orders, or puts an order on the real exchange that would; the requests of a
\* check that was under way, restarts, pauses and results of nights included
\* (_set and _pre_trade of risk.py).
THEOREM HaltsHold ==
    ASSUME Callers
    PROVE  Spec => HaltHolds
<1>1. Init => CapInv /\ LongInv /\ HaltInv
  BY CapStarts, HaltStarts
<1>2. ExecInv /\ CapInv /\ LongInv /\ HaltInv /\ [Next]_vars => (CapInv /\ LongInv /\ HaltInv)'
  BY CapSteps, LongSteps, HaltSteps DEF ExecInv
<1>3. ExecInv /\ CapInv /\ LongInv /\ HaltInv /\ [Next]_vars => [halted => ~Growth]_vars
  BY HaltStep
<1> QED BY <1>1, <1>2, <1>3, ExecInvHolds, PTL DEF Spec, HaltHolds
=============================================================================
