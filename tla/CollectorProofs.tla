--------------------------- MODULE CollectorProofs ---------------------------
(***************************************************************************)
(* Theorems about the collector: every hole is filled by a sweep, and that *)
(* of an outage soon after it, and the monitor's last word is true.        *)
(***************************************************************************)
EXTENDS Collector, TLAPS, SequenceTheorems, WellFoundedInduction

-----------------------------------------------------------------------------
(* Numbers, sequences, and what due_jobs picks.                            *)

Less == {ss \in Nat \X Nat : ss[1] < ss[2]}

\* A set of numbers has a least one.
LEMMA Least ==
    ASSUME NEW S, S \subseteq Nat, S # {}
    PROVE  \E x \in S : \A y \in S : x <= y
<1>1. IsWellFoundedOn(Less, Nat)
  BY NatLessThanWellFounded, Zenon DEF OpToRel, Less
<1>2. \E x \in S : \A y \in S : <<y, x>> \notin Less
  BY <1>1, WFMin, Zenon
<1>3. \A x, y \in Nat : <<y, x>> \notin Less => x <= y
  BY DEF Less
<1> QED BY <1>2, <1>3

\* A set of numbers within bounds has a greatest one.
LEMMA Greatest ==
    ASSUME NEW n \in Nat, NEW S, S \subseteq 0..n, S # {}
    PROVE  Max(S) \in S /\ \A y \in S : y <= Max(S)
<1> DEFINE T == {n - x : x \in S}
<1>1. T \subseteq Nat /\ T # {}
  <2>1. \A x \in S : x \in 0..n /\ n - x \in Nat
    OBVIOUS
  <2> QED BY <2>1
<1>2. PICK t \in T : \A u \in T : t <= u
  <2> HIDE DEF T
  <2> QED BY <1>1, Least
<1>3. PICK x \in S : t = n - x
  OBVIOUS
<1>4. ASSUME NEW y \in S PROVE x >= y
  <2>1. n - y \in T /\ n - x <= n - y
    BY <1>2, <1>3
  <2> QED BY <2>1
<1>5. \E z \in S : \A y \in S : z >= y
  BY <1>4
<1>6. Max(S) \in S /\ \A y \in S : Max(S) >= y
  BY <1>5, Zenon DEF Max
<1>7. PICK m \in 0..n : m = Max(S)
  BY <1>6
<1>8. \A y \in S : y \in 0..n
  OBVIOUS
<1> HIDE DEF T
<1> QED BY <1>6, <1>7, <1>8

\* The greatest of two numbers.
LEMMA MaxTwo ==
    ASSUME NEW a \in Int, NEW b \in Int
    PROVE  Max({a, b}) \in Int /\ Max({a, b}) \in {a, b} /\ a <= Max({a, b}) /\ b <= Max({a, b})
<1>1. \E z \in {a, b} : \A y \in {a, b} : z >= y
  OBVIOUS
<1>2. Max({a, b}) \in {a, b} /\ \A y \in {a, b} : Max({a, b}) >= y
  BY <1>1, Zenon DEF Max
<1> QED BY <1>2

\* The greatest of four numbers.
LEMMA MaxFour ==
    ASSUME NEW a \in Int, NEW b \in Int, NEW c \in Int, NEW d \in Int
    PROVE  LET m == Max({a, b, c, d})
           IN  /\ m \in Int /\ m \in {a, b, c, d}
               /\ a <= m /\ b <= m /\ c <= m /\ d <= m
<1>1. \E z \in {a, b, c, d} : \A y \in {a, b, c, d} : z >= y
  OBVIOUS
<1>2. Max({a, b, c, d}) \in {a, b, c, d} /\ \A y \in {a, b, c, d} : Max({a, b, c, d}) >= y
  BY <1>1, Zenon DEF Max
<1> QED BY <1>2

\* The elements of the first n places of a sequence for which due_jobs answers.
Upto(s, n, due) == {s[i] : i \in {j \in 1..n : Due(s[j]) <=> due}}
\* The recursion of due_jobs.
Picks(s, N, due, g) ==
    g = [n \in 0..N |-> IF n = 0 THEN <<>>
                        ELSE IF Due(s[n]) <=> due THEN Append(g[n - 1], s[n]) ELSE g[n - 1]]

\* There is a function that goes through the pending outages one by one.
LEMMA PicksExists ==
    ASSUME NEW s, NEW due, NEW N \in Nat
    PROVE  \E g : Picks(s, N, due, g)
<1> DEFINE T == {n \in Nat : ~\E g : Picks(s, n, due, g)}
<1> SUFFICES ASSUME T # {} PROVE FALSE
  OBVIOUS
<1>1. PICK n \in T : \A m \in T : n <= m
  <2> HIDE DEF T
  <2>1. T \subseteq Nat
    BY DEF T
  <2> QED BY <2>1, Least
<1>2. n # 0
  <2>1. Picks(s, 0, due, [m \in 0..0 |-> <<>>])
    BY DEF Picks
  <2> QED BY <1>1, <2>1
<1>3. PICK p \in Nat : n = p + 1
  <2>1. n - 1 \in Nat /\ n = (n - 1) + 1
    BY <1>1, <1>2
  <2> QED BY <2>1
<1>4. PICK g : Picks(s, p, due, g)
  <2>1. p \notin T
    BY <1>1, <1>3
  <2> QED BY <2>1
<1> DEFINE h == [m \in 0..n |-> IF m = n THEN IF Due(s[n]) <=> due THEN Append(g[p], s[n]) ELSE g[p]
                                ELSE g[m]]
<1>5. \A m \in 0..n : h[m] = IF m = 0 THEN <<>>
                             ELSE IF Due(s[m]) <=> due THEN Append(h[m - 1], s[m]) ELSE h[m - 1]
  <2> SUFFICES ASSUME NEW m \in 0..n
               PROVE  h[m] = IF m = 0 THEN <<>>
                             ELSE IF Due(s[m]) <=> due THEN Append(h[m - 1], s[m]) ELSE h[m - 1]
    OBVIOUS
  <2>1. CASE m = n
    <3>1. m - 1 = p /\ p \in 0..n /\ p # n /\ m # 0
      BY <1>3, <2>1
    <3>2. h[m - 1] = g[p]
      BY <3>1
    <3> QED BY <2>1, <3>1, <3>2
  <2>2. CASE m # n
    <3>1. m \in 0..p /\ h[m] = g[m]
      BY <1>3, <2>2
    <3>2. m # 0 => h[m - 1] = g[m - 1]
      BY <1>3, <2>2
    <3>3. g[m] = IF m = 0 THEN <<>>
                 ELSE IF Due(s[m]) <=> due THEN Append(g[m - 1], s[m]) ELSE g[m - 1]
      BY <1>4, <3>1 DEF Picks
    <3> QED BY <3>1, <3>2, <3>3
  <2> QED BY <2>1, <2>2
<1>6. Picks(s, n, due, h)
  <2>1. h = [m \in 0..n |-> h[m]]
    OBVIOUS
  <2> HIDE DEF h
  <2> QED BY <1>5, <2>1 DEF Picks
<1> QED BY <1>1, <1>6

Elems(s) == {s[i] : i \in 1..Len(s)}

\* What a sequence holds once a value has been appended.
LEMMA AppendElems ==
    ASSUME NEW S, NEW s \in Seq(S), NEW x \in S
    PROVE  /\ Append(s, x) \in Seq(S) /\ Append(s, x) # <<>> /\ Len(Append(s, x)) = Len(s) + 1
           /\ Append(s, x)[Len(s) + 1] = x /\ \A i \in 1..Len(s) : Append(s, x)[i] = s[i]
           /\ Len(s) \in Nat /\ Elems(Append(s, x)) = Elems(s) \cup {x}
<1>1. /\ Append(s, x) \in Seq(S) /\ Append(s, x) # <<>> /\ Len(s) \in Nat
      /\ Len(Append(s, x)) = Len(s) + 1
  BY AppendProperties
<1>2. Append(s, x)[Len(s) + 1] = x /\ \A i \in 1..Len(s) : Append(s, x)[i] = s[i]
  OBVIOUS
<1>3. Elems(Append(s, x)) = Elems(s) \cup {x}
  BY <1>1, <1>2 DEF Elems
<1> QED BY <1>1, <1>2, <1>3

\* due_jobs takes and keeps what it should, and nothing else.
LEMMA PicksDue ==
    ASSUME NEW S, NEW s \in Seq(S), NEW due
    PROVE  Picked(s, due) \in Seq(S) /\ Elems(Picked(s, due)) = Upto(s, Len(s), due)
<1>0. Len(s) \in Nat
  OBVIOUS
<1>1. PICK g : Picks(s, Len(s), due, g) /\ Picked(s, due) = g[Len(s)]
  <2>1. Picked(s, due) = (CHOOSE g : Picks(s, Len(s), due, g))[Len(s)]
    BY DEF Picked, Picks
  <2> QED BY <1>0, <2>1, PicksExists
<1> DEFINE T == {n \in 0..Len(s) : ~(g[n] \in Seq(S) /\ Elems(g[n]) = Upto(s, n, due))}
<1>2. T = {}
  <2> SUFFICES ASSUME T # {} PROVE FALSE
    OBVIOUS
  <2>1. PICK n \in T : \A m \in T : n <= m
    <3>1. T \subseteq Nat
      BY DEF T
    <3> HIDE DEF T
    <3> QED BY <3>1, Least
  <2>2. \A m \in 0..Len(s) : g[m] = IF m = 0 THEN <<>>
                             ELSE IF Due(s[m]) <=> due THEN Append(g[m - 1], s[m]) ELSE g[m - 1]
    BY <1>1 DEF Picks
  <2>3. n # 0
    <3>1. g[0] = <<>> /\ <<>> \in Seq(S) /\ Elems(<<>>) = {}
      BY <2>2, EmptySeq DEF Elems
    <3>2. Upto(s, 0, due) = {}
      BY DEF Upto
    <3> QED BY <2>1, <3>1, <3>2
  <2>4. PICK p \in 0..Len(s) : n = p + 1
    <3>1. n - 1 \in 0..Len(s) /\ n = (n - 1) + 1
      BY <2>1, <2>3
    <3> QED BY <3>1
  <2>5. g[p] \in Seq(S) /\ Elems(g[p]) = Upto(s, p, due)
    BY <2>1, <2>4
  <2>6. n \in 1..Len(s) /\ s[n] \in S /\ n - 1 = p
    <3>1. n \in 0..Len(s)
      BY <2>1
    <3> QED BY <1>0, <2>3, <2>4, <3>1
  <2>7. CASE Due(s[n]) <=> due
    <3>1. g[n] = Append(g[p], s[n])
      <4>1. g[n] = IF n = 0 THEN <<>>
                   ELSE IF Due(s[n]) <=> due THEN Append(g[n - 1], s[n]) ELSE g[n - 1]
        BY <2>1, <2>2
      <4>2. g[n] = Append(g[n - 1], s[n])
        BY ONLY <2>3, <2>7, <4>1
      <4> QED BY <2>6, <4>2
    <3>2. {j \in 1..n : Due(s[j]) <=> due} = {j \in 1..p : Due(s[j]) <=> due} \cup {n}
      BY <2>4, <2>6, <2>7
    <3>3. Upto(s, n, due) = Upto(s, p, due) \cup {s[n]}
      BY <3>2 DEF Upto
    <3>4. g[n] \in Seq(S) /\ Elems(g[n]) = Upto(s, n, due)
      <4> HIDE DEF T
      <4> QED BY <2>5, <2>6, <3>1, <3>3, AppendElems
    <3> QED BY <2>1, <3>4
  <2>8. CASE ~(Due(s[n]) <=> due)
    <3>1. g[n] = g[p]
      BY <2>2, <2>6, <2>8
    <3>2. {j \in 1..n : Due(s[j]) <=> due} = {j \in 1..p : Due(s[j]) <=> due}
      BY <2>4, <2>6, <2>8
    <3> QED BY <2>1, <2>5, <3>1, <3>2 DEF Upto
  <2> QED BY <2>7, <2>8
<1>3. Len(s) \in 0..Len(s)
  BY <1>0
<1> QED BY <1>1, <1>2, <1>3

\* What lies next to a number in a set of numbers.
NextIn(S, h) == CHOOSE b \in S : h < b /\ \A c \in S : c > h => b <= c
PrevIn(S, h) == CHOOSE a \in S : a < h /\ \A c \in S : c < h => c <= a

\* The next one is the least of those above.
LEMMA NextIs ==
    ASSUME NEW n \in Nat, NEW S, S \subseteq 0..n, NEW h \in Nat, \E b \in S : h < b
    PROVE  /\ NextIn(S, h) \in S /\ h < NextIn(S, h)
           /\ \A c \in S : c > h => NextIn(S, h) <= c
           /\ \A b \in S : h < b /\ (\A c \in S : c > h => b <= c) => NextIn(S, h) = b
<1> DEFINE T == {c \in S : h < c}
<1>1. T \subseteq Nat /\ T # {}
  <2>1. \A c \in S : c \in Nat
    OBVIOUS
  <2> QED BY <2>1
<1>2. PICK b \in T : \A c \in T : b <= c
  <2> HIDE DEF T
  <2> QED BY <1>1, Least
<1>3. \E z \in S : h < z /\ \A c \in S : c > h => z <= c
  <2>1. b \in S /\ h < b /\ \A c \in S : c > h => c \in T
    BY <1>1, <1>2
  <2> QED BY <1>2, <2>1
<1>4. /\ NextIn(S, h) \in S /\ h < NextIn(S, h)
      /\ \A c \in S : c > h => NextIn(S, h) <= c
  <2> HIDE DEF T
  <2> QED BY <1>3, Zenon DEF NextIn
<1>5. ASSUME NEW z \in S, h < z, \A c \in S : c > h => z <= c PROVE NextIn(S, h) = z
  <2>1. PICK m \in 0..n : m = NextIn(S, h)
    BY <1>4
  <2>2. h < m /\ m \in S /\ z \in 0..n /\ m <= z
    BY <1>4, <1>5, <2>1
  <2>3. z <= m
    BY <1>5, <2>2
  <2> QED BY <2>1, <2>2, <2>3
<1> QED BY <1>4, <1>5

\* The one before is the greatest of those below.
LEMMA PrevIs ==
    ASSUME NEW n \in Nat, NEW S, S \subseteq 0..n, NEW h \in Nat, \E a \in S : a < h
    PROVE  /\ PrevIn(S, h) \in S /\ PrevIn(S, h) < h
           /\ \A c \in S : c < h => c <= PrevIn(S, h)
           /\ \A a \in S : a < h /\ (\A c \in S : c < h => c <= a) => PrevIn(S, h) = a
<1> DEFINE T == {c \in S : c < h}
<1>1. T \subseteq 0..n /\ T # {}
  OBVIOUS
<1>2. PICK a \in T : \A c \in T : c <= a
  <2> HIDE DEF T
  <2> QED BY <1>1, Greatest
<1>3. \E z \in S : z < h /\ \A c \in S : c < h => c <= z
  <2>1. a \in S /\ a < h /\ \A c \in S : c < h => c \in T
    BY <1>1, <1>2
  <2> QED BY <1>2, <2>1
<1>4. /\ PrevIn(S, h) \in S /\ PrevIn(S, h) < h
      /\ \A c \in S : c < h => c <= PrevIn(S, h)
  <2> HIDE DEF T
  <2> QED BY <1>3, Zenon DEF PrevIn
<1>5. ASSUME NEW z \in S, z < h, \A c \in S : c < h => c <= z PROVE PrevIn(S, h) = z
  <2>1. PICK m \in 0..n : m = PrevIn(S, h)
    BY <1>4
  <2>2. m < h /\ m \in S /\ z \in 0..n /\ z <= m
    BY <1>4, <1>5, <2>1
  <2>3. m <= z
    BY <1>5, <2>2
  <2> QED BY <2>1, <2>2, <2>3
<1> QED BY <1>4, <1>5

\* Multiplication by a positive number is monotone.
LEMMA Multiplied ==
    ASSUME NEW D \in Nat \ {0}, NEW x \in Int, NEW y \in Int, x <= y
    PROVE  D * x <= D * y
<1>1. PICK n \in Nat : y = x + n
  <2>1. y - x \in Nat /\ y = x + (y - x)
    OBVIOUS
  <2> QED BY <2>1
<1>2. D * (x + n) = D * x + D * n /\ D * n >= 0
  OBVIOUS
<1> QED BY <1>1, <1>2

\* A trade before another one is of no later day.
LEMMA DaysOrdered ==
    ASSUME NEW i \in Nat, NEW j \in Nat, i <= j
    PROVE  /\ PublishedAt(i) \in Int /\ PublishedAt(j) \in Int
           /\ PublishedAt(i) <= PublishedAt(j)
<1>1. PICK D \in Nat \ {0} : D = Day
  BY CollectorAssumption
<1>2. PublishLag \in Nat
  BY CollectorAssumption
<1>3. PICK q \in Int, r \in Int : /\ q = i \div D /\ i = D * q + r /\ 0 <= r /\ r < D
  <2>1. i = D * (i \div D) + (i % D) /\ i % D \in 0..(D - 1) /\ i \div D \in Int
    OBVIOUS
  <2> QED BY <2>1
<1>4. PICK p \in Int, s \in Int : /\ p = j \div D /\ j = D * p + s /\ 0 <= s /\ s < D
  <2>1. j = D * (j \div D) + (j % D) /\ j % D \in 0..(D - 1) /\ j \div D \in Int
    OBVIOUS
  <2> QED BY <2>1
<1>5. q <= p
  <2> SUFFICES ASSUME p + 1 <= q PROVE FALSE
    BY <1>3, <1>4
  <2>1. D * (p + 1) <= D * q /\ D * (p + 1) = D * p + D
    BY Multiplied
  <2> QED BY <1>3, <1>4, <2>1
<1>6. D * (q + 1) <= D * (p + 1)
  BY <1>5, Multiplied
<1>7. PublishedAt(i) = D * (q + 1) + PublishLag /\ PublishedAt(j) = D * (p + 1) + PublishLag
  BY <1>1, <1>3, <1>4 DEF PublishedAt
<1>8. D * (q + 1) \in Int /\ D * (p + 1) \in Int
  OBVIOUS
<1> QED BY <1>2, <1>6, <1>7, <1>8

StoredTyped == now \in Nat /\ stored \subseteq 0..now
\* What a gap is filled with lies in the gap, and with a trade all those before.
FilledTo(b, lo) ==
    /\ lo - 1 \in stored /\ lo \in 1..b /\ lo..b-1 \cap stored = {}
    /\ \A a \in stored : a < b => a < lo
    /\ Fetched(b) \subseteq lo..b-1
    /\ \A x \in Fetched(b) : Fetched(b) = lo..b-1 \/ Published(x)
    /\ \A x \in Fetched(b), i \in lo..b-1 : i <= x => i \in Fetched(b)

\* backfill_agg_gaps fills a gap from its start.
LEMMA FillsFrom ==
    ASSUME StoredTyped, NEW b \in stored, \E a \in stored : a < b
    PROVE  FilledTo(b, GapStart(b)) /\ GapStart(b) \in Nat
<1>1. now \in Nat /\ b \in 0..now /\ stored \subseteq 0..now
  BY DEF StoredTyped
<1> DEFINE T == {a \in stored : a < b}
<1>2. T \subseteq 0..now /\ T # {}
  BY <1>1
<1>3. Max(T) \in T /\ \A a \in T : a <= Max(T)
  <2> HIDE DEF T
  <2> QED BY <1>1, <1>2, Greatest
<1>4. PICK m \in 0..now : m = Max(T) /\ m \in stored /\ m < b
  BY <1>1, <1>3
<1>5. PICK lo \in 1..b : lo = GapStart(b) /\ lo = m + 1
  <2>1. GapStart(b) = m + 1
    BY <1>4 DEF GapStart
  <2> QED BY <1>1, <1>4, <2>1
<1>6. \A a \in stored : a < b => a < lo
  <2> SUFFICES ASSUME NEW a \in stored, a < b PROVE a < lo
    OBVIOUS
  <2>1. a \in T
    OBVIOUS
  <2>2. a <= m /\ a \in 0..now
    BY <1>1, <1>3, <1>4, <2>1
  <2> QED BY <1>4, <1>5, <2>2
<1>7. lo - 1 \in stored /\ lo..b-1 \cap stored = {}
  BY <1>1, <1>4, <1>5, <1>6
<1>8. Archived(lo, b) \subseteq lo..b-1
  BY DEF Archived
<1>9. ASSUME NEW x \in Archived(lo, b), NEW i \in lo..b-1, i <= x PROVE i \in Archived(lo, b)
  <2>1. x \in Nat /\ i \in Nat /\ Published(x)
    BY <1>1, <1>5, <1>9 DEF Archived
  <2>2. PublishedAt(i) <= PublishedAt(x) /\ PublishedAt(i) \in Int /\ PublishedAt(x) \in Int
    BY <1>9, <2>1, DaysOrdered
  <2>3. Published(i)
    BY <1>1, <2>1, <2>2 DEF Published, PublishedAt
  <2> QED BY <2>3 DEF Archived
<1>10. Fetched(b) = Archived(lo, b) \/ Fetched(b) = lo..b-1
  BY <1>5 DEF Fetched
<1>11. \A x \in Archived(lo, b) : Published(x)
  BY DEF Archived
<1>12. /\ Fetched(b) \subseteq lo..b-1
       /\ \A x \in Fetched(b) : Fetched(b) = lo..b-1 \/ Published(x)
       /\ \A x \in Fetched(b), i \in lo..b-1 : i <= x => i \in Fetched(b)
  BY <1>8, <1>9, <1>10, <1>11
<1> HIDE DEF T
<1> QED BY <1>1, <1>5, <1>6, <1>7, <1>12 DEF FilledTo

-----------------------------------------------------------------------------
(* Holes, and what fills them.                                             *)

\* What lies next to a hole.
LEMMA HoleHas ==
    ASSUME StoredTyped, NEW h \in Holes
    PROVE  /\ h \in Nat /\ h \notin stored
           /\ After(h) \in stored /\ After(h) \in 0..now /\ h < After(h)
           /\ \A c \in stored : c > h => After(h) <= c
           /\ Before(h) \in stored /\ Before(h) \in 0..now /\ Before(h) < h
           /\ \A c \in stored : c < h => c <= Before(h)
           /\ \A b \in stored : h < b /\ (\A c \in stored : c > h => b <= c) => After(h) = b
           /\ \A a \in stored : a < h /\ (\A c \in stored : c < h => c <= a) => Before(h) = a
<1>1. /\ h \in Nat /\ h \notin stored /\ now \in Nat /\ stored \subseteq 0..now
      /\ (\E a \in stored : a < h) /\ \E b \in stored : h < b
  BY DEF Holes, StoredTyped
<1>2. After(h) = NextIn(stored, h) /\ Before(h) = PrevIn(stored, h)
  BY DEF After, Before, NextIn, PrevIn
<1>3. /\ After(h) \in stored /\ h < After(h) /\ \A c \in stored : c > h => After(h) <= c
      /\ \A b \in stored : h < b /\ (\A c \in stored : c > h => b <= c) => After(h) = b
  <2>1. /\ NextIn(stored, h) \in stored /\ h < NextIn(stored, h)
        /\ \A c \in stored : c > h => NextIn(stored, h) <= c
        /\ \A b \in stored : h < b /\ (\A c \in stored : c > h => b <= c) => NextIn(stored, h) = b
    BY <1>1, NextIs
  <2> QED BY <1>2, <2>1
<1>4. /\ Before(h) \in stored /\ Before(h) < h /\ \A c \in stored : c < h => c <= Before(h)
      /\ \A a \in stored : a < h /\ (\A c \in stored : c < h => c <= a) => Before(h) = a
  <2>1. /\ PrevIn(stored, h) \in stored /\ PrevIn(stored, h) < h
        /\ \A c \in stored : c < h => c <= PrevIn(stored, h)
        /\ \A a \in stored : a < h /\ (\A c \in stored : c < h => c <= a) => PrevIn(stored, h) = a
    BY <1>1, PrevIs
  <2> QED BY <1>2, <2>1
<1> QED BY <1>1, <1>3, <1>4

\* The same after a step.
LEMMA HoleHasNext ==
    ASSUME StoredTyped', NEW h \in Holes'
    PROVE  /\ h \in Nat /\ h \notin stored'
           /\ After(h)' \in stored' /\ After(h)' \in 0..now' /\ h < After(h)'
           /\ \A c \in stored' : c > h => After(h)' <= c
           /\ Before(h)' \in stored' /\ Before(h)' \in 0..now' /\ Before(h)' < h
           /\ \A c \in stored' : c < h => c <= Before(h)'
           /\ \A b \in stored' : h < b /\ (\A c \in stored' : c > h => b <= c) => After(h)' = b
           /\ \A a \in stored' : a < h /\ (\A c \in stored' : c < h => c <= a) => Before(h)' = a
<1>1. /\ h \in Nat /\ h \notin stored' /\ now' \in Nat /\ stored' \subseteq 0..now'
      /\ (\E a \in stored' : a < h) /\ \E b \in stored' : h < b
  BY DEF Holes, StoredTyped
<1>2. After(h)' = NextIn(stored', h) /\ Before(h)' = PrevIn(stored', h)
  BY DEF After, Before, NextIn, PrevIn
<1>3. /\ After(h)' \in stored' /\ h < After(h)' /\ \A c \in stored' : c > h => After(h)' <= c
      /\ \A b \in stored' : h < b /\ (\A c \in stored' : c > h => b <= c) => After(h)' = b
  <2>1. /\ NextIn(stored', h) \in stored' /\ h < NextIn(stored', h)
        /\ \A c \in stored' : c > h => NextIn(stored', h) <= c
        /\ \A b \in stored' : h < b /\ (\A c \in stored' : c > h => b <= c) => NextIn(stored', h) = b
    BY <1>1, NextIs
  <2> QED BY <1>2, <2>1
<1>4. /\ Before(h)' \in stored' /\ Before(h)' < h /\ \A c \in stored' : c < h => c <= Before(h)'
      /\ \A a \in stored' : a < h /\ (\A c \in stored' : c < h => c <= a) => Before(h)' = a
  <2>1. /\ PrevIn(stored', h) \in stored' /\ PrevIn(stored', h) < h
        /\ \A c \in stored' : c < h => c <= PrevIn(stored', h)
        /\ \A a \in stored' : a < h /\ (\A c \in stored' : c < h => c <= a) => PrevIn(stored', h) = a
    BY <1>1, PrevIs
  <2> QED BY <1>2, <2>1
<1> QED BY <1>1, <1>3, <1>4

\* A job stores trades of gaps: no hole is new, the trade after a hole stays
\* the same, the trade before it stays or comes from the archive, and a hole
\* is filled if the trades fetched for its gap reach it.
LEMMA FilledHoles ==
    ASSUME StoredTyped, now' = now, NEW B \in SUBSET stored, \A b \in B : \E a \in stored : a < b,
           stored' = stored \cup UNION {Fetched(b) : b \in B}
    PROVE  /\ StoredTyped'
           /\ \A h \in Holes' : /\ h \in Holes /\ After(h)' = After(h)
                                /\ Before(h)' = Before(h) \/ Published(Before(h)')
                                /\ After(h) \in B => h \notin Fetched(After(h))
<1>1. now \in Nat /\ stored \subseteq 0..now
  BY DEF StoredTyped
<1>2. \A b \in B : FilledTo(b, GapStart(b)) /\ GapStart(b) \in Nat /\ b \in 0..now /\ b \in stored
  BY <1>1, FillsFrom
<1>3. \A x \in stored' : x \in stored \/ \E b \in B : x \in Fetched(b)
  OBVIOUS
<1>4. StoredTyped'
  <2> SUFFICES ASSUME NEW b \in B, NEW x \in Fetched(b) PROVE x \in 0..now
    BY <1>1, <1>3 DEF StoredTyped
  <2>1. GapStart(b) \in 1..b /\ Fetched(b) \subseteq GapStart(b)..b-1 /\ b \in 0..now
    BY <1>2 DEF FilledTo
  <2> QED BY <1>1, <2>1
<1>5. ASSUME NEW h \in Holes'
      PROVE  /\ h \in Holes /\ After(h)' = After(h)
             /\ Before(h)' = Before(h) \/ Published(Before(h)')
             /\ After(h) \in B => h \notin Fetched(After(h))
  <2>1. /\ h \in Nat /\ h \notin stored' /\ h \notin stored
        /\ \E a \in stored', b \in stored' : a < h /\ h < b
    BY DEF Holes
  <2>2. ASSUME NEW g \in B, NEW x \in Fetched(g)
        PROVE  LET lo == GapStart(g)
               IN  /\ lo \in Nat /\ lo - 1 \in stored /\ lo <= x /\ x < g /\ x \in Nat
                   /\ lo..g-1 \cap stored = {} /\ g \in stored /\ g \in Nat
                   /\ \A a \in stored : a < g => a < lo
                   /\ Fetched(g) = lo..g-1 \/ Published(x)
                   /\ \A i \in lo..g-1 : i <= x => i \in Fetched(g)
    BY <1>2 DEF FilledTo
  <2>3. h \in Holes
    <3>1. PICK a \in stored', b \in stored' : a < h /\ h < b
      BY <2>1
    <3>2. a \in Nat /\ b \in Nat
      BY <1>4, <3>1 DEF StoredTyped
    <3>3. \E z \in stored : z < h
      <4>1. ASSUME NEW g \in B, a \in Fetched(g) PROVE \E z \in stored : z < h
        <5>1. PICK lo \in Nat : lo = GapStart(g) /\ lo - 1 \in stored /\ lo <= a
          BY <2>2, <4>1
        <5>2. lo - 1 < h
          BY <2>1, <3>1, <3>2, <5>1
        <5> QED BY <5>1, <5>2
      <4> QED BY <1>3, <3>1, <4>1
    <3>4. \E z \in stored : h < z
      <4>1. ASSUME NEW g \in B, b \in Fetched(g) PROVE \E z \in stored : h < z
        <5>1. g \in stored /\ b < g /\ g \in Nat
          BY <2>2, <4>1
        <5>2. h < g
          BY <2>1, <3>1, <3>2, <5>1
        <5> QED BY <5>1, <5>2
      <4> QED BY <1>3, <3>1, <4>1
    <3>5. h \in 0..now
      BY <1>1, <2>1, <3>4
    <3> QED BY <2>1, <3>3, <3>4, <3>5 DEF Holes
  <2>4. PICK b \in stored : /\ b = After(h) /\ b \in 0..now /\ h < b
                            /\ \A c \in stored : c > h => b <= c
    BY <2>3, HoleHas
  \* The gap that a fetched trade on one side of the hole lies in.
  <2>5. ASSUME NEW g \in B, NEW x \in Fetched(g), h < x, x < b PROVE FALSE
    <3>1. PICK lo \in Nat : /\ lo = GapStart(g) /\ lo - 1 \in stored /\ lo <= x /\ x < g /\ x \in Nat
                            /\ g \in stored /\ g \in Nat
                            /\ \A i \in lo..g-1 : i <= x => i \in Fetched(g)
      BY <2>2
    <3>2. lo <= h
      <4>1. lo - 1 > h => b <= lo - 1
        BY <2>4, <3>1
      <4>2. lo - 1 # h
        BY <2>1, <3>1
      <4> QED BY <2>1, <2>4, <2>5, <3>1, <4>1, <4>2
    <3>3. h \in lo..g-1 /\ h <= x
      BY <2>1, <2>5, <3>1, <3>2
    <3>4. h \in Fetched(g)
      BY <3>1, <3>3
    <3> QED BY <2>1, <3>4
  <2>6. After(h)' = After(h)
    <3>1. b \in stored'
      BY <2>4
    <3>2. ASSUME NEW c \in stored', c > h PROVE b <= c
      <4>1. CASE c \in stored
        BY <2>4, <3>2, <4>1
      <4>2. ASSUME NEW g \in B, c \in Fetched(g) PROVE b <= c
        <5>1. c \in Nat
          BY <1>4, <3>2 DEF StoredTyped
        <5>2. ~(c < b)
          BY <2>1, <2>5, <3>2, <4>2
        <5> QED BY <2>4, <5>1, <5>2
      <4> QED BY <1>3, <3>2, <4>1, <4>2
    <3> QED BY <1>4, <2>4, <3>1, <3>2, HoleHasNext
  <2>7. Before(h)' = Before(h) \/ Published(Before(h)')
    <3>1. PICK p \in stored' : p = Before(h)' /\ p \in 0..now' /\ p < h /\ \A c \in stored' : c < h => c <= p
      BY <1>4, HoleHasNext
    <3>2. CASE p \in stored
      <4>1. \A c \in stored : c < h => c <= p
        BY <3>1
      <4> QED BY <2>3, <3>1, <3>2, <4>1, HoleHas
    <3>3. ASSUME NEW g \in B, p \in Fetched(g) PROVE Published(p)
      <4>1. PICK lo \in Nat : /\ lo = GapStart(g) /\ lo <= p /\ p < g
                              /\ g \in stored /\ g \in Nat /\ (Fetched(g) = lo..g-1 \/ Published(p))
        BY <2>2, <3>3
      <4>2. g > h
        <5>1. g # h /\ g \in stored'
          BY <2>1, <4>1
        <5>2. g < h => g <= p
          BY <3>1, <5>1
        <5> QED BY <2>1, <3>1, <4>1, <5>1, <5>2
      <4>3. h \in lo..g-1
        BY <2>1, <3>1, <4>1, <4>2
      <4>4. h \notin Fetched(g)
        BY <2>1
      <4> QED BY <4>1, <4>3, <4>4
    <3> QED BY <1>3, <3>1, <3>2, <3>3
  <2>8. After(h) \in B => h \notin Fetched(After(h))
    BY <2>1
  <2> QED BY <2>3, <2>6, <2>7, <2>8
<1> QED BY <1>4, <1>5

\* With the time one trade comes at most: the holes below the last trade stay
\* as they are, and the new ones lie right before the new trade.
LEMMA TickHoles ==
    ASSUME StoredTyped, now' = now + 1, stored' \in {stored, stored \cup {now'}}
    PROVE  /\ StoredTyped'
           /\ \A h \in Holes' : \/ h \in Holes /\ After(h)' = After(h) /\ Before(h)' = Before(h)
                                \/ After(h)' = now'
<1>1. now \in Nat /\ stored \subseteq 0..now
  BY DEF StoredTyped
<1>2. \A x \in stored : x \in Nat /\ x < now'
  BY <1>1
<1>3. StoredTyped'
  <2>1. now' \in Nat /\ now' \in 0..now' /\ 0..now \subseteq 0..now'
    BY <1>1
  <2> QED BY <1>1, <2>1 DEF StoredTyped
<1>4. ASSUME NEW h \in Holes', After(h)' # now'
      PROVE  h \in Holes /\ After(h)' = After(h) /\ Before(h)' = Before(h)
  <2>1. /\ h \in Nat /\ h \notin stored'
        /\ After(h)' \in stored' /\ After(h)' \in 0..now' /\ h < After(h)'
        /\ \A c \in stored' : c > h => After(h)' <= c
        /\ Before(h)' \in stored' /\ Before(h)' \in 0..now' /\ Before(h)' < h
        /\ \A c \in stored' : c < h => c <= Before(h)'
    BY <1>3, HoleHasNext
  <2>2. After(h)' \in stored /\ Before(h)' \in stored /\ h \notin stored
    BY <1>1, <1>4, <2>1
  <2>3. h \in Holes
    BY <1>1, <2>1, <2>2 DEF Holes
  <2>4. stored \subseteq stored'
    OBVIOUS
  <2> QED BY <2>1, <2>2, <2>3, <2>4, HoleHas
<1> QED BY <1>3, <1>4

-----------------------------------------------------------------------------
(* Types, and the clock of the backfiller.                                 *)

\* The longest time to the next sweep.
Mx == Max({SweepInterval, StartupDelay})

\* The backfiller comes in time, and a process that does not run has nothing.
Clock ==
    /\ up => \/ polled = None /\ jobs = <<>> /\ now = started
             \/ polled \in Nat /\ polled < nextSweep /\ now <= polled + JobTime
    /\ up => nextSweep <= now + Mx /\ (polled = None => nextSweep >= now)
    /\ ~up => jobs = <<>> /\ polled = None /\ resumed = NoOutage /\ conn = {}
    /\ \A i \in 1..Len(jobs) : jobs[i].to = polled

\* The constants.
LEMMA Sizes ==
    /\ AlertAfter \in Nat \ {0} /\ SweepInterval \in Nat \ {0} /\ MaxIds \in Nat \ {0} /\ JobTime \in Nat \ {0}
    /\ Settle \in Nat /\ Lead \in Nat /\ StartupDelay \in Nat /\ SweepWindow \in Nat /\ RestAge \in Nat
    /\ MaxTime \in Nat /\ MaxFaults \in Nat
    /\ Mx \in Nat /\ SweepInterval <= Mx /\ StartupDelay <= Mx
<1>1. /\ AlertAfter \in Nat \ {0} /\ SweepInterval \in Nat \ {0} /\ MaxIds \in Nat \ {0} /\ JobTime \in Nat \ {0}
      /\ Settle \in Nat /\ Lead \in Nat /\ StartupDelay \in Nat /\ SweepWindow \in Nat /\ RestAge \in Nat
      /\ MaxTime \in Nat /\ MaxFaults \in Nat
  BY CollectorAssumption
<1>2. PICK a \in Nat, b \in Nat : a = SweepInterval /\ b = StartupDelay
  BY <1>1
<1>3. Max({a, b}) \in {a, b} /\ a <= Max({a, b}) /\ b <= Max({a, b})
  BY <1>2, MaxTwo
<1>4. Mx \in Nat /\ SweepInterval <= Mx /\ StartupDelay <= Mx
  BY <1>2, <1>3 DEF Mx
<1> QED BY <1>1, <1>4

\* A sequence over a set is one over a larger set.
LEMMA SeqWider ==
    ASSUME NEW S, NEW T, S \subseteq T
    PROVE  Seq(S) \subseteq Seq(T)
<1> SUFFICES ASSUME NEW s \in Seq(S) PROVE s \in Seq(T)
  OBVIOUS
<1>1. Len(s) \in Nat /\ s = [i \in 1..Len(s) |-> s[i]] /\ \A i \in 1..Len(s) : s[i] \in T
  OBVIOUS
<1> QED BY <1>1, SMT

Pendings(n) == [from : Span, due : 0..n + Settle]
Jobs(p) == [from : Int, to : 0..p]

\* The numbers of a state.
LEMMA Numbers ==
    ASSUME TypeOK
    PROVE  /\ now \in Nat /\ now <= MaxTime /\ StoredTyped /\ started \in 0..now
           /\ polled \in -1..now /\ failedAt \in -1..now /\ nextSweep \in Nat
           /\ lastDepth \in Span \cup {None} /\ lastBook \in Span \cup {None}
           /\ pending \in Seq(Pendings(now)) /\ jobs \in Seq(Jobs(polled))
           /\ outages \in Seq(Outage) /\ resumed \in Outage \cup {NoOutage}
<1>1. now \in Nat /\ now <= MaxTime
  BY Sizes DEF TypeOK, Span
<1>2. nextSweep \in Nat
  BY <1>1, Sizes DEF TypeOK
<1> QED BY <1>1, <1>2 DEF TypeOK, StoredTyped, Pendings, Jobs

\* The book, and the outages it shows.
LEMMA DepthTyped ==
    ASSUME TypeOK, now' = now + 1, now < MaxTime,
           \/ ReceiveDepth
           \/ UNCHANGED <<lastDepth, lastBook, outages, pending, resumed>>
    PROVE  /\ {lastBook', lastDepth'} \subseteq Span \cup {None}
           /\ outages' \in Seq(Outage) /\ resumed' \in Outage \cup {NoOutage}
           /\ pending' \in Seq(Pendings(now'))
<1>1. /\ now \in Nat /\ now' \in Span /\ lastDepth \in Span \cup {None} /\ lastBook \in Span \cup {None}
      /\ pending \in Seq(Pendings(now)) /\ outages \in Seq(Outage) /\ resumed \in Outage \cup {NoOutage}
  <2>1. now \in Nat /\ now < MaxTime
    BY Numbers
  <2>2. MaxTime \in Nat
    BY Sizes
  <2>3. now' \in Span
    BY <2>1, <2>2 DEF Span
  <2> QED BY <2>3, Numbers
<1>2. pending \in Seq(Pendings(now'))
  <2>1. Pendings(now) \subseteq Pendings(now')
    BY <1>1, Sizes DEF Pendings
  <2> QED BY <1>1, <2>1, SeqWider
<1>3. CASE UNCHANGED <<lastDepth, lastBook, outages, pending, resumed>>
  BY <1>1, <1>2, <1>3
<1>4. CASE ReceiveDepth /\ ~Broke
  <2>1. lastDepth' = now' /\ lastBook' = now' /\ UNCHANGED <<outages, pending, resumed>>
    BY <1>4 DEF ReceiveDepth
  <2> QED BY <1>1, <1>2, <2>1
<1>5. CASE ReceiveDepth /\ Broke
  <2>1. /\ lastDepth' = now' /\ lastBook' = now'
        /\ outages' = Append(outages, [from |-> lastDepth, to |-> now'])
        /\ pending' = Append(pending, [from |-> lastDepth, due |-> now' + Settle])
        /\ resumed' = [from |-> lastDepth, to |-> now']
    BY <1>5 DEF ReceiveDepth
  <2>2. lastDepth \in Span
    BY <1>1, <1>5 DEF Broke
  <2>3. [from |-> lastDepth, to |-> now'] \in Outage
    BY <1>1, <2>2 DEF Outage
  <2>4. [from |-> lastDepth, due |-> now' + Settle] \in Pendings(now')
    <3>1. now' + Settle \in 0..now' + Settle
      BY <1>1, Sizes DEF Span
    <3> QED BY <2>2, <3>1 DEF Pendings
  <2>5. outages' \in Seq(Outage)
    BY <1>1, <2>1, <2>3, AppendElems
  <2>6. pending' \in Seq(Pendings(now'))
    BY <1>2, <2>1, <2>4, AppendElems
  <2> QED BY <1>1, <2>1, <2>3, <2>5, <2>6
<1> QED BY <1>3, <1>4, <1>5

\* Time passes.
LEMMA TickTyped ==
    ASSUME TypeOK, Clock, Tick
    PROVE  TypeOK' /\ Clock'
<1>1. /\ now < MaxTime /\ (up => Prompt) /\ now' = now + 1 /\ checked' = FALSE
      /\ stored' = stored \cup (IF "trade" \in conn THEN {now'} ELSE {})
      /\ UNCHANGED <<up, conn, jobs, nextSweep, polled, alerted, told, started, known, failedAt, faults>>
      /\ \/ "depth" \in conn /\ ReceiveDepth
         \/ UNCHANGED <<lastDepth, lastBook, outages, pending, resumed>>
  BY DEF Tick, process
<1>2. /\ now \in Nat /\ now \in 0..MaxTime /\ stored \subseteq 0..now /\ started \in 0..now
      /\ polled \in -1..now /\ failedAt \in -1..now /\ nextSweep \in Nat /\ jobs \in Seq(Jobs(polled))
  BY Numbers, Sizes DEF StoredTyped
<1>3. /\ {lastBook', lastDepth'} \subseteq Span \cup {None}
      /\ outages' \in Seq(Outage) /\ resumed' \in Outage \cup {NoOutage}
      /\ pending' \in Seq(Pendings(now'))
  BY <1>1, DepthTyped
<1>4. /\ now' \in Span /\ stored' \subseteq 0..now' /\ started' \in 0..now'
      /\ polled' \in -1..now' /\ failedAt' \in -1..now'
  <2>1. now' \in 0..MaxTime /\ now' \in 0..now' /\ 0..now \subseteq 0..now' /\ -1..now \subseteq -1..now'
    BY <1>1, <1>2, Sizes
  <2> QED BY <1>1, <1>2, <2>1 DEF Span
<1>5. nextSweep' \in 0..now' + SweepInterval + StartupDelay
  <2>1. nextSweep \in 0..now + SweepInterval + StartupDelay
    BY DEF TypeOK
  <2> QED BY <1>1, <1>2, <2>1, Sizes
<1>6. TypeOK'
  BY <1>1, <1>2, <1>3, <1>4, <1>5 DEF TypeOK, Pendings, Jobs
<1>7. Clock'
  <2>1. ASSUME up PROVE /\ polled' \in Nat /\ polled' < nextSweep' /\ now' <= polled' + JobTime
                        /\ nextSweep' <= now' + Mx
    <3>1. polled \in Nat /\ polled < nextSweep /\ nextSweep <= now + Mx
      BY <1>1, <1>2, <2>1 DEF Clock, Prompt, None
    <3>2. jobs = <<>> => polled = now
      BY <1>1, <2>1 DEF Prompt
    <3>3. jobs # <<>> => now < polled + JobTime
      BY <1>1, <2>1 DEF Prompt
    <3>4. JobTime \in Nat \ {0} /\ Mx \in Nat
      BY Sizes
    <3>5. now + 1 <= polled + JobTime
      BY <1>2, <3>1, <3>2, <3>3, <3>4
    <3>6. nextSweep <= now + 1 + Mx
      BY <1>2, <3>1, <3>4
    <3> QED BY <1>1, <3>1, <3>5, <3>6
  <2>2. ~up => conn = {} /\ resumed' = resumed
    BY <1>1 DEF Clock
  <2> QED BY <1>1, <1>2, <2>1, <2>2 DEF Clock, None
<1> QED BY <1>6, <1>7

\* The jobs of a poll.
LEMMA WindowsAre ==
    ASSUME TypeOK, NEW ps \in Seq(Pendings(now))
    PROVE  /\ Windows(ps) \in Seq(Jobs(now)) /\ Len(Windows(ps)) = Len(ps)
           /\ \A i \in 1..Len(ps) : Windows(ps)[i] = [from |-> ps[i].from - Lead, to |-> now]
<1>1. now \in Nat /\ now \in 0..now /\ Lead \in Nat /\ Len(ps) \in Nat
  <2>1. now \in Nat
    BY Numbers
  <2>2. Lead \in Nat
    BY Sizes
  <2>3. Len(ps) \in Nat
    OBVIOUS
  <2> QED BY <2>1, <2>2, <2>3
<1>2. ASSUME NEW i \in 1..Len(ps) PROVE [from |-> ps[i].from - Lead, to |-> now] \in Jobs(now)
  <2>1. ps[i] \in Pendings(now)
    OBVIOUS
  <2>2. ps[i].from \in Int
    BY <2>1, Sizes DEF Pendings, Span
  <2> QED BY <1>1, <2>2 DEF Jobs
<1>3. PICK W : W = [i \in 1..Len(ps) |-> [from |-> ps[i].from - Lead, to |-> now]]
  OBVIOUS
<1>4. W \in [1..Len(ps) -> Jobs(now)]
  BY <1>2, <1>3
<1>5. W \in Seq(Jobs(now)) /\ Len(W) = Len(ps)
  BY <1>1, <1>4, LenProperties
<1> QED BY <1>3, <1>5 DEF Windows

\* A poll: the jobs are those that are due, with a sweep last if there is one.
PollOf(D) ==
    /\ up /\ jobs = <<>> /\ polled # now /\ polled' = now
    /\ D \in Seq(Jobs(now)) /\ (\A i \in 1..Len(D) : D[i].to = now)
    /\ pending' \in Seq(Pendings(now))
    /\ \/ /\ now >= nextSweep /\ nextSweep' = now + SweepInterval
          /\ jobs' = Append(D, [from |-> now - SweepWindow, to |-> now])
       \/ now < nextSweep /\ nextSweep' = nextSweep /\ jobs' = D

\* What comes of a poll.
LEMMA PollJobs ==
    ASSUME TypeOK, Poll
    PROVE  \E D : /\ PollOf(D)
                  /\ \A p \in Elems(pending) : Due(p) =>
                        \E i \in 1..Len(D) : D[i] = [from |-> p.from - Lead, to |-> now]
                  /\ \A p \in Elems(pending) : ~Due(p) => p \in Elems(pending')
<1>1. pending \in Seq(Pendings(now)) /\ now \in Nat /\ nextSweep \in Nat
  BY Numbers
<1>2. PICK ps \in Seq(Pendings(now)) : ps = Picked(pending, TRUE)
  BY <1>1, PicksDue
<1>3. PICK D : D = Windows(ps)
  OBVIOUS
<1>4. /\ D \in Seq(Jobs(now)) /\ Len(D) = Len(ps)
      /\ \A i \in 1..Len(ps) : D[i] = [from |-> ps[i].from - Lead, to |-> now]
  BY <1>2, <1>3, WindowsAre
<1>5. /\ Picked(pending, FALSE) \in Seq(Pendings(now))
      /\ Elems(Picked(pending, FALSE)) = Upto(pending, Len(pending), FALSE)
      /\ Elems(ps) = Upto(pending, Len(pending), TRUE)
  BY <1>1, <1>2, PicksDue
<1>6. PollOf(D)
  <2>1. pending' = Picked(pending, FALSE)
    BY DEF Poll, KeepPending
  <2>2. D = Windows(Picked(pending, TRUE))
    BY <1>2, <1>3
  <2>3. \A i \in 1..Len(D) : D[i].to = now
    <3>1. \A i \in 1..Len(D) : D[i] = [from |-> ps[i].from - Lead, to |-> now]
      BY <1>4
    <3>2. ASSUME NEW i \in 1..Len(D) PROVE D[i].to = now
      <4>1. D[i] = [from |-> ps[i].from - Lead, to |-> now]
        BY <3>1
      <4> QED BY <4>1
    <3> QED BY <3>2
  <2>4. /\ up /\ jobs = <<>> /\ polled # now /\ polled' = now /\ pending' = KeepPending
        /\ \/ /\ now >= nextSweep /\ nextSweep' = now + SweepInterval
              /\ jobs' = Append(D, [from |-> now - SweepWindow, to |-> now])
           \/ ~(now >= nextSweep) /\ nextSweep' = nextSweep /\ jobs' = D
    BY <2>2 DEF Poll
  <2>5. ~(now >= nextSweep) => now < nextSweep
    BY <1>1
  <2>6. pending' \in Seq(Pendings(now))
    BY <1>5, <2>1
  <2> QED BY <1>4, <2>3, <2>4, <2>5, <2>6 DEF PollOf
<1>7. ASSUME NEW p \in Elems(pending), Due(p)
      PROVE  \E i \in 1..Len(D) : D[i] = [from |-> p.from - Lead, to |-> now]
  <2>1. PICK j \in 1..Len(pending) : p = pending[j]
    BY <1>7 DEF Elems
  <2>2. j \in {k \in 1..Len(pending) : Due(pending[k]) <=> TRUE}
    BY <1>7, <2>1
  <2>3. p \in Elems(ps)
    BY <1>5, <2>1, <2>2 DEF Upto
  <2>4. PICK i \in 1..Len(ps) : p = ps[i]
    BY <2>3 DEF Elems
  <2> QED BY <1>4, <2>4
<1>8. ASSUME NEW p \in Elems(pending), ~Due(p) PROVE p \in Elems(pending')
  <2>1. PICK j \in 1..Len(pending) : p = pending[j]
    BY <1>8 DEF Elems
  <2>2. j \in {k \in 1..Len(pending) : Due(pending[k]) <=> FALSE}
    BY <1>8, <2>1
  <2>3. p \in Elems(Picked(pending, FALSE))
    BY <1>5, <2>1, <2>2 DEF Upto
  <2> QED BY <2>3 DEF Poll, KeepPending
<1> QED BY <1>6, <1>7, <1>8

\* Types and the clock, over a poll.
LEMMA PollTyped ==
    ASSUME TypeOK, Clock, Poll
    PROVE  TypeOK' /\ Clock'
<1>1. PICK D : PollOf(D)
  BY PollJobs
<1>2. UNCHANGED <<now, up, stored, lastBook, conn, lastDepth, outages, alerted, told, checked,
                  started, known, resumed, failedAt, faults>>
  BY DEF Poll, collector, monitor, process
<1>3. /\ now \in Nat /\ nextSweep \in Nat /\ D \in Seq(Jobs(now)) /\ polled' = now /\ jobs = <<>>
      /\ pending' \in Seq(Pendings(now)) /\ started \in 0..now /\ up
  BY <1>1, Numbers DEF PollOf
<1>4. jobs' \in Seq(Jobs(now))
  <2>1. [from |-> now - SweepWindow, to |-> now] \in Jobs(now)
    BY <1>3, Sizes DEF Jobs
  <2> QED BY <1>1, <1>3, <2>1, AppendElems DEF PollOf
<1>5. nextSweep' \in 0..now + SweepInterval + StartupDelay
  <2>1. nextSweep \in 0..now + SweepInterval + StartupDelay
    BY DEF TypeOK
  <2>2. nextSweep' = nextSweep \/ nextSweep' = now + SweepInterval
    BY <1>1 DEF PollOf
  <2> QED BY <1>3, <2>1, <2>2, Sizes
<1>6. TypeOK'
  <2>1. now' \in Span /\ polled' \in -1..now'
    BY <1>2, <1>3 DEF TypeOK
  <2>2. /\ pending' \in Seq([from : Span, due : 0..now' + Settle])
        /\ jobs' \in Seq([from : Int, to : 0..polled'])
        /\ nextSweep' \in 0..now' + SweepInterval + StartupDelay
    BY <1>2, <1>3, <1>4, <1>5 DEF Pendings, Jobs
  <2> QED BY <1>2, <2>1, <2>2 DEF TypeOK
<1>7. \A i \in 1..Len(jobs') : jobs'[i].to = now
  <2>1. (\A i \in 1..Len(D) : D[i].to = now) /\ Len(D) \in Nat
    BY <1>1 DEF PollOf
  <2>2. CASE jobs' = D
    BY <2>1, <2>2
  <2>3. CASE jobs' = Append(D, [from |-> now - SweepWindow, to |-> now])
    <3>1. [from |-> now - SweepWindow, to |-> now] \in Jobs(now)
      BY <1>3, Sizes DEF Jobs
    <3>2. PICK J : J = Append(D, [from |-> now - SweepWindow, to |-> now])
      OBVIOUS
    <3>3. /\ Len(J) = Len(D) + 1 /\ J[Len(D) + 1] = [from |-> now - SweepWindow, to |-> now]
          /\ \A i \in 1..Len(D) : J[i] = D[i]
      BY <1>3, <3>1, <3>2, AppendElems
    <3>4. \A i \in 1..Len(J) : J[i].to = now
      BY <2>1, <3>3
    <3> QED BY <2>3, <3>2, <3>4
  <2> QED BY <1>1, <2>2, <2>3 DEF PollOf
<1>8. Clock'
  <2>1. now < nextSweep'
    BY <1>1, <1>3, Sizes DEF PollOf
  <2>2. nextSweep' <= now + Mx
    <3>1. nextSweep <= now + Mx
      BY <1>3 DEF Clock
    <3>2. nextSweep' = nextSweep \/ nextSweep' = now + SweepInterval
      BY <1>1 DEF PollOf
    <3> QED BY <1>3, <3>1, <3>2, Sizes
  <2>3. JobTime \in Nat /\ now <= now + JobTime
    BY <1>3, Sizes
  <2> QED BY <1>2, <1>3, <1>7, <2>1, <2>2, <2>3 DEF Clock, None
<1> QED BY <1>6, <1>8

\* What is left of a sequence after its first element.
LEMMA TailOf ==
    ASSUME NEW S, NEW s \in Seq(S), s # <<>>
    PROVE  /\ Len(s) \in Nat \ {0} /\ Head(s) = s[1] /\ Head(s) \in S
           /\ Tail(s) \in Seq(S) /\ Len(Tail(s)) = Len(s) - 1
           /\ \A i \in 1..Len(s) - 1 : Tail(s)[i] = s[i + 1]
<1>1. Len(s) \in Nat \ {0} /\ Head(s) = s[1] /\ Head(s) \in S
  OBVIOUS
<1>2. Tail(s) \in Seq(S) /\ Len(Tail(s)) = Len(s) - 1
  OBVIOUS
<1>3. \A i \in 1..Len(s) - 1 : Tail(s)[i] = s[i + 1]
  BY <1>1
<1> QED BY <1>1, <1>2, <1>3

\* The end of a job that filled the gaps that end in B.
JobDone(B) ==
    /\ up /\ jobs # <<>> /\ jobs' = Tail(jobs)
    /\ B \in SUBSET stored /\ \A b \in B : \E a \in stored : a < b
    /\ stored' = stored \cup UNION {Fetched(b) : b \in B}
    /\ UNCHANGED <<now, up, lastBook, conn, lastDepth, outages, pending, nextSweep, polled,
                   alerted, told, checked, started, known, resumed>>
    /\ faults' \in 0..MaxFaults
    /\ \/ failedAt' = now
       \/ failedAt' = failedAt /\ B = GapEnds(Head(jobs).from, Head(jobs).to)

\* A job fills all the gaps of its window, or fails at one of them.
LEMMA JobIs ==
    ASSUME TypeOK, RunJob \/ FailJob
    PROVE  \E B : JobDone(B)
<1> DEFINE G == GapEnds(Head(jobs).from, Head(jobs).to)
<1>1. G \in SUBSET stored /\ \A b \in G : \E a \in stored : a < b
  BY DEF GapEnds, GapEndsInside
<1>2. faults \in 0..MaxFaults /\ MaxFaults \in Nat
  BY Sizes DEF TypeOK
<1>3. CASE RunJob
  <2>1. JobDone(G)
    <3>1. /\ up /\ jobs # <<>> /\ jobs' = Tail(jobs)
          /\ stored' = stored \cup UNION {Fetched(b) : b \in G}
          /\ UNCHANGED <<now, up, lastBook, conn, lastDepth, outages, pending, nextSweep, polled,
                         alerted, told, checked, started, known, resumed, failedAt, faults>>
      BY <1>3 DEF RunJob, collector, monitor, process
    <3> QED BY <1>1, <1>2, <3>1 DEF JobDone
  <2> QED BY <2>1
<1>4. CASE FailJob
  <2>1. PICK k \in G \cup {0} :
            stored' = stored \cup UNION {Fetched(b) : b \in {g \in G : g < k}}
    BY <1>4 DEF FailJob
  <2>2. PICK B : B = {g \in G : g < k}
    OBVIOUS
  <2>3. /\ up /\ jobs # <<>> /\ jobs' = Tail(jobs) /\ failedAt' = now
        /\ faults < MaxFaults /\ faults' = faults + 1
        /\ UNCHANGED <<now, up, lastBook, conn, lastDepth, outages, pending, nextSweep, polled,
                       alerted, told, checked, started, known, resumed>>
    BY <1>4 DEF FailJob, collector, monitor, process
  <2>4. faults' \in 0..MaxFaults
    BY <1>2, <2>3
  <2>5. B \in SUBSET stored /\ \A b \in B : \E a \in stored : a < b
    BY <1>1, <2>2
  <2>6. stored' = stored \cup UNION {Fetched(b) : b \in B}
    BY <2>1, <2>2
  <2>7. JobDone(B)
    BY <2>3, <2>4, <2>5, <2>6 DEF JobDone
  <2> QED BY <2>7
<1> QED BY <1>3, <1>4

\* Types and the clock, over a job.
LEMMA JobTyped ==
    ASSUME TypeOK, Clock, RunJob \/ FailJob
    PROVE  TypeOK' /\ Clock'
<1>1. PICK B : JobDone(B)
  BY JobIs
<1>2. /\ up /\ jobs # <<>> /\ jobs' = Tail(jobs)
      /\ UNCHANGED <<now, up, lastBook, conn, lastDepth, outages, pending, nextSweep, polled,
                     alerted, told, checked, started, known, resumed>>
      /\ faults' \in 0..MaxFaults /\ failedAt' \in {failedAt, now}
  BY <1>1 DEF JobDone
<1>3. /\ now \in Nat /\ jobs \in Seq(Jobs(polled)) /\ StoredTyped /\ failedAt \in -1..now
      /\ nextSweep \in Nat /\ polled \in -1..now
  BY Numbers
<1>4. stored' \subseteq 0..now
  <2>1. StoredTyped'
    BY <1>1, <1>2, <1>3, FilledHoles DEF JobDone
  <2> QED BY <1>2, <2>1 DEF StoredTyped
<1>5. failedAt' \in -1..now
  BY <1>2, <1>3
<1>6. /\ jobs' \in Seq(Jobs(polled)) /\ Len(jobs) \in Nat \ {0} /\ Len(jobs') = Len(jobs) - 1
      /\ \A i \in 1..Len(jobs) - 1 : jobs'[i] = jobs[i + 1]
  BY <1>2, <1>3, TailOf
<1>7. TypeOK'
  BY <1>2, <1>4, <1>5, <1>6 DEF TypeOK, Jobs
<1>8. Clock'
  <2>1. \A i \in 1..Len(jobs) : jobs[i].to = polled
    BY DEF Clock
  <2>2. \A i \in 1..Len(jobs') : jobs'[i].to = polled
    BY <1>6, <2>1
  <2>3. polled \in Nat /\ polled < nextSweep /\ now <= polled + JobTime
    BY <1>2 DEF Clock
  <2> QED BY <1>2, <1>3, <2>2, <2>3 DEF Clock
<1> QED BY <1>7, <1>8

\* Types and the clock, over a crash.
LEMMA CrashTyped ==
    ASSUME TypeOK, Clock, Crash
    PROVE  TypeOK' /\ Clock'
<1>1. /\ up' = FALSE /\ faults < MaxFaults /\ faults' = faults + 1 /\ stored' \subseteq stored
      /\ conn' = {} /\ lastDepth' = None /\ outages' = <<>> /\ pending' = <<>> /\ jobs' = <<>>
      /\ alerted' = FALSE /\ told' = "nothing" /\ checked' = FALSE
      /\ resumed' = NoOutage /\ nextSweep' = 0 /\ polled' = None
      /\ UNCHANGED <<now, lastBook, started, known, failedAt>>
  BY DEF Crash, process
<1>2. now \in Nat /\ SweepInterval \in Nat /\ StartupDelay \in Nat
  <2>1. now \in Nat
    BY Numbers
  <2> QED BY <2>1, Sizes
<1>3. faults \in 0..MaxFaults /\ MaxFaults \in Nat
  BY Sizes DEF TypeOK
<1>4. faults' \in 0..MaxFaults /\ nextSweep' \in 0..now' + SweepInterval + StartupDelay /\ polled' \in -1..now'
  BY <1>1, <1>2, <1>3 DEF None
<1>5. /\ outages' \in Seq(Outage) /\ pending' \in Seq([from : Span, due : 0..now' + Settle])
      /\ jobs' \in Seq([from : Int, to : 0..polled'])
  BY <1>1
<1>6. TypeOK'
  BY <1>1, <1>4, <1>5 DEF TypeOK
<1>7. Clock'
  <2>1. Len(jobs') = 0
    BY <1>1
  <2> QED BY <1>1, <2>1 DEF Clock
<1> QED BY <1>6, <1>7

\* Types and the clock, over a start.
LEMMA StartTyped ==
    ASSUME TypeOK, Clock, Start
    PROVE  TypeOK' /\ Clock'
<1>1. /\ ~up /\ up' = TRUE /\ started' = now /\ lastDepth' = lastBook /\ known' = (lastBook # None)
      /\ nextSweep' = now + StartupDelay
      /\ UNCHANGED <<now, stored, lastBook, conn, outages, pending, jobs, polled, alerted, told, checked,
                     resumed, failedAt, faults>>
  BY DEF Start, monitor
<1>2. now \in Nat /\ SweepInterval \in Nat /\ StartupDelay \in Nat /\ Mx \in Nat /\ StartupDelay <= Mx
  <2>1. now \in Nat
    BY Numbers
  <2> QED BY <2>1, Sizes
<1>3. jobs = <<>> /\ polled = None
  BY <1>1 DEF Clock
<1>4. nextSweep' \in 0..now + SweepInterval + StartupDelay /\ now \in 0..now
      /\ nextSweep' <= now + Mx /\ nextSweep' >= now
  BY <1>1, <1>2
<1>5. TypeOK'
  BY <1>1, <1>4 DEF TypeOK
<1>6. Clock'
  <2>1. Len(jobs') = 0
    BY <1>1, <1>3
  <2> QED BY <1>1, <1>3, <1>4, <2>1 DEF Clock
<1> QED BY <1>5, <1>6

\* Types and the clock, over a connection made or lost and a check.
LEMMA OtherTyped ==
    ASSUME TypeOK, Clock, Check \/ \E s \in {"depth", "trade"} : Connect(s) \/ Disconnect(s)
    PROVE  TypeOK' /\ Clock'
<1>1. CASE Check
  <2>1. /\ up /\ checked' = TRUE /\ outages' = <<>> /\ alerted' \in BOOLEAN
        /\ told' \in {"broken", "restored", told}
        /\ UNCHANGED <<now, up, stored, lastBook, conn, lastDepth, pending, jobs, nextSweep, polled,
                       started, known, resumed, failedAt, faults>>
    BY <1>1 DEF Check, backfiller, process
  <2>2. outages' \in Seq(Outage)
    BY <2>1
  <2>3. TypeOK'
    BY <2>1, <2>2 DEF TypeOK
  <2>4. Clock'
    BY <2>1 DEF Clock
  <2> QED BY <2>3, <2>4
<1>2. CASE \E s \in {"depth", "trade"} : Connect(s) \/ Disconnect(s)
  <2>1. /\ conn' \subseteq {"depth", "trade"} /\ (~up => conn' = {}) /\ faults' \in 0..MaxFaults
        /\ UNCHANGED <<now, up, stored, lastBook, lastDepth, outages, pending, jobs, nextSweep, polled,
                       alerted, told, checked, started, known, resumed, failedAt>>
    <3>1. PICK s \in {"depth", "trade"} : Connect(s) \/ Disconnect(s)
      BY <1>2
    <3>2. faults \in 0..MaxFaults /\ MaxFaults \in Nat /\ conn \subseteq {"depth", "trade"}
      BY Sizes DEF TypeOK
    <3>3. ~up => conn = {}
      BY DEF Clock
    <3>4. CASE Connect(s)
      BY <3>1, <3>2, <3>3, <3>4 DEF Connect, backfiller, monitor, process
    <3>5. CASE Disconnect(s)
      BY <3>1, <3>2, <3>3, <3>5 DEF Disconnect, backfiller, monitor, process
    <3> QED BY <3>1, <3>4, <3>5
  <2>2. TypeOK'
    BY <2>1 DEF TypeOK
  <2>3. Clock'
    BY <2>1 DEF Clock
  <2> QED BY <2>2, <2>3
<1> QED BY <1>1, <1>2

Timed == TypeOK /\ Clock

\* At the start nothing has happened.
LEMMA InitTyped ==
    Init => Timed
<1> SUFFICES ASSUME Init PROVE Timed
  OBVIOUS
<1>1. /\ Settle \in Nat /\ SweepInterval \in Nat /\ StartupDelay \in Nat
      /\ MaxTime \in Nat /\ MaxFaults \in Nat
  BY Sizes
<1>2. /\ now = 0 /\ up = FALSE /\ conn = {} /\ stored \in {{}, {0}} /\ lastBook \in {None, 0}
      /\ lastDepth = None /\ outages = <<>> /\ resumed = NoOutage
      /\ pending = <<>> /\ jobs = <<>> /\ nextSweep = 0 /\ polled = None
      /\ started = 0 /\ known = FALSE /\ alerted = FALSE /\ told = "nothing" /\ checked = FALSE
      /\ failedAt = None /\ faults = 0
  BY DEF Init
<1>3. 0 \in Span /\ 0 \in 0..0 /\ 0 \in 0..MaxFaults /\ 0 \in 0..0 + SweepInterval + StartupDelay /\ -1 \in -1..0
  BY <1>1 DEF Span
<1>4. /\ outages \in Seq(Outage) /\ pending \in Seq([from : Span, due : 0..now + Settle])
      /\ jobs \in Seq([from : Int, to : 0..polled]) /\ Len(jobs) = 0
  BY <1>2
<1>5. TypeOK
  BY <1>2, <1>3, <1>4 DEF TypeOK, None
<1>6. Clock
  BY <1>2, <1>4 DEF Clock
<1> QED BY <1>5, <1>6 DEF Timed

\* A step is of one of these kinds.
LEMMA Steps ==
    ASSUME [Next]_vars
    PROVE  \/ Tick \/ Poll \/ RunJob \/ FailJob \/ Crash \/ Start \/ Check
           \/ \E s \in {"depth", "trade"} : Connect(s) \/ Disconnect(s)
           \/ UNCHANGED <<now, up, stored, lastBook, conn, lastDepth, outages, pending, jobs, nextSweep,
                          polled, alerted, told, checked, started, known, resumed, failedAt, faults>>
<1>1. CASE Next
  BY <1>1 DEF Next
<1>2. CASE UNCHANGED vars
  BY <1>2 DEF vars, collector, backfiller, monitor, process
<1> QED BY <1>1, <1>2

\* No step disturbs the types or the clock.
LEMMA TimedKept ==
    Timed /\ [Next]_vars => Timed'
<1> SUFFICES ASSUME TypeOK, Clock, [Next]_vars PROVE TypeOK' /\ Clock'
  BY DEF Timed
<1>1. CASE Tick
  BY <1>1, TickTyped
<1>2. CASE Poll
  BY <1>2, PollTyped
<1>3. CASE RunJob \/ FailJob
  BY <1>3, JobTyped
<1>4. CASE Crash
  BY <1>4, CrashTyped
<1>5. CASE Start
  BY <1>5, StartTyped
<1>6. CASE Check \/ \E s \in {"depth", "trade"} : Connect(s) \/ Disconnect(s)
  BY <1>6, OtherTyped
<1>7. CASE UNCHANGED <<now, up, stored, lastBook, conn, lastDepth, outages, pending, jobs, nextSweep,
                       polled, alerted, told, checked, started, known, resumed, failedAt, faults>>
  BY <1>7 DEF TypeOK, Clock
<1> QED BY <1>1, <1>2, <1>3, <1>4, <1>5, <1>6, <1>7, Steps

\* Every state has the type of TypeOK.
THEOREM TypesHold == Spec => []TypeOK
<1>1. Timed => TypeOK
  BY DEF Timed
<1> QED BY <1>1, InitTyped, TimedKept, PTL DEF Spec

-----------------------------------------------------------------------------
(* The sweeps.                                                             *)

\* From when on a sweep fills the trades before a hole's end.
Ready(h) == Max({After(h), started, failedAt, PublishedAt(h)})

\* A sweep for a hole is to come, or is the last of the jobs, or comes too late for it.
SweepDue(h) == nextSweep <= Ready(h) + Mx
SweepWaits(h) ==
    /\ jobs # <<>> /\ jobs[Len(jobs)].from = polled - SweepWindow
    /\ Ready(h) <= polled /\ polled <= Ready(h) + Mx + JobTime - 1
Outside(h) == After(h) < now - SweepWindow
Sweeps == up => \A h \in Holes : SweepDue(h) \/ SweepWaits(h) \/ Outside(h)

\* When a hole is ready.
LEMMA ReadyIs ==
    ASSUME TypeOK, NEW h \in Holes
    PROVE  /\ Ready(h) \in Int /\ After(h) <= Ready(h) /\ started <= Ready(h) /\ failedAt <= Ready(h)
           /\ PublishedAt(h) <= Ready(h) /\ Ready(h) \in {After(h), started, failedAt, PublishedAt(h)}
           /\ h \in Nat /\ After(h) \in 0..now /\ started \in 0..now /\ failedAt \in -1..now /\ now \in Nat
           /\ PublishedAt(h) \in Int
<1>1. StoredTyped /\ now \in Nat /\ started \in 0..now /\ failedAt \in -1..now
  BY Numbers
<1>2. h \in Nat /\ After(h) \in 0..now
  BY <1>1, HoleHas
<1>3. PublishedAt(h) \in Int
  BY <1>2, DaysOrdered
<1>4. PICK a \in Int, b \in Int, c \in Int, d \in Int :
          a = After(h) /\ b = started /\ c = failedAt /\ d = PublishedAt(h)
  BY <1>1, <1>2, <1>3
<1>5. LET m == Max({a, b, c, d})
      IN  m \in Int /\ m \in {a, b, c, d} /\ a <= m /\ b <= m /\ c <= m /\ d <= m
  BY MaxFour
<1>6. Ready(h) = Max({a, b, c, d})
  BY <1>4 DEF Ready
<1> QED BY <1>1, <1>2, <1>3, <1>4, <1>5, <1>6

\* When a hole is ready, in the next state.
LEMMA ReadyIsNext ==
    ASSUME TypeOK', NEW h \in Holes'
    PROVE  /\ Ready(h)' \in Int /\ After(h)' <= Ready(h)' /\ started' <= Ready(h)' /\ failedAt' <= Ready(h)'
           /\ PublishedAt(h) <= Ready(h)' /\ h \in Nat
           /\ Ready(h)' \in {After(h)', started', failedAt', PublishedAt(h)}
<1>1. StoredTyped' /\ now' \in Nat /\ started' \in 0..now' /\ failedAt' \in -1..now'
  <2>1. now' \in 0..MaxTime /\ MaxTime \in Nat /\ stored' \subseteq 0..now' /\ started' \in 0..now'
        /\ failedAt' \in -1..now'
    BY Sizes DEF TypeOK, Span
  <2> QED BY <2>1 DEF StoredTyped
<1>2. h \in Nat /\ After(h)' \in 0..now'
  BY <1>1, HoleHasNext
<1>3. PublishedAt(h) \in Int
  BY <1>2, DaysOrdered
<1>4. PICK a \in Int, b \in Int, c \in Int, d \in Int :
          a = After(h)' /\ b = started' /\ c = failedAt' /\ d = PublishedAt(h)
  BY <1>1, <1>2, <1>3
<1>5. LET m == Max({a, b, c, d})
      IN  m \in Int /\ m \in {a, b, c, d} /\ a <= m /\ b <= m /\ c <= m /\ d <= m
  BY MaxFour
<1>6. Ready(h)' = Max({a, b, c, d})
  BY <1>4 DEF Ready, PublishedAt
<1> QED BY <1>1, <1>2, <1>3, <1>4, <1>5, <1>6

\* What a sweep that comes to a hole whose day is published does.
LEMMA SweepFills ==
    ASSUME StoredTyped, NEW h \in Holes, Published(h)
    PROVE  h \in Fetched(After(h)) /\ \E a \in stored : a < After(h)
<1>1. /\ h \in Nat /\ h \notin stored /\ After(h) \in stored /\ After(h) \in Nat /\ h < After(h)
      /\ (\A c \in stored : c > h => After(h) <= c) /\ stored \subseteq Nat
      /\ Before(h) \in stored /\ Before(h) < h
  <2>1. stored \subseteq Nat /\ now \in Nat
    BY DEF StoredTyped
  <2> QED BY <2>1, HoleHas
<1>2. PICK b \in stored : b = After(h)
  BY <1>1
<1>3. \E a \in stored : a < b
  <2>1. PICK a \in Nat : a = Before(h)
    BY <1>1
  <2>2. a < b
    BY <1>1, <1>2, <2>1
  <2> QED BY <1>1, <2>1, <2>2
<1>4. PICK lo \in Nat : lo = GapStart(b) /\ FilledTo(b, lo)
  BY <1>3, FillsFrom
<1>5. lo - 1 \in stored /\ lo - 1 < b
  BY <1>1, <1>2, <1>4 DEF FilledTo
<1>6. lo - 1 # h /\ ~(lo - 1 > h)
  BY <1>1, <1>2, <1>5
<1>7. h \in lo..b-1
  BY <1>1, <1>2, <1>4, <1>6
<1>8. h \in Fetched(b)
  <2>1. Fetched(b) = Archived(lo, b) \/ Fetched(b) = lo..b-1
    BY <1>4 DEF Fetched
  <2> QED BY <1>7, <2>1 DEF Archived
<1> QED BY <1>2, <1>3, <1>8

\* The trade after a hole ends a gap.
LEMMA EndsGap ==
    ASSUME StoredTyped, NEW h \in Holes, NEW from \in Int, NEW to \in Int, from <= After(h), After(h) <= to
    PROVE  After(h) \in GapEnds(from, to)
<1>1. /\ h \in Nat /\ h \notin stored /\ After(h) \in stored /\ After(h) \in Nat /\ h < After(h)
      /\ (\A c \in stored : c > h => After(h) <= c) /\ stored \subseteq Nat
      /\ Before(h) \in stored /\ Before(h) < h
  <2>1. stored \subseteq Nat /\ now \in Nat
    BY DEF StoredTyped
  <2> QED BY <2>1, HoleHas
<1>2. PICK b \in stored : b = After(h)
  BY <1>1
<1>3. b - 1 \notin stored
  <2> SUFFICES ASSUME b - 1 \in stored PROVE FALSE
    OBVIOUS
  <2>1. b - 1 = h \/ b - 1 > h
    BY <1>1, <1>2
  <2> QED BY <1>1, <1>2, <2>1
<1>4. \E a \in stored : a < b
  <2>1. PICK a \in Nat : a = Before(h)
    BY <1>1
  <2>2. a < b
    BY <1>1, <1>2, <2>1
  <2> QED BY <1>1, <2>1, <2>2
<1> QED BY <1>2, <1>3, <1>4 DEF GapEnds, GapEndsInside

\* A hole's own facts do not change in a step that keeps the hole and what it depends on.
SameHole(h) == h \in Holes /\ After(h)' = After(h)

\* A sweep that was due, or a hole outside the window, stays so.
LEMMA SweepStays ==
    ASSUME TypeOK, TypeOK', NEW h \in Holes', SameHole(h), now <= now', nextSweep' = nextSweep,
           started' = started, failedAt' \in {failedAt, now}, SweepDue(h) \/ Outside(h)
    PROVE  SweepDue(h)' \/ Outside(h)'
<1>1. h \in Holes /\ After(h)' = After(h)
  BY DEF SameHole
<1>2. /\ Ready(h) \in Int /\ Ready(h) \in {After(h), started, failedAt, PublishedAt(h)}
      /\ After(h) \in 0..now /\ started \in 0..now /\ failedAt \in -1..now /\ now \in Nat /\ h \in Nat
  BY <1>1, ReadyIs
<1>3. nextSweep \in Nat /\ Mx \in Nat /\ SweepWindow \in Nat
  <2>1. nextSweep \in Nat
    BY Numbers
  <2> QED BY <2>1, Sizes
<1>4. CASE Outside(h)
  <2>1. now' \in Nat
    BY Sizes DEF TypeOK, Span
  <2>2. After(h)' < now' - SweepWindow
    BY <1>1, <1>2, <1>3, <1>4, <2>1 DEF Outside
  <2> QED BY <2>2 DEF Outside
<1>5. CASE SweepDue(h)
  <2>1. Ready(h) <= Ready(h)'
    <3>1. /\ After(h)' <= Ready(h)' /\ started' <= Ready(h)' /\ failedAt' <= Ready(h)' /\ Ready(h)' \in Int
      BY ReadyIsNext
    <3>2. PublishedAt(h) <= Ready(h)'
      BY ReadyIsNext
    <3>3. failedAt <= Ready(h)'
      BY <1>2, <3>1
    <3> QED BY <1>1, <1>2, <3>1, <3>2, <3>3
  <2>2. Ready(h)' \in Int
    BY ReadyIsNext
  <2>3. nextSweep' <= Ready(h)' + Mx
    BY <1>2, <1>3, <1>5, <2>1, <2>2 DEF SweepDue
  <2> QED BY <2>3 DEF SweepDue, Mx
<1> QED BY <1>4, <1>5

\* The sweeps, when time passes.
LEMMA TickSweeps ==
    ASSUME TypeOK, TypeOK', Clock, Sweeps, Tick
    PROVE  Sweeps'
<1> SUFFICES ASSUME up', NEW h \in Holes' PROVE SweepDue(h)' \/ SweepWaits(h)' \/ Outside(h)'
  BY DEF Sweeps
<1>1. /\ now' = now + 1 /\ stored' \in {stored, stored \cup {now'}}
      /\ UNCHANGED <<up, jobs, nextSweep, polled, started, failedAt>>
  BY DEF Tick, process
<1>2. StoredTyped /\ now \in Nat /\ nextSweep \in Nat /\ Mx \in Nat /\ nextSweep <= now + Mx
  <2>1. StoredTyped /\ now \in Nat /\ nextSweep \in Nat
    BY Numbers
  <2>2. nextSweep <= now + Mx
    BY <1>1 DEF Clock
  <2> QED BY <2>1, <2>2, Sizes
<1>3. \/ h \in Holes /\ After(h)' = After(h) /\ Before(h)' = Before(h)
      \/ After(h)' = now'
  BY <1>1, <1>2, TickHoles
<1>4. CASE After(h)' = now'
  <2>1. now' <= Ready(h)' /\ Ready(h)' \in Int
    BY <1>4, ReadyIsNext
  <2>2. nextSweep' <= Ready(h)' + Mx
    BY <1>1, <1>2, <2>1
  <2> QED BY <2>2 DEF SweepDue, Mx
<1>5. CASE SameHole(h)
  <2>1. SweepDue(h) \/ SweepWaits(h) \/ Outside(h)
    BY <1>1, <1>5 DEF Sweeps, SameHole
  <2>2. CASE SweepWaits(h)
    <3>1. Ready(h)' = Ready(h)
      BY <1>1, <1>5 DEF SameHole, Ready, PublishedAt
    <3> QED BY <1>1, <2>2, <3>1 DEF SweepWaits, Mx
  <2>3. CASE SweepDue(h) \/ Outside(h)
    BY <1>1, <1>2, <1>5, <2>3, SweepStays
  <2> QED BY <2>1, <2>2, <2>3
<1> QED BY <1>3, <1>4, <1>5 DEF SameHole

\* The sweeps, when the backfiller polls: a hole that is ready is in the sweep of this poll.
LEMMA PollSweeps ==
    ASSUME TypeOK, TypeOK', Clock, Sweeps, Poll
    PROVE  Sweeps'
<1> SUFFICES ASSUME NEW h \in Holes' PROVE SweepDue(h)' \/ SweepWaits(h)' \/ Outside(h)'
  BY DEF Sweeps
<1>1. PICK D : PollOf(D)
  BY PollJobs
<1>2. UNCHANGED <<now, up, stored, started, failedAt>>
  BY DEF Poll, process
<1>3. SameHole(h) /\ Ready(h)' = Ready(h)
  BY <1>2 DEF SameHole, Holes, After, Ready, PublishedAt
<1>4. /\ up /\ jobs = <<>> /\ polled' = now /\ D \in Seq(Jobs(now))
  BY <1>1 DEF PollOf
<1>5. SweepDue(h) \/ Outside(h)
  BY <1>3, <1>4 DEF Sweeps, SweepWaits, SameHole
<1>6. /\ Ready(h) \in Int /\ started <= Ready(h) /\ now \in Nat /\ nextSweep \in Nat
      /\ Mx \in Nat /\ JobTime \in Nat \ {0} /\ SweepInterval \in Nat /\ SweepWindow \in Nat /\ SweepInterval <= Mx
  <2>1. Ready(h) \in Int /\ started <= Ready(h)
    BY <1>3, ReadyIs DEF SameHole
  <2>2. now \in Nat /\ nextSweep \in Nat
    BY Numbers
  <2> QED BY <2>1, <2>2, Sizes
<1>7. CASE now < nextSweep \/ Outside(h)
  <2>1. nextSweep' = nextSweep \/ Outside(h)
    BY <1>1, <1>6, <1>7 DEF PollOf
  <2>2. CASE nextSweep' = nextSweep
    <3>1. now <= now' /\ failedAt' \in {failedAt, now} /\ started' = started
      BY <1>2, <1>6
    <3> QED BY <1>3, <1>5, <2>2, <3>1, SweepStays
  <2>3. CASE Outside(h)
    BY <1>2, <1>3, <2>3 DEF Outside, SameHole
  <2> QED BY <2>1, <2>2, <2>3
<1>8. CASE SweepDue(h) /\ now >= nextSweep /\ now < Ready(h)
  <2>1. nextSweep' = now + SweepInterval
    BY <1>1, <1>6, <1>8 DEF PollOf
  <2>2. nextSweep' <= Ready(h)' + Mx
    BY <1>3, <1>6, <1>8, <2>1
  <2> QED BY <2>2 DEF SweepDue, Mx
<1>9. CASE SweepDue(h) /\ now >= nextSweep /\ now >= Ready(h)
  <2>1. jobs' = Append(D, [from |-> now - SweepWindow, to |-> now])
    BY <1>1, <1>6, <1>9 DEF PollOf
  <2>2. jobs' # <<>> /\ jobs'[Len(jobs')].from = now - SweepWindow
    <3>1. [from |-> now - SweepWindow, to |-> now] \in Jobs(now)
      BY <1>6 DEF Jobs
    <3>2. jobs' # <<>> /\ Len(jobs') = Len(D) + 1 /\ jobs'[Len(D) + 1] = [from |-> now - SweepWindow, to |-> now]
      BY <1>4, <2>1, <3>1, AppendElems
    <3> QED BY <3>2
  <2>3. now <= Ready(h) + Mx + JobTime - 1
    <3>1. \/ polled = None /\ jobs = <<>> /\ now = started
          \/ polled \in Nat /\ polled < nextSweep /\ now <= polled + JobTime
      BY <1>4 DEF Clock
    <3>2. nextSweep <= Ready(h) + Mx
      BY <1>9 DEF SweepDue
    <3> QED BY <1>6, <3>1, <3>2
  <2>4. Ready(h)' <= polled' /\ polled' <= Ready(h)' + Mx + JobTime - 1
    BY <1>3, <1>4, <1>9, <2>3
  <2>5. jobs'[Len(jobs')].from = polled' - SweepWindow
    BY <1>4, <2>2
  <2> QED BY <2>2, <2>4, <2>5 DEF SweepWaits, Mx
<1>10. now < nextSweep \/ (now >= nextSweep /\ now < Ready(h)) \/ (now >= nextSweep /\ now >= Ready(h))
  BY <1>6
<1> QED BY <1>5, <1>7, <1>8, <1>9, <1>10

\* The sweeps, over a job: the one for a hole fills it, or there is a job less before it.
LEMMA JobSweeps ==
    ASSUME TypeOK, TypeOK', Clock, Sweeps, RunJob \/ FailJob
    PROVE  Sweeps'
<1> SUFFICES ASSUME NEW h \in Holes' PROVE SweepDue(h)' \/ SweepWaits(h)' \/ Outside(h)'
  BY DEF Sweeps
<1>1. PICK B : JobDone(B)
  BY JobIs
<1>2. /\ up /\ jobs # <<>> /\ jobs' = Tail(jobs) /\ UNCHANGED <<now, up, nextSweep, polled, started>>
      /\ B \in SUBSET stored /\ (\A b \in B : \E a \in stored : a < b)
      /\ stored' = stored \cup UNION {Fetched(b) : b \in B}
      /\ \/ failedAt' = now
         \/ failedAt' = failedAt /\ B = GapEnds(Head(jobs).from, Head(jobs).to)
  BY <1>1 DEF JobDone
<1>3. /\ StoredTyped /\ now \in Nat /\ nextSweep \in Nat /\ jobs \in Seq(Jobs(polled)) /\ polled \in -1..now
      /\ Mx \in Nat /\ SweepWindow \in Nat
  <2>1. /\ StoredTyped /\ now \in Nat /\ nextSweep \in Nat /\ jobs \in Seq(Jobs(polled)) /\ polled \in -1..now
    BY Numbers
  <2> QED BY <2>1, Sizes
<1>4. h \in Holes /\ After(h)' = After(h) /\ (After(h) \in B => h \notin Fetched(After(h)))
  BY <1>2, <1>3, FilledHoles
<1>5. CASE failedAt' = now
  <2>1. nextSweep <= now + Mx
    BY <1>2 DEF Clock
  <2>2. now <= Ready(h)' /\ Ready(h)' \in Int
    BY <1>5, ReadyIsNext
  <2>3. nextSweep' <= Ready(h)' + Mx
    BY <1>2, <1>3, <2>1, <2>2
  <2> QED BY <2>3 DEF SweepDue, Mx
<1>6. ASSUME SweepDue(h) \/ Outside(h) PROVE SweepDue(h)' \/ Outside(h)'
  <2>1. now <= now' /\ failedAt' \in {failedAt, now} /\ SameHole(h)
    BY <1>2, <1>3, <1>4 DEF SameHole
  <2> QED BY <1>2, <1>6, <2>1, SweepStays
<1>7. CASE B = GapEnds(Head(jobs).from, Head(jobs).to) /\ failedAt' = failedAt /\ SweepWaits(h) /\ ~Outside(h)
  <2>1. /\ jobs[Len(jobs)].from = polled - SweepWindow /\ Ready(h) <= polled
        /\ polled <= Ready(h) + Mx + JobTime - 1
    BY <1>7 DEF SweepWaits
  <2>2. /\ Len(jobs) \in Nat \ {0} /\ Head(jobs) = jobs[1] /\ Len(jobs') = Len(jobs) - 1
        /\ \A i \in 1..Len(jobs) - 1 : jobs'[i] = jobs[i + 1]
    BY <1>2, <1>3, TailOf
  <2>3. /\ Ready(h) \in Int /\ After(h) <= Ready(h) /\ PublishedAt(h) <= Ready(h) /\ After(h) \in 0..now
        /\ PublishedAt(h) \in Int
    BY <1>4, ReadyIs
  <2>4. Len(jobs) # 1
    <3> SUFFICES ASSUME Len(jobs) = 1 PROVE FALSE
      OBVIOUS
    <3>1. Head(jobs).to = polled /\ Head(jobs).from = polled - SweepWindow
      BY <2>1, <2>2 DEF Clock
    <3>2. polled - SweepWindow <= After(h) /\ After(h) <= polled /\ polled - SweepWindow \in Int /\ polled \in Int
      BY <1>3, <1>7, <2>1, <2>3 DEF Outside
    <3>3. After(h) \in GapEnds(polled - SweepWindow, polled)
      BY <1>3, <1>4, <3>2, EndsGap
    <3>4. After(h) \in B
      BY <1>7, <3>1, <3>3
    <3>5. Published(h)
      BY <1>3, <2>1, <2>3 DEF Published, PublishedAt
    <3> QED BY <1>3, <1>4, <3>4, <3>5, SweepFills
  <2>5. jobs' # <<>> /\ jobs'[Len(jobs')] = jobs[Len(jobs)]
    <3>1. Len(jobs) - 1 \in 1..Len(jobs) - 1 /\ Len(jobs) - 1 + 1 = Len(jobs)
      BY <2>2, <2>4
    <3>2. jobs'[Len(jobs) - 1] = jobs[Len(jobs)]
      BY <2>2, <3>1
    <3>3. Len(jobs') # 0
      BY <2>2, <2>4
    <3> QED BY <2>2, <3>2, <3>3
  <2>6. Ready(h)' = Ready(h)
    BY <1>2, <1>4, <1>7 DEF Ready, PublishedAt
  <2> QED BY <1>2, <2>1, <2>5, <2>6 DEF SweepWaits, Mx
<1>8. SweepDue(h) \/ SweepWaits(h) \/ Outside(h)
  BY <1>2, <1>4 DEF Sweeps
<1> QED BY <1>2, <1>5, <1>6, <1>7, <1>8

\* No step leaves a hole without a sweep.
LEMMA SweepsKept ==
    ASSUME Timed, Timed', Sweeps, [Next]_vars
    PROVE  Sweeps'
<1>1. TypeOK /\ TypeOK' /\ Clock /\ Clock'
  BY DEF Timed
<1>2. CASE Tick
  BY <1>1, <1>2, TickSweeps
<1>3. CASE Poll
  BY <1>1, <1>3, PollSweeps
<1>4. CASE RunJob \/ FailJob
  BY <1>1, <1>4, JobSweeps
<1>5. CASE Crash
  BY <1>5 DEF Crash, Sweeps
<1>6. CASE Start
  <2> SUFFICES ASSUME NEW h \in Holes' PROVE SweepDue(h)'
    BY DEF Sweeps
  <2>1. started' = now /\ nextSweep' = now + StartupDelay
    BY <1>6 DEF Start
  <2>2. started' <= Ready(h)' /\ Ready(h)' \in Int
    BY <1>1, ReadyIsNext
  <2>3. now \in Nat
    BY <1>1, Numbers
  <2>4. nextSweep' <= Ready(h)' + Mx
    BY <2>1, <2>2, <2>3, Sizes
  <2> QED BY <2>4 DEF SweepDue, Mx
<1>7. CASE UNCHANGED <<now, up, stored, jobs, nextSweep, polled, started, failedAt>>
  <2> SUFFICES ASSUME up', NEW h \in Holes' PROVE SweepDue(h)' \/ SweepWaits(h)' \/ Outside(h)'
    BY DEF Sweeps
  <2>1. h \in Holes /\ After(h)' = After(h) /\ Ready(h)' = Ready(h)
    BY <1>7 DEF Holes, After, Ready, PublishedAt
  <2>2. SweepDue(h) \/ SweepWaits(h) \/ Outside(h)
    BY <1>7, <2>1 DEF Sweeps
  <2> QED BY <1>7, <2>1, <2>2 DEF SweepDue, SweepWaits, Outside, Mx
<1>8. CASE Check
  BY <1>7, <1>8 DEF Check, backfiller, process
<1>9. CASE \E s \in {"depth", "trade"} : Connect(s) \/ Disconnect(s)
  BY <1>7, <1>9 DEF Connect, Disconnect, backfiller, process
<1> QED BY <1>2, <1>3, <1>4, <1>5, <1>6, <1>7, <1>8, <1>9, Steps

\* A hole with a sweep to come or in the jobs has not waited too long.
LEMMA SweepsFill ==
    ASSUME Timed, Sweeps
    PROVE  HolesAreFilled
<1> SUFFICES ASSUME up, NEW h \in Holes, now > Ready(h) + (Mx + 2 * JobTime - 1)
             PROVE  After(h) < now - SweepWindow
  BY DEF HolesAreFilled, Ready, Mx
<1>1. TypeOK /\ Clock
  BY DEF Timed
<1>2. /\ Ready(h) \in Int /\ started <= Ready(h) /\ started \in 0..now /\ now \in Nat
  BY <1>1, ReadyIs
<1>3. nextSweep \in Nat /\ polled \in -1..now /\ Mx \in Nat /\ JobTime \in Nat \ {0}
  <2>1. nextSweep \in Nat /\ polled \in -1..now
    BY <1>1, Numbers
  <2> QED BY <2>1, Sizes
<1>4. \/ polled = None /\ jobs = <<>> /\ now = started
      \/ polled \in Nat /\ polled < nextSweep /\ now <= polled + JobTime
  BY <1>1 DEF Clock
<1>5. ~SweepDue(h)
  BY <1>2, <1>3, <1>4 DEF SweepDue
<1>6. ~SweepWaits(h)
  BY <1>2, <1>3, <1>4 DEF SweepWaits
<1> QED BY <1>5, <1>6 DEF Sweeps, Outside

\* autobackfill.py:98 and integrity.py: whatever a disconnection, a failed round or a restart left out
\* is stored again one sweep after it can be fetched, while the trade after it is in the sweep's window.
THEOREM HolesAreFilledHolds == Spec => []HolesAreFilled
<1>1. Init => Sweeps
  BY DEF Init, Sweeps
<1>2. Timed /\ Timed' /\ Sweeps /\ [Next]_vars => Sweeps'
  BY SweepsKept
<1>3. Timed /\ Sweeps => HolesAreFilled
  BY SweepsFill
<1> QED BY <1>1, <1>2, <1>3, InitTyped, TimedKept, PTL DEF Spec

-----------------------------------------------------------------------------
(* The jobs of an outage.                                                  *)

\* When the backfiller goes for the last outage, and the holes REST can fill then.
Dues == resumed.to + Settle
Covered(h) ==
    /\ After(h) \in resumed.from - Lead .. Dues
    /\ ~Published(Before(h)) /\ After(h) - Before(h) - 1 <= MaxIds

\* The last outage is pending, or a job failed since, or it is among the jobs, or it is filled.
OutPending == polled < Dues /\ [from |-> resumed.from, due |-> Dues] \in Elems(pending)
OutFailed == failedAt >= Dues
OutWaits ==
    /\ \E i \in 1..Len(jobs) : jobs[i].from = resumed.from - Lead
    /\ Dues <= polled /\ polled <= Dues + JobTime - 1
OutFilled == now >= Dues /\ \A h \in Holes : Covered(h) => now - Before(h) > RestAge
Outs ==
    up /\ resumed # NoOutage =>
        /\ resumed \in Outage /\ polled # None
        /\ OutPending \/ OutFailed \/ OutWaits \/ OutFilled

\* The numbers of the last outage.
LEMMA OutageIs ==
    ASSUME TypeOK, resumed \in Outage
    PROVE  /\ resumed.from \in Nat /\ resumed.to \in Nat /\ Dues \in Nat /\ now \in Nat
           /\ Lead \in Nat /\ JobTime \in Nat \ {0} /\ polled \in -1..now /\ failedAt \in -1..now
<1>1. now \in Nat /\ polled \in -1..now /\ failedAt \in -1..now
  BY Numbers
<1>2. Lead \in Nat /\ JobTime \in Nat \ {0} /\ Settle \in Nat
  BY Sizes
<1>3. resumed.from \in Nat /\ resumed.to \in Nat
  BY DEF Outage, Span
<1> QED BY <1>1, <1>2, <1>3 DEF Dues

\* What a hole's numbers are.
LEMMA HoleNumbers ==
    ASSUME TypeOK, NEW h \in Holes
    PROVE  /\ After(h) \in Nat /\ Before(h) \in Nat /\ After(h) <= now /\ h \in Nat
           /\ PublishedAt(Before(h)) \in Int
<1>1. StoredTyped /\ now \in Nat
  BY Numbers
<1>2. After(h) \in 0..now /\ Before(h) \in 0..now /\ h \in Nat
  BY <1>1, HoleHas
<1>3. Before(h) \in Nat
  BY <1>1, <1>2
<1>4. PublishedAt(Before(h)) \in Int
  BY <1>3, DaysOrdered
<1> QED BY <1>1, <1>2, <1>3, <1>4

\* The last outage, when time passes.
LEMMA TickOuts ==
    ASSUME TypeOK, TypeOK', Clock, Outs, Tick
    PROVE  Outs'
<1> SUFFICES ASSUME up', resumed' # NoOutage
             PROVE  /\ resumed' \in Outage /\ polled' # None
                    /\ OutPending' \/ OutFailed' \/ OutWaits' \/ OutFilled'
  BY DEF Outs
<1>1. /\ now' = now + 1 /\ stored' \in {stored, stored \cup {now'}} /\ up
      /\ UNCHANGED <<up, jobs, nextSweep, polled, started, failedAt>> /\ Prompt
      /\ ReceiveDepth \/ UNCHANGED <<outages, pending, resumed>>
  BY DEF Tick, process
<1>2. /\ StoredTyped /\ now \in Nat /\ polled \in -1..now /\ resumed' \in Outage \cup {NoOutage}
      /\ lastDepth \in Span \cup {None} /\ pending \in Seq(Pendings(now)) /\ Settle \in Nat
  <2>1. /\ StoredTyped /\ now \in Nat /\ polled \in -1..now
        /\ lastDepth \in Span \cup {None} /\ pending \in Seq(Pendings(now))
    BY Numbers
  <2>2. resumed' \in Outage \cup {NoOutage}
    BY DEF TypeOK
  <2> QED BY <2>1, <2>2, Sizes
<1>3. resumed' \in Outage /\ polled' # None
  <2>1. polled # None
    <3>1. jobs = <<>> => polled = now
      BY <1>1 DEF Prompt
    <3>2. jobs # <<>> => polled \in Nat
      BY <1>1 DEF Clock
    <3> QED BY <1>2, <3>1, <3>2 DEF None
  <2> QED BY <1>1, <1>2, <2>1
<1>4. CASE ReceiveDepth /\ Broke
  <2>1. /\ pending' = Append(pending, [from |-> lastDepth, due |-> now' + Settle])
        /\ resumed' = [from |-> lastDepth, to |-> now']
    BY <1>4 DEF ReceiveDepth
  <2>2. pending' # <<>> => [from |-> lastDepth, due |-> now' + Settle] \in Elems(pending')
    <3>1. pending \in Seq(Pendings(now')) /\ [from |-> lastDepth, due |-> now' + Settle] \in Pendings(now')
      <4>1. Pendings(now) \subseteq Pendings(now')
        BY <1>1, <1>2 DEF Pendings
      <4>2. lastDepth \in Span
        BY <1>2, <1>4 DEF Broke
      <4>3. now' + Settle \in 0..now' + Settle
        BY <1>1, <1>2
      <4>4. pending \in Seq(Pendings(now'))
        BY <1>2, <4>1, SeqWider
      <4> QED BY <4>2, <4>3, <4>4 DEF Pendings
    <3> QED BY <2>1, <3>1, AppendElems
  <2>3. pending' # <<>>
    BY <1>2, <2>1
  <2>4. resumed'.from = lastDepth /\ resumed'.to = now'
    BY <2>1
  <2>5. polled' < now' + Settle
    BY <1>1, <1>2
  <2>6. OutPending'
    BY <2>2, <2>3, <2>4, <2>5 DEF OutPending, Dues
  <2> QED BY <1>3, <2>6
<1>5. CASE pending' = pending /\ resumed' = resumed
  <2>1. resumed \in Outage /\ (OutPending \/ OutFailed \/ OutWaits \/ OutFilled)
    BY <1>1, <1>5 DEF Outs
  <2>2. Dues' = Dues
    BY <1>5 DEF Dues
  <2>3. OutPending => OutPending'
    BY <1>1, <1>5, <2>2 DEF OutPending
  <2>4. OutFailed => OutFailed'
    BY <1>1, <1>5, <2>2 DEF OutFailed
  <2>5. OutWaits => OutWaits'
    BY <1>1, <1>5, <2>2 DEF OutWaits
  <2>6. ASSUME OutFilled PROVE OutFilled'
    <3>1. now' >= Dues'
      <4>1. now >= Dues /\ Dues \in Nat
        BY <2>1, <2>6, OutageIs DEF OutFilled
      <4> QED BY <1>1, <1>2, <2>2, <4>1
    <3>2. ASSUME NEW h \in Holes', Covered(h)' PROVE now' - Before(h)' > RestAge
      <4>1. \/ h \in Holes /\ After(h)' = After(h) /\ Before(h)' = Before(h)
            \/ After(h)' = now'
        BY <1>1, <1>2, TickHoles
      <4>2. After(h)' # now'
        <5>1. After(h)' \in resumed.from - Lead .. Dues
          BY <1>5, <2>2, <3>2 DEF Covered
        <5>2. now >= Dues /\ Dues \in Nat
          BY <2>1, <2>6, OutageIs DEF OutFilled
        <5> QED BY <1>1, <1>2, <5>1, <5>2
      <4>3. h \in Holes /\ After(h)' = After(h) /\ Before(h)' = Before(h)
        BY <4>1, <4>2
      <4>4. /\ After(h) \in Nat /\ Before(h) \in Nat /\ PublishedAt(Before(h)) \in Int
        BY <4>3, HoleNumbers
      <4>5. Covered(h)
        <5>1. ~(now' >= PublishedAt(Before(h))) /\ After(h) \in resumed.from - Lead .. Dues
              /\ After(h) - Before(h) - 1 <= MaxIds
          BY <1>5, <2>2, <3>2, <4>3 DEF Covered, Published, PublishedAt
        <5>2. ~(now >= PublishedAt(Before(h)))
          BY <1>1, <1>2, <4>4, <5>1
        <5> QED BY <5>1, <5>2 DEF Covered, Published, PublishedAt
      <4>6. now - Before(h) > RestAge /\ RestAge \in Nat
        BY <2>6, <4>3, <4>5, Sizes DEF OutFilled
      <4> QED BY <1>1, <1>2, <4>3, <4>4, <4>6
    <3> QED BY <3>1, <3>2 DEF OutFilled
  <2> QED BY <1>3, <2>1, <2>3, <2>4, <2>5, <2>6
<1>6. (ReceiveDepth /\ Broke) \/ (pending' = pending /\ resumed' = resumed)
  BY <1>1 DEF ReceiveDepth
<1> QED BY <1>4, <1>5, <1>6

\* The last outage, when the backfiller polls.
LEMMA PollOuts ==
    ASSUME TypeOK, Clock, Outs, Poll
    PROVE  Outs'
<1> SUFFICES ASSUME resumed' # NoOutage
             PROVE  /\ resumed' \in Outage /\ polled' # None
                    /\ OutPending' \/ OutFailed' \/ OutWaits' \/ OutFilled'
  BY DEF Outs
<1>1. PICK D : /\ PollOf(D)
               /\ \A p \in Elems(pending) : Due(p) =>
                     \E i \in 1..Len(D) : D[i] = [from |-> p.from - Lead, to |-> now]
               /\ \A p \in Elems(pending) : ~Due(p) => p \in Elems(pending')
  BY PollJobs
<1>2. UNCHANGED <<now, up, stored, started, failedAt, resumed>>
  BY DEF Poll, process
<1>3. /\ up /\ jobs = <<>> /\ polled' = now /\ D \in Seq(Jobs(now))
      /\ jobs' = D \/ jobs' = Append(D, [from |-> now - SweepWindow, to |-> now])
  BY <1>1 DEF PollOf
<1>4. resumed \in Outage /\ polled # None /\ (OutPending \/ OutFailed \/ OutWaits \/ OutFilled)
  BY <1>2, <1>3 DEF Outs
<1>5. Dues' = Dues
  BY <1>2 DEF Dues
<1>6. /\ resumed.from \in Nat /\ Dues \in Nat /\ now \in Nat /\ Lead \in Nat /\ JobTime \in Nat \ {0}
      /\ SweepWindow \in Nat
  <2>1. /\ resumed.from \in Nat /\ Dues \in Nat /\ now \in Nat /\ Lead \in Nat /\ JobTime \in Nat \ {0}
    BY <1>4, OutageIs
  <2> QED BY <2>1, Sizes
<1>7. resumed' \in Outage /\ polled' # None
  BY <1>2, <1>3, <1>4, <1>6 DEF None
<1>8. CASE OutPending
  <2>1. PICK p \in Elems(pending) : p = [from |-> resumed.from, due |-> Dues]
    BY <1>8 DEF OutPending
  <2>2. p.from = resumed.from /\ p.due = Dues
    BY <2>1
  <2>3. CASE ~Due(p)
    <3>1. now < Dues
      BY <1>6, <2>2, <2>3 DEF Due
    <3>2. p \in Elems(pending')
      BY <1>1, <2>3
    <3>3. OutPending'
      BY <1>2, <1>3, <1>5, <2>1, <3>1, <3>2 DEF OutPending
    <3> QED BY <1>7, <3>3
  <2>4. CASE Due(p)
    <3>1. now >= Dues
      BY <2>2, <2>4 DEF Due
    <3>2. PICK i \in 1..Len(D) : D[i] = [from |-> p.from - Lead, to |-> now]
      BY <1>1, <2>4
    <3>3. D[i].from = resumed.from - Lead
      BY <2>2, <3>2
    <3>4. i \in 1..Len(jobs') /\ jobs'[i] = D[i]
      <4>1. CASE jobs' = D
        BY <4>1
      <4>2. CASE jobs' = Append(D, [from |-> now - SweepWindow, to |-> now])
        <5>1. [from |-> now - SweepWindow, to |-> now] \in Jobs(now)
          BY <1>6 DEF Jobs
        <5>2. Len(jobs') = Len(D) + 1 /\ Len(D) \in Nat /\ \A k \in 1..Len(D) : jobs'[k] = D[k]
          BY <1>3, <4>2, <5>1, AppendElems
        <5> QED BY <5>2
      <4> QED BY <1>3, <4>1, <4>2
    <3>5. now <= Dues + JobTime - 1
      <4>1. polled \in Nat /\ now <= polled + JobTime
        BY <1>3, <1>4 DEF Clock
      <4>2. polled < Dues
        BY <1>8 DEF OutPending
      <4> QED BY <1>6, <4>1, <4>2
    <3>6. jobs'[i].from = resumed'.from - Lead
      BY <1>2, <3>3, <3>4
    <3>7. OutWaits'
      BY <1>3, <1>5, <3>1, <3>4, <3>5, <3>6 DEF OutWaits
    <3> QED BY <1>7, <3>7
  <2> QED BY <2>3, <2>4
<1>9. OutFailed => OutFailed'
  BY <1>2, <1>5 DEF OutFailed
<1>10. ~OutWaits
  BY <1>3 DEF OutWaits
<1>11. OutFilled => OutFilled'
  BY <1>2, <1>5 DEF OutFilled, Covered, Holes, After, Before, Published
<1> QED BY <1>4, <1>7, <1>8, <1>9, <1>10, <1>11

\* What a hole in the window of a job is, after it: too old for REST, too long, or a published day's.
LEMMA JobCovers ==
    ASSUME TypeOK, NEW B, JobDone(B), B = GapEnds(Head(jobs).from, Head(jobs).to), resumed \in Outage,
           Head(jobs).from = resumed.from - Lead, Head(jobs).to = polled, Dues <= polled,
           NEW h \in Holes', Covered(h)'
    PROVE  now - Before(h)' > RestAge
<1>1. /\ UNCHANGED <<now, resumed, polled>> /\ B \in SUBSET stored /\ (\A b \in B : \E a \in stored : a < b)
      /\ stored' = stored \cup UNION {Fetched(b) : b \in B}
  BY DEF JobDone
<1>2. StoredTyped /\ now \in Nat
  BY Numbers
<1>3. /\ h \in Holes /\ After(h)' = After(h) /\ (Before(h)' = Before(h) \/ Published(Before(h)'))
      /\ (After(h) \in B => h \notin Fetched(After(h)))
  BY <1>1, <1>2, FilledHoles
<1>4. Before(h)' = Before(h)
  BY <1>1, <1>3 DEF Covered, Published
<1>5. After(h) \in resumed.from - Lead .. Dues /\ ~Published(Before(h)) /\ After(h) - Before(h) - 1 <= MaxIds
  BY <1>1, <1>3, <1>4 DEF Covered, Dues, Published
<1>6. /\ resumed.from \in Nat /\ Dues \in Nat /\ Lead \in Nat /\ polled \in -1..now
  BY OutageIs
<1>7. After(h) \in B
  <2>1. resumed.from - Lead \in Int /\ polled \in Int /\ resumed.from - Lead <= After(h) /\ After(h) <= polled
    BY <1>2, <1>5, <1>6
  <2>2. After(h) \in GapEnds(resumed.from - Lead, polled)
    BY <1>2, <1>3, <2>1, EndsGap
  <2> QED BY <2>2
<1>8. PICK b \in stored : b = After(h)
  BY <1>1, <1>7
<1>9. \E a \in stored : a < b
  BY <1>1, <1>7, <1>8
<1>10. PICK lo \in Nat : lo = GapStart(b) /\ FilledTo(b, lo)
  BY <1>2, <1>9, FillsFrom
<1>11. /\ h \in Nat /\ h \notin stored /\ Before(h) \in stored /\ Before(h) \in Nat /\ Before(h) < h
       /\ h < b /\ b \in Nat /\ (\A c \in stored : c < h => c <= Before(h)) /\ (\A c \in stored : c > h => b <= c)
  <2>1. stored \subseteq Nat
    BY <1>2 DEF StoredTyped
  <2> QED BY <1>2, <1>3, <1>8, <2>1, HoleHas
<1>12. lo = Before(h) + 1
  <2>1. lo - 1 \in stored /\ lo - 1 < b /\ \A a \in stored : a < b => a < lo
    BY <1>10, <1>11 DEF FilledTo
  <2>2. lo - 1 < h
    BY <1>10, <1>11, <2>1
  <2>3. lo - 1 <= Before(h)
    BY <1>11, <2>1, <2>2
  <2>4. Before(h) < lo
    BY <1>11, <2>1
  <2> QED BY <1>10, <1>11, <2>3, <2>4
<1>13. MaxIds \in Nat /\ RestAge \in Nat
  BY Sizes
<1>14. h \notin Fetched(b)
  BY <1>3, <1>7, <1>8
<1>15. h \in lo..b-1
  BY <1>10, <1>11, <1>12
<1>16. b - lo > MaxIds \/ now - lo >= RestAge
  BY <1>10, <1>14, <1>15 DEF Fetched
<1>17. ~(b - lo > MaxIds)
  BY <1>5, <1>8, <1>10, <1>11, <1>12, <1>13
<1>18. now - Before(h) > RestAge
  BY <1>2, <1>11, <1>12, <1>13, <1>16, <1>17
<1> QED BY <1>4, <1>18

\* The last outage, over a job.
LEMMA JobOuts ==
    ASSUME TypeOK, Clock, Outs, RunJob \/ FailJob
    PROVE  Outs'
<1> SUFFICES ASSUME resumed' # NoOutage
             PROVE  /\ resumed' \in Outage /\ polled' # None
                    /\ OutPending' \/ OutFailed' \/ OutWaits' \/ OutFilled'
  BY DEF Outs
<1>1. PICK B : JobDone(B)
  BY JobIs
<1>2. /\ up /\ jobs # <<>> /\ jobs' = Tail(jobs) /\ UNCHANGED <<now, up, polled, pending, resumed>>
      /\ B \in SUBSET stored /\ (\A b \in B : \E a \in stored : a < b)
      /\ stored' = stored \cup UNION {Fetched(b) : b \in B}
      /\ \/ failedAt' = now
         \/ failedAt' = failedAt /\ B = GapEnds(Head(jobs).from, Head(jobs).to)
  BY <1>1 DEF JobDone
<1>3. /\ StoredTyped /\ now \in Nat /\ jobs \in Seq(Jobs(polled)) /\ polled \in -1..now /\ failedAt \in -1..now
  BY Numbers
<1>4. resumed \in Outage /\ polled # None /\ (OutPending \/ OutFailed \/ OutWaits \/ OutFilled)
  BY <1>2 DEF Outs
<1>5. Dues' = Dues /\ Dues \in Nat /\ resumed' \in Outage /\ polled' # None
  BY <1>2, <1>4, OutageIs DEF Dues
<1>6. OutPending => OutPending'
  BY <1>2, <1>5 DEF OutPending
<1>7. OutFailed => OutFailed'
  BY <1>2, <1>3, <1>5 DEF OutFailed
<1>8. CASE OutWaits
  <2>1. PICK i \in 1..Len(jobs) : jobs[i].from = resumed.from - Lead
    BY <1>8 DEF OutWaits
  <2>2. Dues <= polled /\ polled <= Dues + JobTime - 1
    BY <1>8 DEF OutWaits
  <2>3. /\ Len(jobs) \in Nat \ {0} /\ Head(jobs) = jobs[1] /\ Len(jobs') = Len(jobs) - 1
        /\ \A k \in 1..Len(jobs) - 1 : jobs'[k] = jobs[k + 1]
    BY <1>2, <1>3, TailOf
  <2>4. CASE failedAt' = now
    <3>1. failedAt' >= Dues
      BY <1>3, <1>5, <2>2, <2>4
    <3> QED BY <1>5, <3>1 DEF OutFailed
  <2>5. CASE i # 1
    <3>1. i - 1 \in 1..Len(jobs) - 1 /\ i - 1 + 1 = i
      BY <2>3, <2>5
    <3>2. i - 1 \in 1..Len(jobs') /\ jobs'[i - 1] = jobs[i]
      BY <2>3, <3>1
    <3>3. OutWaits'
      BY <1>2, <1>5, <2>1, <2>2, <3>2 DEF OutWaits
    <3> QED BY <1>5, <3>3
  <2>6. CASE i = 1 /\ B = GapEnds(Head(jobs).from, Head(jobs).to)
    <3>1. Head(jobs).from = resumed.from - Lead /\ Head(jobs).to = polled
      BY <2>1, <2>3, <2>6 DEF Clock
    <3>2. ASSUME NEW h \in Holes', Covered(h)' PROVE now' - Before(h)' > RestAge
      <4>1. now - Before(h)' > RestAge
        BY <1>1, <1>4, <2>2, <2>6, <3>1, <3>2, JobCovers
      <4> QED BY <1>2, <4>1
    <3>3. now' >= Dues'
      BY <1>2, <1>3, <1>5, <2>2
    <3> QED BY <1>5, <3>2, <3>3 DEF OutFilled
  <2> QED BY <1>2, <2>4, <2>5, <2>6
<1>9. CASE OutFilled
  <2>1. ASSUME NEW h \in Holes', Covered(h)' PROVE now' - Before(h)' > RestAge
    <3>1. /\ h \in Holes /\ After(h)' = After(h) /\ (Before(h)' = Before(h) \/ Published(Before(h)'))
      BY <1>2, <1>3, FilledHoles
    <3>2. Before(h)' = Before(h)
      BY <1>2, <2>1, <3>1 DEF Covered, Published
    <3>3. Covered(h)
      BY <1>2, <1>5, <2>1, <3>1, <3>2 DEF Covered, Published
    <3> QED BY <1>2, <1>9, <3>1, <3>2, <3>3 DEF OutFilled
  <2>2. now' >= Dues'
    BY <1>2, <1>5, <1>9 DEF OutFilled
  <2> QED BY <1>5, <2>1, <2>2 DEF OutFilled
<1> QED BY <1>4, <1>5, <1>6, <1>7, <1>8, <1>9

\* No step loses sight of the last outage.
LEMMA OutsKept ==
    ASSUME Timed, Timed', Outs, [Next]_vars
    PROVE  Outs'
<1>1. TypeOK /\ TypeOK' /\ Clock /\ Clock'
  BY DEF Timed
<1>2. CASE Tick
  BY <1>1, <1>2, TickOuts
<1>3. CASE Poll
  BY <1>1, <1>3, PollOuts
<1>4. CASE RunJob \/ FailJob
  BY <1>1, <1>4, JobOuts
<1>5. CASE Crash
  BY <1>5 DEF Crash, Outs
<1>6. CASE Start
  <2>1. resumed' = NoOutage
    BY <1>1, <1>6 DEF Start, Clock
  <2> QED BY <2>1 DEF Outs
<1>7. CASE UNCHANGED <<now, up, stored, pending, jobs, polled, failedAt, resumed>>
  <2>1. Dues' = Dues /\ (OutPending' <=> OutPending) /\ (OutFailed' <=> OutFailed) /\ (OutWaits' <=> OutWaits)
    BY <1>7 DEF Dues, OutPending, OutFailed, OutWaits
  <2>2. OutFilled' <=> OutFilled
    BY <1>7, <2>1 DEF OutFilled, Covered, Holes, After, Before, Published
  <2> QED BY <1>7, <2>1, <2>2 DEF Outs
<1>8. CASE Check
  BY <1>7, <1>8 DEF Check, backfiller
<1>9. CASE \E s \in {"depth", "trade"} : Connect(s) \/ Disconnect(s)
  BY <1>7, <1>9 DEF Connect, Disconnect, backfiller
<1> QED BY <1>2, <1>3, <1>4, <1>5, <1>6, <1>7, <1>8, <1>9, Steps

\* Two rounds after it was due the last outage is filled.
LEMMA OutsFill ==
    ASSUME Timed, Outs
    PROVE  OutageIsFilled
<1> SUFFICES ASSUME up, resumed # NoOutage, NEW h \in Holes, Covered(h),
                    now > Dues + 2 * JobTime - 1, failedAt < Dues
             PROVE  now - Before(h) > RestAge
  BY DEF OutageIsFilled, Covered, Dues
<1>1. TypeOK /\ Clock
  BY DEF Timed
<1>2. resumed \in Outage /\ polled # None /\ (OutPending \/ OutFailed \/ OutWaits \/ OutFilled)
  BY DEF Outs
<1>3. Dues \in Nat /\ now \in Nat /\ JobTime \in Nat \ {0} /\ polled \in -1..now /\ failedAt \in -1..now
  BY <1>1, <1>2, OutageIs
<1>4. polled \in Nat /\ now <= polled + JobTime
  BY <1>1, <1>2 DEF Clock
<1>5. ~OutPending
  BY <1>3, <1>4 DEF OutPending
<1>6. ~OutFailed
  BY <1>3 DEF OutFailed
<1>7. ~OutWaits
  BY <1>3, <1>4 DEF OutWaits
<1> QED BY <1>2, <1>5, <1>6, <1>7 DEF OutFilled

\* autobackfill.py: two rounds after the settling time of the last outage the trades REST still gives
\* are stored again, unless a job failed meanwhile.
THEOREM OutageIsFilledHolds == Spec => []OutageIsFilled
<1>1. Init => Outs
  BY DEF Init, Outs
<1>2. Timed /\ Timed' /\ Outs /\ [Next]_vars => Outs'
  BY OutsKept
<1>3. Timed /\ Outs => OutageIsFilled
  BY OutsFill
<1> QED BY <1>1, <1>2, <1>3, InitTyped, TimedKept, PTL DEF Spec

-----------------------------------------------------------------------------
(* The alerts.                                                             *)

\* What the monitor said is what it believes, a process that knew of a book knows its time, and a
\* silence that was told lasts until the book comes again.
Alerts ==
    /\ (told = "broken") <=> alerted
    /\ ~up => ~alerted /\ ~checked
    /\ up /\ known => lastDepth # None
    /\ known /\ alerted => outages # <<>> \/ now - lastDepth >= AlertAfter
    /\ AlertsMatch

\* What the book does to the alert when time passes.
LEMMA TickAlerts ==
    ASSUME TypeOK, TypeOK', Clock, Alerts, Tick
    PROVE  Alerts'
<1>1. /\ now' = now + 1 /\ checked' = FALSE
      /\ UNCHANGED <<up, conn, alerted, told, started, known>>
      /\ ("depth" \in conn /\ ReceiveDepth) \/ UNCHANGED <<lastDepth, lastBook, outages, pending, resumed>>
  BY DEF Tick, process
<1>2. /\ now \in Nat /\ lastDepth \in Span \cup {None} /\ outages \in Seq(Outage) /\ AlertAfter \in Nat \ {0}
      /\ Span \subseteq Nat
  <2>1. now \in Nat /\ lastDepth \in Span \cup {None} /\ outages \in Seq(Outage)
    BY Numbers
  <2>2. AlertAfter \in Nat \ {0} /\ MaxTime \in Nat
    BY Sizes
  <2> QED BY <2>1, <2>2 DEF Span
<1>3. alerted \in BOOLEAN /\ up \in BOOLEAN /\ known \in BOOLEAN
  BY DEF TypeOK
<1>4. ASSUME up', known' PROVE lastDepth' # None
  BY <1>1, <1>2, <1>4 DEF Alerts, ReceiveDepth, None
<1>5. ASSUME known', alerted' PROVE outages' # <<>> \/ now' - lastDepth' >= AlertAfter
  <2>1. up /\ known /\ alerted /\ lastDepth # None /\ (outages # <<>> \/ now - lastDepth >= AlertAfter)
    BY <1>1, <1>3, <1>5 DEF Alerts
  <2>2. lastDepth \in Nat
    BY <1>2, <2>1
  <2>3. CASE UNCHANGED <<lastDepth, lastBook, outages, pending, resumed>>
    BY <1>1, <1>2, <2>1, <2>2, <2>3
  <2>4. CASE ReceiveDepth /\ Broke
    <3>1. outages' = Append(outages, [from |-> lastDepth, to |-> now'])
      BY <2>4 DEF ReceiveDepth
    <3> QED BY <1>2, <3>1
  <2>5. CASE ReceiveDepth /\ ~Broke
    <3>1. outages' = outages /\ ~(now' - lastDepth >= AlertAfter)
      BY <2>1, <2>5 DEF ReceiveDepth, Broke
    <3>2. outages # <<>>
      BY <1>1, <1>2, <2>1, <2>2, <3>1
    <3> QED BY <3>1, <3>2
  <2> QED BY <1>1, <2>3, <2>4, <2>5
<1> QED BY <1>1, <1>4, <1>5 DEF Alerts, AlertsMatch

\* A check says what is.
LEMMA CheckAlerts ==
    ASSUME TypeOK, Alerts, Check
    PROVE  Alerts'
<1>1. PICK still : still = (alerted /\ outages = <<>>)
  OBVIOUS
<1>2. PICK broken : broken = (Silent >= AlertAfter /\ ~still)
  OBVIOUS
<1>3. /\ up /\ outages' = <<>> /\ checked' = TRUE /\ alerted' = (still \/ broken)
      /\ told' = IF broken THEN "broken" ELSE IF outages # <<>> THEN "restored" ELSE told
      /\ UNCHANGED <<now, up, lastDepth, started, known>>
  BY <1>1, <1>2 DEF Check, process
<1>4. still \in BOOLEAN /\ broken \in BOOLEAN /\ alerted \in BOOLEAN /\ up' = up
  BY <1>1, <1>2, <1>3 DEF TypeOK
<1>5. (told' = "broken") <=> alerted'
  <2>1. (told = "broken") <=> alerted
    BY DEF Alerts
  <2>2. CASE broken
    BY <1>3, <1>4, <2>2
  <2>3. CASE ~broken /\ outages # <<>>
    BY <1>1, <1>3, <1>4, <2>3
  <2>4. CASE ~broken /\ outages = <<>>
    BY <1>1, <1>3, <1>4, <2>1, <2>4
  <2> QED BY <1>4, <2>2, <2>3, <2>4
<1>6. ASSUME known PROVE alerted' <=> Silent >= AlertAfter
  <2>1. lastDepth # None /\ (alerted => outages # <<>> \/ now - lastDepth >= AlertAfter)
    BY <1>3, <1>6 DEF Alerts
  <2>2. Silent = now - lastDepth
    BY <2>1 DEF Silent
  <2> QED BY <1>1, <1>2, <1>3, <1>4, <2>1, <2>2
<1>7. Silent' = Silent /\ known' = known /\ lastDepth' = lastDepth /\ now' = now
  BY <1>3 DEF Silent
<1>8. up' /\ known' => lastDepth' # None
  BY <1>3 DEF Alerts
<1>9. known' /\ alerted' => now' - lastDepth' >= AlertAfter
  BY <1>3, <1>6, <1>7, <1>8 DEF Silent
<1>10. AlertsMatch'
  BY <1>5, <1>6, <1>7 DEF AlertsMatch
<1> QED BY <1>3, <1>5, <1>8, <1>9, <1>10 DEF Alerts

\* No step makes the monitor's last word wrong.
LEMMA AlertsKept ==
    ASSUME Timed, Timed', Alerts, [Next]_vars
    PROVE  Alerts'
<1>1. TypeOK /\ TypeOK' /\ Clock /\ Clock'
  BY DEF Timed
<1>2. CASE Tick
  BY <1>1, <1>2, TickAlerts
<1>3. CASE Check
  BY <1>1, <1>3, CheckAlerts
<1>4. CASE Crash
  BY <1>4 DEF Crash, Alerts, AlertsMatch, process
<1>5. CASE Start
  <2>1. /\ ~up /\ up' = TRUE /\ lastDepth' = lastBook /\ known' = (lastBook # None)
        /\ UNCHANGED <<alerted, told, checked>>
    BY <1>5 DEF Start, monitor
  <2>2. ~alerted /\ ~checked /\ ((told = "broken") <=> alerted)
    BY <2>1 DEF Alerts
  <2> QED BY <2>1, <2>2 DEF Alerts, AlertsMatch
<1>6. CASE UNCHANGED <<now, up, lastDepth, outages, alerted, told, checked, started, known>>
  BY <1>6 DEF Alerts, AlertsMatch, Silent
<1>7. CASE Poll
  BY <1>6, <1>7 DEF Poll, collector, monitor, process
<1>8. CASE RunJob \/ FailJob
  BY <1>6, <1>8 DEF RunJob, FailJob, collector, monitor, process
<1>9. CASE \E s \in {"depth", "trade"} : Connect(s) \/ Disconnect(s)
  <2>1. UNCHANGED <<now, up, lastDepth, outages, alerted, told, checked, started, known>>
    BY <1>9 DEF Connect, Disconnect, monitor, process
  <2> QED BY <1>6, <2>1
<1> QED BY <1>2, <1>3, <1>4, <1>5, <1>6, <1>7, <1>8, <1>9, Steps

\* monitor.py: after each check the last word of the monitor says whether the book is silent, in a
\* process that knew of a book before it.
THEOREM AlertsMatchHolds == Spec => []AlertsMatch
<1>1. Init => Alerts
  BY DEF Init, Alerts, AlertsMatch
<1>2. Timed /\ Timed' /\ Alerts /\ [Next]_vars => Alerts'
  BY AlertsKept
<1>3. Alerts => AlertsMatch
  BY DEF Alerts
<1> QED BY <1>1, <1>2, <1>3, InitTyped, TimedKept, PTL DEF Spec
==============================================================================
