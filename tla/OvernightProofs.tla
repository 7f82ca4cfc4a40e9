--------------------------- MODULE OvernightProofs ---------------------------
(***************************************************************************)
(* The overnight runner, for every number of nights, size of a position,   *)
(* crashes, failures and trades that show too late: types; a night is      *)
(* booked once for each time it was entered; position and open entry       *)
(* orders exceed the limit by no more than what filled between the guard's *)
(* two requests; the stop line is kept; a night that is done left no       *)
(* position; and the stop covers what was seen to be bought.               *)
(*                                                                         *)
(* Every theorem rests on TS (types, and what each step of the program     *)
(* knows of its night).  The last two rest on the order of a night's       *)
(* steps (Calmness), which tells which client ids can be known at which    *)
(* step.                                                                   *)
(***************************************************************************)
EXTENDS OvernightRunner, TLAPS, FiniteSetTheorems, WellFoundedInduction

-----------------------------------------------------------------------------
(* Sums over sets of orders.                                               *)

\* A sum over a set as the function that gives the sum of each of its subsets.
Step(F, g, s) ==
    IF s = {} THEN 0 ELSE F[CHOOSE x \in s : TRUE] + g[s \ {CHOOSE x \in s : TRUE}]
Rec(F, S, g) == g = [s \in SUBSET S |-> Step(F, g, s)]
Total(F, S) == (CHOOSE g : Rec(F, S, g))[S]

\* The sum of what orders have left is a total.
LEMMA LeftTotal ==
  ASSUME NEW S, NEW F, \A o \in S : F[o] = o.left PROVE Sum(S) = Total(F, S)
<1> DEFINE Body(g) == [s \in SUBSET S |-> IF s = {} THEN 0 ELSE (CHOOSE x \in s : TRUE).left + g[s \ {CHOOSE x \in s : TRUE}]]
           P(g) == g = Body(g)
           Q(g) == Rec(F, S, g)
<1>1. \A g : Body(g) = [s \in SUBSET S |-> Step(F, g, s)]
  <2> SUFFICES ASSUME NEW g, NEW s \in SUBSET S
               PROVE (IF s = {} THEN 0 ELSE (CHOOSE x \in s : TRUE).left + g[s \ {CHOOSE x \in s : TRUE}]) = Step(F, g, s)
    OBVIOUS
  <2> QED BY DEF Step
<1>2. Sum(S) = (CHOOSE g : P(g))[S]
  BY DEF Sum, MapThenSumSet, MapThenFoldSet
<1>3. \A g : P(g) <=> Q(g)
  BY <1>1 DEF Rec
<1>4. Total(F, S) = (CHOOSE g : Q(g))[S]
  BY DEF Total
<1>5. (CHOOSE g : P(g)) = (CHOOSE g : Q(g))
  <2> HIDE DEF P, Q
  <2> QED BY <1>3
<1> QED BY <1>2, <1>4, <1>5

\* So is the sum of what orders have filled.
LEMMA DoneTotal ==
  ASSUME NEW S, NEW F, \A o \in S : F[o] = o.done PROVE DoneSum(S) = Total(F, S)
<1> DEFINE Body(g) == [s \in SUBSET S |-> IF s = {} THEN 0 ELSE (CHOOSE x \in s : TRUE).done + g[s \ {CHOOSE x \in s : TRUE}]]
           P(g) == g = Body(g)
           Q(g) == Rec(F, S, g)
<1>1. \A g : Body(g) = [s \in SUBSET S |-> Step(F, g, s)]
  <2> SUFFICES ASSUME NEW g, NEW s \in SUBSET S
               PROVE (IF s = {} THEN 0 ELSE (CHOOSE x \in s : TRUE).done + g[s \ {CHOOSE x \in s : TRUE}]) = Step(F, g, s)
    OBVIOUS
  <2> QED BY DEF Step
<1>2. DoneSum(S) = (CHOOSE g : P(g))[S]
  BY DEF DoneSum, MapThenSumSet, MapThenFoldSet
<1>3. \A g : P(g) <=> Q(g)
  BY <1>1 DEF Rec
<1>4. Total(F, S) = (CHOOSE g : Q(g))[S]
  BY DEF Total
<1>5. (CHOOSE g : P(g)) = (CHOOSE g : Q(g))
  <2> HIDE DEF P, Q
  <2> QED BY <1>3
<1> QED BY <1>2, <1>4, <1>5

\* Of a set of finite sets, one is smallest.
LEMMA Smallest ==
  ASSUME NEW T, T # {}, \A s \in T : IsFiniteSet(s)
  PROVE  \E s \in T : \A u \in T : u \subseteq s => u = s
<1> DEFINE C == {Cardinality(s) : s \in T}
           Less == OpToRel(<, Nat)
<1>1. C \subseteq Nat /\ C # {}
  BY FS_CardinalityType
<1>2. \E x \in C : \A y \in C : <<y, x>> \notin OpToRel(<, Nat)
  BY <1>1, NatLessThanWellFounded, WFMin, Zenon
<1>3. PICK s \in T : \A y \in C : <<y, Cardinality(s)>> \notin OpToRel(<, Nat)
  BY <1>2
<1>4. \A u \in T : ~(Cardinality(u) < Cardinality(s))
  <2> SUFFICES ASSUME NEW u \in T, Cardinality(u) < Cardinality(s) PROVE FALSE
    OBVIOUS
  <2>1. Cardinality(u) \in C /\ Cardinality(u) \in Nat /\ Cardinality(s) \in Nat
    BY FS_CardinalityType
  <2> QED BY <1>3, <2>1 DEF OpToRel
<1>5. \A u \in T : u \subseteq s => u = s
  <2> SUFFICES ASSUME NEW u \in T, u \subseteq s, u # s PROVE FALSE
    OBVIOUS
  <2>1. IsFiniteSet(s) /\ IsFiniteSet(u)
    OBVIOUS
  <2>2. Cardinality(u) <= Cardinality(s) /\ Cardinality(u) # Cardinality(s)
    BY <2>1, FS_Subset
  <2>3. Cardinality(u) < Cardinality(s)
    BY <2>1, <2>2, FS_CardinalityType
  <2> QED BY <2>3, <1>4
<1> QED BY <1>5

\* Two functions that give the sums of a set's subsets agree on them.
LEMMA RecUnique ==
  ASSUME NEW F, NEW A, NEW B, NEW S, IsFiniteSet(S), S \subseteq A, S \subseteq B,
         NEW g, NEW h, Rec(F, A, g), Rec(F, B, h)
  PROVE  g[S] = h[S]
<1> DEFINE T == {s \in SUBSET S : g[s] # h[s]}
<1> SUFFICES ASSUME T # {} PROVE FALSE
  OBVIOUS
<1>1. \A s \in T : IsFiniteSet(s)
  BY FS_Subset
<1>2. PICK s \in T : \A u \in T : u \subseteq s => u = s
  <2> HIDE DEF T
  <2> QED BY <1>1, Smallest
<1>3. g[s] = Step(F, g, s) /\ h[s] = Step(F, h, s)
  BY DEF Rec
<1>4. s # {}
  BY <1>3 DEF Step
<1> DEFINE x == CHOOSE x \in s : TRUE
<1>5. x \in s
  BY <1>4
<1>6. g[s \ {x}] = h[s \ {x}]
  BY <1>2, <1>5
<1> QED BY <1>3, <1>4, <1>6 DEF Step

\* There is such a function.
LEMMA RecExists ==
  ASSUME NEW F, NEW S, IsFiniteSet(S)
  PROVE  \E g : Rec(F, S, g)
<1> DEFINE T == {s \in SUBSET S : ~\E g : Rec(F, s, g)}
<1> SUFFICES ASSUME T # {} PROVE FALSE
  OBVIOUS
<1>1. (\A s \in SUBSET S : IsFiniteSet(s)) /\ \A s \in T : IsFiniteSet(s)
  BY FS_Subset
<1>2. PICK s \in T : \A u \in T : u \subseteq s => u = s
  <2> HIDE DEF T
  <2> QED BY <1>1, Smallest
<1>3. \A u : u \subseteq s /\ u # s => \E g : Rec(F, u, g)
  BY <1>2
<1>4. \A u : u \subseteq s /\ u # s => Rec(F, u, CHOOSE g : Rec(F, u, g))
  BY <1>3
<1> DEFINE W(u) == CHOOSE g : Rec(F, u, g)
           x == CHOOSE x \in s : TRUE
           G == [u \in SUBSET s |-> IF u = s THEN Step(F, W(s \ {x}), s) ELSE W(u)[u]]
<1>5. \A u \in SUBSET s : G[u] = Step(F, G, u)
  <2> SUFFICES ASSUME NEW u \in SUBSET s PROVE G[u] = Step(F, G, u)
    OBVIOUS
  <2>1. CASE u = {} /\ u = s
    BY <2>1 DEF Step
  <2>2. CASE u = {} /\ u # s
    <3>1. Rec(F, u, W(u))
      BY <1>4, <2>2
    <3>2. W(u)[u] = Step(F, W(u), u)
      BY <3>1 DEF Rec
    <3> QED BY <3>2, <2>2 DEF Step
  <2>3. CASE u # {} /\ u = s
    <3>1. x \in s /\ s \ {x} # s
      BY <2>3
    <3>2. G[s \ {x}] = W(s \ {x})[s \ {x}]
      BY <3>1
    <3> QED BY <2>3, <3>2 DEF Step
  <2>4. CASE u # {} /\ u # s
    <3> DEFINE y == CHOOSE y \in u : TRUE
    <3>1. y \in u /\ u \ {y} \subseteq s /\ u \ {y} # s
      BY <2>4
    <3>2. Rec(F, u, W(u)) /\ Rec(F, u \ {y}, W(u \ {y}))
      BY <1>4, <2>4, <3>1
    <3>3. G[u] = W(u)[u] /\ G[u \ {y}] = W(u \ {y})[u \ {y}]
      BY <2>4, <3>1
    <3>4. W(u)[u \ {y}] = W(u \ {y})[u \ {y}]
      <4>1. IsFiniteSet(u \ {y})
        BY <1>1
      <4> HIDE DEF W, y
      <4> QED BY <3>2, <4>1, RecUnique
    <3>5. W(u)[u] = Step(F, W(u), u)
      BY <3>2 DEF Rec
    <3> QED BY <2>4, <3>3, <3>4, <3>5 DEF Step
  <2> QED BY <2>1, <2>2, <2>3, <2>4
<1>6. G = [u \in SUBSET s |-> Step(F, G, u)]
  <2> DEFINE E == [u \in SUBSET s |-> IF u = s THEN Step(F, W(s \ {x}), s) ELSE W(u)[u]]
  <2> QED BY <1>5
<1>7. Rec(F, s, G)
  <2> HIDE DEF G
  <2> QED BY <1>6 DEF Rec
<1> QED BY <1>7

\* The total of a subset is what the function of the set gives for it.
LEMMA TotalPart ==
  ASSUME NEW F, NEW S, IsFiniteSet(S), NEW g, Rec(F, S, g), NEW A, A \subseteq S
  PROVE  g[A] = Total(F, A)
<1>1. IsFiniteSet(A)
  BY FS_Subset
<1>2. PICK h : Rec(F, A, h)
  BY <1>1, RecExists
<1>3. \A k : Rec(F, A, k) => g[A] = k[A]
  <2> SUFFICES ASSUME NEW k, Rec(F, A, k) PROVE g[A] = k[A]
    OBVIOUS
  <2>1. A \subseteq A
    OBVIOUS
  <2>2. Rec(F, S, g) /\ Rec(F, A, k) /\ A \subseteq S
    OBVIOUS
  <2> QED BY ONLY <1>1, <2>1, <2>2, RecUnique
<1>4. g[A] = (CHOOSE k : Rec(F, A, k))[A]
  BY <1>2, <1>3
<1> QED BY <1>4 DEF Total

\* The total of nothing, and the total of a set by the element chosen from it.
LEMMA TotalChosen ==
  ASSUME NEW F, NEW S, IsFiniteSet(S)
  PROVE  /\ S = {} => Total(F, S) = 0
         /\ S # {} => LET x == CHOOSE x \in S : TRUE
                      IN  x \in S /\ Total(F, S) = F[x] + Total(F, S \ {x})
<1>1. PICK g : Rec(F, S, g)
  BY RecExists
<1>2. \A A : A \subseteq S => g[A] = Total(F, A)
  BY <1>1, TotalPart
<1>3. g[S] = Step(F, g, S)
  BY <1>1 DEF Rec
<1>4. S = {} => Total(F, S) = 0
  BY <1>2, <1>3 DEF Step
<1>5. ASSUME S # {}
      PROVE  LET x == CHOOSE x \in S : TRUE
             IN  x \in S /\ Total(F, S) = F[x] + Total(F, S \ {x})
  <2> DEFINE x == CHOOSE x \in S : TRUE
  <2>1. x \in S
    BY <1>5
  <2>2. g[S] = F[x] + g[S \ {x}]
    BY <1>3, <1>5 DEF Step
  <2>3. g[S] = Total(F, S) /\ g[S \ {x}] = Total(F, S \ {x})
    BY <1>2
  <2> QED BY <2>1, <2>2, <2>3
<1> QED BY <1>4, <1>5

\* A total of natural numbers is one.
LEMMA TotalNat ==
  ASSUME NEW F, NEW S, IsFiniteSet(S), \A x \in S : F[x] \in Nat
  PROVE  Total(F, S) \in Nat
<1> DEFINE T == {s \in SUBSET S : Total(F, s) \notin Nat}
<1> SUFFICES ASSUME T # {} PROVE FALSE
  OBVIOUS
<1>1. \A s \in T : IsFiniteSet(s)
  BY FS_Subset
<1>2. PICK s \in T : \A u \in T : u \subseteq s => u = s
  <2> HIDE DEF T
  <2> QED BY <1>1, Smallest
<1>3. s # {}
  <2>1. IsFiniteSet(s) /\ Total(F, s) \notin Nat
    BY <1>1
  <2>2. s = {} => Total(F, s) = 0
    BY <2>1, TotalChosen
  <2> QED BY <2>1, <2>2
<1>4. PICK x \in s : Total(F, s) = F[x] + Total(F, s \ {x})
  BY <1>1, <1>3, TotalChosen
<1>5. Total(F, s \ {x}) \in Nat
  BY <1>2, <1>4
<1> QED BY <1>4, <1>5

\* The total of a set by any of its elements.
LEMMA TotalTake ==
  ASSUME NEW F, NEW S, IsFiniteSet(S), \A x \in S : F[x] \in Nat, NEW x \in S
  PROVE  Total(F, S) = F[x] + Total(F, S \ {x})
<1> DEFINE Law(s, y) == Total(F, s) = F[y] + Total(F, s \ {y})
           T == {s \in SUBSET S : \E y \in s : ~Law(s, y)}
<1> SUFFICES ASSUME T # {} PROVE FALSE
  OBVIOUS
<1>1. (\A s \in SUBSET S : IsFiniteSet(s)) /\ \A s \in T : IsFiniteSet(s)
  BY FS_Subset
<1>2. PICK s \in T : \A u \in T : u \subseteq s => u = s
  <2> HIDE DEF T
  <2> QED BY <1>1, Smallest
<1>3. PICK y \in s : ~Law(s, y)
  OBVIOUS
<1>4. PICK z \in s : Law(s, z)
  BY <1>1, TotalChosen
<1>5. y # z
  BY <1>3, <1>4
<1>6. Law(s \ {z}, y) /\ Law(s \ {y}, z)
  BY <1>2, <1>3, <1>4, <1>5
<1>7. (s \ {z}) \ {y} = (s \ {y}) \ {z}
  OBVIOUS
<1>8. F[y] \in Nat /\ F[z] \in Nat /\ Total(F, (s \ {z}) \ {y}) \in Nat
  BY <1>1, TotalNat
<1>9. Total(F, s) = F[z] + (F[y] + Total(F, (s \ {z}) \ {y}))
  BY <1>4, <1>6
<1>10. F[y] + Total(F, s \ {y}) = F[y] + (F[z] + Total(F, (s \ {z}) \ {y}))
  BY <1>6, <1>7
<1>11. Law(s, y)
  BY <1>8, <1>9, <1>10
<1> QED BY <1>3, <1>11

\* The remaining quantities of orders add up.
LEMMA LeftTake ==
  ASSUME NEW A, IsFiniteSet(A), \A o \in A : o.left \in Nat
  PROVE  /\ Sum({}) = 0 /\ Sum(A) \in Nat
         /\ \A o \in A : Sum(A) = o.left + Sum(A \ {o})
<1> DEFINE F == [o \in A |-> o.left]
<1>1. \A o \in A : F[o] = o.left /\ F[o] \in Nat
  OBVIOUS
<1> HIDE DEF F
<1>2. \A B \in SUBSET A : Sum(B) = Total(F, B)
  BY <1>1, LeftTotal
<1>3. Sum({}) = 0
  <2>1. Sum({}) = Total(F, {})
    BY <1>2
  <2> QED BY <2>1, TotalChosen, FS_EmptySet
<1>4. Sum(A) \in Nat
  BY <1>1, <1>2, TotalNat
<1>5. ASSUME NEW o \in A PROVE Sum(A) = o.left + Sum(A \ {o})
  <2>1. Sum(A) = Total(F, A) /\ Sum(A \ {o}) = Total(F, A \ {o}) /\ F[o] = o.left
    BY <1>1, <1>2
  <2> QED BY <1>1, <2>1, TotalTake
<1> QED BY <1>3, <1>4, <1>5

\* So do the filled ones.
LEMMA DoneTake ==
  ASSUME NEW A, IsFiniteSet(A), \A o \in A : o.done \in Nat
  PROVE  /\ DoneSum({}) = 0 /\ DoneSum(A) \in Nat
         /\ \A o \in A : DoneSum(A) = o.done + DoneSum(A \ {o})
<1> DEFINE F == [o \in A |-> o.done]
<1>1. \A o \in A : F[o] = o.done /\ F[o] \in Nat
  OBVIOUS
<1> HIDE DEF F
<1>2. \A B \in SUBSET A : DoneSum(B) = Total(F, B)
  BY <1>1, DoneTotal
<1>3. DoneSum({}) = 0
  <2>1. DoneSum({}) = Total(F, {})
    BY <1>2
  <2> QED BY <2>1, TotalChosen, FS_EmptySet
<1>4. DoneSum(A) \in Nat
  BY <1>1, <1>2, TotalNat
<1>5. ASSUME NEW o \in A PROVE DoneSum(A) = o.done + DoneSum(A \ {o})
  <2>1. DoneSum(A) = Total(F, A) /\ DoneSum(A \ {o}) = Total(F, A \ {o}) /\ F[o] = o.done
    BY <1>1, <1>2
  <2> QED BY <1>1, <2>1, TotalTake
<1> QED BY <1>3, <1>4, <1>5

\* Fewer orders have no more left.
LEMMA LeftMonotone ==
  ASSUME NEW A, IsFiniteSet(A), \A o \in A : o.left \in Nat, NEW B, B \subseteq A
  PROVE  Sum(B) <= Sum(A)
<1> DEFINE T == {s \in SUBSET A : B \subseteq s /\ ~(Sum(B) <= Sum(s))}
<1> SUFFICES ASSUME T # {} PROVE FALSE
  OBVIOUS
<1>1. (\A s \in SUBSET A : IsFiniteSet(s)) /\ \A s \in T : IsFiniteSet(s)
  BY FS_Subset
<1>2. PICK s \in T : \A u \in T : u \subseteq s => u = s
  <2> HIDE DEF T
  <2> QED BY <1>1, Smallest
<1>3. Sum(B) \in Nat /\ Sum(s) \in Nat
  BY <1>1, LeftTake
<1>4. PICK o \in s : o \notin B
  BY <1>3
<1>5. Sum(B) <= Sum(s \ {o}) /\ Sum(s \ {o}) \in Nat
  BY <1>1, <1>2, <1>4, LeftTake
<1>6. Sum(s) = o.left + Sum(s \ {o}) /\ o.left \in Nat
  BY <1>1, LeftTake
<1>7. Sum(B) <= Sum(s)
  BY <1>3, <1>5, <1>6
<1> QED BY <1>7

\* One order more has at most its own quantity more left.
LEMMA LeftAdd ==
  ASSUME NEW A, IsFiniteSet(A), \A o \in A : o.left \in Nat, NEW p, p.left \in Nat
  PROVE  Sum(A \cup {p}) <= Sum(A) + p.left
<1>1. IsFiniteSet(A \cup {p}) /\ \A o \in A \cup {p} : o.left \in Nat
  BY FS_AddElement
<1>2. Sum(A \cup {p}) = p.left + Sum((A \cup {p}) \ {p})
  BY <1>1, LeftTake
<1>3. Sum((A \cup {p}) \ {p}) <= Sum(A)
  BY LeftMonotone
<1>4. Sum(A) \in Nat /\ Sum((A \cup {p}) \ {p}) \in Nat
  <2>1. IsFiniteSet((A \cup {p}) \ {p})
    BY FS_Subset
  <2> QED BY <2>1, LeftTake
<1> QED BY <1>2, <1>3, <1>4

\* What forgets the fills of orders leaves their remaining quantities alone.
LEMMA LeftImage ==
  ASSUME NEW A, IsFiniteSet(A), \A o \in A : o.left \in Nat /\ [o EXCEPT !.done = 0].left = o.left
  PROVE  Sum({[o EXCEPT !.done = 0] : o \in A}) <= Sum(A)
<1> DEFINE f(o) == [o EXCEPT !.done = 0]
           Image(s) == {f(o) : o \in s}
           T == {s \in SUBSET A : ~(Sum(Image(s)) <= Sum(s))}
<1> SUFFICES ASSUME T # {} PROVE FALSE
  OBVIOUS
<1>1. (\A s \in SUBSET A : IsFiniteSet(s)) /\ \A s \in T : IsFiniteSet(s)
  BY FS_Subset
<1>2. PICK s \in T : \A u \in T : u \subseteq s => u = s
  <2> HIDE DEF T
  <2> QED BY <1>1, Smallest
<1>3. \A u \in SUBSET A : IsFiniteSet(Image(u)) /\ \A o \in Image(u) : o.left \in Nat
  <2> SUFFICES ASSUME NEW u \in SUBSET A PROVE IsFiniteSet(Image(u)) /\ \A o \in Image(u) : o.left \in Nat
    OBVIOUS
  <2>1. IsFiniteSet(Image(u))
    <3> DEFINE m == [o \in u |-> f(o)]
    <3>1. IsFiniteSet(u)
      BY <1>1
    <3>2. m \in Surjection(u, Image(u))
      <4> HIDE DEF f
      <4> QED BY DEF Surjection
    <3> HIDE DEF m
    <3> QED BY <3>1, <3>2, FS_Surjection
  <2> QED BY <2>1
<1>4. Sum(s) \in Nat /\ Sum(Image(s)) \in Nat
  <2> HIDE DEF Image
  <2> QED BY <1>1, <1>3, LeftTake
<1>5. s # {}
  <2> SUFFICES ASSUME s = {} PROVE FALSE
    OBVIOUS
  <2>1. Image(s) = s
    OBVIOUS
  <2> QED BY <2>1, <1>4
<1>6. PICK o \in s : TRUE
  BY <1>5
<1>7. Sum(Image(s \ {o})) <= Sum(s \ {o})
  <2>1. s \ {o} \in SUBSET A /\ s \ {o} \subseteq s /\ s \ {o} # s
    BY <1>6
  <2> HIDE DEF Image
  <2> QED BY <1>2, <2>1
<1>8. Sum(s) = o.left + Sum(s \ {o}) /\ o.left \in Nat
  BY <1>1, LeftTake
<1>9. Image(s) = Image(s \ {o}) \cup {f(o)}
  <2> HIDE DEF f
  <2> QED OBVIOUS
<1>10. Sum(Image(s \ {o}) \cup {f(o)}) <= Sum(Image(s \ {o})) + o.left
  <2>1. f(o).left = o.left
    OBVIOUS
  <2> HIDE DEF Image, f
  <2> QED BY <1>3, <1>8, <2>1, LeftAdd
<1>11. Sum(Image(s \ {o})) \in Nat /\ Sum(s \ {o}) \in Nat
  <2> HIDE DEF Image
  <2> QED BY <1>1, <1>3, LeftTake
<1>12. Sum(Image(s)) <= Sum(s)
  <2> HIDE DEF Image, f
  <2> QED BY <1>4, <1>7, <1>8, <1>9, <1>10, <1>11
<1> QED BY <1>12

-----------------------------------------------------------------------------
(* Types and stages.                                                       *)

\* The sets the variables take their values from, records and all.
Legs == {"e", "s", "x", "f", "r"}
Asks == {"limitAsked", "limitPost", "marketAsked", "marketPost"}
Steps == {"start", "recover", "next", "enter", "limit", "market", "entered", "stop",
          "stopped", "hold", "force", "final", "record", "verdict", "archive",
          "residual", "down", "end"} \cup Asks
USE DEF Asks
Numbers == 0..N
NightRec == [n : Numbers, phase : Phases, qty : Nat, seq : Nat, pnl : Results \cup {0}]
GuardRec == [status : {"active", "paused", "halted"}, cum : Int, losses : Nat,
             nights : [Nights -> Nat]]
WorkRec == [leg : {"e", "x"}, qty : Nat, k : 0..MaxLimit, ret : {"next", "hold", "residual"}]
Order == [id : Numbers \X Legs \X Nat, left : Nat, done : Nat, open : BOOLEAN]
BookTyped == book \subseteq Order /\ IsFiniteSet(book)
\* A night that was chosen is one of the nights.
Dated(nt) == nt.phase # "none" => nt.n \in Nights
PlanTyped ==
    /\ night \in NightRec /\ hist \subseteq Nights
    /\ disk \in [night : NightRec, hist : SUBSET Nights]
    /\ Dated(night) /\ Dated(disk.night)
Typed ==
    /\ mode \in Modes /\ now \in 0..At(N, 7) /\ pc \in Steps
    /\ PlanTyped /\ work \in WorkRec /\ seen \in Nat /\ guard \in GuardRec
    /\ pos \in Nat /\ BookTyped
    /\ entered \in [Nights -> Nat] /\ crashes \in Nat /\ faults \in Nat

\* What each step of the program knows of its night and of its order work.
Staged ==
    /\ pc \in {"limit", "market", "entered", "stop", "stopped", "hold", "force", "final"} \cup Asks
          => Active
    /\ pc = "enter" => night.phase = "pending"
    /\ pc \in {"record", "verdict", "archive"} => night.phase = "done" /\ disk.night = night
    /\ pc \in {"limit", "market"} => work.ret = (IF work.leg = "e" THEN "hold" ELSE "residual")
    /\ pc = "force" => work.ret = "residual"
    /\ pc \in {"final", "record", "verdict", "archive"} => work.ret \in {"next", "residual"}
    /\ pc \in {"entered"} \cup Asks => work.leg = "e" /\ work.ret = "hold"
    /\ pc \in {"stop", "stopped"} => work.ret # "residual"

\* The constants.
LEMMA Constants ==
    /\ N \in Nat /\ Nights \subseteq Numbers /\ Nights \subseteq Nat /\ Numbers \subseteq Nat
    /\ 0 \in Numbers /\ Qty \in Nat /\ MaxLimit \in Nat /\ StopLine \in Nat /\ StopLine > 0
    /\ Results \subseteq Int /\ At(N, 7) \in Nat /\ 0 \in 0..MaxLimit /\ MarketNo \in Nat
BY RunnerAssumption DEF Nights, Numbers, At, Points, MarketNo

\* An order is what the runner makes it.
LEMMA NewOrderIs ==
    ASSUME night \in NightRec, NEW leg \in Legs, NEW k \in Nat, NEW l \in Nat, NEW d \in Nat,
           NEW b \in BOOLEAN
    PROVE  LET o == NewOrder(Id(leg, k), l, d, b) IN
           /\ o \in Order /\ o.id = Id(leg, k) /\ o.left = l /\ o.done = d /\ o.open = b
           /\ o.id[1] = night.n /\ o.id[2] = leg /\ o.id[3] = k
<1>1. PICK o : o = NewOrder(Id(leg, k), l, d, b)
  OBVIOUS
<1>2. /\ o \in Order /\ o.id = Id(leg, k) /\ o.left = l /\ o.done = d /\ o.open = b
      /\ o.id[1] = night.n /\ o.id[2] = leg /\ o.id[3] = k
  BY <1>1 DEF NewOrder, Id, Order, NightRec
<1> QED BY <1>1, <1>2

\* A new order of the entry leg.
LEMMA NewEntryIs ==
    ASSUME night \in NightRec, NEW k \in Nat, NEW l \in Nat, NEW b \in BOOLEAN,
           NEW o, o = NewOrder(Id("e", k), l, 0, b)
    PROVE  o \in Order /\ o.left = l
BY DEF NewOrder, Id, Order, NightRec, Legs

\* A cancelled order is closed and otherwise as it was.
LEMMA ShutIs ==
    ASSUME NEW o \in Order, NEW p, p = [o EXCEPT !.open = FALSE]
    PROVE  p \in Order /\ p.id = o.id /\ p.left = o.left /\ p.done = o.done /\ p.open = FALSE
BY DEF Order

\* An order of which q is filled and v of it is shown, and a stop that was
\* reached and sold q.
After(o, q, v) == [o EXCEPT !.left = @ - q, !.done = @ + v, !.open = @ /\ o.left > q]
Fired(o, q) == [o EXCEPT !.left = @ - q, !.done = q, !.open = FALSE]

\* A filled order has less left and more done.
LEMMA FilledIs ==
    ASSUME NEW o \in Order, NEW q \in Nat, q <= o.left, NEW v \in Nat, NEW p, p = After(o, q, v)
    PROVE  /\ p \in Order /\ p.id = o.id /\ p.left = o.left - q /\ p.done = o.done + v
           /\ p.open = (o.open /\ o.left > q)
<1>1. /\ p.id = o.id /\ p.left = o.left - q /\ p.done = o.done + v
      /\ p.open = (o.open /\ o.left > q)
      /\ p = [id |-> o.id, left |-> o.left - q, done |-> o.done + v, open |-> (o.open /\ o.left > q)]
  BY DEF Order, After
<1>2. o.left \in Nat /\ o.done \in Nat /\ o.id \in Numbers \X Legs \X Nat
  BY DEF Order
<1>3. o.left - q \in Nat /\ o.done + v \in Nat
  BY <1>2
<1>4. (o.open /\ o.left > q) \in BOOLEAN
  OBVIOUS
<1> QED BY <1>1, <1>2, <1>3, <1>4 DEF Order

\* A stop that was reached is closed.
LEMMA FiredIs ==
    ASSUME NEW o \in Order, NEW q \in Nat, q <= o.left
    PROVE  /\ Fired(o, q) \in Order /\ Fired(o, q).id = o.id
           /\ Fired(o, q).left = o.left - q /\ Fired(o, q).done = q /\ Fired(o, q).open = FALSE
<1>0. PICK p : p = Fired(o, q)
  OBVIOUS
<1>1. p = [id |-> o.id, left |-> o.left - q, done |-> q, open |-> FALSE]
  BY <1>0 DEF Order, Fired
<1>2. o.left \in Nat /\ o.id \in Numbers \X Legs \X Nat
  BY DEF Order
<1>3. o.left - q \in Nat
  BY <1>2
<1>4. p \in Order
  BY <1>1, <1>2, <1>3 DEF Order
<1> QED BY <1>0, <1>1, <1>4

\* The live broker forgets what an open order has filled.
LEMMA ReadIs ==
    ASSUME NEW o \in Order, NEW p, p = [o EXCEPT !.done = 0]
    PROVE  p \in Order /\ p.id = o.id /\ p.left = o.left /\ p.done = 0 /\ p.open = o.open
BY DEF Order

-----------------------------------------------------------------------------
(* What the steps do to the book.                                          *)

Same == book' = book
\* An order is added.
Adds(leg, k, l, d, b) == book' = book \cup {NewOrder(Id(leg, k), l, d, b)}
\* Open orders are cancelled.
Shuts(os) == os \subseteq Open /\ book' = (book \ os) \cup Shut(os)
\* The closed orders of earlier nights are forgotten.
Forgets == book' = {o \in book : o.open \/ o.id[1] = night.n}
\* The closed orders of the finished night are.
Drops == book' = Open
\* The live broker reads the open orders.
Reads == book' = {[o EXCEPT !.done = 0] : o \in Open}
Fires(o) ==
    book' = (book \ {o}) \cup
            {[o EXCEPT !.left = @ - Sells(o.left), !.done = Sells(o.left), !.open = FALSE]}

\* The quantities of orders are what the steps can work with.
LEMMA Quantities ==
    ASSUME Typed
    PROVE  /\ Filled \in Nat /\ Rest \in Int /\ (Rest > 0 => Rest \in Nat)
           /\ \A l \in Nat : Sells(l) \in Nat /\ Sells(l) <= l /\ Sells(l) <= pos
           /\ StopQty \in Nat
<1>1. IsFiniteSet(Ours) /\ \A o \in Ours : o.done \in Nat
  <2>1. Ours \subseteq book
    BY DEF Ours
  <2> QED BY <2>1, FS_Subset DEF Typed, BookTyped, Order
<1>2. Filled \in Nat
  BY <1>1, DoneTake DEF Filled
<1>3. work.qty \in Nat /\ night.qty \in Nat /\ pos \in Nat
  BY DEF Typed, WorkRec, PlanTyped, NightRec
<1>4. Rest \in Int /\ (Rest > 0 => Rest \in Nat)
  <2> QED BY <1>2, <1>3 DEF Rest
<1>5. \A l \in Nat : Sells(l) \in Nat /\ Sells(l) <= l /\ Sells(l) <= pos
  BY <1>3 DEF Sells, Lesser
<1> QED BY <1>2, <1>3, <1>4, <1>5 DEF StopQty

\* What the broker shows of a quantity is at most that.
LEMMA ShownIs ==
    ASSUME NEW q \in Nat, NEW v \in ShownOf(q)
    PROVE  v \in Nat /\ v <= q /\ q - v \in Nat
BY DEF ShownOf

\* Every such step keeps the orders well formed.
LEMMA AddsTyped ==
    ASSUME Typed, NEW leg \in Legs, NEW k \in Nat, NEW l \in Nat, NEW d \in Nat,
           NEW b \in BOOLEAN, Adds(leg, k, l, d, b)
    PROVE  BookTyped'
<1>1. NewOrder(Id(leg, k), l, d, b) \in Order
  BY NewOrderIs DEF Typed, PlanTyped
<1> QED BY <1>1, FS_AddElement DEF Typed, BookTyped, Adds

\* Orders that are cancelled stay orders.
LEMMA ShutsTyped ==
    ASSUME Typed, NEW os, Shuts(os)
    PROVE  BookTyped'
<1>1. os \subseteq book /\ book \subseteq Order /\ IsFiniteSet(book)
  BY DEF Shuts, Open, Typed, BookTyped
<1>2. Shut(os) \subseteq Order
  BY <1>1, ShutIs DEF Shut
<1>3. IsFiniteSet(Shut(os))
  <2> DEFINE f(o) == [o EXCEPT !.open = FALSE]
             m == [o \in os |-> f(o)]
  <2>1. IsFiniteSet(os)
    BY <1>1, FS_Subset
  <2>2. Shut(os) = {f(o) : o \in os}
    BY DEF Shut
  <2>3. m \in Surjection(os, {f(o) : o \in os})
    <3> HIDE DEF f
    <3> QED BY DEF Surjection
  <2> HIDE DEF m, f
  <2> QED BY <2>1, <2>2, <2>3, FS_Surjection
<1>4. IsFiniteSet(book \ os)
  BY <1>1, FS_Subset
<1> QED BY <1>1, <1>2, <1>3, <1>4, FS_Union DEF Shuts, BookTyped

\* Forgetting orders leaves orders.
LEMMA ForgetsTyped ==
    ASSUME Typed, Forgets \/ Drops
    PROVE  BookTyped'
BY FS_Subset DEF Typed, BookTyped, Forgets, Drops, Open

\* The orders that the live broker reads are orders.
LEMMA ReadsTyped ==
    ASSUME Typed, Reads
    PROVE  BookTyped'
<1> DEFINE f(o) == [o EXCEPT !.done = 0]
           m == [o \in Open |-> f(o)]
<1>1. Open \subseteq book /\ book \subseteq Order /\ IsFiniteSet(Open)
  BY FS_Subset DEF Open, Typed, BookTyped
<1>2. book' \subseteq Order
  BY <1>1, ReadIs DEF Reads
<1>3. m \in Surjection(Open, {f(o) : o \in Open})
  <2> HIDE DEF f
  <2> QED BY DEF Surjection
<1>4. IsFiniteSet({f(o) : o \in Open})
  <2> HIDE DEF f, m
  <2> QED BY <1>1, <1>3, FS_Surjection
<1> QED BY <1>2, <1>4 DEF Reads, BookTyped

\* An order that is filled stays an order.
LEMMA FillTyped ==
    ASSUME Typed, NEW o \in book, NEW q \in Nat, q <= o.left, Fill(o, q)
    PROVE  BookTyped'
<1>0. PICK v \in ShownOf(q) : book' = (book \ {o}) \cup {After(o, q, v)}
  BY DEF Fill, After
<1> DEFINE p == After(o, q, v)
<1>1. o \in Order /\ book \subseteq Order /\ IsFiniteSet(book)
  BY DEF Typed, BookTyped
<1>2. p \in Order
  BY <1>1, FilledIs, ShownIs
<1>3. book' = (book \ {o}) \cup {p}
  BY <1>0
<1> HIDE DEF p
<1>4. IsFiniteSet(book \ {o})
  BY <1>1, FS_Subset
<1> QED BY <1>1, <1>2, <1>3, <1>4, FS_AddElement DEF BookTyped

\* A stop that was reached stays an order.
LEMMA FiresTyped ==
    ASSUME Typed, NEW o \in book, Fires(o)
    PROVE  BookTyped'
<1> DEFINE q == Sells(o.left)
           p == Fired(o, q)
<1>1. o \in Order /\ book \subseteq Order /\ IsFiniteSet(book)
  BY DEF Typed, BookTyped
<1>2. p \in Order
  <2>1. o.left \in Nat
    BY <1>1 DEF Order
  <2> HIDE DEF q
  <2>2. q \in Nat /\ q <= o.left
    BY <2>1, Quantities DEF q
  <2> QED BY <1>1, <2>2, FiredIs
<1>3. book' = (book \ {o}) \cup {p}
  BY DEF Fires, Fired
<1> HIDE DEF p
<1>4. IsFiniteSet(book \ {o})
  BY <1>1, FS_Subset
<1> QED BY <1>1, <1>2, <1>3, <1>4, FS_AddElement DEF BookTyped

Plan == night \in NightRec /\ hist \subseteq Nights /\ Dated(night)

\* Saving keeps the plan well formed.
LEMMA SaveTyped ==
    ASSUME Plan', Save PROVE PlanTyped'
<1>1. disk' = [night |-> night', hist |-> hist']
  BY DEF Save
<1> QED BY <1>1 DEF Plan, PlanTyped

\* _skip makes a night a skipped one and saves it.
LEMMA SkipTyped ==
    ASSUME PlanTyped, NEW nt \in NightRec, nt.n \in Nights, SkipNight(nt)
    PROVE  PlanTyped' /\ night'.phase = "skipped" /\ night'.n = nt.n
<1>1. night' = [nt EXCEPT !.phase = "skipped"] /\ hist' = hist \cup {nt.n} /\ Save
  BY DEF SkipNight
<1>2. night' \in NightRec /\ night'.n = nt.n /\ night'.phase = "skipped"
  BY <1>1 DEF NightRec, Phases
<1> QED BY <1>1, <1>2, SaveTyped DEF Plan, PlanTyped, Dated

\* A new phase changes nothing else of the night, and is saved.
LEMMA PhaseTyped ==
    ASSUME PlanTyped, night.n \in Nights, NEW p \in Phases, SetPhase(p)
    PROVE  /\ PlanTyped' /\ night'.phase = p /\ night'.n = night.n /\ disk' = [night |-> night', hist |-> hist]
           /\ night'.qty = night.qty /\ night'.seq = night.seq
<1>1. night' = [night EXCEPT !.phase = p] /\ hist' = hist /\ Save
  BY DEF SetPhase
<1>2. /\ night' \in NightRec /\ night'.n = night.n /\ night'.phase = p
      /\ night'.qty = night.qty /\ night'.seq = night.seq
  BY <1>1 DEF NightRec, PlanTyped
<1>3. PlanTyped'
  BY <1>1, <1>2, SaveTyped DEF Plan, PlanTyped, Dated
<1> QED BY <1>1, <1>2, <1>3 DEF Save

\* A night that begins is pending.
LEMMA NewNightIs ==
    ASSUME NEW n \in Nights
    PROVE  NewNight(n) \in NightRec /\ NewNight(n).n = n /\ NewNight(n).phase = "pending"
BY Constants DEF NewNight, NightRec, Phases

\* Halting changes the guard's status only.
LEMMA HaltTyped ==
    ASSUME guard \in GuardRec
    PROVE  /\ Halt(guard) \in GuardRec /\ Halt(guard).status = "halted"
           /\ Halt(guard).cum = guard.cum /\ Halt(guard).nights = guard.nights
BY DEF Halt, GuardRec

\* When the program ends, what the next one reads has its types, and the end is counted.
LEMMA DownTyped ==
    ASSUME Typed, Down
    PROVE  /\ pc' \in Steps /\ PlanTyped' /\ work' \in WorkRec /\ seen' \in Nat /\ BookTyped'
           /\ entered' = entered /\ crashes' \in Nat /\ crashes' # 0
<1>1. PlanTyped'
  BY DEF Down, Typed, PlanTyped
<1>2. BookTyped'
  <2>1. CASE mode = "paper"
    BY <2>1 DEF Down, Typed, BookTyped
  <2>2. CASE mode # "paper"
    BY <2>2, ReadsTyped DEF Down, Reads
  <2> QED BY <2>1, <2>2
<1>3. work' \in WorkRec /\ seen' \in Nat /\ entered' = entered
  BY Constants DEF Down, Idle, WorkRec
<1> QED BY <1>1, <1>2, <1>3 DEF Down, Typed, Steps

\* The first state has the types.
LEMMA InitTyped == Init => Typed /\ Staged
<1> SUFFICES ASSUME Init PROVE Typed /\ Staged
  OBVIOUS
<1>1. [NewNight(0) EXCEPT !.phase = "none"] \in NightRec
  BY Constants DEF NewNight, NightRec, Phases
<1>2. PlanTyped /\ night.phase = "none"
  BY <1>1 DEF Init, PlanTyped, Dated, NewNight
<1>3. work \in WorkRec
  BY Constants DEF Init, Idle, WorkRec
<1>4. guard \in GuardRec /\ entered \in [Nights -> Nat]
  BY DEF Init, GuardRec
<1>5. BookTyped
  BY FS_EmptySet DEF Init, BookTyped
<1>6. mode \in Modes /\ now \in 0..At(N, 7)
  BY Constants, RunnerAssumption DEF Init
<1>7. Staged
  BY DEF Init, Staged
<1> QED BY <1>2, <1>3, <1>4, <1>5, <1>6, <1>7 DEF Init, Typed, Steps

TS == Typed /\ Staged

\* Starting and recover keep types and stages.
LEMMA RecoverTyped ==
    ASSUME TS, LookAtPosition \/ RecoverHeld \/ RecoverUnentered \/ RecoverFlat \/ RecoverIdle
               \/ Restart
    PROVE  TS'
<1>1. CASE LookAtPosition
  <2>1. UNCHANGED <<mode, now, plan, work, guard, exch, crashes, faults>> /\ pc' = "recover" /\ seen' = pos
    BY <1>1 DEF LookAtPosition
  <2>2. Typed'
    BY <2>1 DEF TS, Typed, PlanTyped, BookTyped, plan, exch, Steps
  <2> QED BY <2>1, <2>2 DEF TS, Staged, plan
<1>2. CASE RecoverHeld
  <2>1. /\ night' = [night EXCEPT !.qty = seen] /\ work' = [work EXCEPT !.ret = "next"] /\ seen' = 0
        /\ UNCHANGED <<mode, now, hist, disk, entered, guard, pos, book, crashes, faults>>
        /\ Active /\ pc' \in {"stop", "stopped"}
    BY <1>2 DEF RecoverHeld, exch
  <2>2. night' \in NightRec /\ night'.n = night.n /\ night'.phase = night.phase
    BY <2>1 DEF TS, Typed, PlanTyped, NightRec
  <2>3. work' \in WorkRec /\ work'.ret = "next"
    BY <2>1 DEF TS, Typed, WorkRec
  <2>4. Typed'
    BY <2>1, <2>2, <2>3 DEF TS, Typed, PlanTyped, Dated, BookTyped, Steps
  <2> QED BY <2>1, <2>2, <2>3, <2>4 DEF TS, Staged, Dated, Active
<1>3. CASE RecoverUnentered
  <2>1. /\ SkipNight(night) /\ night.phase = "entering" /\ pc' = "next" /\ seen' = 0
        /\ UNCHANGED <<mode, now, work, guard, pos, book, entered, crashes, faults>>
    BY <1>3 DEF RecoverUnentered, exch, SkipNight
  <2>2. PlanTyped'
    BY <2>1, SkipTyped DEF TS, Typed, PlanTyped, Dated
  <2>3. Typed'
    BY <2>1, <2>2 DEF TS, Typed, BookTyped, Steps
  <2> QED BY <2>1, <2>2, <2>3 DEF TS, Staged, PlanTyped
<1>4. CASE RecoverFlat
  <2>1. /\ night.phase \in {"holding", "exiting"} /\ pc' = "final"
        /\ work' = [work EXCEPT !.ret = "next"] /\ seen' = 0
        /\ UNCHANGED <<mode, now, plan, guard, pos, book, crashes, faults>>
    BY <1>4 DEF RecoverFlat, exch
  <2>2. work' \in WorkRec /\ work'.ret = "next"
    BY <2>1 DEF TS, Typed, WorkRec
  <2>3. Typed'
    BY <2>1, <2>2 DEF TS, Typed, PlanTyped, plan, BookTyped, Steps
  <2> QED BY <2>1, <2>2, <2>3 DEF TS, Staged, plan, Active
<1>5. CASE RecoverIdle
  <2>1. /\ pc' = "next" /\ seen' = 0 /\ UNCHANGED <<mode, now, plan, work, pos, crashes, faults>>
    BY <1>5 DEF RecoverIdle
  <2>2. guard' \in GuardRec
    BY <1>5, HaltTyped DEF RecoverIdle, TS, Typed
  <2>3. BookTyped'
    <3>1. CASE book' = book
      BY <3>1 DEF TS, Typed, BookTyped
    <3>2. CASE Shuts(Open)
      BY <3>2, ShutsTyped DEF TS
    <3> QED BY <1>5, <3>1, <3>2 DEF RecoverIdle, Shuts
  <2>4. Typed'
    BY <2>1, <2>2, <2>3 DEF TS, Typed, PlanTyped, plan, Steps
  <2> QED BY <2>1, <2>4 DEF TS, Staged, plan
<1>6. CASE Restart
  <2>1. UNCHANGED <<mode, now, plan, work, seen, guard, exch, crashes, faults>> /\ pc' = "start"
    BY <1>6 DEF Restart
  <2>2. Typed'
    BY <2>1 DEF TS, Typed, PlanTyped, BookTyped, plan, exch, Steps
  <2> QED BY <2>1, <2>2 DEF TS, Staged, plan
<1> QED BY <1>1, <1>2, <1>3, <1>4, <1>5, <1>6

\* Choosing a night keeps types and stages.
LEMMA ChooseTyped ==
    ASSUME TS, PassNight \/ ResumeNight \/ LateNight \/ BeginNight \/ NoNight
    PROVE  TS'
<1>1. CASE PassNight \/ LateNight
  <2>1. /\ \E n \in Nights : SkipNight(NewNight(n))
        /\ UNCHANGED <<mode, now, pc, work, seen, guard, exch, crashes, faults, entered>> /\ pc = "next"
    BY <1>1 DEF PassNight, LateNight, Left, SkipNight
  <2>2. PlanTyped'
    BY <2>1, SkipTyped, NewNightIs DEF TS, Typed
  <2>3. Typed'
    BY <2>1, <2>2 DEF TS, Typed, BookTyped, exch
  <2> QED BY <2>1, <2>2, <2>3 DEF TS, Staged, PlanTyped
<1>2. CASE ResumeNight
  <2>1. /\ UNCHANGED <<mode, now, plan, work, seen, guard, exch, crashes, faults>> /\ pc' = "hold"
        /\ night.phase = "holding"
    BY <1>2 DEF ResumeNight
  <2>2. Typed'
    BY <2>1 DEF TS, Typed, PlanTyped, BookTyped, plan, exch, Steps
  <2> QED BY <2>1, <2>2 DEF TS, Staged, plan, Active
<1>3. CASE BeginNight
  <2>1. PICK n \in Nights : night' = NewNight(n)
    BY <1>3 DEF BeginNight, Left
  <2>2. UNCHANGED <<mode, now, hist, disk, entered, work, seen, guard, exch, crashes, faults>> /\ pc' = "enter"
    BY <1>3 DEF BeginNight
  <2>3. PlanTyped' /\ night'.phase = "pending"
    BY <2>1, <2>2, NewNightIs DEF TS, Typed, PlanTyped, Dated
  <2>4. Typed'
    BY <2>2, <2>3 DEF TS, Typed, BookTyped, exch, Steps
  <2> QED BY <2>2, <2>3, <2>4 DEF TS, Staged, PlanTyped
<1>4. CASE NoNight
  <2>1. UNCHANGED <<mode, now, plan, work, seen, guard, exch, crashes, faults>> /\ pc' = "end"
    BY <1>4 DEF NoNight
  <2>2. Typed'
    BY <2>1 DEF TS, Typed, PlanTyped, BookTyped, plan, exch, Steps
  <2> QED BY <2>1, <2>2 DEF TS, Staged, plan
<1> QED BY <1>1, <1>2, <1>3, <1>4

\* The program ends and its memory is gone.
LEMMA DownStep ==
    ASSUME TS, Down, UNCHANGED <<mode, now>>, guard' \in GuardRec, pos' \in Nat, faults' \in Nat
    PROVE  TS'
<1>1. Typed'
  BY DownTyped DEF TS, Typed
<1>2. pc' = "down"
  BY DEF Down
<1> QED BY <1>1, <1>2 DEF TS, Typed, PlanTyped, Staged

\* Entering a night keeps types and stages, up to its orders and after them.
LEMMA EnterTyped ==
    ASSUME TS, EnterRefused \/ EnterNight \/ EntryEmpty \/ EntryFilled
    PROVE  TS'
<1>0. night.phase # "none" => night.n \in Nights
  BY DEF TS, Typed, PlanTyped, Dated
<1>1. CASE EnterRefused
  <2>1. /\ SkipNight(night) /\ pc' = "next" /\ UNCHANGED <<mode, now, work, seen, exch, crashes, entered>>
        /\ pc = "enter"
    BY <1>1 DEF EnterRefused, SkipNight
  <2>2. guard' \in GuardRec /\ faults' \in Nat
    BY <1>1, HaltTyped DEF EnterRefused, Unhealthy, Fails, Works, TS, Typed
  <2>3. PlanTyped'
    BY <1>0, <2>1, SkipTyped DEF TS, Typed, PlanTyped, Staged
  <2>4. Typed'
    BY <2>1, <2>2, <2>3 DEF TS, Typed, BookTyped, exch, Steps
  <2> QED BY <2>1, <2>3, <2>4 DEF TS, Staged, PlanTyped
<1>2. CASE EnterNight
  <2>1. /\ SetPhase("entering") /\ pc' \in {"limit", "market"} /\ Forgets /\ pc = "enter"
        /\ entered' = [entered EXCEPT ![night.n] = @ + 1]
        /\ work' = [leg |-> "e", qty |-> Qty, k |-> 0, ret |-> "hold"]
        /\ UNCHANGED <<mode, now, seen, guard, pos, crashes, faults>>
    BY <1>2 DEF EnterNight, Forgets
  <2>2. night.n \in Nights
    BY <1>0, <2>1 DEF TS, Staged
  <2>3. PlanTyped' /\ night'.phase = "entering"
    BY <2>1, <2>2, PhaseTyped DEF TS, Typed, Phases
  <2>4. entered' \in [Nights -> Nat]
    BY <2>1, <2>2 DEF TS, Typed
  <2>5. work' \in WorkRec
    BY <2>1, Constants DEF WorkRec
  <2>6. BookTyped'
    BY <2>1, ForgetsTyped DEF TS
  <2>7. Typed'
    BY <2>1, <2>3, <2>4, <2>5, <2>6 DEF TS, Typed, Steps
  <2> QED BY <2>1, <2>3, <2>7 DEF TS, Staged, PlanTyped, Active
<1>3. CASE EntryEmpty
  <2>1. /\ SkipNight(night) /\ pc' = "next" /\ work' = Idle /\ pc = "entered"
        /\ UNCHANGED <<mode, now, seen, guard, exch, crashes, faults, entered>>
    BY <1>3 DEF EntryEmpty, SkipNight
  <2>2. PlanTyped'
    BY <1>0, <2>1, SkipTyped DEF TS, Typed, PlanTyped, Staged, Active
  <2>3. work' \in WorkRec
    BY <2>1, Constants DEF Idle, WorkRec
  <2>4. Typed'
    BY <2>1, <2>2, <2>3 DEF TS, Typed, BookTyped, exch, Steps
  <2> QED BY <2>1, <2>2, <2>4 DEF TS, Staged, PlanTyped
<1>4. CASE EntryFilled
  <2>1. /\ night' = [night EXCEPT !.qty = Filled] /\ pc' = "stop" /\ pc = "entered"
        /\ UNCHANGED <<mode, now, hist, disk, entered, work, seen, guard, exch, crashes, faults>>
    BY <1>4 DEF EntryFilled
  <2>2. night' \in NightRec /\ night'.n = night.n /\ night'.phase = night.phase
    BY <2>1, Quantities DEF TS, Typed, PlanTyped, NightRec
  <2>3. Typed'
    BY <2>1, <2>2 DEF TS, Typed, PlanTyped, Dated, BookTyped, exch, Steps
  <2> QED BY <2>1, <2>2, <2>3 DEF TS, Staged, Dated, Active
<1> QED BY <1>1, <1>2, <1>3, <1>4

\* The stop that is placed is an order.
LEMMA StopKnownTyped ==
    ASSUME TS, NEW b \in BOOLEAN, book' = StopKnown(b)
    PROVE  BookTyped'
<1>1. CASE Known(Id("s", night.seq))
  BY <1>1 DEF StopKnown, TS, Typed, BookTyped
<1>2. CASE ~Known(Id("s", night.seq))
  <2>1. Adds("s", night.seq, StopQty, 0, b)
    BY <1>2 DEF StopKnown, Adds
  <2>2. night.seq \in Nat
    BY DEF TS, Typed, PlanTyped, NightRec
  <2> QED BY <2>1, <2>2, AddsTyped, Quantities DEF TS, Legs
<1> QED BY <1>1, <1>2

\* Placing the stop and holding keep types and stages.
LEMMA StopTyped ==
    ASSUME TS, PlaceStop \/ HoldNight \/ StoppedOut
    PROVE  TS'
<1>0. night.phase # "none" => night.n \in Nights
  BY DEF TS, Typed, PlanTyped, Dated
<1>1. ASSUME PlaceStop PROVE TS'
  <2>1. CASE NoMarketData
    <3>1. guard' \in GuardRec /\ faults' \in Nat /\ Down /\ pos' = pos
      BY <2>1, HaltTyped DEF NoMarketData, Fails, TS, Typed
    <3> QED BY <1>1, <3>1, DownStep DEF PlaceStop, TS, Typed
  <2>2. CASE ~NoMarketData
    <3>1. /\ pc = "stop" /\ pc' = "stopped" /\ night' = [night EXCEPT !.seq = @ + 1]
          /\ UNCHANGED <<mode, now, hist, disk, entered, work, seen, pos, crashes>>
      BY <1>1, <2>2 DEF PlaceStop
    <3>2. /\ guard' \in {guard, Halt(guard)} /\ (faults' = faults \/ faults' = faults + 1)
          /\ book' \in {book, StopKnown(FALSE), StopKnown(TRUE)}
      BY <1>1, <2>2 DEF PlaceStop, Works, Fails
    <3>3. guard' \in GuardRec /\ faults' \in Nat
      BY <3>2, HaltTyped DEF TS, Typed
    <3>4. BookTyped'
      BY <3>2, StopKnownTyped DEF TS, Typed, BookTyped
    <3>5. night' \in NightRec /\ night'.n = night.n /\ night'.phase = night.phase
      BY <3>1 DEF TS, Typed, PlanTyped, NightRec
    <3>6. Typed'
      BY <3>1, <3>3, <3>4, <3>5 DEF TS, Typed, PlanTyped, Dated, Steps
    <3> QED BY <3>1, <3>5, <3>6 DEF TS, Staged, Dated, Active
  <2> QED BY <2>1, <2>2
<1>2. CASE HoldNight
  <2>1. /\ SetPhase("holding") /\ pc' = work.ret /\ work' = Idle /\ pc = "stopped"
        /\ UNCHANGED <<mode, now, entered, seen, guard, exch, crashes, faults>>
    BY <1>2 DEF HoldNight
  <2>2. PlanTyped' /\ night'.phase = "holding"
    BY <1>0, <2>1, PhaseTyped DEF TS, Typed, Staged, Active, Phases
  <2>3. work' \in WorkRec
    BY <2>1, Constants DEF Idle, WorkRec
  <2>4. pc' \in {"next", "hold"}
    BY <2>1 DEF TS, Typed, WorkRec, Staged
  <2>5. Typed'
    BY <2>1, <2>2, <2>3, <2>4 DEF TS, Typed, BookTyped, exch, Steps
  <2> QED BY <2>2, <2>4, <2>5 DEF TS, Staged, PlanTyped, Active
<1>3. CASE StoppedOut
  <2>1. /\ pc = "hold" /\ pc' = "final" /\ work' = [work EXCEPT !.ret = "residual"]
        /\ UNCHANGED <<mode, now, plan, seen, guard, exch, crashes, faults>>
    BY <1>3 DEF StoppedOut
  <2>2. work' \in WorkRec /\ work'.ret = "residual"
    BY <2>1 DEF TS, Typed, WorkRec
  <2>3. Typed'
    BY <2>1, <2>2 DEF TS, Typed, PlanTyped, BookTyped, plan, exch, Steps
  <2> QED BY <2>1, <2>2, <2>3 DEF TS, Staged, plan, Active
<1> QED BY <1>1, <1>2, <1>3

\* The exchange refuses the order, or the guard does.
Rejected == Leave /\ guard' \in {guard, Halt(guard)} /\ (Fails \/ faults' = faults)

\* A refused order keeps types and stages.
LEMMA RefusedTyped ==
    ASSUME TS, pc \in {"limit", "market"} \cup Asks, Rejected, UNCHANGED <<mode, now>>
    PROVE  TS'
<1>1. UNCHANGED <<plan, exch, crashes>> /\ pc' = AfterWork /\ seen' = 0
  BY DEF Rejected, Leave
<1>2. guard' \in GuardRec /\ faults' \in Nat
  BY HaltTyped DEF Rejected, Fails, TS, Typed
<1>3. work' \in WorkRec /\ work'.leg = work.leg /\ work'.ret = work.ret
  BY Constants DEF Rejected, Leave, TS, Typed, WorkRec
<1>4. pc' \in {"entered", "force"} /\ (pc' = "entered" <=> work.leg = "e")
  BY <1>1 DEF AfterWork
<1>5. Typed'
  BY <1>1, <1>2, <1>3, <1>4 DEF TS, Typed, PlanTyped, BookTyped, plan, exch, Steps
<1> QED BY <1>1, <1>3, <1>4, <1>5 DEF TS, Staged, plan, Active

\* The guard refuses the order, or asks for the position and then for the open orders.
Moves(next) == pc' = next /\ UNCHANGED <<plan, work, exch, crashes, guard, faults>>
LEMMA AskIs ==
    ASSUME TS, AskPosition \/ AskOrders
    PROVE  /\ UNCHANGED <<mode, missed, now>> /\ work.leg = "e" /\ pc \notin {"limitPost", "marketPost"}
           /\ \/ Rejected /\ UNCHANGED <<guard, faults>>
              \/ /\ AskPosition /\ Moves(IF pc = "limit" THEN "limitAsked" ELSE "marketAsked")
                 /\ guard.status = "active" /\ seen' = pos
                 /\ pc = "limit" => Current = {}
              \/ /\ AskOrders /\ Moves(IF pc = "limitAsked" THEN "limitPost" ELSE "marketPost")
                 /\ pc \in {"limitAsked", "marketAsked"} /\ MayOpen(Rest) /\ seen' = 0
<1>1. CASE AskPosition
  BY <1>1 DEF AskPosition, Rejected, Moves, LimitDue
<1>2. CASE AskOrders
  BY <1>2 DEF AskOrders, Rejected, Moves, TS, Staged
<1> QED BY <1>1, <1>2

\* Asking keeps types and stages.
LEMMA AskTyped ==
    ASSUME TS, AskPosition \/ AskOrders
    PROVE  TS'
<1>1. /\ UNCHANGED <<mode, now>> /\ work.leg = "e"
      /\ pc \in {"limit", "market"} \cup Asks
  BY AskIs DEF AskPosition, AskOrders
<1>2. CASE Rejected
  BY <1>1, <1>2, RefusedTyped
<1>3. CASE ~Rejected
  <2>1. pc' \in Asks /\ UNCHANGED <<plan, work, exch, crashes, guard, faults>> /\ seen' \in {pos, 0}
    BY <1>3, AskIs DEF Moves
  <2>2. Typed'
    BY <1>1, <2>1 DEF TS, Typed, PlanTyped, BookTyped, plan, exch, Steps
  <2> QED BY <1>1, <2>1, <2>2 DEF TS, Staged, plan, Active
<1> QED BY <1>2, <1>3

\* Placing a limit order keeps types and stages.
LEMMA PlaceLimitTyped ==
    ASSUME TS, PlaceLimit
    PROVE  TS'
<1>1. /\ pc \in {"limit", "limitPost"} /\ work.k < MaxLimit /\ Rest > 0 /\ UNCHANGED <<mode, now>>
      /\ work.ret = (IF work.leg = "e" THEN "hold" ELSE "residual")
  BY DEF PlaceLimit, LimitDue, TS, Staged
<1>2. CASE Refused
  BY <1>1, <1>2, RefusedTyped DEF Refused, Rejected
<1>3. CASE NoMarketData
  <2>1. guard' \in GuardRec /\ faults' \in Nat /\ Down /\ pos' = pos
    BY <1>3, HaltTyped DEF NoMarketData, Fails, TS, Typed
  <2> QED BY <1>1, <2>1, DownStep DEF TS, Typed
<1>4. CASE ~Refused /\ ~NoMarketData
  <2>1. /\ work' = [work EXCEPT !.k = @ + 1] /\ pc' = "limit"
        /\ UNCHANGED <<plan, seen, guard, pos, crashes, faults>>
        /\ book' = book \/ \E b \in BOOLEAN : Adds(work.leg, work.k, Rest, 0, b)
    BY <1>4 DEF PlaceLimit, Works, Adds
  <2>2. work' \in WorkRec /\ work'.leg = work.leg /\ work'.ret = work.ret
    <3>1. work.k + 1 \in 0..MaxLimit
      BY <1>1, Constants DEF TS, Typed, WorkRec
    <3> QED BY <2>1, <3>1 DEF TS, Typed, WorkRec
  <2>3. BookTyped'
    <3>1. work.k \in Nat /\ work.leg \in Legs /\ Rest \in Nat
      BY <1>1, Quantities, Constants DEF TS, Typed, WorkRec, Legs
    <3> QED BY <2>1, <3>1, AddsTyped DEF TS, Typed, BookTyped
  <2>4. Typed'
    BY <1>1, <2>1, <2>2, <2>3 DEF TS, Typed, PlanTyped, plan, Steps
  <2> QED BY <1>1, <2>1, <2>2, <2>4 DEF TS, Staged, plan, Active
<1> QED BY <1>2, <1>3, <1>4

\* Leaving and cancelling limit orders keep types and stages.
LEMMA LimitTyped ==
    ASSUME TS, CancelLimit \/ LimitOver \/ NoRest
    PROVE  TS'
<1>1. CASE CancelLimit
  <2>1. /\ Shuts(Current) /\ UNCHANGED <<mode, now, pc, plan, work, seen, guard, pos, crashes, faults>>
    BY <1>1 DEF CancelLimit, Shuts, Current, Ours, Open
  <2>2. BookTyped'
    BY <2>1, ShutsTyped DEF TS
  <2>3. Typed'
    BY <2>1, <2>2 DEF TS, Typed, PlanTyped, plan
  <2> QED BY <2>1, <2>3 DEF TS, Staged, plan, Active
<1>2. CASE LimitOver
  <2>1. /\ pc = "limit" /\ pc' = "market"
        /\ UNCHANGED <<mode, now, plan, work, seen, guard, exch, crashes, faults>>
    BY <1>2 DEF LimitOver
  <2>2. Typed'
    BY <2>1 DEF TS, Typed, PlanTyped, BookTyped, plan, exch, Steps
  <2> QED BY <2>1, <2>2 DEF TS, Staged, plan, Active
<1>3. CASE NoRest
  <2>1. /\ pc = "market" /\ pc' = AfterWork
        /\ UNCHANGED <<mode, now, plan, work, seen, guard, exch, crashes, faults>>
    BY <1>3 DEF NoRest
  <2>2. pc' \in {"entered", "force"} /\ (pc' = "entered" <=> work.leg = "e")
    BY <2>1 DEF AfterWork
  <2>3. Typed'
    BY <2>1, <2>2 DEF TS, Typed, PlanTyped, BookTyped, plan, exch, Steps
  <2> QED BY <2>1, <2>2, <2>3 DEF TS, Staged, plan, Active
<1> QED BY <1>1, <1>2, <1>3

\* The market order of a leg is filled at once, and shown in time or not.
Bought(leg, q) ==
    /\ pos' = IF leg = "e" THEN pos + q ELSE pos - q
    /\ \E v \in ShownOf(q) : Adds(leg, MarketNo, 0, v, FALSE) /\ late' = late + (q - v)
    /\ pc' = AfterWork /\ UNCHANGED <<mode, now, plan, work, seen, guard, crashes, faults>>

\* A market order is refused, finds no market data, or is filled at once.
LEMMA PlaceMarketIs ==
    ASSUME TS, PlaceMarket
    PROVE  /\ pc \in {"market", "marketPost"} /\ Rest > 0 /\ UNCHANGED <<mode, now, raced>>
           /\ ~Known(Id(work.leg, MarketNo))
           /\ \/ Refused /\ late' = late
              \/ NoMarketData /\ late' = late
              \/ work.leg = "e" /\ pc = "marketPost" /\ Bought("e", Rest)
              \/ work.leg = "x" /\ pc = "market" /\ Bought("x", Sells(Rest))
<1>1. /\ pc \in {"market", "marketPost"} /\ Rest > 0 /\ UNCHANGED <<mode, now, raced>>
      /\ ~Known(Id(work.leg, MarketNo))
  BY DEF PlaceMarket, MarketDue
<1>2. \/ work.leg = "e" /\ pc = "marketPost"
      \/ work.leg = "x" /\ pc = "market"
  BY DEF PlaceMarket, TS, Staged
<1> QED BY <1>1, <1>2 DEF PlaceMarket, Bought, Works, Adds

\* Placing a market order keeps types and stages.
LEMMA PlaceMarketTyped ==
    ASSUME TS, PlaceMarket
    PROVE  TS'
<1>1. pc \in {"market", "marketPost"} /\ Rest > 0 /\ UNCHANGED <<mode, now>>
  BY PlaceMarketIs
<1>2. CASE Refused
  BY <1>1, <1>2, RefusedTyped DEF Refused, Rejected
<1>3. CASE NoMarketData
  <2>1. guard' \in GuardRec /\ faults' \in Nat /\ Down /\ pos' = pos
    BY <1>3, HaltTyped DEF NoMarketData, Fails, TS, Typed
  <2> QED BY <1>1, <2>1, DownStep DEF TS, Typed
<1>4. ASSUME NEW leg \in {"e", "x"}, NEW q \in Nat, leg = work.leg, leg = "x" => q <= pos, Bought(leg, q)
      PROVE  TS'
  <2>1. BookTyped'
    BY <1>4, AddsTyped, ShownIs, Constants DEF Bought, TS, Legs
  <2>2. pos' \in Nat
    BY <1>4 DEF Bought, TS, Typed
  <2>3. /\ pc' \in {"entered", "force"} /\ (pc' = "entered" <=> work.leg = "e")
        /\ UNCHANGED <<mode, now, plan, work, seen, guard, crashes, faults>>
    BY <1>4 DEF AfterWork, Bought
  <2>4. Typed'
    BY <2>1, <2>2, <2>3 DEF TS, Typed, PlanTyped, plan, Steps
  <2> QED BY <1>1, <2>3, <2>4 DEF TS, Staged, plan, Active
<1>5. Rest \in Nat /\ Sells(Rest) \in Nat /\ Sells(Rest) <= pos
  BY <1>1, Quantities DEF TS
<1> QED BY <1>2, <1>3, <1>4, <1>5, PlaceMarketIs

\* Closing all of the position finds it closed, closes it, or ends the program.
LEMMA CloseAllIs ==
    ASSUME NEW leg, NEW next, NEW g, CloseAll(leg, next, g)
    PROVE  \/ /\ pos = 0 \/ Known(Id(leg, 0))
              /\ pc' = next /\ guard' = g /\ faults' = faults
              /\ UNCHANGED <<plan, work, seen, exch, crashes>>
           \/ /\ pc' = next /\ guard' = g /\ faults' = faults /\ pos' = 0 /\ Adds(leg, 0, 0, pos, FALSE)
              /\ ~Known(Id(leg, 0)) /\ UNCHANGED <<plan, work, seen, crashes>>
           \/ Fails /\ guard' \in {g, Halt(g)} /\ Down /\ pos' = pos
BY DEF CloseAll, Works, Adds

\* Closing all of the position keeps types and stages.
LEMMA CloseAllTyped ==
    ASSUME TS, NEW leg \in {"f", "r"}, NEW next, NEW g \in GuardRec,
           CloseAll(leg, next, g), UNCHANGED <<mode, now>>,
           \/ pc = "force" /\ next = "final"
           \/ pc = "residual" /\ next = "next"
    PROVE  TS'
<1>1. ASSUME Fails, guard' \in {g, Halt(g)}, Down, pos' = pos PROVE TS'
  <2>1. Halt(g) \in GuardRec
    BY DEF Halt, GuardRec
  <2>2. guard' \in GuardRec /\ faults' \in Nat
    BY <1>1, <2>1 DEF Fails, TS, Typed
  <2> QED BY <1>1, <2>2, DownStep DEF TS, Typed
<1>2. ASSUME pc' = next, guard' = g, faults' = faults, pos' \in Nat, BookTyped',
             UNCHANGED <<plan, work, seen, crashes>>
      PROVE  TS'
  <2>1. Typed'
    BY <1>2 DEF TS, Typed, PlanTyped, plan, Steps
  <2> QED BY <1>2, <2>1 DEF TS, Staged, plan, Active
<1>3. pos \in Nat /\ leg \in Legs
  BY DEF TS, Typed, Legs
<1>4. book' = book => BookTyped'
  BY DEF TS, Typed, BookTyped
<1>5. Adds(leg, 0, 0, pos, FALSE) => BookTyped'
  BY <1>3, AddsTyped DEF TS
<1>6. CASE /\ pos = 0 \/ Known(Id(leg, 0))
           /\ pc' = next /\ guard' = g /\ faults' = faults
           /\ UNCHANGED <<plan, work, seen, exch, crashes>>
  BY <1>2, <1>3, <1>4, <1>6 DEF exch
<1>7. CASE /\ pc' = next /\ guard' = g /\ faults' = faults /\ pos' = 0 /\ Adds(leg, 0, 0, pos, FALSE)
           /\ UNCHANGED <<plan, work, seen, crashes>>
  BY <1>2, <1>5, <1>7
<1>8. CASE Fails /\ guard' \in {g, Halt(g)} /\ Down /\ pos' = pos
  BY <1>1, <1>8
<1> QED BY <1>6, <1>7, <1>8, CloseAllIs

\* Leaving a night keeps types and stages.
LEMMA LeaveTyped ==
    ASSUME TS, StartExit \/ ForceExit \/ ResidualCheck \/ Finalize
    PROVE  TS'
<1>0. night.phase # "none" => night.n \in Nights
  BY DEF TS, Typed, PlanTyped, Dated
<1>1. CASE StartExit
  <2>1. /\ SetPhase("exiting") /\ pc = "hold" /\ pc' \in {"force", "limit", "market"}
        /\ work' = [leg |-> "x", qty |-> pos, k |-> 0, ret |-> "residual"]
        /\ UNCHANGED <<mode, now, entered, seen, guard, exch, crashes, faults>>
    BY <1>1 DEF StartExit
  <2>2. PlanTyped' /\ night'.phase = "exiting"
    BY <1>0, <2>1, PhaseTyped DEF TS, Typed, Staged, Active, Phases
  <2>3. work' \in WorkRec
    BY <2>1, Constants DEF WorkRec, TS, Typed
  <2>4. Typed'
    BY <2>1, <2>2, <2>3 DEF TS, Typed, BookTyped, exch, Steps
  <2> QED BY <2>1, <2>2, <2>4 DEF TS, Staged, PlanTyped, Active
<1>2. CASE ForceExit
  <2>1. guard \in GuardRec
    BY DEF TS, Typed
  <2> QED BY <1>2, <2>1, CloseAllTyped DEF ForceExit
<1>3. CASE ResidualCheck
  <2> DEFINE g == IF pos # 0 THEN Halt(guard) ELSE guard
  <2>1. g \in GuardRec
    BY HaltTyped DEF TS, Typed
  <2>2. CloseAll("r", "next", g) /\ pc = "residual" /\ UNCHANGED <<mode, now>>
    BY <1>3 DEF ResidualCheck
  <2> HIDE DEF g
  <2> QED BY <2>1, <2>2, CloseAllTyped
<1>4. CASE Finalize
  <2>1. /\ pc = "final" /\ pc' = "record" /\ Shuts(Open) /\ hist' = hist /\ Save
        /\ UNCHANGED <<mode, now, entered, work, seen, guard, pos, crashes, faults>>
    BY <1>4 DEF Finalize, Shuts
  <2>2. PICK pnl \in Results : night' = [night EXCEPT !.phase = "done", !.pnl = pnl]
    BY <1>4 DEF Finalize
  <2>3. night' \in NightRec /\ night'.phase = "done" /\ night'.n = night.n
    BY <2>2 DEF TS, Typed, PlanTyped, NightRec, Phases
  <2>4. PlanTyped'
    BY <1>0, <2>1, <2>3, SaveTyped DEF TS, Typed, PlanTyped, Plan, Dated, Staged, Active
  <2>5. BookTyped'
    BY <2>1, ShutsTyped DEF TS
  <2>6. Typed'
    BY <2>1, <2>4, <2>5 DEF TS, Typed, Steps
  <2>7. disk'.night = night'
    BY <2>1 DEF Save
  <2> QED BY <2>1, <2>3, <2>4, <2>6, <2>7 DEF TS, Staged, PlanTyped
<1> QED BY <1>1, <1>2, <1>3, <1>4

\* Booking a night with the guard, and archiving it, keep types and stages.
LEMMA BookTypedNight ==
    ASSUME TS, RecordNight \/ JudgeNight \/ Archive
    PROVE  TS'
<1>0. night.phase # "none" => night.n \in Nights
  BY DEF TS, Typed, PlanTyped, Dated
<1>1. CASE RecordNight
  <2>1. /\ pc = "record" /\ pc' = "verdict"
        /\ UNCHANGED <<mode, now, plan, work, seen, exch, crashes, faults>>
        /\ guard' = [guard EXCEPT !.cum = @ + night.pnl,
                              !.losses = IF night.pnl < 0 THEN @ + 1 ELSE 0,
                              !.nights[night.n] = @ + 1]
    BY <1>1 DEF RecordNight
  <2>2. guard' \in GuardRec
    <3>1. night.n \in Nights /\ night.pnl \in Int
      BY <1>0, <2>1, Constants DEF TS, Staged, Typed, PlanTyped, NightRec
    <3>2. guard.cum + night.pnl \in Int /\ (IF night.pnl < 0 THEN guard.losses + 1 ELSE 0) \in Nat
      BY <3>1 DEF TS, Typed, GuardRec
    <3>3. [guard.nights EXCEPT ![night.n] = @ + 1] \in [Nights -> Nat]
      BY <3>1 DEF TS, Typed, GuardRec
    <3>4. guard' = [status |-> guard.status, cum |-> guard.cum + night.pnl,
                    losses |-> IF night.pnl < 0 THEN guard.losses + 1 ELSE 0,
                    nights |-> [guard.nights EXCEPT ![night.n] = @ + 1]]
      BY <2>1 DEF TS, Typed, GuardRec
    <3> QED BY <3>2, <3>3, <3>4 DEF TS, Typed, GuardRec
  <2>3. Typed'
    BY <2>1, <2>2 DEF TS, Typed, PlanTyped, BookTyped, plan, exch, Steps
  <2> QED BY <2>1, <2>3 DEF TS, Staged, plan
<1>2. CASE JudgeNight
  <2>1. /\ pc = "verdict" /\ pc' = "archive"
        /\ UNCHANGED <<mode, now, plan, work, seen, exch, crashes, faults>>
    BY <1>2 DEF JudgeNight
  <2>2. guard' \in GuardRec
    <3>1. [guard EXCEPT !.status = "paused"] \in GuardRec
      BY DEF TS, Typed, GuardRec
    <3> QED BY <1>2, <3>1, HaltTyped DEF JudgeNight, TS, Typed
  <2>3. Typed'
    BY <2>1, <2>2 DEF TS, Typed, PlanTyped, BookTyped, plan, exch, Steps
  <2> QED BY <2>1, <2>3 DEF TS, Staged, plan
<1>3. CASE Archive
  <2>1. /\ pc = "archive" /\ pc' = work.ret /\ work' = Idle
        /\ hist' = hist \cup {night.n} /\ night' = night /\ Save /\ Drops
        /\ UNCHANGED <<mode, now, entered, seen, guard, pos, crashes, faults>>
    BY <1>3 DEF Archive, Drops
  <2>2. PlanTyped'
    BY <1>0, <2>1, SaveTyped DEF TS, Typed, PlanTyped, Plan, Dated, Staged
  <2>3. work' \in WorkRec
    BY <2>1, Constants DEF Idle, WorkRec
  <2>4. pc' \in {"next", "residual"}
    BY <2>1 DEF TS, Staged
  <2>6. BookTyped'
    BY <2>1, ForgetsTyped DEF TS
  <2>5. Typed'
    BY <2>1, <2>2, <2>3, <2>4, <2>6 DEF TS, Typed, Steps
  <2> QED BY <2>4, <2>5, <2>2 DEF TS, Staged, PlanTyped
<1> QED BY <1>1, <1>2, <1>3

\* What is filled of an order at once is at most what it has left.
LEMMA FillSizesAre ==
    ASSUME TS, NEW o \in book, NEW q \in FillSizes(o)
    PROVE  q \in Nat /\ q <= o.left /\ o.left \in Nat
<1>1. o.left \in Nat
  BY DEF TS, Typed, BookTyped, Order
<1> QED BY <1>1 DEF FillSizes

\* The exchange, the clock and a crash keep types and stages.
LEMMA EnvironmentTyped ==
    ASSUME TS, Exchange \/ Tick \/ Crash
    PROVE  TS'
<1>1. CASE EntryFills
  <2>1. PICK o \in OpenLeg("e") : \E q \in FillSizes(o) : Fill(o, q) /\ pos' = pos + q
    BY <1>1 DEF EntryFills
  <2>2. UNCHANGED <<mode, now, pc, plan, work, seen, guard, crashes, faults>>
    BY <1>1 DEF EntryFills
  <2>3. o \in book
    BY DEF OpenLeg, Open
  <2>7. PICK q \in FillSizes(o) : Fill(o, q) /\ pos' = pos + q
    BY <2>1
  <2>4. q \in Nat /\ q <= o.left
    BY <2>3, FillSizesAre
  <2>5. BookTyped' /\ pos' \in Nat
    BY <2>7, <2>3, <2>4, FillTyped DEF TS, Typed
  <2>6. Typed'
    BY <2>2, <2>5 DEF TS, Typed, PlanTyped, plan
  <2> QED BY <2>2, <2>6 DEF TS, Staged, plan, Active
<1>2. CASE ExitFills
  <2>1. PICK o \in OpenLeg("x") : \E q \in FillSizes(o) : q <= pos /\ Fill(o, q) /\ pos' = pos - q
    BY <1>2 DEF ExitFills
  <2>2. UNCHANGED <<mode, now, pc, plan, work, seen, guard, crashes, faults>>
    BY <1>2 DEF ExitFills
  <2>3. o \in book
    BY DEF OpenLeg, Open
  <2>7. PICK q \in FillSizes(o) : q <= pos /\ Fill(o, q) /\ pos' = pos - q
    BY <2>1
  <2>4. q \in Nat /\ q <= o.left
    BY <2>3, FillSizesAre
  <2>5. BookTyped' /\ pos' \in Nat
    BY <2>7, <2>3, <2>4, FillTyped DEF TS, Typed
  <2>6. Typed'
    BY <2>2, <2>5 DEF TS, Typed, PlanTyped, plan
  <2> QED BY <2>2, <2>6 DEF TS, Staged, plan, Active
<1>3. CASE StopFires
  <2>1. PICK o \in OpenLeg("s") : pos' = pos - Sells(o.left) /\ Fires(o)
    BY <1>3 DEF StopFires, Fires
  <2>2. UNCHANGED <<mode, now, pc, plan, work, seen, guard, crashes, faults>>
    BY <1>3 DEF StopFires
  <2>3. o \in book /\ o.left \in Nat
    BY DEF OpenLeg, Open, TS, Typed, BookTyped, Order
  <2>4. BookTyped'
    BY <2>1, <2>3, FiresTyped DEF TS
  <2>5. pos' \in Nat
    <3>1. Sells(o.left) \in Nat /\ Sells(o.left) <= pos /\ pos \in Nat
      BY <2>3, Quantities DEF TS, Typed
    <3> QED BY <2>1, <3>1
  <2>6. Typed'
    BY <2>2, <2>4, <2>5 DEF TS, Typed, PlanTyped, plan
  <2> QED BY <2>2, <2>6 DEF TS, Staged, plan, Active
<1>4. CASE Tick
  <2>1. /\ now' = now + 1 /\ now < At(N, 7)
        /\ UNCHANGED <<mode, pc, plan, work, seen, guard, exch, crashes, faults>>
    BY <1>4 DEF Tick
  <2>2. now' \in 0..At(N, 7)
    BY <2>1, Constants DEF TS, Typed
  <2>3. Typed'
    BY <2>1, <2>2 DEF TS, Typed, PlanTyped, BookTyped, plan, exch
  <2> QED BY <2>1, <2>3 DEF TS, Staged, plan, Active
<1>5. CASE Crash
  <2>1. Down /\ UNCHANGED <<mode, now, guard, pos, faults>>
    BY <1>5 DEF Crash
  <2> QED BY <2>1, DownStep DEF TS, Typed
<1> QED BY <1>1, <1>2, <1>3, <1>4, <1>5 DEF Exchange

\* Every step keeps types and stages.
LEMMA NextTyped == TS /\ [Next]_vars => TS'
<1> SUFFICES ASSUME TS, [Next]_vars PROVE TS'
  OBVIOUS
<1>1. CASE UNCHANGED vars
  BY <1>1 DEF vars, TS, Typed, PlanTyped, Dated, BookTyped, Staged, Active
<1>2. CASE Runner
  BY <1>2, RecoverTyped, ChooseTyped, EnterTyped, StopTyped, AskTyped, PlaceLimitTyped, LimitTyped,
     PlaceMarketTyped, LeaveTyped, BookTypedNight DEF Runner
<1>3. CASE Exchange \/ Tick \/ Crash
  BY <1>3, EnvironmentTyped
<1>4. CASE Restart
  BY <1>4, RecoverTyped
<1> QED BY <1>1, <1>2, <1>3, <1>4 DEF Next

\* What was missed is counted.
Missed == late \in Nat /\ raced \in Nat

\* Every step keeps it so: no more is shown than was filled.
LEMMA NextMissed ==
    ASSUME TS, Missed, [Next]_vars
    PROVE  Missed' /\ raced' >= raced
<1>0. late \in Nat /\ raced \in Nat
  BY DEF Missed
<1>1. CASE EntryFills \/ ExitFills
  <2>1. PICK o \in book : \E q \in FillSizes(o) : Fill(o, q) /\ raced' \in {raced, raced + q}
    BY <1>1 DEF EntryFills, ExitFills, OpenLeg, Open
  <2>2. PICK q \in FillSizes(o) : Fill(o, q) /\ raced' \in {raced, raced + q}
    BY <2>1
  <2>3. q \in Nat
    BY FillSizesAre
  <2>4. PICK v \in ShownOf(q) : late' = late + (q - v)
    BY <2>2 DEF Fill
  <2>5. q - v \in Nat
    BY <2>3, ShownIs
  <2> QED BY <1>0, <2>2, <2>3, <2>4, <2>5 DEF Missed
<1>2. CASE PlaceMarket
  <2>1. Rest \in Nat /\ Sells(Rest) \in Nat
    BY <1>2, PlaceMarketIs, Quantities DEF TS
  <2>2. late' = late \/ \E q \in Nat : \E v \in ShownOf(q) : late' = late + (q - v)
    BY <1>2, <2>1, PlaceMarketIs DEF Bought
  <2>3. late' \in Nat
    BY <1>0, <2>2, ShownIs
  <2>4. raced' = raced
    BY <1>2, PlaceMarketIs
  <2> QED BY <1>0, <2>3, <2>4 DEF Missed
<1>3. CASE Runner /\ ~PlaceMarket
  <2>1. late' \in {late, 0} /\ raced' = raced
    BY <1>3 DEF Runner, LookAtPosition, RecoverHeld, RecoverUnentered, RecoverFlat, RecoverIdle,
       PassNight, ResumeNight, LateNight, BeginNight, NoNight, EnterRefused, EnterNight, EntryEmpty,
       EntryFilled, PlaceStop, HoldNight, AskPosition, AskOrders, PlaceLimit, CancelLimit, LimitOver,
       NoRest, StoppedOut, StartExit, ForceExit, ResidualCheck, Finalize, RecordNight, JudgeNight,
       Archive, missed
  <2> QED BY <1>0, <2>1 DEF Missed
<1>4. CASE StopFires \/ Tick \/ Restart \/ Crash \/ UNCHANGED vars
  <2>1. late' = late /\ raced' = raced
    BY <1>4 DEF StopFires, Tick, Restart, Crash, vars, missed
  <2> QED BY <1>0, <2>1 DEF Missed
<1> QED BY <1>1, <1>2, <1>3, <1>4 DEF Next, Exchange

\* Types.  Every variable of the runner, runner.json, the guard's file and the exchange keeps
\* its type; in particular no order turns the long into a short.
THEOREM TypesHold == Spec => []TypeOK
<1>1. TS /\ Missed => TypeOK
  <2> SUFFICES ASSUME TS, Missed PROVE TypeOK
    OBVIOUS
  <2>1. /\ mode \in Modes /\ now \in 0..At(N, 7) /\ pc \in Steps /\ hist \subseteq Nights
        /\ disk.hist \subseteq Nights /\ seen \in Nat /\ pos \in Nat
    BY DEF TS, Typed, PlanTyped
  <2>2. NightOK(night) /\ NightOK(disk.night)
    BY DEF TS, Typed, PlanTyped, NightRec, NightOK, Numbers
  <2>3. work.leg \in {"e", "x"} /\ work.qty \in Nat /\ work.k \in 0..MaxLimit
    BY DEF TS, Typed, WorkRec
  <2>4. guard.status \in {"active", "paused", "halted"} /\ guard.cum \in Int
    BY DEF TS, Typed, GuardRec
  <2>5. \A o \in book : o.left \in Nat /\ o.done \in Nat /\ o.open \in BOOLEAN
    BY DEF TS, Typed, BookTyped, Order
  <2> QED BY <2>1, <2>2, <2>3, <2>4, <2>5 DEF TypeOK, Steps, Missed
<1>2. Init => TS /\ Missed
  BY InitTyped DEF TS, Init, Missed
<1>3. TS /\ Missed /\ [Next]_vars => (TS /\ Missed)'
  BY NextTyped, NextMissed
<1> QED BY <1>1, <1>2, <1>3, PTL DEF Spec

-----------------------------------------------------------------------------
(* Booking a night once.                                                   *)

\* A night that was entered and is not done yet is not booked for this entry.
Under(nt) == nt.phase \in {"entering", "holding", "exiting"}
Owed(nt) == Under(nt) => guard.nights[nt.n] < entered[nt.n]
Owing ==
    /\ RecordedOnce /\ Owed(night) /\ Owed(disk.night)
    /\ pc = "record" => guard.nights[night.n] < entered[night.n]

\* What all steps but two do: no night is booked or entered, and a night under
\* way was under way, in memory or in runner.json.
Heir(nt) == Under(nt) => \/ Under(night) /\ nt.n = night.n
                         \/ Under(disk.night) /\ nt.n = disk.night.n
Inherits ==
    /\ guard'.nights = guard.nights /\ entered' = entered
    /\ Heir(night') /\ Heir(disk'.night)
    /\ pc' = "record" => \/ pc = "record" /\ night' = night
                         \/ Active /\ night'.n = night.n

\* Halting forgets no night that was booked.
LEMMA HaltNights == Halt(guard).nights = guard.nights
BY DEF Halt

\* The next program inherits the night of runner.json, which is owed if this one was.
LEMMA DownInherits ==
    ASSUME TS, Down, guard' \in {guard, Halt(guard), Halt(Halt(guard))}
    PROVE  Inherits
<1>1. guard'.nights = guard.nights
  BY HaltNights DEF Halt
<1> QED BY <1>1 DEF Down, Inherits, Heir

\* A step of the runner keeps the nights owed, but for entering, booking and archiving.
LEMMA RunnerInherits ==
    ASSUME TS, Runner, ~RecordNight, ~EnterNight
    PROVE  Inherits
<1>0. night \in NightRec /\ guard \in GuardRec /\ Halt(guard).nights = guard.nights
  BY HaltNights DEF TS, Typed, PlanTyped
<1>1. CASE LookAtPosition \/ RecoverFlat \/ RecoverIdle \/ ResumeNight \/ NoNight
  BY <1>0, <1>1 DEF LookAtPosition, RecoverFlat, RecoverIdle, ResumeNight, NoNight, plan, Inherits, Heir
<1>2. CASE RecoverHeld
  <2>1. night'.n = night.n /\ night'.phase = night.phase /\ disk' = disk /\ entered' = entered /\ guard' = guard
        /\ pc' # "record"
    BY <1>0, <1>2 DEF RecoverHeld, NightRec
  <2> QED BY <2>1 DEF Inherits, Heir, Under
<1>3. CASE RecoverUnentered \/ EntryEmpty
  <2>1. night' = [night EXCEPT !.phase = "skipped"] /\ disk'.night = night' /\ entered' = entered
        /\ guard' = guard /\ pc' # "record"
    BY <1>3 DEF RecoverUnentered, EntryEmpty, SkipNight, Save
  <2> QED BY <1>0, <2>1 DEF Inherits, Heir, Under, NightRec
<1>4. CASE PassNight \/ LateNight
  <2>1. /\ \E n \in Nights : night' = [NewNight(n) EXCEPT !.phase = "skipped"]
        /\ disk'.night = night' /\ entered' = entered /\ guard' = guard /\ pc' # "record"
    BY <1>4 DEF PassNight, LateNight, SkipNight, Left, Save
  <2> QED BY <1>0, <2>1, NewNightIs DEF Inherits, Heir, Under, NightRec
<1>5. CASE BeginNight
  <2>1. /\ \E n \in Nights : night' = NewNight(n)
        /\ disk' = disk /\ entered' = entered /\ guard' = guard /\ pc' # "record"
    BY <1>5 DEF BeginNight, Left
  <2> QED BY <2>1, NewNightIs DEF Inherits, Heir, Under
<1>6. CASE EnterRefused
  <2>1. night' = [night EXCEPT !.phase = "skipped"] /\ disk'.night = night' /\ entered' = entered
        /\ guard' \in {guard, Halt(guard)} /\ pc' # "record"
    BY <1>6 DEF EnterRefused, Unhealthy, SkipNight, Save
  <2> QED BY <1>0, <2>1 DEF Inherits, Heir, Under, NightRec
<1>7. CASE EntryFilled
  <2>1. night'.n = night.n /\ night'.phase = night.phase /\ disk' = disk /\ entered' = entered /\ guard' = guard
        /\ pc' # "record"
    BY <1>0, <1>7 DEF EntryFilled, NightRec
  <2> QED BY <2>1 DEF Inherits, Heir, Under
<1>8. CASE PlaceStop
  <2>1. CASE NoMarketData
    BY <2>1, DownInherits DEF NoMarketData
  <2>2. CASE ~NoMarketData
    <3>1. night'.n = night.n /\ night'.phase = night.phase /\ disk' = disk /\ entered' = entered
          /\ guard' \in {guard, Halt(guard)} /\ pc' # "record"
      BY <1>0, <1>8, <2>2 DEF PlaceStop, NightRec
    <3> QED BY <1>0, <3>1 DEF Inherits, Heir, Under
  <2> QED BY <2>1, <2>2
<1>9. CASE HoldNight \/ StartExit
  <2>1. /\ \E p \in {"holding", "exiting"} : night' = [night EXCEPT !.phase = p]
        /\ disk'.night = night' /\ entered' = entered /\ guard' = guard /\ Active /\ pc' # "record"
    BY <1>9 DEF HoldNight, StartExit, SetPhase, Save, TS, Staged, Typed, WorkRec
  <2>2. night'.n = night.n
    BY <1>0, <2>1 DEF NightRec
  <2> QED BY <2>1, <2>2 DEF Inherits, Heir, Under, Active
<1>10. CASE PlaceLimit \/ PlaceMarket
  <2>1. CASE NoMarketData
    BY <2>1, DownInherits DEF NoMarketData
  <2>2. CASE Refused
    <3>1. UNCHANGED plan /\ guard' \in {guard, Halt(guard)} /\ pc' # "record"
      BY <2>2 DEF Refused, Leave, AfterWork
    <3> QED BY <1>0, <3>1 DEF Inherits, Heir, plan
  <2>3. CASE ~Refused /\ ~NoMarketData
    <3>1. UNCHANGED plan /\ guard' = guard /\ pc' # "record"
      BY <1>10, <2>3 DEF PlaceLimit, PlaceMarket, AfterWork
    <3> QED BY <3>1 DEF Inherits, Heir, plan
  <2> QED BY <2>1, <2>2, <2>3
<1>11. CASE CancelLimit \/ LimitOver \/ NoRest \/ StoppedOut \/ JudgeNight
  <2>1. UNCHANGED plan /\ guard'.nights = guard.nights /\ pc' # "record"
    BY <1>0, <1>11 DEF CancelLimit, LimitOver, NoRest, StoppedOut, JudgeNight, AfterWork, GuardRec
  <2> QED BY <2>1 DEF Inherits, Heir, plan
<1>12. CASE ForceExit \/ ResidualCheck
  <2> DEFINE g == IF pos # 0 THEN Halt(guard) ELSE guard
  <2>1. \/ CloseAll("f", "final", guard)
        \/ CloseAll("r", "next", g)
    BY <1>12 DEF ForceExit, ResidualCheck
  <2>2. CASE Down
    <3>1. guard' \in {guard, Halt(guard), Halt(Halt(guard))}
      BY <2>1 DEF CloseAll
    <3> QED BY <2>2, <3>1, DownInherits
  <2>3. CASE ~Down
    <3>1. UNCHANGED plan /\ guard' \in {guard, Halt(guard)} /\ pc' # "record"
      BY <2>1, <2>3 DEF CloseAll
    <3> QED BY <1>0, <3>1 DEF Inherits, Heir, plan
  <2> QED BY <2>2, <2>3
<1>13. CASE Finalize
  <2>1. /\ \E pnl \in Results : night' = [night EXCEPT !.phase = "done", !.pnl = pnl]
        /\ disk'.night = night' /\ entered' = entered /\ guard' = guard /\ Active
    BY <1>13 DEF Finalize, Save, TS, Staged
  <2>2. night'.n = night.n /\ night'.phase = "done"
    BY <1>0, <2>1 DEF NightRec
  <2> QED BY <2>1, <2>2 DEF Inherits, Heir, Under
<1>14. CASE Archive
  <2>1. night' = night /\ disk'.night = night' /\ entered' = entered /\ guard' = guard /\ pc' # "record"
    BY <1>14 DEF Archive, Save, TS, Staged
  <2> QED BY <2>1 DEF Inherits, Heir
<1>15. CASE AskPosition \/ AskOrders
  <2>1. UNCHANGED plan /\ guard' = guard /\ pc' # "record"
    BY <1>15, AskIs DEF Rejected, Leave, Moves, AfterWork
  <2> QED BY <2>1 DEF Inherits, Heir, plan
<1> QED BY <1>1, <1>2, <1>3, <1>4, <1>5, <1>6, <1>7, <1>8, <1>9, <1>10, <1>11, <1>12, <1>13, <1>14, <1>15 DEF Runner

\* Every step keeps the nights owed.
LEMMA NextOwing == TS /\ Owing /\ [Next]_vars => Owing'
<1> SUFFICES ASSUME TS, Owing, [Next]_vars PROVE Owing'
  OBVIOUS
<1>0. /\ night \in NightRec /\ guard.nights \in [Nights -> Nat] /\ entered \in [Nights -> Nat]
      /\ Under(night) => night.n \in Nights
      /\ Under(disk.night) => disk.night.n \in Nights
  BY DEF TS, Typed, PlanTyped, Dated, GuardRec, Under
<1>1. ASSUME Inherits PROVE Owing'
  <2>1. RecordedOnce' /\ Owed(night)' /\ Owed(disk.night)'
    BY <1>1 DEF Owing, RecordedOnce, Owed, Inherits, Heir
  <2>2. pc' = "record" => guard'.nights[night'.n] < entered'[night'.n]
    BY <1>1 DEF Owing, Owed, Inherits, Active, Under
  <2> QED BY <2>1, <2>2 DEF Owing
<1>2. CASE RecordNight
  <2>1. /\ pc = "record" /\ pc' = "verdict" /\ night' = night /\ disk' = disk /\ entered' = entered
        /\ guard'.nights = [guard.nights EXCEPT ![night.n] = @ + 1]
    BY <1>2 DEF RecordNight, plan, TS, Typed, GuardRec
  <2>2. night.phase = "done" /\ disk.night = night /\ night.n \in Nights
    BY <2>1 DEF TS, Staged, Typed, PlanTyped, Dated
  <2>3. RecordedOnce'
    BY <1>0, <2>1, <2>2 DEF Owing, RecordedOnce
  <2> QED BY <2>1, <2>2, <2>3 DEF Owing, Owed, Under
<1>3. CASE EnterNight
  <2>1. /\ pc = "enter" /\ pc' # "record" /\ guard' = guard
        /\ entered' = [entered EXCEPT ![night.n] = @ + 1]
        /\ night' = [night EXCEPT !.phase = "entering"] /\ disk'.night = night'
    BY <1>3 DEF EnterNight, SetPhase, Save
  <2>2. night.n \in Nights /\ night'.n = night.n
    BY <1>0, <2>1 DEF TS, Staged, Typed, PlanTyped, Dated, NightRec
  <2>3. RecordedOnce' /\ guard'.nights[night'.n] < entered'[night'.n]
    BY <1>0, <2>1, <2>2 DEF Owing, RecordedOnce
  <2> QED BY <2>1, <2>3 DEF Owing, Owed
<1>4. CASE Runner /\ ~RecordNight /\ ~EnterNight
  BY <1>1, <1>4, RunnerInherits
<1>5. CASE Exchange \/ Tick \/ Restart \/ UNCHANGED vars
  <2>1. Inherits
    BY <1>5 DEF Exchange, EntryFills, ExitFills, StopFires, Tick, Restart, vars, plan, Inherits, Heir
  <2> QED BY <1>1, <2>1
<1>6. CASE Crash
  BY <1>1, <1>6, DownInherits DEF Crash
<1> QED BY <1>2, <1>3, <1>4, <1>5, <1>6 DEF Next

\* A night is booked with the guard at most once for each time it was entered, for
\* every number of nights, crashes and failures: _finalize saves the night as done before it books it.
THEOREM RecordedOnceHolds == Spec => []RecordedOnce
<1>1. Init => TS /\ Owing
  <2>1. Init => Owing
    BY DEF Init, Owing, RecordedOnce, Owed, Under, NewNight
  <2> QED BY <2>1, InitTyped DEF TS
<1>2. TS /\ Owing /\ [Next]_vars => (TS /\ Owing)'
  BY NextTyped, NextOwing
<1>3. TS /\ Owing => RecordedOnce
  BY DEF Owing
<1> QED BY <1>1, <1>2, <1>3, PTL DEF Spec

-----------------------------------------------------------------------------
(* Client ids.                                                             *)

\* No two orders have the same id.
Unique == \A o, p \in book : o.id = p.id => o = p

\* Fewer orders have different ids if the orders had.
LEMMA UniqueFewer ==
    ASSUME Unique, book' \subseteq book PROVE Unique'
BY DEF Unique

\* So has one order more, if its id was not known.
LEMMA UniqueAdds ==
    ASSUME TS, Unique, NEW leg \in Legs, NEW k \in Nat, NEW l \in Nat, NEW d \in Nat, NEW b \in BOOLEAN,
           Adds(leg, k, l, d, b), ~Known(Id(leg, k))
    PROVE  Unique'
<1>1. PICK o : o = NewOrder(Id(leg, k), l, d, b)
  OBVIOUS
<1>2. o.id = Id(leg, k)
  BY <1>1, NewOrderIs DEF TS, Typed, PlanTyped
<1>3. book' = book \cup {o}
  BY <1>1 DEF Adds
<1> QED BY <1>2, <1>3 DEF Unique, Known

\* So have the orders after one of them has changed.
LEMMA UniqueChanges ==
    ASSUME Unique, NEW o \in book, NEW p, p.id = o.id, book' = (book \ {o}) \cup {p}
    PROVE  Unique'
<1>1. \A x \in book \ {o} : x.id # p.id
  BY DEF Unique
<1> QED BY <1>1 DEF Unique

\* So have the orders after some were cancelled.
LEMMA UniqueShuts ==
    ASSUME TS, Unique, NEW os, Shuts(os)
    PROVE  Unique'
<1>1. os \subseteq Open /\ Open \subseteq book /\ book \subseteq Order
  BY DEF Shuts, Open, TS, Typed, BookTyped
<1>2. \A o \in Shut(os) : \E p \in os : o = [p EXCEPT !.open = FALSE] /\ o.id = p.id
  BY <1>1, ShutIs DEF Shut
<1>3. book' = (book \ os) \cup Shut(os)
  BY DEF Shuts
<1> SUFFICES ASSUME NEW o \in book', NEW p \in book', o.id = p.id PROVE o = p
  BY DEF Unique
<1>4. CASE o \in Shut(os) /\ p \in Shut(os)
  <2>1. PICK x \in os : o = [x EXCEPT !.open = FALSE] /\ o.id = x.id
    BY <1>2, <1>4
  <2>2. PICK y \in os : p = [y EXCEPT !.open = FALSE] /\ p.id = y.id
    BY <1>2, <1>4
  <2>3. x = y
    BY <1>1, <2>1, <2>2 DEF Unique
  <2> QED BY <2>1, <2>2, <2>3
<1>5. CASE o \in Shut(os) /\ p \in book \ os
  BY <1>1, <1>2, <1>5 DEF Unique
<1>6. CASE p \in Shut(os) /\ o \in book \ os
  BY <1>1, <1>2, <1>6 DEF Unique
<1>7. CASE o \in book \ os /\ p \in book \ os
  BY <1>7 DEF Unique
<1> QED BY <1>3, <1>4, <1>5, <1>6, <1>7

\* So have the orders that the live broker reads.
LEMMA UniqueReads ==
    ASSUME TS, Unique, Reads
    PROVE  Unique'
<1>1. Open \subseteq book /\ book \subseteq Order
  BY DEF Open, TS, Typed, BookTyped
<1> SUFFICES ASSUME NEW x \in book', NEW y \in book', x.id = y.id PROVE x = y
  BY DEF Unique
<1>2. PICK o \in Open : x = [o EXCEPT !.done = 0]
  BY DEF Reads
<1>3. PICK p \in Open : y = [p EXCEPT !.done = 0]
  BY DEF Reads
<1>4. x.id = o.id /\ y.id = p.id
  BY <1>1, <1>2, <1>3, ReadIs
<1>5. o = p
  BY <1>1, <1>4 DEF Unique
<1> QED BY <1>2, <1>3, <1>5

\* The end of the program makes no id known twice.
LEMMA UniqueDown ==
    ASSUME TS, Unique, Down
    PROVE  Unique'
<1>1. CASE mode = "paper"
  BY <1>1, UniqueFewer DEF Down
<1>2. CASE mode # "paper"
  BY <1>2, UniqueReads DEF Down, Reads
<1> QED BY <1>1, <1>2

\* Nor does any other step: an order is placed only if its id is not known.
LEMMA NextUnique ==
    ASSUME TS, Unique, [Next]_vars
    PROVE  Unique'
<1>0. 0 \in Nat /\ MarketNo \in Nat /\ "s" \in Legs /\ work.leg \in Legs /\ work.k \in Nat /\ pos \in Nat
  BY Constants DEF TS, Typed, WorkRec, Legs
<1>1. CASE \/ LookAtPosition \/ RecoverHeld \/ RecoverUnentered \/ RecoverFlat \/ ResumeNight \/ NoNight
           \/ PassNight \/ LateNight \/ BeginNight \/ EnterRefused \/ EnterNight \/ EntryEmpty \/ EntryFilled
           \/ HoldNight \/ LimitOver \/ NoRest \/ StoppedOut \/ StartExit \/ RecordNight
           \/ JudgeNight \/ Archive \/ Tick \/ Restart \/ UNCHANGED vars
  <2>1. book' \subseteq book
    BY <1>1 DEF LookAtPosition, RecoverHeld, RecoverUnentered, RecoverFlat, ResumeNight, NoNight,
       PassNight, LateNight, BeginNight, EnterRefused, EnterNight, EntryEmpty, EntryFilled, HoldNight,
       LimitOver, NoRest, StoppedOut, StartExit, RecordNight, JudgeNight, Archive, Open, Tick, Restart,
       vars, exch
  <2> QED BY <2>1, UniqueFewer
<1>2. CASE RecoverIdle \/ CancelLimit \/ Finalize
  <2>1. book' = book \/ \E os : Shuts(os)
    BY <1>2 DEF RecoverIdle, CancelLimit, Finalize, Shuts, Current, Ours, Open
  <2> QED BY <2>1, UniqueFewer, UniqueShuts
<1>3. CASE PlaceStop
  <2>1. CASE NoMarketData
    BY <2>1, UniqueDown DEF NoMarketData
  <2>2. CASE ~NoMarketData
    <3>1. \/ book' = book
          \/ ~Known(Id("s", night.seq)) /\ \E b \in BOOLEAN : Adds("s", night.seq, StopQty, 0, b)
      BY <1>3, <2>2 DEF PlaceStop, StopKnown, Adds
    <3>2. night.seq \in Nat /\ StopQty \in Nat
      BY Quantities DEF TS, Typed, PlanTyped, NightRec
    <3> QED BY <1>0, <3>1, <3>2, UniqueFewer, UniqueAdds
  <2> QED BY <2>1, <2>2
<1>4. CASE AskPosition \/ AskOrders
  <2>1. book' = book
    BY <1>4, AskIs DEF Rejected, Leave, Moves, exch
  <2> QED BY <2>1, UniqueFewer
<1>5. CASE PlaceLimit
  <2>1. CASE NoMarketData
    BY <2>1, UniqueDown DEF NoMarketData
  <2>2. CASE Refused
    BY <2>2, UniqueFewer DEF Refused, Leave, exch
  <2>3. CASE ~Refused /\ ~NoMarketData
    <3>1. \/ book' = book
          \/ ~Known(Id(work.leg, work.k)) /\ \E b \in BOOLEAN : Adds(work.leg, work.k, Rest, 0, b)
      BY <1>5, <2>3 DEF PlaceLimit, Adds
    <3>2. Rest \in Nat
      BY <1>5, Quantities DEF PlaceLimit, LimitDue, TS
    <3> QED BY <1>0, <3>1, <3>2, UniqueFewer, UniqueAdds
  <2> QED BY <2>1, <2>2, <2>3
<1>6. CASE PlaceMarket
  <2>1. CASE NoMarketData
    BY <2>1, UniqueDown DEF NoMarketData
  <2>2. CASE Refused
    BY <2>2, UniqueFewer DEF Refused, Leave, exch
  <2>3. ASSUME NEW q \in Nat, Bought(work.leg, q) PROVE Unique'
    <3>1. PICK v \in ShownOf(q) : Adds(work.leg, MarketNo, 0, v, FALSE)
      BY <2>3 DEF Bought
    <3>2. v \in Nat /\ FALSE \in BOOLEAN
      BY ShownIs
    <3> QED BY <1>0, <1>6, <3>1, <3>2, PlaceMarketIs, UniqueAdds
  <2>4. Rest \in Nat /\ Sells(Rest) \in Nat
    BY <1>6, PlaceMarketIs, Quantities DEF TS
  <2> QED BY <1>6, <2>1, <2>2, <2>3, <2>4, PlaceMarketIs
<1>7. CASE ForceExit \/ ResidualCheck
  <2>1. PICK leg \in {"f", "r"} : \E next, g : CloseAll(leg, next, g)
    BY <1>7 DEF ForceExit, ResidualCheck
  <2>2. \/ book' = book
        \/ ~Known(Id(leg, 0)) /\ Adds(leg, 0, 0, pos, FALSE)
        \/ Down
    BY <2>1, CloseAllIs DEF exch
  <2>3. leg \in Legs /\ FALSE \in BOOLEAN
    BY DEF Legs
  <2> QED BY <1>0, <2>2, <2>3, UniqueFewer, UniqueAdds, UniqueDown
<1>8. CASE EntryFills \/ ExitFills
  <2>1. PICK o \in book : \E q \in FillSizes(o) : Fill(o, q)
    BY <1>8 DEF EntryFills, ExitFills, OpenLeg, Open
  <2>2. PICK q \in FillSizes(o) : Fill(o, q)
    BY <2>1
  <2>3. q \in Nat /\ q <= o.left /\ o \in Order
    BY FillSizesAre DEF TS, Typed, BookTyped
  <2>4. PICK v \in ShownOf(q) : book' = (book \ {o}) \cup {After(o, q, v)}
    BY <2>2 DEF Fill, After
  <2>5. PICK p : p = After(o, q, v)
    OBVIOUS
  <2>6. p.id = o.id
    BY <2>3, <2>5, ShownIs, FilledIs
  <2> QED BY <2>4, <2>5, <2>6, UniqueChanges
<1>9. CASE StopFires
  <2>1. PICK o \in book : Fires(o)
    BY <1>9 DEF StopFires, Fires, OpenLeg, Open
  <2>2. o \in Order /\ o.left \in Nat
    BY DEF TS, Typed, BookTyped, Order
  <2>3. PICK q, p : q = Sells(o.left) /\ p = Fired(o, q)
    OBVIOUS
  <2>4. q \in Nat /\ q <= o.left
    BY <2>2, <2>3, Quantities DEF TS
  <2>5. p.id = o.id
    BY <2>2, <2>3, <2>4, FiredIs
  <2>6. book' = (book \ {o}) \cup {p}
    BY <2>1, <2>3 DEF Fires, Fired
  <2> QED BY <2>5, <2>6, UniqueChanges
<1>10. CASE Crash
  BY <1>10, UniqueDown DEF Crash
<1> QED BY <1>1, <1>2, <1>3, <1>4, <1>5, <1>6, <1>7, <1>8, <1>9, <1>10 DEF Next, Runner, Exchange

-----------------------------------------------------------------------------
(* The limit.                                                              *)

\* The open orders of a leg are finitely many orders.
LEMMA OpenLegIs ==
    ASSUME Typed
    PROVE  /\ Open \subseteq book /\ Open \subseteq Order /\ IsFiniteSet(Open)
           /\ \A leg : /\ OpenLeg(leg) \subseteq Order /\ IsFiniteSet(OpenLeg(leg))
                       /\ \A o \in OpenLeg(leg) : o.left \in Nat
           /\ Pending \in Nat
<1>1. Open \subseteq book /\ Open \subseteq Order /\ IsFiniteSet(Open)
  BY FS_Subset DEF Open, Typed, BookTyped
<1>2. \A leg : /\ OpenLeg(leg) \subseteq Order /\ IsFiniteSet(OpenLeg(leg))
               /\ \A o \in OpenLeg(leg) : o.left \in Nat
  BY <1>1, FS_Subset DEF OpenLeg, Order
<1>3. Pending \in Nat
  BY <1>2, LeftTake DEF Pending
<1> QED BY <1>1, <1>2, <1>3

\* The same set of open entry orders, or fewer of them, and a position that did
\* not grow.
LEMMA FewerCapped ==
    ASSUME TS, OpenLeg("e")' \subseteq OpenLeg("e"), pos' \in Nat, pos' <= pos
    PROVE  pos' + Sum(OpenLeg("e")') <= pos + Sum(OpenLeg("e"))
<1>1. Sum(OpenLeg("e")') <= Sum(OpenLeg("e"))
  BY OpenLegIs, LeftMonotone DEF TS
<1>2. Sum(OpenLeg("e")') \in Nat
  <2>1. IsFiniteSet(OpenLeg("e")') /\ \A o \in OpenLeg("e")' : o.left \in Nat
    BY OpenLegIs, FS_Subset DEF TS
  <2> QED BY <2>1, LeftTake
<1>3. Sum(OpenLeg("e")) \in Nat /\ pos \in Nat
  BY OpenLegIs DEF TS, Typed, Pending
<1> QED BY <1>1, <1>2, <1>3

\* A cancelled order, a stop and a closed order add nothing to them.
LEMMA AddsOpen ==
    ASSUME TS, NEW leg \in Legs, NEW k \in Nat, NEW l \in Nat, NEW d \in Nat, NEW b \in BOOLEAN,
           Adds(leg, k, l, d, b)
    PROVE  /\ Open' = Open \cup (IF b THEN {NewOrder(Id(leg, k), l, d, b)} ELSE {})
           /\ \A m \in Legs : m # leg => OpenLeg(m)' = OpenLeg(m)
           /\ OpenLeg(leg)' = OpenLeg(leg) \cup (IF b THEN {NewOrder(Id(leg, k), l, d, b)} ELSE {})
<1> DEFINE o == NewOrder(Id(leg, k), l, d, b)
<1>1. o.open = b /\ o.id[2] = leg
  BY NewOrderIs DEF TS, Typed, PlanTyped
<1>2. book' = book \cup {o}
  BY DEF Adds
<1> HIDE DEF o
<1>3. Open' = Open \cup (IF b THEN {o} ELSE {})
  BY <1>1, <1>2 DEF Open
<1>4. \A m \in Legs : m # leg => OpenLeg(m)' = OpenLeg(m)
  BY <1>1, <1>3 DEF OpenLeg
<1>5. OpenLeg(leg)' = OpenLeg(leg) \cup (IF b THEN {o} ELSE {})
  BY <1>1, <1>3 DEF OpenLeg
<1> QED BY <1>3, <1>4, <1>5 DEF o

\* Cancelled orders are open no more and otherwise as they were.
LEMMA ShutsOpen ==
    ASSUME TS, NEW os, Shuts(os)
    PROVE  /\ Open' = Open \ os
           /\ \A m \in Legs : OpenLeg(m)' = OpenLeg(m) \ os
           /\ \A o \in book' : \E p \in book : o.id = p.id /\ o.left = p.left /\ o.done = p.done
<1>1. os \subseteq Open /\ Open \subseteq book /\ book \subseteq Order
  BY DEF Shuts, Open, TS, Typed, BookTyped
<1>2. \A o \in Shut(os) : \E p \in os : o.id = p.id /\ o.left = p.left /\ o.done = p.done /\ o.open = FALSE
  BY <1>1, ShutIs DEF Shut
<1>3. book' = (book \ os) \cup Shut(os)
  BY DEF Shuts
<1>4. Open' = Open \ os
  BY <1>1, <1>2, <1>3 DEF Open
<1> QED BY <1>1, <1>2, <1>3, <1>4 DEF OpenLeg

\* A filled order stays open only while something is left of it.
LEMMA FillOpen ==
    ASSUME TS, NEW o \in Open, NEW q \in Nat, q <= o.left, Fill(o, q)
    PROVE  \E p \in Order : \E v \in ShownOf(q) :
              /\ p.id = o.id /\ p.left = o.left - q /\ p.done = o.done + v /\ (p.open <=> o.left > q)
              /\ late' = late + (q - v) /\ book' = (book \ {o}) \cup {p}
              /\ Open' = (Open \ {o}) \cup (IF p.open THEN {p} ELSE {})
              /\ \A m \in Legs : m # o.id[2] => OpenLeg(m)' = OpenLeg(m)
              /\ OpenLeg(o.id[2])' = (OpenLeg(o.id[2]) \ {o}) \cup (IF p.open THEN {p} ELSE {})
<1>v. PICK v \in ShownOf(q) : book' = (book \ {o}) \cup {After(o, q, v)} /\ late' = late + (q - v)
  BY DEF Fill, After
<1>0. PICK p : p = After(o, q, v)
  OBVIOUS
<1>1. o \in Order /\ o.open /\ o \in book /\ v \in Nat
  BY ShownIs DEF TS, Typed, BookTyped, Open
<1>2. p \in Order /\ p.id = o.id /\ p.left = o.left - q /\ p.done = o.done + v /\ (p.open <=> o.left > q)
  <2>1. /\ p \in Order /\ p.id = o.id /\ p.left = o.left - q /\ p.done = o.done + v
        /\ p.open = (o.open /\ o.left > q)
    BY <1>0, <1>1, FilledIs
  <2> QED BY <1>1, <2>1
<1>3. book' = (book \ {o}) \cup {p} /\ late' = late + (q - v)
  BY <1>v, <1>0
<1>4. Open' = (Open \ {o}) \cup (IF p.open THEN {p} ELSE {})
  BY <1>1, <1>3 DEF Open
<1>5. \A m \in Legs : m # o.id[2] => OpenLeg(m)' = OpenLeg(m)
  BY <1>2, <1>4 DEF OpenLeg
<1>6. OpenLeg(o.id[2])' = (OpenLeg(o.id[2]) \ {o}) \cup (IF p.open THEN {p} ELSE {})
  BY <1>2, <1>4 DEF OpenLeg
<1> QED BY <1>2, <1>3, <1>4, <1>5, <1>6

\* A stop that was reached is open no more.
LEMMA FiresOpen ==
    ASSUME TS, NEW o \in Open, Fires(o)
    PROVE  \E p \in Order :
              /\ p.id = o.id /\ p.open = FALSE /\ book' = (book \ {o}) \cup {p}
              /\ Open' = Open \ {o} /\ \A m \in Legs : OpenLeg(m)' = OpenLeg(m) \ {o}
<1>0. PICK q, p : q = Sells(o.left) /\ p = Fired(o, q)
  OBVIOUS
<1>1. o \in Order /\ o.open /\ o \in book /\ o.left \in Nat
  BY DEF TS, Typed, BookTyped, Open, Order
<1>2. q \in Nat /\ q <= o.left
  BY <1>0, <1>1, Quantities DEF TS
<1>3. book' = (book \ {o}) \cup {p}
  BY <1>0 DEF Fires, Fired
<1>4. p \in Order /\ p.id = o.id /\ p.open = FALSE
  <2>1. p = Fired(o, q)
    BY <1>0
  <2>2. o \in Order /\ q \in Nat /\ q <= o.left
    BY <1>1, <1>2
  <2>3. Fired(o, q) \in Order /\ Fired(o, q).id = o.id /\ Fired(o, q).open = FALSE
    BY <2>2, FiredIs
  <2> QED BY <2>1, <2>3
<1>5. Open' = Open \ {o}
  BY <1>1, <1>3, <1>4 DEF Open
<1> QED BY <1>3, <1>4, <1>5 DEF OpenLeg

\* The orders that the live broker reads have no more left.
LEMMA ReadsOpen ==
    ASSUME TS, Reads
    PROVE  /\ Sum(OpenLeg("e")') <= Sum(OpenLeg("e"))
           /\ OpenLeg("e") = {} => OpenLeg("e")' = {}
<1> DEFINE E == OpenLeg("e")
           F == {[o EXCEPT !.done = 0] : o \in E}
<1>1. Open \subseteq Order /\ E \subseteq Order /\ IsFiniteSet(E)
  BY OpenLegIs DEF TS
<1>2. OpenLeg("e")' = F
  <2>1. \A o \in Order : [o EXCEPT !.done = 0].open = o.open /\ [o EXCEPT !.done = 0].id = o.id
    BY ReadIs
  <2>2. book' = {[o EXCEPT !.done = 0] : o \in Open} /\ \A o \in Open : o.open
    BY DEF Reads, Open
  <2>3. OpenLeg("e")' = {o \in book' : o.open /\ o.id[2] = "e"}
    BY DEF OpenLeg, Open
  <2>4. E = {o \in Open : o.id[2] = "e"}
    BY DEF OpenLeg
  <2> HIDE DEF E
  <2>5. ASSUME NEW x \in OpenLeg("e")' PROVE x \in F
    <3>1. PICK o \in Open : x = [o EXCEPT !.done = 0]
      BY <2>2, <2>3
    <3>2. x.id = o.id /\ x.id[2] = "e"
      BY <1>1, <2>1, <2>3, <3>1
    <3> QED BY <2>4, <3>1, <3>2
  <2>6. ASSUME NEW x \in F PROVE x \in OpenLeg("e")'
    <3>1. PICK o \in E : x = [o EXCEPT !.done = 0]
      OBVIOUS
    <3>2. o \in Open /\ o.open /\ o.id[2] = "e" /\ o \in Order
      BY <1>1, <2>2, <2>4
    <3>3. x.id = o.id /\ x.open = o.open /\ x \in book'
      BY <2>1, <2>2, <3>1, <3>2
    <3> QED BY <2>3, <3>2, <3>3
  <2> QED BY <2>5, <2>6
<1>3. \A o \in E : o.left \in Nat /\ [o EXCEPT !.done = 0].left = o.left
  BY <1>1, ReadIs DEF Order
<1> HIDE DEF E
<1>4. Sum(F) <= Sum(E)
  BY <1>1, <1>3, LeftImage
<1>5. E = {} => F = {}
  OBVIOUS
<1> QED BY <1>2, <1>4, <1>5 DEF E

\* What a step does to the position and to the entry orders that are open: they
\* become no more, ...
Eases == OpenLeg("e")' \subseteq OpenLeg("e") /\ pos' \in Nat /\ pos' <= pos
\* ... the live broker reads them again, ...
Rereads == Reads /\ pos' = pos
\* ... an order that the guard has let pass rests or is filled, ...
Rests ==
    /\ pc = "limitPost" /\ Rest \in Nat /\ pos' = pos
    /\ \E o \in Order : o.left = Rest /\ OpenLeg("e")' \subseteq OpenLeg("e") \cup {o}
Buys ==
    /\ pc = "marketPost" /\ Rest \in Nat /\ pos' = pos + Rest
    /\ OpenLeg("e")' = OpenLeg("e")
\* ... or an order that rests is filled.
Executes ==
    \E o \in OpenLeg("e") : \E q \in Nat : \E p \in Order :
        /\ q <= o.left /\ p.left = o.left - q /\ (p.open <=> o.left > q) /\ pos' = pos + q
        /\ OpenLeg("e")' = (OpenLeg("e") \ {o}) \cup (IF p.open THEN {p} ELSE {})
        /\ UNCHANGED <<pc, plan, work, seen, guard, crashes, faults>>

\* A step that leaves position and orders alone eases them.
LEMMA SameEases ==
    ASSUME TS, book' = book, pos' = pos PROVE Eases
BY DEF Eases, OpenLeg, Open, TS, Typed

\* The end of the program eases position and orders, or they are read again.
LEMMA DownEases ==
    ASSUME TS, Down, pos' = pos PROVE Eases \/ Rereads
<1>1. CASE mode = "paper"
  BY <1>1, SameEases DEF Down
<1>2. CASE mode # "paper"
  BY <1>2 DEF Down, Rereads, Reads
<1> QED BY <1>1, <1>2

\* Every step of the runner is of one of the first four kinds.
LEMMA RunnerKinds ==
    ASSUME TS, Runner PROVE Eases \/ Rereads \/ Rests \/ Buys
<1>0. pos \in Nat /\ "s" \in Legs /\ "e" \in Legs /\ "x" \in Legs /\ "f" \in Legs /\ "r" \in Legs
  BY DEF TS, Typed, Legs
<1>1. CASE \/ LookAtPosition \/ RecoverHeld \/ RecoverUnentered \/ RecoverFlat \/ ResumeNight \/ NoNight
           \/ PassNight \/ LateNight \/ BeginNight \/ EnterRefused \/ EntryEmpty \/ EntryFilled
           \/ HoldNight \/ LimitOver \/ NoRest \/ StoppedOut \/ StartExit \/ RecordNight
           \/ JudgeNight
  BY <1>1, SameEases DEF LookAtPosition, RecoverHeld, RecoverUnentered, RecoverFlat, ResumeNight, NoNight,
     PassNight, LateNight, BeginNight, EnterRefused, EntryEmpty, EntryFilled, HoldNight, LimitOver, NoRest,
     StoppedOut, StartExit, RecordNight, JudgeNight, exch
<1>2. CASE RecoverIdle \/ CancelLimit \/ Finalize
  <2>1. pos' = pos /\ (book' = book \/ \E os : Shuts(os))
    BY <1>2 DEF RecoverIdle, CancelLimit, Finalize, Shuts, Current, Ours, Open
  <2>2. CASE book' = book
    BY <2>1, <2>2, SameEases
  <2>3. CASE \E os : Shuts(os)
    BY <1>0, <2>1, <2>3, ShutsOpen DEF Eases
  <2> QED BY <2>1, <2>2, <2>3
<1>3. CASE EnterNight \/ Archive
  <2>1. pos' = pos /\ book' \subseteq book
    BY <1>3 DEF EnterNight, Archive, Open
  <2> QED BY <1>0, <2>1 DEF Eases, OpenLeg, Open
<1>4. CASE PlaceStop
  <2>1. CASE NoMarketData
    BY <2>1, DownEases DEF NoMarketData
  <2>2. CASE ~NoMarketData
    <3>1. pos' = pos /\ \/ book' = book
                        \/ \E b \in BOOLEAN : Adds("s", night.seq, StopQty, 0, b)
      BY <1>4, <2>2 DEF PlaceStop, StopKnown, Adds
    <3>2. night.seq \in Nat /\ StopQty \in Nat
      BY Quantities DEF TS, Typed, PlanTyped, NightRec
    <3>3. ASSUME NEW b \in BOOLEAN, Adds("s", night.seq, StopQty, 0, b)
          PROVE  OpenLeg("e")' = OpenLeg("e")
      BY <1>0, <3>2, <3>3, AddsOpen
    <3> QED BY <1>0, <3>1, <3>3, SameEases DEF Eases
  <2> QED BY <2>1, <2>2
<1>5. CASE PlaceLimit
  <2>1. CASE NoMarketData
    BY <2>1, DownEases DEF NoMarketData
  <2>2. CASE Refused
    BY <2>2, SameEases DEF Refused, Leave, exch
  <2>3. CASE ~Refused /\ ~NoMarketData
    <3>1. /\ pos' = pos /\ Rest > 0 /\ (work.leg = "e" => pc = "limitPost")
          /\ book' = book \/ \E b \in BOOLEAN : Adds(work.leg, work.k, Rest, 0, b)
      BY <1>5, <2>3 DEF PlaceLimit, LimitDue, Adds
    <3>2. work.k \in Nat /\ Rest \in Nat /\ work.leg \in {"e", "x"}
      BY <3>1, Quantities, Constants DEF TS, Typed, WorkRec
    <3>3. ASSUME NEW b \in BOOLEAN, Adds(work.leg, work.k, Rest, 0, b) PROVE Eases \/ Rests
      <4>1. CASE work.leg = "x"
        <5>1. OpenLeg("e")' = OpenLeg("e")
          BY <1>0, <3>2, <3>3, <4>1, AddsOpen
        <5> QED BY <1>0, <3>1, <5>1 DEF Eases
      <4>2. CASE work.leg = "e"
        <5>0. PICK o : o = NewOrder(Id("e", work.k), Rest, 0, b)
          OBVIOUS
        <5>1. o \in Order /\ o.left = Rest
          <6>1. night \in NightRec
            BY <1>0 DEF TS, Typed, PlanTyped
          <6> QED BY <3>2, <5>0, <6>1, NewEntryIs
        <5>2. OpenLeg("e")' \subseteq OpenLeg("e") \cup {o}
          <6>1. OpenLeg("e")' = OpenLeg("e") \cup (IF b THEN {NewOrder(Id("e", work.k), Rest, 0, b)} ELSE {})
            BY <1>0, <3>2, <3>3, <4>2, AddsOpen
          <6> QED BY <5>0, <6>1
        <5> QED BY <3>1, <3>2, <4>2, <5>1, <5>2 DEF Rests
      <4> QED BY <3>2, <4>1, <4>2
    <3> QED BY <3>1, <3>3, SameEases
  <2> QED BY <2>1, <2>2, <2>3
<1>6. CASE PlaceMarket
  <2>1. CASE NoMarketData
    BY <2>1, DownEases DEF NoMarketData
  <2>2. CASE Refused
    BY <2>2, SameEases DEF Refused, Leave, exch
  <2>3. Rest \in Nat /\ Sells(Rest) \in Nat /\ Sells(Rest) <= pos /\ MarketNo \in Nat
    BY <1>6, PlaceMarketIs, Quantities, Constants DEF TS
  <2>4. CASE pc = "marketPost" /\ Bought("e", Rest)
    <3>1. PICK v \in ShownOf(Rest) : Adds("e", MarketNo, 0, v, FALSE)
      BY <2>4 DEF Bought
    <3>2. OpenLeg("e")' = OpenLeg("e") \cup (IF FALSE THEN {NewOrder(Id("e", MarketNo), 0, v, FALSE)} ELSE {})
      BY <1>0, <2>3, <3>1, ShownIs, AddsOpen
    <3>3. OpenLeg("e")' = OpenLeg("e")
      BY <3>2
    <3> QED BY <2>3, <2>4, <3>3 DEF Buys, Bought
  <2>5. CASE Bought("x", Sells(Rest))
    <3>1. OpenLeg("e")' = OpenLeg("e")
      BY <1>0, <2>3, <2>5, ShownIs, AddsOpen DEF Bought
    <3>2. pos' = pos - Sells(Rest)
      BY <2>5 DEF Bought
    <3> QED BY <1>0, <2>3, <3>1, <3>2 DEF Eases
  <2> QED BY <1>6, <2>1, <2>2, <2>4, <2>5, PlaceMarketIs
<1>7. ASSUME NEW leg \in {"f", "r"}, NEW next, NEW g, CloseAll(leg, next, g) PROVE Eases \/ Rereads
  <2>1. CASE pos' = pos /\ book' = book
    BY <2>1, SameEases
  <2>2. CASE pos' = 0 /\ Adds(leg, 0, 0, pos, FALSE)
    <3>1. OpenLeg("e")' = OpenLeg("e")
      BY <1>0, <2>2, AddsOpen
    <3> QED BY <1>0, <2>2, <3>1 DEF Eases
  <2>3. CASE Down /\ pos' = pos
    BY <2>3, DownEases
  <2> QED BY <1>7, <2>1, <2>2, <2>3, CloseAllIs DEF exch
<1>8. CASE ForceExit \/ ResidualCheck
  BY <1>7, <1>8 DEF ForceExit, ResidualCheck
<1>9. CASE AskPosition \/ AskOrders
  <2>1. book' = book /\ pos' = pos
    BY <1>9, AskIs DEF Rejected, Leave, Moves, exch
  <2> QED BY <2>1, SameEases
<1> QED BY <1>1, <1>2, <1>3, <1>4, <1>5, <1>6, <1>8, <1>9 DEF Runner

\* The exchange and the clock ease them, or an order that rests is filled.
LEMMA OthersEase ==
    ASSUME TS, Exchange \/ Tick \/ Restart \/ UNCHANGED vars PROVE Eases \/ (EntryFills /\ Executes)
<1>0. pos \in Nat /\ "s" \in Legs /\ "e" \in Legs /\ "x" \in Legs
  BY DEF TS, Typed, Legs
<1>2. CASE EntryFills
  <2>1. PICK o \in OpenLeg("e") : \E q \in FillSizes(o) : Fill(o, q) /\ pos' = pos + q
    BY <1>2 DEF EntryFills
  <2>2. PICK q \in FillSizes(o) : Fill(o, q) /\ pos' = pos + q
    BY <2>1
  <2>3. o \in Open /\ o \in book /\ o.id[2] = "e"
    BY DEF OpenLeg, Open
  <2>4. q \in Nat /\ q <= o.left
    BY <2>3, FillSizesAre
  <2>5. \E p \in Order : /\ p.left = o.left - q /\ (p.open <=> o.left > q)
                         /\ OpenLeg("e")' = (OpenLeg("e") \ {o}) \cup (IF p.open THEN {p} ELSE {})
    BY <2>2, <2>3, <2>4, FillOpen
  <2> QED BY <1>2, <2>2, <2>4, <2>5 DEF Executes, EntryFills
<1>3. CASE ExitFills
  <2>1. PICK o \in OpenLeg("x") : \E q \in FillSizes(o) : q <= pos /\ Fill(o, q) /\ pos' = pos - q
    BY <1>3 DEF ExitFills
  <2>2. PICK q \in FillSizes(o) : q <= pos /\ Fill(o, q) /\ pos' = pos - q
    BY <2>1
  <2>3. o \in Open /\ o \in book /\ o.id[2] = "x"
    BY DEF OpenLeg, Open
  <2>4. q \in Nat /\ q <= o.left
    BY <2>3, FillSizesAre
  <2>5. OpenLeg("e")' = OpenLeg("e")
    BY <1>0, <2>2, <2>3, <2>4, FillOpen
  <2>6. pos' \in Nat /\ pos' <= pos
    BY <1>0, <2>2, <2>4
  <2> QED BY <2>5, <2>6 DEF Eases
<1>4. CASE StopFires
  <2>1. PICK o \in OpenLeg("s") : pos' = pos - Sells(o.left) /\ Fires(o)
    BY <1>4 DEF StopFires, Fires
  <2>2. o \in Open /\ o.left \in Nat
    BY OpenLegIs DEF OpenLeg, TS, Order
  <2>3. Sells(o.left) \in Nat /\ Sells(o.left) <= pos
    BY <2>2, Quantities DEF TS
  <2>4. OpenLeg("e")' \subseteq OpenLeg("e")
    BY <1>0, <2>1, <2>2, FiresOpen
  <2>5. pos' \in Nat /\ pos' <= pos
    BY <1>0, <2>1, <2>3
  <2> QED BY <2>4, <2>5 DEF Eases
<1>5. CASE Tick \/ Restart \/ UNCHANGED vars
  BY <1>5, SameEases DEF Tick, Restart, vars, exch
<1> QED BY <1>2, <1>3, <1>4, <1>5 DEF Exchange

\* Every step is of one of the five kinds.
LEMMA Kinds ==
    ASSUME TS, [Next]_vars PROVE Eases \/ Rereads \/ Rests \/ Buys \/ Executes
<1>1. CASE Runner
  BY <1>1, RunnerKinds
<1>2. CASE Crash
  BY <1>2, DownEases DEF Crash
<1> QED BY <1>1, <1>2, OthersEase DEF Next

\* A fill moves a quantity from what is left to the position.
LEMMA FillSum ==
    ASSUME NEW p0 \in Nat, NEW s0 \in Nat, NEW s1 \in Nat, NEW s2 \in Nat, NEW l \in Nat, NEW q \in Nat,
           s0 = l + s1, s2 <= s1 + (l - q)
    PROVE  (p0 + q) + s2 <= p0 + s0
OBVIOUS

\* The open entry orders have a sum after a step, too.
LEMMA AfterOpen ==
    ASSUME TS'
    PROVE  /\ IsFiniteSet(OpenLeg("e")') /\ (\A o \in OpenLeg("e")' : o.left \in Nat)
           /\ Sum(OpenLeg("e")') \in Nat
<1> DEFINE E == OpenLeg("e")
<1>2. BookTyped'
  BY DEF TS, Typed
<1>3. E' \subseteq book'
  BY DEF OpenLeg, Open
<1>4. IsFiniteSet(E') /\ \A o \in E' : o.left \in Nat
  BY <1>2, <1>3, FS_Subset DEF BookTyped, Order
<1> HIDE DEF E
<1>5. Sum(E') \in Nat
  BY <1>4, LeftTake
<1> QED BY <1>4, <1>5 DEF E

\* No step but an order that the guard let pass adds to position and open entry orders.
LEMMA NoMore ==
    ASSUME TS, [Next]_vars, Eases \/ Rereads \/ Executes
    PROVE  pos' + Sum(OpenLeg("e")') <= pos + Sum(OpenLeg("e"))
<1> DEFINE E == OpenLeg("e")
<1>0. pos \in Nat /\ E \subseteq Order /\ IsFiniteSet(E) /\ (\A o \in E : o.left \in Nat) /\ Sum(E) \in Nat
  BY OpenLegIs DEF TS, Typed, Pending
<1>1. CASE Eases
  BY <1>1, FewerCapped DEF Eases
<1>t. /\ IsFiniteSet(E') /\ (\A o \in E' : o.left \in Nat) /\ Sum(E') \in Nat
  BY NextTyped, AfterOpen
<1>2. CASE Rereads
  <2>1. Sum(E') <= Sum(E)
    BY <1>2, ReadsOpen DEF Rereads
  <2> QED BY <1>0, <1>t, <1>2, <2>1 DEF Rereads
<1>3. CASE Executes
  <2>1. PICK o \in E : \E q \in Nat : \E p \in Order :
            /\ q <= o.left /\ p.left = o.left - q /\ (p.open <=> o.left > q) /\ pos' = pos + q
            /\ E' = (E \ {o}) \cup (IF p.open THEN {p} ELSE {})
    BY <1>3 DEF Executes
  <2>2. PICK q \in Nat : \E p \in Order :
            /\ q <= o.left /\ p.left = o.left - q /\ (p.open <=> o.left > q) /\ pos' = pos + q
            /\ E' = (E \ {o}) \cup (IF p.open THEN {p} ELSE {})
    BY <2>1
  <2>3. PICK p \in Order :
            /\ q <= o.left /\ p.left = o.left - q /\ (p.open <=> o.left > q) /\ pos' = pos + q
            /\ E' = (E \ {o}) \cup (IF p.open THEN {p} ELSE {})
    BY <2>2
  <2> HIDE DEF E
  <2>4. Sum(E) = o.left + Sum(E \ {o}) /\ o.left \in Nat
    BY <1>0, LeftTake
  <2>5. IsFiniteSet(E \ {o}) /\ \A r \in E \ {o} : r.left \in Nat
    BY <1>0, FS_Subset
  <2>6. Sum(E \ {o}) \in Nat /\ p.left \in Nat
    BY <2>5, LeftTake DEF Order
  <2>7. Sum(E') <= Sum(E \ {o}) + (o.left - q)
    <3>1. CASE p.open
      <4>1. Sum((E \ {o}) \cup {p}) <= Sum(E \ {o}) + p.left
        BY <2>5, <2>6, LeftAdd
      <4> QED BY <2>3, <3>1, <4>1
    <3>2. CASE ~p.open
      <4>1. E' = E \ {o} /\ q = o.left
        BY <2>3, <2>4, <3>2
      <4> QED BY <2>4, <2>6, <4>1
    <3> QED BY <3>1, <3>2
  <2>8. (pos + q) + Sum(E') <= pos + Sum(E)
    BY <1>0, <1>t, <2>4, <2>6, <2>7, FillSum
  <2> QED BY <2>3, <2>8 DEF E
<1> QED BY <1>1, <1>2, <1>3

\* A new order adds what it has filled.
LEMMA DoneAdd ==
    ASSUME NEW A, IsFiniteSet(A), \A o \in A : o.done \in Nat, NEW p, p.done \in Nat, p \notin A
    PROVE  DoneSum(A \cup {p}) = DoneSum(A) + p.done
<1>0. PICK B : B = A \cup {p}
  OBVIOUS
<1>1. IsFiniteSet(B) /\ (\A o \in B : o.done \in Nat) /\ p \in B /\ B \ {p} = A
  BY <1>0, FS_AddElement
<1>2. DoneSum(B) = p.done + DoneSum(B \ {p})
  BY <1>1, DoneTake
<1>3. PICK s : s = DoneSum(A) /\ s \in Nat
  BY DoneTake
<1>4. PICK d : d = p.done /\ d \in Nat
  OBVIOUS
<1>5. DoneSum(B) = d + s
  BY ONLY <1>1, <1>2, <1>3, <1>4
<1>6. d + s = s + d
  BY ONLY <1>3, <1>4
<1> QED BY ONLY <1>0, <1>3, <1>4, <1>5, <1>6

\* A changed order adds what it has filled more.
LEMMA DoneReplace ==
    ASSUME NEW A, IsFiniteSet(A), \A o \in A : o.done \in Nat, NEW p, p.done \in Nat, NEW o \in A,
           p \notin A \ {o}
    PROVE  DoneSum((A \ {o}) \cup {p}) = DoneSum(A) + p.done - o.done
<1>1. IsFiniteSet(A \ {o}) /\ \A x \in A \ {o} : x.done \in Nat
  BY FS_RemoveElement
<1>2. DoneSum((A \ {o}) \cup {p}) = DoneSum(A \ {o}) + p.done
  BY <1>1, DoneAdd
<1>3. DoneSum(A) = o.done + DoneSum(A \ {o}) /\ DoneSum(A \ {o}) \in Nat
  BY <1>1, DoneTake
<1>4. o.done \in Nat
  OBVIOUS
<1> QED BY <1>2, <1>3, <1>4

\* What the runner is about to order gets no more while it waits for an answer of the
\* exchange.
LEMMA RestShrinks ==
    ASSUME TS, Unique, Exchange \/ Tick \/ UNCHANGED vars, pc \in Asks
    PROVE  Rest' <= Rest /\ Rest \in Int /\ Rest' \in Int
<1>0. /\ IsFiniteSet(Ours) /\ (\A o \in Ours : o.done \in Nat) /\ Ours \subseteq book
      /\ book \subseteq Order /\ work.leg = "e"
  <2>1. Ours \subseteq book
    BY DEF Ours
  <2> QED BY <2>1, FS_Subset DEF TS, Staged, Typed, BookTyped, Order
<1>1. UNCHANGED <<night, work>>
  BY DEF Exchange, EntryFills, ExitFills, StopFires, Tick, vars, plan
<1>2. Filled \in Nat /\ Filled = DoneSum(Ours) /\ Rest = work.qty - Filled /\ work.qty \in Nat
  BY Quantities DEF Filled, Rest, TS, Typed, WorkRec
<1>3. Filled' = DoneSum(Ours') /\ Rest' = work.qty - Filled'
  BY <1>1 DEF Filled, Rest
<1>4. ASSUME Ours' = Ours PROVE Filled' \in Nat /\ Filled' >= Filled
  BY <1>2, <1>3, <1>4
<1>5. CASE EntryFills \/ ExitFills
  <2>1. PICK o \in Open : \E q \in FillSizes(o) : Fill(o, q)
    BY <1>5 DEF EntryFills, ExitFills, OpenLeg
  <2>2. PICK q \in FillSizes(o) : Fill(o, q)
    BY <2>1
  <2>3. q \in Nat /\ q <= o.left /\ o \in book
    BY FillSizesAre DEF Open
  <2>4. PICK p \in Order : \E v \in ShownOf(q) :
           p.id = o.id /\ p.done = o.done + v /\ book' = (book \ {o}) \cup {p}
    BY <2>2, <2>3, FillOpen
  <2>5. o.done \in Nat /\ p.done \in Nat /\ p.done >= o.done
    BY <1>0, <2>3, <2>4, ShownIs DEF Order
  <2>6. CASE o \notin Ours
    <3>1. Ours' = Ours
      BY <1>1, <2>3, <2>4, <2>6 DEF Ours
    <3> QED BY <1>2, <1>3, <1>4, <3>1
  <2>7. CASE o \in Ours
    <3>1. Ours' = (Ours \ {o}) \cup {p}
      BY <1>1, <2>4, <2>7 DEF Ours
    <3>2. p \notin Ours \ {o}
      BY <1>0, <2>4, <2>7 DEF Unique
    <3>3. DoneSum(Ours') = DoneSum(Ours) + p.done - o.done
      BY <1>0, <2>5, <2>7, <3>1, <3>2, DoneReplace
    <3> QED BY <1>2, <1>3, <2>5, <3>3
  <2> QED BY <2>6, <2>7
<1>6. CASE StopFires
  <2>1. PICK o \in OpenLeg("s") : Fires(o)
    BY <1>6 DEF StopFires, Fires
  <2>2. o \in Open /\ o \in book /\ o.id[2] = "s"
    BY DEF OpenLeg, Open
  <2>3. PICK p \in Order : p.id = o.id /\ book' = (book \ {o}) \cup {p}
    BY <2>1, <2>2, FiresOpen
  <2>4. Ours' = Ours
    BY <1>0, <1>1, <2>2, <2>3 DEF Ours
  <2> QED BY <1>2, <1>3, <1>4, <2>4
<1>7. CASE Tick \/ UNCHANGED vars
  <2>1. book' = book
    BY <1>7 DEF Tick, vars, exch
  <2>2. Ours' = Ours
    BY <1>1, <2>1 DEF Ours
  <2> QED BY <1>2, <1>3, <1>4, <2>2
<1> QED BY <1>5, <1>6, <1>7 DEF Exchange

\* The guard asks when it is asked and waits between its requests; nothing else is done then.
LEMMA AsksOn ==
    ASSUME TS, [Next]_vars, pc' \in Asks
    PROVE  \/ AskPosition \/ AskOrders
           \/ (Exchange \/ Tick \/ UNCHANGED vars) /\ UNCHANGED <<pc, work, seen, guard>>
<1>1. CASE Runner
  <2>1. work.ret \notin Asks
    BY DEF TS, Typed, WorkRec
  <2> SUFFICES ASSUME ~AskPosition, ~AskOrders PROVE FALSE
    OBVIOUS
  <2>2. ~(\/ LookAtPosition \/ RecoverHeld \/ RecoverUnentered \/ RecoverFlat \/ RecoverIdle
          \/ PassNight \/ ResumeNight \/ LateNight \/ BeginNight \/ NoNight)
    BY DEF LookAtPosition, RecoverHeld, RecoverUnentered, RecoverFlat, RecoverIdle, PassNight,
       ResumeNight, LateNight, BeginNight, NoNight
  <2>3. ~(EnterRefused \/ EnterNight \/ EntryEmpty \/ EntryFilled \/ PlaceStop \/ HoldNight)
    BY <2>1 DEF EnterRefused, EnterNight, EntryEmpty, EntryFilled, PlaceStop, NoMarketData, Down, HoldNight
  <2>4. ~(PlaceLimit \/ CancelLimit \/ LimitOver \/ NoRest \/ PlaceMarket)
    BY DEF PlaceLimit, CancelLimit, LimitOver, NoRest, PlaceMarket, NoMarketData, Down, Refused, Leave,
       AfterWork
  <2>5. ~(StoppedOut \/ StartExit \/ ForceExit \/ ResidualCheck)
    BY DEF StoppedOut, StartExit, ForceExit, ResidualCheck, CloseAll, Down
  <2>6. ~(Finalize \/ RecordNight \/ JudgeNight \/ Archive)
    BY <2>1 DEF Finalize, RecordNight, JudgeNight, Archive
  <2> QED BY <1>1, <2>2, <2>3, <2>4, <2>5, <2>6 DEF Runner
<1>2. CASE Exchange \/ Tick \/ UNCHANGED vars
  BY <1>2 DEF Exchange, EntryFills, ExitFills, StopFires, Tick, vars
<1>3. ~Restart /\ ~Crash
  BY DEF Restart, Crash, Down
<1> QED BY <1>1, <1>2, <1>3 DEF Next

\* What the guard knows of the limit: before the open orders are asked for, the position has
\* grown by no more than what raced it; after that the order fits.
Limited ==
    /\ Capped
    /\ pc \in {"limitAsked", "marketAsked"} => pos <= seen + raced
    /\ pc \in {"limitPost", "marketPost"} => pos + Sum(OpenLeg("e")) + Rest <= Qty + raced

\* What is at most a sum is at most a larger one.
LEMMA StillLess ==
    ASSUME NEW p0 \in Nat, NEW p1 \in Nat, NEW s \in Nat, NEW r0 \in Nat, NEW r1 \in Nat,
           p1 <= p0, p0 <= s + r0, r0 <= r1
    PROVE  p1 <= s + r1
OBVIOUS

\* Every step keeps the limit.
LEMMA NextCapped ==
    ASSUME TS, Unique, Missed, Limited, [Next]_vars PROVE Limited'
<1> DEFINE E == OpenLeg("e")
<1>0. /\ pos \in Nat /\ Qty \in Nat /\ E \subseteq Order /\ IsFiniteSet(E) /\ (\A o \in E : o.left \in Nat)
      /\ Sum(E) \in Nat /\ pos + Sum(E) <= Qty + raced /\ Pending = Sum(E) /\ seen \in Nat
  BY OpenLegIs, Constants DEF TS, Typed, Limited, Capped, Pending
<1>t. /\ IsFiniteSet(E') /\ (\A o \in E' : o.left \in Nat) /\ Sum(E') \in Nat /\ pos' \in Nat
      /\ raced \in Nat /\ raced' \in Nat /\ raced' >= raced
  BY NextTyped, NextMissed, AfterOpen DEF TS, Typed, Missed
<1>n. /\ pos \in Nat /\ pos' \in Nat /\ seen \in Nat /\ seen' \in Nat
      /\ raced \in Nat /\ raced' \in Nat /\ raced' >= raced
  BY <1>0, <1>t, NextTyped DEF TS, Typed
<1>1. Capped'
  <2>1. CASE Rests
    <3>1. PICK o \in Order : o.left = Rest /\ E' \subseteq E \cup {o}
      BY <2>1 DEF Rests
    <3>2. Rest \in Nat /\ pos + Sum(E) + Rest <= Qty + raced /\ pos' = pos
      BY <2>1 DEF Rests, Limited
    <3> HIDE DEF E
    <3>3. Sum(E \cup {o}) <= Sum(E) + o.left
      BY <1>0, <3>1, <3>2, LeftAdd
    <3>4. IsFiniteSet(E \cup {o}) /\ \A p \in E \cup {o} : p.left \in Nat
      BY <1>0, <3>1, <3>2, FS_AddElement
    <3>5. Sum(E') <= Sum(E \cup {o}) /\ Sum(E \cup {o}) \in Nat
      BY <3>1, <3>4, LeftMonotone, LeftTake
    <3>6. pos' + Sum(E') <= Qty + raced'
      BY <1>0, <1>t, <3>1, <3>2, <3>3, <3>5
    <3> QED BY <3>6 DEF Capped, E
  <2>2. CASE Buys
    <3>1. Rest \in Nat /\ pos + Sum(E) + Rest <= Qty + raced /\ pos' = pos + Rest /\ E' = E
      BY <2>2 DEF Buys, Limited
    <3>2. pos' + Sum(E') <= Qty + raced'
      <4> HIDE DEF E
      <4> QED BY <1>0, <1>t, <3>1
    <3> QED BY <3>2 DEF Capped
  <2>3. CASE ~Rests /\ ~Buys
    <3>1. pos' + Sum(E') <= pos + Sum(E)
      BY <2>3, NoMore, Kinds
    <3>2. pos' + Sum(E') <= Qty + raced'
      <4> HIDE DEF E
      <4> QED BY <1>0, <1>t, <3>1
    <3> QED BY <3>2 DEF Capped
  <2> QED BY <2>1, <2>2, <2>3
<1>2. ASSUME pc' \in {"limitAsked", "marketAsked"} PROVE pos' <= seen' + raced'
  <2>1. CASE AskPosition
    <3>1. pos' = pos
      BY <2>1, AskIs DEF Rejected, Leave, Moves, exch
    <3>2. ~Rejected
      BY <1>2 DEF Rejected, Leave, AfterWork
    <3>3. seen' = pos
      BY <1>2, <2>1, <3>2, AskIs DEF Moves
    <3>4. pos' <= pos /\ pos <= pos + 0
      BY <1>n, <3>1
    <3>5. 0 <= raced' /\ 0 \in Nat
      BY <1>n
    <3>6. pos' <= pos + raced'
      BY ONLY <1>n, <3>4, <3>5, StillLess
    <3> QED BY <3>3, <3>6
  <2>2. ~AskOrders
    BY <1>2, AskIs DEF Rejected, Leave, AfterWork, Moves, AskPosition, AskOrders
  <2>3. CASE (Exchange \/ Tick \/ UNCHANGED vars) /\ UNCHANGED <<pc, work, seen, guard>>
    <3>1. pos <= seen + raced
      BY <1>2, <2>3 DEF Limited
    <3>2. CASE EntryFills
      <4>1. PICK o \in book : \E q \in FillSizes(o) : pos' = pos + q /\ raced' = raced + q
        BY <1>2, <2>3, <3>2 DEF EntryFills, OpenLeg, Open
      <4>2. PICK q \in FillSizes(o) : pos' = pos + q /\ raced' = raced + q
        BY <4>1
      <4>3. q \in Nat
        BY FillSizesAre
      <4> QED BY <1>0, <1>t, <2>3, <3>1, <4>2, <4>3
    <3>3. CASE ~EntryFills
      <4>0. Eases
        BY <2>3, <3>3, OthersEase
      <4>1. pos' <= pos
        BY <4>0 DEF Eases
      <4>2. seen' = seen
        BY <2>3
      <4>3. pos' <= seen + raced'
        BY ONLY <1>n, <3>1, <4>1, StillLess
      <4> QED BY <4>2, <4>3
    <3> QED BY <3>2, <3>3
  <2> QED BY <1>2, <2>1, <2>2, <2>3, AsksOn
<1>3. ASSUME pc' \in {"limitPost", "marketPost"} PROVE pos' + Sum(E') + Rest' <= Qty + raced'
  <2>1. CASE AskOrders
    <3>1. /\ pos' = pos /\ book' = book /\ MayOpen(Rest) /\ pc \in {"limitAsked", "marketAsked"}
          /\ UNCHANGED <<night, work>>
      BY <1>3, <2>1, AskIs DEF Rejected, Leave, AfterWork, Moves, exch, plan, AskPosition, AskOrders
    <3>2. E' = E /\ Rest' = Rest
      BY <3>1 DEF OpenLeg, Open, Rest, Filled, Ours
    <3>3. pos <= seen + raced /\ seen + Sum(E) + Rest <= Qty /\ Rest \in Int
      BY <1>0, <3>1, Quantities DEF Limited, MayOpen, TS
    <3> HIDE DEF E
    <3> QED BY <1>0, <1>t, <3>1, <3>2, <3>3
  <2>2. ~AskPosition
    BY <1>3, AskIs DEF Rejected, Leave, AfterWork, Moves, AskPosition, AskOrders
  <2>3. CASE (Exchange \/ Tick \/ UNCHANGED vars) /\ UNCHANGED <<pc, work, seen, guard>>
    <3>1. pos + Sum(E) + Rest <= Qty + raced
      BY <1>3, <2>3 DEF Limited
    <3>2. Rest' <= Rest /\ Rest \in Int /\ Rest' \in Int
      BY <1>3, <2>3, RestShrinks
    <3>3. pos' + Sum(E') <= pos + Sum(E)
      BY <2>3, OthersEase, NoMore
    <3> HIDE DEF E
    <3> QED BY <1>0, <1>t, <3>1, <3>2, <3>3
  <2> QED BY <1>3, <2>1, <2>2, <2>3, AsksOn
<1> QED BY <1>1, <1>2, <1>3 DEF Limited

\* Position and open entry orders exceed the limit by no more than what orders left behind fill
\* between the guard's two requests, for every limit, number of nights, crashes and failures:
\* the guard counts the entry orders that a restart left behind, and the order it lets pass
\* is no larger when it is sent.
THEOREM CappedHolds == Spec => []Capped
<1>1. Init => Limited
  <2>1. IsFiniteSet({}) /\ \A o \in {} : o.left \in Nat
    BY FS_EmptySet
  <2>2. Sum({}) = 0
    BY <2>1, LeftTake
  <2>3. Init => OpenLeg("e") = {} /\ pos = 0 /\ raced = 0 /\ pc = "start"
    BY DEF Init, OpenLeg, Open
  <2> QED BY <2>2, <2>3, Constants DEF Limited, Capped
<1>2. TS /\ Unique /\ Missed /\ Limited /\ [Next]_vars => (TS /\ Unique /\ Missed /\ Limited)'
  BY NextTyped, NextUnique, NextMissed, NextCapped
<1>3. Init => TS /\ Unique /\ Missed
  BY InitTyped DEF TS, Init, Unique, Missed
<1>4. Limited => Capped
  BY DEF Limited
<1> QED BY <1>1, <1>2, <1>3, <1>4, PTL DEF Spec

-----------------------------------------------------------------------------
(* The stop line.                                                          *)

\* While the program did not die, the guard stops orders once the sum is on the
\* line, but for the moment between its two saves; and no entry order is open.
Line == crashes = 0 /\ guard.cum <= -StopLine
Lined ==
    /\ Line /\ pc # "verdict" => guard.status # "active"
    /\ Line => OpenLeg("e") = {}
    /\ pc \in {"record", "verdict", "archive"} => Open = {}
    /\ pc \in Asks => guard.status = "active"

Keeps == guard'.cum = guard.cum /\ (guard'.status = "active" => guard.status = "active")

\* Halting, twice or not, adds nothing to the sum and makes nothing active.
LEMMA HaltKeeps ==
    ASSUME TS, guard' \in {guard, Halt(guard), Halt(Halt(guard))} PROVE Keeps
<1>1. guard \in GuardRec
  BY DEF TS, Typed
<1>2. /\ Halt(guard).cum = guard.cum /\ Halt(guard).status = "halted"
      /\ Halt(Halt(guard)).cum = guard.cum /\ Halt(Halt(guard)).status = "halted"
  BY <1>1 DEF Halt, GuardRec
<1> QED BY <1>2 DEF Keeps

\* What the steps do to the guard, the crashes and the last steps of a night.
LEMMA RunnerKeeps ==
    ASSUME TS, Runner
    PROVE  /\ Keeps \/ RecordNight
           /\ crashes' = crashes \/ Down
           /\ pc' = "verdict" => RecordNight
           /\ pc' = "archive" => JudgeNight
           /\ pc' = "record" => Finalize
           /\ pc = "verdict" => JudgeNight
<1>1. CASE \/ LookAtPosition \/ RecoverHeld \/ RecoverUnentered \/ RecoverFlat \/ ResumeNight \/ NoNight
           \/ PassNight \/ LateNight \/ BeginNight \/ EntryEmpty \/ EntryFilled
           \/ LimitOver \/ NoRest \/ StoppedOut \/ StartExit \/ EnterNight \/ CancelLimit
  BY <1>1, HaltKeeps DEF LookAtPosition, RecoverHeld, RecoverUnentered, RecoverFlat, ResumeNight, NoNight,
     PassNight, LateNight, BeginNight, EntryEmpty, EntryFilled, LimitOver, NoRest,
     StoppedOut, StartExit, EnterNight, CancelLimit, AfterWork
<1>2. CASE HoldNight \/ Archive
  BY <1>2, HaltKeeps DEF HoldNight, Archive, TS, Typed, WorkRec
<1>3. CASE EnterRefused \/ RecoverIdle
  BY <1>3, HaltKeeps DEF EnterRefused, RecoverIdle, Unhealthy
<1>4. CASE PlaceStop \/ PlaceLimit \/ PlaceMarket
  <2>1. guard' \in {guard, Halt(guard), Halt(Halt(guard))}
    BY <1>4 DEF PlaceStop, PlaceLimit, PlaceMarket, Refused, NoMarketData
  <2>2. (crashes' = crashes \/ Down) /\ pc \in {"stop", "limit", "market", "limitPost", "marketPost"}
    BY <1>4 DEF PlaceStop, PlaceLimit, PlaceMarket, Refused, Leave, NoMarketData
  <2>3. pc' \notin {"verdict", "archive", "record"}
    BY <1>4 DEF PlaceStop, PlaceLimit, PlaceMarket, Refused, Leave, NoMarketData, AfterWork, Down
  <2> QED BY <2>1, <2>2, <2>3, HaltKeeps
<1>5. CASE ForceExit \/ ResidualCheck
  <2>1. guard' \in {guard, Halt(guard), Halt(Halt(guard))}
    BY <1>5 DEF ForceExit, ResidualCheck, CloseAll
  <2>2. (crashes' = crashes \/ Down) /\ pc \in {"force", "residual"} /\ pc' \notin {"verdict", "archive", "record"}
    BY <1>5 DEF ForceExit, ResidualCheck, CloseAll, Down
  <2> QED BY <2>1, <2>2, HaltKeeps
<1>6. CASE Finalize
  BY <1>6, HaltKeeps DEF Finalize
<1>7. CASE RecordNight
  BY <1>7 DEF RecordNight
<1>8. CASE JudgeNight
  <2>1. guard \in GuardRec
    BY DEF TS, Typed
  <2>2. /\ [guard EXCEPT !.status = "paused"].cum = guard.cum
        /\ [guard EXCEPT !.status = "paused"].status = "paused"
    BY <2>1 DEF GuardRec
  <2>3. Keeps
    BY <1>8, <2>1, <2>2, HaltTyped DEF JudgeNight, Keeps
  <2> QED BY <1>8, <2>3 DEF JudgeNight
<1>9. CASE AskPosition \/ AskOrders
  <2>1. guard' = guard /\ crashes' = crashes
    BY <1>9 DEF AskPosition, AskOrders, Leave
  <2>2. pc \in {"limit", "market", "limitAsked", "marketAsked"}
    BY <1>9 DEF AskPosition, AskOrders
  <2>3. pc' \notin {"verdict", "archive", "record"}
    BY <1>9 DEF AskPosition, AskOrders, Leave, AfterWork
  <2> QED BY <2>1, <2>2, <2>3, HaltKeeps
<1> QED BY <1>1, <1>2, <1>3, <1>4, <1>5, <1>6, <1>7, <1>8, <1>9 DEF Runner

\* The exchange, the clock and launchd leave the guard alone.
LEMMA OthersKeep ==
    ASSUME TS, Exchange \/ Tick \/ Restart \/ Crash \/ UNCHANGED vars
    PROVE  /\ Keeps /\ (crashes' = crashes \/ Down)
           /\ pc' = pc \/ pc = "down" \/ Down
<1>1. guard' = guard
  BY DEF Exchange, EntryFills, ExitFills, StopFires, Tick, Restart, Crash, vars
<1>2. \/ crashes' = crashes /\ (pc' = pc \/ pc = "down")
      \/ Down
  BY DEF Exchange, EntryFills, ExitFills, StopFires, Tick, Restart, Crash, vars
<1> QED BY <1>1, <1>2 DEF Keeps

\* A step to a state without a crash is from one and is none.
LEMMA Calmly ==
    ASSUME TS, [Next]_vars, crashes' = 0
    PROVE  crashes = 0 /\ ~Down
<1>1. crashes' = crashes \/ Down
  BY RunnerKeeps, OthersKeep DEF Next
<1>2. Down => crashes' = crashes + 1 /\ crashes \in Nat
  BY DEF Down, TS, Typed
<1> QED BY <1>1, <1>2

\* Nothing is open from the end of a night to its booking.
LEMMA NextClosed ==
    ASSUME TS, Lined, [Next]_vars
    PROVE  pc' \in {"record", "verdict", "archive"} => Open' = {}
<1> SUFFICES ASSUME pc' \in {"record", "verdict", "archive"} PROVE Open' = {}
  OBVIOUS
<1>1. CASE Runner
  <2>1. CASE Finalize
    <3>1. Shuts(Open)
      BY <2>1 DEF Finalize, Shuts
    <3> QED BY <3>1, ShutsOpen
  <2>2. CASE RecordNight \/ JudgeNight
    <3>1. book' = book /\ pc \in {"record", "verdict"}
      BY <2>2 DEF RecordNight, JudgeNight, exch
    <3> QED BY <3>1 DEF Lined, Open
  <2> QED BY <1>1, <2>1, <2>2, RunnerKeeps
<1>2. CASE Exchange
  <2>1. pc' = pc
    BY <1>2 DEF Exchange, EntryFills, ExitFills, StopFires
  <2>2. Open # {}
    BY <1>2 DEF Exchange, EntryFills, ExitFills, StopFires, OpenLeg
  <2> QED BY <2>1, <2>2 DEF Lined
<1>3. CASE Tick \/ UNCHANGED vars
  <2>1. pc' = pc /\ book' = book
    BY <1>3 DEF Tick, vars, exch
  <2> QED BY <2>1 DEF Lined, Open
<1>4. CASE Restart \/ Crash
  BY <1>4 DEF Restart, Crash, Down
<1> QED BY <1>1, <1>2, <1>3, <1>4 DEF Next

\* Every step keeps the guard in line.
LEMMA NextLined ==
    ASSUME TS, Lined, [Next]_vars
    PROVE  Lined'
<1>1. ASSUME Line', pc' # "verdict" PROVE guard'.status # "active"
  <2>1. crashes = 0 /\ ~Down
    BY <1>1, Calmly DEF Line
  <2>2. CASE RecordNight
    BY <1>1, <2>2 DEF RecordNight
  <2>3. CASE JudgeNight
    <3>1. guard.cum <= -StopLine => guard'.status = "halted"
      BY <2>3, HaltTyped DEF JudgeNight, TS, Typed
    <3>2. guard'.cum = guard.cum
      <4>1. Keeps \/ RecordNight
        BY <2>3, RunnerKeeps DEF Runner
      <4>2. ~RecordNight
        BY <2>3 DEF JudgeNight, RecordNight
      <4> QED BY <4>1, <4>2 DEF Keeps
    <3> QED BY <1>1, <3>1, <3>2 DEF Line
  <2>4. CASE ~RecordNight /\ ~JudgeNight
    <3>1. Keeps
      BY <2>4, RunnerKeeps, OthersKeep DEF Next
    <3>2. pc # "verdict"
      BY <1>1, <2>1, <2>4, RunnerKeeps, OthersKeep DEF Next
    <3> QED BY <1>1, <2>1, <3>1, <3>2 DEF Line, Lined, Keeps
  <2> QED BY <2>2, <2>3, <2>4
<1>2. ASSUME Line' PROVE OpenLeg("e")' = {}
  <2>1. crashes = 0 /\ ~Down
    BY <1>2, Calmly DEF Line
  <2>2. CASE RecordNight
    <3>1. book' = book /\ pc = "record"
      BY <2>2 DEF RecordNight, exch
    <3>2. Open = {}
      BY <3>1 DEF Lined
    <3> QED BY <3>1, <3>2 DEF Open, OpenLeg
  <2>3. CASE ~RecordNight
    <3>1. Keeps
      BY <2>3, RunnerKeeps, OthersKeep DEF Next
    <3>2. Line
      BY <1>2, <2>1, <3>1 DEF Line, Keeps
    <3>3. OpenLeg("e") = {} /\ (pc # "verdict" => guard.status # "active")
      BY <3>2 DEF Lined
    <3>4. CASE Eases \/ Buys
      BY <3>3, <3>4 DEF Eases, Buys
    <3>5. CASE Rests
      BY <3>3, <3>5 DEF Rests, Lined, Asks
    <3>6. CASE Executes
      BY <3>3, <3>6 DEF Executes
    <3>7. CASE Rereads
      BY <3>3, <3>7, ReadsOpen DEF Rereads
    <3> QED BY <3>4, <3>5, <3>6, <3>7, Kinds
  <2> QED BY <2>2, <2>3
<1>3. ASSUME pc' \in Asks PROVE guard'.status = "active"
  <2>1. CASE AskPosition \/ AskOrders
    <3>1. guard' = guard /\ ~Rejected
      BY <1>3, <2>1 DEF AskPosition, AskOrders, Rejected, Leave, AfterWork, Asks
    <3>2. guard.status = "active"
      BY <2>1, <3>1, AskIs DEF Lined, Asks
    <3> QED BY <3>1, <3>2
  <2>2. CASE UNCHANGED <<pc, work, seen, guard>>
    BY <1>3, <2>2 DEF Lined
  <2> QED BY <1>3, <2>1, <2>2, AsksOn
<1> QED BY <1>1, <1>2, <1>3, NextClosed DEF Lined

\* While the program does not die, no order opens a position once the sum of the nights is
\* on the stop line: the guard halts before the next night and no entry order is left open.
THEOREM StopLineHoldsHolds == Spec => StopLineHolds
<1>1. TS /\ Lined /\ [Next]_vars => (TS /\ Lined)'
  BY NextTyped, NextLined
<1>2. Init => TS /\ Lined
  <2>1. Init => Lined
    BY Constants DEF Init, Lined, Line, Open, OpenLeg
  <2> QED BY <2>1, InitTyped DEF TS
<1>3. TS /\ Lined /\ [Next]_vars => [crashes = 0 /\ pos' > pos => guard.cum > -StopLine]_vars
  <2> SUFFICES ASSUME TS, Lined, [Next]_vars, crashes = 0, pos' > pos
               PROVE  guard.cum > -StopLine
    OBVIOUS
  <2>1. guard.cum \in Int /\ pos \in Nat /\ StopLine \in Nat
    BY Constants DEF TS, Typed, GuardRec
  <2>2. ~Eases /\ ~Rereads /\ ~Rests
    BY <2>1 DEF Eases, Rereads, Rests
  <2>3. CASE Buys
    BY <2>1, <2>3 DEF Buys, Asks, Lined, Line
  <2>4. CASE Executes
    BY <2>1, <2>4 DEF Executes, Lined, Line
  <2> QED BY <2>2, <2>3, <2>4, Kinds
<1> QED BY <1>1, <1>2, <1>3, PTL DEF Spec, StopLineHolds

-----------------------------------------------------------------------------
(* A run without a crash.                                                  *)

\* Where the program is, as long as it did not die.
Quiet ==
    /\ pc # "down"
    /\ pc \in {"start", "recover"} => night.phase = "none" /\ pos = 0 /\ seen = 0 /\ book = {}
    /\ pc \in {"next", "residual"} => ~Active
    /\ pc = "residual" => night.phase = "done"
    /\ pc \in {"enter", "limit", "market", "entered", "stop", "stopped", "hold", "force"} \cup Asks
          => night.n \notin hist
    /\ pc \in {"stop", "stopped"} => work.ret = "hold"

\* The ids of the orders, and of the open ones.
Ids == {o.id : o \in book}
OpenIds == {o.id : o \in Open}

\* Every open order belongs to what the program does.
Fits(id) ==
    \/ pc = "limit" /\ id[2] = work.leg /\ id[1] = night.n /\ id[3] < work.k
    \/ /\ id[2] = "s"
       /\ \/ pc \in {"stopped", "hold", "force", "final"}
          \/ pc \in {"limit", "market"} /\ work.leg = "x"
Needed == \A id \in OpenIds : Fits(id)

\* The legs whose orders the night may have placed by now.
LegsSoFar ==
    IF pc \in {"entered", "stop"} \cup Asks \/ (pc \in {"limit", "market"} /\ work.leg = "e") THEN {"e"}
    ELSE IF pc \in {"limit", "market", "stopped", "hold", "force"} THEN {"e", "s", "x"}
    ELSE IF pc \in {"final", "record", "verdict", "archive"} THEN {"e", "s", "x", "f"}
    ELSE {}
Placed == \A id \in Ids : id[1] \in hist \/ (id[1] = night.n /\ id[2] \in LegsSoFar)

\* A night that is over left nothing.
Flat == pc = "final" \/ night.phase = "done" => pos = 0

Calm == crashes = 0
CalmInv == Calm => Quiet /\ Needed /\ Placed /\ Flat

\* No new orders, and no order is open that was not.
Fewer == Ids' \subseteq Ids /\ OpenIds' \subseteq OpenIds

\* Orders that stay are no more orders.
LEMMA SameFewer == book' = book => Fewer
BY DEF Fewer, Ids, OpenIds, Open

\* Cancelling makes no new orders.
LEMMA ShutsFewer ==
    ASSUME TS, NEW os, Shuts(os) PROVE Fewer
<1>1. Open' = Open \ os /\ \A o \in book' : \E p \in book : o.id = p.id
  BY ShutsOpen
<1> QED BY <1>1 DEF Fewer, Ids, OpenIds

\* Nor does a fill.
LEMMA FillFewer ==
    ASSUME TS, NEW o \in Open, NEW q \in Nat, q <= o.left, Fill(o, q) PROVE Fewer
<1>1. PICK p \in Order :
              /\ p.id = o.id /\ book' = (book \ {o}) \cup {p}
              /\ Open' = (Open \ {o}) \cup (IF p.open THEN {p} ELSE {})
  BY FillOpen
<1>2. o \in book
  BY DEF Open
<1> QED BY <1>1, <1>2 DEF Fewer, Ids, OpenIds

\* Nor does a stop that is reached.
LEMMA FiresFewer ==
    ASSUME TS, NEW o \in Open, Fires(o) PROVE Fewer
<1>1. PICK p \in Order :
              /\ p.id = o.id /\ book' = (book \ {o}) \cup {p} /\ Open' = Open \ {o}
  BY FiresOpen
<1>2. o \in book
  BY DEF Open
<1> QED BY <1>1, <1>2 DEF Fewer, Ids, OpenIds

\* Nor does forgetting.
LEMMA ForgetsFewer ==
    Forgets \/ Drops => Fewer
BY DEF Forgets, Drops, Fewer, Ids, OpenIds, Open

\* A new order adds its id, to the open ones if it is open.
LEMMA AddsIds ==
    ASSUME TS, NEW leg \in Legs, NEW k \in Nat, NEW l \in Nat, NEW d \in Nat, NEW b \in BOOLEAN,
           Adds(leg, k, l, d, b)
    PROVE  /\ Ids' = Ids \cup {Id(leg, k)}
           /\ OpenIds' = OpenIds \cup (IF b THEN {Id(leg, k)} ELSE {})
<1>1. NewOrder(Id(leg, k), l, d, b).id = Id(leg, k)
  BY NewOrderIs DEF TS, Typed, PlanTyped
<1>2. Open' = Open \cup (IF b THEN {NewOrder(Id(leg, k), l, d, b)} ELSE {})
  BY AddsOpen
<1>3. Ids' = Ids \cup {Id(leg, k)}
  BY <1>1 DEF Adds, Ids
<1> QED BY <1>1, <1>2, <1>3 DEF OpenIds

\* What the exchange and the clock leave alone, and that the position grows only
\* by entry orders.
LEMMA OthersFewer ==
    ASSUME TS, Exchange \/ Tick \/ UNCHANGED vars
    PROVE  /\ Fewer /\ UNCHANGED <<pc, plan, work, seen>>
           /\ pos' = pos \/ OpenIds # {}
           /\ pos' \in Nat /\ (pos' <= pos \/ OpenLeg("e") # {})
<1>0. UNCHANGED <<pc, plan, work, seen>>
  BY DEF Exchange, EntryFills, ExitFills, StopFires, Tick, vars, plan
<1>1. CASE Tick \/ UNCHANGED vars
  <2>1. book' = book /\ pos' = pos /\ pos \in Nat
    BY <1>1 DEF Tick, vars, exch, TS, Typed
  <2> QED BY <1>0, <2>1, SameFewer
<1>2. ASSUME Exchange PROVE Fewer /\ OpenIds # {}
  <2>1. CASE EntryFills \/ ExitFills
    <3>1. PICK o \in Open : \E q \in FillSizes(o) : Fill(o, q)
      BY <2>1 DEF EntryFills, ExitFills, OpenLeg
    <3>2. PICK q \in FillSizes(o) : Fill(o, q)
      BY <3>1
    <3>3. q \in Nat /\ q <= o.left
      BY FillSizesAre DEF Open
    <3> QED BY <3>2, <3>3, FillFewer DEF OpenIds
  <2>2. CASE StopFires
    <3>1. PICK o \in Open : Fires(o)
      BY <2>2 DEF StopFires, OpenLeg, Fires
    <3> QED BY <3>1, FiresFewer DEF OpenIds
  <2> QED BY <1>2, <2>1, <2>2 DEF Exchange
<1>3. ASSUME Exchange PROVE pos' <= pos \/ OpenLeg("e") # {}
  <2>1. CASE EntryFills
    BY <2>1 DEF EntryFills
  <2>2. CASE ExitFills
    <3>1. PICK o \in OpenLeg("x") : \E q \in FillSizes(o) : pos' = pos - q
      BY <2>2 DEF ExitFills
    <3>2. PICK q \in FillSizes(o) : pos' = pos - q
      BY <3>1
    <3>3. q \in Nat /\ pos \in Nat
      BY FillSizesAre DEF Open, OpenLeg, TS, Typed
    <3> QED BY <3>2, <3>3
  <2>3. CASE StopFires
    <3>1. PICK o \in OpenLeg("s") : pos' = pos - Sells(o.left)
      BY <2>3 DEF StopFires
    <3>2. o.left \in Nat /\ pos \in Nat
      BY OpenLegIs DEF TS, Typed
    <3>3. Sells(o.left) \in Nat
      BY <3>2, Quantities DEF TS
    <3> QED BY <3>1, <3>2, <3>3
  <2> QED BY <1>3, <2>1, <2>2, <2>3 DEF Exchange
<1>4. pos' \in Nat
  BY NextTyped DEF TS, Typed, Next
<1> QED BY <1>0, <1>1, <1>2, <1>3, <1>4

Calmness == Quiet /\ Needed /\ Placed /\ Flat

\* No new orders, and the finished nights or the night's steps go on: ids stay in their place.
LEMMA PlacedKeeps ==
    ASSUME Placed, Ids' \subseteq Ids, hist \subseteq hist',
           \/ LegsSoFar = {} \/ night.n \in hist'
           \/ night'.n = night.n /\ LegsSoFar \subseteq LegsSoFar'
    PROVE  Placed'
BY DEF Placed

\* So they do with an order of a leg that the night has reached.
LEMMA PlacedAdds ==
    ASSUME Placed, NEW leg, NEW k, Ids' \subseteq Ids \cup {Id(leg, k)},
           hist' = hist, night'.n = night.n, LegsSoFar \subseteq LegsSoFar', leg \in LegsSoFar'
    PROVE  Placed'
<1>1. Id(leg, k)[1] = night.n /\ Id(leg, k)[2] = leg
  BY DEF Id
<1> QED BY <1>1 DEF Placed

\* Away from the orders and the stop nothing is open.
LEMMA NoneOpen ==
    ASSUME Needed, pc \notin {"limit", "market", "stopped", "hold", "force", "final"}
    PROVE  OpenIds = {}
BY DEF Needed, Fits

\* Away from the limit orders only stops are open.
LEMMA OnlyStops ==
    ASSUME Needed, pc # "limit"
    PROVE  \A id \in OpenIds :
              id[2] = "s" /\ (pc \in {"stopped", "hold", "force", "final"} \/ work.leg = "x")
BY DEF Needed, Fits

\* When no limit order of the leg is open, only stops are.
LEMMA LimitClear ==
    ASSUME TS, Needed, pc = "limit", Current = {}
    PROVE  \A id \in OpenIds : id[2] = "s" /\ work.leg = "x"
<1> SUFFICES ASSUME NEW o \in Open PROVE o.id[2] = "s" /\ work.leg = "x"
  BY DEF OpenIds
<1>1. Fits(o.id)
  BY DEF Needed, OpenIds
<1>2. o \in book /\ o.open
  BY DEF Open
<1>3. CASE o.id[2] = work.leg /\ o.id[1] = night.n /\ o.id[3] < work.k
  BY <1>2, <1>3 DEF Current, Ours
<1> QED BY <1>1, <1>3 DEF Fits

\* Without a crash recover finds nothing, and leaves nothing.
LEMMA StartCalm ==
    ASSUME TS, Calmness, ~Down,
           LookAtPosition \/ RecoverHeld \/ RecoverUnentered \/ RecoverFlat \/ RecoverIdle
    PROVE  Calmness'
<1>1. night.phase = "none" /\ pos = 0 /\ seen = 0 /\ book = {} /\ ~Active
  BY DEF LookAtPosition, RecoverHeld, RecoverUnentered, RecoverFlat, RecoverIdle, Calmness, Quiet, Active
<1>2. LookAtPosition \/ RecoverIdle
  BY <1>1 DEF RecoverHeld, RecoverUnentered, RecoverFlat
<1>3. night' = night /\ pos' = pos /\ seen' = 0 /\ pc' \in {"recover", "next"}
  BY <1>1, <1>2 DEF LookAtPosition, RecoverIdle, plan, exch
<1>4. book' = {}
  <2>1. CASE LookAtPosition
    BY <1>1, <2>1 DEF LookAtPosition, exch
  <2>2. CASE RecoverIdle
    <3>1. book' = (book \ Open) \cup Shut(Open)
      BY <1>1, <2>2 DEF RecoverIdle
    <3> QED BY <1>1, <3>1 DEF Open, Shut
  <2> QED BY <1>2, <2>1, <2>2
<1>5. Ids' = {} /\ OpenIds' = {}
  BY <1>4 DEF Ids, OpenIds, Open
<1> QED BY <1>1, <1>3, <1>4, <1>5 DEF Calmness, Quiet, Needed, Placed, Flat, Active

\* Choosing a night keeps the order of its steps.
LEMMA ChooseCalm ==
    ASSUME TS, Calmness, ~Down, PassNight \/ ResumeNight \/ LateNight \/ BeginNight \/ NoNight
    PROVE  Calmness'
<1>1. pc = "next" /\ ~Active /\ LegsSoFar = {} /\ OpenIds = {}
  BY NoneOpen DEF PassNight, ResumeNight, LateNight, BeginNight, NoNight, Calmness, Quiet, LegsSoFar
<1>2. ~ResumeNight
  BY <1>1 DEF ResumeNight, Active
<1>3. book' = book /\ pos' = pos
  BY DEF PassNight, ResumeNight, LateNight, BeginNight, NoNight, exch
<1>4. Ids' = Ids /\ OpenIds' = {}
  BY <1>1, <1>3 DEF Ids, OpenIds, Open
<1>5. /\ pc' \in {"next", "enter", "end"} /\ hist \subseteq hist'
      /\ pc' = "next" => night'.phase = "skipped"
      /\ pc' = "enter" => night'.phase = "pending" /\ night'.n \notin hist'
      /\ pc' = "end" => night' = night
  <2>1. CASE PassNight \/ LateNight
    <3>1. PICK n \in Nights : SkipNight(NewNight(n))
      BY <2>1 DEF PassNight, LateNight, Left
    <3>2. night'.phase = "skipped"
      BY <3>1, SkipTyped, NewNightIs DEF TS, Typed
    <3> QED BY <1>1, <2>1, <3>1, <3>2 DEF PassNight, LateNight, SkipNight
  <2>2. CASE BeginNight
    <3>1. PICK n \in Left : night' = NewNight(n)
      BY <2>2 DEF BeginNight
    <3>2. night'.phase = "pending" /\ night'.n \notin hist /\ hist' = hist /\ pc' = "enter"
      BY <2>2, <3>1, NewNightIs DEF BeginNight, Left
    <3> QED BY <3>2
  <2>3. CASE NoNight
    BY <2>3 DEF NoNight, plan
  <2> QED BY <1>2, <2>1, <2>2, <2>3
<1>6. Placed'
  BY <1>1, <1>4, <1>5, PlacedKeeps DEF Calmness
<1> QED BY <1>1, <1>3, <1>4, <1>5, <1>6 DEF Calmness, Quiet, Needed, Flat, Active

\* Entering a night keeps the order of its steps, up to its orders and after them.
LEMMA EnterCalm ==
    ASSUME TS, Calmness, ~Down, EnterRefused \/ EnterNight \/ EntryEmpty \/ EntryFilled
    PROVE  Calmness'
<1>1. pc \in {"enter", "entered"} /\ OpenIds = {} /\ night.n \notin hist
  BY NoneOpen DEF EnterRefused, EnterNight, EntryEmpty, EntryFilled, Calmness, Quiet
<1>2. Ids' \subseteq Ids /\ OpenIds' = {} /\ pos' = pos
  <2>1. CASE EnterNight
    <3>1. Forgets /\ pos' = pos
      BY <2>1 DEF EnterNight, Forgets
    <3> QED BY <1>1, <3>1, ForgetsFewer DEF Fewer
  <2>2. CASE EnterRefused \/ EntryEmpty \/ EntryFilled
    <3>1. book' = book /\ pos' = pos
      BY <2>2 DEF EnterRefused, EntryEmpty, EntryFilled, exch
    <3> QED BY <1>1, <3>1, SameFewer DEF Fewer
  <2> QED BY <2>1, <2>2
<1>3. night.n \in Nights /\ PlanTyped /\ night \in NightRec
  BY DEF TS, Typed, PlanTyped, Dated, Staged, EnterRefused, EnterNight, EntryEmpty, EntryFilled, Active
<1>4. CASE EnterRefused \/ EntryEmpty
  <2>1. SkipNight(night) /\ pc' = "next"
    BY <1>4 DEF EnterRefused, EntryEmpty
  <2>2. night'.phase = "skipped" /\ night.n \in hist' /\ hist \subseteq hist'
    BY <1>3, <2>1, SkipTyped DEF SkipNight
  <2>3. Placed'
    BY <1>2, <2>2, PlacedKeeps DEF Calmness
  <2> QED BY <1>2, <2>1, <2>2, <2>3 DEF Calmness, Quiet, Needed, Flat, Active
<1>5. CASE EnterNight
  <2>1. SetPhase("entering") /\ pc' \in {"limit", "market"} /\ pc = "enter"
    BY <1>5 DEF EnterNight
  <2>2. night'.phase = "entering" /\ night'.n = night.n /\ hist' = hist
    BY <1>3, <2>1, PhaseTyped DEF SetPhase, Phases
  <2>3. LegsSoFar = {}
    BY <2>1 DEF LegsSoFar
  <2>4. Placed'
    BY <1>2, <2>2, <2>3, PlacedKeeps DEF Calmness
  <2> QED BY <1>1, <1>2, <2>1, <2>2, <2>4 DEF Calmness, Quiet, Needed, Flat
<1>6. CASE EntryFilled
  <2>1. /\ pc = "entered" /\ pc' = "stop" /\ hist' = hist /\ work' = work
        /\ night' = [night EXCEPT !.qty = Filled]
    BY <1>6 DEF EntryFilled
  <2>2. night'.n = night.n /\ night'.phase = night.phase /\ night.phase # "done"
    BY <1>3, <2>1 DEF NightRec, TS, Staged, Active
  <2>3. LegsSoFar = {"e"} /\ LegsSoFar' = {"e"}
    BY <2>1 DEF LegsSoFar
  <2>4. Placed'
    BY <1>2, <2>1, <2>2, <2>3, PlacedKeeps DEF Calmness
  <2>5. work'.ret = "hold"
    BY <2>1 DEF TS, Staged
  <2> QED BY <1>1, <1>2, <2>1, <2>2, <2>4, <2>5 DEF Calmness, Quiet, Needed, Flat
<1> QED BY <1>4, <1>5, <1>6

\* A step that adds an order, or does not, adds at most its id.
LEMMA AtMostAdds ==
    ASSUME TS, NEW leg \in Legs, NEW k \in Nat, NEW l \in Nat, NEW d \in Nat,
           book' = book \/ \E b \in BOOLEAN : Adds(leg, k, l, d, b)
    PROVE  Ids' \subseteq Ids \cup {Id(leg, k)} /\ OpenIds' \subseteq OpenIds \cup {Id(leg, k)}
<1>1. CASE book' = book
  BY <1>1, SameFewer DEF Fewer
<1>2. ASSUME NEW b \in BOOLEAN, Adds(leg, k, l, d, b)
      PROVE  Ids' \subseteq Ids \cup {Id(leg, k)} /\ OpenIds' \subseteq OpenIds \cup {Id(leg, k)}
  BY <1>2, AddsIds
<1> QED BY <1>1, <1>2

\* Placing the stop and holding keep the order of the steps.
LEMMA StopCalm ==
    ASSUME TS, Calmness, ~Down, PlaceStop \/ HoldNight
    PROVE  Calmness'
<1>1. night \in NightRec /\ night.phase # "done" /\ Active /\ night.n \notin hist /\ work.ret = "hold"
  BY DEF TS, Typed, PlanTyped, Staged, Active, PlaceStop, HoldNight, Calmness, Quiet
<1>2. CASE PlaceStop
  <2>1. ~NoMarketData
    BY DEF NoMarketData
  <2>2. /\ pc = "stop" /\ pc' = "stopped" /\ night' = [night EXCEPT !.seq = @ + 1]
        /\ UNCHANGED <<hist, work, pos>>
        /\ book' = book \/ \E b \in BOOLEAN : Adds("s", night.seq, StopQty, 0, b)
    BY <1>2, <2>1 DEF PlaceStop, StopKnown, Adds
  <2>3. night'.n = night.n /\ night'.phase = night.phase /\ night.seq \in Nat /\ StopQty \in Nat
    BY <1>1, <2>2, Quantities DEF NightRec, TS
  <2>4. /\ Ids' \subseteq Ids \cup {Id("s", night.seq)}
        /\ OpenIds' \subseteq OpenIds \cup {Id("s", night.seq)}
    <3>1. "s" \in Legs /\ 0 \in Nat
      BY DEF Legs
    <3> QED BY <2>2, <2>3, <3>1, AtMostAdds
  <2>5. OpenIds = {} /\ LegsSoFar = {"e"} /\ LegsSoFar' = {"e", "s", "x"}
    BY <2>2, NoneOpen DEF Calmness, LegsSoFar
  <2>6. Placed'
    BY <2>2, <2>3, <2>4, <2>5, PlacedAdds DEF Calmness
  <2>7. Needed'
    BY <2>2, <2>4, <2>5 DEF Needed, Fits, Id
  <2> QED BY <1>1, <2>2, <2>3, <2>6, <2>7 DEF Calmness, Quiet, Flat
<1>3. CASE HoldNight
  <2>1. /\ pc = "stopped" /\ pc' = "hold" /\ SetPhase("holding") /\ book' = book /\ pos' = pos
    BY <1>1, <1>3 DEF HoldNight, exch
  <2>2. night'.n = night.n /\ night'.phase = "holding" /\ hist' = hist
    BY <2>1, PhaseTyped DEF TS, Typed, PlanTyped, Dated, Active, Staged, SetPhase, Phases
  <2>3. Ids' \subseteq Ids /\ OpenIds' \subseteq OpenIds
    BY <2>1, SameFewer DEF Fewer
  <2>4. LegsSoFar = {"e", "s", "x"} /\ LegsSoFar' = {"e", "s", "x"}
    BY <2>1 DEF LegsSoFar
  <2>5. Placed'
    BY <2>2, <2>3, <2>4, PlacedKeeps DEF Calmness
  <2>6. Needed'
    BY <2>1, <2>3, OnlyStops DEF Calmness, Needed, Fits
  <2> QED BY <1>1, <2>1, <2>2, <2>5, <2>6 DEF Calmness, Quiet, Flat
<1> QED BY <1>2, <1>3

\* So does every step that ends the orders of a leg, or its limit orders.
LEMMA WorkCalm ==
    ASSUME TS, Calmness, pc \in {"limit", "market"} \cup Asks, Ids' \subseteq Ids,
           OpenIds' \subseteq OpenIds, \A id \in OpenIds' : id[2] = "s" /\ work.leg = "x",
           UNCHANGED plan, work'.leg = work.leg, pc' = "market" \/ pc' = AfterWork
    PROVE  Calmness'
<1>1. night' = night /\ hist' = hist /\ night.phase # "done" /\ night.n \notin hist
  BY DEF plan, TS, Staged, Active, Calmness, Quiet
<1>4. work.leg \in {"e", "x"} /\ (pc \in Asks => work.leg = "e")
  BY DEF TS, Typed, WorkRec, Staged
<1>2. LegsSoFar \subseteq LegsSoFar'
  BY <1>4 DEF LegsSoFar, AfterWork
<1>3. Placed'
  BY <1>1, <1>2, PlacedKeeps DEF Calmness
<1>5. pc' \in {"market", "entered", "force"} /\ (work.leg = "x" => pc' \in {"market", "force"})
  BY DEF AfterWork
<1>6. Needed'
  BY <1>5 DEF Needed, Fits
<1> QED BY <1>1, <1>3, <1>5, <1>6 DEF Calmness, Quiet, Flat

\* A refused order changes neither orders nor position.
LEMMA RefusedIs ==
    ASSUME TS, Refused \/ Rejected
    PROVE  /\ book' = book /\ pos' = pos /\ UNCHANGED plan /\ pc' = AfterWork /\ work'.leg = work.leg
           /\ work'.ret = work.ret
BY DEF Refused, Rejected, Leave, exch, TS, Typed, WorkRec

\* The guard is asked while no order is open, and asking changes none.
LEMMA AskCalm ==
    ASSUME TS, Calmness, AskPosition \/ AskOrders
    PROVE  Calmness'
<1>0. /\ pc \in {"limit", "market"} \cup Asks /\ work.leg = "e" /\ (pc = "limit" => Current = {})
  BY AskIs DEF AskPosition, AskOrders, LimitDue
<1>1. OpenIds = {}
  <2>1. CASE pc = "limit"
    BY <1>0, <2>1, LimitClear DEF Calmness
  <2>2. CASE pc # "limit"
    BY <1>0, <2>2, OnlyStops DEF Calmness
  <2> QED BY <2>1, <2>2
<1>2. CASE Rejected
  BY <1>0, <1>1, <1>2, RefusedIs, SameFewer, WorkCalm DEF Fewer
<1>3. CASE ~Rejected
  <2>1. pc' \in Asks /\ UNCHANGED <<plan, work, exch>>
    BY <1>3, AskIs DEF Moves
  <2>2. night' = night /\ hist' = hist /\ book' = book /\ night.phase # "done" /\ night.n \notin hist
    BY <1>0, <2>1 DEF plan, exch, TS, Staged, Active, Calmness, Quiet
  <2>3. Ids' \subseteq Ids /\ OpenIds' = {}
    BY <1>1, <2>2, SameFewer DEF Fewer
  <2>4. LegsSoFar \subseteq LegsSoFar'
    BY <1>0, <2>1 DEF LegsSoFar
  <2>5. Placed'
    BY <2>2, <2>3, <2>4, PlacedKeeps DEF Calmness
  <2> QED BY <2>1, <2>2, <2>3, <2>5 DEF Calmness, Quiet, Needed, Flat
<1> QED BY <1>2, <1>3

\* Placing, cancelling and leaving limit orders keep the order of the steps.
LEMMA LimitCalm ==
    ASSUME TS, Calmness, ~Down, PlaceLimit \/ CancelLimit \/ LimitOver
    PROVE  Calmness'
<1>0. pc \in {"limit", "limitPost"} /\ (PlaceLimit \/ pc = "limit") /\ (pc = "limitPost" => work.leg = "e")
  BY DEF PlaceLimit, CancelLimit, LimitOver, TS, Staged
<1>1. ASSUME Current = {} PROVE \A id \in OpenIds : id[2] = "s" /\ work.leg = "x"
  BY <1>0, <1>1, LimitClear, NoneOpen DEF Calmness
<1>2. CASE LimitOver
  <2>1. /\ Current = {} /\ pc' = "market" /\ UNCHANGED plan /\ work' = work /\ book' = book
        /\ pc = "limit"
    BY <1>2 DEF LimitOver, exch
  <2> QED BY <1>0, <1>1, <2>1, SameFewer, WorkCalm DEF Fewer
<1>3. CASE CancelLimit
  <2>1. /\ Shuts(Current) /\ pc' = "limit" /\ UNCHANGED plan /\ work' = work /\ pos' = pos
        /\ pc = "limit"
    BY <1>3 DEF CancelLimit, Shuts, Current, Open, Ours
  <2>2. Ids' \subseteq Ids /\ OpenIds' \subseteq OpenIds
    BY <2>1, ShutsFewer DEF Fewer
  <2>3. night' = night /\ hist' = hist
    BY <2>1 DEF plan
  <2>4. LegsSoFar' = LegsSoFar
    BY <1>0, <2>1 DEF LegsSoFar
  <2>5. Placed'
    BY <2>2, <2>3, <2>4, PlacedKeeps DEF Calmness
  <2>6. Needed'
    BY <1>0, <2>1, <2>2, <2>3 DEF Calmness, Needed, Fits
  <2> QED BY <1>0, <2>1, <2>3, <2>5, <2>6 DEF Calmness, Quiet, Flat
<1>4. CASE PlaceLimit
  <2>0. ~NoMarketData /\ Current = {} /\ Rest > 0
    BY <1>4 DEF NoMarketData, PlaceLimit, LimitDue
  <2>1. CASE Refused
    BY <1>0, <1>1, <2>0, <2>1, RefusedIs, SameFewer, WorkCalm DEF Fewer
  <2>2. CASE ~Refused
    <3>1. /\ pc' = "limit" /\ UNCHANGED plan /\ pos' = pos /\ work' = [work EXCEPT !.k = @ + 1]
          /\ book' = book \/ \E b \in BOOLEAN : Adds(work.leg, work.k, Rest, 0, b)
      BY <1>0, <1>4, <2>0, <2>2 DEF PlaceLimit, Adds
    <3>2. work.k \in Nat /\ Rest \in Nat /\ work.leg \in {"e", "x"} /\ work \in WorkRec
      BY <2>0, Quantities, Constants DEF TS, Typed, WorkRec
    <3>3. work'.k = work.k + 1 /\ work'.leg = work.leg
      BY <3>1, <3>2 DEF WorkRec
    <3>4. /\ Ids' \subseteq Ids \cup {Id(work.leg, work.k)}
          /\ OpenIds' \subseteq OpenIds \cup {Id(work.leg, work.k)}
      <4>1. work.leg \in Legs /\ 0 \in Nat
        BY <3>2 DEF Legs
      <4> QED BY <3>1, <3>2, <4>1, AtMostAdds
    <3>5. night' = night /\ hist' = hist
      BY <3>1 DEF plan
    <3>6. LegsSoFar' = LegsSoFar /\ work.leg \in LegsSoFar
      BY <1>0, <3>1, <3>2, <3>3 DEF LegsSoFar
    <3>7. Placed'
      BY <3>4, <3>5, <3>6, PlacedAdds DEF Calmness
    <3>8. Needed'
      <4> SUFFICES ASSUME NEW id \in OpenIds' PROVE Fits(id)'
        BY DEF Needed
      <4>1. CASE id = Id(work.leg, work.k)
        BY <3>1, <3>2, <3>3, <3>5, <4>1 DEF Fits, Id
      <4>2. CASE id \in OpenIds
        BY <1>1, <2>0, <3>1, <3>3, <4>2 DEF Fits
      <4> QED BY <3>4, <4>1, <4>2
    <3> QED BY <1>0, <3>1, <3>5, <3>7, <3>8 DEF Calmness, Quiet, Flat
  <2> QED BY <2>1, <2>2
<1> QED BY <1>2, <1>3, <1>4

\* So does the market order of a leg.
LEMMA MarketCalm ==
    ASSUME TS, Calmness, ~Down, NoRest \/ PlaceMarket
    PROVE  Calmness'
<1>0. /\ pc \in {"market", "marketPost"} /\ (PlaceMarket \/ pc = "market")
      /\ work.leg \in {"e", "x"} /\ (pc = "marketPost" => work.leg = "e")
  BY DEF NoRest, PlaceMarket, TS, Typed, WorkRec, Staged
<1>1. \A id \in OpenIds : id[2] = "s" /\ work.leg = "x"
  BY <1>0, OnlyStops DEF Calmness
<1>2. CASE NoRest
  <2>1. pc' = AfterWork /\ UNCHANGED plan /\ work' = work /\ book' = book
    BY <1>2 DEF NoRest, exch
  <2> QED BY <1>0, <1>1, <2>1, SameFewer, WorkCalm DEF Fewer
<1>3. CASE PlaceMarket
  <2>0. ~NoMarketData /\ Rest > 0
    BY <1>3, PlaceMarketIs DEF NoMarketData
  <2>1. CASE Refused
    BY <1>0, <1>1, <2>1, RefusedIs, SameFewer, WorkCalm DEF Fewer
  <2>2. CASE ~Refused
    <3>2. Rest \in Nat /\ Sells(Rest) \in Nat /\ MarketNo \in Nat /\ work.leg \in Legs
      BY <1>0, <2>0, Quantities DEF TS, MarketNo, Legs
    <3>1. /\ pc' = AfterWork /\ UNCHANGED plan /\ work' = work
          /\ \E v \in Nat : Adds(work.leg, MarketNo, 0, v, FALSE)
      BY <1>3, <2>0, <2>2, <3>2, PlaceMarketIs, ShownIs DEF Bought
    <3>3. Ids' = Ids \cup {Id(work.leg, MarketNo)} /\ OpenIds' = OpenIds
      BY <3>1, <3>2, AddsIds
    <3>4. night' = night /\ hist' = hist /\ night.phase # "done" /\ night.n \notin hist
      BY <1>0, <3>1 DEF plan, TS, Staged, Active, Calmness, Quiet
    <3>5. LegsSoFar' = LegsSoFar /\ work.leg \in LegsSoFar
      BY <1>0, <3>1 DEF LegsSoFar, AfterWork
    <3>6. Placed'
      BY <3>3, <3>4, <3>5, PlacedAdds DEF Calmness
    <3>7. Needed'
      BY <1>0, <1>1, <3>1, <3>3 DEF Needed, Fits, AfterWork
    <3>8. pc' \in {"entered", "force"}
      BY <3>1 DEF AfterWork
    <3> QED BY <3>4, <3>6, <3>7, <3>8 DEF Calmness, Quiet, Flat
  <2> QED BY <2>1, <2>2
<1> QED BY <1>2, <1>3

\* Leaving keeps it: the forced exit was never placed before, so it closes the position.
LEMMA LeaveCalm ==
    ASSUME TS, Calmness, ~Down, StoppedOut \/ StartExit \/ ForceExit
    PROVE  Calmness'
<1>1. /\ pc \in {"hold", "force"} /\ night \in NightRec /\ night.n \notin hist /\ Active
      /\ night.phase # "done" /\ night.n \in Nights
  BY DEF StoppedOut, StartExit, ForceExit, TS, Typed, PlanTyped, Dated, Staged, Active, Calmness, Quiet
<1>2. \A id \in OpenIds : id[2] = "s"
  BY <1>1, OnlyStops DEF Calmness
<1>3. LegsSoFar = {"e", "s", "x"}
  BY <1>1 DEF LegsSoFar
<1>4. CASE StoppedOut
  <2>1. pc' = "final" /\ night' = night /\ hist' = hist /\ book' = book /\ pos' = 0
    BY <1>4 DEF StoppedOut, plan, exch
  <2>2. Ids' \subseteq Ids /\ OpenIds' \subseteq OpenIds
    BY <2>1, SameFewer DEF Fewer
  <2>3. LegsSoFar' = {"e", "s", "x", "f"}
    BY <2>1 DEF LegsSoFar
  <2>4. Placed'
    BY <1>3, <2>1, <2>2, <2>3, PlacedKeeps DEF Calmness
  <2>5. Needed'
    BY <1>2, <2>1, <2>2 DEF Needed, Fits
  <2> QED BY <2>1, <2>4, <2>5 DEF Calmness, Quiet, Flat
<1>5. CASE StartExit
  <2>1. /\ SetPhase("exiting") /\ pc' \in {"force", "limit", "market"}
        /\ work' = [leg |-> "x", qty |-> pos, k |-> 0, ret |-> "residual"] /\ book' = book
    BY <1>5 DEF StartExit, exch
  <2>2. night'.n = night.n /\ night'.phase = "exiting" /\ hist' = hist
    BY <1>1, <2>1, PhaseTyped DEF TS, Typed, SetPhase, Phases
  <2>3. Ids' \subseteq Ids /\ OpenIds' \subseteq OpenIds
    BY <2>1, SameFewer DEF Fewer
  <2>4. LegsSoFar' = {"e", "s", "x"}
    BY <2>1 DEF LegsSoFar
  <2>5. Placed'
    BY <1>3, <2>2, <2>3, <2>4, PlacedKeeps DEF Calmness
  <2>6. Needed'
    BY <1>2, <2>1, <2>3 DEF Needed, Fits
  <2> QED BY <1>1, <2>1, <2>2, <2>5, <2>6 DEF Calmness, Quiet, Flat
<1>6. CASE ForceExit
  <2>1. pc = "force" /\ CloseAll("f", "final", guard)
    BY <1>6 DEF ForceExit
  <2>2. \/ /\ pos = 0 \/ Known(Id("f", 0))
           /\ pc' = "final" /\ UNCHANGED <<plan, exch>>
        \/ pc' = "final" /\ pos' = 0 /\ Adds("f", 0, 0, pos, FALSE) /\ UNCHANGED plan
    BY <2>1, CloseAllIs
  <2>3. ~Known(Id("f", 0))
    <3>1. Id("f", 0)[1] = night.n /\ Id("f", 0)[2] = "f"
      BY DEF Id
    <3>2. Id("f", 0) \notin Ids
      BY <1>1, <1>3, <3>1 DEF Calmness, Placed
    <3> QED BY <3>2 DEF Known, Ids
  <2>4. pos' = 0 /\ pc' = "final" /\ night' = night /\ hist' = hist
    BY <2>2, <2>3 DEF plan, exch
  <2>5. Ids' \subseteq Ids \cup {Id("f", 0)} /\ OpenIds' \subseteq OpenIds
    <3>1. CASE book' = book
      BY <3>1, SameFewer DEF Fewer
    <3>2. CASE Adds("f", 0, 0, pos, FALSE)
      <4>1. "f" \in Legs /\ 0 \in Nat /\ pos \in Nat /\ FALSE \in BOOLEAN
        BY DEF Legs, TS, Typed
      <4> QED BY <3>2, <4>1, AddsIds
    <3> QED BY <2>2, <3>1, <3>2 DEF exch
  <2>6. LegsSoFar' = {"e", "s", "x", "f"}
    BY <2>4 DEF LegsSoFar
  <2>7. Placed'
    BY <1>3, <2>4, <2>5, <2>6, PlacedAdds DEF Calmness
  <2>8. Needed'
    BY <1>2, <2>4, <2>5 DEF Needed, Fits
  <2> QED BY <2>4, <2>7, <2>8 DEF Calmness, Quiet, Flat
<1> QED BY <1>4, <1>5, <1>6

\* Finishing a night keeps it: the residual check finds nothing.
LEMMA FinishCalm ==
    ASSUME TS, Calmness, ~Down, Finalize \/ RecordNight \/ JudgeNight \/ Archive \/ ResidualCheck
    PROVE  Calmness'
<1>1. CASE Finalize
  <2>1. /\ pc = "final" /\ pc' = "record" /\ Shuts(Open) /\ pos' = pos /\ hist' = hist
        /\ \E pnl \in Results : night' = [night EXCEPT !.phase = "done", !.pnl = pnl]
    BY <1>1 DEF Finalize, Shuts
  <2>2. night \in NightRec
    BY DEF TS, Typed, PlanTyped
  <2>3. night'.n = night.n /\ night'.phase = "done"
    BY <2>1, <2>2 DEF NightRec
  <2>4. Ids' \subseteq Ids
    BY <2>1, ShutsFewer DEF Fewer
  <2>5. Open' = {}
    BY <2>1, ShutsOpen
  <2>6. OpenIds' = {}
    BY <2>5 DEF OpenIds
  <2>7. LegsSoFar' = LegsSoFar /\ pos = 0
    BY <2>1 DEF LegsSoFar, Calmness, Flat
  <2>8. Placed'
    BY <2>1, <2>3, <2>4, <2>7, PlacedKeeps DEF Calmness
  <2> QED BY <2>1, <2>3, <2>6, <2>7, <2>8 DEF Calmness, Quiet, Needed, Flat
<1>2. CASE RecordNight \/ JudgeNight
  <2>1. /\ pc \in {"record", "verdict"} /\ pc' \in {"verdict", "archive"}
        /\ night' = night /\ hist' = hist /\ book' = book /\ pos' = pos
    BY <1>2 DEF RecordNight, JudgeNight, plan, exch
  <2>2. OpenIds = {} /\ Ids' \subseteq Ids /\ OpenIds' \subseteq OpenIds
    BY <2>1, NoneOpen, SameFewer DEF Fewer, Calmness
  <2>3. LegsSoFar' = LegsSoFar
    BY <2>1 DEF LegsSoFar
  <2>4. Placed'
    BY <2>1, <2>2, <2>3, PlacedKeeps DEF Calmness
  <2> QED BY <2>1, <2>2, <2>4 DEF Calmness, Quiet, Needed, Flat
<1>3. CASE Archive
  <2>1. /\ pc = "archive" /\ pc' = work.ret /\ night' = night /\ hist' = hist \cup {night.n}
        /\ Drops /\ pos' = pos
    BY <1>3 DEF Archive, Drops
  <2>2. pc' \in {"next", "residual"} /\ night.phase = "done"
    BY <2>1 DEF TS, Staged
  <2>3. OpenIds = {} /\ Ids' \subseteq Ids /\ OpenIds' \subseteq OpenIds
    BY <2>1, NoneOpen, ForgetsFewer DEF Fewer, Calmness
  <2>4. Placed'
    BY <2>1, <2>3, PlacedKeeps DEF Calmness
  <2> QED BY <2>1, <2>2, <2>3, <2>4 DEF Calmness, Quiet, Needed, Flat, Active
<1>4. CASE ResidualCheck
  <2>1. pc = "residual" /\ pos = 0 /\ night.phase = "done"
    BY <1>4 DEF ResidualCheck, Calmness, Quiet, Flat
  <2>2. pc' = "next" /\ UNCHANGED <<plan, exch>>
    BY <1>4, <2>1 DEF ResidualCheck, CloseAll
  <2>3. night' = night /\ hist' = hist /\ book' = book /\ pos' = pos
    BY <2>2 DEF plan, exch
  <2>4. OpenIds = {} /\ Ids' \subseteq Ids /\ OpenIds' \subseteq OpenIds
    BY <2>1, <2>3, NoneOpen, SameFewer DEF Fewer, Calmness
  <2>5. LegsSoFar = {}
    BY <2>1 DEF LegsSoFar
  <2>6. Placed'
    BY <2>3, <2>4, <2>5, PlacedKeeps DEF Calmness
  <2> QED BY <2>1, <2>2, <2>3, <2>4, <2>6 DEF Calmness, Quiet, Needed, Flat, Active
<1> QED BY <1>1, <1>2, <1>3, <1>4

\* The exchange and the clock keep it: no entry order is open once a night is done.
LEMMA OthersCalm ==
    ASSUME TS, Calmness, Exchange \/ Tick \/ UNCHANGED vars
    PROVE  Calmness'
<1>1. /\ Fewer /\ UNCHANGED <<pc, plan, work, seen>>
      /\ pos' = pos \/ OpenIds # {}
      /\ pos' \in Nat /\ (pos' <= pos \/ OpenLeg("e") # {})
  BY OthersFewer
<1>2. night' = night /\ hist' = hist /\ Ids' \subseteq Ids /\ OpenIds' \subseteq OpenIds
  BY <1>1 DEF plan, Fewer
<1>3. LegsSoFar' = LegsSoFar
  BY <1>1 DEF LegsSoFar
<1>4. Placed'
  BY <1>2, <1>3, PlacedKeeps DEF Calmness
<1>5. Needed'
  BY <1>1, <1>2 DEF Calmness, Needed, Fits
<1>6. Flat'
  <2> SUFFICES ASSUME pc = "final" \/ night.phase = "done" PROVE pos' = 0
    BY <1>1, <1>2 DEF Flat
  <2>1. pos = 0
    BY DEF Calmness, Flat
  <2>2. pc # "limit"
    BY DEF TS, Staged, Active
  <2>3. OpenLeg("e") = {}
    <3> SUFFICES ASSUME NEW o \in OpenLeg("e") PROVE FALSE
      OBVIOUS
    <3>1. o.id \in OpenIds /\ o.id[2] = "e"
      BY DEF OpenLeg, OpenIds
    <3> QED BY <2>2, <3>1, OnlyStops DEF Calmness
  <2> QED BY <1>1, <2>1, <2>3
<1>7. Quiet'
  <2>1. ASSUME pc \in {"start", "recover"} PROVE pos' = 0 /\ book' = {}
    <3>1. pos = 0 /\ book = {}
      BY <2>1 DEF Calmness, Quiet
    <3>2. Ids = {} /\ OpenIds = {}
      BY <3>1 DEF Ids, OpenIds, Open
    <3>3. Ids' = {}
      BY <1>2, <3>2
    <3> QED BY <1>1, <3>1, <3>2, <3>3 DEF Ids
  <2> QED BY <1>1, <1>2, <2>1 DEF Calmness, Quiet, Active
<1> QED BY <1>4, <1>5, <1>6, <1>7 DEF Calmness

\* Every step keeps the order of the steps while the program does not die.
LEMMA NextCalm ==
    ASSUME TS, CalmInv, [Next]_vars
    PROVE  CalmInv'
<1> SUFFICES ASSUME crashes' = 0 PROVE Calmness'
  BY DEF CalmInv, Calm, Calmness
<1>1. crashes = 0 /\ ~Down
  BY Calmly
<1>2. Calmness
  BY <1>1 DEF CalmInv, Calm, Calmness
<1>3. CASE Runner
  BY <1>1, <1>2, <1>3, StartCalm, ChooseCalm, EnterCalm, StopCalm, AskCalm, LimitCalm, MarketCalm, LeaveCalm,
     FinishCalm DEF Runner
<1>4. CASE Exchange \/ Tick \/ UNCHANGED vars
  BY <1>2, <1>4, OthersCalm
<1>5. ~Restart /\ ~Crash
  BY <1>1, <1>2 DEF Restart, Crash, Calmness, Quiet
<1> QED BY <1>3, <1>4, <1>5 DEF Next

\* The first state has it.
LEMMA InitCalm == Init => CalmInv
<1> SUFFICES ASSUME Init PROVE Calmness
  BY DEF CalmInv, Calmness
<1>1. book = {} /\ pc = "start" /\ night.phase = "none" /\ pos = 0 /\ seen = 0
  BY DEF Init, NewNight
<1>2. Ids = {} /\ OpenIds = {}
  BY <1>1 DEF Ids, OpenIds, Open
<1> QED BY <1>1, <1>2 DEF Calmness, Quiet, Needed, Placed, Flat

\* While the program does not die, a night that is done has left no position, whichever
\* orders are refused: the forced exit sells what the exit's orders left, and nothing can be bought after it.
THEOREM DoneIsFlatHolds == Spec => []DoneIsFlat
<1>1. TS /\ CalmInv /\ [Next]_vars => (TS /\ CalmInv)'
  BY NextTyped, NextCalm
<1>2. Init => TS /\ CalmInv
  BY InitTyped, InitCalm DEF TS
<1>3. CalmInv => DoneIsFlat
  BY DEF CalmInv, Calm, Flat, DoneIsFlat
<1> QED BY <1>1, <1>2, <1>3, PTL DEF Spec

-----------------------------------------------------------------------------
(* Counting the entry, and its stop.                                       *)

\* The entry orders of the night, and what was bought: what they show as filled and what they
\* do not.
EntryOrders == {o \in book : o.id[1] = night.n /\ o.id[2] = "e"}
Entering == {"limit", "market", "entered"} \cup Asks
Counted ==
    pc \in Entering /\ work.leg = "e" =>
       /\ \A o \in EntryOrders : o.id[3] < work.k \/ o.id[3] = MarketNo
       /\ \A o, p \in EntryOrders : o.open /\ p.open => o = p
       /\ pos = DoneSum(EntryOrders) + late
Covered == \/ OpenLeg("s") = {} /\ pos = late
           \/ \E o \in book : OpenLeg("s") = {o} /\ pos = o.left + late
Stops ==
    /\ pc = "stop" => pos = night.qty + late
    /\ pc = "stopped" \/ night.phase = "holding" => Covered
    /\ night.phase = "holding" => pc \in {"hold", "final"}
Sound == Counted /\ Stops
SoundInv == crashes = 0 /\ faults = 0 => Sound

\* The entry orders of the night are finitely many orders.
LEMMA EntryOrdersAre ==
    ASSUME Typed
    PROVE  /\ EntryOrders \subseteq book /\ EntryOrders \subseteq Order /\ IsFiniteSet(EntryOrders)
           /\ \A o \in EntryOrders : o.done \in Nat
<1>1. EntryOrders \subseteq book /\ EntryOrders \subseteq Order /\ IsFiniteSet(EntryOrders)
  BY FS_Subset DEF EntryOrders, Typed, BookTyped
<1> QED BY <1>1 DEF Order

\* Steps that place nothing and end outside the places the parts speak of.
LEMMA Away ==
    ASSUME pc' \notin {"stop", "stopped"}, night'.phase # "holding",
           pc' \in Entering => work'.leg # "e"
    PROVE  Sound'
BY DEF Sound, Counted, Stops

\* Starting keeps the counts and the stop: there is no order yet.
LEMMA StartSound ==
    ASSUME TS, Calmness, ~Down, Sound,
           LookAtPosition \/ RecoverHeld \/ RecoverUnentered \/ RecoverFlat \/ RecoverIdle
    PROVE  Sound'
<1>1. night.phase = "none" /\ seen = 0 /\ pos = 0 /\ book = {} /\ ~Active
  BY DEF LookAtPosition, RecoverHeld, RecoverUnentered, RecoverFlat, RecoverIdle, Calmness, Quiet, Active
<1>2. LookAtPosition \/ RecoverIdle
  BY <1>1 DEF RecoverHeld, RecoverUnentered, RecoverFlat
<1>3. night' = night /\ pc' \in {"recover", "next"}
  BY <1>1, <1>2 DEF LookAtPosition, RecoverIdle, plan
<1> QED BY <1>1, <1>3, Away DEF Entering

\* Choosing a night keeps them: no night is under way.
LEMMA ChooseSound ==
    ASSUME TS, Calmness, ~Down, Sound, PassNight \/ ResumeNight \/ LateNight \/ BeginNight \/ NoNight
    PROVE  Sound'
<1>1. pc = "next" /\ ~Active
  BY DEF PassNight, ResumeNight, LateNight, BeginNight, NoNight, Calmness, Quiet
<1>2. ~ResumeNight
  BY <1>1 DEF ResumeNight, Active
<1>4. pc' \in {"next", "enter", "end"} /\ night'.phase # "holding"
  <2>1. CASE PassNight \/ LateNight
    <3>1. PICK n \in Nights : SkipNight(NewNight(n))
      BY <2>1 DEF PassNight, LateNight, Left
    <3>2. night'.phase = "skipped"
      BY <3>1, SkipTyped, NewNightIs DEF TS, Typed
    <3> QED BY <1>1, <2>1, <3>2 DEF PassNight, LateNight
  <2>2. CASE BeginNight
    <3>1. PICK n \in Nights : night' = NewNight(n)
      BY <2>2 DEF BeginNight, Left
    <3> QED BY <2>2, <3>1, NewNightIs DEF BeginNight
  <2>3. CASE NoNight
    BY <1>1, <2>3 DEF NoNight, plan, Active
  <2> QED BY <1>2, <2>1, <2>2, <2>3
<1> QED BY <1>4, Away DEF Entering

\* Entering keeps them: a new night has no entry orders yet, and its quantity is what they show.
LEMMA EnterSound ==
    ASSUME TS, TS', Calmness, ~Down, Sound, EnterRefused \/ EnterNight \/ EntryEmpty \/ EntryFilled
    PROVE  Sound'
<1>1. night.n \in Nights /\ PlanTyped /\ night \in NightRec /\ night.n \notin hist
  BY DEF TS, Typed, PlanTyped, Dated, Staged, EnterRefused, EnterNight, EntryEmpty, EntryFilled, Active,
         Calmness, Quiet
<1>2. CASE EnterRefused \/ EntryEmpty
  <2>1. SkipNight(night) /\ pc' = "next"
    BY <1>2 DEF EnterRefused, EntryEmpty
  <2>2. night'.phase = "skipped"
    BY <1>1, <2>1, SkipTyped
  <2> QED BY <2>1, <2>2, Away DEF Entering
<1>3. CASE EnterNight
  <2>1. /\ pc = "enter" /\ pc' \in {"limit", "market"} /\ SetPhase("entering") /\ pos' = 0 /\ late' = 0
        /\ book' = {o \in book : o.open \/ o.id[1] = night.n}
    BY <1>3 DEF EnterNight
  <2>2. night'.phase = "entering" /\ night'.n = night.n
    BY <1>1, <2>1, PhaseTyped DEF Phases
  <2>3. LegsSoFar = {}
    BY <2>1 DEF LegsSoFar
  <2>4. \A o \in book : o.id[1] # night.n
    BY <1>1, <2>3 DEF Calmness, Placed, Ids
  <2>5. EntryOrders' = {}
    BY <2>1, <2>2, <2>4 DEF EntryOrders
  <2>6. DoneSum({}) = 0
    BY FS_EmptySet, DoneTake
  <2>7. pos' = DoneSum(EntryOrders') + late'
    BY <2>1, <2>5, <2>6
  <2>8. Counted'
    BY <2>5, <2>7 DEF Counted
  <2> QED BY <2>1, <2>2, <2>8 DEF Sound, Stops
<1>4. CASE EntryFilled
  <2>1. /\ pc = "entered" /\ pc' = "stop" /\ book' = book /\ pos' = pos /\ late' = late
        /\ night' = [night EXCEPT !.qty = Filled]
    BY <1>4 DEF EntryFilled, exch, missed
  <2>2. night'.qty = Filled /\ night'.phase = night.phase /\ work.leg = "e"
    BY <1>1, <2>1 DEF NightRec, TS, Staged
  <2>3. Ours = EntryOrders
    BY <2>1, <2>2 DEF Sound, Counted, Ours, EntryOrders, Entering
  <2>4. pos' = night'.qty + late'
    BY <2>1, <2>2, <2>3 DEF Filled, Sound, Counted, Entering
  <2>5. night.phase # "holding"
    BY <2>1 DEF Sound, Stops
  <2> QED BY <2>1, <2>2, <2>4, <2>5 DEF Sound, Counted, Stops, Entering
<1> QED BY <1>2, <1>3, <1>4

\* The stop that is placed covers what was shown, and still does when the night is held.
LEMMA StopSound ==
    ASSUME TS, late \in Nat, Calmness, ~Down, ~Fails, Sound, PlaceStop \/ HoldNight
    PROVE  Sound'
<1>1. night \in NightRec /\ night.n \in Nights /\ PlanTyped /\ night.n \notin hist /\ work.ret = "hold"
  BY DEF TS, Typed, PlanTyped, Dated, Staged, Active, PlaceStop, HoldNight, Calmness, Quiet
<1>2. CASE PlaceStop
  <2>1. /\ pc = "stop" /\ pc' = "stopped" /\ night' = [night EXCEPT !.seq = @ + 1] /\ pos' = pos
        /\ late' = late
    BY <1>2 DEF PlaceStop, NoMarketData, missed
  <2>2. night'.phase = night.phase /\ night.seq \in Nat /\ night.phase # "holding"
    BY <1>1, <2>1 DEF NightRec, Sound, Stops
  <2>3. pos = StopQty + late /\ StopQty \in Nat /\ pos \in Nat /\ ~(StopQty > pos)
    BY <2>1, Quantities DEF StopQty, Sound, Stops, TS, Typed
  <2>4. book' = StopKnown(TRUE)
    <3>1. ~NoMarketData
      BY DEF NoMarketData
    <3> QED BY <1>2, <2>3, <3>1 DEF PlaceStop
  <2>5. ~Known(Id("s", night.seq))
    <3>1. Id("s", night.seq)[1] = night.n /\ Id("s", night.seq)[2] = "s"
      BY DEF Id
    <3>2. LegsSoFar = {"e"}
      BY <2>1 DEF LegsSoFar
    <3>3. Id("s", night.seq) \notin Ids
      BY <1>1, <3>1, <3>2 DEF Calmness, Placed
    <3> QED BY <3>3 DEF Known, Ids
  <2>6. Adds("s", night.seq, StopQty, 0, TRUE)
    BY <2>4, <2>5 DEF StopKnown, Adds
  <2>7. "s" \in Legs /\ 0 \in Nat /\ TRUE \in BOOLEAN
    BY DEF Legs
  <2>9. PICK o : o = NewOrder(Id("s", night.seq), StopQty, 0, TRUE)
    OBVIOUS
  <2>10. o.left = StopQty
    BY <2>9 DEF NewOrder
  <2>11. OpenLeg("s") = {}
    <3>1. OpenIds = {}
      BY <2>1, NoneOpen DEF Calmness
    <3> QED BY <3>1 DEF OpenIds, OpenLeg
  <2>12. OpenLeg("s")' = {o}
    <3>1. OpenLeg("s")' = OpenLeg("s") \cup
             (IF TRUE THEN {NewOrder(Id("s", night.seq), StopQty, 0, TRUE)} ELSE {})
      BY <2>2, <2>3, <2>6, <2>7, AddsOpen
    <3> QED BY <2>9, <2>11, <3>1
  <2>13. o \in book' /\ pos' = o.left + late'
    BY <2>1, <2>3, <2>6, <2>9, <2>10 DEF Adds
  <2>14. Covered'
    BY <2>12, <2>13 DEF Covered
  <2> QED BY <2>1, <2>2, <2>14 DEF Sound, Counted, Stops, Entering
<1>3. CASE HoldNight
  <2>1. /\ pc = "stopped" /\ pc' = "hold" /\ SetPhase("holding") /\ book' = book /\ pos' = pos /\ late' = late
    BY <1>1, <1>3 DEF HoldNight, exch, missed
  <2>2. Covered'
    BY <2>1 DEF Sound, Stops, Covered, OpenLeg, Open
  <2> QED BY <2>1, <2>2 DEF Sound, Counted, Stops, Entering
<1> QED BY <1>2, <1>3

\* The order work is not about a stop.
LEMMA Working ==
    ASSUME TS, Sound, pc \in {"limit", "market"} \cup Asks
    PROVE  /\ night.n \in Nights /\ night \in NightRec /\ night.phase # "holding" /\ work \in WorkRec
           /\ work.leg \in {"e", "x"} /\ work.k \in Nat /\ pos \in Nat
           /\ work.leg = "e" => /\ Ours = EntryOrders /\ pos = DoneSum(EntryOrders) + late
                                /\ \A o, p \in EntryOrders : o.open /\ p.open => o = p
<1>1. /\ night.n \in Nights /\ night \in NightRec /\ night.phase # "holding" /\ work \in WorkRec
      /\ work.leg \in {"e", "x"} /\ work.k \in Nat /\ pos \in Nat
  BY Constants DEF TS, Typed, PlanTyped, Dated, Staged, Active, Sound, Stops, WorkRec
<1>2. work.leg = "e" => Ours = EntryOrders
  BY DEF Sound, Counted, Ours, EntryOrders, Entering
<1> QED BY <1>1, <1>2 DEF Sound, Counted, Entering

\* Entry orders that only change in what is open count as before.
LEMMA CountsOn ==
    ASSUME TS, Sound, pc \in {"limit", "market"} \cup Asks, work.leg = "e", book' = book, night' = night,
           pos' = pos, late' = late, pc' \in Entering, work'.leg = "e",
           work'.k \in Nat, work'.k >= work.k
    PROVE  Sound'
<1>1. \A o \in EntryOrders : o.id[3] \in Nat
  BY EntryOrdersAre DEF TS, Order
<1>2. EntryOrders' = EntryOrders
  BY DEF EntryOrders
<1>3. work.k \in Nat /\ night.phase # "holding"
  BY Working
<1>4. \A o \in EntryOrders : o.id[3] < work'.k \/ o.id[3] = MarketNo
  BY <1>1, <1>3 DEF Sound, Counted, Entering
<1>5. pos' = DoneSum(EntryOrders') + late'
  BY <1>2, Working
<1>6. Counted'
  BY <1>2, <1>4, <1>5, Working DEF Counted
<1> QED BY <1>3, <1>6 DEF Sound, Stops, Entering

\* A new entry order adds what it fills at once, shown or not, to both sides.
LEMMA CountsAdded ==
    ASSUME TS, TS', late \in Nat, Sound, pc \in {"limit", "market"} \cup Asks, work.leg = "e",
           NEW k \in Nat, NEW l \in Nat, NEW d \in Nat, NEW m \in Nat, NEW b \in BOOLEAN,
           Adds("e", k, l, d, b), ~Known(Id("e", k)), night' = night, pc' \in {"limit", "market", "entered"},
           work'.leg = "e", work'.k >= work.k, k < work'.k \/ k = MarketNo, b => Current = {},
           pos' = pos + (d + m), late' = late + m
    PROVE  Sound'
<1>1. PICK o : o = NewOrder(Id("e", k), l, d, b)
  OBVIOUS
<1>2. /\ o \in Order /\ o.id = Id("e", k) /\ o.done = d /\ o.open = b
      /\ o.id[1] = night.n /\ o.id[2] = "e" /\ o.id[3] = k
  <2>1. /\ o.id = Id("e", k) /\ o.done = d /\ o.open = b
        /\ o.id[1] = night.n /\ o.id[2] = "e" /\ o.id[3] = k
    BY <1>1 DEF NewOrder, Id
  <2>2. "e" \in Legs /\ night \in NightRec
    BY DEF Legs, TS, Typed, PlanTyped
  <2>3. NewOrder(Id("e", k), l, d, b) \in Order
    BY ONLY <2>2, k \in Nat, l \in Nat, d \in Nat, b \in BOOLEAN, NewOrderIs
  <2> QED BY <1>1, <2>1, <2>3
<1>3. book' = book \cup {o}
  BY <1>1 DEF Adds
<1>5. EntryOrders' = EntryOrders \cup {o} /\ o \notin EntryOrders
  BY <1>2, <1>3 DEF EntryOrders, Known
<1>6. /\ IsFiniteSet(EntryOrders) /\ \A x \in EntryOrders : x.done \in Nat /\ x.id[3] \in Nat
  BY EntryOrdersAre DEF TS, Order
<1>7. DoneSum(EntryOrders') = DoneSum(EntryOrders) + d /\ DoneSum(EntryOrders) \in Nat
  BY <1>2, <1>5, <1>6, DoneAdd, DoneTake
<1>8. pos = DoneSum(EntryOrders) + late /\ work.k \in Nat /\ work'.k \in Nat /\ night.phase # "holding"
  BY Working, Constants DEF TS, Typed, WorkRec
<1>p. pos' = DoneSum(EntryOrders') + late'
  <2>1. PICK s \in Nat : s = DoneSum(EntryOrders)
    BY <1>7
  <2>2. (s + late) + (d + m) = (s + d) + (late + m)
    BY ONLY <2>1, late \in Nat, d \in Nat, m \in Nat
  <2> QED BY <1>7, <1>8, <2>1, <2>2
<1>9. \A x \in EntryOrders' : x.id[3] < work'.k \/ x.id[3] = MarketNo
  BY <1>2, <1>5, <1>6, <1>8 DEF Sound, Counted, Entering
<1>10. \A x, y \in EntryOrders' : x.open /\ y.open => x = y
  <2>1. b => \A x \in EntryOrders : ~x.open
    BY Working DEF Current
  <2> QED BY <1>2, <1>5, <2>1, Working
<1>11. Counted'
  BY <1>p, <1>9, <1>10 DEF Counted
<1> QED BY <1>8, <1>11 DEF Sound, Stops

\* An entry order is changed: it is filled by a quantity, shown or not, or cancelled.
LEMMA CountsChanged ==
    ASSUME TS, TS', late \in Nat, Unique, Sound, pc = "limit", work.leg = "e", NEW o \in EntryOrders,
           NEW p \in Order, NEW d \in Nat, NEW m \in Nat,
           p.id = o.id, p.done = o.done + d, p.open => o.open, book' = (book \ {o}) \cup {p},
           pos' = pos + (d + m), late' = late + m, UNCHANGED <<pc, night, work>>
    PROVE  Sound'
<1>1. /\ IsFiniteSet(EntryOrders) /\ \A x \in EntryOrders : x.done \in Nat
      /\ o \in book
  BY EntryOrdersAre DEF TS
<1>3. EntryOrders' = (EntryOrders \ {o}) \cup {p}
  BY DEF EntryOrders
<1>4. p \notin EntryOrders \ {o}
  BY <1>1 DEF EntryOrders, Unique
<1>5. p.done \in Nat
  BY DEF Order
<1>6. DoneSum(EntryOrders') = DoneSum(EntryOrders) + p.done - o.done /\ DoneSum(EntryOrders) \in Nat
  BY <1>1, <1>3, <1>4, <1>5, DoneReplace, DoneTake
<1>7. pos = DoneSum(EntryOrders) + late /\ night.phase # "holding" /\ o.done \in Nat
  BY <1>1, Working
<1>8. pos' = DoneSum(EntryOrders') + late'
  <2>1. PICK s \in Nat, c \in Nat : s = DoneSum(EntryOrders) /\ c = o.done
    BY <1>6, <1>7
  <2>2. (s + late) + (d + m) = (s + (c + d) - c) + (late + m)
    BY ONLY <2>1, late \in Nat, d \in Nat, m \in Nat
  <2> QED BY <1>6, <1>7, <2>1, <2>2
<1>9. Counted'
  BY <1>3, <1>8 DEF Counted, Sound, Entering
<1> QED BY <1>7, <1>9 DEF Sound, Stops

\* The exit's orders are counted nowhere.
LEMMA ExitAway ==
    ASSUME TS, Sound, pc \in {"limit", "market"}, work.leg = "x", night' = night,
           pc' \in {"limit", "market", "force"}, work'.leg = "x"
    PROVE  Sound'
BY Working, Away

\* A refusal leaves the orders alone.
LEMMA RefusedSound ==
    ASSUME TS, Sound, pc \in {"limit", "market"} \cup Asks, Refused \/ Rejected, late' = late
    PROVE  Sound'
<1>0. /\ work.leg \in {"e", "x"} /\ work \in WorkRec /\ work.k \in Nat /\ night' = night
      /\ (work.leg = "x" => pc \in {"limit", "market"})
  BY Working DEF Refused, Rejected, Leave, plan, TS, Staged
<1>1. /\ book' = book /\ pos' = pos /\ pc' = AfterWork
      /\ work' = IF work.leg = "e" THEN [work EXCEPT !.k = MaxLimit] ELSE work
  BY DEF Refused, Rejected, Leave, exch
<1>3. CASE work.leg = "x"
  BY <1>0, <1>1, <1>3, ExitAway DEF AfterWork
<1>4. CASE work.leg = "e"
  <2>1. work'.leg = "e" /\ work'.k = MaxLimit /\ work.k <= MaxLimit /\ MaxLimit \in Nat
    BY <1>0, <1>1, <1>4, Constants DEF WorkRec
  <2>2. work'.k >= work.k /\ pc' \in Entering
    BY <1>0, <1>1, <1>4, <2>1 DEF AfterWork, Entering
  <2> QED BY <1>0, <1>1, <1>4, <2>1, <2>2, CountsOn
<1> QED BY <1>0, <1>3, <1>4

\* Asking leaves them alone, too.
LEMMA AskSound ==
    ASSUME TS, Sound, AskPosition \/ AskOrders
    PROVE  Sound'
<1>1. /\ pc \in {"limit", "market"} \cup Asks /\ work.leg = "e" /\ late' = late /\ work.k \in Nat
  BY AskIs, Constants DEF AskPosition, AskOrders, missed, TS, Typed, WorkRec
<1>2. CASE Rejected
  BY <1>1, <1>2, RefusedSound
<1>3. CASE ~Rejected
  <2>1. pc' \in Asks /\ UNCHANGED <<plan, work, exch>>
    BY <1>3, AskIs DEF Moves
  <2>2. work'.k >= work.k /\ pc' \in Entering /\ UNCHANGED <<night, book, pos, work>>
    BY <1>1, <2>1 DEF Entering, plan, exch
  <2> QED BY <1>1, <2>2, CountsOn
<1> QED BY <1>2, <1>3

\* Limit orders keep the counts and the stop.
LEMMA LimitSound ==
    ASSUME TS, TS', late \in Nat, Unique, Calmness, ~Down, ~Fails, Sound,
           PlaceLimit \/ CancelLimit \/ LimitOver
    PROVE  Sound'
<1>0. /\ pc \in {"limit", "limitPost"} /\ (pc = "limitPost" => work.leg = "e")
      /\ (PlaceLimit \/ pc = "limit") /\ late' = late
  BY DEF PlaceLimit, CancelLimit, LimitOver, missed, TS, Staged
<1>w. /\ work.leg \in {"e", "x"} /\ work \in WorkRec /\ work.k \in Nat /\ night' = night
      /\ (work.leg = "x" => pc = "limit")
  BY <1>0, Working DEF PlaceLimit, CancelLimit, LimitOver, plan, Refused, Leave, NoMarketData
<1>1. CASE LimitOver
  <2>1. work' = work /\ book' = book /\ pos' = pos /\ pc' = "market"
    BY <1>1 DEF LimitOver, exch
  <2>3. work'.k >= work.k
    BY <1>w, <2>1
  <2> QED BY <1>0, <1>w, <2>1, <2>3, CountsOn, ExitAway DEF Entering
<1>2. CASE CancelLimit
  <2>1. /\ Current # {} /\ Shuts(Current) /\ pc' = pc /\ work' = work /\ pos' = pos /\ pc = "limit"
    BY <1>2 DEF CancelLimit, Shuts, Current, Open, Ours
  <2>3. CASE work.leg = "x"
    BY <1>w, <2>1, <2>3, ExitAway
  <2>4. CASE work.leg = "e"
    <3>1. PICK o : o \in Current
      BY <2>1
    <3>2. o \in EntryOrders /\ o.open
      BY <1>0, <2>4, <3>1, Working DEF Current
    <3>3. Current = {o}
      BY <1>0, <2>4, <3>1, Working DEF Current
    <3>4. o \in Order
      BY <3>2, EntryOrdersAre DEF TS
    <3>5. PICK p : p = [o EXCEPT !.open = FALSE]
      OBVIOUS
    <3>6. p \in Order /\ p.id = o.id /\ p.done = o.done /\ p.open = FALSE
      BY <3>4, <3>5, ShutIs
    <3>7. book' = (book \ {o}) \cup {p}
      BY <2>1, <3>3, <3>5 DEF Shuts, Shut
    <3>8. o.done \in Nat /\ pos \in Nat
      BY <3>4 DEF Order, TS, Typed
    <3>9. p.done = o.done + 0 /\ pos' = pos + (0 + 0) /\ late' = late + 0 /\ 0 \in Nat
      BY <1>0, <2>1, <3>6, <3>8
    <3>10. UNCHANGED <<pc, night, work>>
      BY <1>w, <2>1
    <3> QED BY <2>1, <2>4, <3>2, <3>6, <3>7, <3>9, <3>10, CountsChanged
  <2> QED BY <1>w, <2>3, <2>4
<1>3. CASE PlaceLimit
  <2>0. ~NoMarketData /\ Current = {} /\ Rest > 0
    BY <1>3 DEF NoMarketData, PlaceLimit, LimitDue
  <2>1. CASE Refused
    BY <1>0, <2>1, RefusedSound
  <2>2. CASE ~Refused
    <3>1. /\ pc' = "limit" /\ pos' = pos /\ work' = [work EXCEPT !.k = @ + 1]
          /\ \/ book' = book
             \/ ~Known(Id(work.leg, work.k)) /\ \E b \in BOOLEAN : Adds(work.leg, work.k, Rest, 0, b)
      BY <1>3, <2>0, <2>2 DEF PlaceLimit, Adds
    <3>2. work'.k = work.k + 1 /\ work'.leg = work.leg /\ Rest \in Nat /\ pos \in Nat
      BY <1>w, <2>0, <3>1, Quantities DEF WorkRec, TS, Typed
    <3>3. /\ work'.k >= work.k /\ work.k < work'.k /\ work'.k \in Nat /\ 0 \in Nat
          /\ pos' = pos + (0 + 0) /\ late' = late + 0
      BY <1>0, <1>w, <3>1, <3>2
    <3>4. CASE book' = book
      <4>1. CASE work.leg = "x"
        BY <1>w, <3>1, <3>2, <4>1, ExitAway
      <4>2. CASE work.leg = "e"
        BY <1>0, <1>w, <3>1, <3>2, <3>3, <3>4, <4>2, CountsOn DEF Entering
      <4> QED BY <1>w, <4>1, <4>2
    <3>5. ASSUME NEW b \in BOOLEAN, Adds(work.leg, work.k, Rest, 0, b), ~Known(Id(work.leg, work.k))
          PROVE  Sound'
      <4>1. CASE work.leg = "x"
        BY <1>w, <3>1, <3>2, <4>1, ExitAway
      <4>2. CASE work.leg = "e"
        BY <1>0, <1>w, <2>0, <3>1, <3>2, <3>3, <3>5, <4>2, CountsAdded
      <4> QED BY <1>w, <4>1, <4>2
    <3> QED BY <3>1, <3>4, <3>5
  <2> QED BY <2>1, <2>2
<1> QED BY <1>1, <1>2, <1>3

\* So does the market order of a leg.
LEMMA MarketSound ==
    ASSUME TS, TS', late \in Nat, Calmness, ~Down, ~Fails, Sound, NoRest \/ PlaceMarket
    PROVE  Sound'
<1>0. pc \in {"market", "marketPost"} /\ (PlaceMarket \/ pc = "market") /\ (pc = "marketPost" => work.leg = "e")
  BY DEF NoRest, PlaceMarket, TS, Staged
<1>w. /\ work.leg \in {"e", "x"} /\ work \in WorkRec /\ work.k \in Nat /\ night' = night
      /\ (work.leg = "x" => pc = "market")
  BY <1>0, Working DEF NoRest, PlaceMarket, plan, Refused, Leave, NoMarketData
<1>1. CASE NoRest
  <2>1. work' = work /\ book' = book /\ pos' = pos /\ late' = late /\ pc' = AfterWork
    BY <1>1 DEF NoRest, exch, missed
  <2>3. work'.k >= work.k
    BY <1>w, <2>1
  <2> QED BY <1>0, <1>w, <2>1, <2>3, CountsOn, ExitAway DEF AfterWork, Entering
<1>2. CASE PlaceMarket
  <2>0. ~NoMarketData /\ Rest > 0 /\ ~Known(Id(work.leg, MarketNo))
    BY <1>2, PlaceMarketIs DEF NoMarketData
  <2>1. CASE Refused /\ late' = late
    BY <1>0, <2>1, RefusedSound
  <2>2. Rest \in Nat /\ MarketNo \in Nat /\ 0 \in Nat /\ FALSE \in BOOLEAN
    BY <2>0, Quantities DEF TS, MarketNo
  <2>3. CASE work.leg = "x" /\ Bought("x", Sells(Rest))
    BY <1>0, <1>w, <2>3, ExitAway DEF Bought, AfterWork
  <2>4. CASE work.leg = "e" /\ Bought("e", Rest)
    <3>1. PICK v \in ShownOf(Rest) : Adds("e", MarketNo, 0, v, FALSE) /\ late' = late + (Rest - v)
      BY <2>4 DEF Bought
    <3>2. v \in Nat /\ Rest - v \in Nat /\ v + (Rest - v) = Rest
      BY <2>2, ShownIs
    <3>3. pos' = pos + (v + (Rest - v)) /\ work' = work /\ pc' = "entered"
      BY <2>4, <3>2 DEF Bought, AfterWork
    <3>4. work'.k >= work.k
      BY <1>w, <3>3
    <3> QED BY <1>0, <1>w, <2>0, <2>2, <2>4, <3>1, <3>2, <3>3, <3>4, CountsAdded
  <2> QED BY <1>2, <2>0, <2>1, <2>3, <2>4, PlaceMarketIs
<1> QED BY <1>1, <1>2

\* So does leaving: the stop stays until the night is finished.
LEMMA LeaveSound ==
    ASSUME TS, Calmness, ~Down, ~Fails, Sound, StoppedOut \/ StartExit \/ ForceExit
    PROVE  Sound'
<1>1. night \in NightRec /\ night.n \in Nights /\ PlanTyped /\ pos \in Nat
  BY DEF StoppedOut, StartExit, ForceExit, TS, Typed, PlanTyped, Dated, Staged, Active
<1>2. CASE StoppedOut
  <2>1. pc = "hold" /\ pc' = "final" /\ night' = night /\ book' = book /\ pos' = pos /\ late' = late
    BY <1>2 DEF StoppedOut, plan, exch, missed
  <2>3. Covered => Covered'
    BY <2>1 DEF Covered, OpenLeg, Open
  <2> QED BY <2>1, <2>3 DEF Sound, Counted, Stops, Entering
<1>3. CASE StartExit
  <2>1. /\ SetPhase("exiting") /\ pc' \in {"force", "limit", "market"}
        /\ work' = [leg |-> "x", qty |-> pos, k |-> 0, ret |-> "residual"]
    BY <1>3 DEF StartExit
  <2>2. night'.phase = "exiting" /\ work'.leg = "x"
    BY <1>1, <2>1, PhaseTyped DEF Phases
  <2> QED BY <2>1, <2>2, Away
<1>4. CASE ForceExit
  <2>1. pc = "force" /\ pc' = "final" /\ night' = night
    BY <1>4 DEF ForceExit, CloseAll, plan
  <2>4. night.phase # "holding"
    BY <2>1 DEF Sound, Stops
  <2> QED BY <2>1, <2>4, Away DEF Entering
<1> QED BY <1>2, <1>3, <1>4

\* So does finishing a night.
LEMMA FinishSound ==
    ASSUME TS, Calmness, ~Down, Sound, Finalize \/ RecordNight \/ JudgeNight \/ Archive \/ ResidualCheck
    PROVE  Sound'
<1>1. CASE Finalize
  <2>1. /\ pc' = "record"
        /\ \E pnl \in Results : night' = [night EXCEPT !.phase = "done", !.pnl = pnl]
    BY <1>1 DEF Finalize
  <2>2. night \in NightRec
    BY DEF TS, Typed, PlanTyped
  <2>3. night'.phase = "done"
    BY <2>1, <2>2 DEF NightRec
  <2> QED BY <2>1, <2>3, Away DEF Entering
<1>2. CASE RecordNight \/ JudgeNight \/ Archive
  <2>1. night' = night /\ night.phase = "done"
    BY <1>2 DEF RecordNight, JudgeNight, Archive, plan, TS, Staged
  <2>2. pc' \in {"verdict", "archive", "next", "residual"}
    BY <1>2 DEF RecordNight, JudgeNight, Archive, TS, Staged
  <2> QED BY <2>1, <2>2, Away DEF Entering
<1>3. CASE ResidualCheck
  <2>1. pos = 0 /\ night.phase = "done"
    BY <1>3 DEF ResidualCheck, Calmness, Quiet, Flat
  <2>2. pc' = "next" /\ night' = night
    BY <1>3, <2>1 DEF ResidualCheck, CloseAll, plan
  <2> QED BY <2>1, <2>2, Away DEF Entering
<1> QED BY <1>1, <1>2, <1>3

\* A stop that fires sells what it covers.
LEMMA StopFiresSound ==
    ASSUME TS, late \in Nat, Calmness, Sound, StopFires
    PROVE  Sound'
<1>1. PICK o \in OpenLeg("s") : Fires(o) /\ pos' = pos - Sells(o.left)
  BY DEF StopFires, Fires
<1>2. o \in Open /\ o \in book /\ o.id[2] = "s" /\ UNCHANGED <<pc, plan, work, late>>
  BY DEF OpenLeg, Open, StopFires, missed
<1>3. night' = night
  BY <1>2 DEF plan
<1>4. PICK p \in Order :
         /\ p.id = o.id /\ p.open = FALSE /\ book' = (book \ {o}) \cup {p}
         /\ Open' = Open \ {o} /\ \A m \in Legs : OpenLeg(m)' = OpenLeg(m) \ {o}
  BY <1>1, <1>2, FiresOpen
<1>6. o.id \in OpenIds /\ Fits(o.id)
  BY <1>2 DEF OpenIds, Calmness, Needed
<1>7. /\ pc \in {"stopped", "hold", "force", "final", "limit", "market"}
      /\ pc \in {"limit", "market"} => work.leg = "x"
  <2>1. work.leg # "s"
    BY DEF TS, Typed, WorkRec
  <2> QED BY <1>2, <1>6, <2>1 DEF Fits
<1>8. Counted'
  BY <1>2, <1>7 DEF Counted, Entering
<1>9. Covered => Covered'
  <2> SUFFICES ASSUME Covered PROVE OpenLeg("s")' = {} /\ pos' = late'
    BY DEF Covered
  <2>1. OpenLeg("s") = {o} /\ pos = o.left + late /\ o.left \in Nat
    BY <1>1, OpenLegIs DEF Covered, TS
  <2>2. Sells(o.left) = o.left /\ pos \in Nat
    BY <2>1 DEF Sells, Lesser, TS, Typed
  <2>3. "s" \in Legs
    BY DEF Legs
  <2>4. pos' = late
    BY <1>1, <2>1, <2>2
  <2> QED BY <1>2, <1>4, <2>1, <2>3, <2>4
<1>10. Stops'
  BY <1>2, <1>3, <1>7, <1>9 DEF Sound, Stops
<1> QED BY <1>8, <1>10 DEF Sound

\* An entry or exit order is filled while it is worked on.
LEMMA FillsSound ==
    ASSUME TS, TS', late \in Nat, Unique, Calmness, Sound, EntryFills \/ ExitFills
    PROVE  Sound'
<1>1. PICK leg \in {"e", "x"} : \E o \in OpenLeg(leg) : \E q \in FillSizes(o) :
                  Fill(o, q) /\ (leg = "e" => pos' = pos + q)
  BY DEF EntryFills, ExitFills
<1>2. PICK o \in OpenLeg(leg) : \E q \in FillSizes(o) : Fill(o, q) /\ (leg = "e" => pos' = pos + q)
  BY <1>1
<1>3. PICK q \in FillSizes(o) : Fill(o, q) /\ (leg = "e" => pos' = pos + q)
  BY <1>2
<1>4. o \in Open /\ o \in book /\ o.open /\ o.id[2] = leg
  BY DEF OpenLeg, Open
<1>5. q \in Nat /\ q <= o.left
  BY <1>4, FillSizesAre
<1>6. PICK p \in Order : \E v \in ShownOf(q) :
         /\ p.id = o.id /\ p.left = o.left - q /\ p.done = o.done + v /\ (p.open <=> o.left > q)
         /\ late' = late + (q - v) /\ book' = (book \ {o}) \cup {p}
  BY <1>3, <1>4, <1>5, FillOpen
<1>v. PICK v \in ShownOf(q) :
         p.done = o.done + v /\ late' = late + (q - v)
  BY <1>6
<1>7. UNCHANGED <<pc, night, work>>
  BY DEF EntryFills, ExitFills, plan
<1>8. pc = "limit" /\ work.leg = leg /\ o.id[1] = night.n
  BY <1>1, <1>4 DEF OpenIds, Calmness, Needed, Fits
<1>9. CASE leg = "e"
  <2>1. o \in EntryOrders
    BY <1>4, <1>8, <1>9 DEF EntryOrders
  <2>2. v \in Nat /\ q - v \in Nat /\ v + (q - v) = q
    BY <1>5, ShownIs
  <2>3. pos' = pos + (v + (q - v)) /\ p.id = o.id /\ (p.open => o.open) /\ book' = (book \ {o}) \cup {p}
    BY <1>3, <1>4, <1>6, <1>9, <2>2
  <2> QED BY <1>v, <1>7, <1>8, <1>9, <2>1, <2>2, <2>3, CountsChanged
<1>10. CASE leg = "x"
  BY <1>7, <1>8, <1>10, ExitAway
<1> QED BY <1>1, <1>9, <1>10

\* So does time.
LEMMA StillSound ==
    ASSUME Sound, Tick \/ UNCHANGED vars
    PROVE  Sound'
<1>1. UNCHANGED <<pc, night, work, book, pos, late>>
  BY DEF Tick, plan, exch, missed, vars
<1>2. (Covered => Covered') /\ EntryOrders' = EntryOrders
  BY <1>1 DEF Covered, OpenLeg, Open, EntryOrders
<1> QED BY <1>1, <1>2 DEF Sound, Counted, Stops

\* No step without a fault looks like one with a fault.
LEMMA Faultlessly ==
    ASSUME TS, [Next]_vars, faults' = 0
    PROVE  faults = 0 /\ ~Fails
<1>1. faults' = faults \/ Fails
  <2>1. CASE Runner
    BY <2>1 DEF Runner, LookAtPosition, RecoverHeld, RecoverUnentered, RecoverFlat, RecoverIdle,
       PassNight, ResumeNight, LateNight, BeginNight, NoNight, EnterRefused, EnterNight, EntryEmpty,
       EntryFilled, PlaceStop, HoldNight, AskPosition, AskOrders, PlaceLimit, CancelLimit, LimitOver,
       NoRest, PlaceMarket, StoppedOut, StartExit, ForceExit, ResidualCheck, Finalize, RecordNight,
       JudgeNight, Archive, CloseAll, Refused, NoMarketData, Unhealthy, Works
  <2>2. CASE Exchange \/ Tick \/ Restart \/ Crash \/ UNCHANGED vars
    BY <2>2 DEF Exchange, EntryFills, ExitFills, StopFires, Tick, Restart, Crash, vars
  <2> QED BY <2>1, <2>2 DEF Next
<1>2. Fails => faults' = faults + 1 /\ faults \in Nat
  BY DEF Fails, TS, Typed
<1> QED BY <1>1, <1>2

\* Every step keeps them, as long as nothing fails.
LEMMA NextSound ==
    ASSUME TS, Unique, Missed, CalmInv, SoundInv, [Next]_vars
    PROVE  SoundInv'
<1> SUFFICES ASSUME crashes' = 0, faults' = 0 PROVE Sound'
  BY DEF SoundInv
<1>1. crashes = 0 /\ faults = 0 /\ ~Down /\ ~Fails
  BY Calmly, Faultlessly
<1>2. Calmness /\ Sound /\ TS' /\ late \in Nat
  BY <1>1, NextTyped DEF CalmInv, Calm, Calmness, SoundInv, Missed
<1>3. CASE Runner
  BY <1>1, <1>2, <1>3, StartSound, ChooseSound, EnterSound, StopSound, AskSound, LimitSound, MarketSound,
     LeaveSound, FinishSound DEF Runner
<1>4. CASE Exchange \/ Tick \/ UNCHANGED vars
  BY <1>2, <1>4, FillsSound, StopFiresSound, StillSound DEF Exchange
<1>5. ~Restart /\ ~Crash
  BY <1>1, <1>2 DEF Restart, Crash, Calmness, Quiet
<1> QED BY <1>3, <1>4, <1>5 DEF Next

\* While nothing fails, a held position has a stop on the exchange for all of it but what the
\* broker did not show in time: what the entry's orders show is what the stop is placed for,
\* and it is reached as a whole.
THEOREM StopCoversHolds == Spec => []StopCovers
<1>1. TS /\ Unique /\ Missed /\ CalmInv /\ SoundInv /\ [Next]_vars
         => (TS /\ Unique /\ Missed /\ CalmInv /\ SoundInv)'
  BY NextTyped, NextUnique, NextMissed, NextCalm, NextSound
<1>2. Init => TS /\ Unique /\ Missed /\ CalmInv /\ SoundInv
  <2>1. Init => SoundInv
    BY DEF Init, SoundInv, Sound, Counted, Stops, NewNight, Entering
  <2>2. Init => Unique /\ Missed
    BY DEF Init, Unique, Missed
  <2> QED BY <2>1, <2>2, InitTyped, InitCalm DEF TS
<1>3. TS /\ Missed /\ SoundInv => StopCovers
  <2> SUFFICES ASSUME TS, Missed, SoundInv, crashes = 0, faults = 0, night.phase = "holding"
               PROVE  pos <= Sum(OpenLeg("s")) + late
    BY DEF StopCovers
  <2>1. Covered /\ pos \in Nat /\ late \in Nat
    BY DEF SoundInv, Sound, Stops, TS, Typed, Missed
  <2>2. /\ OpenLeg("s") \subseteq Order /\ IsFiniteSet(OpenLeg("s")) /\ \A o \in OpenLeg("s") : o.left \in Nat
    BY OpenLegIs DEF TS
  <2>3. CASE OpenLeg("s") = {} /\ pos = late
    <3>1. Sum(OpenLeg("s")) = 0
      BY <2>2, <2>3, LeftTake
    <3> QED BY <2>1, <2>3, <3>1
  <2>4. CASE \E o \in book : OpenLeg("s") = {o} /\ pos = o.left + late
    <3>1. PICK o \in book : OpenLeg("s") = {o} /\ pos = o.left + late
      BY <2>4
    <3>2. o.left \in Nat /\ o \in OpenLeg("s") /\ OpenLeg("s") \ {o} = {}
      BY <2>2, <3>1
    <3>3. IsFiniteSet({}) /\ \A x \in {} : x.left \in Nat
      BY FS_EmptySet
    <3>4. Sum(OpenLeg("s")) = o.left + Sum(OpenLeg("s") \ {o}) /\ Sum({}) = 0
      BY <2>2, <3>2, <3>3, LeftTake
    <3>5. Sum(OpenLeg("s")) = o.left
      BY <3>2, <3>4
    <3> QED BY <2>1, <3>1, <3>2, <3>5
  <2> QED BY <2>1, <2>3, <2>4 DEF Covered
<1> QED BY <1>1, <1>2, <1>3, PTL DEF Spec
=============================================================================
