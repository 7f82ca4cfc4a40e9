---------------------------- MODULE UpkeepProofs ----------------------------
(***************************************************************************)
(* Theorems about the parts that Upkeep.cfg checks side by side: the       *)
(* records of the pastofi trader, its daily reconciliation, and the sleep  *)
(* guard and the messages of the collector.                                *)
(***************************************************************************)
EXTENDS PastofiStore, PastofiReconcile, CollectionWatch,
        TLAPS, FiniteSetTheorems, SequenceTheorems, WellFoundedInduction

StoreSpec == StoreInit /\ [][StoreNext]_storeVars
ReconcileSpec == ReconcileInit /\ [][ReconcileNext]_reconcileVars
WatchSpec == WatchInit /\ [][WatchNext]_watchVars

-----------------------------------------------------------------------------
(* The store: what is read of a file.                                      *)

Less == {ss \in Nat \X Nat : ss[1] < ss[2]}

\* A set of numbers has a least one.
LEMMA Least ==
    ASSUME NEW S, S \subseteq Nat, S # {}
    PROVE  \E x \in S : \A y \in S : x <= y
<1>1. IsWellFoundedOn(Less, Nat)
  BY NatLessThanWellFounded, Zenon DEF OpToRel, Less
<1>2. \E x \in S : \A y \in S : <<y, x>> \notin Less
  BY <1>1, WFMin, Zenon
<1>3. \A x, y \in Nat : <<y, x>> \notin Less => x <= y
  BY DEF Less
<1> QED BY <1>2, <1>3

\* What a sequence holds once a value has been appended.
LEMMA AppendSet ==
    ASSUME NEW S, NEW s \in Seq(S), NEW x \in S
    PROVE  /\ Append(s, x) \in Seq(S) /\ Append(s, x) # <<>> /\ Len(Append(s, x)) = Len(s) + 1
           /\ Append(s, x)[Len(s) + 1] = x /\ \A i \in 1..Len(s) : Append(s, x)[i] = s[i]
           /\ DOMAIN Append(s, x) = 1..Len(s) + 1 /\ DOMAIN s = 1..Len(s) /\ Len(s) \in Nat
           /\ ToSet(Append(s, x)) = ToSet(s) \cup {x}
<1>1. DOMAIN Append(s, x) = 1..Len(s) + 1 /\ DOMAIN s = 1..Len(s) /\ Len(s) \in Nat
  OBVIOUS
<1>2. Append(s, x)[Len(s) + 1] = x /\ \A i \in 1..Len(s) : Append(s, x)[i] = s[i]
  OBVIOUS
<1>3. ToSet(Append(s, x)) = ToSet(s) \cup {x}
  BY <1>1, <1>2 DEF ToSet
<1> QED BY <1>1, <1>2, <1>3, AppendProperties

\* The records, the lines and the files of the store.
Recs == [key : Trades \cup {"none"}, what : {"none", "entry", "refused", "exit", "trade"}]
Lines == [good : BOOLEAN, rec : Recs]
LineFiles ==
    {F \in [lines : Seq(Lines), tail : {"end", "cut", "bare"}, decodes : BOOLEAN] :
        /\ F.tail # "end" => F.lines # <<>>
        /\ F.tail = "cut" => ~F.lines[Len(F.lines)].good}
\* The records of the first n lines that can be parsed, and of all of them.
Upto(s, n) == {s[i].rec : i \in {j \in 1..n : s[j].good}}
Readable(F) == Upto(F.lines, Len(F.lines))

\* The recursion of read_jsonl.
Reads(s, N, g) ==
    g = [n \in 0..N |-> IF n = 0 THEN <<>>
                        ELSE IF s[n].good THEN Append(g[n - 1], s[n].rec) ELSE g[n - 1]]

\* There is a function that reads the lines one by one.
LEMMA ReadsExists ==
    ASSUME NEW s, NEW N \in Nat
    PROVE  \E g : Reads(s, N, g)
<1> DEFINE T == {n \in Nat : ~\E g : Reads(s, n, g)}
<1> SUFFICES ASSUME T # {} PROVE FALSE
  OBVIOUS
<1>1. PICK n \in T : \A m \in T : n <= m
  <2> HIDE DEF T
  <2>1. T \subseteq Nat
    BY DEF T
  <2> QED BY <2>1, Least
<1>2. n # 0
  <2>1. Reads(s, 0, [m \in 0..0 |-> <<>>])
    BY DEF Reads
  <2> QED BY <1>1, <2>1
<1>3. PICK p \in Nat : n = p + 1
  <2>1. n - 1 \in Nat /\ n = (n - 1) + 1
    BY <1>1, <1>2
  <2> QED BY <2>1
<1>4. PICK g : Reads(s, p, g)
  <2>1. p \notin T
    BY <1>1, <1>3
  <2> QED BY <2>1
<1> DEFINE h == [m \in 0..n |-> IF m = n THEN IF s[n].good THEN Append(g[p], s[n].rec) ELSE g[p]
                                ELSE g[m]]
<1>5. \A m \in 0..n : h[m] = IF m = 0 THEN <<>>
                             ELSE IF s[m].good THEN Append(h[m - 1], s[m].rec) ELSE h[m - 1]
  <2> SUFFICES ASSUME NEW m \in 0..n
               PROVE  h[m] = IF m = 0 THEN <<>>
                             ELSE IF s[m].good THEN Append(h[m - 1], s[m].rec) ELSE h[m - 1]
    OBVIOUS
  <2>1. CASE m = n
    <3>1. m - 1 = p /\ p \in 0..n /\ p # n /\ m # 0
      BY <1>3, <2>1
    <3>2. h[m - 1] = g[p]
      BY <3>1
    <3> QED BY <2>1, <3>1, <3>2
  <2>2. CASE m # n
    <3>1. m \in 0..p /\ h[m] = g[m]
      BY <1>3, <2>2
    <3>2. m # 0 => h[m - 1] = g[m - 1]
      BY <1>3, <2>2
    <3>3. g[m] = IF m = 0 THEN <<>>
                 ELSE IF s[m].good THEN Append(g[m - 1], s[m].rec) ELSE g[m - 1]
      BY <1>4, <3>1 DEF Reads
    <3> QED BY <3>1, <3>2, <3>3
  <2> QED BY <2>1, <2>2
<1>6. Reads(s, n, h)
  <2>1. h = [m \in 0..n |-> h[m]]
    OBVIOUS
  <2> HIDE DEF h
  <2> QED BY <1>5, <2>1 DEF Reads
<1> QED BY <1>1, <1>6

\* It reads what can be parsed.
LEMMA ReadsParsed ==
    ASSUME NEW s \in Seq(Lines), NEW g, Reads(s, Len(s), g)
    PROVE  \A n \in 0..Len(s) : g[n] \in Seq(Recs) /\ ToSet(g[n]) = Upto(s, n)
<1> DEFINE T == {n \in 0..Len(s) : ~(g[n] \in Seq(Recs) /\ ToSet(g[n]) = Upto(s, n))}
<1> SUFFICES ASSUME T # {} PROVE FALSE
  OBVIOUS
<1>1. PICK n \in T : \A m \in T : n <= m
  <2>1. T \subseteq Nat
    BY DEF T
  <2> HIDE DEF T
  <2> QED BY <2>1, Least
<1>2. \A m \in 0..Len(s) : g[m] = IF m = 0 THEN <<>>
                                  ELSE IF s[m].good THEN Append(g[m - 1], s[m].rec) ELSE g[m - 1]
  BY DEF Reads
<1>3. n # 0
  <2>1. g[0] = <<>> /\ <<>> \in Seq(Recs) /\ ToSet(<<>>) = {}
    BY <1>2, EmptySeq DEF ToSet
  <2>2. Upto(s, 0) = {}
    BY DEF Upto
  <2> QED BY <1>1, <2>1, <2>2
<1>4. PICK p \in 0..Len(s) : n = p + 1
  <2>1. n - 1 \in 0..Len(s) /\ n = (n - 1) + 1
    BY <1>1, <1>3
  <2> QED BY <2>1
<1>5. g[p] \in Seq(Recs) /\ ToSet(g[p]) = Upto(s, p)
  BY <1>1, <1>4
<1>6. n \in 1..Len(s) /\ s[n] \in Lines /\ s[n].rec \in Recs /\ n - 1 = p
  <2>1. n \in 0..Len(s) /\ Len(s) \in Nat
    BY <1>1
  <2>2. n \in 1..Len(s) /\ n - 1 = p
    BY <2>1, <1>3, <1>4
  <2>3. s[n] \in Lines
    BY <2>2
  <2> QED BY <2>2, <2>3 DEF Lines
<1>7. CASE s[n].good
  <2>1. g[n] = Append(g[p], s[n].rec)
    BY <1>1, <1>2, <1>3, <1>6, <1>7
  <2>2. {j \in 1..n : s[j].good} = {j \in 1..p : s[j].good} \cup {n}
    BY <1>4, <1>6, <1>7
  <2>3. Upto(s, n) = Upto(s, p) \cup {s[n].rec}
    BY <2>2 DEF Upto
  <2>4. g[n] \in Seq(Recs) /\ ToSet(g[n]) = Upto(s, n)
    <3> HIDE DEF T
    <3> QED BY <1>5, <1>6, <2>1, <2>3, AppendSet
  <2> QED BY <1>1, <2>4
<1>8. CASE ~s[n].good
  <2>1. g[n] = g[p]
    BY <1>1, <1>2, <1>3, <1>6, <1>8
  <2>2. {j \in 1..n : s[j].good} = {j \in 1..p : s[j].good}
    BY <1>4, <1>6, <1>8
  <2> QED BY <1>1, <1>5, <2>1, <2>2 DEF Upto
<1> QED BY <1>7, <1>8

\* What is read of a file are the records of the lines that can be parsed.
LEMMA ReadsFile ==
    ASSUME NEW F \in LineFiles
    PROVE  ToSet(ReadJsonl(F)) = Readable(F)
<1>1. F.lines \in Seq(Lines) /\ Len(F.lines) \in Nat
  BY DEF LineFiles
<1>2. ReadJsonl(F) = (CHOOSE g : Reads(F.lines, Len(F.lines), g))[Len(F.lines)]
  BY DEF ReadJsonl, Reads
<1>3. PICK g : /\ Reads(F.lines, Len(F.lines), g) /\ ReadJsonl(F) = g[Len(F.lines)]
  BY <1>1, <1>2, ReadsExists
<1> QED BY <1>1, <1>3, ReadsParsed DEF Readable

\* A sequence of lines with its last one spoilt.
Spoil(s) == Append(Front(s), Spoilt(Last(s)))

\* Only the last line changes.
LEMMA SpoilLast ==
    ASSUME NEW s \in Seq(Lines), s # <<>>
    PROVE  /\ Spoil(s) \in Seq(Lines) /\ Len(Spoil(s)) = Len(s) /\ Spoil(s) # <<>>
           /\ Len(s) \in 1..Len(s) /\ ~Spoil(s)[Len(s)].good
           /\ \A i \in 1..Len(s) : i # Len(s) => Spoil(s)[i] = s[i]
<1>1. Len(s) \in Nat \ {0} /\ Last(s) = s[Len(s)] /\ s[Len(s)] \in Lines
  BY EmptySeq DEF Last
<1>2. PICK l \in Lines : l = Spoilt(Last(s)) /\ ~l.good
  <2>1. PICK x \in Lines : x = Last(s)
    BY <1>1
  <2>2. Spoilt(x) \in Lines /\ ~Spoilt(x).good
    BY DEF Spoilt, Lines
  <2> QED BY <2>1, <2>2
<1>3. PICK f \in Seq(Lines) : /\ f = Front(s) /\ Len(f) = Len(s) - 1
                              /\ \A i \in 1..Len(s) - 1 : f[i] = s[i]
  <2>1. Front(s) = SubSeq(s, 1, Len(s) - 1)
    BY DEF Front
  <2>2. Len(s) - 1 \in Nat /\ Len(s) - 1 <= Len(s)
    BY <1>1
  <2>3. /\ SubSeq(s, 1, Len(s) - 1) \in Seq(Lines) /\ Len(SubSeq(s, 1, Len(s) - 1)) = Len(s) - 1
        /\ \A i \in 1..Len(s) - 1 : SubSeq(s, 1, Len(s) - 1)[i] = s[i]
    BY <2>2
  <2> QED BY <2>1, <2>3
<1> QED BY <1>1, <1>2, <1>3, AppendSet DEF Spoil

\* Records that a line spoilt at the end may lose: those of the last line.
LEMMA SpoilReads ==
    ASSUME NEW s \in Seq(Lines), s # <<>>
    PROVE  /\ Upto(s, Len(s)) \subseteq Upto(Spoil(s), Len(Spoil(s))) \cup {s[Len(s)].rec}
           /\ ~s[Len(s)].good => Upto(s, Len(s)) \subseteq Upto(Spoil(s), Len(Spoil(s)))
<1>1. /\ Len(Spoil(s)) = Len(s) /\ Len(s) \in 1..Len(s)
      /\ \A i \in 1..Len(s) : i # Len(s) => Spoil(s)[i] = s[i]
  BY SpoilLast
<1>2. ASSUME NEW i \in 1..Len(s), s[i].good, i # Len(s)
      PROVE  s[i].rec \in Upto(Spoil(s), Len(Spoil(s)))
  <2>1. Spoil(s)[i] = s[i]
    BY <1>1, <1>2
  <2>2. i \in {j \in 1..Len(Spoil(s)) : Spoil(s)[j].good} /\ Spoil(s)[i].rec = s[i].rec
    BY <1>1, <1>2, <2>1
  <2> QED BY <2>2 DEF Upto
<1> QED BY <1>2 DEF Upto

\* A line more is a record more.
LEMMA AppendReads ==
    ASSUME NEW s \in Seq(Lines), NEW l \in Lines
    PROVE  /\ Append(s, l) \in Seq(Lines) /\ Append(s, l) # <<>>
           /\ Append(s, l)[Len(Append(s, l))] = l
           /\ Upto(s, Len(s)) \subseteq Upto(Append(s, l), Len(Append(s, l)))
           /\ l.good => l.rec \in Upto(Append(s, l), Len(Append(s, l)))
<1>1. /\ Append(s, l) \in Seq(Lines) /\ Append(s, l) # <<>> /\ Len(Append(s, l)) = Len(s) + 1
      /\ Append(s, l)[Len(s) + 1] = l /\ \A i \in 1..Len(s) : Append(s, l)[i] = s[i]
      /\ Len(s) \in Nat
  BY AppendSet
<1>2. PICK n \in Nat, u \in Seq(Lines) : u = Append(s, l) /\ n = Len(s)
  BY <1>1
<1>3. ASSUME NEW i \in 1..n, s[i].good PROVE s[i].rec \in Upto(u, n + 1)
  <2>1. i \in {j \in 1..n + 1 : u[j].good} /\ u[i].rec = s[i].rec
    BY <1>1, <1>2, <1>3
  <2> QED BY <2>1 DEF Upto
<1>4. l.good => l.rec \in Upto(u, n + 1)
  <2> SUFFICES ASSUME l.good PROVE l.rec \in Upto(u, n + 1)
    OBVIOUS
  <2>1. n + 1 \in {j \in 1..n + 1 : u[j].good} /\ u[n + 1].rec = l.rec
    BY <1>1, <1>2
  <2> QED BY <2>1 DEF Upto
<1>5. Upto(s, n) \subseteq Upto(u, n + 1)
  BY <1>3 DEF Upto
<1> QED BY <1>1, <1>2, <1>4, <1>5

\* A file is what it holds and how it ends.
LEMMA FileParts ==
    \A F \in LineFiles : /\ F.lines \in Seq(Lines) /\ F.tail \in {"end", "cut", "bare"}
                         /\ F.tail # "end" => F.lines # <<>>
                         /\ F.tail = "cut" => ~F.lines[Len(F.lines)].good
                         /\ F.decodes \in BOOLEAN
                         /\ F = [lines |-> F.lines, tail |-> F.tail, decodes |-> F.decodes]
  BY DEF LineFiles

\* A file made of its parts, and a file with another part.
LEMMA FileOf ==
    ASSUME NEW s \in Seq(Lines), NEW w \in {"end", "cut", "bare"}, NEW d \in BOOLEAN,
           w # "end" => s # <<>>, w = "cut" => ~s[Len(s)].good
    PROVE  LET G == [lines |-> s, tail |-> w, decodes |-> d] IN
           G.lines = s /\ G.tail = w /\ G \in LineFiles
  BY DEF LineFiles

\* A file with other lines, or another end.
LEMMA FileWith ==
    ASSUME NEW F \in LineFiles, NEW s, NEW w
    PROVE  /\ [F EXCEPT !.lines = s] = [lines |-> s, tail |-> F.tail, decodes |-> F.decodes]
           /\ [F EXCEPT !.tail = w] = [lines |-> F.lines, tail |-> w, decodes |-> F.decodes]
  BY DEF LineFiles

\* What a line appended to a file costs: if the last line has its newline
\* nothing, and else the record, with that of the last line if it can be read.
LEMMA Added ==
    ASSUME NEW F \in LineFiles, NEW r \in Recs, NEW G, G = AddLine(F, r)
    PROVE  /\ G \in LineFiles /\ G.tail = "end" /\ G.lines # <<>>
           /\ F.tail = "end" => /\ G.lines = Append(F.lines, Line(r))
                                /\ Readable(F) \cup {r} \subseteq Readable(G)
           /\ F.tail # "end" => G.lines = Spoil(F.lines)
           /\ F.tail = "cut" => Readable(F) \subseteq Readable(G)
           /\ F.tail = "bare" => \E q : Readable(F) \subseteq Readable(G) \cup {q}
<1>1. Line(r) \in Lines /\ Line(r).good /\ Line(r).rec = r
  BY DEF Line, Lines
<1>2. /\ F.lines \in Seq(Lines) /\ F.tail \in {"end", "cut", "bare"}
      /\ F.tail # "end" => F.lines # <<>>
      /\ F.tail = "cut" => ~F.lines[Len(F.lines)].good
      /\ F.decodes \in BOOLEAN
  BY FileParts
<1>3. CASE F.tail = "end"
  <2>1. G = [F EXCEPT !.lines = Append(@, Line(r))]
    BY <1>3 DEF AddLine
  <2>2. Append(F.lines, Line(r)) \in Seq(Lines) /\ Append(F.lines, Line(r)) # <<>>
    BY <1>1, <1>2, AppendReads
  <2>3. G = [lines |-> Append(F.lines, Line(r)), tail |-> "end", decodes |-> F.decodes]
    BY <1>3, <2>1, FileWith
  <2>4. G.lines = Append(F.lines, Line(r)) /\ G.tail = "end" /\ G \in LineFiles
    <3>1. PICK s \in Seq(Lines) : s = Append(F.lines, Line(r))
      BY <2>2
    <3>2. [lines |-> s, tail |-> "end", decodes |-> F.decodes] \in LineFiles
      BY <1>2, FileOf
    <3> QED BY <2>2, <2>3, <3>1, <3>2
  <2>5. Readable(F) \cup {r} \subseteq Readable(G)
    BY <1>1, <1>2, <2>4, AppendReads DEF Readable
  <2> QED BY <1>3, <2>2, <2>4, <2>5
<1>4. CASE F.tail # "end"
  <2>1. G = [lines |-> Spoil(F.lines), tail |-> "end", decodes |-> F.decodes]
    BY <1>4 DEF AddLine, Spoil
  <2>2. Spoil(F.lines) \in Seq(Lines) /\ Spoil(F.lines) # <<>>
    BY <1>2, <1>4, SpoilLast
  <2>3. G.lines = Spoil(F.lines) /\ G.tail = "end" /\ G \in LineFiles
    <3>1. PICK s \in Seq(Lines) : s = Spoil(F.lines)
      BY <2>2
    <3>2. [lines |-> s, tail |-> "end", decodes |-> F.decodes] \in LineFiles
      BY <1>2, FileOf
    <3> QED BY <2>1, <2>2, <3>1, <3>2
  <2>4. /\ Readable(F) \subseteq Readable(G) \cup {F.lines[Len(F.lines)].rec}
        /\ F.tail = "cut" => Readable(F) \subseteq Readable(G)
    BY <1>2, <1>4, <2>3, SpoilReads DEF Readable
  <2> QED BY <1>2, <1>4, <2>2, <2>3, <2>4
<1> QED BY <1>3, <1>4

\* What is left of it when the process dies in the write.
Tearings(F, r, G) ==
    \/ G = F
    \/ F.tail = "end" /\ G.tail = "cut" /\ Readable(F) \subseteq Readable(G)
    \/ F.tail = "end" /\ G.tail = "bare" /\ Readable(F) \cup {r} \subseteq Readable(G)
    \/ F.tail = "cut" /\ G.tail = "cut" /\ Readable(F) \subseteq Readable(G)
    \/ F.tail = "bare" /\ G.tail = "cut" /\ \E q : Readable(F) \subseteq Readable(G) \cup {q}

\* That is all a torn write can come to.
LEMMA Torn ==
    ASSUME NEW F \in LineFiles, NEW r \in Recs, NEW G \in TornFiles(F, r)
    PROVE  G \in LineFiles /\ Tearings(F, r, G)
<1>1. PICK M : M = AddLine(F, r)
  OBVIOUS
<1>2. /\ M \in LineFiles /\ M.tail = "end" /\ M.lines # <<>>
      /\ F.tail = "end" => /\ M.lines = Append(F.lines, Line(r))
                           /\ Readable(F) \cup {r} \subseteq Readable(M)
      /\ F.tail # "end" => M.lines = Spoil(F.lines)
      /\ F.tail = "cut" => Readable(F) \subseteq Readable(M)
      /\ F.tail = "bare" => \E q : Readable(F) \subseteq Readable(M) \cup {q}
  BY <1>1, Added
<1>3. /\ M.lines \in Seq(Lines) /\ F.lines \in Seq(Lines) /\ F.tail \in {"end", "cut", "bare"}
      /\ M.decodes \in BOOLEAN
  BY <1>2, FileParts
<1>4. /\ Spoil(M.lines) \in Seq(Lines) /\ Len(Spoil(M.lines)) = Len(M.lines)
      /\ Spoil(M.lines) # <<>> /\ ~Spoil(M.lines)[Len(M.lines)].good
  BY <1>2, <1>3, SpoilLast
<1>5. ASSUME NEW d \in BOOLEAN, G = [lines |-> Spoil(M.lines), tail |-> "cut", decodes |-> d]
      PROVE  G \in LineFiles /\ Tearings(F, r, G)
  <2>2. G.lines = Spoil(M.lines) /\ G.tail = "cut" /\ G \in LineFiles
    BY <1>4, <1>5, FileOf
  <2>3. CASE F.tail = "end"
    <3>1. Readable(F) \subseteq Readable(G)
      <4>1. Line(r) \in Lines
        BY DEF Line, Lines
      <4>2. M.lines = Append(F.lines, Line(r)) /\ Len(M.lines) = Len(F.lines) + 1 /\ Len(F.lines) \in Nat
        BY <1>2, <1>3, <2>3, <4>1, AppendSet
      <4>3. \A i \in 1..Len(F.lines) : M.lines[i] = F.lines[i]
        BY <1>3, <4>1, <4>2, AppendSet
      <4>4. \A i \in 1..Len(M.lines) : i # Len(M.lines) => Spoil(M.lines)[i] = M.lines[i]
        BY <1>2, <1>3, SpoilLast
      <4>5. ASSUME NEW i \in 1..Len(F.lines), F.lines[i].good PROVE F.lines[i].rec \in Readable(G)
        <5>1. i \in 1..Len(M.lines) /\ i # Len(M.lines)
          BY <4>2
        <5>2. G.lines[i] = F.lines[i] /\ i \in 1..Len(G.lines)
          BY <1>4, <2>2, <4>3, <4>4, <5>1
        <5>3. i \in {j \in 1..Len(G.lines) : G.lines[j].good} /\ G.lines[i].rec = F.lines[i].rec
          BY <4>5, <5>2
        <5> QED BY <5>3 DEF Readable, Upto
      <4> QED BY <4>5 DEF Readable, Upto
    <3> QED BY <2>2, <2>3, <3>1 DEF Tearings
  <2>4. CASE F.tail # "end"
    <3>1. F.lines # <<>> /\ M.lines = Spoil(F.lines)
      BY <1>2, <2>4, FileParts
    <3>2. ~M.lines[Len(M.lines)].good
      BY <1>3, <3>1, SpoilLast
    <3>3. Readable(M) \subseteq Readable(G)
      BY <1>2, <1>3, <2>2, <3>2, SpoilReads DEF Readable
    <3>4. CASE F.tail = "cut"
      BY <1>2, <2>2, <3>3, <3>4 DEF Tearings
    <3>5. CASE F.tail = "bare"
      <4>1. PICK q : Readable(F) \subseteq Readable(M) \cup {q}
        BY <1>2, <3>5
      <4>2. Readable(F) \subseteq Readable(G) \cup {q}
        BY <3>3, <4>1
      <4> QED BY <2>2, <3>5, <4>2 DEF Tearings
    <3> QED BY <1>3, <2>4, <3>4, <3>5
  <2> QED BY <2>3, <2>4
<1>6. CASE G = [M EXCEPT !.tail = IF F.tail = "end" THEN "bare" ELSE "cut"]
  <2>1. CASE F.tail = "end"
    <3>1. G = [lines |-> M.lines, tail |-> "bare", decodes |-> M.decodes]
      BY <1>2, <1>6, <2>1, FileWith
    <3>2. G.lines = M.lines /\ G.tail = "bare" /\ G \in LineFiles
      BY <1>2, <1>3, <3>1, FileOf
    <3>3. Readable(G) = Readable(M)
      BY <3>2 DEF Readable
    <3> QED BY <1>2, <2>1, <3>2, <3>3 DEF Tearings
  <2>2. CASE F.tail # "end"
    <3>1. F.lines # <<>> /\ M.lines = Spoil(F.lines)
      BY <1>2, <2>2, FileParts
    <3>2. ~M.lines[Len(M.lines)].good
      BY <1>3, <3>1, SpoilLast
    <3>3. G = [lines |-> M.lines, tail |-> "cut", decodes |-> M.decodes]
      BY <1>2, <1>6, <2>2, FileWith
    <3>4. G.lines = M.lines /\ G.tail = "cut" /\ G \in LineFiles
      BY <1>2, <1>3, <3>2, <3>3, FileOf
    <3>5. Readable(G) = Readable(M)
      BY <3>4 DEF Readable
    <3> QED BY <1>2, <1>3, <2>2, <3>4, <3>5 DEF Tearings
  <2> QED BY <2>1, <2>2
<1>7. CASE G = F
  BY <1>7 DEF Tearings
<1>8. \/ \E d \in BOOLEAN : G = [lines |-> Spoil(M.lines), tail |-> "cut", decodes |-> d]
      \/ G = [M EXCEPT !.tail = IF F.tail = "end" THEN "bare" ELSE "cut"]
      \/ G = F
  <2>1. F.decodes \in BOOLEAN
    BY FileParts
  <2> QED BY <1>1, <2>1 DEF TornFiles, Spoil
<1> QED BY <1>5, <1>6, <1>7, <1>8

-----------------------------------------------------------------------------
(* The records of a sequence of lines, in order.                           *)

\* What is read of a sequence of lines, and lines that hold records of a set.
RecordsOf(s) == (CHOOSE g : Reads(s, Len(s), g))[Len(s)]
LinesOf(S) == [good : BOOLEAN, rec : S]

\* Two readings agree as far as the lines do.
LEMMA ReadsAgree ==
    ASSUME NEW s, NEW N \in Nat, NEW g, Reads(s, N, g),
           NEW u, NEW M \in Nat, NEW h, Reads(u, M, h),
           N <= M, \A i \in 1..N : s[i] = u[i]
    PROVE  \A n \in 0..N : g[n] = h[n]
<1> DEFINE T == {n \in 0..N : g[n] # h[n]}
<1> SUFFICES ASSUME T # {} PROVE FALSE
  OBVIOUS
<1>1. PICK n \in T : \A m \in T : n <= m
  <2>1. T \subseteq Nat
    BY DEF T
  <2> HIDE DEF T
  <2> QED BY <2>1, Least
<1>2. \A m \in 0..N : g[m] = IF m = 0 THEN <<>>
                             ELSE IF s[m].good THEN Append(g[m - 1], s[m].rec) ELSE g[m - 1]
  BY DEF Reads
<1>3. \A m \in 0..M : h[m] = IF m = 0 THEN <<>>
                             ELSE IF u[m].good THEN Append(h[m - 1], u[m].rec) ELSE h[m - 1]
  BY DEF Reads
<1>4. n \in 0..N /\ n \in 0..M /\ g[n] # h[n]
  BY <1>1
<1>5. n # 0
  <2>1. 0 \in 0..N /\ 0 \in 0..M
    OBVIOUS
  <2>2. g[0] = <<>> /\ h[0] = <<>>
    BY <1>2, <1>3, <2>1
  <2> QED BY <1>4, <2>2
<1>6. PICK p \in 0..N : n = p + 1 /\ p = n - 1
  <2>1. n - 1 \in 0..N /\ n = (n - 1) + 1
    BY <1>4, <1>5
  <2> QED BY <2>1
<1>7. g[p] = h[p] /\ s[n] = u[n]
  <2>1. p \notin T
    BY <1>1, <1>6
  <2> QED BY <1>4, <1>5, <1>6, <2>1
<1>8. g[n] = IF s[n].good THEN Append(g[p], s[n].rec) ELSE g[p]
  BY <1>2, <1>4, <1>5, <1>6
<1>9. h[n] = IF u[n].good THEN Append(h[p], u[n].rec) ELSE h[p]
  BY <1>3, <1>4, <1>5, <1>6
<1> QED BY <1>4, <1>7, <1>8, <1>9

\* A line more is a record more, if it can be parsed.
LEMMA RecordsNext ==
    ASSUME NEW S, NEW s \in Seq(LinesOf(S)), NEW l \in LinesOf(S)
    PROVE  /\ l.good => RecordsOf(Append(s, l)) = Append(RecordsOf(s), l.rec)
           /\ ~l.good => RecordsOf(Append(s, l)) = RecordsOf(s)
<1>1. PICK u : /\ u = Append(s, l) /\ Len(u) = Len(s) + 1 /\ Len(s) \in Nat
               /\ u[Len(s) + 1] = l /\ \A i \in 1..Len(s) : u[i] = s[i]
  <2>1. PICK R : R = LinesOf(S)
    OBVIOUS
  <2>2. s \in Seq(R) /\ l \in R
    BY <2>1
  <2>3. /\ Len(Append(s, l)) = Len(s) + 1 /\ Len(s) \in Nat
        /\ Append(s, l)[Len(s) + 1] = l /\ \A i \in 1..Len(s) : Append(s, l)[i] = s[i]
    BY <2>2, AppendSet
  <2> QED BY <2>3
<1>2. PICK n \in Nat : n = Len(s) /\ Len(u) = n + 1
  BY <1>1
<1>3. PICK g : Reads(s, n, g) /\ RecordsOf(s) = g[n]
  BY <1>2, ReadsExists DEF RecordsOf
<1>4. PICK h : Reads(u, n + 1, h) /\ RecordsOf(u) = h[n + 1]
  <2>1. n + 1 \in Nat
    OBVIOUS
  <2> QED BY <1>2, <2>1, ReadsExists DEF RecordsOf
<1>5. g[n] = h[n]
  <2>1. /\ n + 1 \in Nat /\ n <= n + 1 /\ n \in 0..n
        /\ \A i \in 1..n : s[i] = u[i]
    BY <1>1, <1>2
  <2>2. \A m \in 0..n : g[m] = h[m]
    BY <1>3, <1>4, <2>1, ReadsAgree
  <2> QED BY <2>1, <2>2
<1>6. h[n + 1] = IF u[n + 1].good THEN Append(h[n], u[n + 1].rec) ELSE h[n]
  <2>1. n + 1 \in 0..n + 1 /\ n + 1 # 0 /\ (n + 1) - 1 = n
    OBVIOUS
  <2>2. \A m \in 0..n + 1 : h[m] = IF m = 0 THEN <<>>
                                   ELSE IF u[m].good THEN Append(h[m - 1], u[m].rec) ELSE h[m - 1]
    BY <1>4 DEF Reads
  <2> QED BY <2>1, <2>2
<1>7. u[n + 1] = l
  BY <1>1, <1>2
<1> QED BY <1>1, <1>3, <1>4, <1>5, <1>6, <1>7

\* What is read are records of the set, and none of a file without lines.
LEMMA RecordsTyped ==
    ASSUME NEW S, NEW s \in Seq(LinesOf(S))
    PROVE  RecordsOf(s) \in Seq(S) /\ (s = <<>> => RecordsOf(s) = <<>>)
<1>1. PICK N \in Nat : N = Len(s)
  OBVIOUS
<1>2. PICK g : Reads(s, N, g) /\ RecordsOf(s) = g[N]
  BY <1>1, ReadsExists DEF RecordsOf
<1>3. \A m \in 0..N : g[m] = IF m = 0 THEN <<>>
                             ELSE IF s[m].good THEN Append(g[m - 1], s[m].rec) ELSE g[m - 1]
  BY <1>2 DEF Reads
<1> DEFINE T == {n \in 0..N : g[n] \notin Seq(S)}
<1>4. T = {}
  <2> SUFFICES ASSUME T # {} PROVE FALSE
    OBVIOUS
  <2>1. PICK n \in T : \A m \in T : n <= m
    <3>1. T \subseteq Nat
      BY DEF T
    <3> HIDE DEF T
    <3> QED BY <3>1, Least
  <2>2. n # 0
    <3>1. 0 \in 0..N /\ g[0] = <<>>
      BY <1>3
    <3>2. g[0] \in Seq(S)
      BY <3>1, EmptySeq
    <3> QED BY <2>1, <3>2
  <2>3. n - 1 \in 0..N /\ n \in 1..N /\ n - 1 \notin T
    BY <2>1, <2>2
  <2>4. g[n - 1] \in Seq(S) /\ s[n] \in LinesOf(S)
    BY <1>1, <2>3
  <2>5. PICK r \in S, b \in BOOLEAN : r = s[n].rec /\ b = s[n].good
    BY <2>4 DEF LinesOf
  <2>6. g[n] = IF b THEN Append(g[n - 1], r) ELSE g[n - 1]
    BY <1>3, <2>2, <2>3, <2>5
  <2>7. g[n] \in Seq(S)
    BY <2>4, <2>5, <2>6
  <2> QED BY <2>1, <2>7
<1>5. N \in 0..N
  OBVIOUS
<1>6. s = <<>> => g[N] = <<>>
  BY <1>1, <1>3, <1>5
<1> QED BY <1>2, <1>4, <1>5, <1>6

\* Lines are those before the last, and the last.
LEMMA LastOfLines ==
    ASSUME NEW S, NEW s \in Seq(S), s # <<>>
    PROVE  Front(s) \in Seq(S) /\ Last(s) \in S /\ s = Append(Front(s), Last(s))
<1>1. Len(s) \in Nat \ {0} /\ s[Len(s)] \in S
  BY EmptySeq
<1>2. Front(s) = SubSeq(s, 1, Len(s) - 1) /\ Last(s) = s[Len(s)]
  BY DEF Front, Last
<1>3. PICK f \in Seq(S) : /\ f = Front(s) /\ Len(f) = Len(s) - 1
                          /\ \A i \in 1..Len(s) - 1 : f[i] = s[i]
  BY <1>1, <1>2
<1>4. PICK u \in Seq(S) : /\ u = Append(f, Last(s)) /\ Len(u) = Len(s)
                          /\ \A i \in 1..Len(s) : u[i] = s[i]
  <2>1. Append(f, Last(s)) \in Seq(S) /\ Len(Append(f, Last(s))) = Len(s)
    BY <1>1, <1>2, <1>3
  <2>2. \A i \in 1..Len(s) : Append(f, Last(s))[i] = s[i]
    BY <1>1, <1>2, <1>3
  <2> QED BY <2>1, <2>2
<1>5. u = s
  BY <1>4, SeqEqual
<1> QED BY <1>1, <1>2, <1>3, <1>4, <1>5

\* Lines spoilt, and lines with one more, are lines.
LEMMA SpoiltLines ==
    ASSUME NEW S, NEW s \in Seq(LinesOf(S)), NEW r \in S
    PROVE  /\ Append(s, Line(r)) \in Seq(LinesOf(S)) /\ Append(s, Line(r)) # <<>>
           /\ Last(Append(s, Line(r))) = Line(r)
           /\ Spoil(Append(s, Line(r))) = Append(s, Spoilt(Line(r)))
           /\ s # <<>> => /\ Spoil(s) \in Seq(LinesOf(S)) /\ Spoil(s) # <<>>
                          /\ ~Last(Spoil(s)).good /\ Spoil(Spoil(s)) = Spoil(s)
<1>1. PICK R : R = LinesOf(S)
  OBVIOUS
<1>2. Line(r) \in R
  BY <1>1 DEF Line, LinesOf
<1>3. ASSUME NEW u \in Seq(R), NEW k \in R
      PROVE  /\ Append(u, k) \in Seq(R) /\ Append(u, k) # <<>> /\ Last(Append(u, k)) = k
             /\ Spoil(Append(u, k)) = Append(u, Spoilt(k))
  <2>1. /\ Append(u, k) \in Seq(R) /\ Append(u, k) # <<>> /\ Last(Append(u, k)) = k
    BY AppendSet DEF Last
  <2>2. PICK v \in Seq(R) : v = Append(u, k) /\ v # <<>> /\ Last(v) = k
    BY <2>1
  <2>3. PICK f \in Seq(R) : f = Front(v) /\ v = Append(f, k)
    BY <2>2, LastOfLines
  <2>4. f = u
    <3>1. /\ Len(v) = Len(f) + 1 /\ \A i \in 1..Len(f) : v[i] = f[i]
          /\ Len(f) \in Nat
      BY <2>3, AppendSet
    <3>2. /\ Len(v) = Len(u) + 1 /\ \A i \in 1..Len(u) : v[i] = u[i]
          /\ Len(u) \in Nat
      BY <2>2, AppendSet
    <3>3. Len(f) = Len(u)
      BY <3>1, <3>2
    <3>4. \A i \in 1..Len(f) : f[i] = u[i]
      BY <3>1, <3>2, <3>3
    <3> QED BY <3>3, <3>4, SeqEqual
  <2> QED BY <2>1, <2>2, <2>3, <2>4 DEF Spoil
<1>4. ASSUME s # <<>>
      PROVE  /\ Spoil(s) \in Seq(R) /\ Spoil(s) # <<>>
             /\ ~Last(Spoil(s)).good /\ Spoil(Spoil(s)) = Spoil(s)
  <2>1. PICK u \in Seq(R), k \in R : u = Front(s) /\ k = Last(s)
    BY <1>1, <1>4, LastOfLines
  <2>2. PICK b \in R : b = Spoilt(k) /\ ~b.good /\ Spoilt(b) = b
    <3>1. Spoilt(k) \in R /\ ~Spoilt(k).good /\ Spoilt(Spoilt(k)) = Spoilt(k)
      BY <1>1 DEF Spoilt, LinesOf
    <3> QED BY <3>1
  <2>3. Spoil(s) = Append(u, b)
    BY <2>1, <2>2 DEF Spoil
  <2> QED BY <1>3, <2>2, <2>3
<1> QED BY <1>1, <1>2, <1>3, <1>4

-----------------------------------------------------------------------------
(* The store: what its steps cost a file.                                  *)

\* What an unfinished line may still cost: the record that is glued to it,
\* and, if only its newline is missing, its own.
Slack(F) == IF F.tail = "end" THEN 0 ELSE IF F.tail = "cut" THEN 1 ELSE 2
StoreTyped ==
    /\ file \in [Files -> LineFiles]
    /\ writing \in [Threads -> [at : {"idle", "append", "put"}, file : Files, rec : Recs]]
    /\ cost \in [Files -> Nat] /\ begun \in [Files -> SUBSET Recs]
    /\ \A f \in Files : IsFiniteSet(begun[f])
Bears == \A f \in Files : Cardinality(LostRecords(f)) + Slack(file[f]) <= cost[f]
StoreInv == StoreTyped /\ Bears

Pend(f) == {writing[t].rec : t \in Unwritten(f)}
Missing(f) == begun[f] \ (Readable(file[f]) \cup Pend(f))

\* The lost records, by the lines.
LEMMA LostMissing ==
    /\ StoreTyped => \A f \in Files : LostRecords(f) = Missing(f) /\ IsFiniteSet(Missing(f))
    /\ StoreTyped' => \A f \in Files : LostRecords(f)' = Missing(f)' /\ IsFiniteSet(Missing(f)')
<1>1. ASSUME StoreTyped, NEW f \in Files PROVE LostRecords(f) = Missing(f) /\ IsFiniteSet(Missing(f))
  <2>1. file[f] \in LineFiles /\ IsFiniteSet(begun[f])
    BY <1>1 DEF StoreTyped
  <2>2. ToSet(ReadJsonl(file[f])) = Readable(file[f])
    BY <2>1, ReadsFile
  <2>3. Missing(f) \subseteq begun[f]
    BY DEF Missing
  <2>4. IsFiniteSet(Missing(f))
    BY <2>1, <2>3, FS_Subset
  <2> QED BY <2>2, <2>4 DEF LostRecords, Missing, Pend
<1>2. ASSUME StoreTyped', NEW f \in Files
      PROVE  LostRecords(f)' = Missing(f)' /\ IsFiniteSet(Missing(f)')
  <2>1. file'[f] \in LineFiles /\ IsFiniteSet(begun'[f])
    BY <1>2 DEF StoreTyped
  <2>2. ToSet(ReadJsonl(file'[f])) = Readable(file'[f])
    BY <2>1, ReadsFile
  <2>3. Missing(f)' \subseteq begun'[f]
    BY DEF Missing
  <2>4. IsFiniteSet(Missing(f)')
    BY <2>1, <2>3, FS_Subset
  <2> QED BY <2>2, <2>4 DEF LostRecords, Missing, Pend
<1> QED BY <1>1, <1>2

\* A set within two others has no more elements than they.
LEMMA WithinTwo ==
    ASSUME NEW A, NEW B, NEW C, IsFiniteSet(A), IsFiniteSet(B), C \subseteq A \cup B
    PROVE  /\ Cardinality(A) \in Nat /\ Cardinality(B) \in Nat /\ Cardinality(C) \in Nat
           /\ IsFiniteSet(C) /\ Cardinality(C) <= Cardinality(A) + Cardinality(B)
<1>1. /\ IsFiniteSet(A \cup B)
      /\ Cardinality(A \cup B) = Cardinality(A) + Cardinality(B) - Cardinality(A \cap B)
  BY FS_Union
<1>2. IsFiniteSet(C) /\ Cardinality(C) <= Cardinality(A \cup B) /\ IsFiniteSet(A \cap B)
  BY <1>1, FS_Subset
<1>3. /\ Cardinality(A) \in Nat /\ Cardinality(B) \in Nat /\ Cardinality(C) \in Nat
      /\ Cardinality(A \cap B) \in Nat
  BY <1>2, FS_CardinalityType
<1> QED BY <1>1, <1>2, <1>3

\* Two records are two at most.
LEMMA TwoRecords ==
    /\ \A q : IsFiniteSet({q}) /\ Cardinality({q}) = 1
    /\ \A p, q : IsFiniteSet({p, q}) /\ Cardinality({p, q}) <= 2
    /\ IsFiniteSet({}) /\ Cardinality({}) = 0
<1>1. \A q : IsFiniteSet({q}) /\ Cardinality({q}) = 1
  BY FS_Singleton
<1>2. ASSUME NEW p, NEW q PROVE IsFiniteSet({p, q}) /\ Cardinality({p, q}) <= 2
  <2>1. PICK A, B, C : A = {p} /\ B = {q} /\ C = {p, q} /\ C \subseteq A \cup B
    OBVIOUS
  <2>2. IsFiniteSet(A) /\ IsFiniteSet(B) /\ Cardinality(A) = 1 /\ Cardinality(B) = 1
    BY <1>1, <2>1
  <2>3. IsFiniteSet(C) /\ Cardinality(C) <= 1 + 1
    BY ONLY <2>1, <2>2, WithinTwo
  <2> QED BY <2>1, <2>3
<1> QED BY <1>1, <1>2, FS_EmptySet

\* A step that leaves a file alone loses nothing of it while what is begun is
\* pending.
LEMMA StillBears ==
    ASSUME StoreInv, StoreTyped', NEW f \in Files, file'[f] = file[f], cost'[f] = cost[f],
           begun'[f] \subseteq begun[f] \cup Pend(f)', Pend(f) \subseteq Pend(f)' \cup Readable(file[f])
    PROVE  Cardinality(LostRecords(f)') + Slack(file'[f]) <= cost'[f]
<1>1. PICK A, C : A = Missing(f) /\ C = Missing(f)' /\ A = LostRecords(f) /\ C = LostRecords(f)'
                  /\ IsFiniteSet(A)
  BY LostMissing DEF StoreInv
<1>2. C \subseteq A \cup {}
  BY <1>1 DEF Missing
<1>3. PICK a, c \in Nat : a = Cardinality(A) /\ c = Cardinality(C) /\ c <= a
  <2>1. PICK E : E = {} /\ IsFiniteSet(E) /\ Cardinality(E) = 0
    BY TwoRecords
  <2>2. /\ Cardinality(A) \in Nat /\ Cardinality(C) \in Nat
        /\ Cardinality(C) <= Cardinality(A) + Cardinality(E)
    BY <1>1, <1>2, <2>1, WithinTwo
  <2> QED BY <2>1, <2>2
<1>4. a + Slack(file[f]) <= cost[f] /\ Slack(file[f]) \in Nat /\ cost[f] \in Nat
  BY <1>1, <1>3 DEF StoreInv, Bears, Slack, StoreTyped
<1> QED BY <1>1, <1>3, <1>4

\* The other steps: so many records more are lost, and the costs cover them.
LEMMA MoreBears ==
    ASSUME StoreInv, StoreTyped', NEW f \in Files, NEW D, IsFiniteSet(D),
           Missing(f)' \subseteq Missing(f) \cup D,
           Cardinality(D) + Slack(file'[f]) + cost[f] <= Slack(file[f]) + cost'[f]
    PROVE  Cardinality(LostRecords(f)') + Slack(file'[f]) <= cost'[f]
<1>1. PICK A, C : A = Missing(f) /\ C = Missing(f)' /\ A = LostRecords(f) /\ C = LostRecords(f)'
                  /\ IsFiniteSet(A)
  BY LostMissing DEF StoreInv
<1>2. PICK a, c, d \in Nat : a = Cardinality(A) /\ c = Cardinality(C) /\ d = Cardinality(D) /\ c <= a + d
  BY <1>1, WithinTwo
<1>3. /\ a + Slack(file[f]) <= cost[f] /\ Slack(file[f]) \in Nat /\ Slack(file'[f]) \in Nat
      /\ cost[f] \in Nat /\ cost'[f] \in Nat
  BY <1>1, <1>2 DEF StoreInv, Bears, Slack, StoreTyped
<1> QED BY <1>1, <1>2, <1>3

\* What a thread that writes does to the types and to what is pending.
LEMMA WritesKeep ==
    ASSUME StoreInv, NEW t \in Threads, NEW f \in Files, NEW r \in Recs, Writes(t, f, r)
    PROVE  StoreInv'
<1>1. /\ writing[t].at = "idle" /\ file' = file /\ cost' = cost
      /\ writing' = [writing EXCEPT ![t] = [at |-> "append", file |-> f, rec |-> r]]
      /\ begun' = [begun EXCEPT ![f] = @ \cup {r}]
  BY DEF Writes, Idle
<1>2. StoreTyped
  BY DEF StoreInv
<1>3. writing' \in [Threads -> [at : {"idle", "append", "put"}, file : Files, rec : Recs]]
  BY <1>1, <1>2 DEF StoreTyped
<1>4. begun' \in [Files -> SUBSET Recs] /\ \A e \in Files : IsFiniteSet(begun'[e])
  <2>1. ASSUME NEW e \in Files PROVE IsFiniteSet(begun'[e])
    <3>1. CASE e = f
      <4>1. begun'[e] = begun[e] \cup {r} /\ IsFiniteSet(begun[e])
        BY <1>1, <1>2, <3>1 DEF StoreTyped
      <4> QED BY <4>1, FS_AddElement
    <3>2. CASE e # f
      BY <1>1, <1>2, <3>2 DEF StoreTyped
    <3> QED BY <3>1, <3>2
  <2> QED BY <1>1, <1>2, <2>1 DEF StoreTyped
<1>5. StoreTyped'
  BY <1>1, <1>2, <1>3, <1>4 DEF StoreTyped
<1>6. ASSUME NEW e \in Files
      PROVE  begun'[e] \subseteq begun[e] \cup Pend(e)' /\ Pend(e) \subseteq Pend(e)'
  <2>1. \A o \in Threads : o # t => writing'[o] = writing[o]
    BY <1>1, <1>2 DEF StoreTyped
  <2>2. writing'[t] = [at |-> "append", file |-> f, rec |-> r]
    BY <1>1, <1>2 DEF StoreTyped
  <2>3. Pend(e) \subseteq Pend(e)'
    BY <1>1, <2>1 DEF Pend, Unwritten
  <2>4. e = f => r \in Pend(e)'
    <3> SUFFICES ASSUME e = f PROVE r \in Pend(e)'
      OBVIOUS
    <3>1. t \in Unwritten(e)' /\ writing'[t].rec = r
      BY <2>2 DEF Unwritten
    <3> QED BY <3>1 DEF Pend
  <2>5. begun'[e] = IF e = f THEN begun[e] \cup {r} ELSE begun[e]
    BY <1>1, <1>2 DEF StoreTyped
  <2> QED BY <2>3, <2>4, <2>5
<1>7. \A e \in Files : Cardinality(LostRecords(e)') + Slack(file'[e]) <= cost'[e]
  BY <1>1, <1>5, <1>6, StillBears
<1> QED BY <1>5, <1>7 DEF StoreInv, Bears

\* A step that touches none of it.
LEMMA StillKeeps ==
    ASSUME StoreInv, UNCHANGED <<file, cost, begun, writing>>
    PROVE  StoreInv'
  BY DEF StoreInv, StoreTyped, Bears, LostRecords, Unwritten

\* The calls of the trader.
LEMMA CallKeeps ==
    ASSUME StoreInv, NEW k \in Trades, OnSignal(k) \/ EntryEnds(k) \/ OnExit(k) \/ Finalize(k)
    PROVE  StoreInv'
<1> DEFINE W == {"entry", "refused", "exit", "trade"}
<1>1. \A w \in W : Rec(k, w) \in Recs
  BY DEF Rec, Recs
<1>2. \/ Writes("loop", "signals", Rec(k, "entry")) \/ Writes("order", "signals", Rec(k, "refused"))
      \/ Writes("loop", "signals", Rec(k, "exit")) \/ Writes("order", "trades", Rec(k, "trade"))
      \/ UNCHANGED <<file, cost, begun, writing>>
  BY DEF OnSignal, EntryEnds, OnExit, Finalize, storeHistory
<1>3. ASSUME NEW w \in W, NEW t \in Threads, NEW f \in Files, Writes(t, f, Rec(k, w))
      PROVE  StoreInv'
  <2>1. Rec(k, w) \in Recs
    BY <1>1
  <2> QED BY <1>3, <2>1, WritesKeep
<1>4. /\ "loop" \in Threads /\ "order" \in Threads /\ "signals" \in Files /\ "trades" \in Files
      /\ "entry" \in W /\ "refused" \in W /\ "exit" \in W /\ "trade" \in W
  BY DEF Threads, Files
<1> HIDE DEF W
<1> QED BY <1>2, <1>3, <1>4, StillKeeps

\* The record is put.
LEMMA PutKeeps ==
    ASSUME StoreInv, NEW t \in Threads, PutRecord(t)
    PROVE  StoreInv'
<1>1. /\ writing[t].at = "put" /\ file' = file /\ cost' = cost /\ begun' = begun
      /\ writing' = [writing EXCEPT ![t] = Nothing]
  BY DEF PutRecord, storeHistory
<1>2. StoreTyped
  BY DEF StoreInv
<1>3. Nothing \in [at : {"idle", "append", "put"}, file : Files, rec : Recs]
  <2>1. NoRow \in Recs
    BY DEF NoRow, Rec, Recs
  <2> QED BY <2>1 DEF Nothing, Files
<1>4. StoreTyped'
  BY <1>1, <1>2, <1>3 DEF StoreTyped
<1>5. ASSUME NEW f \in Files PROVE Pend(f) \subseteq Pend(f)'
  <2>1. \A o \in Threads : o # t => writing'[o] = writing[o]
    BY <1>1, <1>2 DEF StoreTyped
  <2> QED BY <1>1, <2>1 DEF Pend, Unwritten
<1>6. \A f \in Files : Cardinality(LostRecords(f)') + Slack(file'[f]) <= cost'[f]
  BY <1>1, <1>4, <1>5, StillBears
<1> QED BY <1>4, <1>6 DEF StoreInv, Bears

\* The line is written, or lost with the one it is glued to.
LEMMA LineKeeps ==
    ASSUME StoreInv, NEW t \in Threads, AppendLine(t)
    PROVE  StoreInv'
<1>0. PICK f \in Files, r \in Recs, F \in LineFiles :
         f = writing[t].file /\ r = writing[t].rec /\ F = file[f]
  BY DEF StoreInv, StoreTyped
<1>01. PICK G : G = AddLine(F, r)
  OBVIOUS
<1>1. f = writing[t].file /\ r = writing[t].rec /\ F = file[f] /\ G = AddLine(F, r)
  BY <1>0, <1>01
<1>2. /\ writing[t].at = "append" /\ cost' = cost /\ begun' = begun
      /\ file' = [file EXCEPT ![f] = G] /\ writing' = [writing EXCEPT ![t].at = "put"]
  BY <1>1 DEF AppendLine
<1>3. StoreTyped
  BY DEF StoreInv
<1>4. /\ G \in LineFiles /\ G.tail = "end" /\ F.tail \in {"end", "cut", "bare"}
      /\ F.tail = "end" => Readable(F) \cup {r} \subseteq Readable(G)
      /\ F.tail = "cut" => Readable(F) \subseteq Readable(G)
      /\ F.tail = "bare" => \E q : Readable(F) \subseteq Readable(G) \cup {q}
  <2>1. F.tail \in {"end", "cut", "bare"}
    BY FileParts
  <2>2. G = AddLine(F, r)
    BY <1>1
  <2> QED BY ONLY <2>1, <2>2, Added, Zenon
<1>5. /\ file' \in [Files -> LineFiles] /\ file'[f] = G
      /\ \A e \in Files : e # f => file'[e] = file[e]
  BY <1>2, <1>3, <1>4 DEF StoreTyped
<1>6. writing' \in [Threads -> [at : {"idle", "append", "put"}, file : Files, rec : Recs]]
  BY <1>2, <1>3 DEF StoreTyped
<1>7. StoreTyped'
  BY <1>2, <1>3, <1>5, <1>6 DEF StoreTyped
<1>8. \A o \in Threads : o # t => writing'[o] = writing[o]
  BY <1>2, <1>3 DEF StoreTyped
<1>9. ASSUME NEW e \in Files, e # f
      PROVE  Cardinality(LostRecords(e)') + Slack(file'[e]) <= cost'[e]
  <2>1. Pend(e) \subseteq Pend(e)'
    BY <1>1, <1>8, <1>9 DEF Pend, Unwritten
  <2> QED BY <1>2, <1>5, <1>7, <1>9, <2>1, StillBears
<1>10. Cardinality(LostRecords(f)') + Slack(file'[f]) <= cost'[f]
  <2>1. Pend(f) \subseteq Pend(f)' \cup {r}
    BY <1>1, <1>8 DEF Pend, Unwritten
  <2>2. cost[f] \in Nat /\ cost'[f] = cost[f] /\ Slack(G) = 0
    BY <1>2, <1>3, <1>4 DEF StoreTyped, Slack
  <2>3. CASE F.tail = "end"
    <3>1. Missing(f)' \subseteq Missing(f) \cup {}
      BY <1>1, <1>2, <1>4, <1>5, <2>1, <2>3 DEF Missing
    <3>2. Slack(F) = 0
      BY <2>3 DEF Slack
    <3>3. PICK D : D = {} /\ IsFiniteSet(D) /\ Cardinality(D) = 0
      BY TwoRecords
    <3> QED BY <1>1, <1>5, <1>7, <2>2, <3>1, <3>2, <3>3, MoreBears
  <2>4. CASE F.tail = "cut"
    <3>1. Missing(f)' \subseteq Missing(f) \cup {r}
      BY <1>1, <1>2, <1>4, <1>5, <2>1, <2>4 DEF Missing
    <3>2. Slack(F) = 1
      BY <2>4 DEF Slack
    <3>3. PICK D : D = {r} /\ IsFiniteSet(D) /\ Cardinality(D) = 1
      BY TwoRecords
    <3> QED BY <1>1, <1>5, <1>7, <2>2, <3>1, <3>2, <3>3, MoreBears
  <2>5. CASE F.tail = "bare"
    <3>1. PICK q : Readable(F) \subseteq Readable(G) \cup {q}
      BY <1>4, <2>5
    <3>2. Missing(f)' \subseteq Missing(f) \cup {q, r}
      BY <1>1, <1>2, <1>5, <2>1, <3>1 DEF Missing
    <3>3. Slack(F) = 2
      BY <2>5 DEF Slack
    <3>4. PICK D : D = {q, r} /\ IsFiniteSet(D) /\ Cardinality(D) <= 2
      BY TwoRecords
    <3>5. Cardinality(D) \in Nat
      BY <3>4, FS_CardinalityType
    <3> QED BY <1>1, <1>5, <1>7, <2>2, <3>2, <3>3, <3>4, <3>5, MoreBears
  <2> QED BY <1>4, <2>3, <2>4, <2>5
<1>11. \A e \in Files : Cardinality(LostRecords(e)') + Slack(file'[e]) <= cost'[e]
  BY <1>9, <1>10
<1> QED BY <1>7, <1>11 DEF StoreInv, Bears

\* As many records wait for their line as threads are about to write it.
LEMMA PendCount ==
    ASSUME StoreTyped, NEW f \in Files
    PROVE  /\ IsFiniteSet(Pend(f)) /\ Cardinality(Unwritten(f)) \in Nat
           /\ Cardinality(Pend(f)) <= Cardinality(Unwritten(f))
           /\ \A t \in Unwritten(f) : /\ IsFiniteSet(Pend(f) \ {writing[t].rec})
                                      /\ Cardinality(Pend(f) \ {writing[t].rec}) + 1
                                           <= Cardinality(Unwritten(f))
<1>1. IsFiniteSet(Threads)
  BY TwoRecords DEF Threads
<1>2. \A U \in SUBSET Threads : IsFiniteSet(U)
  BY <1>1, FS_Subset
<1>3. ASSUME NEW U \in SUBSET Threads
      PROVE  LET R == {writing[t].rec : t \in U}
             IN  /\ IsFiniteSet(R) /\ Cardinality(R) <= Cardinality(U)
                 /\ Cardinality(R) \in Nat /\ Cardinality(U) \in Nat
  <2> DEFINE R == {writing[t].rec : t \in U}
             g == [t \in U |-> writing[t].rec]
  <2>1. g \in Surjection(U, R)
    BY DEF Surjection
  <2>2. IsFiniteSet(R) /\ Cardinality(R) <= Cardinality(U)
    <3> HIDE DEF R, g
    <3> QED BY <1>2, <2>1, FS_Surjection
  <2>3. Cardinality(R) \in Nat /\ Cardinality(U) \in Nat
    <3> HIDE DEF R
    <3> QED BY <1>2, <2>2, FS_CardinalityType
  <2> QED BY <2>2, <2>3
<1>4. Unwritten(f) \in SUBSET Threads
  BY DEF Unwritten
<1>5. ASSUME NEW t \in Unwritten(f)
      PROVE  /\ IsFiniteSet(Pend(f) \ {writing[t].rec})
             /\ Cardinality(Pend(f) \ {writing[t].rec}) + 1 <= Cardinality(Unwritten(f))
  <2>1. PICK U, R : U = Unwritten(f) \ {t} /\ R = {writing[o].rec : o \in U}
    OBVIOUS
  <2>2. /\ IsFiniteSet(R) /\ Cardinality(R) <= Cardinality(U)
        /\ Cardinality(R) \in Nat /\ Cardinality(U) \in Nat
    BY <1>3, <1>4, <2>1
  <2>3. Cardinality(Unwritten(f)) = Cardinality(U) + 1
    <3>1. IsFiniteSet(Unwritten(f))
      BY <1>2, <1>4
    <3>2. Cardinality(U) = Cardinality(Unwritten(f)) - 1 /\ Cardinality(Unwritten(f)) \in Nat
      BY <2>1, <3>1, FS_RemoveElement, FS_CardinalityType
    <3> QED BY <3>2
  <2>4. Pend(f) \ {writing[t].rec} \subseteq R
    BY <2>1 DEF Pend
  <2>5. /\ IsFiniteSet(Pend(f) \ {writing[t].rec})
        /\ Cardinality(Pend(f) \ {writing[t].rec}) <= Cardinality(R)
    BY <2>2, <2>4, FS_Subset
  <2>6. Cardinality(Pend(f) \ {writing[t].rec}) \in Nat
    BY <2>5, FS_CardinalityType
  <2> QED BY <2>2, <2>3, <2>5, <2>6
<1>6. /\ IsFiniteSet(Pend(f)) /\ Cardinality(Unwritten(f)) \in Nat
      /\ Cardinality(Pend(f)) <= Cardinality(Unwritten(f))
  BY <1>3, <1>4 DEF Pend
<1> QED BY <1>5, <1>6

\* What a crash does to one file.
LEMMA CrashBears ==
    ASSUME StoreInv, StoreTyped', NEW f \in Files, begun'[f] = begun[f], Pend(f)' = {},
           cost'[f] = cost[f] + Cardinality(Unwritten(f)) + (IF file'[f] = file[f] THEN 0 ELSE 1),
           \/ file'[f] = file[f]
           \/ \E t \in Unwritten(f) : file'[f] \in TornFiles(file[f], writing[t].rec)
    PROVE  Cardinality(LostRecords(f)') + Slack(file'[f]) <= cost'[f]
<1>1. PICK F \in LineFiles, G \in LineFiles, P \in {Pend(f)}, u \in Nat, c \in Nat, e \in {0, 1} :
         /\ F = file[f] /\ G = file'[f] /\ P = Pend(f) /\ u = Cardinality(Unwritten(f)) /\ c = cost[f]
         /\ e = IF G = F THEN 0 ELSE 1
  <2>1. file[f] \in LineFiles /\ file'[f] \in LineFiles /\ cost[f] \in Nat
    BY DEF StoreInv, StoreTyped
  <2>2. Cardinality(Unwritten(f)) \in Nat
    BY PendCount DEF StoreInv
  <2>3. (IF file'[f] = file[f] THEN 0 ELSE 1) \in {0, 1}
    OBVIOUS
  <2>4. PICK F \in LineFiles, G \in LineFiles, c \in Nat : F = file[f] /\ G = file'[f] /\ c = cost[f]
    BY <2>1
  <2>5. PICK u \in Nat : u = Cardinality(Unwritten(f))
    BY <2>2
  <2>6. PICK e \in {0, 1} : e = IF G = F THEN 0 ELSE 1
    BY <2>3, <2>4
  <2> WITNESS F \in LineFiles, G \in LineFiles, Pend(f) \in {Pend(f)}, u \in Nat, c \in Nat,
              e \in {0, 1}
  <2> QED BY <2>4, <2>5, <2>6
<1>2. IsFiniteSet(P) /\ Cardinality(P) <= u /\ Cardinality(P) \in Nat
  BY <1>1, PendCount, FS_CardinalityType DEF StoreInv
<1>3. cost'[f] = c + u + e
  BY <1>1
<1>4. ASSUME Readable(F) \subseteq Readable(G), Slack(G) <= Slack(F) + e
      PROVE  Cardinality(LostRecords(f)') + Slack(file'[f]) <= cost'[f]
  <2>1. Missing(f)' \subseteq Missing(f) \cup P
    BY <1>1, <1>4 DEF Missing
  <2>2. Slack(F) \in Nat /\ Slack(G) \in Nat
    BY DEF Slack
  <2>3. Cardinality(P) + Slack(G) + c <= Slack(F) + (c + u + e)
    BY <1>2, <1>4, <2>2
  <2> QED BY <1>1, <1>2, <1>3, <2>1, <2>3, MoreBears
<1>5. CASE G = F
  BY <1>4, <1>5 DEF Slack
<1>6. CASE F.tail = "end" /\ G.tail = "cut" /\ Readable(F) \subseteq Readable(G)
  <2>1. e = 1 /\ Slack(F) = 0 /\ Slack(G) = 1
    BY <1>1, <1>6 DEF Slack
  <2> QED BY <1>4, <1>6, <2>1
<1>7. CASE F.tail = "cut" /\ G.tail = "cut" /\ Readable(F) \subseteq Readable(G)
  <2>1. Slack(F) = 1 /\ Slack(G) = 1
    BY <1>7 DEF Slack
  <2> QED BY <1>4, <1>7, <2>1
<1>8. CASE F.tail = "bare" /\ G.tail = "cut" /\ \E q : Readable(F) \subseteq Readable(G) \cup {q}
  <2>1. PICK q : Readable(F) \subseteq Readable(G) \cup {q}
    BY <1>8
  <2>2. Slack(F) = 2 /\ Slack(G) = 1 /\ e = 1
    BY <1>1, <1>8 DEF Slack
  <2>3. PICK D : D = P \cup {q}
    OBVIOUS
  <2>4. Missing(f)' \subseteq Missing(f) \cup D
    BY <1>1, <2>1, <2>3 DEF Missing
  <2>5. PICK Q : Q = {q} /\ IsFiniteSet(Q) /\ Cardinality(Q) = 1
    BY TwoRecords
  <2>6. IsFiniteSet(D) /\ Cardinality(D) \in Nat /\ Cardinality(D) <= Cardinality(P) + Cardinality(Q)
    BY <1>2, <2>3, <2>5, WithinTwo
  <2>7. Cardinality(D) + Slack(G) + c <= Slack(F) + (c + u + e)
    BY <1>2, <2>2, <2>5, <2>6
  <2> QED BY <1>1, <1>3, <2>4, <2>6, <2>7, MoreBears
<1>9. ASSUME NEW t \in Unwritten(f), F.tail = "end", G.tail = "bare",
             Readable(F) \cup {writing[t].rec} \subseteq Readable(G)
      PROVE  Cardinality(LostRecords(f)') + Slack(file'[f]) <= cost'[f]
  <2>1. Slack(F) = 0 /\ Slack(G) = 2 /\ e = 1
    BY <1>1, <1>9 DEF Slack
  <2>2. PICK D : D = P \ {writing[t].rec}
    OBVIOUS
  <2>3. Missing(f)' \subseteq Missing(f) \cup D
    BY <1>1, <1>9, <2>2 DEF Missing
  <2>4. IsFiniteSet(D) /\ Cardinality(D) + 1 <= u /\ Cardinality(D) \in Nat
    BY <1>1, <2>2, PendCount, FS_CardinalityType DEF StoreInv
  <2>5. Cardinality(D) + Slack(G) + c <= Slack(F) + (c + u + e)
    BY <2>1, <2>4
  <2> QED BY <1>1, <1>3, <2>3, <2>4, <2>5, MoreBears
<1>10. ASSUME NEW t \in Unwritten(f), G \in TornFiles(F, writing[t].rec)
       PROVE  Cardinality(LostRecords(f)') + Slack(file'[f]) <= cost'[f]
  <2>1. writing[t].rec \in Recs
    BY DEF StoreInv, StoreTyped, Unwritten
  <2>2. Tearings(F, writing[t].rec, G)
    BY <1>10, <2>1, Torn
  <2> QED BY <1>5, <1>6, <1>7, <1>8, <1>9, <2>2 DEF Tearings
<1> QED BY <1>1, <1>5, <1>10

\* A crash costs a file no more than it is counted for.
LEMMA CrashKeeps ==
    ASSUME StoreInv, StoreCrash
    PROVE  StoreInv'
<1>1. StoreTyped
  BY DEF StoreInv
<1>2. /\ begun' = begun /\ writing' = [t \in Threads |-> Nothing]
      /\ cost' = [f \in Files |-> cost[f] + Cardinality(Unwritten(f))
                                          + IF file'[f] = file[f] THEN 0 ELSE 1]
  BY DEF StoreCrash
<1>3. Nothing \in [at : {"idle", "append", "put"}, file : Files, rec : Recs] /\ Nothing.at = "idle"
  <2>1. NoRow \in Recs
    BY DEF NoRow, Rec, Recs
  <2> QED BY <2>1 DEF Nothing, Files
<1>4. /\ file' \in [Files -> LineFiles]
      /\ \A f \in Files : \/ file'[f] = file[f]
                          \/ \E t \in Unwritten(f) : file'[f] \in TornFiles(file[f], writing[t].rec)
  <2>1. CASE file' = file
    BY <1>1, <2>1 DEF StoreTyped
  <2>2. CASE \E t \in Threads : /\ writing[t].at = "append"
                                /\ \E torn \in TornFiles(file[writing[t].file], writing[t].rec) :
                                      file' = [file EXCEPT ![writing[t].file] = torn]
    <3>0. PICK t \in Threads, f \in Files, r \in Recs :
             /\ f = writing[t].file /\ r = writing[t].rec /\ writing[t].at = "append"
             /\ \E torn \in TornFiles(file[f], r) : file' = [file EXCEPT ![f] = torn]
      BY <1>1, <2>2 DEF StoreTyped
    <3>1. PICK torn \in TornFiles(file[f], r) : file' = [file EXCEPT ![f] = torn]
      BY <3>0
    <3>2. file[f] \in LineFiles
      BY <1>1 DEF StoreTyped
    <3>3. torn \in LineFiles
      BY <3>1, <3>2, Torn
    <3>4. /\ file' \in [Files -> LineFiles] /\ file'[f] = torn
          /\ \A e \in Files : e # f => file'[e] = file[e]
      BY <1>1, <3>1, <3>3 DEF StoreTyped
    <3>5. t \in Unwritten(f)
      BY <3>0 DEF Unwritten
    <3> QED BY <3>0, <3>1, <3>4, <3>5
  <2> QED BY <2>1, <2>2 DEF StoreCrash
<1>5. \A f \in Files : /\ cost'[f] \in Nat
                       /\ cost'[f] = cost[f] + Cardinality(Unwritten(f))
                                             + (IF file'[f] = file[f] THEN 0 ELSE 1)
  <2> SUFFICES ASSUME NEW f \in Files
               PROVE  /\ cost'[f] \in Nat
                      /\ cost'[f] = cost[f] + Cardinality(Unwritten(f))
                                            + (IF file'[f] = file[f] THEN 0 ELSE 1)
    OBVIOUS
  <2>1. cost[f] \in Nat /\ Cardinality(Unwritten(f)) \in Nat
    BY <1>1, PendCount DEF StoreTyped
  <2> QED BY <1>2, <2>1
<1>6. StoreTyped'
  <2>1. cost' \in [Files -> Nat]
    <3> DEFINE d(f) == cost[f] + Cardinality(Unwritten(f)) + IF file'[f] = file[f] THEN 0 ELSE 1
    <3>1. cost' = [f \in Files |-> d(f)]
      BY <1>2
    <3>2. \A f \in Files : d(f) \in Nat
      BY <1>2, <1>5
    <3> HIDE DEF d
    <3> QED BY <3>1, <3>2
  <2>2. writing' \in [Threads -> [at : {"idle", "append", "put"}, file : Files, rec : Recs]]
    BY <1>2, <1>3
  <2> QED BY <1>1, <1>2, <1>4, <2>1, <2>2 DEF StoreTyped
<1>7. ASSUME NEW f \in Files PROVE Pend(f)' = {}
  <2>1. Unwritten(f)' = {}
    BY <1>2, <1>3 DEF Unwritten
  <2> QED BY <2>1 DEF Pend
<1>8. \A f \in Files : Cardinality(LostRecords(f)') + Slack(file'[f]) <= cost'[f]
  BY <1>2, <1>4, <1>5, <1>6, <1>7, CrashBears
<1> QED BY <1>6, <1>8 DEF StoreInv, Bears

\* Every step of the store.
LEMMA StoreKeeps == StoreInv /\ [StoreNext]_storeVars => StoreInv'
<1> SUFFICES ASSUME StoreInv, [StoreNext]_storeVars PROVE StoreInv'
  OBVIOUS
<1>1. CASE \E k \in Trades : OnSignal(k) \/ EntryEnds(k) \/ OnExit(k) \/ Finalize(k)
  BY <1>1, CallKeeps
<1>2. CASE \E t \in Threads : AppendLine(t) \/ PutRecord(t)
  BY <1>2, LineKeeps, PutKeeps
<1>3. CASE DbLoop \/ SyncAll \/ StoreStart \/ UNCHANGED storeVars
  <2>1. UNCHANGED <<file, cost, begun, writing>>
    BY <1>3 DEF DbLoop, SyncAll, StoreStart, storeVars, storeHistory, DbFails
  <2> QED BY <2>1, StillKeeps
<1>4. CASE StoreCrash
  BY <1>4, CrashKeeps
<1> QED BY <1>1, <1>2, <1>3, <1>4 DEF StoreNext

\* At first the files are empty.
LEMMA StoreStarts == StoreInit => StoreInv
<1> SUFFICES ASSUME StoreInit PROVE StoreInv
  OBVIOUS
<1>1. /\ file = [f \in Files |-> EmptyFile] /\ writing = [t \in Threads |-> Nothing]
      /\ begun = [f \in Files |-> {}] /\ cost = [f \in Files |-> 0]
  BY DEF StoreInit
<1>2. NoRow \in Recs
  BY DEF NoRow, Rec, Recs
<1>3. Nothing \in [at : {"idle", "append", "put"}, file : Files, rec : Recs]
  BY <1>2 DEF Nothing, Files
<1>4. <<>> \in Seq(Lines) /\ IsFiniteSet({})
  BY EmptySeq, FS_EmptySet
<1>5. EmptyFile \in LineFiles /\ EmptyFile.tail = "end"
  BY <1>4 DEF EmptyFile, LineFiles
<1>6. StoreTyped
  BY <1>1, <1>3, <1>4, <1>5 DEF StoreTyped
<1>7. ASSUME NEW f \in Files PROVE LostRecords(f) = {} /\ Slack(file[f]) = 0 /\ cost[f] = 0
  BY <1>1, <1>5 DEF LostRecords, Slack
<1>8. Bears
  BY <1>7, FS_EmptySet DEF Bears
<1> QED BY <1>6, <1>8 DEF StoreInv

\* RecordsKept: a crash costs a file the lines not yet written and the one
\* glued to a torn line; nothing else is lost while the file can be decoded.
THEOREM RecordsKeptHolds == StoreSpec => []RecordsKept
<1>1. StoreInv => RecordsKept
  <2> SUFFICES ASSUME StoreInv, NEW f \in Files PROVE Cardinality(LostRecords(f)) <= cost[f]
    BY DEF RecordsKept
  <2>1. PICK L : L = LostRecords(f) /\ IsFiniteSet(L)
    BY LostMissing DEF StoreInv
  <2>2. Cardinality(L) \in Nat /\ cost[f] \in Nat /\ Slack(file[f]) \in Nat
    BY <2>1, FS_CardinalityType DEF StoreInv, StoreTyped, Slack
  <2> QED BY <2>1, <2>2 DEF StoreInv, Bears
<1> QED BY <1>1, StoreStarts, StoreKeeps, PTL DEF StoreSpec

-----------------------------------------------------------------------------
(* The store: the rows follow the file.                                    *)

\* The last record of a key.
LastIn(rs, k) ==
    LET its == {i \in DOMAIN rs : rs[i].key = k}
    IN  IF its = {} THEN NoRow ELSE rs[Max(its)]
Distinct(rs) == \A i, j \in 1..Len(rs) : rs[i] = rs[j] => i = j

\* It comes after the others, if there is one.
LEMMA LastIs ==
    ASSUME NEW S, NEW rs \in Seq(S), NEW k
    PROVE  \/ LastIn(rs, k) = NoRow /\ \A i \in 1..Len(rs) : rs[i].key # k
           \/ \E i \in 1..Len(rs) : /\ LastIn(rs, k) = rs[i] /\ rs[i].key = k
                                    /\ \A j \in 1..Len(rs) : rs[j].key = k => j <= i
<1>1. PICK n \in Nat : n = Len(rs) /\ DOMAIN rs = 1..n
  OBVIOUS
<1>2. PICK its : its = {i \in 1..n : rs[i].key = k}
  OBVIOUS
<1>3. LastIn(rs, k) = IF its = {} THEN NoRow ELSE rs[Max(its)]
  BY <1>1, <1>2 DEF LastIn
<1>4. CASE its = {}
  BY <1>1, <1>2, <1>3, <1>4
<1>5. CASE its # {}
  <2> DEFINE rest == {n - i : i \in its}
  <2>1. rest \subseteq Nat /\ rest # {}
    BY <1>2, <1>5
  <2>2. PICK x \in rest : \A y \in rest : x <= y
    <3> HIDE DEF rest
    <3> QED BY <2>1, Least
  <2>3. PICK i \in its : x = n - i
    BY <2>2
  <2>4. \A j \in its : i >= j
    <3>1. ASSUME NEW j \in its PROVE i >= j
      <4>1. n - i <= n - j
        BY <2>2, <2>3
      <4> QED BY <1>2, <4>1
    <3> QED BY <3>1
  <2>5. Max(its) \in its /\ \A j \in its : Max(its) >= j
    BY <2>3, <2>4 DEF Max
  <2> QED BY <1>1, <1>2, <1>3, <1>5, <2>5
<1> QED BY <1>4, <1>5

\* What a record more changes.
LEMMA LastNext ==
    ASSUME NEW S, NEW rs \in Seq(S), NEW r \in S, NEW k
    PROVE  /\ r.key = k => LastIn(Append(rs, r), k) = r
           /\ r.key # k => LastIn(Append(rs, r), k) = LastIn(rs, k)
<1>1. PICK n \in Nat, u \in Seq(S) :
          /\ n = Len(rs) /\ u = Append(rs, r) /\ Len(u) = n + 1
          /\ u[n + 1] = r /\ \A i \in 1..n : u[i] = rs[i]
  <2>1. /\ Append(rs, r) \in Seq(S) /\ Len(rs) \in Nat /\ Len(Append(rs, r)) = Len(rs) + 1
        /\ Append(rs, r)[Len(rs) + 1] = r /\ \A i \in 1..Len(rs) : Append(rs, r)[i] = rs[i]
    BY AppendSet
  <2> QED BY <2>1
<1>2. \/ LastIn(u, k) = NoRow /\ \A i \in 1..n + 1 : u[i].key # k
      \/ \E i \in 1..n + 1 : /\ LastIn(u, k) = u[i] /\ u[i].key = k
                             /\ \A j \in 1..n + 1 : u[j].key = k => j <= i
  <2>1. \/ LastIn(u, k) = NoRow /\ \A i \in 1..Len(u) : u[i].key # k
        \/ \E i \in 1..Len(u) : /\ LastIn(u, k) = u[i] /\ u[i].key = k
                                 /\ \A j \in 1..Len(u) : u[j].key = k => j <= i
    BY LastIs
  <2>2. Len(u) = n + 1
    BY <1>1
  <2> QED BY <2>1, <2>2
<1>3. \/ LastIn(rs, k) = NoRow /\ \A i \in 1..n : rs[i].key # k
      \/ \E i \in 1..n : /\ LastIn(rs, k) = rs[i] /\ rs[i].key = k
                         /\ \A j \in 1..n : rs[j].key = k => j <= i
  BY <1>1, LastIs
<1>4. n + 1 \in 1..n + 1 /\ \A i \in 1..n + 1 : i \in 1..n \/ i = n + 1
  OBVIOUS
<1>5. CASE r.key = k
  <2>1. PICK i \in 1..n + 1 : /\ LastIn(u, k) = u[i]
                              /\ \A j \in 1..n + 1 : u[j].key = k => j <= i
    BY <1>1, <1>2, <1>4, <1>5
  <2>2. i = n + 1
    BY <1>1, <1>4, <1>5, <2>1
  <2> QED BY <1>1, <1>5, <2>1, <2>2
<1>6. CASE r.key # k
  <2>1. CASE \A i \in 1..n : rs[i].key # k
    <3>1. \A i \in 1..n + 1 : u[i].key # k
      BY <1>1, <1>4, <1>6, <2>1
    <3> QED BY <1>1, <1>2, <1>3, <1>6, <2>1, <3>1
  <2>2. CASE ~\A i \in 1..n : rs[i].key # k
    <3>1. PICK i \in 1..n : /\ LastIn(rs, k) = rs[i] /\ rs[i].key = k
                            /\ \A j \in 1..n : rs[j].key = k => j <= i
      BY <1>3, <2>2
    <3>2. i \in 1..n + 1 /\ u[i] = rs[i]
      BY <1>1
    <3>3. PICK h \in 1..n + 1 : /\ LastIn(u, k) = u[h] /\ u[h].key = k
                                /\ \A j \in 1..n + 1 : u[j].key = k => j <= h
      BY <1>2, <3>1, <3>2
    <3>4. h \in 1..n /\ u[h] = rs[h]
      BY <1>1, <1>4, <1>6, <3>3
    <3>5. i <= h /\ h <= i
      BY <3>1, <3>2, <3>3, <3>4
    <3>6. i = h
      BY <3>5
    <3> QED BY <1>1, <1>6, <3>1, <3>2, <3>3, <3>6
  <2> QED BY <2>1, <2>2
<1> QED BY <1>5, <1>6

\* What a write can make of the records read: the record comes to them, or it
\* does not, or it does not and the last of them goes.
Written(rs, r, new) ==
    \/ new = Append(rs, r)
    \/ new = rs
    \/ \E q \in Recs : rs = Append(new, q)

\* The writes and what is left of them are of this kind.
LEMMA FileWritten ==
    ASSUME NEW F \in LineFiles, NEW r \in Recs, NEW G,
           G = AddLine(F, r) \/ G \in TornFiles(F, r)
    PROVE  Written(RecordsOf(F.lines), r, RecordsOf(G.lines))
<1>1. F.lines \in Seq(LinesOf(Recs)) /\ Lines = LinesOf(Recs) /\ (F.tail # "end" => F.lines # <<>>)
  BY FileParts DEF Lines, LinesOf
<1>2. PICK M : M = AddLine(F, r)
  OBVIOUS
<1>3. G.lines = M.lines \/ G.lines = Spoil(M.lines) \/ G = F
  <2>1. \/ G = M \/ G = [M EXCEPT !.tail = IF F.tail = "end" THEN "bare" ELSE "cut"] \/ G = F
        \/ \E d : G = [lines |-> Spoil(M.lines), tail |-> "cut", decodes |-> d]
    BY <1>2 DEF TornFiles, Spoil
  <2>2. M \in LineFiles
    BY <1>2, Added
  <2> QED BY <2>1, <2>2 DEF LineFiles
<1>4. CASE F.tail = "end"
  <2>1. M.lines = Append(F.lines, Line(r))
    BY <1>2, <1>4, Added
  <2>2. Spoil(M.lines) = Append(F.lines, Spoilt(Line(r)))
    <3>1. Spoil(Append(F.lines, Line(r))) = Append(F.lines, Spoilt(Line(r)))
      BY <1>1, SpoiltLines
    <3> QED BY <2>1, <3>1
  <2>3. /\ Line(r) \in LinesOf(Recs) /\ Line(r).good /\ Line(r).rec = r
        /\ Spoilt(Line(r)) \in LinesOf(Recs) /\ ~Spoilt(Line(r)).good
    BY DEF Line, Spoilt, LinesOf
  <2>4. /\ RecordsOf(Append(F.lines, Line(r))) = Append(RecordsOf(F.lines), r)
        /\ RecordsOf(Append(F.lines, Spoilt(Line(r)))) = RecordsOf(F.lines)
    BY <1>1, <2>3, RecordsNext
  <2> QED BY <1>3, <2>1, <2>2, <2>4 DEF Written
<1>5. CASE F.tail # "end"
  <2>1. M.lines = Spoil(F.lines) /\ Spoil(Spoil(F.lines)) = Spoil(F.lines)
    BY <1>1, <1>2, <1>5, Added, SpoiltLines
  <2>2. PICK u \in Seq(LinesOf(Recs)), l \in LinesOf(Recs) :
            F.lines = Append(u, l) /\ Spoil(F.lines) = Append(u, Spoilt(l))
    <3>1. Front(F.lines) \in Seq(LinesOf(Recs)) /\ Last(F.lines) \in LinesOf(Recs)
          /\ F.lines = Append(Front(F.lines), Last(F.lines))
      BY <1>1, <1>5, LastOfLines
    <3> QED BY <3>1 DEF Spoil
  <2>3. Spoilt(l) \in LinesOf(Recs) /\ ~Spoilt(l).good /\ l.rec \in Recs
    BY DEF Spoilt, LinesOf
  <2>4. RecordsOf(Spoil(F.lines)) = RecordsOf(u)
    BY <2>2, <2>3, RecordsNext
  <2>5. RecordsOf(F.lines) = RecordsOf(u) \/ RecordsOf(F.lines) = Append(RecordsOf(u), l.rec)
    BY <2>2, RecordsNext
  <2> QED BY <1>3, <2>1, <2>3, <2>4, <2>5 DEF Written
<1> QED BY <1>4, <1>5

\* If the records are distinct and do not hold the new one, they stay so; a
\* last record that changes is gone for good, and so is a record that does
\* not come.
LEMMA WrittenGives ==
    ASSUME NEW rs \in Seq(Recs), NEW r \in Recs, NEW new \in Seq(Recs),
           Written(rs, r, new), Distinct(rs), r \notin ToSet(rs)
    PROVE  /\ Distinct(new) /\ ToSet(new) \subseteq ToSet(rs) \cup {r}
           /\ r \in ToSet(new) => LastIn(new, r.key) = r
           /\ \A k : k # r.key \/ r \notin ToSet(new) =>
                 \/ LastIn(new, k) = LastIn(rs, k)
                 \/ LastIn(rs, k) \in ToSet(rs) /\ LastIn(rs, k) \notin ToSet(new)
<1>1. CASE new = Append(rs, r)
  <2>1. /\ ToSet(new) = ToSet(rs) \cup {r} /\ Len(new) = Len(rs) + 1 /\ Len(rs) \in Nat
        /\ new[Len(rs) + 1] = r /\ \A i \in 1..Len(rs) : new[i] = rs[i]
        /\ DOMAIN rs = 1..Len(rs)
    BY <1>1, AppendSet
  <2>2. Distinct(new)
    <3> SUFFICES ASSUME NEW i \in 1..Len(rs) + 1, NEW j \in 1..Len(rs) + 1, new[i] = new[j]
                 PROVE  i = j
      BY <2>1 DEF Distinct
    <3>1. \A h \in 1..Len(rs) : new[h] # r
      BY <2>1 DEF ToSet
    <3>2. (i \in 1..Len(rs) \/ i = Len(rs) + 1) /\ (j \in 1..Len(rs) \/ j = Len(rs) + 1)
      BY <2>1
    <3>3. CASE i \in 1..Len(rs) /\ j \in 1..Len(rs)
      BY <2>1, <3>3 DEF Distinct
    <3> QED BY <2>1, <3>1, <3>2, <3>3
  <2>3. /\ LastIn(new, r.key) = r
        /\ \A k : k # r.key => LastIn(new, k) = LastIn(rs, k)
    BY <1>1, LastNext
  <2> QED BY <2>1, <2>2, <2>3
<1>2. CASE new = rs
  BY <1>2
<1>3. CASE \E q \in Recs : rs = Append(new, q)
  <2>1. PICK q \in Recs : rs = Append(new, q)
    BY <1>3
  <2>2. /\ ToSet(rs) = ToSet(new) \cup {q} /\ Len(rs) = Len(new) + 1 /\ Len(new) \in Nat
        /\ rs[Len(new) + 1] = q /\ \A i \in 1..Len(new) : rs[i] = new[i]
        /\ DOMAIN new = 1..Len(new)
    BY <2>1, AppendSet
  <2>3. q \notin ToSet(new)
    <3> SUFFICES ASSUME NEW i \in 1..Len(new), new[i] = q PROVE FALSE
      BY <2>2 DEF ToSet
    <3>1. rs[i] = rs[Len(new) + 1] /\ i \in 1..Len(rs) /\ Len(new) + 1 \in 1..Len(rs)
      BY <2>2
    <3>2. i = Len(new) + 1
      BY <3>1 DEF Distinct
    <3> QED BY <2>2, <3>2
  <2>4. Distinct(new)
    <3> SUFFICES ASSUME NEW i \in 1..Len(new), NEW j \in 1..Len(new), new[i] = new[j]
                 PROVE  i = j
      BY DEF Distinct
    <3>1. i \in 1..Len(rs) /\ j \in 1..Len(rs) /\ rs[i] = rs[j]
      BY <2>2
    <3> QED BY <3>1 DEF Distinct
  <2>5. ASSUME NEW k
        PROVE  \/ LastIn(new, k) = LastIn(rs, k)
               \/ LastIn(rs, k) \in ToSet(rs) /\ LastIn(rs, k) \notin ToSet(new)
    <3>1. q.key = k => LastIn(rs, k) = q
      BY <2>1, LastNext
    <3>2. q.key # k => LastIn(rs, k) = LastIn(new, k)
      BY <2>1, LastNext
    <3> QED BY <2>2, <2>3, <3>1, <3>2
  <2> QED BY <2>2, <2>4, <2>5
<1> QED BY <1>1, <1>2, <1>3 DEF Written

\* What is read of a file, and what is lost; a record that a row may hold.
Rd(f) == RecordsOf(file[f].lines)
Gone(f) == begun[f] \ (ToSet(Rd(f)) \cup Pend(f))
Kept(f, k, x) == x = LastIn(Rd(f), k) \/ x \in Gone(f)
\* The puts of a key: by the threads that have written its line, and in the
\* queue.  The last of them decides the row.
IsPut(t, f, k) == writing[t].at = "put" /\ writing[t].file = f /\ writing[t].rec.key = k
IsQueued(i, f, k) == queue[i].file = f /\ queue[i].rec.key = k
NonePut(f, k) ==
    (\A t \in Threads : ~IsPut(t, f, k)) /\ \A i \in 1..Len(queue) : ~IsQueued(i, f, k)
LastPut(f, k, x) ==
    \/ \E t \in Threads : IsPut(t, f, k) /\ writing[t].rec = x
    \/ /\ \A t \in Threads : ~IsPut(t, f, k)
       /\ \E i \in 1..Len(queue) : /\ IsQueued(i, f, k) /\ queue[i].rec = x
                                   /\ \A j \in 1..Len(queue) : j > i => ~IsQueued(j, f, k)

Whats(t) == IF t = "loop" THEN {"entry", "exit"} ELSE {"refused", "trade"}
FollowTyped ==
    /\ up \in {"off", "build", "on"}
    /\ stage \in [Trades -> {"unseen", "opening", "open", "dropped", "booked"}]
    /\ queue \in Seq([file : Files, rec : Recs]) /\ rows \in [Files -> [Trades -> Recs]]
\* What is yet to be begun, by the stages.
Fresh ==
    \A k \in Trades :
        /\ stage[k] = "unseen" => Rec(k, "entry") \notin begun["signals"]
        /\ stage[k] \in {"unseen", "opening"} => Rec(k, "refused") \notin begun["signals"]
        /\ stage[k] # "booked" => Rec(k, "trade") \notin begun["trades"]
        /\ stage[k] = "unseen" \/ k \in virt => Rec(k, "exit") \notin begun["signals"]
        /\ k \in virt => stage[k] # "unseen"
\* No record is in a file twice.
Whole == \A f \in Files : Distinct(Rd(f)) /\ ToSet(Rd(f)) \subseteq begun[f]
Busy ==
    \A t \in Threads : writing[t].at # "idle" =>
        /\ writing[t].rec \in begun[writing[t].file]
        /\ writing[t].rec.what \in Whats(t) /\ writing[t].rec.key \in Trades
        /\ writing[t].at = "append" => writing[t].rec \notin ToSet(Rd(writing[t].file))
Calm ==
    /\ up = "off" => queue = <<>> /\ \A t \in Threads : Idle(t)
    /\ up = "build" => Idle("loop")
\* Rows and puts are of what was begun.
Known ==
    /\ \A i \in 1..Len(queue) : queue[i].rec \in begun[queue[i].file]
    /\ \A f \in Files, k \in Trades :
          rows[f][k] = NoRow \/ (rows[f][k] \in begun[f] /\ rows[f][k].key = k)
    /\ \A f \in Files : NoRow \notin begun[f]
Alone ==
    \A f \in Files, k \in Trades \ raced, t, o \in Threads :
        IsPut(t, f, k) /\ IsPut(o, f, k) => t = o
PutsFollow ==
    \A f \in Files, k \in Trades : \A x :
        (k \notin raced \/ up = "build") /\ LastPut(f, k, x) => Kept(f, k, x)
RowsFollow ==
    up = "on" /\ synced =>
        \A f \in Files, k \in Trades \ raced : NonePut(f, k) => Kept(f, k, rows[f][k])
FollowCore == Whole /\ Busy /\ Calm /\ Known /\ Alone /\ PutsFollow /\ RowsFollow
FollowInv == StoreInv /\ FollowTyped /\ Fresh /\ FollowCore

\* What is in the queue.
LEMMA QueueTyped ==
    ASSUME FollowTyped
    PROVE  Len(queue) \in Nat /\ \A i \in 1..Len(queue) : /\ queue[i].file \in Files
                                                        /\ queue[i].rec \in Recs
<1>1. PICK P : P = [file : Files, rec : Recs]
  OBVIOUS
<1>2. queue \in Seq(P)
  BY <1>1 DEF FollowTyped
<1>3. Len(queue) \in Nat /\ \A i \in 1..Len(queue) : queue[i] \in P
  BY <1>2
<1> QED BY <1>1, <1>3

\* A step that touches none of it.
LEMMA StillFollows ==
    ASSUME FollowCore, UNCHANGED <<up, file, rows, writing, queue, begun, raced, synced>>
    PROVE  FollowCore'
<1>1. \A f, k, x : Kept(f, k, x) <=> Kept(f, k, x)'
  BY DEF Kept, Gone, Rd, Pend, Unwritten
<1>2. \A f, k, x : (LastPut(f, k, x) <=> LastPut(f, k, x)') /\ (NonePut(f, k) <=> NonePut(f, k)')
  BY DEF LastPut, NonePut, IsPut, IsQueued
<1>3. Whole' /\ Busy' /\ Calm' /\ Known' /\ Alone'
  BY DEF FollowCore, Whole, Busy, Calm, Known, Alone, Rd, Idle, IsPut
<1> QED BY <1>1, <1>2, <1>3 DEF FollowCore, PutsFollow, RowsFollow

\* A record that is begun for the first time.
LEMMA BeginFollows ==
    ASSUME StoreInv, FollowTyped, FollowCore,
           NEW t \in Threads, NEW f \in Files, NEW r \in Recs,
           Writes(t, f, r), up' = up, up # "off", t = "loop" => up = "on",
           r \notin begun[f], r.what \in Whats(t), r.key \in Trades
    PROVE  FollowCore'
<1>1. /\ writing[t].at = "idle" /\ UNCHANGED <<file, rows, queue, raced, synced>>
      /\ writing' = [writing EXCEPT ![t] = [at |-> "append", file |-> f, rec |-> r]]
      /\ begun' = [begun EXCEPT ![f] = @ \cup {r}]
  BY DEF Writes, Idle
<1>2. /\ \A o \in Threads : o # t => writing'[o] = writing[o]
      /\ writing'[t].at = "append" /\ writing'[t].file = f /\ writing'[t].rec = r
  BY <1>1 DEF StoreInv, StoreTyped
<1>3. \A g \in Files : begun'[g] = IF g = f THEN begun[g] \cup {r} ELSE begun[g]
  BY <1>1 DEF StoreInv, StoreTyped
<1>4. \A g : Rd(g)' = Rd(g)
  BY <1>1 DEF Rd
<1>5. ASSUME NEW g \in Files, NEW x \in Gone(g) PROVE x \in Gone(g)'
  <2>1. x \in begun[g] /\ x \notin ToSet(Rd(g)) /\ x \notin Pend(g)
    BY <1>5 DEF Gone
  <2>2. x \notin Pend(g)'
    <3> SUFFICES ASSUME NEW o \in Threads, writing'[o].at = "append", writing'[o].file = g,
                        writing'[o].rec = x
                 PROVE  FALSE
      BY DEF Pend, Unwritten
    <3>1. CASE o = t
      BY <1>2, <2>1, <3>1
    <3>2. CASE o # t
      BY <1>2, <2>1, <3>2 DEF Pend, Unwritten
    <3> QED BY <3>1, <3>2
  <2> QED BY <1>3, <1>4, <2>1, <2>2 DEF Gone
<1>6. \A g \in Files : \A k, x : Kept(g, k, x) => Kept(g, k, x)'
  BY <1>4, <1>5 DEF Kept
<1>7. \A o \in Threads : \A g, k : (IsPut(o, g, k)' <=> IsPut(o, g, k))
                               /\ (IsPut(o, g, k) => writing'[o].rec = writing[o].rec)
  BY <1>1, <1>2 DEF IsPut
<1>8. \A i, g, k : IsQueued(i, g, k)' <=> IsQueued(i, g, k)
  BY <1>1 DEF IsQueued
<1>9. \A g, k, x : (LastPut(g, k, x)' => LastPut(g, k, x)) /\ (NonePut(g, k)' => NonePut(g, k))
  BY <1>1, <1>7, <1>8 DEF LastPut, NonePut
<1>10. PutsFollow' /\ RowsFollow'
  BY <1>1, <1>6, <1>9 DEF FollowCore, PutsFollow, RowsFollow
<1>11. Whole' /\ Alone'
  BY <1>1, <1>3, <1>4, <1>7 DEF FollowCore, Whole, Alone
<1>12. Busy'
  <2> SUFFICES ASSUME NEW o \in Threads, writing'[o].at # "idle"
               PROVE  /\ writing'[o].rec \in begun'[writing'[o].file]
                      /\ writing'[o].rec.what \in Whats(o) /\ writing'[o].rec.key \in Trades
                      /\ writing'[o].at = "append" =>
                            writing'[o].rec \notin ToSet(Rd(writing'[o].file))
    BY <1>4 DEF Busy
  <2>1. CASE o = t
    BY <1>2, <1>3, <2>1 DEF FollowCore, Whole
  <2>2. CASE o # t
    <3>1. writing'[o] = writing[o] /\ writing[o].file \in Files
      BY <1>2, <2>2 DEF StoreInv, StoreTyped
    <3> QED BY <1>3, <3>1 DEF FollowCore, Busy
  <2> QED BY <2>1, <2>2
<1>13. Calm'
  BY <1>2, <1>1 DEF FollowCore, Calm, Idle, Threads
<1>14. Known'
  <2>1. r # NoRow
    BY DEF NoRow, Rec, Whats
  <2>2. ASSUME NEW i \in 1..Len(queue) PROVE queue[i].rec \in begun'[queue[i].file]
    <3>1. queue[i].file \in Files
      BY QueueTyped
    <3> QED BY <1>3, <3>1 DEF FollowCore, Known
  <2> QED BY <1>1, <1>3, <2>1, <2>2 DEF FollowCore, Known
<1> QED BY <1>10, <1>11, <1>12, <1>13, <1>14 DEF FollowCore

\* What is read of the files are records.
LEMMA ReadTyped ==
    ASSUME NEW F \in LineFiles
    PROVE  RecordsOf(F.lines) \in Seq(Recs)
<1>1. F.lines \in Seq(LinesOf(Recs))
  BY FileParts DEF Lines, LinesOf
<1> QED BY <1>1, RecordsTyped

\* The line is written: its record counts, or is gone for good, and so is the
\* one of a line that it spoils.
LEMMA LineFollows ==
    ASSUME StoreInv, FollowTyped, FollowCore, NEW t \in Threads, AppendLine(t)
    PROVE  FollowCore'
<1>0. PICK f \in Files, r \in Recs, F \in LineFiles :
         f = writing[t].file /\ r = writing[t].rec /\ F = file[f]
  BY DEF StoreInv, StoreTyped
<1>1. PICK G : /\ f = writing[t].file /\ r = writing[t].rec /\ F = file[f]
               /\ G = AddLine(F, r)
  BY <1>0
<1>2. /\ writing[t].at = "append" /\ UNCHANGED <<up, rows, queue, begun, synced>>
      /\ file' = [file EXCEPT ![f] = G] /\ writing' = [writing EXCEPT ![t].at = "put"]
  BY <1>1 DEF AppendLine
<1>3. /\ \A o \in Threads : o # t => writing'[o] = writing[o]
      /\ writing'[t].at = "put" /\ writing'[t].file = f /\ writing'[t].rec = r
  BY <1>1, <1>2 DEF StoreInv, StoreTyped
<1>4. /\ raced \subseteq raced'
      /\ \A o \in Threads : IsPut(o, f, r.key) => r.key \in raced'
  BY <1>1 DEF AppendLine, IsPut
<1>5. G \in LineFiles
  BY <1>1, Added
<1>6. PICK rs \in Seq(Recs), new \in Seq(Recs) : rs = Rd(f) /\ new = Rd(f)'
                                                 /\ Written(rs, r, new)
  <2>1. file[f] = F /\ file'[f] = G
    BY <1>1, <1>2 DEF StoreInv, StoreTyped
  <2>2. RecordsOf(F.lines) \in Seq(Recs) /\ RecordsOf(G.lines) \in Seq(Recs)
    BY <1>5, ReadTyped
  <2>3. Written(RecordsOf(F.lines), r, RecordsOf(G.lines))
    BY <1>1, FileWritten
  <2> QED BY <2>1, <2>2, <2>3 DEF Rd
<1>7. \A g \in Files : g # f => Rd(g)' = Rd(g)
  BY <1>2 DEF Rd, StoreInv, StoreTyped
<1>8. /\ Distinct(rs) /\ ToSet(rs) \subseteq begun[f] /\ r \notin ToSet(rs)
      /\ r \in begun[f] /\ r.what \in Whats(t) /\ r.key \in Trades
  BY <1>1, <1>2, <1>6 DEF FollowCore, Whole, Busy
<1>9. /\ Distinct(new) /\ ToSet(new) \subseteq ToSet(rs) \cup {r}
      /\ r \in ToSet(new) => LastIn(new, r.key) = r
      /\ \A k : k # r.key \/ r \notin ToSet(new) =>
            \/ LastIn(new, k) = LastIn(rs, k)
            \/ LastIn(rs, k) \in ToSet(rs) /\ LastIn(rs, k) \notin ToSet(new)
  BY <1>6, <1>8, WrittenGives
\* The records of two threads differ.
<1>10. \A o \in Threads : o # t /\ writing[o].at # "idle" => writing[o].rec # r
  BY <1>8 DEF FollowCore, Busy, Whats, Threads
<1>11. \A g \in Files : Pend(g)' \subseteq Pend(g) /\ r \notin Pend(f)'
  BY <1>3, <1>10 DEF Pend, Unwritten
<1>12. \A x \in ToSet(rs) : x \notin Pend(f)
  BY <1>6 DEF FollowCore, Busy, Pend, Unwritten
<1>13. r \in Pend(f)
  BY <1>1, <1>2 DEF Pend, Unwritten
<1>14. \A g \in Files : Gone(g) \subseteq Gone(g)'
  <2> SUFFICES ASSUME NEW g \in Files, NEW x \in Gone(g) PROVE x \in Gone(g)'
    OBVIOUS
  <2>1. CASE g = f
    BY <1>2, <1>6, <1>9, <1>11, <1>13, <2>1 DEF Gone
  <2>2. CASE g # f
    BY <1>2, <1>7, <1>11, <2>2 DEF Gone
  <2> QED BY <2>1, <2>2
<1>15. ASSUME NEW g \in Files, NEW k, NEW x, Kept(g, k, x), g # f \/ k # r.key
       PROVE  Kept(g, k, x)'
  <2>1. CASE g # f
    BY <1>7, <1>14, <1>15, <2>1 DEF Kept
  <2>2. CASE g = f /\ x \in Gone(f)
    BY <1>14, <2>2 DEF Kept
  <2>3. CASE g = f /\ x = LastIn(rs, k)
    <3>1. CASE x = LastIn(new, k)
      BY <1>6, <2>3, <3>1 DEF Kept
    <3>2. CASE x # LastIn(new, k)
      <4>1. x \in ToSet(rs) /\ x \notin ToSet(new)
        BY <1>9, <1>15, <2>3, <3>2
      <4>2. x \in Gone(f)'
        BY <1>2, <1>6, <1>8, <1>11, <1>12, <4>1 DEF Gone
      <4> QED BY <2>3, <4>2 DEF Kept
    <3> QED BY <3>1, <3>2
  <2> QED BY <1>6, <1>15, <2>1, <2>2, <2>3 DEF Kept
<1>16. Kept(f, r.key, r)'
  <2>1. CASE r \in ToSet(new)
    BY <1>6, <1>9, <2>1 DEF Kept
  <2>2. CASE r \notin ToSet(new)
    <3>1. r \in Gone(f)'
      BY <1>2, <1>6, <1>8, <1>11, <2>2 DEF Gone
    <3> QED BY <3>1 DEF Kept
  <2> QED BY <2>1, <2>2
<1>17. IsPut(t, f, r.key)'
  BY <1>3 DEF IsPut
<1>18. ASSUME NEW g \in Files, NEW k, g # f \/ k # r.key
       PROVE  /\ \A x : LastPut(g, k, x)' => LastPut(g, k, x)
              /\ NonePut(g, k)' => NonePut(g, k)
  <2>1. ~IsPut(t, g, k) /\ ~IsPut(t, g, k)'
    BY <1>2, <1>3, <1>18 DEF IsPut
  <2>2. \A o \in Threads : (IsPut(o, g, k)' <=> IsPut(o, g, k))
                           /\ (IsPut(o, g, k) => writing'[o].rec = writing[o].rec)
    BY <1>3, <2>1 DEF IsPut
  <2>3. \A i : IsQueued(i, g, k)' <=> IsQueued(i, g, k)
    BY <1>2 DEF IsQueued
  <2> QED BY <1>2, <2>2, <2>3 DEF LastPut, NonePut
<1>19. PutsFollow'
  <2> SUFFICES ASSUME NEW g \in Files, NEW k \in Trades, NEW x,
                      k \notin raced' \/ up' = "build", LastPut(g, k, x)'
               PROVE  Kept(g, k, x)'
    BY DEF PutsFollow
  <2>1. CASE g # f \/ k # r.key
    <3>1. LastPut(g, k, x) /\ (k \notin raced \/ up = "build")
      BY <1>2, <1>4, <1>18, <2>1
    <3>2. Kept(g, k, x)
      BY <3>1 DEF FollowCore, PutsFollow
    <3> QED BY <1>15, <2>1, <3>2
  <2>2. CASE g = f /\ k = r.key
    <3>1. PICK o \in Threads : IsPut(o, f, r.key)' /\ writing'[o].rec = x
      BY <1>17, <2>2 DEF LastPut
    <3>2. o = t
      <4> SUFFICES ASSUME o # t PROVE FALSE
        OBVIOUS
      <4>1. IsPut(o, f, r.key)
        BY <1>3, <3>1 DEF IsPut
      <4>2. up = "build"
        BY <1>2, <1>4, <2>2, <4>1
      <4>3. writing[t].at # "idle" /\ writing[o].at # "idle"
        BY <1>2, <4>1 DEF IsPut
      <4> QED BY <4>2, <4>3 DEF FollowCore, Calm, Idle, Threads
    <3> QED BY <1>3, <1>16, <2>2, <3>1, <3>2
  <2> QED BY <2>1, <2>2
<1>20. RowsFollow'
  <2> SUFFICES ASSUME up' = "on", synced', NEW g \in Files, NEW k \in Trades \ raced',
                      NonePut(g, k)'
               PROVE  Kept(g, k, rows[g][k])'
    BY DEF RowsFollow
  <2>1. g # f \/ k # r.key
    BY <1>17 DEF NonePut
  <2>2. NonePut(g, k) /\ k \notin raced
    BY <1>4, <1>18, <2>1
  <2>3. PICK x : x = rows[g][k] /\ Kept(g, k, x)
    BY <1>2, <2>2 DEF FollowCore, RowsFollow
  <2>4. Kept(g, k, x)'
    BY <1>15, <2>1, <2>3
  <2> QED BY <1>2, <2>3, <2>4 DEF Kept
<1>21. Whole'
  BY <1>2, <1>6, <1>7, <1>8, <1>9 DEF FollowCore, Whole
<1>22. Busy'
  <2> SUFFICES ASSUME NEW o \in Threads, writing'[o].at # "idle"
               PROVE  /\ writing'[o].rec \in begun'[writing'[o].file]
                      /\ writing'[o].rec.what \in Whats(o) /\ writing'[o].rec.key \in Trades
                      /\ writing'[o].at = "append" =>
                            writing'[o].rec \notin ToSet(Rd(writing[o].file)')
    BY <1>1, <1>3 DEF Busy
  <2>1. CASE o = t
    BY <1>2, <1>3, <1>8, <2>1
  <2>2. CASE o # t
    <3>1. writing'[o] = writing[o] /\ writing[o].file \in Files /\ writing[o].rec # r
      BY <1>3, <1>10, <2>2 DEF StoreInv, StoreTyped
    <3>2. CASE writing[o].file = f
      BY <1>2, <1>6, <1>9, <3>1, <3>2 DEF FollowCore, Busy
    <3>3. CASE writing[o].file # f
      BY <1>2, <1>7, <3>1, <3>3 DEF FollowCore, Busy
    <3> QED BY <3>2, <3>3
  <2> QED BY <2>1, <2>2
<1>23. Calm'
  BY <1>2, <1>3 DEF FollowCore, Calm, Idle, Threads
<1>24. Known'
  BY <1>2 DEF FollowCore, Known
<1>25. Alone'
  <2> SUFFICES ASSUME NEW g \in Files, NEW k \in Trades \ raced', NEW p \in Threads,
                      NEW o \in Threads, IsPut(p, g, k)', IsPut(o, g, k)', p # o
               PROVE  FALSE
    BY DEF Alone
  <2>1. \A q \in Threads : q # t => (IsPut(q, g, k)' => IsPut(q, g, k))
    BY <1>3 DEF IsPut
  <2>2. k \notin raced
    BY <1>4
  <2>3. CASE p # t /\ o # t
    BY <2>1, <2>2, <2>3 DEF FollowCore, Alone
  <2>4. CASE p = t \/ o = t
    <3>1. g = f /\ k = r.key
      BY <1>3, <2>4 DEF IsPut
    <3>2. \E q \in Threads : IsPut(q, f, r.key)
      BY <2>1, <2>4, <3>1
    <3> QED BY <1>4, <3>1, <3>2
  <2> QED BY <2>3, <2>4
<1> QED BY <1>19, <1>20, <1>21, <1>22, <1>23, <1>24, <1>25 DEF FollowCore

\* The record is put.
LEMMA PutFollows ==
    ASSUME StoreInv, FollowTyped, FollowCore, NEW t \in Threads, PutRecord(t)
    PROVE  FollowCore'
<1>1. PICK f \in Files, r \in Recs : f = writing[t].file /\ r = writing[t].rec
  BY DEF StoreInv, StoreTyped
<1>2. /\ writing[t].at = "put" /\ UNCHANGED <<up, file, rows, begun, raced, synced>>
      /\ writing' = [writing EXCEPT ![t] = Nothing]
      /\ queue' = Append(queue, [file |-> f, rec |-> r])
  BY <1>1 DEF PutRecord, storeHistory
<1>3. (\A o \in Threads : o # t => writing'[o] = writing[o]) /\ writing'[t].at = "idle"
  BY <1>2 DEF StoreInv, StoreTyped, Nothing
<1>4. PICK n \in Nat, e \in [file : Files, rec : Recs] :
                          /\ n = Len(queue) /\ Len(queue') = n + 1 /\ queue'[n + 1] = e
                          /\ e.file = f /\ e.rec = r /\ \A i \in 1..n : queue'[i] = queue[i]
  <2>1. PICK P : P = [file : Files, rec : Recs]
    OBVIOUS
  <2>2. PICK e \in P : e = [file |-> f, rec |-> r]
    BY <2>1
  <2>3. queue \in Seq(P) /\ queue' = Append(queue, e) /\ e.file = f /\ e.rec = r
    BY <1>2, <2>1, <2>2 DEF FollowTyped
  <2>4. /\ Len(queue) \in Nat /\ Len(Append(queue, e)) = Len(queue) + 1
        /\ Append(queue, e)[Len(queue) + 1] = e
        /\ \A i \in 1..Len(queue) : Append(queue, e)[i] = queue[i]
    BY <2>3, AppendSet
  <2> QED BY <2>1, <2>3, <2>4
<1>5. r \in begun[f] /\ r.key \in Trades
  BY <1>1, <1>2 DEF FollowCore, Busy
<1>6. \A g : Rd(g)' = Rd(g)
  BY <1>2 DEF Rd
<1>7. \A g \in Files : Pend(g)' \subseteq Pend(g)
  BY <1>3 DEF Pend, Unwritten
<1>8. \A g \in Files : \A k, x : Kept(g, k, x) => Kept(g, k, x)'
  BY <1>2, <1>6, <1>7 DEF Kept, Gone
<1>9. IsPut(t, f, r.key) /\ LastPut(f, r.key, r)
  BY <1>1, <1>2 DEF IsPut, LastPut
<1>10. n + 1 \in 1..Len(queue') /\ IsQueued(n + 1, f, r.key)'
  BY <1>4 DEF IsQueued
<1>11. ASSUME NEW g \in Files, NEW k, g # f \/ k # r.key
       PROVE  /\ \A x : LastPut(g, k, x)' => LastPut(g, k, x)
              /\ NonePut(g, k)' => NonePut(g, k)
  <2>1. ~IsPut(t, g, k) /\ ~IsPut(t, g, k)'
    BY <1>1, <1>3, <1>11 DEF IsPut
  <2>2. \A o \in Threads : (IsPut(o, g, k)' <=> IsPut(o, g, k))
                           /\ (IsPut(o, g, k) => writing'[o].rec = writing[o].rec)
    BY <1>3, <2>1 DEF IsPut
  <2>3. /\ \A i \in 1..n : /\ IsQueued(i, g, k)' <=> IsQueued(i, g, k)
                           /\ queue'[i] = queue[i]
        /\ ~IsQueued(n + 1, g, k)'
    BY <1>4, <1>11 DEF IsQueued
  <2>4. \A i \in 1..n + 1 : i \in 1..n \/ i = n + 1
    OBVIOUS
  <2>5. ASSUME NEW x, LastPut(g, k, x)' PROVE LastPut(g, k, x)
    <3>1. CASE \E o \in Threads : IsPut(o, g, k)' /\ writing'[o].rec = x
      BY <2>2, <3>1 DEF LastPut
    <3>2. CASE ~\E o \in Threads : IsPut(o, g, k)' /\ writing'[o].rec = x
      <4>1. PICK i \in 1..n + 1 : /\ IsQueued(i, g, k)' /\ queue'[i].rec = x
                                  /\ \A j \in 1..n + 1 : j > i => ~IsQueued(j, g, k)'
        BY <1>4, <2>5, <3>2 DEF LastPut
      <4>2. i \in 1..n /\ IsQueued(i, g, k) /\ queue[i].rec = x
        BY <2>3, <2>4, <4>1
      <4>3. ASSUME NEW j \in 1..n, j > i PROVE ~IsQueued(j, g, k)
        <5>1. j \in 1..n + 1
          OBVIOUS
        <5> QED BY <2>3, <4>1, <4>3, <5>1
      <4>4. \A o \in Threads : ~IsPut(o, g, k)
        BY <2>2, <2>5, <3>2 DEF LastPut
      <4> QED BY <1>4, <4>2, <4>3, <4>4 DEF LastPut
    <3> QED BY <3>1, <3>2
  <2>6. ASSUME NonePut(g, k)' PROVE NonePut(g, k)
    <3>1. \A i \in 1..n : i \in 1..n + 1
      OBVIOUS
    <3> QED BY <1>4, <2>2, <2>3, <2>6, <3>1 DEF NonePut
  <2> QED BY <2>5, <2>6
<1>12. PutsFollow'
  <2> SUFFICES ASSUME NEW g \in Files, NEW k \in Trades, NEW x,
                      k \notin raced' \/ up' = "build", LastPut(g, k, x)'
               PROVE  Kept(g, k, x)'
    BY DEF PutsFollow
  <2>1. CASE g # f \/ k # r.key
    BY <1>2, <1>8, <1>11, <2>1 DEF FollowCore, PutsFollow
  <2>2. CASE g = f /\ k = r.key
    <3>1. ASSUME NEW o \in Threads, IsPut(o, f, r.key)' PROVE FALSE
      <4>1. o # t /\ IsPut(o, f, r.key)
        BY <1>3, <3>1 DEF IsPut
      <4>2. CASE k \notin raced
        BY <1>9, <2>2, <4>1, <4>2, <1>5 DEF FollowCore, Alone
      <4>3. CASE up = "build"
        <5>1. writing[t].at # "idle" /\ writing[o].at # "idle"
          BY <1>2, <4>1 DEF IsPut
        <5> QED BY <4>1, <4>3, <5>1 DEF FollowCore, Calm, Idle, Threads
      <4> QED BY <1>2, <4>2, <4>3
    <3>2. PICK i \in 1..n + 1 : /\ queue'[i].rec = x
                                /\ \A j \in 1..n + 1 : j > i => ~IsQueued(j, f, r.key)'
      BY <1>4, <2>2, <3>1 DEF LastPut
    <3>3. i = n + 1
      BY <1>4, <1>10, <3>2
    <3>4. x = r
      BY <1>4, <3>2, <3>3
    <3>5. Kept(f, r.key, r)
      BY <1>2, <1>5, <1>9, <2>2 DEF FollowCore, PutsFollow
    <3> QED BY <1>8, <2>2, <3>4, <3>5
  <2> QED BY <2>1, <2>2
<1>13. RowsFollow'
  <2> SUFFICES ASSUME up' = "on", synced', NEW g \in Files, NEW k \in Trades \ raced',
                      NonePut(g, k)'
               PROVE  Kept(g, k, rows[g][k])'
    BY DEF RowsFollow
  <2>1. g # f \/ k # r.key
    BY <1>10 DEF NonePut
  <2>2. NonePut(g, k) /\ k \notin raced
    BY <1>2, <1>11, <2>1
  <2>3. PICK x : x = rows[g][k] /\ Kept(g, k, x)
    BY <1>2, <2>2 DEF FollowCore, RowsFollow
  <2>4. Kept(g, k, x)'
    BY <1>8, <2>3
  <2> QED BY <1>2, <2>3, <2>4 DEF Kept
<1>14. Whole' /\ Alone'
  BY <1>2, <1>3, <1>6 DEF FollowCore, Whole, Alone, IsPut
<1>15. Busy'
  BY <1>2, <1>3, <1>6 DEF FollowCore, Busy
<1>16. Calm'
  BY <1>2, <1>3 DEF FollowCore, Calm, Idle, Threads
<1>17. Known'
  <2>1. ASSUME NEW i \in 1..Len(queue') PROVE queue'[i].rec \in begun[queue'[i].file]
    <3>1. i \in 1..n \/ i = n + 1
      BY <1>4
    <3> QED BY <1>4, <1>5, <3>1 DEF FollowCore, Known
  <2> QED BY <1>2, <2>1 DEF FollowCore, Known
<1> QED BY <1>12, <1>13, <1>14, <1>15, <1>16, <1>17 DEF FollowCore

\* One round of the thread of the database.
LEMMA DbFollows ==
    ASSUME StoreInv, FollowTyped, FollowCore, DbLoop
    PROVE  FollowCore'
<1>1. PICK n \in Nat : /\ Len(queue) = n + 1 /\ Len(queue') = n
                       /\ \A i \in 1..n : queue'[i] = queue[i + 1]
  <2>1. PICK P : P = [file : Files, rec : Recs]
    OBVIOUS
  <2>2. queue \in Seq(P) /\ queue # <<>> /\ queue' = Tail(queue)
    BY <2>1 DEF FollowTyped, DbLoop
  <2> QED BY <2>2
<1>2. UNCHANGED <<up, file, writing, begun, raced>>
  BY DEF DbLoop
<1>3. \A g, k, x : Kept(g, k, x) <=> Kept(g, k, x)'
  BY <1>2 DEF Kept, Gone, Rd, Pend, Unwritten
<1>4. /\ \A o, g, k : IsPut(o, g, k)' <=> IsPut(o, g, k)
      /\ \A i \in 1..n : \A g, k : IsQueued(i, g, k)' <=> IsQueued(i + 1, g, k)
  BY <1>1, <1>2 DEF IsPut, IsQueued
<1>5. ASSUME NEW g, NEW k, NEW x, LastPut(g, k, x)' PROVE LastPut(g, k, x)
  <2>1. CASE \E o \in Threads : IsPut(o, g, k)' /\ writing'[o].rec = x
    BY <1>2, <1>4, <2>1 DEF LastPut
  <2>2. CASE ~\E o \in Threads : IsPut(o, g, k)' /\ writing'[o].rec = x
    <3>1. PICK i \in 1..n : /\ IsQueued(i, g, k)' /\ queue'[i].rec = x
                            /\ \A j \in 1..n : j > i => ~IsQueued(j, g, k)'
      BY <1>1, <1>5, <2>2 DEF LastPut
    <3>2. i + 1 \in 1..n + 1 /\ IsQueued(i + 1, g, k) /\ queue[i + 1].rec = x
      BY <1>1, <1>4, <3>1
    <3>3. ASSUME NEW j \in 1..n + 1, j > i + 1 PROVE ~IsQueued(j, g, k)
      <4>1. PICK h \in 1..n : j = h + 1 /\ h > i
        <5>1. j - 1 \in 1..n /\ j = (j - 1) + 1 /\ j - 1 > i
          BY <3>3
        <5> QED BY <5>1
      <4> QED BY <1>4, <3>1, <4>1
    <3>4. \A o \in Threads : ~IsPut(o, g, k)
      BY <1>4, <1>5, <2>2 DEF LastPut
    <3> QED BY <1>1, <3>2, <3>3, <3>4 DEF LastPut
  <2> QED BY <2>1, <2>2
<1>6. ASSUME NEW g, NEW k, NonePut(g, k)'
      PROVE  \/ NonePut(g, k)
             \/ IsQueued(1, g, k) /\ LastPut(g, k, queue[1].rec)
  <2>1. \A o \in Threads : ~IsPut(o, g, k)
    BY <1>4, <1>6 DEF NonePut
  <2>2. ASSUME NEW j \in 1..n + 1, j > 1 PROVE ~IsQueued(j, g, k)
    <3>1. PICK h \in 1..n : j = h + 1
      <4>1. j - 1 \in 1..n /\ j = (j - 1) + 1
        BY <2>2
      <4> QED BY <4>1
    <3> QED BY <1>1, <1>4, <1>6, <3>1 DEF NonePut
  <2>3. 1 \in 1..n + 1 /\ \A j \in 1..n + 1 : j = 1 \/ j > 1
    OBVIOUS
  <2> QED BY <1>1, <2>1, <2>2, <2>3 DEF NonePut, LastPut
<1>7. PutsFollow'
  BY <1>2, <1>3, <1>5 DEF FollowCore, PutsFollow
<1>8. PICK f \in Files, r \in Recs : /\ f = queue[1].file /\ r = queue[1].rec /\ r \in begun[f]
                                     /\ f = Head(queue).file /\ r = Head(queue).rec
  <2>1. 1 \in 1..Len(queue) /\ Head(queue) = queue[1]
    BY <1>1
  <2>2. queue[1].file \in Files /\ queue[1].rec \in Recs
    BY <2>1, QueueTyped
  <2> QED BY <2>1, <2>2 DEF FollowCore, Known
<1>9. \/ rows' = [rows EXCEPT ![f][r.key] = r] /\ synced' = synced
      \/ rows' = rows /\ ~synced'
  BY <1>8 DEF DbLoop, DbFails
<1>10. \A g \in Files, k \in Trades :
          \/ rows'[g][k] = rows[g][k] /\ (~synced' \/ g # f \/ k # r.key)
          \/ g = f /\ k = r.key /\ rows'[g][k] = r
  BY <1>9 DEF FollowTyped
<1>11. RowsFollow'
  <2> SUFFICES ASSUME up' = "on", synced', NEW g \in Files, NEW k \in Trades \ raced',
                      NonePut(g, k)'
               PROVE  Kept(g, k, rows[g][k])'
    BY DEF RowsFollow
  <2>1. PICK x : x = rows'[g][k] /\ Kept(g, k, x)
    <3>1. CASE g = f /\ k = r.key
      <4>1. rows'[g][k] = r
        BY <1>10, <3>1
      <4>2. LastPut(g, k, r)
        <5>1. IsQueued(1, f, r.key) /\ 1 \in 1..Len(queue)
          BY <1>1, <1>8 DEF IsQueued
        <5> QED BY <1>6, <1>8, <3>1, <5>1 DEF NonePut
      <4>3. Kept(g, k, r)
        BY <1>2, <4>2 DEF FollowCore, PutsFollow
      <4> QED BY <4>1, <4>3
    <3>2. CASE g # f \/ k # r.key
      <4>1. rows'[g][k] = rows[g][k] /\ synced
        BY <1>9, <1>10, <3>2
      <4>2. ~IsQueued(1, g, k)
        BY <1>8, <3>2 DEF IsQueued
      <4>3. NonePut(g, k)
        BY <1>6, <4>2
      <4> QED BY <1>2, <4>1, <4>3 DEF FollowCore, RowsFollow
    <3> QED BY <3>1, <3>2
  <2>2. Kept(g, k, x)'
    BY <1>3, <2>1
  <2> QED BY <2>1, <2>2 DEF Kept
<1>12. Whole' /\ Busy' /\ Alone'
  BY <1>2 DEF FollowCore, Whole, Busy, Alone, IsPut, Rd
<1>13. Calm'
  <2>1. up # "off"
    BY <1>1 DEF FollowCore, Calm
  <2> QED BY <1>2, <2>1 DEF FollowCore, Calm, Idle
<1>14. Known'
  <2>1. ASSUME NEW i \in 1..n PROVE queue'[i].rec \in begun[queue'[i].file]
    <3>1. i + 1 \in 1..Len(queue) /\ queue'[i] = queue[i + 1]
      BY <1>1
    <3> QED BY <3>1 DEF FollowCore, Known
  <2>2. \A g \in Files, k \in Trades :
           rows'[g][k] = NoRow \/ (rows'[g][k] \in begun[g] /\ rows'[g][k].key = k)
    BY <1>8, <1>10 DEF FollowCore, Known
  <2> QED BY <1>1, <1>2, <2>1, <2>2 DEF FollowCore, Known
<1> QED BY <1>7, <1>11, <1>12, <1>13, <1>14 DEF FollowCore

\* The line that counts, by the records read.
LEMMA LastLineIs ==
    \A f, k : LastLine(f, k) = LastIn(Rd(f), k)
<1>1. \A f : ReadJsonl(file[f]) = Rd(f)
  BY DEF ReadJsonl, RecordsOf, Reads, Rd
<1> QED BY <1>1 DEF LastLine, LastIn

\* It is of its key, or there is none of the key.
LEMMA LastLineTyped ==
    ASSUME StoreInv, Whole, NEW f \in Files, NEW k
    PROVE  LET l == LastIn(Rd(f), k) IN
           /\ l \in Recs
           /\ l = NoRow \/ (l \in begun[f] /\ l.key = k)
           /\ l = NoRow => NoRow \in begun[f] \/ \A x \in ToSet(Rd(f)) : x.key # k
<1>1. PICK rs \in Seq(Recs) : rs = Rd(f)
  <2>1. file[f] \in LineFiles
    BY DEF StoreInv, StoreTyped
  <2>2. RecordsOf(file[f].lines) \in Seq(Recs)
    BY <2>1, ReadTyped
  <2> QED BY <2>2 DEF Rd
<1>2. NoRow \in Recs
  BY DEF NoRow, Rec, Recs
<1>3. CASE LastIn(rs, k) = NoRow /\ \A i \in 1..Len(rs) : rs[i].key # k
  BY <1>1, <1>2, <1>3 DEF ToSet
<1>4. CASE \E i \in 1..Len(rs) : LastIn(rs, k) = rs[i] /\ rs[i].key = k
  <2>1. PICK i \in 1..Len(rs) : LastIn(rs, k) = rs[i] /\ rs[i].key = k
    BY <1>4
  <2>2. rs[i] \in ToSet(rs) /\ rs[i] \in Recs
    BY DEF ToSet
  <2> QED BY <1>1, <2>1, <2>2 DEF Whole
<1> QED BY <1>3, <1>4, LastIs

\* The files are read into the tables.
LEMMA SyncFollows ==
    ASSUME StoreInv, FollowTyped, FollowCore, SyncAll
    PROVE  FollowCore' /\ rows' \in [Files -> [Trades -> Recs]]
<1>1. up = "build" /\ up' = "on" /\ Idle("order") /\ UNCHANGED <<file, writing, queue, begun>>
  BY DEF SyncAll
<1>2. \A t \in Threads : writing[t].at = "idle"
  BY <1>1 DEF FollowCore, Calm, Idle, Threads
<1>3. \A f, k, x : Kept(f, k, x) <=> Kept(f, k, x)'
  BY <1>1 DEF Kept, Gone, Rd, Pend, Unwritten
<1>4. \A f, k, x : (LastPut(f, k, x) <=> LastPut(f, k, x)') /\ (NonePut(f, k) <=> NonePut(f, k)')
  BY <1>1 DEF LastPut, NonePut, IsPut, IsQueued
<1>5. PutsFollow'
  BY <1>1, <1>3, <1>4 DEF FollowCore, PutsFollow
<1>6. Whole' /\ Busy' /\ Calm' /\ Alone'
  <2>1. \A t \in Threads : \A f, k : ~IsPut(t, f, k)'
    BY <1>1, <1>2 DEF IsPut
  <2> QED BY <1>1, <1>2, <2>1 DEF FollowCore, Whole, Busy, Calm, Alone, Rd
<1>7. CASE rows' = rows /\ ~synced'
  BY <1>1, <1>5, <1>6, <1>7 DEF FollowCore, Known, RowsFollow, FollowTyped
<1>8. CASE rows' = [f \in Files |-> [k \in Trades |-> Upserted(f, k)]]
  <2>1. ASSUME NEW f \in Files, NEW k \in Trades
        PROVE  /\ Upserted(f, k) \in Recs /\ Kept(f, k, Upserted(f, k))
               /\ Upserted(f, k) = NoRow \/ (Upserted(f, k) \in begun[f] /\ Upserted(f, k).key = k)
    <3>1. PICK l : l = LastIn(Rd(f), k) /\ l = LastLine(f, k)
      BY LastLineIs
    <3>2. /\ l \in Recs /\ NoRow \notin begun[f]
          /\ l = NoRow \/ (l \in begun[f] /\ l.key = k)
          /\ l = NoRow => \A x \in ToSet(Rd(f)) : x.key # k
      <4>1. Whole /\ NoRow \notin begun[f]
        BY DEF FollowCore, Known
      <4>2. LET m == LastIn(Rd(f), k) IN
            /\ m \in Recs
            /\ m = NoRow \/ (m \in begun[f] /\ m.key = k)
            /\ m = NoRow => NoRow \in begun[f] \/ \A x \in ToSet(Rd(f)) : x.key # k
        BY <4>1, LastLineTyped
      <4> QED BY <3>1, <4>1, <4>2
    <3>3. CASE l # NoRow
      BY <3>1, <3>2, <3>3 DEF Upserted, Kept
    <3>4. CASE l = NoRow
      <4>1. Upserted(f, k) = rows[f][k] /\ rows[f][k] \in Recs
        BY <3>1, <3>4 DEF Upserted, FollowTyped
      <4>2. rows[f][k] = NoRow \/ (rows[f][k] \in begun[f] /\ rows[f][k].key = k)
        BY DEF FollowCore, Known
      <4>3. rows[f][k] = NoRow \/ rows[f][k] \in Gone(f)
        <5>1. Pend(f) = {}
          BY <1>2 DEF Pend, Unwritten
        <5> QED BY <3>2, <3>4, <4>2, <5>1 DEF Gone
      <4> QED BY <3>1, <3>4, <4>1, <4>2, <4>3 DEF Kept
    <3> QED BY <3>3, <3>4
  <2>2. \A f \in Files, k \in Trades : rows'[f][k] = Upserted(f, k)
    BY <1>8
  <2>3. rows' \in [Files -> [Trades -> Recs]]
    BY <1>8, <2>1
  <2>4. Known'
    BY <1>1, <2>1, <2>2 DEF FollowCore, Known
  <2>5. RowsFollow'
    <3> SUFFICES ASSUME NEW f \in Files, NEW k \in Trades PROVE Kept(f, k, rows[f][k])'
      BY DEF RowsFollow
    <3>1. PICK x : x = rows'[f][k] /\ Kept(f, k, x)
      BY <2>1, <2>2
    <3>2. Kept(f, k, x)'
      BY <1>3, <3>1
    <3> QED BY <3>1, <3>2 DEF Kept
  <2> QED BY <1>5, <1>6, <2>3, <2>4, <2>5 DEF FollowCore
<1> QED BY <1>7, <1>8 DEF SyncAll, DbFails

\* Memory is lost, and a line torn.
LEMMA CrashFollows ==
    ASSUME StoreInv, FollowTyped, FollowCore, StoreCrash
    PROVE  FollowCore'
<1>1. /\ up' = "off" /\ queue' = <<>> /\ writing' = [t \in Threads |-> Nothing]
      /\ UNCHANGED <<rows, begun, raced>>
  BY DEF StoreCrash
<1>2. \A t \in Threads : writing'[t].at = "idle"
  BY <1>1 DEF Nothing
<1>3. Whole'
  <2>1. CASE file' = file
    BY <1>1, <2>1 DEF FollowCore, Whole, Rd
  <2>2. CASE \E t \in Threads : /\ writing[t].at = "append"
                                /\ \E torn \in TornFiles(file[writing[t].file], writing[t].rec) :
                                      file' = [file EXCEPT ![writing[t].file] = torn]
    <3>1. PICK t \in Threads, f \in Files, r \in Recs :
             /\ f = writing[t].file /\ r = writing[t].rec /\ writing[t].at = "append"
             /\ \E torn \in TornFiles(file[f], r) : file' = [file EXCEPT ![f] = torn]
      BY <2>2 DEF StoreInv, StoreTyped
    <3>0. PICK F \in LineFiles : F = file[f]
      BY DEF StoreInv, StoreTyped
    <3>2. PICK G : G \in TornFiles(F, r) /\ file' = [file EXCEPT ![f] = G]
      BY <3>1, <3>0
    <3>3. PICK rs \in Seq(Recs), new \in Seq(Recs) : /\ rs = Rd(f) /\ new = Rd(f)'
                                                     /\ Written(rs, r, new)
      <4>1. file[f] = F /\ file'[f] = G /\ G \in LineFiles
        BY <3>0, <3>2, Torn DEF StoreInv, StoreTyped
      <4>2. RecordsOf(F.lines) \in Seq(Recs) /\ RecordsOf(G.lines) \in Seq(Recs)
        BY <4>1, ReadTyped
      <4>3. Written(RecordsOf(F.lines), r, RecordsOf(G.lines))
        BY <3>2, FileWritten
      <4> QED BY <4>1, <4>2, <4>3 DEF Rd
    <3>4. /\ Distinct(rs) /\ ToSet(rs) \subseteq begun[f] /\ r \notin ToSet(rs) /\ r \in begun[f]
      BY <3>1, <3>3 DEF FollowCore, Whole, Busy
    <3>5. Distinct(new) /\ ToSet(new) \subseteq ToSet(rs) \cup {r}
      BY <3>3, <3>4, WrittenGives
    <3>6. \A g \in Files : g # f => Rd(g)' = Rd(g)
      BY <3>2 DEF Rd, StoreInv, StoreTyped
    <3> QED BY <1>1, <3>3, <3>4, <3>5, <3>6 DEF FollowCore, Whole
  <2> QED BY <2>1, <2>2 DEF StoreCrash
<1>4. \A f, k, x : ~LastPut(f, k, x)'
  BY <1>1, <1>2 DEF LastPut, IsPut
<1>5. PutsFollow' /\ RowsFollow' /\ Alone' /\ Busy'
  BY <1>1, <1>2, <1>4 DEF PutsFollow, RowsFollow, Alone, Busy, IsPut
<1>6. Calm'
  BY <1>1, <1>2 DEF Calm, Idle
<1>7. Known'
  BY <1>1 DEF FollowCore, Known
<1> QED BY <1>3, <1>5, <1>6, <1>7 DEF FollowCore

\* A start finds nothing under way.
LEMMA StartFollows ==
    ASSUME FollowTyped, FollowCore, Fresh, StoreStart
    PROVE  FollowTyped' /\ FollowCore' /\ Fresh'
<1>1. /\ up = "off" /\ up' = "build" /\ UNCHANGED <<virt, file, rows, writing, queue, begun>>
      /\ raced' = raced
      /\ queue = <<>> /\ \A t \in Threads : writing[t].at = "idle"
  BY DEF StoreStart, storeHistory, FollowCore, Calm, Idle
<1>2. PICK st \in {"open", "dropped"} :
         stage' = [k \in Trades |-> IF stage[k] = "opening" THEN st ELSE stage[k]]
  BY DEF StoreStart
<1>3. \A f, k, x : ~LastPut(f, k, x)'
  BY <1>1 DEF LastPut, IsPut
<1>4. PutsFollow' /\ RowsFollow' /\ Calm'
  BY <1>1, <1>3 DEF PutsFollow, RowsFollow, Calm, Idle, Threads
<1>5. Whole' /\ Busy' /\ Known' /\ Alone'
  BY <1>1 DEF FollowCore, Whole, Busy, Known, Alone, IsPut, Rd
<1>6. FollowTyped' /\ Fresh'
  BY <1>1, <1>2 DEF FollowTyped, Fresh
<1> QED BY <1>4, <1>5, <1>6 DEF FollowCore

\* The calls of the trader begin what is yet to be begun.
LEMMA CallFollows ==
    ASSUME StoreInv, FollowTyped, FollowCore, Fresh, NEW k \in Trades,
           OnSignal(k) \/ EntryEnds(k) \/ OnExit(k) \/ Finalize(k)
    PROVE  FollowTyped' /\ FollowCore' /\ Fresh'
<1>1. \A w \in {"entry", "refused", "exit", "trade"} :
         /\ Rec(k, w) \in Recs /\ Rec(k, w).what = w /\ Rec(k, w).key = k
         /\ \A h, v : Rec(h, v) = Rec(k, w) => h = k /\ v = w
  BY DEF Rec, Recs
<1>2. "loop" \in Threads /\ "order" \in Threads /\ "signals" \in Files /\ "trades" \in Files
  BY DEF Threads, Files
<1>3. begun \in [Files -> SUBSET Recs]
  BY DEF StoreInv, StoreTyped
<1>4. CASE OnSignal(k)
  <2>1. PICK r : r = Rec(k, "entry")
    OBVIOUS
  <2>2. /\ up = "on" /\ up' = up /\ stage[k] = "unseen" /\ virt = {} /\ virt' = {k}
        /\ Writes("loop", "signals", r)
        /\ \E st \in {"opening", "dropped"} : stage' = [stage EXCEPT ![k] = st]
    BY <1>4, <2>1 DEF OnSignal, BecomesStage
  <2>3. r \notin begun["signals"]
    BY <2>1, <2>2 DEF Fresh
  <2>4. FollowCore'
    BY <1>1, <1>2, <2>1, <2>2, <2>3, BeginFollows DEF Whats
  <2>5. /\ begun'["signals"] = begun["signals"] \cup {r} /\ begun'["trades"] = begun["trades"]
        /\ UNCHANGED <<queue, rows>>
    BY <1>2, <1>3, <2>2 DEF Writes
  <2>6. Fresh'
    BY <1>1, <2>1, <2>2, <2>5 DEF Fresh, FollowTyped
  <2> QED BY <2>2, <2>4, <2>5, <2>6 DEF FollowTyped
<1>5. CASE EntryEnds(k) /\ Writes("order", "signals", Rec(k, "refused")) /\ BecomesStage(k, "dropped")
  <2>1. PICK r : r = Rec(k, "refused")
    OBVIOUS
  <2>2. /\ up = "on" /\ up' = up /\ stage[k] = "opening" /\ virt' = virt
        /\ Writes("order", "signals", r) /\ stage' = [stage EXCEPT ![k] = "dropped"]
    BY <1>5, <2>1 DEF EntryEnds, BecomesStage
  <2>3. r \notin begun["signals"]
    BY <2>1, <2>2 DEF Fresh
  <2>4. FollowCore'
    BY <1>1, <1>2, <2>1, <2>2, <2>3, BeginFollows DEF Whats
  <2>5. /\ begun'["signals"] = begun["signals"] \cup {r} /\ begun'["trades"] = begun["trades"]
        /\ UNCHANGED <<queue, rows>>
    BY <1>2, <1>3, <2>2 DEF Writes
  <2>6. Fresh'
    BY <1>1, <2>1, <2>2, <2>5 DEF Fresh, FollowTyped
  <2> QED BY <2>2, <2>4, <2>5, <2>6 DEF FollowTyped
<1>6. CASE EntryEnds(k) /\ UNCHANGED <<file, rows, writing, queue, storeHistory>>
           /\ \E st \in {"dropped", "open"} : BecomesStage(k, st)
  <2>1. /\ UNCHANGED <<up, virt, file, rows, writing, queue, begun, raced, synced>>
        /\ stage[k] = "opening"
        /\ \E st \in {"dropped", "open"} : stage' = [stage EXCEPT ![k] = st]
    BY <1>6 DEF EntryEnds, BecomesStage, storeHistory
  <2>2. FollowCore'
    BY <2>1, StillFollows
  <2> QED BY <2>1, <2>2 DEF FollowTyped, Fresh
<1>7. CASE OnExit(k)
  <2>1. PICK r : r = Rec(k, "exit")
    OBVIOUS
  <2>2. /\ up = "on" /\ up' = up /\ stage' = stage /\ k \in virt /\ virt' = virt \ {k}
        /\ Writes("loop", "signals", r)
    BY <1>7, <2>1 DEF OnExit
  <2>3. r \notin begun["signals"]
    BY <2>1, <2>2 DEF Fresh
  <2>4. FollowCore'
    BY <1>1, <1>2, <2>1, <2>2, <2>3, BeginFollows DEF Whats
  <2>5. /\ begun'["signals"] = begun["signals"] \cup {r} /\ begun'["trades"] = begun["trades"]
        /\ UNCHANGED <<queue, rows>>
    BY <1>2, <1>3, <2>2 DEF Writes
  <2>6. Fresh'
    BY <1>1, <2>1, <2>2, <2>5 DEF Fresh, FollowTyped
  <2> QED BY <2>2, <2>4, <2>5, <2>6 DEF FollowTyped
<1>8. CASE Finalize(k)
  <2>1. PICK r : r = Rec(k, "trade")
    OBVIOUS
  <2>2. /\ up # "off" /\ up' = up /\ stage[k] = "open" /\ virt' = virt
        /\ Writes("order", "trades", r) /\ stage' = [stage EXCEPT ![k] = "booked"]
    BY <1>8, <2>1 DEF Finalize, BecomesStage
  <2>3. r \notin begun["trades"]
    BY <2>1, <2>2 DEF Fresh
  <2>4. FollowCore'
    BY <1>1, <1>2, <2>1, <2>2, <2>3, BeginFollows DEF Whats
  <2>5. /\ begun'["trades"] = begun["trades"] \cup {r} /\ begun'["signals"] = begun["signals"]
        /\ UNCHANGED <<queue, rows>>
    BY <1>2, <1>3, <2>2 DEF Writes
  <2>6. Fresh'
    BY <1>1, <2>1, <2>2, <2>5 DEF Fresh, FollowTyped
  <2> QED BY <2>2, <2>4, <2>5, <2>6 DEF FollowTyped
<1> QED BY <1>4, <1>5, <1>6, <1>7, <1>8 DEF EntryEnds

\* Every step of the store.
LEMMA FollowKeeps == FollowInv /\ [StoreNext]_storeVars => FollowInv'
<1> SUFFICES ASSUME FollowInv, [StoreNext]_storeVars PROVE FollowInv'
  OBVIOUS
<1>1. StoreInv' /\ StoreInv /\ FollowTyped /\ FollowCore /\ Fresh
  BY StoreKeeps DEF FollowInv
<1>2. ASSUME UNCHANGED <<stage, begun>>, virt' \subseteq virt PROVE Fresh'
  BY <1>1, <1>2 DEF Fresh
<1>3. PICK P : P = [file : Files, rec : Recs] /\ queue \in Seq(P)
  BY <1>1 DEF FollowTyped
<1>4. CASE \E k \in Trades : OnSignal(k) \/ EntryEnds(k) \/ OnExit(k) \/ Finalize(k)
  BY <1>1, <1>4, CallFollows DEF FollowInv
<1>5. ASSUME NEW t \in Threads, AppendLine(t) PROVE FollowInv'
  <2>1. FollowTyped' /\ Fresh'
    BY <1>1, <1>2, <1>5 DEF AppendLine, ledger, FollowTyped
  <2> QED BY <1>1, <1>5, <2>1, LineFollows DEF FollowInv
<1>6. ASSUME NEW t \in Threads, PutRecord(t) PROVE FollowInv'
  <2>1. Fresh' /\ UNCHANGED <<up, stage, rows>>
    BY <1>2, <1>6 DEF PutRecord, ledger, storeHistory
  <2>2. queue' \in Seq(P)
    <3>1. writing[t].file \in Files /\ writing[t].rec \in Recs
      BY <1>1 DEF StoreInv, StoreTyped
    <3>2. PICK e \in P : e = [file |-> writing[t].file, rec |-> writing[t].rec]
      BY <1>3, <3>1
    <3>3. queue' = Append(queue, e)
      BY <1>6, <3>2 DEF PutRecord
    <3> QED BY <1>3, <3>2, <3>3
  <2> QED BY <1>1, <1>3, <1>6, <2>1, <2>2, PutFollows DEF FollowInv, FollowTyped
<1>7. CASE DbLoop
  <2>1. Fresh' /\ UNCHANGED <<up, stage>> /\ queue # <<>> /\ queue' = Tail(queue)
    BY <1>2, <1>7 DEF DbLoop, ledger
  <2>2. queue' \in Seq(P)
    BY <1>3, <2>1
  <2>3. rows' \in [Files -> [Trades -> Recs]]
    <3>1. 1 \in 1..Len(queue) /\ Head(queue) = queue[1]
      BY <1>3, <2>1
    <3>2. Head(queue).file \in Files /\ Head(queue).rec \in Recs
      BY <1>1, <3>1, QueueTyped
    <3>3. \/ rows' = rows
          \/ rows' = [rows EXCEPT ![Head(queue).file][Head(queue).rec.key] = Head(queue).rec]
      BY <1>7 DEF DbLoop
    <3> QED BY <1>1, <3>2, <3>3 DEF FollowTyped
  <2> QED BY <1>1, <1>3, <1>7, <2>1, <2>2, <2>3, DbFollows DEF FollowInv, FollowTyped
<1>8. CASE SyncAll
  <2>1. Fresh' /\ UNCHANGED <<stage, queue>> /\ up' = "on"
    BY <1>2, <1>8 DEF SyncAll, ledger
  <2> QED BY <1>1, <1>8, <2>1, SyncFollows DEF FollowInv, FollowTyped
<1>9. CASE StoreStart
  BY <1>1, <1>9, StartFollows DEF FollowInv
<1>10. CASE StoreCrash
  <2>1. Fresh' /\ UNCHANGED <<stage, rows>> /\ up' = "off" /\ queue' = <<>>
    BY <1>2, <1>10 DEF StoreCrash
  <2>2. <<>> \in Seq(P)
    BY EmptySeq
  <2> QED BY <1>1, <1>3, <1>10, <2>1, <2>2, CrashFollows DEF FollowInv, FollowTyped
<1>11. CASE UNCHANGED storeVars
  <2>1. UNCHANGED <<up, stage, virt, file, rows, writing, queue, begun, raced, synced>>
    BY <1>11 DEF storeVars, ledger, storeHistory
  <2> QED BY <1>1, <2>1, StillFollows DEF FollowInv, FollowTyped, Fresh
<1> QED BY <1>4, <1>5, <1>6, <1>7, <1>8, <1>9, <1>10, <1>11 DEF StoreNext

\* At first nothing has been begun.
LEMMA FollowStarts == StoreInit => FollowInv
<1> SUFFICES ASSUME StoreInit PROVE FollowInv
  OBVIOUS
<1>1. /\ up = "off" /\ stage = [k \in Trades |-> "unseen"] /\ virt = {}
      /\ file = [f \in Files |-> EmptyFile] /\ rows = [f \in Files |-> [k \in Trades |-> NoRow]]
      /\ writing = [t \in Threads |-> Nothing] /\ queue = <<>>
      /\ begun = [f \in Files |-> {}] /\ raced = {}
  BY DEF StoreInit
<1>2. \A t \in Threads : writing[t].at = "idle"
  BY <1>1 DEF Nothing
<1>3. FollowTyped
  <2>1. NoRow \in Recs
    BY DEF NoRow, Rec, Recs
  <2>2. <<>> \in Seq([file : Files, rec : Recs])
    BY EmptySeq
  <2> QED BY <1>1, <2>1, <2>2 DEF FollowTyped
<1>4. Fresh
  BY <1>1 DEF Fresh, Files
<1>5. Whole
  <2> SUFFICES ASSUME NEW f \in Files PROVE Distinct(Rd(f)) /\ ToSet(Rd(f)) \subseteq begun[f]
    BY DEF Whole
  <2>1. PICK s \in Seq(LinesOf(Recs)) : s = <<>>
    BY EmptySeq
  <2>2. Rd(f) = RecordsOf(s)
    BY <1>1, <2>1 DEF Rd, EmptyFile
  <2>3. PICK rs \in Seq(Recs) : rs = Rd(f) /\ rs = <<>>
    BY <2>1, <2>2, RecordsTyped, EmptySeq
  <2>4. Len(rs) = 0
    BY <2>3
  <2> QED BY <2>3, <2>4 DEF Distinct, ToSet
<1>6. Busy /\ Calm /\ Known /\ Alone
  BY <1>1, <1>2 DEF Busy, Calm, Known, Alone, IsPut, Idle
<1>7. PutsFollow /\ RowsFollow
  BY <1>1, <1>2 DEF PutsFollow, RowsFollow, LastPut, IsPut
<1> QED BY <1>3, <1>4, <1>5, <1>6, <1>7, StoreStarts DEF FollowInv, FollowCore

\* RowsFollowFile: once the tables have caught up, a row is the last line of
\* its key, or a record that the file has lost.
THEOREM RowsFollowFileHolds == StoreSpec => []RowsFollowFile
<1>1. FollowInv => RowsFollowFile
  <2> SUFFICES ASSUME FollowInv, up = "on", synced, queue = <<>>,
                      \A t \in Threads : writing[t].at # "put",
                      NEW f \in Files, NEW k \in Trades \ raced
               PROVE  rows[f][k] \in {LastLine(f, k)} \cup LostRecords(f)
    BY DEF RowsFollowFile
  <2>1. NonePut(f, k)
    BY DEF NonePut, IsPut
  <2>2. Kept(f, k, rows[f][k])
    BY <2>1 DEF FollowInv, FollowCore, RowsFollow
  <2>3. ReadJsonl(file[f]) = Rd(f)
    BY DEF ReadJsonl, RecordsOf, Reads, Rd
  <2>4. Gone(f) = LostRecords(f)
    BY <2>3 DEF Gone, LostRecords, Pend
  <2> QED BY <2>2, <2>4, LastLineIs DEF Kept
<1> QED BY <1>1, FollowStarts, FollowKeeps, PTL DEF StoreSpec

-----------------------------------------------------------------------------
(* The daily reconciliation.                                               *)

\* The first start lies behind, and is kept.
StartBehind ==
    /\ time \in Nat /\ (firstStart = None \/ firstStart \in Nat)
    /\ Running => firstStart \in Nat
ReconcileInv == StartBehind /\ NoDayForgotten

\* What the division by the length of a day needs of its multiples.
LEMMA Multiples ==
    ASSUME NEW D \in Nat \ {0}
    PROVE  /\ \A x, y \in Int : D * (x - y) = D * x - D * y
           /\ \A x \in Int : (x < 0 => D * x <= -D) /\ (x > 1 => D * x >= D + D)
<1>1. ASSUME NEW x \in Int, NEW y \in Int PROVE D * (x - y) = D * x - D * y
  OBVIOUS
<1>2. ASSUME NEW x \in Int, x < 0 PROVE D * x <= -D
  BY <1>2
<1>3. ASSUME NEW x \in Int, x > 1 PROVE D * x >= D + D
  <2>1. PICK n \in Nat : n = x - 2
    BY <1>3
  <2>2. x = n + 2 /\ D * n >= 0
    BY <2>1
  <2>3. D * (n + 2) = D * n + D * 2 /\ D * 2 = D + D
    OBVIOUS
  <2> QED BY <2>2, <2>3
<1> QED BY <1>1, <1>2, <1>3

\* A moment later it is the same day, or the next one has begun.
LEMMA DayTurns ==
    ASSUME NEW t \in Nat
    PROVE  /\ t \div DayLength \in Nat /\ (t + 1) \div DayLength \in Nat
           /\ IF (t + 1) % DayLength = 0 THEN (t + 1) \div DayLength = t \div DayLength + 1
              ELSE (t + 1) \div DayLength = t \div DayLength
<1>1. PICK D \in Nat \ {0} : D = DayLength
  BY ReconcileAssumption
<1>2. PICK q \in Int, r \in Int : /\ q = t \div D /\ t = D * q + r /\ 0 <= r /\ r < D
  <2>1. t = D * (t \div D) + (t % D) /\ t % D \in 0..(D - 1) /\ t \div D \in Int
    OBVIOUS
  <2> QED BY <2>1
<1>3. PICK p \in Int, s \in Int : /\ p = (t + 1) \div D /\ s = (t + 1) % D
                                  /\ t + 1 = D * p + s /\ 0 <= s /\ s < D
  <2>1. /\ t + 1 = D * ((t + 1) \div D) + ((t + 1) % D) /\ (t + 1) % D \in 0..(D - 1)
        /\ (t + 1) \div D \in Int
    OBVIOUS
  <2> QED BY <2>1
<1>4. q >= 0 /\ p >= 0
  <2>1. ASSUME NEW x \in Int, x < 0 PROVE D * x <= -D
    BY <2>1, Multiples
  <2> QED BY <2>1, <1>2, <1>3
<1>5. D * (p - q) = r + 1 - s
  <2>1. D * (p - q) = D * p - D * q
    BY Multiples
  <2> QED BY <1>2, <1>3, <2>1
<1>6. p - q \in {0, 1}
  <2>1. p - q < 0 => D * (p - q) <= -D
    BY Multiples
  <2>2. p - q > 1 => D * (p - q) >= D + D
    BY Multiples
  <2> QED BY <1>2, <1>3, <1>5, <2>1, <2>2
<1>7. CASE p - q = 0
  <2>1. r + 1 - s = 0
    BY <1>5, <1>7
  <2> QED BY <1>1, <1>2, <1>3, <1>4, <1>7, <2>1
<1>8. CASE p - q = 1
  <2>1. r + 1 - s = D
    BY <1>5, <1>8
  <2> QED BY <1>1, <1>2, <1>3, <1>4, <1>8, <2>1
<1> QED BY <1>6, <1>7, <1>8

\* NoDayForgotten: no restart of the process forgets a day that is over.
THEOREM NoDayForgottenHolds == ReconcileSpec => []NoDayForgotten
<1>1. ReconcileInit => ReconcileInv
  BY DEF ReconcileInit, ReconcileInv, StartBehind, NoDayForgotten, Running
<1>2. ReconcileInv /\ [ReconcileNext]_reconcileVars => ReconcileInv'
  <2> SUFFICES ASSUME ReconcileInv, [ReconcileNext]_reconcileVars PROVE ReconcileInv'
    OBVIOUS
  <2>0. /\ time \in Nat /\ (firstStart = None \/ firstStart \in Nat) /\ None \notin Nat
        /\ Running => firstStart \in Nat
    BY DEF ReconcileInv, StartBehind, None
  <2>1. CASE UNCHANGED reconcileVars
    BY <2>1 DEF ReconcileInv, StartBehind, NoDayForgotten, Running, Today, reconcileVars, files,
       process
  <2>2. CASE ProcessStart
    <3>1. /\ time' = time /\ pending' = MissingDays /\ reports' = reports
          /\ firstStart' = IF firstStart = None THEN time ELSE firstStart
      BY <2>2 DEF ProcessStart, FirstStart
    <3>2. firstStart' \in Nat /\ time' \in Nat
      BY <2>0, <3>1
    <3>3. \A d \in (firstStart' \div DayLength)..(Today' - 1) :
             \/ d \in pending' \cup failed' \cup {job'}
             \/ \E r \in reports' : r.day = d
      BY <3>1 DEF MissingDays, Today
    <3> QED BY <3>2, <3>3 DEF ReconcileInv, StartBehind, NoDayForgotten
  <2>3. CASE StartEnds
    <3>1. /\ time' = time /\ since' = since /\ since = None
          /\ firstStart' = IF firstStart = None THEN time ELSE firstStart
      BY <2>3 DEF StartEnds, FirstStart, process, Running
    <3> QED BY <2>0, <3>1 DEF ReconcileInv, StartBehind, NoDayForgotten, Running
  <2>4. CASE ProcessStop \/ ProcessDies
    BY <2>0, <2>4 DEF ProcessStop, ProcessDies, ReconcileInv, StartBehind, NoDayForgotten, Running
  <2>5. CASE Passes
    <3>1. /\ time' = time + 1 /\ firstStart' = firstStart /\ reports' = reports
          /\ since' = since /\ job' = job /\ failed' = failed
          /\ pending' = IF Running /\ (time' % DayLength) = 0 THEN pending \cup {Today} ELSE pending
      BY <2>5 DEF Passes, files
    <3>2. StartBehind'
      BY <2>0, <3>1 DEF StartBehind, Running
    <3>3. NoDayForgotten'
      <4> SUFFICES ASSUME Running', NEW d \in (firstStart' \div DayLength)..(Today' - 1)
                   PROVE  \/ d \in pending' \cup failed' \cup {job'}
                          \/ \E r \in reports' : r.day = d
        BY DEF NoDayForgotten
      <4>1. Running
        BY <3>1 DEF Running
      <4>2. /\ Today' = (time + 1) \div DayLength /\ Today = time \div DayLength
            /\ (firstStart' \div DayLength) = (firstStart \div DayLength)
        BY <3>1 DEF Today
      <4>3. CASE d \in (firstStart \div DayLength)..(Today - 1)
        BY <3>1, <4>1, <4>3 DEF ReconcileInv, NoDayForgotten
      <4>4. CASE d \notin (firstStart \div DayLength)..(Today - 1)
        <5>1. ((time + 1) % DayLength) = 0 /\ d = Today
          BY <2>0, <4>2, <4>4, DayTurns
        <5> QED BY <3>1, <4>1, <5>1
      <4> QED BY <4>3, <4>4
    <3> QED BY <3>2, <3>3 DEF ReconcileInv
  <2>6. CASE MaybeReconcile
    <3>1. PICK d : pending' = pending \ {d} /\ job' = d
      BY <2>6 DEF MaybeReconcile
    <3>2. UNCHANGED <<time, since, firstStart, reports, failed>>
      BY <2>6 DEF MaybeReconcile, files
    <3>3. pending \cup failed \cup {job} \subseteq pending' \cup failed' \cup {job', None}
      BY <2>6, <3>1, <3>2 DEF MaybeReconcile
    <3>4. StartBehind'
      BY <2>0, <3>2 DEF StartBehind, Running
    <3>5. Running' = Running /\ Today' = Today
      BY <3>2 DEF Running, Today
    <3>6. ASSUME Running, NEW e \in (firstStart \div DayLength)..(Today - 1) PROVE e # None
      <4>1. firstStart \div DayLength \in Nat /\ Today - 1 \in Int
        BY <2>0, <3>6, DayTurns DEF Today
      <4> QED BY <4>1 DEF None
    <3> QED BY <3>2, <3>3, <3>4, <3>5, <3>6 DEF ReconcileInv, NoDayForgotten
  <2>7. CASE JobEnds
    <3>1. UNCHANGED <<time, since, firstStart, pending>> /\ reports \subseteq reports'
      BY <2>7 DEF JobEnds
    <3>2. \A d \in failed \cup {job} : d \in failed' \/ \E r \in reports' : r.day = d
      <4>1. CASE failed' = failed \cup {job}
        BY <4>1
      <4>2. CASE /\ failed' = failed
                 /\ reports' = reports \cup {[day |-> job, uncovered |-> DayMoments(job) \ CoveredIn(job)]}
        <5>1. PICK r : r = [day |-> job, uncovered |-> DayMoments(job) \ CoveredIn(job)]
          OBVIOUS
        <5>2. r.day = job /\ r \in reports'
          BY <4>2, <5>1
        <5> QED BY <4>2, <5>2
      <4> QED BY <2>7, <4>1, <4>2 DEF JobEnds
    <3>3. StartBehind'
      BY <2>0, <3>1 DEF StartBehind, Running
    <3>4. Running' = Running /\ Today' = Today
      BY <3>1 DEF Running, Today
    <3> QED BY <3>1, <3>2, <3>3, <3>4 DEF ReconcileInv, NoDayForgotten
  <2> QED BY <2>1, <2>2, <2>3, <2>4, <2>5, <2>6, <2>7 DEF ReconcileNext
<1>3. ReconcileInv => NoDayForgotten
  BY DEF ReconcileInv
<1> QED BY <1>1, <1>2, <1>3, PTL DEF ReconcileSpec

-----------------------------------------------------------------------------
(* The daily reconciliation: what coverage tells.                          *)

\* The events, and what coverage makes of them: the start and stop lines.
EventRecs == [what : {"start", "stop", "alert"}, at : Int]
EventFiles ==
    {F \in [lines : Seq(LinesOf(EventRecs)), tail : {"end", "cut", "bare"}, decodes : BOOLEAN] :
        F.tail # "end" => F.lines # <<>>}
Marking(e) == e.what \in {"start", "stop"}
Flagged(es) == [i \in 1..Len(es) |-> [good |-> Marking(es[i]), rec |-> es[i]]]
MarksIn(F) == Marks(RecordsOf(F.lines))

\* They are taken like the lines that can be parsed.
LEMMA MarksAre ==
    ASSUME NEW es \in Seq(EventRecs)
    PROVE  /\ Flagged(es) \in Seq(LinesOf(EventRecs)) /\ Len(Flagged(es)) = Len(es)
           /\ \A i \in 1..Len(es) : Flagged(es)[i] = [good |-> Marking(es[i]), rec |-> es[i]]
           /\ Marks(es) = RecordsOf(Flagged(es))
<1> DEFINE Takes(g) == g = [n \in 0..Len(es) |->
                              IF n = 0 THEN <<>>
                              ELSE IF es[n].what \in {"start", "stop"} THEN Append(g[n - 1], es[n])
                              ELSE g[n - 1]]
<1>1. PICK N \in Nat : N = Len(es)
  OBVIOUS
<1>2. /\ Flagged(es) \in Seq(LinesOf(EventRecs)) /\ Len(Flagged(es)) = N
      /\ \A i \in 1..N : Flagged(es)[i] = [good |-> Marking(es[i]), rec |-> es[i]]
  <2>1. \A i \in 1..N : es[i] \in EventRecs
    BY <1>1
  <2>2. \A i \in 1..N : [good |-> Marking(es[i]), rec |-> es[i]] \in LinesOf(EventRecs)
    BY <2>1 DEF LinesOf, Marking
  <2> QED BY <1>1, <2>2 DEF Flagged
<1>3. PICK s : s = Flagged(es)
  OBVIOUS
<1>4. ASSUME NEW g PROVE Takes(g) <=> Reads(s, N, g)
  <2>1. \A n \in 1..N : s[n].rec = es[n] /\ (s[n].good <=> es[n].what \in {"start", "stop"})
    <3> SUFFICES ASSUME NEW n \in 1..N
                 PROVE  s[n].rec = es[n] /\ (s[n].good <=> es[n].what \in {"start", "stop"})
      OBVIOUS
    <3>1. s[n] = [good |-> Marking(es[n]), rec |-> es[n]]
      BY <1>2, <1>3
    <3>2. s[n].rec = es[n] /\ (s[n].good <=> Marking(es[n]))
      BY <3>1
    <3> QED BY <3>2 DEF Marking
  <2>2. \A n \in 0..N : (IF n = 0 THEN <<>>
                         ELSE IF es[n].what \in {"start", "stop"} THEN Append(g[n - 1], es[n])
                         ELSE g[n - 1])
                        = (IF n = 0 THEN <<>>
                           ELSE IF s[n].good THEN Append(g[n - 1], s[n].rec) ELSE g[n - 1])
    BY <2>1
  <2> QED BY <1>1, <2>2 DEF Reads
<1>5. Marks(es) = (CHOOSE g : Takes(g))[N]
  BY <1>1 DEF Marks
<1>6. \E g : Takes(g)
  <2> HIDE DEF Takes
  <2> QED BY <1>4, ReadsExists
<1> HIDE DEF Takes
<1>7. PICK g : Takes(g) /\ Marks(es) = g[N]
  BY <1>5, <1>6
<1>8. PICK h : Reads(s, N, h) /\ RecordsOf(s) = h[N]
  BY <1>2, <1>3, ReadsExists DEF RecordsOf
<1>9. \A n \in 0..N : g[n] = h[n]
  <2>1. N <= N /\ \A i \in 1..N : s[i] = s[i]
    OBVIOUS
  <2>2. Reads(s, N, g)
    BY <1>4, <1>7
  <2> QED BY <1>8, <2>1, <2>2, ReadsAgree
<1>10. N \in 0..N
  OBVIOUS
<1> QED BY <1>1, <1>2, <1>3, <1>7, <1>8, <1>9, <1>10

\* An event more is a mark more, if it is one.
LEMMA MarksNext ==
    ASSUME NEW es \in Seq(EventRecs), NEW e \in EventRecs
    PROVE  /\ Marks(es) \in Seq(EventRecs) /\ (es = <<>> => Marks(es) = <<>>)
           /\ Marking(e) => Marks(Append(es, e)) = Append(Marks(es), e)
           /\ ~Marking(e) => Marks(Append(es, e)) = Marks(es)
<1>1. PICK R : R = LinesOf(EventRecs)
  OBVIOUS
<1>2. PICK u \in Seq(EventRecs) :
          /\ u = Append(es, e) /\ Len(u) = Len(es) + 1 /\ Len(es) \in Nat
          /\ u[Len(es) + 1] = e /\ \A i \in 1..Len(es) : u[i] = es[i]
  <2>1. /\ Append(es, e) \in Seq(EventRecs)
        /\ Len(Append(es, e)) = Len(es) + 1 /\ Len(es) \in Nat
        /\ Append(es, e)[Len(es) + 1] = e /\ \A i \in 1..Len(es) : Append(es, e)[i] = es[i]
    BY AppendSet
  <2> QED BY <2>1
<1>3. PICK n \in Nat : n = Len(es) /\ Len(u) = n + 1
  BY <1>2
<1>4. PICK l \in R : l = [good |-> Marking(e), rec |-> e] /\ l.rec = e /\ (l.good <=> Marking(e))
  <2>1. [good |-> Marking(e), rec |-> e] \in R
    BY <1>1 DEF LinesOf, Marking
  <2> QED BY <2>1
<1>5. PICK s \in Seq(R) : /\ s = Flagged(es) /\ Len(s) = n
                          /\ \A i \in 1..n : s[i] = [good |-> Marking(es[i]), rec |-> es[i]]
  BY <1>1, <1>3, MarksAre
<1>6. PICK v \in Seq(R) : /\ v = Flagged(u) /\ Len(v) = n + 1
                          /\ \A i \in 1..n + 1 : v[i] = [good |-> Marking(u[i]), rec |-> u[i]]
  BY <1>1, <1>3, MarksAre
<1>7. v = Append(s, l)
  <2>1. PICK w \in Seq(R) : /\ w = Append(s, l) /\ Len(w) = n + 1
                            /\ w[n + 1] = l /\ \A i \in 1..n : w[i] = s[i]
    <3>1. /\ Append(s, l) \in Seq(R) /\ Len(Append(s, l)) = n + 1
          /\ Append(s, l)[n + 1] = l /\ \A i \in 1..n : Append(s, l)[i] = s[i]
      BY <1>5, AppendSet
    <3> QED BY <3>1
  <2>2. \A i \in 1..n : u[i] = es[i] /\ u[n + 1] = e
    BY <1>2, <1>3
  <2>3. ASSUME NEW i \in 1..n PROVE v[i] = w[i]
    <3>1. /\ w[i] = [good |-> Marking(es[i]), rec |-> es[i]] /\ u[i] = es[i]
          /\ i \in 1..n + 1
      BY <1>5, <2>1, <2>2
    <3>2. v[i] = [good |-> Marking(u[i]), rec |-> u[i]]
      BY <1>6, <3>1
    <3> QED BY <3>1, <3>2
  <2>4. v[n + 1] = w[n + 1]
    BY <1>2, <1>3, <1>4, <1>6, <2>1
  <2>5. ASSUME NEW i \in 1..n + 1 PROVE v[i] = w[i]
    <3>1. i \in 1..n \/ i = n + 1
      OBVIOUS
    <3> QED BY <2>3, <2>4, <3>1
  <2> QED BY <1>6, <2>1, <2>5, SeqEqual
<1>8. /\ l.good => RecordsOf(v) = Append(RecordsOf(s), l.rec)
      /\ ~l.good => RecordsOf(v) = RecordsOf(s)
  BY <1>1, <1>7, RecordsNext
<1>9. RecordsOf(s) \in Seq(EventRecs) /\ (s = <<>> => RecordsOf(s) = <<>>)
  BY <1>1, RecordsTyped
<1>10. es = <<>> => s = <<>>
  BY <1>3, <1>5, EmptySeq
<1>11. Marks(es) = RecordsOf(s) /\ Marks(u) = RecordsOf(v)
  BY <1>5, <1>6, MarksAre
<1> QED BY <1>2, <1>4, <1>8, <1>9, <1>10, <1>11

\* A moment that a sequence of marks covers: a start lies its warm-up behind,
\* and what follows it lies ahead.
Covers(m, t) ==
    \E i \in 1..Len(m) : /\ m[i].what = "start" /\ t >= m[i].at + Warm
                         /\ \A j \in 1..Len(m) : j > i => t < m[j].at

\* What a mark more changes.
LEMMA CoversNext ==
    ASSUME NEW m \in Seq(EventRecs), NEW e \in EventRecs, NEW t \in Int
    PROVE  Covers(Append(m, e), t) <=> \/ Covers(m, t) /\ t < e.at
                                       \/ e.what = "start" /\ t >= e.at + Warm
<1>1. PICK n \in Nat, u \in Seq(EventRecs) :
          /\ n = Len(m) /\ u = Append(m, e) /\ Len(u) = n + 1
          /\ u[n + 1] = e /\ \A i \in 1..n : u[i] = m[i]
  <2>1. /\ Append(m, e) \in Seq(EventRecs) /\ Len(m) \in Nat /\ Len(Append(m, e)) = Len(m) + 1
        /\ Append(m, e)[Len(m) + 1] = e /\ \A i \in 1..Len(m) : Append(m, e)[i] = m[i]
    BY AppendSet
  <2> QED BY <2>1
<1>2. ASSUME Covers(u, t)
      PROVE  \/ Covers(m, t) /\ t < e.at
             \/ e.what = "start" /\ t >= e.at + Warm
  <2>1. PICK i \in 1..n + 1 : /\ u[i].what = "start" /\ t >= u[i].at + Warm
                              /\ \A j \in 1..n + 1 : j > i => t < u[j].at
    BY <1>1, <1>2 DEF Covers
  <2>2. CASE i = n + 1
    BY <1>1, <2>1, <2>2
  <2>3. CASE i \in 1..n
    <3>1. m[i].what = "start" /\ t >= m[i].at + Warm
      BY <1>1, <2>1, <2>3
    <3>2. ASSUME NEW j \in 1..n, j > i PROVE t < m[j].at
      <4>1. j \in 1..n + 1 /\ u[j] = m[j]
        BY <1>1
      <4> QED BY <2>1, <3>2, <4>1
    <3>3. t < e.at
      <4>1. n + 1 \in 1..n + 1 /\ n + 1 > i
        BY <2>3
      <4>2. t < u[n + 1].at
        BY <2>1, <4>1
      <4>3. u[n + 1] = e
        BY <1>1
      <4> QED BY <4>2, <4>3
    <3>4. Covers(m, t)
      BY <1>1, <2>3, <3>1, <3>2 DEF Covers
    <3> QED BY <3>3, <3>4
  <2>4. i \in 1..n \/ i = n + 1
    OBVIOUS
  <2> QED BY <2>2, <2>3, <2>4
<1>3. ASSUME Covers(m, t), t < e.at PROVE Covers(u, t)
  <2>1. PICK i \in 1..n : /\ m[i].what = "start" /\ t >= m[i].at + Warm
                          /\ \A j \in 1..n : j > i => t < m[j].at
    BY <1>1, <1>3 DEF Covers
  <2>2. i \in 1..n + 1 /\ u[i] = m[i]
    BY <1>1, <2>1
  <2>3. ASSUME NEW j \in 1..n + 1, j > i PROVE t < u[j].at
    <3>1. CASE j = n + 1
      BY <1>1, <1>3, <3>1
    <3>2. CASE j # n + 1
      <4>1. j \in 1..n /\ u[j] = m[j]
        BY <1>1, <3>2
      <4> QED BY <2>1, <2>3, <4>1
    <3> QED BY <3>1, <3>2
  <2> QED BY <1>1, <2>1, <2>2, <2>3 DEF Covers
<1>4. ASSUME e.what = "start", t >= e.at + Warm PROVE Covers(u, t)
  <2>1. n + 1 \in 1..n + 1 /\ \A j \in 1..n + 1 : ~(j > n + 1)
    OBVIOUS
  <2> QED BY <1>1, <1>4, <2>1 DEF Covers
<1> QED BY <1>1, <1>2, <1>3, <1>4

\* The marks come in the order of their times, and none is of the future.
InOrder(m) ==
    \A i \in 1..Len(m) : /\ m[i].at <= time
                         /\ \A j \in 1..Len(m) : i < j => m[i].at <= m[j].at
\* Outside the blind moments the marks of a file cover those so far at which
\* the process could decide.
Tells(F) ==
    \A t \in Int : (t % 2) = 0 /\ t <= time /\ t \notin blind =>
        (t \in able <=> Covers(MarksIn(F), t))
\* A mark that the next line would spoil has had only blind moments since.
Loose(F) ==
    F.tail # "end" /\ Last(F.lines).good /\ Marking(Last(F.lines).rec) =>
        \A t \in Int : (t % 2) = 0 /\ t >= Last(F.lines).rec.at /\ t <= time => t \in blind
EventsInv(F) == F \in EventFiles /\ InOrder(MarksIn(F)) /\ Tells(F) /\ Loose(F)

\* Two files with the same marks tell the same.
LEMMA SameMarks ==
    ASSUME NEW F, EventsInv(F), NEW G \in EventFiles, MarksIn(G) = MarksIn(F),
           G.tail = "end" \/ ~(Last(G.lines).good /\ Marking(Last(G.lines).rec))
    PROVE  EventsInv(G)
  BY DEF EventsInv, Tells, Loose

\* So do they when the last mark is gone that could be lost.
LEMMA MarkLost ==
    ASSUME NEW F, EventsInv(F), F.tail # "end", NEW G \in EventFiles, time \in Nat,
           G.lines = Spoil(F.lines)
    PROVE  EventsInv(G)
<1>1. PICK R : R = LinesOf(EventRecs)
  OBVIOUS
<1>2. PICK u \in Seq(R), l \in R, k \in R :
          /\ F.lines = Append(u, l) /\ G.lines = Append(u, k) /\ ~k.good
          /\ l = Last(F.lines)
  <2>1. F.lines \in Seq(R) /\ F.lines # <<>>
    BY <1>1 DEF EventsInv, EventFiles
  <2>2. Front(F.lines) \in Seq(R) /\ Last(F.lines) \in R
        /\ F.lines = Append(Front(F.lines), Last(F.lines))
    BY <2>1, LastOfLines
  <2>3. Spoilt(Last(F.lines)) \in R /\ ~Spoilt(Last(F.lines)).good
    BY <1>1, <2>2 DEF Spoilt, LinesOf
  <2> QED BY <2>2, <2>3 DEF Spoil
<1>3. ~Last(G.lines).good
  <2>1. Append(u, k) # <<>> /\ Last(Append(u, k)) = k
    BY AppendSet DEF Last
  <2> QED BY <1>2, <2>1
<1>4. PICK es \in Seq(EventRecs) : es = RecordsOf(u) /\ RecordsOf(G.lines) = es
  <2>1. RecordsOf(u) \in Seq(EventRecs)
    BY <1>1, RecordsTyped
  <2>2. RecordsOf(Append(u, k)) = RecordsOf(u)
    BY <1>1, <1>2, RecordsNext
  <2> QED BY <1>2, <2>1, <2>2
<1>5. l.rec \in EventRecs /\ l.rec.at \in Int
  BY <1>1 DEF LinesOf, EventRecs
<1>6. CASE l.good /\ Marking(l.rec)
  <2>1. RecordsOf(F.lines) = Append(es, l.rec)
    BY <1>1, <1>2, <1>4, <1>6, RecordsNext
  <2>2. PICK m \in Seq(EventRecs), w \in Seq(EventRecs) :
            m = MarksIn(G) /\ w = MarksIn(F) /\ w = Append(m, l.rec)
    <3>1. Marks(es) \in Seq(EventRecs) /\ Marks(Append(es, l.rec)) = Append(Marks(es), l.rec)
      BY <1>5, <1>6, MarksNext
    <3>2. Append(Marks(es), l.rec) \in Seq(EventRecs)
      BY <1>5, <3>1
    <3> QED BY <1>4, <2>1, <3>1, <3>2 DEF MarksIn
  <2>3. /\ Len(m) \in Nat /\ Len(w) = Len(m) + 1 /\ w[Len(m) + 1] = l.rec
        /\ \A i \in 1..Len(m) : w[i] = m[i]
    BY <1>5, <2>2, AppendSet
  <2>4. InOrder(m)
    <3> SUFFICES ASSUME NEW i \in 1..Len(m)
                 PROVE  /\ m[i].at <= time
                        /\ \A j \in 1..Len(m) : i < j => m[i].at <= m[j].at
      BY DEF InOrder
    <3>1. InOrder(w)
      BY <2>2 DEF EventsInv
    <3>2. \A j \in 1..Len(m) : j \in 1..Len(w) /\ w[j] = m[j]
      BY <2>3
    <3> QED BY <3>1, <3>2 DEF InOrder
  <2>5. ASSUME NEW t \in Int, (t % 2) = 0, t <= time, t \notin blind
        PROVE  t \in able <=> Covers(m, t)
    <3>1. t < l.rec.at
      <4>1. \A x \in Int : (x % 2) = 0 /\ x >= l.rec.at /\ x <= time => x \in blind
        BY <1>2, <1>6 DEF EventsInv, Loose
      <4>2. ~(t >= l.rec.at)
        BY <2>5, <4>1
      <4> QED BY <1>5, <4>2
    <3>2. Covers(w, t) <=> \/ Covers(m, t) /\ t < l.rec.at
                           \/ l.rec.what = "start" /\ t >= l.rec.at + Warm
      BY <1>5, <2>2, CoversNext
    <3>3. ~(t >= l.rec.at + Warm)
      BY <1>5, <3>1, ReconcileAssumption
    <3>4. t \in able <=> Covers(w, t)
      BY <2>2, <2>5 DEF EventsInv, Tells
    <3> QED BY <3>1, <3>2, <3>3, <3>4
  <2> QED BY <1>3, <2>2, <2>4, <2>5 DEF EventsInv, Tells, Loose
<1>7. CASE ~(l.good /\ Marking(l.rec))
  <2>1. MarksIn(G) = MarksIn(F)
    <3>1. CASE ~l.good
      BY <1>1, <1>2, <1>4, <3>1, RecordsNext DEF MarksIn
    <3>2. CASE l.good
      <4>1. RecordsOf(F.lines) = Append(es, l.rec)
        BY <1>1, <1>2, <1>4, <3>2, RecordsNext
      <4> QED BY <1>4, <1>5, <1>7, <3>2, <4>1, MarksNext DEF MarksIn
    <3> QED BY <3>1, <3>2
  <2> QED BY <1>3, <2>1, SameMarks
<1> QED BY <1>6, <1>7

\* A line that is added now changes nothing that has been, and decides what
\* comes.
LEMMA MarkAdded ==
    ASSUME NEW F, EventsInv(F), NEW G \in EventFiles, NEW r \in EventRecs,
           time \in Nat, (time % 2) = 1, r.at = time, G.lines = Append(F.lines, Line(r))
    PROVE  /\ EventsInv(G)
           /\ Marking(r) => \A t \in Int : t > time =>
                  (Covers(MarksIn(G), t) <=> r.what = "start" /\ t >= time + Warm)
<1>1. PICK R : R = LinesOf(EventRecs)
  OBVIOUS
<1>2. PICK l \in R : l = Line(r) /\ l.good /\ l.rec = r
  <2>1. Line(r) \in R /\ Line(r).good /\ Line(r).rec = r
    BY <1>1 DEF Line, LinesOf
  <2> QED BY <2>1
<1>3. F.lines \in Seq(R)
  BY <1>1 DEF EventsInv, EventFiles
<1>4. PICK es \in Seq(EventRecs) : /\ es = RecordsOf(F.lines)
                                   /\ RecordsOf(G.lines) = Append(es, r)
  <2>1. RecordsOf(F.lines) \in Seq(EventRecs)
    BY <1>1, <1>3, RecordsTyped
  <2>2. RecordsOf(Append(F.lines, l)) = Append(RecordsOf(F.lines), l.rec)
    BY <1>1, <1>2, <1>3, RecordsNext
  <2> QED BY <1>2, <2>1, <2>2
<1>5. Last(G.lines) = l
  <2>1. Last(Append(F.lines, l)) = l
    BY <1>3, AppendSet DEF Last
  <2> QED BY <1>2, <2>1
<1>6. Loose(G)
  <2>1. ASSUME NEW t \in Int, (t % 2) = 0, t >= time, t <= time PROVE FALSE
    BY <2>1
  <2> QED BY <1>2, <1>5, <2>1 DEF Loose
<1>7. CASE ~Marking(r)
  <2>1. MarksIn(G) = MarksIn(F)
    BY <1>4, <1>7, MarksNext DEF MarksIn
  <2> QED BY <1>6, <1>7, <2>1 DEF EventsInv, Tells
<1>8. CASE Marking(r)
  <2>1. PICK m \in Seq(EventRecs), w \in Seq(EventRecs) :
            m = MarksIn(F) /\ w = MarksIn(G) /\ w = Append(m, r)
    <3>1. Marks(es) \in Seq(EventRecs) /\ Marks(Append(es, r)) = Append(Marks(es), r)
      BY <1>8, MarksNext
    <3>2. Append(Marks(es), r) \in Seq(EventRecs)
      BY <3>1
    <3> QED BY <1>4, <3>1, <3>2 DEF MarksIn
  <2>2. PICK n \in Nat : /\ n = Len(m) /\ Len(w) = n + 1 /\ w[n + 1] = r
                         /\ \A i \in 1..n : w[i] = m[i]
    BY <2>1, AppendSet
  <2>3. InOrder(w)
    <3>1. ASSUME NEW i \in 1..n + 1, NEW j \in 1..n + 1, i < j
          PROVE  w[i].at <= w[j].at
      <4>1. i \in 1..n /\ w[i] = m[i] /\ (j \in 1..n \/ j = n + 1)
        BY <2>2, <3>1
      <4>2. m[i].at <= time
        BY <2>1, <2>2, <4>1 DEF EventsInv, InOrder
      <4>3. CASE j = n + 1
        BY <2>2, <4>1, <4>2, <4>3
      <4>4. CASE j \in 1..n
        <5>1. w[j] = m[j] /\ m[i].at <= m[j].at
          BY <2>1, <2>2, <3>1, <4>1, <4>4 DEF EventsInv, InOrder
        <5> QED BY <4>1, <5>1
      <4> QED BY <4>1, <4>3, <4>4
    <3>2. ASSUME NEW i \in 1..n + 1 PROVE w[i].at <= time
      <4>1. i \in 1..n \/ i = n + 1
        OBVIOUS
      <4>2. CASE i = n + 1
        BY <2>2, <4>2
      <4>3. CASE i \in 1..n
        BY <2>1, <2>2, <4>3 DEF EventsInv, InOrder
      <4> QED BY <4>1, <4>2, <4>3
    <3> QED BY <2>2, <3>1, <3>2 DEF InOrder
  <2>4. ASSUME NEW t \in Int
        PROVE  Covers(w, t) <=> \/ Covers(m, t) /\ t < time
                                \/ r.what = "start" /\ t >= time + Warm
    BY <2>1, CoversNext
  <2>5. ASSUME NEW t \in Int, (t % 2) = 0, t <= time, t \notin blind
        PROVE  t \in able <=> Covers(w, t)
    <3>1. t < time
      BY <2>5
    <3>2. ~(t >= time + Warm)
      BY <3>1, ReconcileAssumption
    <3>3. t \in able <=> Covers(m, t)
      BY <2>1, <2>5 DEF EventsInv, Tells
    <3> QED BY <2>4, <3>1, <3>2, <3>3
  <2>6. EventsInv(G)
    BY <1>6, <2>1, <2>3, <2>5 DEF EventsInv, Tells
  <2> QED BY <2>1, <2>4, <2>6
<1> QED BY <1>7, <1>8

\* An event file made of its parts.
LEMMA EventFileOf ==
    ASSUME NEW s \in Seq(LinesOf(EventRecs)), NEW w \in {"end", "cut", "bare"},
           NEW d \in BOOLEAN, w # "end" => s # <<>>
    PROVE  LET G == [lines |-> s, tail |-> w, decodes |-> d] IN
           G.lines = s /\ G.tail = w /\ G \in EventFiles
  BY DEF EventFiles

\* What is written to the events, or left of it when the process dies.
LEMMA EventWritten ==
    ASSUME NEW F, EventsInv(F), NEW r \in EventRecs, NEW G,
           time \in Nat, (time % 2) = 1, r.at = time,
           G = AddLine(F, r) \/ G \in TornFiles(F, r)
    PROVE  /\ EventsInv(G) /\ (G = AddLine(F, r) => G.tail = "end")
           /\ G = AddLine(F, r) /\ F.tail = "end" /\ Marking(r) =>
                  \A t \in Int : t > time =>
                      (Covers(MarksIn(G), t) <=> r.what = "start" /\ t >= time + Warm)
<1>1. PICK R : R = LinesOf(EventRecs)
  OBVIOUS
<1>2. /\ F \in EventFiles /\ F.lines \in Seq(R) /\ F.tail \in {"end", "cut", "bare"}
      /\ F.tail # "end" => F.lines # <<>>
      /\ F = [lines |-> F.lines, tail |-> F.tail, decodes |-> F.decodes] /\ F.decodes \in BOOLEAN
  BY <1>1 DEF EventsInv, EventFiles
<1>3. PICK M : M = AddLine(F, r)
  OBVIOUS
<1>4. \/ G = M \/ G = [M EXCEPT !.tail = IF F.tail = "end" THEN "bare" ELSE "cut"] \/ G = F
      \/ \E d \in BOOLEAN : G = [lines |-> Spoil(M.lines), tail |-> "cut", decodes |-> d]
  BY <1>2, <1>3 DEF TornFiles, Spoil
<1>5. CASE F.tail = "end"
  <2>1. PICK s \in Seq(R) : /\ s = Append(F.lines, Line(r)) /\ s # <<>> /\ Last(s) = Line(r)
                            /\ Spoil(s) = Append(F.lines, Spoilt(Line(r)))
                            /\ Spoil(s) \in Seq(R) /\ Spoil(s) # <<>> /\ ~Last(Spoil(s)).good
    <3>1. PICK s \in Seq(R) : /\ s = Append(F.lines, Line(r)) /\ s # <<>> /\ Last(s) = Line(r)
                              /\ Spoil(s) = Append(F.lines, Spoilt(Line(r)))
      BY <1>1, <1>2, SpoiltLines
    <3>2. Spoil(s) \in Seq(R) /\ Spoil(s) # <<>> /\ ~Last(Spoil(s)).good
      BY <1>1, <3>1, SpoiltLines
    <3> QED BY <3>1, <3>2
  <2>2. M = [lines |-> s, tail |-> "end", decodes |-> F.decodes]
    <3>1. M = [F EXCEPT !.lines = s]
      BY <1>3, <1>5, <2>1 DEF AddLine
    <3> QED BY <1>2, <1>5, <3>1
  <2>3. ASSUME NEW w \in {"end", "cut", "bare"}, NEW d \in BOOLEAN,
               G = [lines |-> s, tail |-> w, decodes |-> d]
        PROVE  /\ EventsInv(G) /\ G.tail = w
               /\ Marking(r) => \A t \in Int : t > time =>
                      (Covers(MarksIn(G), t) <=> r.what = "start" /\ t >= time + Warm)
    <3>1. G \in EventFiles /\ G.lines = s /\ G.tail = w
      BY <1>1, <2>1, <2>3, EventFileOf
    <3> QED BY <2>1, <3>1, MarkAdded
  <2>4. ASSUME NEW d \in BOOLEAN, G = [lines |-> Spoil(s), tail |-> "cut", decodes |-> d]
        PROVE  EventsInv(G) /\ G.tail = "cut"
    <3>1. G \in EventFiles /\ G.lines = Spoil(s) /\ G.tail = "cut"
      BY <1>1, <2>1, <2>4, EventFileOf
    <3>2. Spoilt(Line(r)) \in R /\ ~Spoilt(Line(r)).good
      BY <1>1 DEF Spoilt, Line, LinesOf
    <3>3. RecordsOf(G.lines) = RecordsOf(F.lines)
      BY <1>1, <1>2, <2>1, <3>1, <3>2, RecordsNext
    <3> QED BY <2>1, <3>1, <3>3, SameMarks DEF MarksIn
  <2>5. /\ [M EXCEPT !.tail = "bare"] = [lines |-> s, tail |-> "bare", decodes |-> F.decodes]
        /\ M.lines = s /\ M.tail = "end"
    BY <2>2
  <2>6. G # M => ~(G = AddLine(F, r))
    BY <1>3
  <2>7. CASE G = M
    BY <1>2, <1>3, <2>2, <2>3, <2>7
  <2>8. CASE G # M /\ G = [M EXCEPT !.tail = "bare"]
    BY <1>2, <2>3, <2>5, <2>6, <2>8
  <2>9. CASE /\ G # M
             /\ \E d \in BOOLEAN : G = [lines |-> Spoil(M.lines), tail |-> "cut", decodes |-> d]
    <3>1. \E d \in BOOLEAN : G = [lines |-> Spoil(s), tail |-> "cut", decodes |-> d]
      BY <1>2, <2>5, <2>9
    <3> QED BY <2>4, <2>6, <2>9, <3>1
  <2>10. CASE G # M /\ G = F
    BY <2>6, <2>10
  <2> QED BY <1>4, <1>5, <2>7, <2>8, <2>9, <2>10
<1>6. CASE F.tail # "end"
  <2>1. PICK s \in Seq(R) : /\ s = Spoil(F.lines) /\ s # <<>> /\ Spoil(s) = s
    BY <1>1, <1>2, <1>6, SpoiltLines
  <2>2. M = [lines |-> s, tail |-> "end", decodes |-> F.decodes]
    BY <1>3, <1>6, <2>1 DEF AddLine, Spoil
  <2>3. ASSUME NEW w \in {"end", "cut", "bare"}, NEW d \in BOOLEAN,
               G = [lines |-> s, tail |-> w, decodes |-> d]
        PROVE  EventsInv(G) /\ G.tail = w
    <3>1. G \in EventFiles /\ G.lines = s /\ G.tail = w
      BY <1>1, <2>1, <2>3, EventFileOf
    <3> QED BY <1>6, <2>1, <3>1, MarkLost
  <2>4. /\ [M EXCEPT !.tail = "cut"] = [lines |-> s, tail |-> "cut", decodes |-> F.decodes]
        /\ M.lines = s
    BY <2>2
  <2>5. \/ G = F
        \/ \E w \in {"end", "cut", "bare"}, d \in BOOLEAN : G = [lines |-> s, tail |-> w, decodes |-> d]
    BY <1>2, <1>4, <1>6, <2>1, <2>2, <2>4
  <2>6. G = AddLine(F, r) => G = [lines |-> s, tail |-> "end", decodes |-> F.decodes]
    BY <1>3, <2>2
  <2> QED BY <1>2, <1>6, <2>3, <2>5, <2>6
<1> QED BY <1>5, <1>6

\* While the starts and ends leave their lines, the marks tell what is to come.
Foresees ==
    ~astray => /\ events.tail = "end"
               /\ \A t \in Int : t > time =>
                      (Covers(MarksIn(events), t) <=> Running /\ t >= since + Warm)
\* Days with a subprocess or a report are over.
Over(d) == d \in Int /\ (d + 1) * DayLength <= time
CoverInv ==
    /\ time \in Nat /\ since \in Int /\ EventsInv(events) /\ Foresees
    /\ able \subseteq Int /\ \A t \in able : t <= time
    /\ pending \subseteq Int /\ (job = None \/ Over(job)) /\ \A r \in reports : Over(r.day)
    /\ CoverageIsTrue

\* What is written says what, and when.
LEMMA EventIs ==
    ASSUME time \in Nat, NEW w \in {"start", "stop", "alert"}
    PROVE  Event(w) \in EventRecs /\ Event(w).what = w /\ Event(w).at = time
  BY DEF Event, EventRecs

\* The marks are events.
LEMMA MarksTyped ==
    ASSUME NEW F, EventsInv(F)
    PROVE  /\ ReadJsonl(F) = RecordsOf(F.lines)
           /\ MarksIn(F) \in Seq(EventRecs) /\ Len(MarksIn(F)) \in Nat
           /\ DOMAIN MarksIn(F) = 1..Len(MarksIn(F))
           /\ \A i \in 1..Len(MarksIn(F)) : MarksIn(F)[i].at \in Int
<1>1. PICK es \in Seq(EventRecs) : es = RecordsOf(F.lines)
  <2>1. RecordsOf(F.lines) \in Seq(EventRecs)
    BY RecordsTyped DEF EventsInv, EventFiles
  <2> QED BY <2>1
<1>2. ReadJsonl(F) = RecordsOf(F.lines)
  BY DEF ReadJsonl, RecordsOf, Reads
<1>3. PICK m \in Seq(EventRecs) : m = MarksIn(F)
  <2>1. [what |-> "start", at |-> 0] \in EventRecs
    BY DEF EventRecs
  <2>2. Marks(es) \in Seq(EventRecs)
    BY <2>1, MarksNext
  <2> QED BY <1>1, <2>2 DEF MarksIn
<1>4. \A i \in 1..Len(m) : m[i] \in EventRecs
  OBVIOUS
<1> QED BY <1>2, <1>3, <1>4 DEF EventRecs

\* The moments of a day are even and before its end.
LEMMA DayMoment ==
    ASSUME NEW d \in Int, NEW t \in DayMoments(d)
    PROVE  /\ t \in Int /\ (t % 2) = 0 /\ t < (d + 1) * DayLength
           /\ (d + 1) * DayLength \in Int
<1>1. t \in Int /\ (t % 2) = 0 /\ t <= DayLength * (d + 1) - 1
  BY ReconcileAssumption DEF DayMoments
<1>2. DayLength * (d + 1) = (d + 1) * DayLength /\ (d + 1) * DayLength \in Int
  BY ReconcileAssumption
<1> QED BY <1>1, <1>2

\* A report counts as covered what the marks cover.
LEMMA CoveredMoments ==
    ASSUME EventsInv(events), NEW d \in Int, NEW t \in DayMoments(d)
    PROVE  t \in CoveredIn(d) <=> Covers(MarksIn(events), t)
<1>1. PICK m : m = MarksIn(events) /\ m = Marks(ReadJsonl(events))
  BY MarksTyped DEF MarksIn
<1>2. PICK n \in Nat : n = Len(m) /\ DOMAIN m = 1..n /\ \A i \in 1..n : m[i].at \in Int
  BY <1>1, MarksTyped
<1>3. t \in Int /\ t < (d + 1) * DayLength
  BY DayMoment
<1>4. t \in CoveredIn(d) <=> \E i \in 1..n : /\ m[i].what = "start"
                                             /\ t >= m[i].at + Warm /\ t < MarkEnd(m, i, d)
  BY <1>1, <1>2 DEF CoveredIn
<1>5. \A i, j \in 1..n : i < j => m[i].at <= m[j].at
  BY <1>1, <1>2 DEF EventsInv, InOrder
<1>6. ASSUME NEW i \in 1..n
      PROVE  t < MarkEnd(m, i, d) <=> \A j \in 1..n : j > i => t < m[j].at
  <2>1. CASE i < n
    <3>1. MarkEnd(m, i, d) = m[i + 1].at /\ i + 1 \in 1..n
      BY <1>2, <2>1 DEF MarkEnd
    <3>2. ASSUME t < m[i + 1].at, NEW j \in 1..n, j > i PROVE t < m[j].at
      <4>1. j = i + 1 \/ (i + 1 < j /\ m[i + 1].at <= m[j].at)
        BY <1>5, <3>1, <3>2
      <4>2. m[j].at \in Int /\ m[i + 1].at \in Int
        BY <1>2, <3>1
      <4> QED BY <1>3, <3>2, <4>1, <4>2
    <3> QED BY <3>1, <3>2
  <2>2. CASE ~(i < n)
    <3>1. MarkEnd(m, i, d) = (d + 1) * DayLength /\ i = n
      BY <1>2, <2>2 DEF MarkEnd
    <3> QED BY <1>3, <3>1
  <2> QED BY <2>1, <2>2
<1>7. Covers(m, t) <=> \E i \in 1..n : /\ m[i].what = "start" /\ t >= m[i].at + Warm
                                       /\ \A j \in 1..n : j > i => t < m[j].at
  BY <1>2 DEF Covers
<1> QED BY <1>1, <1>4, <1>6, <1>7

\* A step that writes to the events.
LEMMA EventStep ==
    ASSUME CoverInv, (time % 2) = 1, UNCHANGED <<time, able, blind, reports>>,
           since' \in Int, pending' \subseteq Int, job' = None \/ (job' = job /\ job # None),
           NEW r \in EventRecs, r.at = time,
           events' = AddLine(events, r) \/ events' \in TornFiles(events, r),
           astray' \/ /\ events' = AddLine(events, r) /\ events.tail = "end" /\ Marking(r)
                      /\ (r.what = "start" <=> Running') /\ (Running' => since' = time)
    PROVE  CoverInv'
<1>1. /\ EventsInv(events') /\ (events' = AddLine(events, r) => events'.tail = "end")
      /\ events' = AddLine(events, r) /\ events.tail = "end" /\ Marking(r) =>
             \A t \in Int : t > time =>
                 (Covers(MarksIn(events'), t) <=> r.what = "start" /\ t >= time + Warm)
  BY EventWritten DEF CoverInv
<1>2. EventsInv(events)'
  BY <1>1 DEF EventsInv, InOrder, Tells, Loose
<1>3. Foresees'
  <2> SUFFICES ASSUME ~astray'
               PROVE  /\ events'.tail = "end"
                      /\ \A t \in Int : t > time' =>
                            (Covers(MarksIn(events'), t) <=> Running' /\ t >= since' + Warm)
    BY DEF Foresees
  <2>1. /\ events' = AddLine(events, r) /\ events.tail = "end" /\ Marking(r)
        /\ (r.what = "start" <=> Running') /\ (Running' => since' = time)
    OBVIOUS
  <2> QED BY <1>1, <2>1
<1> QED BY <1>2, <1>3 DEF CoverInv, CoverageIsTrue, Over

\* CoverageIsTrue: the uncovered moments of a report are those at which the
\* process could not decide.
THEOREM CoverageIsTrueHolds == ReconcileSpec => []CoverageIsTrue
<1>1. ReconcileInit => CoverInv
  <2> SUFFICES ASSUME ReconcileInit PROVE CoverInv
    OBVIOUS
  <2>1. PICK s \in Seq(LinesOf(EventRecs)) : s = <<>>
    BY EmptySeq
  <2>2. events = [lines |-> s, tail |-> "end", decodes |-> TRUE]
    BY <2>1 DEF ReconcileInit, EmptyFile
  <2>3. events \in EventFiles /\ events.lines = s /\ events.tail = "end"
    BY <2>2, EventFileOf
  <2>4. PICK m \in Seq(EventRecs) : m = MarksIn(events) /\ m = <<>>
    <3>1. PICK es \in Seq(EventRecs) : es = RecordsOf(s) /\ es = <<>>
      BY <2>1, EmptySeq, RecordsTyped
    <3>2. Marks(es) = <<>>
      BY <3>1, EventIs, MarksNext DEF ReconcileInit
    <3> QED BY <2>3, <3>1, <3>2, EmptySeq DEF MarksIn
  <2>5. Len(m) = 0
    BY <2>4
  <2>6. \A t \in Int : ~Covers(m, t)
    BY <2>5 DEF Covers
  <2>7. InOrder(m)
    BY <2>5 DEF InOrder
  <2>8. EventsInv(events)
    BY <2>3, <2>4, <2>6, <2>7 DEF EventsInv, Tells, Loose, ReconcileInit
  <2> QED BY <2>3, <2>4, <2>6, <2>8
          DEF CoverInv, Foresees, Running, CoverageIsTrue, ReconcileInit, None
<1>2. CoverInv /\ [ReconcileNext]_reconcileVars => CoverInv'
  <2> SUFFICES ASSUME CoverInv, [ReconcileNext]_reconcileVars PROVE CoverInv'
    OBVIOUS
  <2>0. time \in Nat /\ since \in Int /\ None \in Int /\ pending \subseteq Int
    BY DEF CoverInv, None
  <2>1. CASE UNCHANGED reconcileVars
    <3>1. UNCHANGED <<time, since, events, pending, job, reports, able, astray, blind>>
      BY <2>1 DEF reconcileVars, files, process, reconcileHistory
    <3> QED BY <3>1 DEF CoverInv, EventsInv, InOrder, Tells, Loose, Foresees, Running, Over,
            CoverageIsTrue
  <2>2. CASE ProcessStart
    <3>1. PICK r \in EventRecs : r = Event("start") /\ r.at = time /\ r.what = "start"
      BY <2>0, EventIs
    <3>2. /\ UNCHANGED <<time, able, blind, reports>> /\ (time % 2) = 1
          /\ since' = time /\ job' = None /\ pending' = MissingDays
          /\ events' = AddLine(events, r) /\ astray' = (events.tail # "end")
      BY <2>2, <3>1 DEF ProcessStart, Mark
    <3>3. pending' \subseteq Int /\ Running'
      BY <2>0, <3>2 DEF MissingDays, Running, None
    <3>4. astray' \/ /\ events' = AddLine(events, r) /\ events.tail = "end" /\ Marking(r)
                      /\ (r.what = "start" <=> Running') /\ (Running' => since' = time)
      BY <3>1, <3>2, <3>3 DEF Marking
    <3>5. since' \in Int /\ job' = None /\ pending' \subseteq Int
      BY <2>0, <3>2, <3>3
    <3> QED BY <3>1, <3>2, <3>4, <3>5, EventStep
  <2>3. CASE StartEnds
    <3>1. PICK r \in EventRecs : r = Event("start") /\ r.at = time
      BY <2>0, EventIs
    <3>2. /\ UNCHANGED <<time, able, blind, reports, since, job, pending>> /\ (time % 2) = 1
          /\ astray' /\ (events' = AddLine(events, r) \/ events' \in TornFiles(events, r))
      BY <2>3, <3>1 DEF StartEnds, process
    <3>3. job' = None \/ (job' = job /\ job # None)
      BY <3>2
    <3> QED BY <2>0, <3>1, <3>2, <3>3, EventStep
  <2>4. CASE ProcessStop
    <3>1. PICK r \in EventRecs : r = Event("stop") /\ r.at = time /\ r.what = "stop"
      BY <2>0, EventIs
    <3>2. /\ UNCHANGED <<time, able, blind, reports>> /\ (time % 2) = 1
          /\ since' = None /\ job' = None /\ pending' = {}
          /\ events' = AddLine(events, r) /\ astray' = (events.tail # "end")
      BY <2>4, <3>1 DEF ProcessStop, Mark
    <3>3. ~Running'
      BY <3>2 DEF Running, None
    <3>4. astray' \/ /\ events' = AddLine(events, r) /\ events.tail = "end" /\ Marking(r)
                      /\ (r.what = "start" <=> Running') /\ (Running' => since' = time)
      BY <3>1, <3>2, <3>3 DEF Marking
    <3>5. since' \in Int /\ job' = None /\ pending' \subseteq Int
      BY <2>0, <3>2, <3>3
    <3> QED BY <3>1, <3>2, <3>4, <3>5, EventStep
  <2>5. CASE ProcessDies
    <3>1. PICK r \in EventRecs : r = Event("alert") /\ r.at = time
      BY <2>0, EventIs
    <3>2. /\ UNCHANGED <<time, able, blind, reports>> /\ (time % 2) = 1
          /\ since' = None /\ job' = None /\ pending' = {} /\ astray'
          /\ (events' = events \/ events' \in TornFiles(events, r))
      BY <2>5, <3>1 DEF ProcessDies
    <3>3. events' \in TornFiles(events, r)
      BY <3>2 DEF TornFiles
    <3> QED BY <2>0, <3>1, <3>2, <3>3, EventStep
  <2>6. CASE Passes
    <3>1. /\ time' = time + 1 /\ UNCHANGED <<events, reports, since, job, astray>>
          /\ pending' = IF Running /\ (time' % DayLength) = 0 THEN pending \cup {Today} ELSE pending
          /\ able' = IF Running /\ (time' % 2) = 0 /\ time' >= since + Warm
                     THEN able \cup {time'} ELSE able
          /\ blind' = IF astray /\ (time' % 2) = 0 THEN blind \cup {time'} ELSE blind
      BY <2>6 DEF Passes, files
    <3>2. pending' \subseteq Int /\ \A t \in able' : t <= time'
      <4>1. Today \in Int
        BY <2>0, DayTurns DEF Today
      <4>2. \A t \in able : t <= time + 1
        <5>1. able \subseteq Int /\ \A t \in able : t <= time
          BY DEF CoverInv
        <5> QED BY <2>0, <5>1
      <4>3. able \subseteq Int
        BY DEF CoverInv
      <4> QED BY <2>0, <3>1, <4>1, <4>2, <4>3
    <3>3. \A t \in Int : t <= time => (t \in able' <=> t \in able) /\ (t \in blind' <=> t \in blind)
      BY <2>0, <3>1
    <3>4. PICK m : /\ m = MarksIn(events) /\ Len(m) \in Nat
                   /\ \A i \in 1..Len(m) : m[i].at \in Int
      BY MarksTyped DEF CoverInv
    <3>5. InOrder(m)'
      <4>1. InOrder(m)
        BY <3>4 DEF CoverInv, EventsInv
      <4>2. ASSUME NEW i \in 1..Len(m) PROVE m[i].at <= time + 1
        BY <2>0, <3>4, <4>1 DEF InOrder
      <4> QED BY <3>1, <4>1, <4>2 DEF InOrder
    <3>6. ASSUME NEW t \in Int, (t % 2) = 0, t <= time + 1, t \notin blind'
          PROVE  t \in able' <=> Covers(m, t)
      <4>1. CASE t <= time
        BY <3>3, <3>4, <3>6, <4>1 DEF CoverInv, EventsInv, Tells
      <4>2. CASE t > time
        <5>1. t = time' /\ t = time + 1
          BY <2>0, <3>1, <3>6, <4>2
        <5>2. ~astray
          BY <3>1, <3>6, <5>1
        <5>3. Covers(m, t) <=> Running /\ t >= since + Warm
          BY <3>4, <4>2, <5>2 DEF CoverInv, Foresees
        <5>4. t \notin able
          BY <2>0, <4>2 DEF CoverInv
        <5> QED BY <3>1, <3>6, <5>1, <5>3, <5>4
      <4> QED BY <2>0, <4>1, <4>2
    <3>7. ASSUME events.tail # "end", Last(events.lines).good, Marking(Last(events.lines).rec),
                 NEW t \in Int, (t % 2) = 0, t >= Last(events.lines).rec.at, t <= time + 1
          PROVE  t \in blind'
      <4>1. astray
        BY <3>7 DEF CoverInv, Foresees
      <4>2. CASE t <= time
        BY <3>3, <3>7, <4>2 DEF CoverInv, EventsInv, Loose
      <4>3. CASE t > time
        <5>1. t = time'
          BY <2>0, <3>1, <3>7, <4>3
        <5> QED BY <3>1, <3>7, <4>1, <5>1
      <4> QED BY <2>0, <4>2, <4>3
    <3>8. EventsInv(events)'
      BY <3>1, <3>4, <3>5, <3>6, <3>7 DEF CoverInv, EventsInv, Tells, Loose
    <3>9. Foresees'
      <4>1. \A t \in Int : t > time + 1 => t > time
        BY <2>0
      <4> QED BY <3>1, <4>1 DEF CoverInv, Foresees, Running
    <3>10. ASSUME NEW d, Over(d) PROVE Over(d)'
      <4>1. d \in Int /\ (d + 1) * DayLength \in Int /\ (d + 1) * DayLength <= time
        BY <3>10, ReconcileAssumption DEF Over
      <4>2. (d + 1) * DayLength <= time + 1
        BY <2>0, <4>1
      <4> QED BY <3>1, <4>1, <4>2 DEF Over
    <3>11. CoverageIsTrue'
      <4> SUFFICES ASSUME NEW r \in reports, NEW t \in DayMoments(r.day), t \notin blind'
                   PROVE  t \in r.uncovered <=> t \notin able'
        BY <3>1 DEF CoverageIsTrue
      <4>1. Over(r.day)
        BY DEF CoverInv
      <4>2. t \in Int /\ t <= time
        BY <2>0, <4>1, DayMoment DEF Over
      <4>3. t \notin blind /\ (t \in able' <=> t \in able)
        BY <3>3, <4>2
      <4> QED BY <4>3 DEF CoverInv, CoverageIsTrue
    <3>12. able' \subseteq Int
      BY <2>0, <3>1 DEF CoverInv
    <3> QED BY <2>0, <3>1, <3>2, <3>8, <3>9, <3>10, <3>11, <3>12 DEF CoverInv
  <2>7. CASE MaybeReconcile
    <3>1. PICK d \in Ready : pending' = pending \ {d} /\ job' = d
      BY <2>7 DEF MaybeReconcile
    <3>2. UNCHANGED <<time, since, events, reports, able, astray, blind>>
      BY <2>7 DEF MaybeReconcile, files, reconcileHistory
    <3>3. Over(d)
      <4>1. d \in Int /\ time >= (d + 1) * DayLength + After
        BY <2>0, <3>1 DEF Ready
      <4>2. (d + 1) * DayLength \in Int
        BY <4>1, ReconcileAssumption
      <4> QED BY <2>0, <4>1, <4>2, ReconcileAssumption DEF Over
    <3> QED BY <3>1, <3>2, <3>3 DEF CoverInv, EventsInv, InOrder, Tells, Loose, Foresees, Running,
            Over, CoverageIsTrue
  <2>8. CASE JobEnds
    <3>1. PICK r : r = [day |-> job, uncovered |-> DayMoments(job) \ CoveredIn(job)]
      OBVIOUS
    <3>2. /\ UNCHANGED <<time, since, events, pending, able, astray, blind>>
          /\ job # None /\ job' = None /\ (reports' = reports \/ reports' = reports \cup {r})
      BY <2>8, <3>1 DEF JobEnds
    <3>3. Over(job) /\ r.day = job /\ r.uncovered = DayMoments(job) \ CoveredIn(job)
      BY <3>1, <3>2 DEF CoverInv
    <3>4. ASSUME NEW t \in DayMoments(job), t \notin blind
          PROVE  t \in r.uncovered <=> t \notin able
      <4>1. job \in Int /\ t \in Int /\ (t % 2) = 0 /\ t <= time
        BY <2>0, <3>3, DayMoment DEF Over
      <4>2. t \in able <=> Covers(MarksIn(events), t)
        BY <3>4, <4>1 DEF CoverInv, EventsInv, Tells
      <4>3. t \in CoveredIn(job) <=> Covers(MarksIn(events), t)
        BY <4>1, CoveredMoments DEF CoverInv
      <4> QED BY <3>3, <4>2, <4>3
    <3>5. CoverageIsTrue'
      <4>1. \A x \in reports' : x \in reports \/ x = r
        BY <3>2
      <4> QED BY <3>2, <3>3, <3>4, <4>1 DEF CoverInv, CoverageIsTrue
    <3>6. \A x \in reports' : Over(x.day)
      BY <3>2, <3>3 DEF CoverInv
    <3> QED BY <3>2, <3>5, <3>6 DEF CoverInv, EventsInv, InOrder, Tells, Loose, Foresees, Running,
            Over
  <2> QED BY <2>1, <2>2, <2>3, <2>4, <2>5, <2>6, <2>7, <2>8 DEF ReconcileNext
<1>3. CoverInv => CoverageIsTrue
  BY DEF CoverInv
<1> QED BY <1>1, <1>2, <1>3, PTL DEF ReconcileSpec

-----------------------------------------------------------------------------
(* The sleep guard and the messages.                                       *)

\* ReleaseIsTold: the machine is never let go to sleep unannounced.
THEOREM ReleaseIsToldHolds == WatchSpec => []ReleaseIsTold
<1>1. WatchInit => ReleaseIsTold
  BY DEF WatchInit, ReleaseIsTold, Released
<1>2. ReleaseIsTold /\ [WatchNext]_watchVars => ReleaseIsTold'
  <2> SUFFICES ASSUME ReleaseIsTold, [WatchNext]_watchVars PROVE ReleaseIsTold'
    OBVIOUS
  <2>1. CASE Report \/ StartFlush \/ (\E f \in Flushes : SendFirst(f) \/ Answer(f)) \/ UNCHANGED watchVars
    BY <2>1 DEF Report, StartFlush, SendFirst, Answer, guardVars, watchVars, ReleaseIsTold
  <2>2. CASE End \/ World
    BY <2>2 DEF End, World, ReleaseIsTold
  <2>3. CASE GuardTick
    <3>1. PICK new : /\ code' = new
                     /\ caffeinate' = IF new \notin Released THEN "running"
                                      ELSE IF caffeinate = "running" THEN "none" ELSE caffeinate
                     /\ IF PowerMessage(new) # "none" THEN told' = PowerMessage(new) ELSE told' = told
      BY <2>3 DEF GuardTick
    <3>2. new \in Released /\ code \notin Released => PowerMessage(new) = "released"
      BY DEF PowerMessage
    <3>3. new \in Released /\ code \in Released => PowerMessage(new) = "none"
      BY DEF PowerMessage, Released
    <3> QED BY <3>1, <3>2, <3>3 DEF ReleaseIsTold
  <2> QED BY <2>1, <2>2, <2>3 DEF WatchNext
<1> QED BY <1>1, <1>2, PTL DEF WatchSpec

\* The messages that are neither sent nor waiting.
Lost == (1..made) \ (sent \cup ToSet(outbox))
\* A flush that sends a message which was pushed out meanwhile will take away
\* another one.
Numbered == Nat \ {0}
Owes(f) == sending[f] \in Numbered /\ (outbox = <<>> \/ Head(outbox) # sending[f])
WatchTyped ==
    /\ outbox \in Seq(Numbered) /\ made \in Nat /\ full \in Nat
    /\ sending \in [Flushes -> {Off, AtHead} \cup Numbered] /\ ended \in BOOLEAN
OneSends ==
    /\ ~ended => ~overlapped /\ sending["final"] = Off
    /\ ended /\ ~overlapped => sending["loop"] = Off
Costs ==
    /\ Cardinality(Lost) <= full
    /\ \A f \in Flushes : Owes(f) => Cardinality(Lost \ {sending[f]}) + 1 <= full
WatchInv == WatchTyped /\ OneSends /\ (~overlapped => Costs)

\* What a queue holds once a message is posted, or its first taken away.
LEMMA QueueSets ==
    ASSUME NEW s \in Seq(Numbered)
    PROVE  /\ \A x \in Numbered : /\ Append(s, x) \in Seq(Numbered) /\ Append(s, x) # <<>>
                                  /\ ToSet(Append(s, x)) = ToSet(s) \cup {x}
                                  /\ Head(Append(s, x)) = IF s = <<>> THEN x ELSE Head(s)
           /\ s # <<>> => /\ Head(s) \in Numbered /\ Tail(s) \in Seq(Numbered)
                          /\ ToSet(s) = ToSet(Tail(s)) \cup {Head(s)}
<1>1. ASSUME NEW x \in Numbered
      PROVE  /\ Append(s, x) \in Seq(Numbered) /\ Append(s, x) # <<>>
             /\ ToSet(Append(s, x)) = ToSet(s) \cup {x}
             /\ Head(Append(s, x)) = IF s = <<>> THEN x ELSE Head(s)
  <2>1. ToSet(Append(s, x)) = ToSet(s) \cup {x}
    <3>1. DOMAIN Append(s, x) = 1..Len(s)+1 /\ DOMAIN s = 1..Len(s) /\ Len(s) \in Nat
      OBVIOUS
    <3>2. Append(s, x)[Len(s)+1] = x /\ \A i \in 1..Len(s) : Append(s, x)[i] = s[i]
      OBVIOUS
    <3> QED BY <3>1, <3>2 DEF ToSet
  <2> QED BY <2>1, HeadTailAppend, AppendProperties
<1>2. ASSUME s # <<>>
      PROVE  /\ Head(s) \in Numbered /\ Tail(s) \in Seq(Numbered)
             /\ ToSet(s) = ToSet(Tail(s)) \cup {Head(s)}
  <2>1. Head(s) \in Numbered /\ Tail(s) \in Seq(Numbered) /\ Len(s) \in Nat /\ Len(s) > 0
    BY <1>2, HeadTailProperties, EmptySeq
  <2>2. DOMAIN Tail(s) = 1..Len(s)-1 /\ DOMAIN s = 1..Len(s) /\ Head(s) = s[1]
    BY <1>2, <2>1
  <2>3. \A i \in 1..Len(s)-1 : Tail(s)[i] = s[i+1]
    BY <1>2, <2>1
  <2>4. \A i \in 1..Len(s) : i = 1 \/ i - 1 \in 1..Len(s)-1
    BY <2>1
  <2>5. \A i \in 1..Len(s)-1 : i + 1 \in 1..Len(s)
    BY <2>1
  <2>6. ToSet(s) \subseteq ToSet(Tail(s)) \cup {Head(s)}
    <3> SUFFICES ASSUME NEW i \in 1..Len(s) PROVE s[i] \in ToSet(Tail(s)) \cup {Head(s)}
      BY <2>2 DEF ToSet
    <3>1. CASE i = 1
      BY <2>2, <3>1
    <3>2. CASE i - 1 \in 1..Len(s)-1
      <4>1. Tail(s)[i-1] = s[(i-1)+1] /\ (i-1)+1 = i
        BY <2>1, <2>3, <3>2
      <4> QED BY <2>2, <3>2, <4>1 DEF ToSet
    <3> QED BY <2>4, <3>1, <3>2
  <2>7. ToSet(Tail(s)) \cup {Head(s)} \subseteq ToSet(s)
    BY <2>1, <2>2, <2>3, <2>5 DEF ToSet
  <2> QED BY <2>1, <2>6, <2>7
<1> QED BY <1>1, <1>2

\* One message more in a set is one more in number at most.
LEMMA CostOfOne ==
    ASSUME NEW B, IsFiniteSet(B), NEW x, NEW A, A \subseteq B \cup {x}
    PROVE  Cardinality(A) <= Cardinality(B) + 1 /\ Cardinality(A) \in Nat /\ Cardinality(B) \in Nat
<1>1. IsFiniteSet(B \cup {x}) /\ Cardinality(B \cup {x}) <= Cardinality(B) + 1 /\ Cardinality(B) \in Nat
  <2>1. /\ IsFiniteSet(B \cup {x}) /\ Cardinality(B) \in Nat
        /\ Cardinality(B \cup {x}) = IF x \in B THEN Cardinality(B) ELSE Cardinality(B) + 1
    BY FS_AddElement, FS_CardinalityType
  <2> QED BY <2>1
<1>2. Cardinality(A) <= Cardinality(B \cup {x}) /\ Cardinality(A) \in Nat /\ Cardinality(B \cup {x}) \in Nat
  BY <1>1, FS_Subset, FS_CardinalityType
<1> QED BY <1>1, <1>2

\* A part of a set has no more elements.
LEMMA CostOfNone ==
    ASSUME NEW B, IsFiniteSet(B), NEW A, A \subseteq B
    PROVE  Cardinality(A) <= Cardinality(B) /\ Cardinality(A) \in Nat /\ Cardinality(B) \in Nat
BY FS_Subset, FS_CardinalityType

\* The lost messages can be counted.
LEMMA LostFinite ==
    ASSUME WatchTyped PROVE IsFiniteSet(Lost) /\ \A x : IsFiniteSet(Lost \ {x})
<1>1. IsFiniteSet(1..made)
  BY FS_Interval DEF WatchTyped
<1> QED BY <1>1, FS_Subset DEF Lost

\* A step that loses nothing costs nothing.
LEMMA LosesNone ==
    ASSUME WatchTyped, Costs, Lost' \subseteq Lost, full' = full,
           \A f \in Flushes : Owes(f)' => Owes(f) /\ sending'[f] = sending[f]
    PROVE  Costs'
<1>1. Cardinality(Lost') <= full'
  BY LostFinite, CostOfNone DEF Costs, WatchTyped
<1>2. ASSUME NEW f \in Flushes, Owes(f)' PROVE Cardinality(Lost' \ {sending'[f]}) + 1 <= full'
  <2>1. Lost' \ {sending'[f]} \subseteq Lost \ {sending[f]} /\ Cardinality(Lost \ {sending[f]}) + 1 <= full
    BY <1>2 DEF Costs
  <2>2. PICK a, b : /\ a = Cardinality(Lost' \ {sending'[f]}) /\ b = Cardinality(Lost \ {sending[f]})
                    /\ a <= b /\ a \in Nat /\ b \in Nat
    BY <2>1, LostFinite, CostOfNone
  <2> QED BY <2>1, <2>2 DEF WatchTyped
<1> QED BY <1>1, <1>2 DEF Costs

\* A message posted keeps the types.
LEMMA PostTyped ==
    ASSUME WatchTyped, Post
    PROVE  outbox' \in Seq(Numbered) /\ made' \in Nat /\ full' \in Nat
<1>1. made \in Nat /\ made' = made + 1 /\ made' \in Numbered /\ outbox \in Seq(Numbered) /\ full \in Nat
  BY DEF Post, WatchTyped, Numbered
<1>2. CASE Len(outbox) < MaxQueue
  BY <1>1, <1>2, QueueSets DEF Post
<1>3. CASE ~(Len(outbox) < MaxQueue)
  <2>1. outbox' = Append(Tail(outbox), made') /\ full' = full + 1 /\ outbox # <<>>
    BY <1>1, <1>3, WatchAssumption DEF Post
  <2>2. Tail(outbox) \in Seq(Numbered)
    BY <1>1, <2>1, QueueSets
  <2> QED BY <1>1, <2>1, <2>2, QueueSets
<1> QED BY <1>2, <1>3

\* A message posted costs at most the one that it pushes out.
LEMMA PostCosts ==
    ASSUME WatchTyped, Costs, Post, sent' = sent,
           \A f \in Flushes : sending'[f] = sending[f] \/ sending'[f] \notin Numbered
    PROVE  Costs'
<1>1. made \in Nat /\ made' = made + 1 /\ made' \in Numbered /\ outbox \in Seq(Numbered) /\ full \in Nat
  BY DEF Post, WatchTyped, Numbered
<1>2. 1..made' = (1..made) \cup {made'}
  BY <1>1
<1>3. CASE Len(outbox) < MaxQueue
  <2>1. outbox' = Append(outbox, made') /\ full' = full
    BY <1>3 DEF Post
  <2>2. /\ outbox' \in Seq(Numbered) /\ outbox' # <<>> /\ ToSet(outbox') = ToSet(outbox) \cup {made'}
        /\ Head(outbox') = IF outbox = <<>> THEN made' ELSE Head(outbox)
    BY <1>1, <2>1, QueueSets
  <2>3. Lost' \subseteq Lost
    BY <1>2, <2>2 DEF Lost
  <2>4. \A f \in Flushes : Owes(f)' => Owes(f) /\ sending'[f] = sending[f]
    BY <2>2 DEF Owes
  <2> QED BY <1>1, <2>1, <2>2, <2>3, <2>4, LosesNone
<1>4. CASE ~(Len(outbox) < MaxQueue)
  <2>1. outbox' = Append(Tail(outbox), made') /\ full' = full + 1
    BY <1>4 DEF Post
  <2>2. outbox # <<>>
    BY <1>1, <1>4, WatchAssumption
  <2>3. /\ Tail(outbox) \in Seq(Numbered) /\ ToSet(outbox) = ToSet(Tail(outbox)) \cup {Head(outbox)}
    BY <1>1, <2>2, QueueSets
  <2>4. /\ outbox' \in Seq(Numbered) /\ ToSet(outbox') = ToSet(Tail(outbox)) \cup {made'}
    BY <1>1, <2>1, <2>3, QueueSets
  <2>5. Lost' \subseteq Lost \cup {Head(outbox)}
    BY <1>2, <2>3, <2>4 DEF Lost
  <2>6. Cardinality(Lost') <= full'
    <3>1. PICK a, b : a = Cardinality(Lost') /\ b = Cardinality(Lost) /\ a <= b + 1 /\ a \in Nat /\ b \in Nat
      BY <2>5, LostFinite, CostOfOne
    <3> QED BY <1>1, <2>1, <3>1 DEF Costs
  <2>7. ASSUME NEW f \in Flushes, Owes(f)' PROVE Cardinality(Lost' \ {sending'[f]}) + 1 <= full'
    <3>1. PICK s : s = sending[f] /\ sending'[f] = s /\ s \in Numbered
      BY <2>7 DEF Owes
    <3>2. CASE Owes(f)
      <4>1. Cardinality(Lost \ {s}) + 1 <= full /\ Lost' \ {s} \subseteq (Lost \ {s}) \cup {Head(outbox)}
        BY <2>5, <3>1, <3>2 DEF Costs
      <4>2. PICK a, b : a = Cardinality(Lost' \ {s}) /\ b = Cardinality(Lost \ {s}) /\ a <= b + 1 /\ a \in Nat /\ b \in Nat
        BY <4>1, LostFinite, CostOfOne
      <4> QED BY <1>1, <2>1, <3>1, <4>1, <4>2
    <3>3. CASE ~Owes(f)
      <4>1. Lost' \ {s} \subseteq Lost
        BY <2>2, <2>5, <3>1, <3>3 DEF Owes
      <4>2. PICK a, b : a = Cardinality(Lost' \ {s}) /\ b = Cardinality(Lost) /\ a <= b /\ a \in Nat /\ b \in Nat
        BY <4>1, LostFinite, CostOfNone
      <4> QED BY <1>1, <2>1, <3>1, <4>2 DEF Costs
    <3> QED BY <3>2, <3>3
  <2> QED BY <1>1, <2>1, <2>4, <2>6, <2>7 DEF Costs
<1> QED BY <1>3, <1>4

\* A flush takes the first message, and takes it away once it is answered.
LEMMA FlushKeeps ==
    ASSUME WatchInv, NEW f \in Flushes, SendFirst(f) \/ Answer(f)
    PROVE  WatchInv'
<1>0. /\ sending \in [Flushes -> {Off, AtHead} \cup Numbered] /\ outbox \in Seq(Numbered)
      /\ made \in Nat /\ full \in Nat /\ Off \notin Numbered /\ AtHead \notin Numbered /\ sending[f] # Off
  BY DEF WatchInv, WatchTyped, Numbered, Off, AtHead, SendFirst, Answer, Answered
<1>1. UNCHANGED <<made, full, ended, overlapped>>
  BY DEF SendFirst, Answer, watchHistory, guardVars
<1>2. \E x \in {Off, AtHead} \cup Numbered : sending' = [sending EXCEPT ![f] = x]
  <2>1. CASE SendFirst(f)
    <3>1. sending' = [sending EXCEPT ![f] = IF outbox = <<>> THEN Off ELSE Head(outbox)]
      BY <2>1 DEF SendFirst
    <3>2. outbox # <<>> => Head(outbox) \in Numbered
      BY <1>0, QueueSets
    <3> QED BY <3>1, <3>2
  <2>2. CASE Answer(f)
    BY <2>2 DEF Answer, Answered
  <2> QED BY <2>1, <2>2
<1>3. outbox' \in Seq(Numbered)
  <2>1. outbox' = outbox \/ (outbox # <<>> /\ outbox' = Tail(outbox))
    BY DEF SendFirst, Answer, Answered
  <2> QED BY <1>0, <2>1, QueueSets
<1>4. WatchTyped'
  BY <1>0, <1>1, <1>2, <1>3 DEF WatchInv, WatchTyped
<1>5. \A g \in Flushes : g # f => sending'[g] = sending[g]
  BY <1>0, <1>2
<1>6. f = "final" => ended
  BY <1>0 DEF WatchInv, OneSends
<1>7. OneSends'
  BY <1>0, <1>1, <1>5, <1>6 DEF WatchInv, OneSends, Flushes
<1>8. ASSUME ~overlapped PROVE Costs'
  <2>1. Costs /\ \A g \in Flushes : g # f => sending[g] = Off
    BY <1>0, <1>8 DEF WatchInv, OneSends, Flushes
  <2>2. \A g \in Flushes : g # f => ~Owes(g)' /\ ~Owes(g)
    BY <1>0, <1>5, <2>1 DEF Owes
  <2>3. CASE SendFirst(f)
    <3>1. sending'[f] = (IF outbox = <<>> THEN Off ELSE Head(outbox)) /\ outbox' = outbox /\ sent' = sent
      BY <1>0, <2>3 DEF SendFirst, watchHistory
    <3>2. ~Owes(f)'
      BY <1>0, <3>1 DEF Owes
    <3>3. Lost' = Lost
      BY <1>1, <3>1 DEF Lost
    <3> QED BY <1>1, <2>1, <2>2, <3>2, <3>3, LosesNone DEF WatchInv
  <2>4. CASE Answer(f)
    <3>1. sending'[f] \in {Off, AtHead}
      BY <1>0, <2>4 DEF Answer, Answered
    <3>2. ~Owes(f)'
      BY <1>0, <3>1 DEF Owes
    <3>3. ASSUME Lost' \subseteq Lost PROVE Costs'
      BY <1>1, <2>1, <2>2, <3>2, <3>3, LosesNone DEF WatchInv
    <3>4. CASE outbox' = outbox /\ sent \subseteq sent'
      BY <1>1, <3>3, <3>4 DEF Lost
    <3>5. CASE outbox # <<>> /\ outbox' = Tail(outbox) /\ sent' = sent \cup {sending[f]} /\ sending[f] \in Numbered
      <4>1. ToSet(outbox) = ToSet(Tail(outbox)) \cup {Head(outbox)}
        BY <1>0, <3>5, QueueSets
      <4>2. CASE Head(outbox) = sending[f]
        <5>1. Lost' \subseteq Lost
          BY <1>1, <3>5, <4>1, <4>2 DEF Lost
        <5> QED BY <3>3, <5>1
      <4>3. CASE Head(outbox) # sending[f]
        <5>1. Lost' \subseteq (Lost \ {sending[f]}) \cup {Head(outbox)}
          BY <1>1, <3>5, <4>1 DEF Lost
        <5>2. Cardinality(Lost \ {sending[f]}) + 1 <= full
          BY <2>1, <3>5, <4>3 DEF Costs, Owes
        <5>3. PICK a, b : /\ a = Cardinality(Lost') /\ b = Cardinality(Lost \ {sending[f]})
                          /\ a <= b + 1 /\ a \in Nat /\ b \in Nat
          BY <5>1, LostFinite, CostOfOne DEF WatchInv
        <5>4. Cardinality(Lost') <= full'
          BY <1>0, <1>1, <5>2, <5>3
        <5>5. \A g \in Flushes : ~Owes(g)'
          BY <2>2, <3>2
        <5> QED BY <5>4, <5>5 DEF Costs
      <4> QED BY <4>2, <4>3
    <3>6. sending[f] > 0 => sending[f] \in Numbered
      BY <1>0 DEF Off, AtHead
    <3> QED BY <2>4, <3>4, <3>5, <3>6 DEF Answer, Answered
  <2> QED BY <2>3, <2>4
<1> QED BY <1>1, <1>4, <1>7, <1>8 DEF WatchInv

\* A message is posted while the flushes stand still.
LEMMA PostKeeps ==
    ASSUME WatchInv, Post, sent' = sent, UNCHANGED <<sending, ended, overlapped>>
    PROVE  WatchInv'
<1>2. outbox' \in Seq(Numbered) /\ made' \in Nat /\ full' \in Nat
  BY PostTyped DEF WatchInv
<1>3. ~overlapped => Costs'
  BY PostCosts DEF WatchInv
<1> QED BY <1>2, <1>3 DEF WatchInv, WatchTyped, OneSends

\* Every step of the watch.
LEMMA WatchKeeps == WatchInv /\ [WatchNext]_watchVars => WatchInv'
<1> SUFFICES ASSUME WatchInv, [WatchNext]_watchVars PROVE WatchInv'
  OBVIOUS
<1>1. ASSUME UNCHANGED <<outbox, sending, ended, made, sent, full, overlapped>> PROVE WatchInv'
  BY <1>1 DEF WatchInv, WatchTyped, OneSends, Costs, Lost, Owes
<1>2. CASE UNCHANGED watchVars \/ World
  BY <1>1, <1>2 DEF watchVars, watchHistory, World
<1>3. CASE Report
  BY <1>3, PostKeeps DEF Report, guardVars
<1>4. CASE \E f \in Flushes : SendFirst(f) \/ Answer(f)
  BY <1>4, FlushKeeps
<1>5. CASE GuardTick
  <2>1. \/ Post /\ UNCHANGED <<sent, sending, ended, overlapped>>
        \/ UNCHANGED <<outbox, made, full, sent, sending, ended, overlapped>>
    BY <1>5 DEF GuardTick
  <2> QED BY <1>1, <2>1, PostKeeps
<1>6. CASE StartFlush
  <2>1. /\ ~ended /\ sending' = [sending EXCEPT !["loop"] = AtHead]
        /\ UNCHANGED <<outbox, ended, made, sent, full, overlapped>>
    BY <1>6 DEF StartFlush, watchHistory
  <2>2. sending'["loop"] = AtHead /\ sending'["final"] = sending["final"] /\ AtHead \notin Numbered
        /\ sending' \in [Flushes -> {Off, AtHead} \cup Numbered]
    BY <2>1 DEF WatchInv, WatchTyped, Flushes, AtHead, Numbered
  <2>3. \A f \in Flushes : Owes(f)' => Owes(f) /\ sending'[f] = sending[f]
    BY <2>1, <2>2 DEF Owes, Flushes
  <2>4. Lost' = Lost
    BY <2>1 DEF Lost
  <2>5. Costs => Costs'
    BY <2>1, <2>3, <2>4, LosesNone DEF WatchInv
  <2> QED BY <2>1, <2>2, <2>5 DEF WatchInv, WatchTyped, OneSends
<1>7. CASE End
  <2>1. /\ ~ended /\ ended' = TRUE /\ Post /\ sent' = sent /\ overlapped' = (sending["loop"] # Off)
        /\ sending' = [sending EXCEPT !["final"] = AtHead]
    BY <1>7 DEF End
  <2>2. sending'["final"] = AtHead /\ sending'["loop"] = sending["loop"] /\ AtHead \notin Numbered
        /\ sending' \in [Flushes -> {Off, AtHead} \cup Numbered]
    BY <2>1 DEF WatchInv, WatchTyped, Flushes, AtHead, Numbered
  <2>3. Costs /\ WatchTyped
    BY <2>1 DEF WatchInv, OneSends
  <2>4. Costs' /\ outbox' \in Seq(Numbered) /\ made' \in Nat /\ full' \in Nat
    BY <2>1, <2>2, <2>3, PostTyped, PostCosts DEF Flushes
  <2> QED BY <2>1, <2>2, <2>4 DEF WatchInv, WatchTyped, OneSends
<1> QED BY <1>2, <1>3, <1>4, <1>5, <1>6, <1>7 DEF WatchNext

\* MessagesArrive: while one thread sends, only a full queue costs messages.
THEOREM MessagesArriveHolds == WatchSpec => []MessagesArrive
<1>1. WatchInit => WatchInv
  <2> SUFFICES ASSUME WatchInit PROVE WatchInv
    OBVIOUS
  <2>1. /\ outbox = <<>> /\ sending = [f \in Flushes |-> Off] /\ ended = FALSE
        /\ made = 0 /\ sent = {} /\ full = 0 /\ overlapped = FALSE
    BY DEF WatchInit
  <2>2. WatchTyped /\ OneSends
    <3>1. outbox \in Seq(Numbered)
      BY <2>1, EmptySeq
    <3>2. sending \in [Flushes -> {Off, AtHead} \cup Numbered] /\ sending["final"] = Off
      BY <2>1 DEF Flushes
    <3> QED BY <2>1, <3>1, <3>2 DEF WatchTyped, OneSends
  <2>3. Lost = {} /\ \A f \in Flushes : ~Owes(f)
    BY <2>1 DEF Lost, Owes, Off, Numbered
  <2>4. Costs
    BY <2>1, <2>3, FS_EmptySet DEF Costs
  <2> QED BY <2>2, <2>4 DEF WatchInv
<1>2. WatchInv => MessagesArrive
  BY DEF WatchInv, Costs, Lost, MessagesArrive
<1> QED BY <1>1, <1>2, WatchKeeps, PTL DEF WatchSpec
=============================================================================
