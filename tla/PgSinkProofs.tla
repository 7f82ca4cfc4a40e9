----------------------------- MODULE PgSinkProofs -----------------------------
(***************************************************************************)
(* Proofs about PgSink for every set of records and every limit.           *)
(*                                                                         *)
(* What is stored stays stored and a file stays filed (Growth); a flush    *)
(* that commits stores the whole batch, and a spill files the whole        *)
(* buffer.  So a record leaves the buffer for one of them (Accounted), and *)
(* so does a line replay-spill has read (Progress, the strengthening that  *)
(* makes ReplayKeepsRows inductive).                                       *)
(***************************************************************************)
EXTENDS PgSink, TLAPS

\* A line that replay-spill read of file f is accounted for.
Kept(r, f) == r \in Bad \/ Stored(r) \/ In(r, rbuf) \/ Filed(r, f)
Progress ==
    replay.file # 0 => \A i \in 1..replay.read : Kept(Lines[i], replay.file)

FilesGrow == files' = files \/ \E x \in File : files' = Append(files, x)
DbGrows == db' = db \/ \E b \in Seq(Records) : db' = Inserted(b)

-----------------------------------------------------------------------------
(* Data                                                                     *)
\* Appending adds a record and takes none away.
LEMMA InAppend ==
    ASSUME NEW s \in Seq(Records), NEW r \in Records
    PROVE  /\ Append(s, r) \in Seq(Records) /\ Len(Append(s, r)) = Len(s) + 1
           /\ \A q : In(q, Append(s, r)) <=> In(q, s) \/ q = r
<1>1. /\ Append(s, r) \in Seq(Records) /\ Len(Append(s, r)) = Len(s) + 1
      /\ \A i \in 1..Len(s) : Append(s, r)[i] = s[i]
      /\ Append(s, r)[Len(s) + 1] = r
  OBVIOUS
<1>2. Len(s) \in Nat
  OBVIOUS
<1> QED  BY <1>1, <1>2 DEF In

\* A committed batch is stored, and what was stored stays.
LEMMA InsertedStores ==
    ASSUME db \in [Records -> Nat], NEW b
    PROVE  /\ Inserted(b) \in [Records -> Nat]
           /\ \A r \in Records : db[r] > 0 => Inserted(b)[r] > 0
           /\ \A r \in Records \ Bad : In(r, b) => Inserted(b)[r] > 0
<1>1. \A q \in Records : db[q] \in Nat
  OBVIOUS
<1>2. \A q \in Records : Inserted(b)[q] =
        IF q \in Bad \/ ~In(q, b) THEN db[q] ELSE IF q \in Keyed THEN 1 ELSE db[q] + 1
  BY DEF Inserted
<1>3. Inserted(b) \in [Records -> Nat]
  BY <1>1 DEF Inserted
<1> QED  BY <1>1, <1>2, <1>3

\* A spilled file is the last one, and the others are what they were.
LEMMA Appended ==
    ASSUME NEW s \in Seq(File), NEW x \in File
    PROVE  /\ Append(s, x) \in Seq(File) /\ Len(Append(s, x)) = Len(s) + 1
           /\ \A g \in 1..Len(s) : Append(s, x)[g] = s[g]
           /\ Append(s, x)[Len(s) + 1] = x
           /\ Len(s) \in Nat
  OBVIOUS

\* The front of a buffer is a sequence of records.
LEMMA Front ==
    ASSUME NEW b \in Seq(Records), NEW n \in 1..Len(b)
    PROVE  SubSeq(b, 1, n) \in Seq(Records)
  OBVIOUS

\* What a step that stores and files keeps of earlier places.
LEMMA Growth ==
    ASSUME TypeOK, FilesGrow, DbGrows
    PROVE  /\ files' \in Seq(File) /\ Len(files) \in Nat /\ Len(files') \in Nat
           /\ Len(files) <= Len(files')
           /\ \A g \in 1..Len(files) : files'[g] = files[g]
           /\ db' \in [Records -> Nat]
           /\ \A r \in Records : Stored(r) => Stored(r)'
           /\ \A r, f : Filed(r, f) => Filed(r, f)'
<1> USE DEF TypeOK
<1>1. /\ files' \in Seq(File) /\ Len(files) \in Nat /\ Len(files') \in Nat
      /\ Len(files) <= Len(files') /\ \A g \in 1..Len(files) : files'[g] = files[g]
  <2>1. CASE files' = files
    BY <2>1
  <2>2. CASE \E x \in File : files' = Append(files, x)
    BY <2>2, Appended
  <2> QED  BY <2>1, <2>2 DEF FilesGrow
<1>2. db' \in [Records -> Nat] /\ \A r \in Records : db[r] > 0 => db'[r] > 0
  <2>1. CASE db' = db
    BY <2>1
  <2>2. CASE \E b \in Seq(Records) : db' = Inserted(b)
    <3>1. PICK b : db' = Inserted(b)
      BY <2>2
    <3> QED  BY <3>1, InsertedStores
  <2> QED  BY <2>1, <2>2 DEF DbGrows
<1>3. ASSUME NEW r, NEW f, Filed(r, f)
      PROVE  Filed(r, f)'
  <2>1. PICK g \in 1..Len(files) : g > f /\ files[g].whole /\ In(r, files[g].rows)
    BY <1>3 DEF Filed
  <2>2. g \in 1..Len(files') /\ files'[g] = files[g]
    BY <1>1
  <2> QED  BY <2>1, <2>2 DEF Filed, In
<1> QED  BY <1>1, <1>2, <1>3 DEF Stored

-----------------------------------------------------------------------------
(* The operators of the steps                                               *)
\* A commit stores the batch.
LEMMA CommitStores ==
    ASSUME TypeOK, NEW b \in Seq(Records), Commits(b)
    PROVE  /\ DbGrows /\ faults' = faults
           /\ \A r \in Records \ Bad : In(r, b) => Stored(r)'
  BY InsertedStores DEF Commits, DbGrows, Stored, TypeOK

\* A failed one may have been applied.
LEMMA CommitFailsGrows ==
    ASSUME TypeOK, NEW b \in Seq(Records), CommitFails(b)
    PROVE  DbGrows /\ faults' = faults + 1
  BY DEF CommitFails, DbGrows, TypeOK, Fault

\* A spill files the buffer in a younger file.
LEMMA SpillFiles ==
    ASSUME TypeOK, NEW b \in Seq(Records), Spills(b)
    PROVE  /\ FilesGrow
           /\ \A r, f : In(r, b) /\ f \in 0..Len(files) => Filed(r, f)'
<1> DEFINE x == [rows |-> b, whole |-> TRUE]
<1>1. x \in File /\ files' = Append(files, x)
  BY DEF Spills, File
<1>2. files \in Seq(File)
  BY DEF TypeOK
<1>3. Len(files') = Len(files) + 1 /\ files'[Len(files) + 1] = x /\ Len(files) \in Nat
  <2> HIDE DEF x
  <2> QED  BY <1>1, <1>2, Appended
<1>4. ASSUME NEW r, NEW f, In(r, b), f \in 0..Len(files)
      PROVE  Filed(r, f)'
  <2>1. Len(files) + 1 \in 1..Len(files') /\ Len(files) + 1 > f
    BY <1>3, <1>4
  <2>2. files'[Len(files) + 1].whole /\ In(r, files'[Len(files) + 1].rows)
    BY <1>3, <1>4
  <2> QED  BY <2>1, <2>2 DEF Filed, In
<1> QED  BY <1>1, <1>4 DEF FilesGrow

\* A failed one adds a part of a file, or nothing.
LEMMA SpillFailsGrows ==
    ASSUME TypeOK, NEW b \in Seq(Records), SpillFails(b)
    PROVE  FilesGrow /\ faults' = faults + 1
<1>1. CASE UNCHANGED files
  BY <1>1 DEF SpillFails, FilesGrow, Fault
<1>2. CASE \E n \in 1..Len(b) :
             files' = Append(files, [rows |-> SubSeq(b, 1, n), whole |-> FALSE])
  BY <1>2, Front DEF SpillFails, FilesGrow, Fault, File
<1> QED  BY <1>1, <1>2 DEF SpillFails

-----------------------------------------------------------------------------
(* Types                                                                    *)
\* The line a replay reads next is a record.
LEMMA LinesAreRecords ==
    ASSUME TypeOK, replay.file # 0
    PROVE  /\ Lines \in Seq(Records) /\ replay.read \in Nat /\ Len(Lines) \in Nat
           /\ replay.file \in 1..Len(files)
           /\ replay.read < Len(Lines) => NextLine \in Records
<1>1. replay.file \in 1..Len(files) /\ replay.read \in Nat
  BY DEF TypeOK
<1>2. files[replay.file] \in File
  BY <1>1 DEF TypeOK
<1>3. Lines \in Seq(Records) /\ Len(Lines) \in Nat
  BY <1>2 DEF File, Lines
<1> QED  BY <1>1, <1>3 DEF NextLine
\* Every step stores and files, and takes back nothing.
LEMMA StepGrows ==
    ASSUME TypeOK, [Next]_vars
    PROVE  FilesGrow /\ DbGrows
<1> USE DEF TypeOK
<1>1. CASE UNCHANGED vars
  BY <1>1 DEF vars, collector, replayer, FilesGrow, DbGrows
<1>2. ASSUME NEW r \in Records, WriteSpills(r)  PROVE FilesGrow /\ DbGrows
  BY <1>2, InAppend, SpillFiles DEF WriteSpills, DbGrows
<1>3. ASSUME NEW r \in Records, WriteSpillFails(r)  PROVE FilesGrow /\ DbGrows
  BY <1>3, InAppend, SpillFailsGrows DEF WriteSpillFails, DbGrows
<1>4. ASSUME NEW r \in Records, NEW late, WriteKeeps(r, late)  PROVE FilesGrow /\ DbGrows
  BY <1>4 DEF WriteKeeps, DbGrows, FilesGrow
<1>5. ASSUME NEW r \in Records, NEW late, WriteFlushes(r, late)  PROVE FilesGrow /\ DbGrows
  BY <1>5, InAppend, CommitStores, CommitFailsGrows DEF WriteFlushes, FilesGrow
<1>13. CASE Flush
  BY <1>13, CommitStores, CommitFailsGrows DEF Flush, FilesGrow
<1>6. CASE BackoffEnds \/ Starts \/ ReplayKeeps \/ \E f \in 1..Len(files) : ReplayOpens(f)
  BY <1>6 DEF BackoffEnds, Starts, ReplayKeeps, Reads, ReplayOpens, DbGrows, FilesGrow
<1>7. CASE CloseFlushes
  BY <1>7, CommitStores DEF CloseFlushes, DbGrows, FilesGrow
<1>8. CASE CloseSpills
  BY <1>8, CommitFailsGrows, SpillFiles DEF CloseSpills
<1>9. CASE Dies
  BY <1>9, SpillFailsGrows DEF Dies, DbGrows, FilesGrow
<1>10. CASE ReplaySpills
  <2>1. NextLine \in Records
    BY <1>10, LinesAreRecords DEF ReplaySpills, Reads
  <2> QED  BY <1>10, <2>1, InAppend, SpillFiles DEF ReplaySpills, Reads, DbGrows
<1>11. CASE ReplayEnds
  BY <1>11, CommitStores DEF ReplayEnds, DbGrows, FilesGrow
<1>12. CASE ReplayFails
  <2>1. CASE CommitFails(rbuf) /\ UNCHANGED files
    BY <2>1, CommitFailsGrows DEF FilesGrow
  <2>2. CASE replay.read < Len(Lines) /\ SpillFails(Append(rbuf, NextLine)) /\ UNCHANGED db
    <3>1. NextLine \in Records
      BY <1>12, <2>2, LinesAreRecords DEF ReplayFails
    <3> QED  BY <2>2, <3>1, InAppend, SpillFailsGrows DEF DbGrows
  <2>3. CASE UNCHANGED <<db, files>>
    BY <2>3 DEF DbGrows, FilesGrow
  <2> QED  BY <1>12, <2>1, <2>2, <2>3 DEF ReplayFails
<1> QED  BY <1>1, <1>2, <1>3, <1>4, <1>5, <1>6, <1>7, <1>8, <1>9, <1>10, <1>11, <1>12, <1>13 DEF Next, Write

Fits(b, n) == b \in Seq(Records) /\ Len(b) <= n
\* The parts of TypeOK a step's own assignments decide.
OwnTypes ==
    /\ running \in BOOLEAN /\ backoff \in BOOLEAN
    /\ Fits(buf, MaxBuffer + faults) /\ Fits(rbuf, MaxBuffer)
    /\ got \subseteq Records /\ lost \subseteq Records
    /\ writes \in Nat /\ replays \in Nat /\ faults \in Nat
\* What a step may do to the position of the replay and to what it reported.
ReplayRests == replay' = replay /\ loaded' = loaded /\ (replay.file = 0 => rbuf' = <<>>)
ReplayStops == replay' = NoReplay /\ rbuf' = <<>> /\ loaded' \subseteq loaded \cup ({replay.file} \ {0})
ReplayStarts(f) == replay' = [file |-> f, read |-> 0] /\ loaded' = loaded
ReplayReads ==
    /\ replay.file # 0 /\ replay.read < Len(Lines)
    /\ replay' = [replay EXCEPT !.read = @ + 1] /\ loaded' = loaded

\* The rest of TypeOK follows.
LEMMA TypesFrom ==
    ASSUME TypeOK, FilesGrow, DbGrows, OwnTypes',
           ReplayRests \/ ReplayStops \/ ReplayReads \/ \E f \in 1..Len(files) : ReplayStarts(f)
    PROVE  TypeOK'
<1>1. /\ files' \in Seq(File) /\ Len(files) \in Nat /\ Len(files') \in Nat
      /\ Len(files) <= Len(files') /\ \A g \in 1..Len(files) : files'[g] = files[g]
      /\ db' \in [Records -> Nat]
  BY Growth
<1>2. replay \in [file : 0..Len(files), read : Nat] /\ loaded \subseteq 1..Len(files)
  BY DEF TypeOK
<1>3. \A g \in 1..Len(files') : Len(files'[g].rows) \in Nat
  BY <1>1 DEF File
<1> DEFINE Here == /\ replay' \in [file : 0..Len(files'), read : Nat]
                   /\ (replay'.file = 0 => rbuf' = <<>>)
                   /\ (replay'.file # 0 => replay'.read <= Len(Lines'))
                   /\ loaded' \subseteq 1..Len(files')
<1>4. ASSUME ReplayRests  PROVE Here
  <2>1. replay' = replay /\ loaded' = loaded /\ (replay.file = 0 => rbuf' = <<>>)
    BY <1>4 DEF ReplayRests
  <2>2. ASSUME replay.file # 0  PROVE Lines' = Lines /\ replay.read <= Len(Lines)
    <3>1. replay.file \in 1..Len(files) /\ replay.read <= Len(Lines)
      BY <1>1, <1>2, <2>2 DEF TypeOK
    <3> QED  BY <1>1, <2>1, <3>1 DEF Lines
  <2>3. replay.file = 0 => rbuf' = <<>>
    BY <2>1
  <2> QED  BY <1>1, <1>2, <2>1, <2>2, <2>3
<1>5. ASSUME ReplayStops  PROVE Here
  BY <1>1, <1>2, <1>5 DEF ReplayStops, NoReplay
<1>6. ASSUME \E f \in 1..Len(files) : ReplayStarts(f)  PROVE Here
  <2>1. PICK f \in 1..Len(files) : replay' = [file |-> f, read |-> 0] /\ loaded' = loaded
    BY <1>6 DEF ReplayStarts
  <2>2. replay'.file = f /\ replay'.read = 0 /\ Len(files'[f].rows) \in Nat /\ f # 0
    BY <1>1, <1>3, <2>1
  <2> QED  BY <1>1, <1>2, <2>1, <2>2 DEF Lines
<1>7. ASSUME ReplayReads  PROVE Here
  <2>1. /\ replay.file # 0 /\ replay.read < Len(Lines) /\ loaded' = loaded
        /\ replay' = [replay EXCEPT !.read = @ + 1]
    BY <1>7 DEF ReplayReads
  <2>2. replay.file \in 1..Len(files) /\ replay'.file = replay.file /\ replay'.read = replay.read + 1
    BY <1>2, <2>1
  <2>3. Lines' = Lines
    BY <1>1, <2>2 DEF Lines
  <2>4. Len(Lines) \in Nat
    BY LinesAreRecords, <2>1
  <2>5. replay' \in [file : 0..Len(files'), read : Nat]
    BY <1>1, <1>2, <2>1, <2>2
  <2> QED  BY <1>1, <1>2, <2>1, <2>2, <2>3, <2>4, <2>5
<1>8. Here
  BY <1>4, <1>5, <1>6, <1>7
<1> HIDE DEF Here
<1> QED  BY <1>1, <1>8 DEF TypeOK, OwnTypes, Fits, Here

\* The sink's steps.
LEMMA OwnTypesNext ==
    ASSUME SinkAssumption, TypeOK, Next
    PROVE  /\ OwnTypes'
           /\ ReplayRests \/ ReplayStops \/ ReplayReads \/ \E f \in 1..Len(files) : ReplayStarts(f)
<1> DEFINE Moves == ReplayRests \/ ReplayStops \/ ReplayReads \/ \E f \in 1..Len(files) : ReplayStarts(f)
<1>1. OwnTypes /\ MaxBuffer \in Nat /\ (replay.file = 0 => rbuf = <<>>)
  BY DEF TypeOK, OwnTypes, Fits, SinkAssumption
<1>2. Fits(<<>>, MaxBuffer) /\ \A n \in Nat : Fits(<<>>, MaxBuffer + n)
  BY <1>1 DEF Fits
<1>3. ASSUME NEW r \in Records, Receives(r)
      PROVE  /\ running' \in BOOLEAN /\ got' \subseteq Records /\ lost' \subseteq Records /\ writes' \in Nat
             /\ UNCHANGED <<rbuf, replay, loaded, replays>>
             /\ Append(buf, r) \in Seq(Records)
             /\ Fits(Append(buf, r), MaxBuffer + faults + 1)
             /\ ~Overflows(Append(buf, r)) => Fits(Append(buf, r), MaxBuffer)
  BY <1>1, <1>3, InAppend DEF OwnTypes, Receives, replayer, Fits, Overflows
<1>4. ASSUME UNCHANGED <<rbuf, replay, loaded>>  PROVE Moves
  BY <1>1, <1>4 DEF ReplayRests
<1>5. ASSUME NEW b, Fits(b, MaxBuffer)  PROVE \A n \in Nat : Fits(b, MaxBuffer + n)
  BY <1>1, <1>5 DEF Fits
<1>6. ASSUME NEW r \in Records, WriteSpills(r)  PROVE OwnTypes' /\ Moves
  BY <1>1, <1>2, <1>3, <1>4, <1>6 DEF WriteSpills, OwnTypes
<1>7. ASSUME NEW r \in Records, WriteSpillFails(r)  PROVE OwnTypes' /\ Moves
  <2>1. faults' = faults + 1
    BY <1>3, <1>7, SpillFailsGrows DEF WriteSpillFails
  <2>2. Fits(buf', MaxBuffer + faults')
    BY <1>1, <1>3, <1>7, <2>1 DEF WriteSpillFails, Fits, OwnTypes
  <2> QED  BY <1>1, <1>3, <1>4, <1>7, <2>1, <2>2 DEF WriteSpillFails, OwnTypes
<1>8. ASSUME NEW r \in Records, NEW late, WriteKeeps(r, late)  PROVE OwnTypes' /\ Moves
  BY <1>1, <1>3, <1>4, <1>5, <1>8 DEF WriteKeeps, OwnTypes
<1>9. ASSUME NEW r \in Records, NEW late, WriteFlushes(r, late)  PROVE OwnTypes' /\ Moves
  <2>1. CASE Commits(Append(buf, r)) /\ buf' = <<>> /\ backoff' = FALSE
    BY <1>1, <1>2, <1>3, <1>4, <1>9, <2>1, CommitStores DEF WriteFlushes, OwnTypes
  <2>2. CASE CommitFails(Append(buf, r)) /\ buf' = Append(buf, r) /\ backoff' = TRUE
    <3>1. faults' = faults + 1
      BY <1>3, <1>9, <2>2, CommitFailsGrows DEF WriteFlushes
    <3>2. Fits(buf', MaxBuffer + faults')
      BY <1>1, <1>3, <1>5, <1>9, <2>2, <3>1 DEF WriteFlushes, OwnTypes
    <3> QED  BY <1>1, <1>3, <1>4, <1>9, <2>2, <3>1, <3>2 DEF WriteFlushes, OwnTypes
  <2> QED  BY <1>9, <2>1, <2>2 DEF WriteFlushes
<1>22. CASE Flush
  <2>1. buf \in Seq(Records) /\ UNCHANGED <<rbuf, replay, loaded, replays>>
    BY <1>22 DEF TypeOK, Flush, replayer
  <2>2. CASE Commits(buf) /\ buf' = <<>> /\ backoff' = FALSE
    BY <1>1, <1>2, <1>4, <1>22, <2>1, <2>2, CommitStores DEF Flush, OwnTypes
  <2>3. CASE CommitFails(buf) /\ UNCHANGED buf /\ backoff' = TRUE
    <3>1. faults' = faults + 1
      BY <2>1, <2>3, CommitFailsGrows
    <3>2. Fits(buf', MaxBuffer + faults')
      BY <1>1, <2>3, <3>1 DEF OwnTypes, Fits
    <3> QED  BY <1>1, <1>4, <1>22, <2>1, <2>3, <3>1, <3>2 DEF Flush, OwnTypes
  <2> QED  BY <1>22, <2>2, <2>3 DEF Flush
<1>10. CASE BackoffEnds \/ Starts
  BY <1>1, <1>4, <1>10 DEF BackoffEnds, Starts, replayer, OwnTypes
<1>11. ASSUME Stops
       PROVE  /\ running' \in BOOLEAN /\ backoff' \in BOOLEAN /\ got' \subseteq Records /\ writes' \in Nat
              /\ UNCHANGED <<rbuf, replay, loaded, replays>> /\ buf' = <<>>
  BY <1>1, <1>11 DEF Stops, replayer, OwnTypes
<1>12. buf \in Seq(Records) /\ rbuf \in Seq(Records)
  BY DEF TypeOK
<1>13. CASE CloseFlushes
  <2>1. faults' = faults
    BY <1>12, <1>13, CommitStores DEF CloseFlushes
  <2> QED  BY <1>1, <1>2, <1>4, <1>11, <1>13, <2>1 DEF CloseFlushes, OwnTypes
<1>14. CASE CloseSpills
  <2>1. faults' = faults + 1
    BY <1>12, <1>14, CommitFailsGrows DEF CloseSpills
  <2>2. faults' \in Nat
    BY <1>1, <2>1 DEF OwnTypes
  <2> QED  BY <1>1, <1>2, <1>4, <1>11, <1>14, <2>1, <2>2 DEF CloseSpills, OwnTypes
<1>15. CASE Dies
  <2>1. faults' = faults + 1
    BY <1>12, <1>15, SpillFailsGrows DEF Dies, Fault
  <2>2. faults' \in Nat /\ lost' \subseteq Records
    BY <1>1, <1>15, <2>1 DEF OwnTypes, Dies
  <2> QED  BY <1>1, <1>2, <1>4, <1>11, <1>15, <2>1, <2>2 DEF Dies, OwnTypes
<1>16. ASSUME NEW f \in 1..Len(files), ReplayOpens(f)  PROVE OwnTypes' /\ Moves
  BY <1>1, <1>16 DEF ReplayOpens, collector, OwnTypes, ReplayStarts
<1>17. ASSUME Reads, Fits(rbuf', MaxBuffer)  PROVE OwnTypes' /\ Moves
  BY <1>1, <1>17 DEF Reads, collector, OwnTypes, ReplayReads
<1>18. CASE ReplayKeeps
  <2>1. Fits(rbuf', MaxBuffer)
    BY <1>12, <1>18, LinesAreRecords, InAppend DEF ReplayKeeps, Reads, Fits, Overflows
  <2> QED  BY <1>17, <1>18, <2>1 DEF ReplayKeeps
<1>19. CASE ReplaySpills
  BY <1>2, <1>17, <1>19 DEF ReplaySpills
<1>20. CASE ReplayEnds
  <2>1. faults' = faults
    BY <1>12, <1>20, CommitStores DEF ReplayEnds
  <2>2. ReplayStops
    BY <1>20 DEF ReplayEnds, Ends, ReplayStops
  <2> QED  BY <1>1, <1>2, <1>20, <2>1, <2>2 DEF ReplayEnds, Ends, collector, OwnTypes
<1>21. CASE ReplayFails
  <2>1. faults' \in Nat /\ faults' >= faults
    <3>1. faults \in Nat
      BY <1>1 DEF OwnTypes
    <3>2. CASE CommitFails(rbuf)
      BY <1>12, <3>1, <3>2, CommitFailsGrows
    <3>3. CASE replay.read < Len(Lines) /\ SpillFails(Append(rbuf, NextLine)) /\ UNCHANGED db
      <4>1. NextLine \in Records
        BY <1>21, <3>3, LinesAreRecords DEF ReplayFails
      <4>2. Append(rbuf, NextLine) \in Seq(Records)
        BY <1>12, <4>1
      <4>3. faults' = faults + 1
        BY <3>3, <4>2, SpillFailsGrows
      <4> QED  BY <3>1, <3>3, <4>3
    <3>4. CASE UNCHANGED <<db, files, faults>>
      BY <3>1, <3>4
    <3>5. CASE Fault /\ UNCHANGED <<db, files>>
      BY <3>1, <3>5 DEF Fault
    <3> QED  BY <1>21, <3>2, <3>3, <3>4, <3>5 DEF ReplayFails
  <2>2. UNCHANGED collector /\ UNCHANGED replays /\ ReplayStops
    BY <1>21 DEF ReplayFails, Ends, ReplayStops
  <2>3. Fits(buf', MaxBuffer + faults') /\ Fits(rbuf', MaxBuffer)
    BY <1>1, <1>2, <2>1, <2>2 DEF Fits, OwnTypes, ReplayStops, collector
  <2> QED  BY <1>1, <2>1, <2>2, <2>3 DEF collector, OwnTypes
<1> QED
  BY <1>6, <1>7, <1>8, <1>9, <1>10, <1>13, <1>14, <1>15, <1>16, <1>18, <1>19, <1>20, <1>21, <1>22
     DEF Next, Write

\* Each step keeps the types, and the bounds of the buffers.
LEMMA TypesNext ==
    ASSUME SinkAssumption, TypeOK, [Next]_vars
    PROVE  TypeOK'
<1>1. CASE UNCHANGED vars
  BY <1>1 DEF vars, collector, replayer, TypeOK, Lines
<1>2. CASE Next
  BY <1>2, StepGrows, OwnTypesNext, TypesFrom
<1> QED  BY <1>1, <1>2

\* Types, and buffers within max_buffer_rows (and one for each failed spill).
THEOREM TypesHold == Spec => []TypeOK
<1>1. ASSUME Init  PROVE TypeOK
  <2>1. <<>> \in Seq(Records) /\ <<>> \in Seq(File) /\ Len(<<>>) = 0
    OBVIOUS
  <2>2. replay \in [file : 0..Len(files), read : Nat] /\ db \in [Records -> Nat] /\ replay.file = 0
    BY <1>1, <2>1 DEF Init, NoReplay
  <2>3. Len(buf) <= MaxBuffer + faults /\ Len(rbuf) <= MaxBuffer /\ files \in Seq(File)
    BY <1>1, <2>1, SinkAssumption DEF Init, SinkAssumption
  <2>4. /\ running \in BOOLEAN /\ backoff \in BOOLEAN
        /\ loaded \subseteq 1..Len(files) /\ got \subseteq Records /\ lost \subseteq Records
        /\ writes \in Nat /\ replays \in Nat /\ faults \in Nat
    BY <1>1 DEF Init
  <2>5. buf \in Seq(Records) /\ rbuf \in Seq(Records) /\ rbuf = <<>>
    BY <1>1, <2>1 DEF Init
  <2> QED  BY <2>2, <2>3, <2>4, <2>5 DEF TypeOK
<1>2. TypeOK /\ [Next]_vars => TypeOK'
  BY SinkAssumption, TypesNext
<1> QED  BY <1>1, <1>2, PTL DEF Spec

-----------------------------------------------------------------------------
(* Every record that write took is accounted for                            *)
Safe(r) == Stored(r) \/ In(r, buf) \/ Filed(r, 0) \/ r \in lost

\* A step keeps Accounted when the records it took, and those that were in the
\* buffer, have a place after it.
LEMMA AccountedFrom ==
    ASSUME TypeOK, FilesGrow, DbGrows, Accounted, lost \subseteq lost',
           \A r \in Records \ Bad : In(r, buf) \/ r \in got' \ got => Safe(r)',
           got' \subseteq Records
    PROVE  Accounted'
<1> SUFFICES ASSUME NEW r \in got' \ Bad  PROVE Safe(r)'
  BY DEF Accounted, Safe
<1>1. r \in Records \ Bad
  OBVIOUS
<1>2. (Stored(r) => Stored(r)') /\ (Filed(r, 0) => Filed(r, 0)')
  BY <1>1, Growth
<1>3. CASE In(r, buf) \/ r \notin got
  BY <1>1, <1>3
<1>4. CASE ~In(r, buf) /\ r \in got
  BY <1>1, <1>2, <1>4 DEF Accounted, Safe
<1> QED  BY <1>3, <1>4

\* Each step keeps Accounted.
LEMMA AccountedNext ==
    ASSUME TypeOK, TypeOK', Accounted, [Next]_vars
    PROVE  Accounted'
<1>1. FilesGrow /\ DbGrows
  BY StepGrows
<1>2. /\ got' \subseteq Records /\ got \subseteq Records
      /\ buf \in Seq(Records) /\ rbuf \in Seq(Records) /\ 0 \in 0..Len(files)
  BY Growth, <1>1 DEF TypeOK
<1>3. ASSUME UNCHANGED <<buf, got, lost>>  PROVE Accounted'
  <2>1. \A r : In(r, buf) => Safe(r)'
    BY <1>3 DEF Safe, In
  <2> QED  BY <1>1, <1>2, <1>3, <2>1, AccountedFrom
<1>4. ASSUME NEW r \in Records, Receives(r),
             \A q \in Records \ Bad : In(q, Append(buf, r)) => Safe(q)'
      PROVE  Accounted'
  <2>1. lost' = lost /\ got' = got \cup {r}
    BY <1>4 DEF Receives
  <2>2. \A q : In(q, buf) \/ q = r => In(q, Append(buf, r))
    BY <1>2, InAppend
  <2> QED  BY <1>1, <1>2, <1>4, <2>1, <2>2, AccountedFrom
<1>5. ASSUME NEW b, buf' = b  PROVE \A q : In(q, b) => Safe(q)'
  BY <1>5 DEF Safe, In
<1>6. ASSUME NEW r \in Records, WriteSpills(r)  PROVE Accounted'
  <2>1. Receives(r) /\ Spills(Append(buf, r)) /\ Append(buf, r) \in Seq(Records)
    BY <1>2, <1>6, InAppend DEF WriteSpills
  <2>2. \A q : In(q, Append(buf, r)) => Filed(q, 0)'
    BY <1>2, <2>1, SpillFiles
  <2> QED  BY <1>4, <2>1, <2>2 DEF Safe
<1>7. ASSUME NEW r \in Records, WriteSpillFails(r)  PROVE Accounted'
  BY <1>4, <1>5, <1>7 DEF WriteSpillFails
<1>8. ASSUME NEW r \in Records, NEW late, WriteKeeps(r, late)  PROVE Accounted'
  BY <1>4, <1>5, <1>8 DEF WriteKeeps
<1>9. ASSUME NEW r \in Records, NEW late, WriteFlushes(r, late)  PROVE Accounted'
  <2>1. Receives(r) /\ Append(buf, r) \in Seq(Records)
    BY <1>2, <1>9, InAppend DEF WriteFlushes
  <2>2. CASE Commits(Append(buf, r))
    <3>1. \A q \in Records \ Bad : In(q, Append(buf, r)) => Stored(q)'
      BY <2>1, <2>2, CommitStores
    <3> QED  BY <1>4, <2>1, <3>1 DEF Safe
  <2>3. CASE buf' = Append(buf, r)
    BY <1>4, <1>5, <2>1, <2>3
  <2> QED  BY <1>9, <2>2, <2>3 DEF WriteFlushes
<1>16. CASE Flush
  <2>1. got' = got /\ lost' = lost
    BY <1>16 DEF Flush
  <2>2. CASE Commits(buf)
    <3>1. \A q \in Records \ Bad : In(q, buf) => Safe(q)'
      BY <1>2, <2>2, CommitStores DEF Safe
    <3> QED  BY <1>1, <1>2, <2>1, <3>1, AccountedFrom
  <2> QED  BY <1>3, <1>16, <2>1, <2>2 DEF Flush
<1>10. ASSUME Stops, lost \subseteq lost', \A q \in Records \ Bad : In(q, buf) => Safe(q)'
       PROVE  Accounted'
  BY <1>1, <1>2, <1>10, AccountedFrom DEF Stops
<1>11. CASE CloseFlushes
  <2>1. CASE buf = <<>>
    BY <1>10, <1>11, <2>1 DEF CloseFlushes, In
  <2>2. CASE Commits(buf)
    <3>1. \A q \in Records \ Bad : In(q, buf) => Stored(q)'
      BY <1>2, <2>2, CommitStores
    <3> QED  BY <1>10, <1>11, <3>1 DEF CloseFlushes, Safe
  <2> QED  BY <1>11, <2>1, <2>2 DEF CloseFlushes
<1>12. CASE CloseSpills
  <2>1. \A q : In(q, buf) => Filed(q, 0)'
    BY <1>2, <1>12, SpillFiles DEF CloseSpills
  <2> QED  BY <1>10, <1>12, <2>1 DEF CloseSpills, Safe
<1>13. CASE Dies
  BY <1>10, <1>13 DEF Dies, Safe
<1>14. CASE UNCHANGED collector
  BY <1>3, <1>14 DEF collector
<1>15. CASE \/ UNCHANGED vars \/ BackoffEnds \/ Starts \/ (\E f \in 1..Len(files) : ReplayOpens(f))
            \/ ReplayKeeps \/ ReplaySpills \/ ReplayEnds \/ ReplayFails
  BY <1>3, <1>14, <1>15 DEF vars, BackoffEnds, Starts, ReplayOpens, ReplayKeeps, ReplaySpills, Reads,
     ReplayEnds, ReplayFails, collector
<1> QED
  BY <1>6, <1>7, <1>8, <1>9, <1>11, <1>12, <1>13, <1>15, <1>16 DEF Next, Write

\* What write took is in the database, in the buffer, in a complete spill
\* file, or died with its process.
THEOREM AccountedHolds == Spec => []Accounted
<1>1. Init => Accounted
  BY DEF Init, Accounted
<1>2. TypeOK /\ TypeOK' /\ Accounted /\ [Next]_vars => Accounted'
  BY AccountedNext
<1> QED  BY <1>1, <1>2, TypesHold, PTL DEF Spec

-----------------------------------------------------------------------------
(* A replayed file's rows are kept                                          *)
\* A step keeps Progress when the lines it read, and those in the replay's
\* buffer, have a place after it.
LEMMA ProgressFrom ==
    ASSUME TypeOK, FilesGrow, DbGrows, Progress,
           NEW f, f = replay.file, f # 0, replay'.file = f,
           \A r \in Records \ Bad : In(r, rbuf) => Kept(r, f)',
           \/ replay'.read = replay.read
           \/ /\ replay'.read = replay.read + 1 /\ replay.read < Len(Lines)
              /\ \A r \in Records \ Bad : r = NextLine => Kept(r, f)'
    PROVE  Progress'
<1>1. /\ f \in 1..Len(files) /\ Lines \in Seq(Records)
      /\ replay.read \in Nat /\ Len(Lines) \in Nat /\ replay.read <= Len(Lines)
  BY LinesAreRecords DEF TypeOK
<1>2. Lines' = Lines
  BY <1>1, Growth DEF Lines
<1>3. ASSUME NEW i \in 1..replay.read, NEW r, r = Lines[i]  PROVE Kept(r, f)'
  <2>1. r \in Records /\ Kept(r, f)
    BY <1>1, <1>3 DEF Progress
  <2>2. (Stored(r) => Stored(r)') /\ (Filed(r, f) => Filed(r, f)')
    BY <2>1, Growth
  <2> QED  BY <2>1, <2>2 DEF Kept
<1>4. ASSUME NEW i \in 1..replay'.read, NEW r, r = Lines[i]  PROVE Kept(r, f)'
  <2>1. CASE i \in 1..replay.read
    BY <1>3, <1>4, <2>1
  <2>2. CASE i \notin 1..replay.read
    <3>1. i = replay.read + 1 /\ r = NextLine /\ r \in Records
      BY <1>1, <1>4, <2>2 DEF NextLine
    <3>2. CASE r \in Bad
      BY <3>2 DEF Kept
    <3>3. CASE r \notin Bad
      BY <1>1, <1>4, <2>2, <3>1, <3>3
    <3> QED  BY <3>2, <3>3
  <2> QED  BY <2>1, <2>2
<1> QED  BY <1>2, <1>4 DEF Progress, Kept, Stored, Filed

\* Each step keeps Progress.
LEMMA ProgressNext ==
    ASSUME TypeOK, TypeOK', Progress, [Next]_vars
    PROVE  Progress'
<1>1. FilesGrow /\ DbGrows
  BY StepGrows
<1>2. rbuf \in Seq(Records) /\ replay.file \in 0..Len(files)
  BY Growth, <1>1 DEF TypeOK
<1>3. ASSUME UNCHANGED <<replay, rbuf>>  PROVE Progress'
  <2>1. CASE replay.file = 0
    BY <1>3, <2>1 DEF Progress
  <2>2. CASE replay.file # 0
    <3>1. \A r : In(r, rbuf) => Kept(r, replay.file)'
      BY <1>3 DEF Kept, In
    <3> QED  BY <1>1, <1>3, <2>2, <3>1, ProgressFrom
  <2> QED  BY <2>1, <2>2
<1>4. ASSUME replay' = NoReplay  PROVE Progress'
  BY <1>4 DEF NoReplay, Progress
<1>5. ASSUME NEW f \in 1..Len(files), ReplayOpens(f)  PROVE Progress'
  <2>1. replay'.read = 0
    BY <1>5 DEF ReplayOpens
  <2> QED  BY <2>1 DEF Progress
<1>6. ASSUME Reads
      PROVE  /\ replay.file # 0 /\ replay'.file = replay.file
             /\ replay'.read = replay.read + 1 /\ replay.read < Len(Lines)
             /\ Append(rbuf, NextLine) \in Seq(Records)
             /\ \A r : In(r, rbuf) \/ r = NextLine => In(r, Append(rbuf, NextLine))
  <2>1. NextLine \in Records /\ replay.file # 0
    BY <1>6, LinesAreRecords DEF Reads
  <2>2. replay'.file = replay.file /\ replay'.read = replay.read + 1 /\ replay.read < Len(Lines)
    BY <1>6 DEF Reads, TypeOK
  <2> QED  BY <1>2, <2>1, <2>2, InAppend
<1>7. CASE ReplayKeeps
  <2>1. ASSUME NEW f, f = replay.file, NEW r, In(r, Append(rbuf, NextLine))  PROVE Kept(r, f)'
    <3>1. rbuf' = Append(rbuf, NextLine)
      BY <1>7 DEF ReplayKeeps
    <3> QED  BY <2>1, <3>1 DEF Kept, In
  <2> QED  BY <1>1, <1>6, <1>7, <2>1, ProgressFrom DEF ReplayKeeps
<1>8. CASE ReplaySpills
  <2>1. ASSUME NEW f, f = replay.file, NEW r, In(r, Append(rbuf, NextLine))  PROVE Kept(r, f)'
    <3>1. Filed(r, f)'
      BY <1>2, <1>6, <1>8, <2>1, SpillFiles DEF ReplaySpills
    <3> QED  BY <3>1 DEF Kept
  <2> QED  BY <1>1, <1>6, <1>8, <2>1, ProgressFrom DEF ReplaySpills
<1>9. CASE ReplayEnds \/ ReplayFails
  BY <1>4, <1>9 DEF ReplayEnds, ReplayFails, Ends
<1>10. CASE UNCHANGED replayer
  BY <1>3, <1>10 DEF replayer
<1>11. CASE \/ UNCHANGED vars \/ Flush \/ BackoffEnds \/ Starts \/ CloseFlushes \/ CloseSpills \/ Dies
            \/ \E r \in Records : Write(r)
  BY <1>10, <1>11 DEF vars, Flush, BackoffEnds, Starts, CloseFlushes, CloseSpills, Dies, Stops, Write, Receives,
     WriteSpills, WriteSpillFails, WriteKeeps, WriteFlushes
<1> QED  BY <1>5, <1>7, <1>8, <1>9, <1>11 DEF Next

\* Each step keeps ReplayKeepsRows.
LEMMA ReplayKeepsRowsNext ==
    ASSUME TypeOK, TypeOK', Progress, ReplayKeepsRows, [Next]_vars
    PROVE  ReplayKeepsRows'
<1>1. FilesGrow /\ DbGrows
  BY StepGrows
<1>2. /\ loaded \subseteq 1..Len(files) /\ files \in Seq(File)
      /\ \A g \in 1..Len(files) : files'[g] = files[g] /\ files[g].rows \in Seq(Records)
  <2>1. loaded \subseteq 1..Len(files) /\ files \in Seq(File)
    BY DEF TypeOK
  <2>2. ASSUME NEW g \in 1..Len(files)  PROVE files[g].rows \in Seq(Records)
    <3>1. files[g] \in File
      BY <2>1, <2>2
    <3> QED  BY <3>1 DEF File
  <2> QED  BY <1>1, <2>1, <2>2, Growth
<1>3. ASSUME NEW f \in loaded, NEW i \in 1..Len(files[f].rows), NEW r, r = files[f].rows[i]
      PROVE  r \in Bad \/ Stored(r)' \/ Filed(r, f)'
  <2>1. r \in Records /\ (r \in Bad \/ Stored(r) \/ Filed(r, f))
    BY <1>2, <1>3 DEF ReplayKeepsRows
  <2> QED  BY <1>1, <2>1, Growth
<1>4. ASSUME ReplayEnds, NEW f, f = replay.file, NEW i \in 1..Len(files[f].rows), NEW r, r = files[f].rows[i]
      PROVE  f \in 1..Len(files) /\ (r \in Bad \/ Stored(r)' \/ Filed(r, f)')
  <2>1. f # 0 /\ f \in 1..Len(files) /\ r \in Records /\ replay.read = Len(files[f].rows)
    BY <1>2, <1>4, LinesAreRecords DEF ReplayEnds, Lines
  <2>2. Kept(r, f)
    BY <1>4, <2>1 DEF Progress, Lines
  <2>3. In(r, rbuf) => rbuf # <<>>
    BY DEF In
  <2>4. In(r, rbuf) /\ r \notin Bad => Stored(r)'
    BY <1>4, <2>1, <2>3, CommitStores DEF ReplayEnds, TypeOK
  <2>5. (Stored(r) => Stored(r)') /\ (Filed(r, f) => Filed(r, f)')
    BY <1>1, <2>1, Growth
  <2> QED  BY <2>1, <2>2, <2>4, <2>5 DEF Kept
<1>5. CASE loaded' = loaded
  <2>1. ASSUME NEW f \in loaded', NEW i \in 1..Len(files'[f].rows), NEW r, r = files'[f].rows[i]
        PROVE  r \in Bad \/ Stored(r)' \/ Filed(r, f)'
    BY <1>2, <1>3, <1>5, <2>1
  <2> QED  BY <2>1 DEF ReplayKeepsRows, Stored, Filed
<1>6. CASE ReplayEnds
  <2>1. ASSUME NEW f \in loaded', NEW i \in 1..Len(files'[f].rows), NEW r, r = files'[f].rows[i]
        PROVE  r \in Bad \/ Stored(r)' \/ Filed(r, f)'
    <3>1. CASE f \in loaded
      BY <1>2, <1>3, <2>1, <3>1
    <3>2. CASE f = replay.file
      <4>1. f \in 1..Len(files)
        BY <1>6, <3>2, LinesAreRecords DEF ReplayEnds
      <4> QED  BY <1>2, <1>4, <1>6, <2>1, <3>2, <4>1
    <3> QED  BY <1>6, <2>1, <3>1, <3>2 DEF ReplayEnds
  <2> QED  BY <2>1 DEF ReplayKeepsRows, Stored, Filed
<1>7. CASE UNCHANGED replayer
  BY <1>5, <1>7 DEF replayer
<1>8. CASE \/ UNCHANGED vars \/ Flush \/ BackoffEnds \/ Starts \/ CloseFlushes \/ CloseSpills \/ Dies
           \/ \E r \in Records : Write(r)
  BY <1>7, <1>8 DEF vars, Flush, BackoffEnds, Starts, CloseFlushes, CloseSpills, Dies, Stops, Write, Receives,
     WriteSpills, WriteSpillFails, WriteKeeps, WriteFlushes
<1>9. CASE ReplayKeeps \/ ReplaySpills \/ ReplayFails \/ \E f \in 1..Len(files) : ReplayOpens(f)
  BY <1>5, <1>9 DEF ReplayKeeps, ReplaySpills, Reads, ReplayFails, ReplayOpens
<1> QED  BY <1>6, <1>8, <1>9 DEF Next

\* A file that replay-spill has reported has all its rows that can be
\* converted in the database or in a younger complete file.
THEOREM ReplayKeepsRowsHolds == Spec => []ReplayKeepsRows
<1>1. Init => Progress /\ ReplayKeepsRows
  BY DEF Init, NoReplay, Progress, ReplayKeepsRows
<1>2. TypeOK /\ TypeOK' /\ Progress /\ ReplayKeepsRows /\ [Next]_vars => (Progress /\ ReplayKeepsRows)'
  BY ProgressNext, ReplayKeepsRowsNext
<1> QED  BY <1>1, <1>2, TypesHold, PTL DEF Spec
=============================================================================
