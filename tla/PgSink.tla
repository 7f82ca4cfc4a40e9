-------------------------------- MODULE PgSink --------------------------------
(***************************************************************************)
(* The collector's database sink (src/src/storage/pg_sink.py): records are *)
(* buffered, inserted in batches, and written to a spill file when the     *)
(* buffer overflows or the last flush fails; an operator loads a file      *)
(* again with replay-spill (db.py), a process of its own which runs the    *)
(* same class with flush_rows and flush_seconds out of reach.              *)
(*                                                                         *)
(* A record is a model value.  Trades and tops of the book have a primary  *)
(* key, so a second insert does nothing; market.collector_events has none; *)
(* a Bad record cannot be converted.  A flush is one transaction: it may   *)
(* fail before the commit, or with the commit applied and its answer lost. *)
(* A spill may fail and leave the front of a file.  Left out: the clock    *)
(* (late and backoff stand for it), counters, the order of kinds in a file.*)
(***************************************************************************)
EXTENDS Integers, Sequences, FiniteSets

CONSTANTS
    Keyed, Events, Bad,   \* the records, by what the database makes of them
    MaxBuffer,            \* max_buffer_rows, the default for both processes
    FlushRows,            \* flush_rows
    MaxWrites,            \* bound: records written
    MaxFiles,             \* bound: spill files
    MaxReplays,           \* bound: replays
    MaxFault              \* bound: failed flushes and spills, crashes

Records == Keyed \cup Events \cup Bad

ASSUME SinkAssumption ==
    /\ Keyed \cap Events = {} /\ Bad \cap (Keyed \cup Events) = {}
    /\ MaxBuffer \in Nat \ {0} /\ FlushRows \in Nat \ {0}
    /\ MaxWrites \in Nat /\ MaxFiles \in Nat /\ MaxReplays \in Nat /\ MaxFault \in Nat

VARIABLES
    running,   \* the collector has a sink
    buf,       \* _buf
    backoff,   \* now < _retry_at
    db,        \* the rows of each record in the tables
    files,     \* spill files: their records, and whether all were written
    replay,    \* replay-spill: the file (0: none runs) and the lines read
    rbuf,      \* _buf of its sink
    loaded,    \* history: the files replay-spill has reported as loaded
    got,       \* history: the records passed to write
    lost,      \* history: the records whose process died with them in _buf
    writes, replays, faults

collector == <<running, buf, backoff, got, lost, writes>>
replayer == <<replay, rbuf, loaded, replays>>
vars == <<collector, db, files, replayer, faults>>

-----------------------------------------------------------------------------
In(r, s) == \E i \in 1..Len(s) : s[i] = r
NoReplay == [file |-> 0, read |-> 0]
\* ON CONFLICT DO NOTHING where there is a key; bad rows are not in the batch.
Inserted(b) ==
    [r \in Records |->
        IF r \in Bad \/ ~In(r, b) THEN db[r] ELSE IF r \in Keyed THEN 1 ELSE db[r] + 1]

Fault == faults < MaxFault /\ faults' = faults + 1
Commits(b) == db' = Inserted(b) /\ UNCHANGED faults
CommitFails(b) ==
    /\ Fault
    /\ \/ UNCHANGED db
       \/ db' = Inserted(b)

Spills(b) ==
    /\ Len(files) < MaxFiles
    /\ files' = Append(files, [rows |-> b, whole |-> TRUE])
SpillFails(b) ==
    /\ Fault
    /\ \/ UNCHANGED files
       \/ /\ Len(files) < MaxFiles
          /\ \E n \in 1..Len(b) :
                files' = Append(files, [rows |-> SubSeq(b, 1, n), whole |-> FALSE])

Init ==
    /\ running = TRUE /\ buf = <<>> /\ backoff = FALSE
    /\ db = [r \in Records |-> 0] /\ files = <<>>
    /\ replay = NoReplay /\ rbuf = <<>> /\ loaded = {}
    /\ got = {} /\ lost = {}
    /\ writes = 0 /\ replays = 0 /\ faults = 0

-----------------------------------------------------------------------------
(* write                                                                    *)
\* A trade may be received twice; an event is a record of its own.
Receives(r) ==
    /\ running /\ writes < MaxWrites /\ (r \in Events => r \notin got)
    /\ got' = got \cup {r} /\ writes' = writes + 1
    /\ UNCHANGED <<running, lost, replayer>>
Overflows(b) == Len(b) > MaxBuffer
Due(b, late) == ~backoff /\ (late \/ Len(b) >= FlushRows)

WriteSpills(r) ==
    /\ Receives(r) /\ Overflows(Append(buf, r))
    /\ Spills(Append(buf, r)) /\ buf' = <<>>
    /\ UNCHANGED <<backoff, db, faults>>

\* _spill raises out of write with the buffer as it is.
WriteSpillFails(r) ==
    /\ Receives(r) /\ Overflows(Append(buf, r))
    /\ SpillFails(Append(buf, r)) /\ buf' = Append(buf, r)
    /\ UNCHANGED <<backoff, db>>

WriteKeeps(r, late) ==
    /\ Receives(r) /\ ~Overflows(Append(buf, r)) /\ ~Due(Append(buf, r), late)
    /\ buf' = Append(buf, r)
    /\ UNCHANGED <<backoff, db, files, faults>>

WriteFlushes(r, late) ==
    /\ Receives(r) /\ ~Overflows(Append(buf, r)) /\ Due(Append(buf, r), late)
    /\ \/ Commits(Append(buf, r)) /\ buf' = <<>> /\ backoff' = FALSE
       \/ CommitFails(Append(buf, r)) /\ buf' = Append(buf, r) /\ backoff' = TRUE
    /\ UNCHANGED files

\* Once per status interval, and when its connections end, the collector
\* flushes without a write; flush itself does not look at _retry_at.
Flush ==
    /\ running /\ buf # <<>>
    /\ \/ Commits(buf) /\ buf' = <<>> /\ backoff' = FALSE
       \/ CommitFails(buf) /\ UNCHANGED buf /\ backoff' = TRUE
    /\ UNCHANGED <<running, got, lost, writes, files, replayer>>

BackoffEnds ==
    /\ backoff /\ backoff' = FALSE
    /\ UNCHANGED <<running, buf, got, lost, writes, db, files, replayer, faults>>

-----------------------------------------------------------------------------
(* close, the end of the process, and its next start                        *)
Stops == running /\ running' = FALSE /\ buf' = <<>> /\ backoff' = FALSE
         /\ UNCHANGED <<got, writes, replayer>>

CloseFlushes ==
    /\ Stops /\ UNCHANGED <<lost, files>>
    /\ IF buf = <<>> THEN UNCHANGED <<db, faults>> ELSE Commits(buf)

\* Mutant of CloseSpills: what could not be flushed is dropped.
CloseForgets == Stops /\ buf # <<>> /\ CommitFails(buf) /\ UNCHANGED <<lost, files>>
CloseSpills ==
    /\ Stops /\ buf # <<>> /\ CommitFails(buf) /\ Spills(buf)
    /\ UNCHANGED lost

\* The process is killed, or its last spill fails after its last flush.
Dies ==
    /\ Stops /\ lost' = lost \cup {r \in Records : In(r, buf)}
    /\ (Fault /\ UNCHANGED files) \/ SpillFails(buf)
    /\ UNCHANGED db

Starts ==
    /\ ~running /\ running' = TRUE
    /\ UNCHANGED <<buf, backoff, got, lost, writes, db, files, replayer, faults>>

-----------------------------------------------------------------------------
(* replay_spill                                                             *)
Lines == files[replay.file].rows
Ends == replay' = NoReplay /\ rbuf' = <<>>

ReplayOpens(f) ==
    /\ replay.file = 0 /\ replays < MaxReplays /\ replays' = replays + 1
    /\ replay' = [file |-> f, read |-> 0]
    /\ UNCHANGED <<rbuf, loaded, collector, db, files, faults>>

Reads ==
    /\ replay.file # 0 /\ replay.read < Len(Lines)
    /\ replay' = [replay EXCEPT !.read = @ + 1]
    /\ UNCHANGED <<loaded, replays, collector, db, faults>>
NextLine == Lines[replay.read + 1]

ReplayKeeps ==
    /\ Reads /\ ~Overflows(Append(rbuf, NextLine))
    /\ rbuf' = Append(rbuf, NextLine) /\ UNCHANGED files

\* The replay's sink overflows like the collector's.
ReplaySpills ==
    /\ Reads /\ Overflows(Append(rbuf, NextLine))
    /\ Spills(Append(rbuf, NextLine)) /\ rbuf' = <<>>

\* Mutant of ReplayEnds: what flush() returns is not looked at.
ReplayEndsAnyhow ==
    /\ replay.file # 0 /\ replay.read = Len(Lines) /\ Ends
    /\ Commits(rbuf) \/ CommitFails(rbuf)
    /\ loaded' = loaded \cup {replay.file}
    /\ UNCHANGED <<replays, collector, files>>
\* flush() returns True at once when nothing is pending.
ReplayEnds ==
    /\ replay.file # 0 /\ replay.read = Len(Lines) /\ Ends
    /\ IF rbuf = <<>> THEN UNCHANGED <<db, faults>> ELSE Commits(rbuf)
    /\ loaded' = loaded \cup {replay.file}
    /\ UNCHANGED <<replays, collector, files>>

\* The flush fails, a spill raises, the last line is cut, or it is killed.
ReplayFails ==
    /\ replay.file # 0 /\ Ends
    /\ \/ replay.read = Len(Lines) /\ rbuf # <<>> /\ CommitFails(rbuf) /\ UNCHANGED files
       \/ /\ replay.read < Len(Lines) /\ Overflows(Append(rbuf, NextLine))
          /\ SpillFails(Append(rbuf, NextLine)) /\ UNCHANGED db
       \/ /\ replay.read = Len(Lines) /\ ~files[replay.file].whole
          /\ UNCHANGED <<db, files, faults>>
       \/ Fault /\ UNCHANGED <<db, files>>
    /\ UNCHANGED <<loaded, replays, collector>>

-----------------------------------------------------------------------------
Write(r) ==
    \/ WriteSpills(r) \/ WriteSpillFails(r)
    \/ \E late \in BOOLEAN : WriteKeeps(r, late) \/ WriteFlushes(r, late)
Next ==
    \/ \E r \in Records : Write(r)
    \/ Flush \/ BackoffEnds \/ CloseFlushes \/ CloseSpills \/ Dies \/ Starts
    \/ \E f \in 1..Len(files) : ReplayOpens(f)
    \/ ReplayKeeps \/ ReplaySpills \/ ReplayEnds \/ ReplayFails
Spec == Init /\ [][Next]_vars

-----------------------------------------------------------------------------
File == [rows : Seq(Records), whole : BOOLEAN]
\* Types; and the buffers are bounded: only a failed spill lets the
\* collector's grow past max_buffer_rows.
TypeOK ==
    /\ running \in BOOLEAN /\ backoff \in BOOLEAN
    /\ buf \in Seq(Records) /\ Len(buf) <= MaxBuffer + faults
    /\ rbuf \in Seq(Records) /\ Len(rbuf) <= MaxBuffer
    /\ db \in [Records -> Nat] /\ files \in Seq(File)
    /\ replay \in [file : 0..Len(files), read : Nat]
    /\ (replay.file = 0 => rbuf = <<>>) /\ (replay.file # 0 => replay.read <= Len(Lines))
    /\ loaded \subseteq 1..Len(files) /\ got \subseteq Records /\ lost \subseteq Records
    /\ writes \in Nat /\ replays \in Nat /\ faults \in Nat

Stored(r) == db[r] > 0
\* A whole file, younger than file f, has the record.
Filed(r, f) == \E g \in 1..Len(files) : g > f /\ files[g].whole /\ In(r, files[g].rows)

\* Whatever fails, and in whatever order, a record that write took and that
\* can be converted is in the database, in the buffer or in a complete spill
\* file, unless its process died with it.
Accounted ==
    \A r \in got \ Bad : Stored(r) \/ In(r, buf) \/ Filed(r, 0) \/ r \in lost

\* replay-spill has reported a file as loaded: each of its records is in the
\* database, or in a younger spill file, so that the file may be deleted.
ReplayKeepsRows ==
    \A f \in loaded : \A i \in 1..Len(files[f].rows) :
        files[f].rows[i] \in Bad \/ Stored(files[f].rows[i]) \/ Filed(files[f].rows[i], f)

=============================================================================
