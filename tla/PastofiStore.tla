---------------------------- MODULE PastofiStore ----------------------------
(***************************************************************************)
(* The records of the pastofi trader (store.py, and the calls of           *)
(* trader.py): signals.jsonl and trades.jsonl, each with a table in the    *)
(* database that a thread of its own fills from a queue.                   *)
(*                                                                         *)
(* A signal is written when it comes, when its entry order is refused, and *)
(* when the engine's trade ends; the last line of a signal counts.  A      *)
(* trade is written once, after the ledger has booked it.  The clock loop  *)
(* and the order threads write: each appends the line under a lock and     *)
(* then puts the record into the queue.  At start the files are read into  *)
(* the tables.  The ledger is PastofiTrader's; here it is the stage of     *)
(* every trade.                                                            *)
(***************************************************************************)
EXTENDS FiniteSets, JsonLines

CONSTANTS
    Trades,       \* signals, and the trades they become
    MaxCrash,     \* bound: crashes
    MaxDbFault    \* bound: failures of the database

VARIABLES
    up,           \* off, build (runner.build before sync_all) or on
    stage, virt,  \* the ledger's stage of every trade, the engine's open trades
    file, rows,   \* the files and the tables
    writing,      \* per thread: the record in Store.signal or Store.trade
    queue,        \* Store._q
    \* history: what the threads began to write, the crashes and what each
    \* may cost a file, no database failure since the last sync_all, records
    \* of one key whose puts may have changed places
    begun, crashes, cost, synced, raced,
    dbFaults

ledger == <<stage, virt>>
storeHistory == <<begun, crashes, cost, synced, raced, dbFaults>>
storeVars == <<up, ledger, file, rows, writing, queue, storeHistory>>

Files == {"signals", "trades"}
Threads == {"loop", "order"}
Rec(key, what) == [key |-> key, what |-> what]
NoRow == Rec("none", "none")
Nothing == [at |-> "idle", file |-> "trades", rec |-> NoRow]

StoreInit ==
    /\ up = "off" /\ stage = [k \in Trades |-> "unseen"] /\ virt = {}
    /\ file = [f \in Files |-> EmptyFile]
    /\ rows = [f \in Files |-> [k \in Trades |-> NoRow]]
    /\ writing = [t \in Threads |-> Nothing] /\ queue = <<>>
    /\ begun = [f \in Files |-> {}] /\ crashes = 0 /\ cost = [f \in Files |-> 0]
    /\ synced = FALSE /\ raced = {} /\ dbFaults = 0

-----------------------------------------------------------------------------
(* The calls of the trader.                                                *)

Idle(t) == writing[t].at = "idle"
\* Who has yet to write the line of a record to the file.
Unwritten(f) == {t \in Threads : writing[t].at = "append" /\ writing[t].file = f}
Writes(t, f, rec) ==
    /\ Idle(t) /\ writing' = [writing EXCEPT ![t] = [at |-> "append", file |-> f, rec |-> rec]]
    /\ begun' = [begun EXCEPT ![f] = @ \cup {rec}]
    /\ UNCHANGED <<file, rows, queue, crashes, cost, synced, raced, dbFaults>>
Held(k) == stage[k] \in {"opening", "open"}
BecomesStage(k, st) == stage' = [stage EXCEPT ![k] = st]

\* on_entry: the signal is taken or passed over; the engine trades it anyway.
OnSignal(k) ==
    /\ up = "on" /\ stage[k] = "unseen" /\ virt = {}
    /\ \/ (\A other \in Trades : ~Held(other)) /\ BecomesStage(k, "opening")
       \/ BecomesStage(k, "dropped")
    /\ virt' = {k} /\ Writes("loop", "signals", Rec(k, "entry")) /\ UNCHANGED up
\* _do_entry, submitted when the signal is written: refused, not filled (no
\* record is made of that), or filled.
EntryEnds(k) ==
    /\ up = "on" /\ stage[k] = "opening" /\ writing["loop"].rec # Rec(k, "entry")
    /\ \/ BecomesStage(k, "dropped") /\ Writes("order", "signals", Rec(k, "refused"))
       \/ /\ \E st \in {"dropped", "open"} : BecomesStage(k, st)
          /\ Idle("order") /\ UNCHANGED <<file, rows, writing, queue, storeHistory>>
    /\ UNCHANGED <<up, virt>>
\* on_exit
OnExit(k) ==
    /\ up = "on" /\ k \in virt
    /\ virt' = virt \ {k} /\ Writes("loop", "signals", Rec(k, "exit"))
    /\ UNCHANGED <<up, stage>>
\* _finalize, also called by recover: the ledger is saved, then the trade is
\* written.
Finalize(k) ==
    /\ up # "off" /\ stage[k] = "open" /\ BecomesStage(k, "booked")
    /\ Writes("order", "trades", Rec(k, "trade")) /\ UNCHANGED <<up, virt>>

-----------------------------------------------------------------------------
(* The store.                                                              *)

\* Store._append, under its lock.
AppendLine(t) ==
    LET w == writing[t] IN
    /\ w.at = "append"
    /\ file' = [file EXCEPT ![w.file] = AddLine(@, w.rec)]
    /\ writing' = [writing EXCEPT ![t].at = "put"]
    /\ raced' = IF \E o \in Threads : /\ writing[o].at = "put"
                                      /\ writing[o].file = w.file /\ writing[o].rec.key = w.rec.key
                THEN raced \cup {w.rec.key} ELSE raced
    /\ UNCHANGED <<up, ledger, rows, queue, begun, crashes, cost, synced, dbFaults>>
PutRecord(t) ==
    /\ writing[t].at = "put"
    /\ queue' = Append(queue, [file |-> writing[t].file, rec |-> writing[t].rec])
    /\ writing' = [writing EXCEPT ![t] = Nothing]
    /\ UNCHANGED <<up, ledger, file, rows, storeHistory>>

DbFails == dbFaults < MaxDbFault /\ dbFaults' = dbFaults + 1 /\ synced' = FALSE
\* One round of _db_loop: the record is upserted, or dropped.
DbLoop ==
    /\ queue # <<>> /\ queue' = Tail(queue)
    /\ \/ /\ rows' = [rows EXCEPT ![Head(queue).file][Head(queue).rec.key] = Head(queue).rec]
          /\ UNCHANGED <<synced, dbFaults>>
       \/ DbFails /\ UNCHANGED rows
    /\ UNCHANGED <<up, ledger, file, writing, begun, crashes, cost, raced>>

\* The line of a key that counts: the last that can be read.
LastLine(f, k) ==
    LET recs == ReadJsonl(file[f])
        its == {i \in DOMAIN recs : recs[i].key = k}
    IN  IF its = {} THEN NoRow ELSE recs[Max(its)]
\* Mutant of Upserted: a row that exists is left alone.
Inserted(f, k) == IF rows[f][k] = NoRow THEN LastLine(f, k) ELSE rows[f][k]
Upserted(f, k) == IF LastLine(f, k) = NoRow THEN rows[f][k] ELSE LastLine(f, k)
\* sync_all, the last step of build: both files go into the tables in one
\* transaction, or the start goes on without.
SyncAll ==
    /\ up = "build" /\ Idle("order") /\ up' = "on"
    /\ \/ /\ \E f \in Files : ~file[f].decodes
          /\ synced' = FALSE /\ UNCHANGED <<rows, raced, dbFaults>>
       \/ /\ \A f \in Files : file[f].decodes
          /\ rows' = [f \in Files |-> [k \in Trades |-> Upserted(f, k)]]
          /\ synced' = TRUE /\ raced' = {} /\ UNCHANGED dbFaults
       \/ DbFails /\ UNCHANGED <<rows, raced>>
    /\ UNCHANGED <<ledger, file, writing, queue, begun, crashes, cost>>

\* build up to recover, which finds an entry on its way filled or not.
StoreStart ==
    /\ up = "off" /\ up' = "build"
    /\ \E st \in {"open", "dropped"} :
         stage' = [k \in Trades |-> IF stage[k] = "opening" THEN st ELSE stage[k]]
    /\ UNCHANGED <<virt, file, rows, writing, queue, storeHistory>>
\* The process dies: memory is lost, and the line being written may be torn.
StoreCrash ==
    /\ up # "off" /\ crashes < MaxCrash /\ crashes' = crashes + 1
    /\ up' = "off" /\ virt' = {} /\ queue' = <<>> /\ synced' = FALSE
    /\ writing' = [t \in Threads |-> Nothing]
    /\ \/ UNCHANGED file
       \/ \E t \in Threads : /\ writing[t].at = "append"
                             /\ \E torn \in TornFiles(file[writing[t].file], writing[t].rec) :
                                  file' = [file EXCEPT ![writing[t].file] = torn]
    /\ cost' = [f \in Files |-> cost[f] + Cardinality(Unwritten(f))
                                        + IF file'[f] = file[f] THEN 0 ELSE 1]
    /\ UNCHANGED <<stage, rows, begun, raced, dbFaults>>

StoreNext ==
    \/ \E k \in Trades : OnSignal(k) \/ EntryEnds(k) \/ OnExit(k) \/ Finalize(k)
    \/ \E t \in Threads : AppendLine(t) \/ PutRecord(t)
    \/ DbLoop \/ SyncAll \/ StoreStart \/ StoreCrash

-----------------------------------------------------------------------------
(* Properties.                                                             *)

\* What was to be written and cannot be read.
LostRecords(f) ==
    begun[f] \ (ToSet(ReadJsonl(file[f])) \cup {writing[t].rec : t \in Unwritten(f)})
\* A crash costs a file the records that were not yet written, and, if it
\* tore a line, the one record that was glued to it: everything else can be
\* read for good, unless a tear fell inside a character, which costs it all.
RecordsKept ==
    \A f \in Files : file[f].decodes => Cardinality(LostRecords(f)) <= cost[f]

\* If the database has not failed since the start and has caught up, its rows
\* are the last lines of the files, or a record the file has lost.
RowsFollowFile ==
    up = "on" /\ synced /\ queue = <<>> /\ (\A t \in Threads : writing[t].at # "put") =>
        \A f \in Files, k \in Trades \ raced :
            rows[f][k] \in {LastLine(f, k)} \cup LostRecords(f)
=============================================================================
