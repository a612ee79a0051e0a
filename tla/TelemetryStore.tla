---------------------------- MODULE TelemetryStore ----------------------------
(***************************************************************************)
(* Simulator telemetry in SQLite and MongoDB (storage/telemetry_store.py,  *)
(* storage/mongo_store.py): the embedded loop of app.py and simulator.py   *)
(* write readings to one store or both, MongoDB comes and goes, and the    *)
(* administrator copies what SQLite has into MongoDB with                  *)
(* scripts/backfill_sqlite_telemetry_to_mongodb.py, more than once and     *)
(* while readings are still being written.                                 *)
(***************************************************************************)
EXTENDS Integers, Sequences, FiniteSets

CONSTANTS
  Writers,     \* processes that generate telemetry
  Backends,    \* values of TELEMETRY_WRITE_BACKEND
  Backfills,   \* processes that may run the backfill script
  BatchSize,   \* --batch-size
  MaxReadings, \* bound on readings
  MaxBackfills \* bound on runs of the script

ASSUME TelemetryConstants ==
  /\ Backends \subseteq {"sqlite", "mongodb", "dual"}
  /\ BatchSize \in Nat \ {0}
  /\ {MaxReadings, MaxBackfills} \subseteq Nat

VARIABLES
  readings,  \* readings generated so far; a reading is its number
  table,     \* the telemetry table of SQLite, by id
  fresh,     \* MongoDB: documents with source "simulator"
  copies,    \* MongoDB: documents with source "sqlite_backfill", by sqlite_id
  unique,    \* the index source_sqlite_id_unique exists
  writer,    \* the reading each writer has in SQLite and not yet in MongoDB, or 0
  backfill,  \* locals of each backfill process
  backfills, \* runs of the script so far
  covered    \* history: rows that a completed run of the script answers for

telemetry ==
  <<readings, table, fresh, copies, unique, writer, backfill, backfills, covered>>

Ids == 1..MaxReadings
NotRunning == [at |-> "idle", offset |-> 0, rows |-> <<>>, begun |-> 0]
Backfill ==
  [at : {"idle", "index", "page", "find", "insert"}, offset : Nat, rows : Seq(Ids), begun : 0..MaxReadings]

TelemetryTypeOK ==
  /\ readings \in 0..MaxReadings
  /\ table \in Seq(Ids)
  /\ fresh \subseteq Ids
  /\ copies \in [Ids -> Nat]
  /\ unique \in BOOLEAN
  /\ writer \in [Writers -> 0..MaxReadings]
  /\ backfill \in [Backfills -> Backfill]
  /\ backfills \in 0..MaxBackfills
  /\ covered \in 0..MaxReadings

TelemetryInit ==
  /\ readings = 0
  /\ table = <<>>
  /\ fresh = {}
  /\ copies = [i \in Ids |-> 0]
  /\ unique = FALSE
  /\ writer = [w \in Writers |-> 0]
  /\ backfill = [p \in Backfills |-> NotRunning]
  /\ backfills = 0
  /\ covered = 0

-----------------------------------------------------------------------------
(* write_telemetry. *)

\* generate_telemetry, and insert_telemetry of SQLite unless the backend is
\* "mongodb".  The app and simulator.py may be set to different backends, and
\* start again with others.
Generate(w, backend) ==
  /\ writer[w] = 0
  /\ readings < MaxReadings
  /\ readings' = readings + 1
  /\ table' = IF backend = "mongodb" THEN table ELSE Append(table, readings')
  /\ writer' = IF backend = "sqlite" THEN writer ELSE [writer EXCEPT ![w] = readings']
  /\ UNCHANGED <<fresh, copies, unique, backfill, backfills, covered>>

\* insert_telemetry_if_enabled: MongoDB may not answer; the failure is swallowed
\* and the reading not written again.
InsertFresh(w) ==
  /\ writer[w] # 0
  /\ fresh' \in {fresh, fresh \union {writer[w]}}
  /\ writer' = [writer EXCEPT ![w] = 0]
  /\ UNCHANGED <<readings, table, copies, unique, backfill, backfills, covered>>

-----------------------------------------------------------------------------
(* The backfill script.  It ends in an exception whenever MongoDB does not  *)
(* answer, and an administrator may interrupt it.                           *)

unchangedStores == UNCHANGED <<readings, table, fresh, writer, backfills>>

Begin(p) ==
  /\ backfill[p] = NotRunning
  /\ backfills < MaxBackfills
  /\ backfills' = backfills + 1
  /\ backfill' = [backfill EXCEPT ![p] = [NotRunning EXCEPT !.at = "index", !.begun = Len(table)]]
  /\ UNCHANGED <<readings, table, fresh, copies, unique, writer, covered>>

Interrupted(p) ==
  /\ backfill[p] # NotRunning
  /\ backfill' = [backfill EXCEPT ![p] = NotRunning]
  /\ unchangedStores
  /\ UNCHANGED <<copies, unique, covered>>

\* Faulty variant: the index is created without unique=True.
PlainIndexes(p) ==
  /\ backfill[p].at = "index"
  /\ backfill' = [backfill EXCEPT ![p].at = "page"]
  /\ unchangedStores
  /\ UNCHANGED <<copies, unique, covered>>

\* ensure_telemetry_indexes.  A unique index is refused while two copies of a
\* row are there.
EnsureIndexes(p) ==
  /\ backfill[p].at = "index"
  /\ \A i \in Ids : copies[i] <= 1
  /\ unique' = TRUE
  /\ backfill' = [backfill EXCEPT ![p].at = "page"]
  /\ unchangedStores
  /\ UNCHANGED <<copies, covered>>

\* get_all_telemetry_rows with limit and offset, by ascending id; the last page is empty.
NextPage(p) ==
  /\ backfill[p].at = "page"
  /\ LET first == backfill[p].offset + 1
         last == IF backfill[p].offset + BatchSize < Len(table)
                 THEN backfill[p].offset + BatchSize ELSE Len(table)
     IN IF first > last
        THEN /\ backfill' = [backfill EXCEPT ![p] = NotRunning]
             /\ covered' = IF covered < backfill[p].begun THEN backfill[p].begun ELSE covered
        ELSE /\ backfill' = [backfill EXCEPT ![p] = [@ EXCEPT !.at = "find",
                  !.rows = [n \in 1..(last - first + 1) |-> first + n - 1],
                  !.offset = backfill[p].offset + BatchSize]]
             /\ UNCHANGED covered
  /\ unchangedStores
  /\ UNCHANGED <<copies, unique>>

RowDone(p) ==
  backfill' = [backfill EXCEPT ![p].rows = Tail(@),
                 ![p].at = IF Len(backfill[p].rows) = 1 THEN "page" ELSE "find"]

\* upsert_sqlite_telemetry_row: the server looks for the copy,
Find(p) ==
  /\ backfill[p].at = "find"
  /\ IF copies[Head(backfill[p].rows)] > 0
     THEN RowDone(p)
     ELSE backfill' = [backfill EXCEPT ![p].at = "insert"]
  /\ unchangedStores
  /\ UNCHANGED <<copies, unique, covered>>

\* and inserts it, unless the index finds that another client was faster.
Insert(p) ==
  /\ backfill[p].at = "insert"
  /\ LET id == Head(backfill[p].rows)
     IN copies' = IF unique /\ copies[id] > 0 THEN copies ELSE [copies EXCEPT ![id] = @ + 1]
  /\ RowDone(p)
  /\ unchangedStores
  /\ UNCHANGED <<unique, covered>>

Telemetry ==
  \/ \E w \in Writers : (\E b \in Backends : Generate(w, b)) \/ InsertFresh(w)
  \/ \E p \in Backfills :
       Begin(p) \/ Interrupted(p) \/ EnsureIndexes(p) \/ NextPage(p) \/ Find(p) \/ Insert(p)

-----------------------------------------------------------------------------
\* However often the script is run, interrupted or run twice at once, and
\* whatever is written meanwhile: a row of SQLite has at most one copy in
\* MongoDB, and once a run has completed every row that was there when it began
\* has one, although the pages are counted by offset and not by id.
BackfillCopiesOnce ==
  /\ \A i \in Ids : copies[i] <= 1
  /\ \A i \in 1..covered : copies[i] = 1
=============================================================================
