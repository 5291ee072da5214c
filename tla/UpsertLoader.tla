---------------------------- MODULE UpsertLoader ----------------------------
(***************************************************************************)
(* The other recommendation loader of the repository: it reads the curated *)
(* recommendations with PyArrow and writes them in batches, all in one     *)
(* PostgreSQL transaction.                                                 *)
(*   microservices/serving/recommendation_loader/                          *)
(*       pipelines/load_recommendations.py  main                           *)
(*       src/hdfs_reader.py                 read_recommendations           *)
(*       src/postgres_writer.py             write_recommendations          *)
(*                                                                         *)
(* PostgreSQL and the psycopg2 connection are external: `work` is what the *)
(* open transaction sees, `table` what every other session sees.  The rows *)
(* come from a generator that opens the dataset when the writer asks for   *)
(* the first of them, after the TRUNCATE, and reads on while the           *)
(* transaction is open.  One loader runs at a time.                        *)
(***************************************************************************)
EXTENDS Naturals, FiniteSets

CONSTANTS
  Pairs,       \* (user_id, recommended_user_id)
  Dates,       \* generation_date
  Scores,      \* similarity_score
  NoDate,      \* no --generation-date
  NoScore,     \* what a table or a dataset holds at a key without a row
  BatchSize,   \* _BATCH_SIZE, the rows of an INSERT
  MaxRows,     \* max_rows of read_recommendations
  MaxLoads,    \* bound: loads explored
  MaxFaults    \* bound: failures of HDFS, PostgreSQL or the process explored

ASSUME KeysAssumption == IsFiniteSet(Pairs) /\ IsFiniteSet(Dates)
ASSUME NoneAssumption == NoDate \notin Dates /\ NoScore \notin Scores
ASSUME SizesAssumption ==
  /\ BatchSize \in Nat \ {0}
  /\ MaxRows \in Nat /\ MaxLoads \in Nat /\ MaxFaults \in Nat

Keys   == Pairs \X Dates
Tables == [Keys -> Scores \cup {NoScore}]
Empty  == [k \in Keys |-> NoScore]

KeysOf(rows) == {k \in Keys : rows[k] # NoScore}

\* The rows under the path read: one partition, or the whole dataset.
Partition(rows, d) ==
  [k \in Keys |-> IF d = NoDate \/ k[2] = d THEN rows[k] ELSE NoScore]

VARIABLES
  table,      \* committed contents of recommendations
  dataset,    \* rows the load is given
  dated,      \* whether the files it reads have the column generation_date
  mode,       \* --mode
  pc,         \* where the load is
  work,       \* contents as the open transaction sees them
  unread,     \* keys of the rows the generator has not yet yielded
  loads,      \* loads started
  faults      \* failures met

vars == <<table, dataset, dated, mode, pc, work, unread, loads, faults>>

Ended   == {"idle", "done", "failed"}
Running == {"connected", "batches"}

Init ==
  /\ table = Empty
  /\ dataset = Empty
  /\ dated = TRUE
  /\ mode = "initial"
  /\ pc = "idle"
  /\ work = Empty
  /\ unread = {}
  /\ loads = 0
  /\ faults = 0

-----------------------------------------------------------------------------
\* main: a daily load needs a date; the generator is made, the connection opened.
Start(m, d, rows, has) ==
  /\ pc \in Ended
  /\ loads < MaxLoads
  /\ m = "daily" => d # NoDate
  /\ loads' = loads + 1
  /\ mode' = m
  /\ dataset' = Partition(rows, d)
  /\ dated' = has
  /\ unread' = KeysOf(dataset')
  /\ pc' = "connected"
  /\ UNCHANGED <<table, work, faults>>

\* Seeded bug in BeginTransaction, for the mutation tests.
TruncatesOutside ==
  /\ pc = "connected"
  /\ table' = IF mode = "initial" THEN Empty ELSE table
  /\ work' = table'
  /\ pc' = "batches"
  /\ UNCHANGED <<dataset, dated, mode, unread, loads, faults>>

\* The first statement opens the transaction; initial mode truncates in it.
BeginTransaction ==
  /\ pc = "connected"
  /\ work' = IF mode = "initial" THEN Empty ELSE table
  /\ pc' = "batches"
  /\ UNCHANGED <<table, dataset, dated, mode, unread, loads, faults>>

\* Rows read, once those of `batch` are; the cap raises above max_rows.
ReadSoFar(batch) == Cardinality(KeysOf(dataset) \ (unread \ batch))
\* Seeded bug in UnderCap, for the mutation tests.
NeverRaises(batch) == batch # {}

UnderCap(batch) == ReadSoFar(batch) <= MaxRows

\* islice takes the next _BATCH_SIZE rows of the generator, or all that are left.
NextBatch(batch) ==
  /\ batch \subseteq unread
  /\ batch # {}
  /\ \/ Cardinality(batch) = BatchSize
     \/ batch = unread /\ Cardinality(batch) < BatchSize

\* INSERT ... ON CONFLICT DO UPDATE SET similarity_score = EXCLUDED.similarity_score.
Upsert(contents, batch) ==
  [k \in Keys |-> IF k \in batch THEN dataset[k] ELSE contents[k]]

WriteBatch(batch) ==
  /\ pc = "batches"
  /\ dated
  /\ NextBatch(batch)
  /\ UnderCap(batch)
  /\ work' = Upsert(work, batch)
  /\ unread' = unread \ batch
  /\ UNCHANGED <<table, dataset, dated, mode, pc, loads, faults>>

\* The generator is exhausted: `with conn` commits.
Commit ==
  /\ pc = "batches"
  /\ unread = {}
  /\ table' = work
  /\ pc' = "done"
  /\ UNCHANGED <<dataset, dated, mode, work, unread, loads, faults>>

\* `with conn` or, when the process dies, the server rolls the transaction back.
CommitsBatches ==
  /\ table' = work
  /\ pc' = "failed"
  /\ UNCHANGED <<dataset, dated, mode, work, unread, loads>>
Rollback ==
  /\ pc' = "failed"
  /\ UNCHANGED <<table, dataset, dated, mode, work, unread, loads>>

\* The generator raises: no column generation_date, or more than max_rows rows,
\* counted by read batch, so perhaps before the last rows under the cap are written.
Refuse ==
  /\ pc = "batches"
  /\ \/ ~dated /\ unread # {}
     \/ Cardinality(KeysOf(dataset)) > MaxRows
  /\ Rollback
  /\ UNCHANGED faults

\* HDFS or PostgreSQL raises, the partition does not exist, or the process dies.
Fault ==
  /\ pc \in Running
  /\ faults < MaxFaults
  /\ faults' = faults + 1
  /\ Rollback

-----------------------------------------------------------------------------
Progress ==
  \/ BeginTransaction
  \/ \E batch \in SUBSET unread : WriteBatch(batch)
  \/ Commit
  \/ Refuse

Next ==
  \/ \E m \in {"initial", "daily"}, d \in Dates \cup {NoDate},
        rows \in Tables, has \in BOOLEAN : Start(m, d, rows, has)
  \/ Progress
  \/ Fault

Spec == Init /\ [][Next]_vars

-----------------------------------------------------------------------------
\* Type correctness of the loader.
TypeOK ==
  /\ table \in Tables
  /\ dataset \in Tables
  /\ dated \in BOOLEAN
  /\ mode \in {"initial", "daily"}
  /\ pc \in Ended \cup Running
  /\ work \in Tables
  /\ unread \subseteq KeysOf(dataset)
  /\ loads \in 0 .. MaxLoads
  /\ faults \in 0 .. MaxFaults

\* _write_batches: whatever the split into batches, the transaction sees the rows
\* written so far over what it began with, and nothing of the rows still unread.
PartialLoad ==
  pc = "batches" => \A k \in Keys :
    work[k] = IF k \in KeysOf(dataset) \ unread THEN dataset[k]
              ELSE IF mode = "initial" THEN NoScore ELSE table[k]

\* The refinement: a load is loading while its process runs, and what its own
\* transaction sees is hidden.
Promise == INSTANCE ServingTable WITH loading <- pc \in Running

\* recommendation_loader/README.md "Load Modes": a load is all or nothing, an
\* initial one a full refresh and a daily one an upsert, batches or not.
ImplementsServingTable == Promise!Spec

\* read_recommendations raises on unexpected growth, rows written before it
\* notices included: nothing of a dataset above max_rows is ever committed.
CapHolds ==
  [][table' # table => Cardinality(KeysOf(dataset)) <= MaxRows]_vars

=============================================================================
