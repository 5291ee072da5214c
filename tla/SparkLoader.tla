---------------------------- MODULE SparkLoader ----------------------------
(***************************************************************************)
(* The recommendation loader that is deployed: a Spark job that copies two *)
(* curated datasets into two PostgreSQL tables, one after the other.       *)
(*   microservices/serving/recommendation_loader/                          *)
(*       pipelines/load_to_postgres.py  main                               *)
(*       src/reader.py, src/writer.py                                      *)
(*                                                                         *)
(* Spark's JDBC writer is external: in overwrite mode it drops the table,  *)
(* creates it again and inserts each partition in a transaction of its     *)
(* own, in any order.  Rows come from the files listed when the dataset    *)
(* was read; processing may overwrite those files at any moment.  A row    *)
(* belongs to a student and to the publication that produced it, and is a  *)
(* partition of its own here.                                              *)
(***************************************************************************)
EXTENDS Naturals, FiniteSets

CONSTANTS
  Loaders,       \* loader containers that may run side by side
  Students,      \* user_id values
  MaxVersion,    \* bound: publications by processing
  MaxLoads       \* bound: loader containers started

ASSUME BoundsAssumption == MaxVersion \in Nat /\ MaxLoads \in Nat
ASSUME LoadersAssumption == IsFiniteSet(Loaders)

\* Step 1 and step 2 of main, and the table each one fills.
Datasets == {"recommendations_batch", "aggregated_student_features"}
First  == "recommendations_batch"
Second == "aggregated_student_features"

Rows == [student : Students, version : 1 .. MaxVersion]

\* A dataset, or a table, that does not exist.
Missing == [exists |-> FALSE, rows |-> {}]

VARIABLES
  version,   \* publications so far
  curated,   \* dataset -> [exists, rows], as a reader finds it
  coming,    \* rows of the publication of each dataset not yet in place
  loads,     \* loader containers started
  pc,        \* where each loader is
  step,      \* dataset each loader is working on
  listed,    \* rows each loader listed, for each dataset
  todo,      \* rows each loader has still to insert
  table,     \* dataset -> [exists, copies], the table that serves it
  before,    \* history: the table as the loader's step found it
  together   \* history: whether two loaders have ever run side by side

zone_vars   == <<version, curated, coming>>
loader_vars == <<step, listed, todo, before>>
vars == <<zone_vars, loads, pc, loader_vars, table, together>>

Ended   == {"idle", "done", "failed", "killed"}
Running == {"read", "drop", "create", "insert"}

NoCopies   == [r \in Rows |-> 0]
NoTable    == [exists |-> FALSE, copies |-> NoCopies]
EmptyTable == [exists |-> TRUE, copies |-> NoCopies]

\* The migration has created both tables; nothing is curated yet.

Init ==
  /\ version = 0
  /\ curated = [d \in Datasets |-> Missing]
  /\ coming = [d \in Datasets |-> {}]
  /\ loads = 0
  /\ pc = [l \in Loaders |-> "idle"]
  /\ step = [l \in Loaders |-> First]
  /\ listed = [l \in Loaders |-> [d \in Datasets |-> {}]]
  /\ todo = [l \in Loaders |-> {}]
  /\ table = [d \in Datasets |-> EmptyTable]
  /\ before = [l \in Loaders |-> [d \in Datasets |-> {}]]
  /\ together = FALSE

-----------------------------------------------------------------------------
\* Processing overwrites a dataset: it deletes what is there, then moves the part
\* files into place one by one.  A reader that comes in between finds nothing, or
\* some of them; an empty dataset is published as a file without rows.
Overwrite(d, students) ==
  /\ version < MaxVersion
  /\ version' = version + 1
  /\ curated' = [curated EXCEPT ![d] = Missing]
  /\ coming' = [coming EXCEPT ![d] = [student : students, version : {version'}]]
  /\ UNCHANGED <<loads, pc, loader_vars, table, together>>

PublishPart(d, r) ==
  /\ r \in coming[d]
  /\ curated' = [curated EXCEPT ![d] =
                   [exists |-> TRUE, rows |-> @.rows \cup {r}]]
  /\ coming' = [coming EXCEPT ![d] = @ \ {r}]
  /\ UNCHANGED <<version, loads, pc, loader_vars, table, together>>

PublishEmpty(d) ==
  /\ version > 0
  /\ coming[d] = {}
  /\ ~curated[d].exists
  /\ curated' = [curated EXCEPT ![d].exists = TRUE]
  /\ UNCHANGED <<version, coming, loads, pc, loader_vars, table, together>>

-----------------------------------------------------------------------------
\* `docker compose run --rm -e MODE=... recommendation_loader`; MODE is not read.
Start(l) ==
  /\ pc[l] \in Ended
  /\ loads < MaxLoads
  /\ loads' = loads + 1
  /\ pc' = [pc EXCEPT ![l] = "read"]
  /\ step' = [step EXCEPT ![l] = First]
  /\ listed' = [listed EXCEPT ![l] = [d \in Datasets |-> {}]]
  /\ todo' = [todo EXCEPT ![l] = {}]
  /\ together' = (together \/ \E k \in Loaders \ {l} : pc[k] \in Running)
  /\ UNCHANGED <<zone_vars, table, before>>

\* Where main goes once a step's dataset needs no more work.
AfterStep(l) == IF step[l] = First THEN "read" ELSE "done"

\* read_parquet_from_hdfs, then df.count() in write_df_to_postgres: an empty
\* dataset skips the write.
SkipsEmpty(rows) == rows = {}

\* Seeded bug in WritePhase, for the mutation tests.
AppendPhase == "insert"

\* postgres.write_mode of the configuration: overwrite drops the table first.
WritePhase  == "drop"

ReadDataset(l) ==
  LET rows == curated[step[l]].rows IN
  /\ pc[l] = "read"
  /\ curated[step[l]].exists
  /\ listed' = [listed EXCEPT ![l][step[l]] = rows]
  /\ todo' = [todo EXCEPT ![l] = rows]
  /\ before' = [before EXCEPT ![l][step[l]] =
                  {r \in Rows : table[step[l]].copies[r] > 0}]
  /\ IF SkipsEmpty(rows)
     THEN /\ pc' = [pc EXCEPT ![l] = AfterStep(l)]
          /\ step' = [step EXCEPT ![l] = Second]
     ELSE pc' = [pc EXCEPT ![l] = WritePhase] /\ UNCHANGED step
  /\ UNCHANGED <<zone_vars, loads, table, together>>

\* mode overwrite without the truncate option: DROP TABLE if the table exists.
DropTable(l) ==
  /\ pc[l] = "drop"
  /\ table' = [table EXCEPT ![step[l]] = NoTable]
  /\ pc' = [pc EXCEPT ![l] = "create"]
  /\ UNCHANGED <<zone_vars, loads, loader_vars, together>>

\* CREATE TABLE raises if another loader has created it meanwhile.
CreateTable(l) ==
  /\ pc[l] = "create"
  /\ IF table[step[l]].exists
     THEN pc' = [pc EXCEPT ![l] = "failed"] /\ UNCHANGED table
     ELSE /\ table' = [table EXCEPT ![step[l]].exists = TRUE]
          /\ pc' = [pc EXCEPT ![l] = "insert"]
  /\ UNCHANGED <<zone_vars, loads, loader_vars, together>>

\* One partition is evaluated from its file, inserted and committed.
InsertPartition(l, r) ==
  /\ pc[l] = "insert"
  /\ r \in todo[l] \cap curated[step[l]].rows
  /\ table[step[l]].exists
  /\ table' = [table EXCEPT ![step[l]].copies[r] = @ + 1]
  /\ todo' = [todo EXCEPT ![l] = @ \ {r}]
  /\ UNCHANGED <<zone_vars, loads, pc, step, listed, before, together>>

\* Seeded bug in FinishTable, for the mutation tests.
FinishesEarly(l) ==
  /\ pc[l] = "insert"
  /\ pc' = [pc EXCEPT ![l] = AfterStep(l)]
  /\ step' = [step EXCEPT ![l] = Second]
  /\ UNCHANGED <<zone_vars, loads, listed, todo, before, table, together>>

\* save returns; main goes on to the other dataset or ends.
FinishTable(l) ==
  /\ pc[l] = "insert"
  /\ todo[l] = {}
  /\ pc' = [pc EXCEPT ![l] = AfterStep(l)]
  /\ step' = [step EXCEPT ![l] = Second]
  /\ UNCHANGED <<zone_vars, loads, listed, todo, before, table, together>>

\* Every exception of either step ends the container: a dataset that is not
\* there, a file that has gone, a table another loader has dropped, a lost
\* connection; and the container may be killed.
Stop(l, how) ==
  /\ pc[l] \in Running
  /\ pc' = [pc EXCEPT ![l] = how]
  /\ UNCHANGED <<zone_vars, loads, loader_vars, table, together>>

-----------------------------------------------------------------------------
Processing ==
  \E d \in Datasets :
    \/ \E students \in SUBSET Students : Overwrite(d, students)
    \/ \E r \in coming[d] : PublishPart(d, r)
    \/ PublishEmpty(d)

Load(l) ==
  \/ ReadDataset(l)
  \/ DropTable(l)
  \/ CreateTable(l)
  \/ \E r \in todo[l] : InsertPartition(l, r)
  \/ FinishTable(l)

Next ==
  \/ Processing
  \/ \E l \in Loaders :
       Start(l) \/ Load(l) \/ \E how \in {"failed", "killed"} : Stop(l, how)

Spec == Init /\ [][Next]_vars

-----------------------------------------------------------------------------
\* Type correctness of the loader and the tables.
TypeOK ==
  /\ version \in 0 .. MaxVersion
  /\ curated \in [Datasets -> [exists : BOOLEAN, rows : SUBSET Rows]]
  /\ coming \in [Datasets -> SUBSET Rows]
  /\ loads \in 0 .. MaxLoads
  /\ pc \in [Loaders -> Ended \cup Running]
  /\ step \in [Loaders -> Datasets]
  /\ listed \in [Loaders -> [Datasets -> SUBSET Rows]]
  /\ todo \in [Loaders -> SUBSET Rows]
  /\ table \in [Datasets -> [exists : BOOLEAN, copies : [Rows -> 0 .. MaxLoads]]]
  /\ before \in [Loaders -> [Datasets -> SUBSET Rows]]
  /\ together \in BOOLEAN

Held(d) == {r \in Rows : table[d].copies[r] > 0}

\* As long as no two loaders have run side by side: whatever processing publishes
\* in the meantime, and however earlier loads ended, a table holds rows of one
\* publication of its dataset, each at most once.
TableIsOnePublication ==
  ~together => \A d \in Datasets :
    /\ \A r \in Held(d) : table[d].copies[r] = 1
    /\ \A r, q \in Held(d) : r.version = q.version

\* As long as no two loaders have run side by side: when a load exits with 0, each
\* table holds exactly the rows the load listed, or is as the load found it if the
\* dataset was empty.
DoneMeansLoaded ==
  [][~together => \A l \in Loaders : pc[l] # "done" /\ pc'[l] = "done" =>
       \A d \in Datasets :
         Held(d) = IF listed'[l][d] = {} THEN before'[l][d] ELSE listed'[l][d]]_vars

\* A serving table is only ever dropped by a loader that holds rows to fill it
\* with: an empty batch of recommendations never empties the store.
OnlyRefilledTablesAreDropped ==
  [][\A d \in Datasets : table[d].exists /\ ~table'[d].exists =>
       \E l \in Loaders : step[l] = d /\ todo[l] # {} /\ todo[l] = listed[l][d]]_vars
=============================================================================
