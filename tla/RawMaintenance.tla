--------------------------- MODULE RawMaintenance ---------------------------
(***************************************************************************)
(* What works on the raw zone beside ingestion: the stand-alone compaction *)
(* job, which reads every target and overwrites it in place, and the       *)
(* retention rules, whose deletion commands an operator runs.              *)
(*   microservices/ingestion/pipelines/compaction/compact.py  compact_all  *)
(*   microservices/ingestion/src/compactor.py       compact_parquet_path   *)
(*   microservices/storage/src/retention_policy.py                         *)
(*                                                                         *)
(* A piece is what a write can replace by itself: an event_date partition  *)
(* of kt4 (the NULL one, which has no date, included) or the whole of an   *)
(* unpartitioned target.  A file is the set of ingested batches whose rows *)
(* it holds, so that two files with a batch in common are a duplicate.     *)
(* Spark and HDFS are external: a static overwrite deletes the target      *)
(* before the job reads a row; a dynamic one stages its output and then    *)
(* deletes and renames partition by partition; a listed file that is gone  *)
(* when it is read fails the job.  One compaction job and one retention    *)
(* round are under way at a time, beside any ingestion.                    *)
(***************************************************************************)
EXTENDS Naturals, Sequences, FiniteSets

CONSTANTS
  Targets,        \* keys of cfg["targets"], in the order of the file
  Pieces,         \* the pieces the targets may come to have
  TargetOf,       \* the target of a piece
  Partitioned,    \* targets with a partition_by
  DateOf,         \* the date in the path of each piece whose path has one
  RetentionDays,  \* RetentionPolicy.retention_days of the zone
  MaxDay,         \* bound: days explored
  MaxBatches,     \* bound: batches ingested
  MaxJobs,        \* bound: compaction jobs
  MaxRounds       \* bound: retention rounds

\* Pieces whose path extract_partition_date can parse.
Dated == DOMAIN DateOf

ASSUME LayoutAssumption ==
  /\ Targets \in Seq(STRING) /\ Targets # <<>>
  /\ TargetOf \in [Pieces -> {Targets[i] : i \in DOMAIN Targets}]
  /\ Dated \subseteq {p \in Pieces : TargetOf[p] \in Partitioned}
  /\ \A p \in Dated : DateOf[p] \in Nat

ASSUME BoundsAssumption ==
  RetentionDays \in Nat /\ MaxDay \in Nat /\ MaxBatches \in Nat
    /\ MaxJobs \in Nat /\ MaxRounds \in Nat

VARIABLES
  today,     \* date.today()
  store,     \* the raw zone: piece -> the files it holds
  batches,   \* batches ingested so far
  job,       \* where the compaction job is
  turn,      \* index in Targets of the target it works on
  listed,    \* the files its lazy frame reads
  staged,    \* pieces written to the staging directory, still to be moved
  jobs,      \* compaction jobs started
  round,     \* where the retention round is
  policy,    \* RetentionPolicy.enabled and dry_run of this round
  listing,   \* partition_paths: what the operator listed
  commands,  \* generated deletion commands still to be run
  rounds     \* retention rounds started

\* History variables: the batches a piece is expected to hold (not those that
\* came while the compaction job had already listed the piece, nor those a
\* failed job is known to have deleted); whether a round that deletes has been
\* started; the partitions this round has to remove (less those that ingestion
\* or a compaction job has brought back in the meantime).
VARIABLES owed, armed, due

job_vars     == <<job, turn, listed, staged, jobs>>
round_vars   == <<round, policy, listing, commands, rounds>>
history_vars == <<owed, armed, due>>
vars == <<today, store, batches, job_vars, round_vars, history_vars>>

Batches == 1 .. MaxBatches
Here    == Targets[turn]
Mine    == {p \in Pieces : TargetOf[p] = Here}
Nothing == [p \in Pieces |-> {}]
RowsIn(p) == UNION store[p]

\* partition_date < cutoff_date
Expired(p) == p \in Dated /\ DateOf[p] + RetentionDays < today

-----------------------------------------------------------------------------
Init ==
  /\ today = 0
  /\ store = Nothing
  /\ batches = 0
  /\ job = "idle" /\ turn = 1 /\ listed = Nothing /\ staged = {} /\ jobs = 0
  /\ round = "idle" /\ policy = [enabled |-> TRUE, dry_run |-> TRUE]
  /\ listing = {} /\ commands = {} /\ rounds = 0
  /\ owed = Nothing /\ armed = FALSE /\ due = {}

Midnight ==
  /\ today < MaxDay
  /\ today' = today + 1
  /\ UNCHANGED <<store, batches, job_vars, round_vars, history_vars>>

\* The job has listed piece p and has not replaced it yet.
Held(p) ==
  /\ job \in {"write", "stage", "commit"}
  /\ p \in Mine
  /\ job = "commit" => p \in staged
  /\ Here \in Partitioned => listed[p] # {}
  /\ Here \notin Partitioned => job = "write"

\* Ingestion publishes a batch in piece p, in daily mode beside the files that
\* are there, in initial mode instead of them (dynamic overwrite for kt4).
Ingest(p, mode) ==
  /\ batches < MaxBatches
  /\ batches' = batches + 1
  /\ LET file == {batches + 1} IN
       /\ store' = [store EXCEPT ![p] =
                      (IF mode = "daily" THEN @ ELSE {}) \cup {file}]
       /\ owed' = [owed EXCEPT ![p] =
                     (IF mode = "daily" THEN @ ELSE {})
                       \cup (IF Held(p) THEN {} ELSE file)]
  /\ due' = due \ {p}
  /\ UNCHANGED <<today, job_vars, round_vars, armed>>

-----------------------------------------------------------------------------
\* `python compact.py`: compact_all.
StartJob ==
  /\ job = "idle"
  /\ jobs < MaxJobs
  /\ jobs' = jobs + 1
  /\ job' = "read"
  /\ turn' = 1
  /\ UNCHANGED <<today, store, batches, listed, staged, round_vars,
                 history_vars>>

\* The loop of compact_all goes on to the next target, or ends.
NextTarget ==
  /\ listed' = Nothing
  /\ staged' = {}
  /\ IF turn < Len(Targets)
     THEN job' = "read" /\ turn' = turn + 1
     ELSE job' = "idle" /\ UNCHANGED turn

\* `except Exception` of compact_all: the error is logged, the loop goes on.
CaughtFailure ==
  /\ job # "idle"
  /\ NextTarget
  /\ UNCHANGED <<today, store, batches, jobs, round_vars, history_vars>>

\* The container ends.
Killed ==
  /\ job # "idle"
  /\ job' = "idle"
  /\ listed' = Nothing
  /\ staged' = {}
  /\ UNCHANGED <<today, store, batches, turn, jobs, round_vars,
                 history_vars>>

\* spark.read.parquet(path) lists the files; without any it cannot infer a
\* schema and raises.
ReadPath ==
  /\ job = "read"
  /\ \E p \in Mine : store[p] # {}
  /\ listed' = [p \in Pieces |-> IF p \in Mine THEN store[p] ELSE {}]
  /\ job' = "write"
  /\ due' = {p \in due : listed'[p] = {}}
  /\ UNCHANGED <<today, store, batches, turn, staged, jobs, round_vars, owed,
                 armed>>

\* Seeded bug in StaticOverwrite, for the mutation tests.
ForgetsPartitionBy == TRUE

\* Without partition_by the overwrite deletes the path when the job starts.
StaticOverwrite == Here \notin Partitioned

\* compact leaves the frame as it is: PySpark's DataFrame has no queryExecution,
\* so estimate_num_output_files returns the partition count the frame has.
\* Then writer.mode("overwrite").save(path) starts its job.
BeginOverwrite ==
  /\ job = "write"
  /\ job' = "stage"
  /\ IF StaticOverwrite
     THEN /\ store' = [p \in Pieces |-> IF p \in Mine THEN {} ELSE store[p]]
          /\ owed' = [p \in Pieces |-> IF p \in Mine /\ Here \notin Partitioned
                                       THEN {} ELSE owed[p]]
     ELSE UNCHANGED <<store, owed>>
  /\ UNCHANGED <<today, batches, turn, listed, staged, jobs, round_vars,
                 armed, due>>

\* The tasks read every listed file and stage their output by partition; they
\* can only if every file is still there (CaughtFailure otherwise).
Stage ==
  /\ job = "stage"
  /\ \A p \in Mine : listed[p] \subseteq store[p]
  /\ job' = "commit"
  /\ staged' = {p \in Mine : listed[p] # {}}
  /\ UNCHANGED <<today, store, batches, turn, listed, jobs, round_vars,
                 history_vars>>

\* Seeded bug in ReplacePiece, for the mutation tests.
AddsPiece(p) ==
  /\ job = "commit"
  /\ p \in staged
  /\ store' = [store EXCEPT ![p] = @ \cup {UNION listed[p]}]
  /\ staged' = staged \ {p}
  /\ UNCHANGED <<today, batches, job, turn, listed, jobs, round_vars,
                 history_vars>>

\* The job commit deletes the partition and renames the staged one in place.
\* (In how many files its rows are is left out.)
ReplacePiece(p) ==
  /\ job = "commit"
  /\ p \in staged
  /\ store' = [store EXCEPT ![p] = {UNION listed[p]}]
  /\ staged' = staged \ {p}
  /\ UNCHANGED <<today, batches, job, turn, listed, jobs, round_vars,
                 history_vars>>

\* It breaks off between the two; the exception is caught, the rows are gone.
BrokenReplace(p) ==
  /\ job = "commit"
  /\ p \in staged
  /\ store' = [store EXCEPT ![p] = {}]
  /\ owed' = [owed EXCEPT ![p] = {}]
  /\ NextTarget
  /\ UNCHANGED <<today, batches, jobs, round_vars, armed, due>>

\* save returns.
FinishTarget ==
  /\ job = "commit"
  /\ staged = {}
  /\ NextTarget
  /\ UNCHANGED <<today, store, batches, jobs, round_vars, history_vars>>

-----------------------------------------------------------------------------
\* The operator lists the partitions (`hdfs dfs -ls`) for a round with the
\* given policy.
ListPartitions(enabled, dry_run) ==
  /\ round = "idle"
  /\ rounds < MaxRounds
  /\ rounds' = rounds + 1
  /\ round' = "listed"
  /\ policy' = [enabled |-> enabled, dry_run |-> dry_run]
  /\ listing' = {p \in Pieces : store[p] # {}}
  /\ armed' = (armed \/ (enabled /\ ~dry_run))
  /\ due' = {}
  /\ UNCHANGED <<today, store, batches, job_vars, commands, owed>>

\* Seeded bug in IsExpired, for the mutation tests.
ExpiresADayLate(p) == p \in Dated /\ DateOf[p] + RetentionDays + 1 < today

\* The test of find_expired_partitions; a path without a date is skipped.
IsExpired(p) == p \in Dated /\ DateOf[p] + RetentionDays < today

\* find_expired_partitions; generate_deletion_commands makes a command of every
\* path, a comment if dry_run.
FindExpired ==
  /\ round = "listed"
  /\ round' = "run"
  /\ commands' = IF policy.enabled THEN {p \in listing : IsExpired(p)} ELSE {}
  /\ due' = IF policy.enabled /\ ~policy.dry_run
            THEN {p \in listing : Expired(p) /\ listed[p] = {}} ELSE {}
  /\ UNCHANGED <<today, store, batches, job_vars, policy, listing, rounds,
                 owed, armed>>

\* A command without the "# DRY RUN: " prefix.
Deletes == ~policy.dry_run

\* The operator runs one line: `hdfs dfs -rm -r -skipTrash path`.
RunCommand(p) ==
  /\ round = "run"
  /\ p \in commands
  /\ commands' = commands \ {p}
  /\ store' = [store EXCEPT ![p] = IF Deletes THEN {} ELSE @]
  /\ UNCHANGED <<today, batches, job_vars, round, policy, listing, rounds,
                 history_vars>>

\* The last line has been run.
FinishRound ==
  /\ round = "run"
  /\ commands = {}
  /\ round' = "idle"
  /\ listing' = {}
  /\ UNCHANGED <<today, store, batches, job_vars, policy, commands, rounds,
                 history_vars>>

-----------------------------------------------------------------------------
Compaction ==
  \/ ReadPath \/ BeginOverwrite \/ Stage \/ FinishTarget
  \/ \E p \in Pieces : ReplacePiece(p)

\* What the job does by itself, the handler of its failures included.
JobProgress == Compaction \/ CaughtFailure

RoundProgress ==
  FindExpired \/ FinishRound \/ \E p \in Pieces : RunCommand(p)

Next ==
  \/ Midnight
  \/ \E p \in Pieces, mode \in {"daily", "initial"} : Ingest(p, mode)
  \/ StartJob \/ JobProgress \/ Killed
  \/ \E p \in Pieces : BrokenReplace(p)
  \/ \E enabled, dry_run \in BOOLEAN : ListPartitions(enabled, dry_run)
  \/ RoundProgress

Spec == Init /\ [][Next]_vars

-----------------------------------------------------------------------------
\* Type correctness of the raw zone, of the compaction job (turn stays within the
\* configured targets) and of the retention round.
TypeOK ==
  /\ today \in Nat
  /\ store \in [Pieces -> SUBSET SUBSET Batches]
  /\ batches \in 0 .. MaxBatches
  /\ job \in {"idle", "read", "write", "stage", "commit"}
  /\ turn \in DOMAIN Targets
  /\ listed \in [Pieces -> SUBSET SUBSET Batches]
  /\ staged \subseteq Pieces
  /\ jobs \in Nat
  /\ round \in {"idle", "listed", "run"}
  /\ policy \in [enabled : BOOLEAN, dry_run : BOOLEAN]
  /\ listing \subseteq Pieces
  /\ commands \subseteq Pieces
  /\ rounds \in Nat
  /\ owed \in [Pieces -> SUBSET Batches]
  /\ armed \in BOOLEAN
  /\ due \subseteq Pieces

\* Between ingestion, compaction and retention no row is lost but one whose
\* partition has expired, once a round that deletes was started; and, as owed
\* says, one of an unpartitioned target that compaction deletes, one that came
\* between the listing and the replacement of its partition, or one whose
\* replacement broke off.  What an operator listed before midnight, what a
\* compaction listed before a deletion, a disabled policy and a dry run change
\* nothing in that.
RowsAreKept ==
  \A p \in Pieces : (~armed \/ ~Expired(p)) => owed[p] \subseteq RowsIn(p)

\* No row is there twice: a compaction that is cut short between two partitions,
\* run again, or overtaken by an append or a deletion never leaves the old files
\* of a partition beside the new ones.
NothingIsDuplicated ==
  \A p \in Pieces : \A f, g \in store[p] : f # g => f \cap g = {}

\* After a round that deletes, the partitions that were listed and had expired
\* when the operator looked are gone, unless ingestion or a compaction job that
\* had listed them before has brought them back since.
ExpiredAreRemoved ==
  round = "idle" => \A p \in due : store[p] = {}

=============================================================================
