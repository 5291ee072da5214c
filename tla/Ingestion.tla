----------------------------- MODULE Ingestion -----------------------------
(***************************************************************************)
(* The ingestion service: one container run after another reads the CSV    *)
(* sources, validates them, applies the privacy guardrails and writes the  *)
(* surviving frames to the HDFS raw zone.                                  *)
(*   microservices/ingestion/pipelines/ingest_ednet.py    main             *)
(*   .../pipelines/file_intake/read_csv.py                read_all_sources *)
(*   .../pipelines/structural_validation/validate.py      validate_sources *)
(*   .../pipelines/raw_storage_write/write_to_hdfs.py     write_to_raw_zone*)
(*   .../src/format_converter.py, src/retry.py            @retry           *)
(*                                                                         *)
(* The unit of data is the row.  A row knows its source, the piece of the  *)
(* target it lands in (an event_date partition of kt4, a part file of the  *)
(* unpartitioned targets) and the required columns in which it is null.    *)
(* Spark's job commit is external code: it is modelled as one publication  *)
(* per piece, in any order, that may be cut short anywhere.  Runs do not   *)
(* overlap here: Pipeline has overlapping ones.                            *)
(***************************************************************************)
EXTENDS Naturals, FiniteSets

CONSTANTS
  Rows,              \* every row a source file may come to hold
  Columns,           \* column names
  Schemas,           \* schemas.py as deployed over time: [Sources -> SUBSET Columns]
  RequiredColumns,   \* validation.required_columns
  PIIColumns,        \* columns that match a pattern of privacy.py
  PiiStrict,         \* privacy.pii_scan_strict
  NullNum, NullDen,  \* validation.max_null_ratio as a fraction
  MaxRetries,        \* @retry(max_retries=...) of convert_to_parquet
  MaxRuns            \* bound: container runs explored

\* The keys of cfg["sources"] and cfg["targets"].
Sources == {"kt4", "lectures", "questions"}

\* Targets with a partition_by; only these are overwritten dynamically.
Partitioned == {"kt4"}

\* MANDATORY_SOURCES of validate_sources.
Mandatory == {"kt4"}

\* read_all_sources fills the dict in this order; every later loop keeps it.
Before == { <<"kt4", "lectures">>, <<"kt4", "questions">>,
            <<"lectures", "questions">> }

ASSUME RowsAssumption ==
  \A r \in Rows : r.source \in Sources /\ r.nulls \subseteq Columns

ASSUME ConfigAssumption ==
  /\ Schemas \subseteq [Sources -> SUBSET Columns]
  /\ RequiredColumns \in [Sources -> SUBSET Columns]
  /\ PIIColumns \subseteq Columns
  /\ PiiStrict \in BOOLEAN
  /\ NullNum \in Nat /\ NullDen \in Nat \ {0}
  /\ MaxRetries \in Nat /\ MaxRuns \in Nat

VARIABLES
  runs,      \* containers started so far
  pc,        \* where the running container is, or how the last one ended
  mode,      \* --mode
  schema,    \* schemas.py of the running image
  frames,    \* dataframes: source -> rows ({}: not in the dict)
  columns,   \* df.columns of each frame
  written,   \* targets whose convert_to_parquet has returned
  target,    \* target being written
  tries,     \* attempts made at each target by this run
  pending,   \* pieces the running Spark job has still to publish
  raw,       \* the raw zone: copies held of each row
  rawColumns,\* columns ever written to each dataset
  lineage    \* JSON lineage records in the running container's file system

\* History variables: the raw zone when the running container started, and the
\* frames as its file intake read them.
VARIABLES before, intake

run_vars    == <<mode, schema, frames, columns>>
write_vars  == <<written, target, tries, pending>>
zone_vars   == <<raw, rawColumns>>
history_vars == <<before, intake>>
vars == <<runs, pc, run_vars, write_vars, zone_vars, lineage, history_vars>>

Ended   == {"idle", "done", "failed"}
Running == {"intake", "validation", "privacy", "write", "attempt",
            "publish", "lineage"}

RowsOf(s)   == {r \in Rows : r.source = s}
PiecesOf(s) == {r.piece : r \in frames[s]}

\* The keys of the dataframes dict.
Loaded == {s \in Sources : frames[s] # {}}

NoFrames == [s \in Sources |-> {}]

-----------------------------------------------------------------------------
Init ==
  /\ runs = 0
  /\ pc = "idle"
  /\ mode = "daily"
  /\ schema \in Schemas
  /\ frames = NoFrames
  /\ columns = NoFrames
  /\ written = {}
  /\ target = "kt4"
  /\ tries = [s \in Sources |-> 0]
  /\ pending = {}
  /\ raw = [r \in Rows |-> 0]
  /\ rawColumns = NoFrames
  /\ lineage = {}
  /\ before = raw
  /\ intake = NoFrames

\* `docker compose run --rm -e MODE=m ingestion`, with the image's schemas.
\* The checksum pre-step of main runs here: it swallows every exception and
\* its manifest dies with the container, as the lineage record of the last run
\* does, so no later step depends on it.
Start(m, img) ==
  /\ pc \in Ended
  /\ runs < MaxRuns
  /\ runs' = runs + 1
  /\ pc' = "intake"
  /\ mode' = m
  /\ schema' = img
  /\ frames' = NoFrames
  /\ columns' = NoFrames
  /\ written' = {}
  /\ tries' = [s \in Sources |-> 0]
  /\ pending' = {}
  /\ lineage' = {}
  /\ before' = raw
  /\ intake' = NoFrames
  /\ UNCHANGED <<target, zone_vars>>

\* read_all_sources: `found` are the rows the mounted source directories hold
\* at this moment, less those of the sources whose reader raises.  A reader
\* raises on an empty source; every failure, kt4's too, is only logged.
ReadSources(found) ==
  /\ pc = "intake"
  /\ frames' = [s \in Sources |-> {r \in found : r.source = s}]
  /\ columns' = [s \in Sources |->
                   IF frames'[s] # {} THEN schema[s] ELSE {}]
  /\ intake' = frames'
  /\ pc' = IF found = {} THEN "failed" ELSE "validation"
  /\ UNCHANGED <<runs, mode, schema, write_vars, zone_vars, lineage,
                 before>>

-----------------------------------------------------------------------------
\* _check_required_columns
HasRequiredColumns(s) == RequiredColumns[s] \subseteq columns[s]

\* _check_null_ratio: ratio > max_null_ratio in any required column rejects.
NullRatioOk(s) ==
  \A c \in RequiredColumns[s] :
    NullDen * Cardinality({r \in frames[s] : c \in r.nulls})
      <= NullNum * Cardinality(frames[s])

\* validator.validate returns: an empty frame never gets here.
ValidIfColumns(s) == HasRequiredColumns(s)
Valid(s) == HasRequiredColumns(s) /\ NullRatioOk(s)

\* validate_sources: an invalid kt4 aborts, other invalid sources are dropped,
\* and a run left with no source aborts.
ValidateSources ==
  /\ pc = "validation"
  /\ IF \/ \E s \in Loaded \cap Mandatory : ~Valid(s)
        \/ \A s \in Loaded : ~Valid(s)
     THEN pc' = "failed" /\ UNCHANGED frames
     ELSE /\ pc' = "privacy"
          /\ frames' = [s \in Sources |->
                          IF s \in Loaded /\ Valid(s) THEN frames[s] ELSE {}]
  /\ UNCHANGED <<runs, mode, schema, columns, write_vars, zone_vars,
                 lineage, history_vars>>

\* Seeded bug in PiiFound, for the mutation tests.
PiiFoundInKT4 == columns["kt4"] \cap PIIColumns # {}

\* scan_for_pii_columns
PiiFound == \E s \in Loaded : columns[s] \cap PIIColumns # {}

\* ALLOWED_COLUMNS is derived from the schemas of the same image.
AllowedColumns(s) == schema[s]

\* The guardrail loop of main: a strict scan that flags a column raises before
\* anything is written; otherwise the allowlist selects the columns kept.
GuardPrivacy ==
  /\ pc = "privacy"
  /\ IF PiiStrict /\ PiiFound
     THEN pc' = "failed" /\ UNCHANGED columns
     ELSE /\ pc' = "write"
          /\ columns' = [s \in Sources |-> columns[s] \cap AllowedColumns(s)]
  /\ UNCHANGED <<runs, mode, schema, frames, write_vars, zone_vars,
                 lineage, history_vars>>

-----------------------------------------------------------------------------
\* The loop of write_to_raw_zone has come to target s.
Turn(s) ==
  /\ s \in Loaded \ written
  /\ \A t \in Loaded : <<t, s>> \in Before => t \in written

\* Seeded bug in Overwrites, for the mutation tests.
ConfiguredOverwrites == target # "kt4"

\* write_mode of main: mode_override applies to every target, whatever the mode
\* its configuration gives it (kt4: append, lectures and questions: overwrite).
Overwrites == mode = "initial"

\* Seeded bug in StaticOverwrite, for the mutation tests.
OverwritesAllStatically == Overwrites

\* Overwriting a target without partition_by deletes it first; a partitioned one
\* is overwritten dynamically, one partition at a time.
StaticOverwrite == Overwrites /\ target \notin Partitioned

\* Another attempt is due: `attempt > max_retries` re-raises.
RetriesLeft == tries[target] <= MaxRetries

\* convert_to_parquet is called, or called again by @retry.
BeginWrite(s) ==
  /\ pc = "write"
  /\ Turn(s)
  /\ pc' = "attempt"
  /\ target' = s
  /\ tries' = [tries EXCEPT ![s] = @ + 1]
  /\ UNCHANGED <<runs, run_vars, written, pending, zone_vars, lineage,
                 history_vars>>

\* Spark starts the job.  A static overwrite deletes the whole target; append and
\* dynamic partition overwrite delete nothing yet.
StartJob ==
  /\ pc = "attempt"
  /\ pc' = "publish"
  /\ pending' = PiecesOf(target)
  /\ raw' = [r \in Rows |->
               IF StaticOverwrite /\ r.source = target THEN 0 ELSE raw[r]]
  /\ UNCHANGED <<runs, run_vars, written, target, tries, rawColumns,
                 lineage, history_vars>>

\* The job commit moves one piece into place: overwrite replaces that piece,
\* append adds the frame's rows to it.
PublishPiece(p) ==
  /\ pc = "publish"
  /\ p \in pending
  /\ pending' = pending \ {p}
  /\ raw' = [r \in Rows |->
               IF r.source = target /\ r.piece = p
               THEN (IF Overwrites THEN 0 ELSE raw[r])
                      + (IF r \in frames[target] THEN 1 ELSE 0)
               ELSE raw[r]]
  /\ rawColumns' = [rawColumns EXCEPT ![target] = @ \cup columns[target]]
  /\ UNCHANGED <<runs, pc, run_vars, written, target, tries, lineage,
                 history_vars>>

\* writer.save returns.
FinishWrite ==
  /\ pc = "publish"
  /\ pending = {}
  /\ written' = written \cup {target}
  /\ pc' = IF Loaded \subseteq written' THEN "lineage" ELSE "write"
  /\ UNCHANGED <<runs, run_vars, target, tries, pending, zone_vars,
                 lineage, history_vars>>

\* Seeded bug in TransientFailure, for the mutation tests.
SwallowedFailure ==
  /\ pc \in {"attempt", "publish"}
  /\ written' = IF RetriesLeft THEN written ELSE written \cup {target}
  /\ pc' = IF Loaded \subseteq written' THEN "lineage" ELSE "write"
  /\ pending' = {}
  /\ UNCHANGED <<runs, run_vars, target, tries, zone_vars, lineage,
                 history_vars>>

\* writer.save raises ConnectionError, TimeoutError or OSError, before, during
\* or after the commit: @retry calls it again, max_retries times.
TransientFailure ==
  /\ pc \in {"attempt", "publish"}
  /\ pc' = IF RetriesLeft THEN "write" ELSE "failed"
  /\ pending' = {}
  /\ UNCHANGED <<runs, run_vars, written, target, tries, zone_vars,
                 lineage, history_vars>>

\* Any other exception (a Py4JJavaError is not an OSError) ends the run, and so
\* does the end of its container.
FatalFailure ==
  /\ pc \in Running
  /\ pc' = "failed"
  /\ pending' = {}
  /\ UNCHANGED <<runs, run_vars, written, target, tries, zone_vars,
                 lineage, history_vars>>

\* lineage.finish("success"), save_lineage, exit status 0.
SaveLineage ==
  /\ pc = "lineage"
  /\ lineage' = lineage \cup
       {[mode |-> mode, status |-> "success", targets |-> Loaded]}
  /\ pc' = "done"
  /\ UNCHANGED <<runs, run_vars, write_vars, zone_vars, history_vars>>

-----------------------------------------------------------------------------
Write ==
  \/ \E s \in Sources : BeginWrite(s)
  \/ StartJob
  \/ \E p \in pending : PublishPiece(p)
  \/ FinishWrite

\* The steps the running container takes by itself.
Progress ==
  \/ \E found \in SUBSET Rows : ReadSources(found)
  \/ ValidateSources
  \/ GuardPrivacy
  \/ Write
  \/ SaveLineage

Next ==
  \/ \E m \in {"initial", "daily"}, img \in Schemas : Start(m, img)
  \/ Progress
  \/ TransientFailure
  \/ FatalFailure

Spec == Init /\ [][Next]_vars

-----------------------------------------------------------------------------
\* Type correctness of the ingestion state.
TypeOK ==
  /\ runs \in Nat
  /\ pc \in Ended \cup Running
  /\ mode \in {"initial", "daily"}
  /\ schema \in Schemas
  /\ frames \in [Sources -> SUBSET Rows]
  /\ columns \in [Sources -> SUBSET Columns]
  /\ written \subseteq Sources
  /\ target \in Sources
  /\ tries \in [Sources -> 0 .. MaxRetries + 1]
  /\ pending \subseteq {r.piece : r \in Rows}
  /\ raw \in [Rows -> Nat]
  /\ rawColumns \in [Sources -> SUBSET Columns]
  /\ lineage \subseteq [mode : {"initial", "daily"}, status : {"success"},
                        targets : SUBSET Sources]
  /\ before \in [Rows -> Nat]
  /\ intake \in [Sources -> SUBSET Rows]

InFrame(r) == r \in frames[r.source]

\* In initial mode, once convert_to_parquet has returned for a target, the raw
\* zone holds exactly the frame in every piece the write covers (the whole
\* target, or the event dates present in the kt4 frame), whatever earlier runs,
\* failed attempts and retries had left there.
InitialLoadIsExact ==
  mode = "initial" =>
    \A s \in written : \A r \in RowsOf(s) :
      (s \notin Partitioned \/ r.piece \in PiecesOf(s))
        => raw[r] = IF InFrame(r) THEN 1 ELSE 0

\* In daily mode a row gains at least one copy once its target is written, at
\* most one per attempt made at it, and no row of the raw zone is ever lost.
DailyAppendsPerAttempt ==
  mode = "daily" =>
    \A r \in Rows :
      /\ raw[r] >= before[r]
                    + (IF InFrame(r) /\ r.source \in written THEN 1 ELSE 0)
      /\ raw[r] <= before[r] + (IF InFrame(r) THEN tries[r.source] ELSE 0)

\* A source that was not read, or was dropped by validation, and a kt4 event
\* date absent from the frame, keep what the raw zone held before the run,
\* however the run goes and ends.
SkippedDataIsUntouched ==
  \A r \in Rows :
    \/ frames[r.source] = {}
    \/ r.source \in Partitioned /\ r.piece \notin PiecesOf(r.source)
    => raw[r] = before[r]

\* Whatever schemas are deployed over time, under a strict scan no column that
\* privacy.py flags ever reaches any dataset of the raw zone.
RawZoneIsPrivate ==
  PiiStrict => \A s \in Sources : rawColumns[s] \cap PIIColumns = {}

\* A success record names only targets that are complete.
LineageIsTruthful ==
  \A rec \in lineage :
    \A s \in rec.targets : frames[s] # {} /\ \A r \in frames[s] : raw[r] >= 1

\* No step changes the raw zone unless every frame of the run is valid, the
\* frames whose turn has not come included, and the kt4 rows that were read are
\* all still there: invalid kt4 rows stop the other targets too.
NothingUnvalidatedIsWritten ==
  [][raw' # raw => /\ \A s \in Loaded : NullRatioOk(s)
                   /\ frames["kt4"] = intake["kt4"]]_vars

=============================================================================
