----------------------------- MODULE Processing -----------------------------
(***************************************************************************)
(* The processing service: one container run after another reads the raw   *)
(* zone, derives three datasets and overwrites them in the curated zone.   *)
(*   microservices/processing/pipelines/process_ednet.py       main        *)
(*   .../pipelines/data_intake/run.py               read_raw_sources       *)
(*   .../pipelines/{feature_engineering,feature_aggregation,               *)
(*                  similarity_computation}/run.py                         *)
(*   .../src/data_quality.py, src/privacy.py, src/retry.py                 *)
(*                                                                         *)
(* Dataframes are lazy and nothing caches them: every count() and every    *)
(* write evaluates its dataset again from the raw files that               *)
(* spark.read.parquet listed at data intake.  A file that has gone since   *)
(* makes the evaluation raise; a file that has come since is not seen.     *)
(* Ingestion changes the raw zone at any moment, a run included: nothing   *)
(* in the repository keeps the two services apart.                         *)
(***************************************************************************)
EXTENDS ProcessingConfig, Naturals, FiniteSets

CONSTANTS
  Files,             \* every raw file: [source, user, date], one row in each
  Parts,             \* part files of a curated dataset
  MinRowCount,       \* data_quality.min_row_count
  WindowDays,        \* processing_window.window_days
  MaxRetries,        \* @retry(max_retries=...) of _write_parquet
  MaxRuns,           \* bound: container runs explored
  MaxDay             \* bound: days that pass

ASSUME FilesAssumption ==
  \A f \in Files : f.source \in {"kt4", "questions"} /\ f.date \in Nat

ASSUME ConfigAssumption ==
  /\ {MinRowCount, WindowDays} \subseteq Nat
  /\ {MaxRetries, MaxRuns, MaxDay} \subseteq Nat
  /\ Parts # {}

\* The keys of `outputs` in main, in the order they are written.
Datasets == {"aggregated_student_features", "user_vectors",
             "recommendations_batch"}

\* Seeded bug in Before, for the mutation tests.
AnyOrder == {}

Before == { <<"aggregated_student_features", "user_vectors">>,
            <<"aggregated_student_features", "recommendations_batch">>,
            <<"user_vectors", "recommendations_batch">> }

VARIABLES
  raw,       \* files in the raw zone
  today,     \* the UTC day of datetime.now
  runs,      \* containers started so far
  pc,        \* where the running container is, or how the last one ended
  mode,      \* --mode
  seen,      \* files the dataframes are evaluated from: listed and in the window
  written,   \* datasets whose _write_parquet has returned
  target,    \* dataset being written
  tries,     \* attempts made at each dataset by this run
  curated    \* the curated zone: part files held, and the run and the input
             \* they come from (run 0: never written)

run_vars   == <<mode, seen>>
write_vars == <<written, target, tries>>
env_vars   == <<raw, today>>
vars == <<env_vars, runs, pc, run_vars, write_vars, curated>>

Ended   == {"idle", "done", "failed", "killed"}
Running == {"intake", "compute", "quality", "write", "attempt", "job",
            "record", "lineage"}

Of(source, files) == {f \in files : f.source = source}

\* Every evaluation opens the files that were listed.
Readable == seen \subseteq raw

\* aggregate_student_features, filter_min_interactions: a row per student.
Students(files) ==
  {u \in {f.user : f \in Of("kt4", files)} :
     Cardinality({f \in Of("kt4", files) : f.user = u}) >= MinInteractions}

\* normalize_features keeps every student; get_top_k_recommendations keeps up to
\* top_k of the other students for each.
Smaller(m, n) == IF m <= n THEN m ELSE n
RowCount(d, files) ==
  LET n == Cardinality(Students(files)) IN
  IF d = "recommendations_batch"
  THEN IF n = 0 THEN 0 ELSE n * Smaller(n - 1, TopK)
  ELSE n

-----------------------------------------------------------------------------
Nothing == [parts |-> {}, run |-> 0, input |-> {}]

Init ==
  /\ raw \in SUBSET Files
  /\ today = 0
  /\ runs = 0
  /\ pc = "idle"
  /\ mode = "initial"
  /\ seen = {}
  /\ written = {}
  /\ target = "aggregated_student_features"
  /\ tries = [d \in Datasets |-> 0]
  /\ curated = [d \in Datasets |-> Nothing]

\* `docker compose run --rm -e MODE=m processing`
Start(m) ==
  /\ pc \in Ended
  /\ runs < MaxRuns
  /\ runs' = runs + 1
  /\ pc' = "intake"
  /\ mode' = m
  /\ seen' = {}
  /\ written' = {}
  /\ tries' = [d \in Datasets |-> 0]
  /\ UNCHANGED <<env_vars, target, curated>>

\* event_date >= cutoff, where main takes the window from the configuration: the
\* PROCESSING_WINDOW_DAYS the scripts set is read nowhere.
InWindow(f) == mode = "incremental" => f.date + WindowDays >= today

\* read_raw_sources: a kt4 that cannot be read is fatal, the two other sources
\* are left out.  Lectures are read and never used.
ReadRaw(readable) ==
  /\ pc = "intake"
  /\ seen' = {f \in Of("kt4", raw) : InWindow(f)} \cup
             (IF readable THEN Of("questions", raw) ELSE {})
  /\ pc' = IF Of("kt4", raw) = {} THEN "failed" ELSE "compute"
  /\ UNCHANGED <<env_vars, runs, mode, write_vars, curated>>

\* run_feature_engineering raises KeyError without questions; it and the steps
\* after it count their rows.  The scan for PII looks at column names that are
\* constants of the code and flags none of them.
Compute ==
  /\ pc = "compute"
  /\ pc' = IF Of("questions", seen) # {} /\ Readable THEN "quality"
                                                     ELSE "failed"
  /\ UNCHANGED <<env_vars, runs, run_vars, write_vars, curated>>

\* Seeded bug in QualityOk, for the mutation tests.
QualityOfFirst == RowCount("aggregated_student_features", seen) >= MinRowCount

\* DataQualityValidator.validate over all outputs.  Keys are unique and required
\* columns present by construction; what can fail is _check_row_count.
QualityOk == \A d \in Datasets : RowCount(d, seen) >= MinRowCount

ValidateQuality ==
  /\ pc = "quality"
  /\ pc' = IF QualityOk /\ Readable THEN "write" ELSE "failed"
  /\ UNCHANGED <<env_vars, runs, run_vars, write_vars, curated>>

-----------------------------------------------------------------------------
\* The write loop of main has come to dataset d.
Turn(d) ==
  /\ d \notin written
  /\ \A e \in Datasets : <<e, d>> \in Before => e \in written

RetriesLeft == tries[target] <= MaxRetries

\* Seeded bug in BeginWrite, for the mutation tests.
ForgetsAttempts(d) ==
  /\ pc = "write"
  /\ Turn(d)
  /\ pc' = "attempt"
  /\ target' = d
  /\ tries' = [tries EXCEPT ![d] = 1]
  /\ UNCHANGED <<env_vars, runs, run_vars, written, curated>>

\* _write_parquet is called, or called again by @retry.
BeginWrite(d) ==
  /\ pc = "write"
  /\ Turn(d)
  /\ pc' = "attempt"
  /\ target' = d
  /\ tries' = [tries EXCEPT ![d] = @ + 1]
  /\ UNCHANGED <<env_vars, runs, run_vars, written, curated>>

\* Seeded bug in StartJob, for the mutation tests.
EvaluatesAfresh ==
  /\ pc = "attempt"
  /\ pc' = "job"
  /\ seen' = {f \in raw : f.source = "kt4" => InWindow(f)}
  /\ curated' = [curated EXCEPT ![target] =
                   [parts |-> {}, run |-> runs, input |-> seen']]
  /\ UNCHANGED <<env_vars, runs, mode, write_vars>>

\* mode("overwrite") without partitions: Spark deletes the dataset, then runs the
\* job that evaluates it.
StartJob ==
  /\ pc = "attempt"
  /\ pc' = "job"
  /\ curated' = [curated EXCEPT ![target] =
                   [parts |-> {}, run |-> runs, input |-> seen]]
  /\ UNCHANGED <<env_vars, runs, run_vars, write_vars>>

\* The job commit moves one part file into place.
PublishPart(p) ==
  /\ pc = "job"
  /\ Readable
  /\ p \in Parts \ curated[target].parts
  /\ curated' = [curated EXCEPT ![target].parts = @ \cup {p}]
  /\ UNCHANGED <<env_vars, runs, pc, run_vars, write_vars>>

FinishWrite ==
  /\ pc = "job"
  /\ curated[target].parts = Parts
  /\ written' = written \cup {target}
  /\ pc' = "record"
  /\ UNCHANGED <<env_vars, runs, run_vars, target, tries, curated>>

\* lineage.record_target counts the dataset once more.
RecordTarget ==
  /\ pc = "record"
  /\ pc' = IF ~Readable THEN "failed"
           ELSE IF written = Datasets THEN "lineage" ELSE "write"
  /\ UNCHANGED <<env_vars, runs, run_vars, write_vars, curated>>

\* The metrics, save_lineage and the summary; exit status 0.
SaveLineage ==
  /\ pc = "lineage"
  /\ pc' = IF Readable THEN "done" ELSE "failed"
  /\ UNCHANGED <<env_vars, runs, run_vars, write_vars, curated>>

\* Seeded bug in TransientFailure, for the mutation tests.
SwallowedFailure ==
  /\ pc \in {"attempt", "job"}
  /\ written' = IF RetriesLeft THEN written ELSE written \cup {target}
  /\ pc' = IF RetriesLeft THEN "write" ELSE "record"
  /\ UNCHANGED <<env_vars, runs, run_vars, target, tries, curated>>

\* The write raises ConnectionError, TimeoutError or OSError: @retry.
TransientFailure ==
  /\ pc \in {"attempt", "job"}
  /\ pc' = IF RetriesLeft THEN "write" ELSE "failed"
  /\ UNCHANGED <<env_vars, runs, run_vars, write_vars, curated>>

\* Any other exception, a listed file that has gone included, or the container is
\* killed.
Stop(how) ==
  /\ pc \in Running
  /\ pc' = how
  /\ UNCHANGED <<env_vars, runs, run_vars, write_vars, curated>>

-----------------------------------------------------------------------------
\* Ingestion appends a file, or an initial load removes one.
RawAppended(f) ==
  /\ f \notin raw
  /\ raw' = raw \cup {f}
  /\ UNCHANGED <<today, runs, pc, run_vars, write_vars, curated>>

RawOverwritten(f) ==
  /\ f \in raw
  /\ raw' = raw \ {f}
  /\ UNCHANGED <<today, runs, pc, run_vars, write_vars, curated>>

Tick ==
  /\ today < MaxDay
  /\ today' = today + 1
  /\ UNCHANGED <<raw, runs, pc, run_vars, write_vars, curated>>

Environment ==
  \/ \E f \in Files : RawAppended(f) \/ RawOverwritten(f)
  \/ Tick

Write ==
  \/ \E d \in Datasets : BeginWrite(d)
  \/ StartJob
  \/ \E p \in Parts : PublishPart(p)
  \/ FinishWrite
  \/ RecordTarget

\* The steps the running container takes by itself.  A job whose files have gone
\* cannot go on: it fails.
Progress ==
  \/ \E readable \in BOOLEAN : ReadRaw(readable)
  \/ Compute
  \/ ValidateQuality
  \/ Write
  \/ SaveLineage
  \/ pc = "job" /\ ~Readable /\ Stop("failed")

Next ==
  \/ \E m \in {"initial", "incremental"} : Start(m)
  \/ Progress
  \/ TransientFailure
  \/ \E how \in {"failed", "killed"} : Stop(how)
  \/ Environment

Spec == Init /\ [][Next]_vars

\* A container that is running keeps running until it exits.
FairSpec == Spec /\ WF_vars(Progress)

-----------------------------------------------------------------------------
\* Type correctness of the processing state.
TypeOK ==
  /\ raw \subseteq Files
  /\ today \in 0 .. MaxDay
  /\ runs \in 0 .. MaxRuns
  /\ pc \in Ended \cup Running
  /\ mode \in {"initial", "incremental"}
  /\ seen \subseteq Files
  /\ written \subseteq Datasets
  /\ target \in Datasets
  /\ tries \in [Datasets -> 0 .. MaxRetries + 1]
  /\ curated \in [Datasets -> [parts : SUBSET Parts, run : 0 .. MaxRuns,
                               input : SUBSET Files]]

Whole(d) == curated[d].parts = Parts

\* A run that exits with 0 has published all three datasets, whole, and all from
\* the files data intake listed in the window, whatever ingestion has changed in
\* the meantime and whatever failed attempts and earlier runs had left.
SuccessIsFresh ==
  pc = "done" => \A d \in Datasets :
    Whole(d) /\ curated[d].run = runs /\ curated[d].input = seen

\* Across failed and repeated runs the recommendations and the user vectors on
\* offer are never newer than the student features they were derived with.
PublicationOrder ==
  \A d, e \in Datasets :
    <<d, e>> \in { <<"aggregated_student_features", "user_vectors">>,
                   <<"user_vectors", "recommendations_batch">> }
      => /\ curated[d].run >= curated[e].run
         /\ Whole(e) /\ curated[d].run = curated[e].run =>
              Whole(d) /\ curated[d].input = curated[e].input

\* The refinement: attempts, part files, listings and retries are hidden, and so is
\* who is running.
Zone == INSTANCE CuratedZone WITH
  version <- [d \in Datasets |-> [run |-> curated[d].run, input |-> curated[d].input]],
  whole   <- {d \in Datasets : Whole(d)}

\* main writes features, vectors and recommendations in this order, each after the
\* one before it is whole, and leaves what is written alone: with the failures,
\* retries and runs that follow, readers see no more than CuratedZone lets them.
ImplementsCuratedZone == Zone!Spec

\* No run deletes or replaces anything in the curated zone unless each of the
\* three datasets it computed, the last to be written included, has rows enough.
PublicationIsGated ==
  [][curated' # curated =>
       /\ Cardinality(Students(seen)) >= MinRowCount
       /\ RowCount("recommendations_batch", seen) >= MinRowCount]_vars

\* A container that was started exits.
EveryRunEnds == pc \in Running ~> pc \in Ended

=============================================================================
