------------------------------ MODULE Pipeline ------------------------------
(***************************************************************************)
(* The pipelines: shell scripts that run the three batch jobs one after    *)
(* the other, each in a container, and look at its exit status.            *)
(*   orchestration/scheduler/scripts/daily_pipeline/run_daily_pipeline.sh  *)
(*   orchestration/scheduler/scripts/initial_load/run_initial_load.sh      *)
(*   run.sh, steps 6 to 8                                   ("bootstrap")  *)
(*                                                                         *)
(* The jobs are coarse here: Ingestion, Processing and SparkLoader are     *)
(* their details.  A batch is the source data of one day; processing in    *)
(* its incremental mode reads the batches of the window, Recent.  Nothing  *)
(* keeps cron, an operator and run.sh from running pipelines side by side. *)
(***************************************************************************)
EXTENDS Naturals, FiniteSets

CONSTANTS
  Runs,         \* bound: pipelines started
  Batches,      \* days of source data
  Recent,       \* those in the processing window
  Scripts,      \* the scripts in use
  MaxRetries,   \* MAX_RETRIES: attempts at a step of the daily pipeline
  MaxFaults,    \* bound: containers that fail or are killed
  Nothing       \* a dataset or table that does not exist

ASSUME BatchesAssumption == Recent \subseteq Batches
ASSUME ScriptsAssumption == Scripts \subseteq {"daily", "initial", "bootstrap"}
ASSUME NothingAssumption == Nothing \notin [by : Runs, input : SUBSET Batches]
ASSUME SizesAssumption == MaxRetries \in Nat \ {0} /\ MaxFaults \in Nat

VARIABLES
  source,    \* batches on the source mount
  raw,       \* raw zone: copies held of a batch
  curated,   \* curated zone: what features and recommendations derive from
  served,    \* PostgreSQL: the same of its two tables
  script,    \* script of a run
  pc,        \* where a run is
  step,      \* job a run is at
  attempt,   \* attempt at it
  exited,    \* jobs of a run that have exited with 0
  taken,     \* batches a run's last ingestion read
  input,     \* batches a run's last processing read
  faults,    \* failures met
  beside     \* history: runs that have run beside another one

data_vars == <<raw, curated, served>>
run_vars  == <<script, pc, step, attempt, exited, taken, input>>
vars      == <<source, data_vars, run_vars, faults, beside>>

Jobs   == {"ingestion", "processing", "loader"}
Tables == {"features", "recommendations"}
Versions == [by : Runs, input : SUBSET Batches] \cup {Nothing}

Ended   == {"done", "aborted"}
Running == {"launch", "work", "half", "exit"}

NextJob(j) == IF j = "ingestion" THEN "processing" ELSE "loader"

\* Seeded bug in Mode, for the mutation tests.
OneModeForAll(s, j) == IF s = "daily" THEN "daily" ELSE "initial"

\* -e MODE=... of the scripts, and the choices of the jobs' --mode option; the
\* loader reads no mode.
Mode(s, j) ==
  CASE s = "daily"     -> IF j = "ingestion" THEN "daily" ELSE "incremental"
    [] s = "initial"   -> IF j = "ingestion" THEN "initial" ELSE "initial_load"
    [] s = "bootstrap" -> "initial"
Accepts(j, mode) ==
  CASE j = "ingestion"  -> mode \in {"initial", "daily"}
    [] j = "processing" -> mode \in {"initial", "incremental"}
    [] j = "loader"     -> TRUE

Attempts(s) == IF s = "daily" THEN MaxRetries ELSE 1

Window(r) == IF Mode(script[r], "processing") = "incremental" THEN Recent ELSE Batches

Init ==
  /\ source \in SUBSET Batches \ {{}}
  /\ raw = [b \in Batches |-> 0]
  /\ curated = [d \in Tables |-> Nothing]
  /\ served = [d \in Tables |-> Nothing]
  /\ script \in [Runs -> Scripts]
  /\ pc = [r \in Runs |-> "waiting"]
  /\ step = [r \in Runs |-> "ingestion"]
  /\ attempt = [r \in Runs |-> 1]
  /\ exited = [r \in Runs |-> {}]
  /\ taken = [r \in Runs |-> {}]
  /\ input = [r \in Runs |-> {}]
  /\ faults = 0
  /\ beside = {}

GoTo(r, place) == pc' = [pc EXCEPT ![r] = place]

\* Seeded bug in RetryOrAbort, for the mutation tests.
GoesOn(r) ==
  IF attempt[r] < Attempts(script[r])
  THEN /\ attempt' = [attempt EXCEPT ![r] = @ + 1]
       /\ GoTo(r, "launch")
       /\ UNCHANGED step
  ELSE /\ attempt' = [attempt EXCEPT ![r] = 1]
       /\ IF step[r] = "loader" THEN GoTo(r, "done") /\ UNCHANGED step
          ELSE GoTo(r, "launch") /\ step' = [step EXCEPT ![r] = NextJob(@)]

\* Seeded bug in RetryOrAbort, for the mutation tests.
RetriesForever(r) == GoTo(r, "launch") /\ UNCHANGED <<step, attempt>>

\* retry_step starts the container again, or the script exits with 1.
RetryOrAbort(r) ==
  /\ UNCHANGED step
  /\ IF attempt[r] < Attempts(script[r])
     THEN attempt' = [attempt EXCEPT ![r] = @ + 1] /\ GoTo(r, "launch")
     ELSE GoTo(r, "aborted") /\ UNCHANGED attempt

-----------------------------------------------------------------------------
Start(r) ==
  /\ pc[r] = "waiting"
  /\ GoTo(r, "launch")
  /\ LET others == {q \in Runs : pc[q] \in Running} IN
       beside' = IF others = {} THEN beside ELSE beside \cup others \cup {r}
  /\ UNCHANGED <<source, data_vars, script, step, attempt, exited, taken, input,
                 faults>>

\* docker compose run: argparse accepts the mode, and the job reads its input.
Launch(r) ==
  /\ pc[r] = "launch"
  /\ Accepts(step[r], Mode(script[r], step[r]))
  /\ GoTo(r, "work")
  /\ taken' = IF step[r] = "ingestion" THEN [taken EXCEPT ![r] = source] ELSE taken
  /\ input' = IF step[r] = "processing"
              THEN [input EXCEPT ![r] = {b \in Window(r) : raw[b] > 0}] ELSE input
  /\ UNCHANGED <<source, data_vars, script, step, attempt, exited, faults, beside>>

RejectMode(r) ==
  /\ pc[r] = "launch"
  /\ ~Accepts(step[r], Mode(script[r], step[r]))
  /\ RetryOrAbort(r)
  /\ UNCHANGED <<source, data_vars, script, exited, taken, input, faults, beside>>

\* Each service has a container_name: while a container of the same job exists,
\* docker may refuse another one (the name is taken) or start it, by its version.
NameTaken(r) ==
  /\ pc[r] = "launch"
  /\ \E q \in Runs \ {r} : step[q] = step[r] /\ pc[q] \in Running \ {"launch"}
  /\ RetryOrAbort(r)
  /\ UNCHANGED <<source, data_vars, script, exited, taken, input, faults, beside>>

\* Initial mode overwrites the batches it writes, daily mode appends the whole
\* source, batches of earlier days included.
Ingest(r) ==
  /\ pc[r] = "work" /\ step[r] = "ingestion"
  /\ raw' = [b \in Batches |->
               IF b \notin taken[r] THEN raw[b]
               ELSE IF Mode(script[r], "ingestion") = "initial" THEN 1 ELSE raw[b] + 1]
  /\ GoTo(r, "exit")
  /\ UNCHANGED <<source, curated, served, script, step, attempt, exited, taken,
                 input, faults, beside>>

Version(r) == [by |-> r, input |-> input[r]]

\* Features first, recommendations last.
Process(r) ==
  /\ step[r] = "processing"
  /\ input[r] # {}
  /\ \/ /\ pc[r] = "work"
        /\ curated' = [curated EXCEPT !["features"] = Version(r)]
        /\ GoTo(r, "half")
     \/ /\ pc[r] = "half"
        /\ curated' = [curated EXCEPT !["recommendations"] = Version(r)]
        /\ GoTo(r, "exit")
  /\ UNCHANGED <<source, raw, served, script, step, attempt, exited, taken, input,
                 faults, beside>>

\* Recommendations first, features last.
LoadTable(r, d, next) ==
  /\ curated[d] # Nothing
  /\ served' = [served EXCEPT ![d] = curated[d]]
  /\ GoTo(r, next)
Load(r) ==
  /\ step[r] = "loader"
  /\ \/ pc[r] = "work" /\ LoadTable(r, "recommendations", "half")
     \/ pc[r] = "half" /\ LoadTable(r, "features", "exit")
  /\ UNCHANGED <<source, raw, curated, script, step, attempt, exited, taken, input,
                 faults, beside>>

\* No rows in the window, or no dataset to load: the job exits with 1.
NoData(r) ==
  /\ \/ step[r] = "processing" /\ pc[r] = "work" /\ input[r] = {}
     \/ step[r] = "loader" /\ pc[r] = "work" /\ curated["recommendations"] = Nothing
     \/ step[r] = "loader" /\ pc[r] = "half" /\ curated["features"] = Nothing
  /\ RetryOrAbort(r)
  /\ UNCHANGED <<source, data_vars, script, exited, taken, input, faults, beside>>

\* The container exits with 0, and the script goes on to the next step or ends.
Exit(r) ==
  /\ pc[r] = "exit"
  /\ exited' = [exited EXCEPT ![r] = @ \cup {step[r]}]
  /\ IF step[r] = "loader" THEN GoTo(r, "done") /\ UNCHANGED <<step, attempt>>
     ELSE /\ GoTo(r, "launch")
          /\ step' = [step EXCEPT ![r] = NextJob(@)]
          /\ attempt' = [attempt EXCEPT ![r] = 1]
  /\ UNCHANGED <<source, data_vars, script, taken, input, faults, beside>>

-----------------------------------------------------------------------------
\* What a job that breaks off may have done: some of the batches appended, or
\* removed to be overwritten; a dataset or a table removed to be replaced.
BrokenOff(r) ==
  \/ UNCHANGED data_vars
  \/ /\ step[r] = "ingestion" /\ pc[r] = "work"
     /\ \E bs \in SUBSET taken[r] :
          raw' = [b \in Batches |->
                    IF b \notin bs THEN raw[b]
                    ELSE IF Mode(script[r], "ingestion") = "initial" THEN 0
                         ELSE raw[b] + 1]
     /\ UNCHANGED <<curated, served>>
  \/ /\ step[r] = "processing" /\ pc[r] \in {"work", "half"}
     /\ curated' = [curated EXCEPT
          ![IF pc[r] = "work" THEN "features" ELSE "recommendations"] = Nothing]
     /\ UNCHANGED <<raw, served>>
  \/ /\ step[r] = "loader" /\ pc[r] \in {"work", "half"}
     /\ served' = [served EXCEPT
          ![IF pc[r] = "work" THEN "recommendations" ELSE "features"] = Nothing]
     /\ UNCHANGED <<raw, curated>>

\* The container fails or is killed, perhaps with all its work done.
Fault(r) ==
  /\ pc[r] \in Running
  /\ faults < MaxFaults
  /\ faults' = faults + 1
  /\ BrokenOff(r)
  /\ RetryOrAbort(r)
  /\ UNCHANGED <<source, script, exited, taken, input, beside>>

Arrive(b) ==
  /\ b \notin source
  /\ source' = source \cup {b}
  /\ UNCHANGED <<data_vars, run_vars, faults, beside>>

Progress(r) ==
  \/ Launch(r) \/ RejectMode(r) \/ NameTaken(r)
  \/ Ingest(r) \/ Process(r) \/ Load(r) \/ NoData(r)
  \/ Exit(r)

Next ==
  \/ \E r \in Runs : Start(r) \/ Progress(r) \/ Fault(r)
  \/ \E b \in Batches : Arrive(b)

Spec == Init /\ [][Next]_vars

\* Containers and scripts that can go on do.
FairSpec == Spec /\ \A r \in Runs : WF_vars(Progress(r))

-----------------------------------------------------------------------------
\* Type correctness of the pipelines.
TypeOK ==
  /\ source \subseteq Batches
  /\ raw \in [Batches -> Nat]
  /\ curated \in [Tables -> Versions]
  /\ served \in [Tables -> Versions]
  /\ script \in [Runs -> Scripts]
  /\ pc \in [Runs -> Ended \cup Running \cup {"waiting"}]
  /\ step \in [Runs -> Jobs]
  /\ attempt \in [Runs -> 1 .. MaxRetries]
  /\ exited \in [Runs -> SUBSET Jobs]
  /\ taken \in [Runs -> SUBSET Batches]
  /\ input \in [Runs -> SUBSET Batches]
  /\ faults \in 0 .. MaxFaults
  /\ beside \subseteq Runs

\* orchestration/README.md:108 "Each step must exit 0 before the next begins": side
\* by side or not, a pipeline changes the served tables only after its own
\* ingestion and processing have exited with 0.
FailFast ==
  [][served' # served => \E r \in Runs :
       step[r] = "loader" /\ {"ingestion", "processing"} \subseteq exited[r]]_vars

\* The daily pipeline and run.sh abort only when a container has failed, when they
\* have met another pipeline, or when their ingestion read no batch of the window.
AbortsForAReason ==
  \A r \in Runs : pc[r] = "aborted" /\ script[r] # "initial" =>
    faults > 0 \/ r \in beside \/ taken[r] \cap Window(r) = {}

\* When a pipeline completes that never ran beside another one, both tables derive
\* from its own processing, which has read every batch of the window its ingestion
\* found, whatever failures and retries it and the pipelines before it met.
DoneMeansServed ==
  [][\A r \in Runs \ beside : pc[r] # "done" /\ pc'[r] = "done" =>
       /\ served["recommendations"] = Version(r)
       /\ served["features"] = Version(r)
       /\ taken[r] \cap Window(r) \subseteq input[r]]_vars

\* A pipeline that was started ends: retries are bounded.
EveryPipelineEnds == \A r \in Runs : pc[r] \in Running ~> pc[r] \in Ended

-----------------------------------------------------------------------------
\* orchestration/README.md:108 "Runs: ingestion (MODE=initial) -> processing
\* (MODE=initial) -> loader (MODE=initial)": no initial load aborts without fault.
InitialLoadWorks ==
  \A r \in Runs : script[r] = "initial" /\ faults = 0 => pc[r] # "aborted"
=============================================================================
