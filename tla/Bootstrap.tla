----------------------------- MODULE Bootstrap -----------------------------
(***************************************************************************)
(* run.sh: the script that brings the whole system up, from nothing or     *)
(* from what an earlier bootstrap left.                                    *)
(*   run.sh                                                                *)
(*   orchestration/docker_compose/{storage,serving,ingestion}.yml          *)
(*   microservices/storage/docker/init-zones.sh                            *)
(*                                                                         *)
(* Time advances in ticks of five seconds, the pause of wait_for_healthy;  *)
(* probes, start periods, retries and waits have the lengths of the code.  *)
(* Jobs and waits of compose and of HDFS take any time, other commands     *)
(* none.  Docker and HDFS are external: a probe sees whether a service     *)
(* answers at that moment, the status it sets stays until the next probe,  *)
(* a namenode with blocks is in safe mode until its datanodes have         *)
(* reported.  Volumes outlive containers.  What the jobs do inside is in   *)
(* the other modules: a dataset is here the number of the bootstrap whose  *)
(* source files it derives from.                                           *)
(***************************************************************************)
EXTENDS Naturals

CONSTANTS
  Eager,      \* whether Docker probes every tick in a start period (since 25)
  Deliveries, \* what the folders under data/ may hold at a bootstrap
  MaxRuns,    \* bound: bootstraps
  MaxFaults   \* bound: crashes, hangs, failing commands, zone scripts

ASSUME DeliveriesAssumption == Deliveries \subseteq SUBSET {"kt4", "content"}
ASSUME DockerAssumption == Eager \in BOOLEAN
ASSUME BoundsAssumption == MaxRuns \in Nat /\ MaxFaults \in Nat

Services == {"namenode", "postgres", "recommendation_api"}
Folders  == {"kt4", "content"}
Datasets == Folders \cup {"curated", "tables"}

\* Interval, start_period and retries of the health checks; times in ticks.
Interval(s)    == IF s = "postgres" THEN 2 ELSE 6
StartPeriod(s) == CASE s = "namenode" -> 12
                    [] s = "postgres" -> 6
                    [] OTHER -> 4
Retries(s)     == IF s = "recommendation_api" THEN 3 ELSE 5

\* Seeded bug in MaxPolls, for the mutation tests.
TooFewPolls(s) == IF s = "namenode" THEN 36 ELSE 6

\* The second argument of wait_for_healthy, in polls.
MaxPolls(s) == IF s = "namenode" THEN 36 ELSE 12

\* The start-up times the waits allow for, in ticks: the 120 seconds of the
\* comment at the namenode's start period, 50 for PostgreSQL, 30 for the API.
Allowance(s) == CASE s = "namenode" -> 24
                  [] s = "postgres" -> 10
                  [] OTHER -> 6

VARIABLES
  run,        \* bootstraps started
  csv,        \* folders of data/ that hold CSV files
  pc,         \* command the script is at
  polls,      \* polls of the current wait_for_healthy
  asleep,     \* whether it is in its pause
  box,        \* service -> its container
  datanodes,  \* "none", "started", or one "registered" with the namenode
  safemode,   \* whether the namenode is in safe mode
  open,       \* whether the batch user may write under /data
  data,       \* dataset -> the bootstrap it comes from, 0 if it does not exist
  faults,     \* faults met
  seen,       \* history: services this bootstrap has seen healthy
  late        \* history: services that were slow to answer, or have stopped

script_vars == <<run, csv, pc, polls, asleep, seen>>
hdfs_vars   == <<datanodes, safemode, open, data>>
vars == <<script_vars, hdfs_vars, box, late, faults>>

States == {"missing", "starting", "healthy", "unhealthy"}
Idle   == {"off", "failed", "operational"}
Waits  == {"wait_namenode", "wait_postgres", "wait_api"}
Runs   == {"run_ingestion", "run_processing", "run_loader"}
Jobs   == {"ingesting", "processing", "processed", "loading", "loaded"}
Steps  == {"preflight", "clean", "build", "up_storage", "storage_deps",
           "up_postgres", "provision", "verify", "up_api"}
Active == Waits \cup Runs \cup Jobs \cup Steps

NoBox == [state |-> "missing", answers |-> FALSE, age |-> 0, next |-> 0, fails |-> 0]

\* Docker 25 and later probe every five seconds in the start period.
Gap(s, age) == IF Eager /\ age < StartPeriod(s) THEN 1 ELSE Interval(s)

\* A container that starts: docker compose up, or Docker restarting it.
NewBox(s) == [state |-> "starting", answers |-> FALSE, age |-> 0,
              next |-> Gap(s, 0), fails |-> 0]

HasBlocks == \E f \in Folders : data[f] > 0

Init ==
  /\ run = 0
  /\ csv = {}
  /\ pc = "off"
  /\ polls = 0
  /\ asleep = FALSE
  /\ box = [s \in Services |-> NoBox]
  /\ datanodes = "none"
  /\ safemode = FALSE
  /\ open = FALSE
  /\ data = [d \in Datasets |-> 0]
  /\ faults = 0
  /\ seen = {}
  /\ late = {}

-----------------------------------------------------------------------------
\* Docker and the services.

\* A failure in the start period does not count, `retries` of them in a row do; a
\* success ends the start period.
Probed(s, b) ==
  LET fails == IF b.state = "starting" /\ b.age < StartPeriod(s) THEN b.fails
               ELSE IF b.fails < Retries(s) THEN b.fails + 1 ELSE b.fails
  IN  IF b.answers
      THEN [b EXCEPT !.state = "healthy", !.fails = 0, !.age = Allowance(s),
                     !.next = Interval(s)]
      ELSE [b EXCEPT !.state = IF fails = Retries(s) THEN "unhealthy" ELSE @,
                     !.fails = fails, !.next = Gap(s, b.age)]

Aged(s) ==
  LET older == [box[s] EXCEPT !.age = IF @ < Allowance(s) THEN @ + 1 ELSE @]
  IN  CASE box[s].state = "missing" -> box[s]
        [] box[s].next = 1 -> Probed(s, older)
        [] OTHER -> [older EXCEPT !.next = @ - 1]

\* Five seconds pass: a pause of wait_for_healthy, or part of a longer command.
Tick ==
  /\ asleep \/ pc \in {"storage_deps", "provision", "up_api"} \cup Runs \cup Jobs
  /\ box' = [s \in Services |-> Aged(s)]
  /\ late' = late \cup {s \in Services : /\ ~box[s].answers
                                         /\ box'[s].age = Allowance(s)}
  /\ asleep' = FALSE
  /\ UNCHANGED <<run, csv, pc, polls, seen, hdfs_vars, faults>>

\* A service answers, after its start or again after a hang.
Answer(s) ==
  /\ box[s].state # "missing"
  /\ ~box[s].answers
  /\ box' = [box EXCEPT ![s].answers = TRUE]
  /\ UNCHANGED <<script_vars, hdfs_vars, late, faults>>

\* Datanodes start once the namenode is healthy, and register on their own.
Register ==
  /\ datanodes = "started"
  /\ box["namenode"].answers
  /\ datanodes' = "registered"
  /\ UNCHANGED <<script_vars, safemode, open, data, box, late, faults>>

LeaveSafeMode ==
  /\ safemode
  /\ datanodes = "registered"
  /\ safemode' = FALSE
  /\ UNCHANGED <<script_vars, datanodes, open, data, box, late, faults>>

\* What a namenode that starts does to HDFS.
Reload ==
  /\ datanodes' = IF datanodes = "none" THEN "none" ELSE "started"
  /\ safemode' = HasBlocks
  /\ UNCHANGED <<open, data>>

Fault == faults < MaxFaults /\ faults' = faults + 1

\* restart: unless-stopped brings the container back, on its volume.
Crash(s) ==
  /\ Fault
  /\ box[s].state # "missing"
  /\ box' = [box EXCEPT ![s] = NewBox(s)]
  /\ late' = late \cup {s}
  /\ IF s = "namenode" THEN Reload ELSE UNCHANGED hdfs_vars
  /\ UNCHANGED <<script_vars>>

\* Docker restarts no container for being unhealthy.
Hang(s) ==
  /\ Fault
  /\ box[s].answers
  /\ box' = [box EXCEPT ![s].answers = FALSE]
  /\ late' = late \cup {s}
  /\ UNCHANGED <<script_vars, hdfs_vars>>

\* init-zones.sh of the storage image, run by hand or by a scheduler: it waits
\* until safe mode is off, creates the zones and takes the batch user's access.
InitZones ==
  /\ Fault
  /\ box["namenode"].answers
  /\ ~safemode
  /\ open' = FALSE
  /\ UNCHANGED <<script_vars, datanodes, safemode, data, box, late>>

-----------------------------------------------------------------------------
\* run.sh.

Goto(label) ==
  /\ pc' = label
  /\ polls' = 0
  /\ asleep' = FALSE
  /\ UNCHANGED <<run, csv>>

\* fail, or set -e.
Fail == Goto("failed") /\ UNCHANGED seen

Start(folders) ==
  /\ pc \in Idle
  /\ run < MaxRuns
  /\ run' = run + 1
  /\ csv' = folders
  /\ pc' = "preflight"
  /\ seen' = {}
  /\ UNCHANGED <<polls, asleep, hdfs_vars, box, late, faults>>

\* Step 1 fails without .env, Docker or the folders under data/; folders that hold
\* no CSV files are a warning.
Preflight ==
  /\ pc = "preflight"
  /\ Goto("clean")
  /\ UNCHANGED <<seen, hdfs_vars, box, late, faults>>

\* Step 2.5: docker rm -f; a container that cannot be removed is a warning.
CleanUp(kept) ==
  /\ pc = "clean"
  /\ IF \A s \in kept : box[s].state = "missing" THEN UNCHANGED faults ELSE Fault
  /\ box' = [s \in Services |-> IF s \in kept THEN box[s] ELSE NoBox]
  /\ late' = late \cap kept
  /\ datanodes' = "none"
  /\ Goto("build")
  /\ UNCHANGED <<seen, safemode, open, data>>

\* Step 3.
Build ==
  /\ pc = "build"
  /\ Goto("up_storage")
  /\ UNCHANGED <<seen, hdfs_vars, box, late, faults>>

\* docker compose up -d s: an existing container is left as it is.
Up(s) ==
  IF box[s].state = "missing"
  THEN /\ box' = [box EXCEPT ![s] = NewBox(s)]
       /\ IF s = "namenode" THEN Reload ELSE UNCHANGED hdfs_vars
  ELSE UNCHANGED <<box, hdfs_vars>>

\* Step 4: compose starts the namenode and, for the datanodes, waits until it is
\* healthy.
UpStorage ==
  /\ pc = "up_storage"
  /\ Up("namenode")
  /\ Goto("storage_deps")
  /\ UNCHANGED <<seen, late, faults>>

Depends(s) == box[s].state \in {"healthy", "unhealthy"}

\* depends_on with service_healthy: an unhealthy dependency is an error.
AfterDependency(s, label) ==
  /\ Depends(s)
  /\ IF box[s].state = "healthy"
     THEN Goto(label) /\ seen' = seen \cup {s}
     ELSE Fail

StorageDependency ==
  /\ pc = "storage_deps"
  /\ AfterDependency("namenode", "wait_namenode")
  /\ datanodes' = IF box["namenode"].state = "healthy" THEN "started" ELSE "none"
  /\ UNCHANGED <<safemode, open, data, box, late, faults>>

UpPostgres ==
  /\ pc = "up_postgres"
  /\ Up("postgres")
  /\ Goto("wait_postgres")
  /\ UNCHANGED <<seen, late, faults>>

\* Step 9.
UpApi ==
  /\ pc = "up_api"
  /\ AfterDependency("postgres", "wait_api")
  /\ IF box["postgres"].state = "healthy"
     THEN Up("recommendation_api") ELSE UNCHANGED <<box, hdfs_vars>>
  /\ UNCHANGED <<late, faults>>

WaitsFor(label) ==
  CASE label = "wait_namenode" -> "namenode"
    [] label = "wait_postgres" -> "postgres"
    [] label = "wait_api"      -> "recommendation_api"

AfterWait(label) ==
  CASE label = "wait_namenode" -> "up_postgres"
    [] label = "wait_postgres" -> "provision"
    [] label = "wait_api"      -> "operational"

\* Seeded bug in CountPoll, for the mutation tests.
ForgetsElapsed(s) == polls' = polls /\ asleep' = TRUE /\ UNCHANGED pc

\* Seeded bug in CountPoll, for the mutation tests.
PollsOnceMore(s) ==
  IF polls = MaxPolls(s)
  THEN pc' = "failed" /\ polls' = 0 /\ asleep' = FALSE
  ELSE polls' = polls + 1 /\ asleep' = TRUE /\ UNCHANGED pc

\* elapsed grows by the pause; at max_wait the script fails without another look.
CountPoll(s) ==
  IF polls + 1 = MaxPolls(s)
  THEN pc' = "failed" /\ polls' = 0 /\ asleep' = FALSE
  ELSE polls' = polls + 1 /\ asleep' = TRUE /\ UNCHANGED pc

\* One round of wait_for_healthy; docker inspect reports "missing" for no container.
Poll ==
  LET s == WaitsFor(pc) IN
  /\ pc \in Waits
  /\ ~asleep
  /\ IF box[s].state = "healthy"
     THEN Goto(AfterWait(pc)) /\ seen' = seen \cup {s}
     ELSE CountPoll(s) /\ UNCHANGED <<run, csv, seen>>
  /\ UNCHANGED <<hdfs_vars, box, late, faults>>

\* Seeded bug in Provision, for the mutation tests.
ProvisionsAtOnce ==
  /\ pc = "provision"
  /\ IF box["namenode"].answers
     THEN open' = TRUE /\ Goto("run_ingestion")
     ELSE Goto("failed") /\ UNCHANGED open
  /\ UNCHANGED <<seen, datanodes, safemode, data, box, late, faults>>

\* Step 5b: safemode wait, mkdir, chmod 777; no namenode, no provisioning.
Provision ==
  /\ pc = "provision"
  /\ box["namenode"].answers => ~safemode
  /\ IF box["namenode"].answers
     THEN open' = TRUE /\ Goto("run_ingestion")
     ELSE Goto("failed") /\ UNCHANGED open
  /\ UNCHANGED <<seen, datanodes, safemode, data, box, late, faults>>

JobOf(label) == CASE label = "run_ingestion"  -> "ingesting"
                  [] label = "run_processing" -> "processing"
                  [] label = "run_loader"     -> "loading"

\* docker compose run --rm: the job's container waits for its dependencies.
StartJob ==
  /\ pc \in Runs
  /\ Depends("namenode")
  /\ pc = "run_loader" => Depends("postgres")
  /\ LET needs == {"namenode"} \cup IF pc = "run_loader" THEN {"postgres"} ELSE {} IN
     IF \A s \in needs : box[s].state = "healthy"
     THEN Goto(JobOf(pc)) /\ seen' = seen \cup needs
     ELSE Fail
  /\ UNCHANGED <<hdfs_vars, box, late, faults>>

\* A job reads and writes HDFS as the batch user.
Writable == box["namenode"].answers /\ ~safemode /\ open /\ datanodes = "registered"

Outdated == {f \in csv : data[f] # run}

\* The targets are written one after the other.
Ingest(folder) ==
  /\ pc = "ingesting"
  /\ Writable
  /\ folder \in Outdated
  /\ data' = [data EXCEPT ![folder] = run]
  /\ UNCHANGED <<script_vars, datanodes, safemode, open, box, late, faults>>

\* Ingestion skips a source that is not there, and fails if none is.
IngestionEnds ==
  /\ pc = "ingesting"
  /\ \/ Outdated = {} /\ csv # {} /\ Goto("verify")
     \/ (~Writable \/ csv = {}) /\ Goto("failed")
  /\ UNCHANGED <<seen, hdfs_vars, box, late, faults>>

\* hdfs dfs -ls of the kt4 path: there may be one of an earlier bootstrap.
Verify ==
  /\ pc = "verify"
  /\ IF box["namenode"].answers /\ data["kt4"] > 0
     THEN Goto("run_processing") ELSE Goto("failed")
  /\ UNCHANGED <<seen, hdfs_vars, box, late, faults>>

\* Seeded bug in AfterWork, for the mutation tests.
IgnoresStatus(ok, label) == label

\* `|| fail` after each job.
AfterWork(ok, label) == IF ok THEN label ELSE "failed"

\* Processing needs kt4 and the questions of the content folder.
Process ==
  LET ok == Writable /\ \A f \in Folders : data[f] > 0 IN
  /\ pc = "processing"
  /\ data' = IF ok THEN [data EXCEPT !["curated"] = data["kt4"]] ELSE data
  /\ Goto(AfterWork(ok, "processed"))
  /\ UNCHANGED <<seen, datanodes, safemode, open, box, late, faults>>

Load ==
  LET ok == Writable /\ box["postgres"].answers /\ data["curated"] > 0 IN
  /\ pc = "loading"
  /\ data' = IF ok THEN [data EXCEPT !["tables"] = data["curated"]] ELSE data
  /\ Goto(AfterWork(ok, "loaded"))
  /\ UNCHANGED <<seen, datanodes, safemode, open, box, late, faults>>

Exit ==
  /\ pc \in {"processed", "loaded"}
  /\ Goto(IF pc = "processed" THEN "run_loader" ELSE "up_api")
  /\ UNCHANGED <<seen, hdfs_vars, box, late, faults>>

\* A command fails for a reason of its own, or the operator breaks off.
CommandFails ==
  /\ pc \in Active
  /\ Fault
  /\ Fail
  /\ UNCHANGED <<hdfs_vars, box, late>>

-----------------------------------------------------------------------------
Script ==
  \/ Preflight
  \/ \E kept \in SUBSET Services : CleanUp(kept)
  \/ Build
  \/ UpStorage
  \/ StorageDependency
  \/ Poll
  \/ UpPostgres
  \/ Provision
  \/ StartJob
  \/ \E f \in Folders : Ingest(f)
  \/ IngestionEnds
  \/ Verify
  \/ Process
  \/ Load
  \/ Exit
  \/ UpApi

World ==
  \/ Tick
  \/ Register
  \/ LeaveSafeMode
  \/ InitZones
  \/ \E s \in Services : Answer(s) \/ Crash(s) \/ Hang(s)

Next ==
  \/ \E folders \in Deliveries : Start(folders)
  \/ Script
  \/ CommandFails
  \/ World

Spec == Init /\ [][Next]_vars

\* The shell goes on and time passes; a service need never answer and datanodes
\* need never report.
FairSpec == Spec /\ WF_vars(Script) /\ WF_vars(Tick)

-----------------------------------------------------------------------------
\* Type correctness of the script, the containers and what they leave behind.
TypeOK ==
  /\ run \in 0 .. MaxRuns
  /\ csv \in SUBSET Folders
  /\ pc \in Idle \cup Active
  /\ asleep \in BOOLEAN
  /\ polls \in 0 .. IF pc \in Waits THEN MaxPolls(WaitsFor(pc)) - 1 ELSE 0
  /\ \A s \in Services : box[s] \in [state : States, answers : BOOLEAN,
                                     age : 0 .. Allowance(s), next : 0 .. Interval(s),
                                     fails : 0 .. Retries(s)]
  /\ datanodes \in {"none", "started", "registered"}
  /\ safemode \in BOOLEAN /\ open \in BOOLEAN
  /\ data \in [Datasets -> 0 .. MaxRuns]
  /\ faults \in 0 .. MaxFaults
  /\ seen \in SUBSET Services /\ late \in SUBSET Services

\* When run.sh reports that the system is fully operational it has seen all three
\* services healthy, and PostgreSQL holds what came of the raw zone: of the source
\* files of this very bootstrap, if there were any.
OperationalMeansServed ==
  pc = "operational" =>
    /\ seen = Services
    /\ data["tables"] > 0
    /\ data["tables"] = data["curated"] /\ data["curated"] = data["kt4"]
    /\ "kt4" \in csv => data["tables"] = run

\* If nothing has gone wrong so far, whatever an earlier bootstrap left, however
\* slow the services are and however stale Docker's statuses: a job runs only while
\* the namenode answers, is out of safe mode and lets it write, and the loader only
\* while PostgreSQL answers.
JobsFindTheCluster ==
  faults = 0 /\ pc \in Jobs =>
    /\ box["namenode"].answers /\ ~safemode /\ open
    /\ pc \in {"loading", "loaded"} => box["postgres"].answers

Awaited ==
  CASE pc \in Waits -> {WaitsFor(pc)}
    [] pc = "storage_deps" -> {"namenode"}
    [] pc = "up_api" -> {"postgres"}
    [] pc \in Runs -> {"namenode", "postgres"}
    [] OTHER -> {}

\* The waits and the health checks fit together: the script gives a service up only
\* if that service has stopped, or had not answered when its start-up time was over.
OnlyTheLateAreGivenUp ==
  [][Awaited # {} /\ pc' = "failed" /\ UNCHANGED faults =>
       Awaited \cap late # {}]_vars

\* A bootstrap comes to an end, unless it waits for ever for a namenode that does
\* not get out of safe mode.
BootstrapEnds == []<>(pc \in Idle \/ (pc = "provision" /\ safemode))
=============================================================================
