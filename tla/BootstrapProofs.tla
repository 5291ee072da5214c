--------------------------- MODULE BootstrapProofs ---------------------------
(***************************************************************************)
(* What run.sh may count on when it goes on and when it gives up, for any  *)
(* number of bootstraps and faults, any deliveries, and both ways in which *)
(* Docker probes in a start period.                                        *)
(***************************************************************************)
EXTENDS Bootstrap, TLAPS

Boxes(s) == [state : States, answers : BOOLEAN, age : 0 .. Allowance(s),
             next : 0 .. Interval(s), fails : 0 .. Retries(s)]

\* A container per service, with its next probe ahead of it if it exists; one
\* that does not exist does not answer.
BoxesOK ==
  /\ box = [s \in Services |-> box[s]]
  /\ \A s \in Services :
       /\ box[s] \in Boxes(s)
       /\ box[s].state # "missing" <=> box[s].next > 0
       /\ box[s].answers => box[s].state # "missing"

\* Outside wait_for_healthy the script has no polls and is in no pause.
PollsOK ==
  /\ asleep \in BOOLEAN
  /\ polls \in 0 .. IF pc \in Waits THEN MaxPolls(WaitsFor(pc)) - 1 ELSE 0
  /\ asleep => polls > 0

\* What the script and HDFS keep, the other conjuncts of TypeOK.
RestOK ==
  /\ run \in 0 .. MaxRuns
  /\ csv \in SUBSET Folders
  /\ pc \in Idle \cup Active
  /\ datanodes \in {"none", "started", "registered"}
  /\ safemode \in BOOLEAN /\ open \in BOOLEAN
  /\ data \in [Datasets -> 0 .. MaxRuns]
  /\ faults \in 0 .. MaxFaults
  /\ seen \in SUBSET Services /\ late \in SUBSET Services

Types == BoxesOK /\ PollsOK /\ RestOK

-----------------------------------------------------------------------------
\* The health checks as they are in the compose files.
LEMMA HealthChecks ==
  ASSUME NEW s \in Services
  PROVE  /\ Interval(s) \in Nat /\ StartPeriod(s) \in Nat /\ Retries(s) \in Nat
         /\ MaxPolls(s) \in Nat /\ Allowance(s) \in Nat
         /\ Interval(s) > 1 /\ Allowance(s) > 0 /\ Retries(s) > 0 /\ MaxPolls(s) > 1
BY DEF Services, Interval, StartPeriod, Retries, MaxPolls, Allowance

LEMMA GapIsPositive ==
  ASSUME NEW s \in Services, NEW age
  PROVE  Gap(s, age) \in 1 .. Interval(s)
BY HealthChecks DEF Gap

LEMMA WaitsForServices == \A w \in Waits : WaitsFor(w) \in Services
BY DEF Waits, WaitsFor, Services

LEMMA NewBoxType ==
  ASSUME NEW s \in Services
  PROVE  /\ NewBox(s) \in Boxes(s)
         /\ NewBox(s).state = "starting" /\ ~NewBox(s).answers
         /\ NewBox(s).age = 0 /\ NewBox(s).fails = 0
         /\ NewBox(s).next \in 1 .. Interval(s)
BY HealthChecks, GapIsPositive DEF NewBox, Boxes, States

LEMMA NoBoxType ==
  ASSUME NEW s \in Services
  PROVE  /\ NoBox \in Boxes(s) /\ NoBox.state = "missing"
         /\ NoBox.next = 0 /\ ~NoBox.answers
BY HealthChecks DEF NoBox, Boxes, States

\* A probe that is answered.
LEMMA ProbeAnswered ==
  ASSUME NEW s \in Services, NEW b \in Boxes(s), b.answers
  PROVE  /\ Probed(s, b) \in Boxes(s)
         /\ Probed(s, b).state = "healthy" /\ Probed(s, b).answers = b.answers
         /\ Probed(s, b).next = Interval(s)
<1>1. /\ b = [state |-> b.state, answers |-> b.answers, age |-> b.age,
              next |-> b.next, fails |-> b.fails]
      /\ b.answers \in BOOLEAN
  BY DEF Boxes
<1>2. Probed(s, b) = [state |-> "healthy", answers |-> b.answers,
                      age |-> Allowance(s), next |-> Interval(s), fails |-> 0]
  BY <1>1 DEF Probed
<1> QED BY <1>1, <1>2, HealthChecks DEF Boxes, States

\* A probe that fails counts after the start period.
LEMMA ProbeFailed ==
  ASSUME NEW s \in Services, NEW b \in Boxes(s), ~b.answers
  PROVE  /\ Probed(s, b) \in Boxes(s)
         /\ Probed(s, b).answers = b.answers
         /\ Probed(s, b).age = b.age
         /\ Probed(s, b).next = Gap(s, b.age)
         /\ Probed(s, b).fails = 
              IF b.state = "starting" /\ b.age < StartPeriod(s) THEN b.fails
              ELSE IF b.fails < Retries(s) THEN b.fails + 1 ELSE b.fails
         /\ Probed(s, b).state = IF Probed(s, b).fails = Retries(s)
                                 THEN "unhealthy" ELSE b.state
<1> DEFINE fails == IF b.state = "starting" /\ b.age < StartPeriod(s) THEN b.fails
                    ELSE IF b.fails < Retries(s) THEN b.fails + 1 ELSE b.fails
           state == IF fails = Retries(s) THEN "unhealthy" ELSE b.state
<1>1. /\ b = [state |-> b.state, answers |-> b.answers, age |-> b.age,
              next |-> b.next, fails |-> b.fails]
      /\ b.state \in States /\ b.answers \in BOOLEAN /\ b.age \in 0 .. Allowance(s)
      /\ b.fails \in 0 .. Retries(s)
  BY DEF Boxes
<1>2. fails \in 0 .. Retries(s) /\ state \in States
  BY <1>1, HealthChecks DEF States
<1>3. Probed(s, b) = [state |-> state, answers |-> b.answers, age |-> b.age,
                      next |-> Gap(s, b.age), fails |-> fails]
  BY <1>1 DEF Probed
<1>4. Gap(s, b.age) \in 0 .. Interval(s)
  BY GapIsPositive, HealthChecks
<1> HIDE DEF fails, state
<1>5. Probed(s, b) \in Boxes(s)
  BY <1>1, <1>2, <1>3, <1>4 DEF Boxes
<1> QED BY <1>3, <1>5 DEF fails, state

Older(s) == [box[s] EXCEPT !.age = IF @ < Allowance(s) THEN @ + 1 ELSE @]

LEMMA OlderBox ==
  ASSUME NEW s \in Services, box[s] \in Boxes(s)
  PROVE  /\ Older(s) \in Boxes(s)
         /\ Older(s).state = box[s].state /\ Older(s).answers = box[s].answers
         /\ Older(s).next = box[s].next /\ Older(s).fails = box[s].fails
         /\ Older(s).age = IF box[s].age < Allowance(s)
                           THEN box[s].age + 1 ELSE box[s].age
BY HealthChecks DEF Older, Boxes

Later(s) == [Older(s) EXCEPT !.next = @ - 1]

LEMMA LaterBox ==
  ASSUME NEW s \in Services, box[s] \in Boxes(s), box[s].next > 0
  PROVE  /\ Later(s) \in Boxes(s)
         /\ Later(s).state = box[s].state /\ Later(s).answers = box[s].answers
         /\ Later(s).next = box[s].next - 1 /\ Later(s).fails = box[s].fails
         /\ Later(s).age = Older(s).age
<1>1. Older(s) \in Boxes(s) /\ Older(s).next > 0
  BY OlderBox
<1> QED BY <1>1, OlderBox, HealthChecks DEF Later, Boxes

\* Five seconds of a container: none, a probe, or one tick nearer to the next.
LEMMA AgedIs ==
  ASSUME NEW s \in Services,
         box[s].state # "missing" <=> box[s].next > 0
  PROVE  Aged(s) = IF box[s].state = "missing" THEN box[s]
                   ELSE IF box[s].next = 1 THEN Probed(s, Older(s)) ELSE Later(s)
<1>1. CASE box[s].state = "missing"
  <2>1. box[s].next # 1
    BY <1>1
  <2> QED BY <1>1, <2>1 DEF Aged
<1>2. CASE box[s].state # "missing" /\ box[s].next = 1
  BY <1>2 DEF Aged, Older
<1>3. CASE box[s].state # "missing" /\ box[s].next # 1
  BY <1>3 DEF Aged, Older, Later
<1> QED BY <1>1, <1>2, <1>3

LEMMA AgedBox ==
  ASSUME NEW s \in Services, BoxesOK
  PROVE  /\ Aged(s) \in Boxes(s)
         /\ Aged(s).state # "missing" <=> Aged(s).next > 0
         /\ Aged(s).state = "missing" <=> box[s].state = "missing"
         /\ Aged(s).answers = box[s].answers
<1>1. box[s] \in Boxes(s) /\ (box[s].state # "missing" <=> box[s].next > 0)
  BY DEF BoxesOK
<1>2. CASE box[s].state = "missing"
  BY <1>1, <1>2, AgedIs
<1>3. CASE box[s].state # "missing" /\ box[s].next = 1
  <2>1. Aged(s) = Probed(s, Older(s))
    BY <1>3, AgedIs
  <2>2. /\ Older(s) \in Boxes(s) /\ Older(s).state # "missing"
        /\ Older(s).answers = box[s].answers /\ box[s].answers \in BOOLEAN
    BY <1>1, <1>3, OlderBox DEF Boxes
  <2>3. CASE box[s].answers
    <3>1. /\ Aged(s) \in Boxes(s) /\ Aged(s).answers = box[s].answers
          /\ Aged(s).state = "healthy" /\ Aged(s).next = Interval(s)
      BY <2>1, <2>2, <2>3, ProbeAnswered
    <3> QED BY <1>3, <3>1, HealthChecks
  <2>4. CASE ~box[s].answers
    <3>1. /\ Aged(s) \in Boxes(s) /\ Aged(s).answers = box[s].answers
          /\ Aged(s).state # "missing"
      BY <2>1, <2>2, <2>4, ProbeFailed
    <3>2. Aged(s).next = Gap(s, Older(s).age)
      BY <2>1, <2>2, <2>4, ProbeFailed
    <3> QED BY <1>3, <3>1, <3>2, <2>2, <2>4, GapIsPositive, HealthChecks
  <2> QED BY <2>2, <2>3, <2>4
<1>4. CASE box[s].state # "missing" /\ box[s].next # 1
  <2>1. Aged(s) = Later(s) /\ box[s].next \in Nat /\ box[s].next > 1
    BY <1>1, <1>4, AgedIs, HealthChecks DEF Boxes
  <2> QED BY <1>1, <1>4, <2>1, LaterBox
<1> QED BY <1>2, <1>3, <1>4

-----------------------------------------------------------------------------
\* The steps that touch a container.
LEMMA BoxSteps ==
  [Next]_vars =>
    \/ UNCHANGED <<box, late>>
    \/ Tick
    \/ \E kept \in SUBSET Services : CleanUp(kept)
    \/ \E s \in Services : Answer(s) \/ Crash(s) \/ Hang(s)
    \/ UNCHANGED late /\ \E s \in Services : Up(s)
<1> SUFFICES ASSUME [Next]_vars
             PROVE  \/ UNCHANGED <<box, late>>
                    \/ Tick
                    \/ \E kept \in SUBSET Services : CleanUp(kept)
                    \/ \E s \in Services : Answer(s) \/ Crash(s) \/ Hang(s)
                    \/ UNCHANGED late /\ \E s \in Services : Up(s)
  OBVIOUS
<1>1. CASE Script
  BY <1>1 DEF Script, Preflight, Build, UpStorage, StorageDependency, Poll, UpPostgres,
     Provision, StartJob, Ingest, IngestionEnds, Verify, Process, Load, Exit, UpApi,
     Services
<1>2. CASE World
  BY <1>2 DEF World, Register, LeaveSafeMode, InitZones
<1>3. CASE CommandFails
  BY <1>3 DEF CommandFails
<1>4. CASE \E folders \in Deliveries : Start(folders)
  BY <1>4 DEF Start
<1>5. CASE UNCHANGED vars
  BY <1>5 DEF vars
<1> QED BY <1>1, <1>2, <1>3, <1>4, <1>5 DEF Next

\* A container that a step replaces is a new one.
LEMMA ReplacedBox ==
  ASSUME BoxesOK, NEW t \in Services, NEW b \in Boxes(t),
         b.state # "missing" <=> b.next > 0, b.answers => b.state # "missing",
         box' = [box EXCEPT ![t] = b]
  PROVE  BoxesOK' /\ \A s \in Services : box'[s] = IF s = t THEN b ELSE box[s]
<1>1. \A s \in Services : box'[s] = IF s = t THEN b ELSE box[s]
  BY DEF BoxesOK
<1>2. box' = [s \in Services |-> box'[s]]
  BY DEF BoxesOK
<1> QED BY <1>1, <1>2 DEF BoxesOK, Boxes

LEMMA StepBoxes == BoxesOK /\ [Next]_vars => BoxesOK'
<1> SUFFICES ASSUME BoxesOK, [Next]_vars
             PROVE  BoxesOK'
  OBVIOUS
<1>1. CASE UNCHANGED box
  BY <1>1 DEF BoxesOK, Boxes
<1>2. CASE Tick
  <2>1. \A s \in Services : box'[s] = Aged(s)
    BY <1>2 DEF Tick
  <2>2. box' = [s \in Services |-> box'[s]]
    BY <1>2, <2>1 DEF Tick
  <2> QED BY <2>1, <2>2, AgedBox DEF BoxesOK, Boxes
<1>3. ASSUME NEW kept \in SUBSET Services, CleanUp(kept)
      PROVE  BoxesOK'
  <2>1. \A s \in Services : box'[s] = IF s \in kept THEN box[s] ELSE NoBox
    BY <1>3 DEF CleanUp
  <2>2. box' = [s \in Services |-> box'[s]]
    BY <1>3, <2>1 DEF CleanUp
  <2> QED BY <2>1, <2>2, NoBoxType DEF BoxesOK, Boxes
<1>4. ASSUME NEW t \in Services, Answer(t) \/ Hang(t)
      PROVE  BoxesOK'
  <2>1. PICK a \in BOOLEAN : box' = [box EXCEPT ![t] = [box[t] EXCEPT !.answers = a]]
    BY <1>4 DEF Answer, Hang
  <2>2. /\ box[t] \in Boxes(t) /\ box[t].state # "missing"
        /\ box[t].state # "missing" <=> box[t].next > 0
    BY <1>4 DEF BoxesOK, Answer, Hang
  <2>3. /\ [box[t] EXCEPT !.answers = a] \in Boxes(t)
        /\ [box[t] EXCEPT !.answers = a].state = box[t].state
        /\ [box[t] EXCEPT !.answers = a].next = box[t].next
    BY <2>2 DEF Boxes
  <2> QED BY <2>1, <2>2, <2>3, ReplacedBox
<1>5. ASSUME NEW t \in Services, Crash(t) \/ Up(t)
      PROVE  BoxesOK'
  <2>1. CASE box' = [box EXCEPT ![t] = NewBox(t)]
    <3>1. NewBox(t) \in Boxes(t) /\ NewBox(t).state # "missing" /\ NewBox(t).next > 0
      BY NewBoxType, HealthChecks
    <3> QED BY <2>1, <3>1, ReplacedBox
  <2>2. CASE UNCHANGED box
    BY <1>1, <2>2
  <2> QED BY <1>5, <2>1, <2>2 DEF Crash, Up
<1> QED BY <1>1, <1>2, <1>3, <1>4, <1>5, BoxSteps

-----------------------------------------------------------------------------
LEMMA StepPolls == RestOK /\ PollsOK /\ [Next]_vars => PollsOK'
<1> SUFFICES ASSUME RestOK, PollsOK, [Next]_vars
             PROVE  PollsOK'
  OBVIOUS
<1>1. CASE polls' = 0 /\ asleep' = FALSE
  <2>1. pc' \in Waits => MaxPolls(WaitsFor(pc')) - 1 >= 0
    BY WaitsForServices, HealthChecks
  <2>2. pc' \in Waits => MaxPolls(WaitsFor(pc')) \in Nat
    BY WaitsForServices, HealthChecks
  <2>3. 0 \in 0 .. IF pc' \in Waits THEN MaxPolls(WaitsFor(pc')) - 1 ELSE 0
    BY <2>1, <2>2
  <2> QED BY <1>1, <2>3 DEF PollsOK
<1>2. CASE UNCHANGED <<pc, polls, asleep>>
  BY <1>2 DEF PollsOK
<1>3. CASE Tick
  BY <1>3 DEF Tick, PollsOK
<1>4. CASE \E folders \in Deliveries : Start(folders)
  <2>1. pc \in Idle /\ pc' = "preflight" /\ UNCHANGED <<polls, asleep>>
    BY <1>4 DEF Start
  <2>2. pc \notin Waits /\ pc' \notin Waits
    BY <2>1 DEF Idle, Waits
  <2> QED BY <2>1, <2>2 DEF PollsOK
<1>5. CASE Poll
  <2>1. CASE polls' = 0 /\ asleep' = FALSE
    BY <1>1, <2>1
  <2>2. CASE /\ polls + 1 # MaxPolls(WaitsFor(pc)) /\ pc \in Waits
             /\ polls' = polls + 1 /\ asleep' = TRUE /\ UNCHANGED pc
    <3>1. MaxPolls(WaitsFor(pc)) \in Nat
      BY <2>2, WaitsForServices, HealthChecks
    <3>2. polls \in 0 .. MaxPolls(WaitsFor(pc)) - 1
      BY <2>2 DEF PollsOK
    <3> QED BY <2>2, <3>1, <3>2 DEF PollsOK
  <2> QED BY <1>5, <2>1, <2>2 DEF Poll, CountPoll, Goto
<1>6. CASE Script
  <2>1. \/ polls' = 0 /\ asleep' = FALSE
        \/ UNCHANGED <<pc, polls, asleep>>
        \/ Poll
    BY <1>6 DEF Script, Preflight, CleanUp, Build, UpStorage, StorageDependency,
       AfterDependency, UpPostgres, Provision, StartJob, Fail, Ingest, script_vars,
       IngestionEnds, Verify, Process, Load, Exit, UpApi, Goto
  <2> QED BY <2>1, <1>1, <1>2, <1>5
<1>7. CASE World
  <2>1. UNCHANGED <<pc, polls, asleep>> \/ Tick
    BY <1>7 DEF World, Register, LeaveSafeMode, InitZones, Answer, Crash, Hang, script_vars
  <2> QED BY <2>1, <1>2, <1>3
<1>8. CASE CommandFails
  BY <1>8, <1>1 DEF CommandFails, Fail, Goto
<1>9. CASE UNCHANGED vars
  BY <1>9, <1>2 DEF vars, script_vars
<1> QED BY <1>4, <1>6, <1>7, <1>8, <1>9 DEF Next

-----------------------------------------------------------------------------
LEMMA UpHdfs ==
  ASSUME RestOK, NEW s, Up(s)
  PROVE  /\ datanodes' \in {"none", "started", "registered"}
         /\ safemode' \in BOOLEAN
         /\ UNCHANGED <<open, data>>
BY DEF RestOK, Up, Reload, HasBlocks, hdfs_vars

LEMMA StepRest == RestOK /\ [Next]_vars => RestOK'
<1> SUFFICES ASSUME RestOK, [Next]_vars
             PROVE  RestOK'
  OBVIOUS
<1> USE DeliveriesAssumption, BoundsAssumption DEF RestOK
<1> USE DEF Idle, Active, Waits, Runs, Jobs, Steps
<1>1. ASSUME NEW folders \in Deliveries, Start(folders)
      PROVE  RestOK'
  <2>1. folders \in SUBSET Folders
    BY DEF Folders
  <2> QED BY <1>1, <2>1 DEF Start, hdfs_vars
<1>2. CASE Preflight \/ Build \/ Exit
  BY <1>2 DEF Preflight, Build, Exit, Goto, hdfs_vars
<1>3. ASSUME NEW kept \in SUBSET Services, CleanUp(kept)
      PROVE  RestOK'
  BY <1>3 DEF CleanUp, Fault, Goto
<1>4. CASE UpStorage \/ UpPostgres
  BY <1>4, UpHdfs DEF UpStorage, UpPostgres, Goto
<1>5. CASE StorageDependency
  BY <1>5 DEF StorageDependency, AfterDependency, Fail, Goto, Services
<1>6. CASE Poll
  <2>1. WaitsFor(pc) \in Services /\ AfterWait(pc) \in Idle \cup Active
    BY <1>6, WaitsForServices DEF Poll, AfterWait
  <2> QED BY <1>6, <2>1 DEF Poll, CountPoll, Goto, hdfs_vars
<1>7. CASE Provision
  BY <1>7 DEF Provision, Goto
<1>8. CASE StartJob
  <2>1. JobOf(pc) \in Jobs
    BY <1>8 DEF StartJob, JobOf
  <2>2. seen' \in SUBSET Services
    <3>1. \/ UNCHANGED seen
          \/ seen' = seen \cup ({"namenode"} \cup
                              IF pc = "run_loader" THEN {"postgres"} ELSE {})
      BY <1>8 DEF StartJob, Fail
    <3> QED BY <3>1 DEF Services
  <2> QED BY <1>8, <2>1, <2>2 DEF StartJob, Fail, Goto, hdfs_vars
<1>9. ASSUME NEW f \in Folders, Ingest(f)
      PROVE  RestOK'
  BY <1>9 DEF Ingest, Folders, Datasets, script_vars
<1>10. CASE IngestionEnds \/ Verify
  BY <1>10 DEF IngestionEnds, Verify, Goto, hdfs_vars
<1>11. CASE Process
  <2>1. data["kt4"] \in 0 .. MaxRuns
    BY DEF Folders, Datasets
  <2> QED BY <1>11, <2>1 DEF Process, AfterWork, Goto, Datasets
<1>12. CASE Load
  <2>1. data["curated"] \in 0 .. MaxRuns
    BY DEF Folders, Datasets
  <2> QED BY <1>12, <2>1 DEF Load, AfterWork, Goto, Datasets
<1>13. CASE UpApi
  <2>1. /\ datanodes' \in {"none", "started", "registered"}
        /\ safemode' \in BOOLEAN
        /\ UNCHANGED <<open, data>>
    BY <1>13, UpHdfs DEF UpApi, hdfs_vars
  <2>2. /\ pc' \in {"wait_api", "failed"} /\ seen' \in SUBSET Services
        /\ UNCHANGED <<run, csv, late, faults>>
    <3>1. seen' = seen \/ seen' = seen \cup {"postgres"}
      BY <1>13 DEF UpApi, AfterDependency, Fail
    <3> QED BY <1>13, <3>1 DEF UpApi, AfterDependency, Fail, Goto, Services
  <2> QED BY <2>1, <2>2
<1>14. CASE CommandFails
  BY <1>14 DEF CommandFails, Fault, Fail, Goto, hdfs_vars
<1>15. CASE Tick
  BY <1>15 DEF Tick, hdfs_vars
<1>16. CASE Register \/ LeaveSafeMode \/ InitZones
  <2>1. CASE Register
    BY <2>1 DEF Register, script_vars
  <2>2. CASE LeaveSafeMode
    BY <2>2 DEF LeaveSafeMode, script_vars
  <2>3. CASE InitZones
    <3>1. open' = FALSE /\ faults' \in 0 .. MaxFaults
      BY <2>3 DEF InitZones, Fault
    <3> QED BY <2>3, <3>1 DEF InitZones, script_vars
  <2> QED BY <1>16, <2>1, <2>2, <2>3
<1>17. ASSUME NEW s \in Services, Answer(s) \/ Crash(s) \/ Hang(s)
       PROVE  RestOK'
  <2>1. CASE Answer(s)
    BY <2>1 DEF Answer, script_vars, hdfs_vars
  <2>2. CASE Hang(s)
    BY <2>2 DEF Hang, Fault, script_vars, hdfs_vars
  <2>3. CASE Crash(s)
    <3>1. /\ datanodes' \in {"none", "started", "registered"}
          /\ safemode' \in BOOLEAN
          /\ UNCHANGED <<open, data>>
      BY <2>3 DEF Crash, Reload, HasBlocks, hdfs_vars
    <3> QED BY <2>3, <3>1 DEF Crash, Fault, script_vars
  <2> QED BY <1>17, <2>1, <2>2, <2>3
<1>18. CASE UNCHANGED vars
  BY <1>18 DEF vars, script_vars, hdfs_vars
<1> QED BY <1>1, <1>2, <1>3, <1>4, <1>5, <1>6, <1>7, <1>8, <1>9, <1>10, <1>11, <1>12,
           <1>13, <1>14, <1>15, <1>16, <1>17, <1>18 DEF Next, Script, World

LEMMA StepTypes == Types /\ [Next]_vars => Types'
BY StepBoxes, StepPolls, StepRest DEF Types

LEMMA InitTypes == Init => Types
<1> SUFFICES ASSUME Init
             PROVE  Types
  OBVIOUS
<1> USE DEF Init
<1>1. BoxesOK
  BY NoBoxType DEF BoxesOK
<1>2. PollsOK
  <2>1. pc \notin Waits
    BY DEF Waits
  <2>2. 0 \in 0 .. IF pc \in Waits THEN MaxPolls(WaitsFor(pc)) - 1 ELSE 0
    BY <2>1
  <2> QED BY <2>2 DEF PollsOK
<1>3. RestOK
  <2>1. data \in [Datasets -> 0 .. MaxRuns]
    BY BoundsAssumption
  <2>2. run \in 0 .. MaxRuns /\ faults \in 0 .. MaxFaults
    BY BoundsAssumption
  <2>3. pc \in Idle
    BY DEF Idle
  <2> QED BY <2>1, <2>2, <2>3 DEF RestOK
<1> QED BY <1>1, <1>2, <1>3 DEF Types

\* Every variable keeps its type; in particular wait_for_healthy ends at max_wait,
\* and no health check counts past its retries.
THEOREM TypeCorrect == Spec => []TypeOK
<1>1. Types => TypeOK
  BY DEF Types, BoxesOK, Boxes, PollsOK, RestOK, TypeOK
<1> QED BY <1>1, InitTypes, StepTypes, PTL DEF Spec

-----------------------------------------------------------------------------
\* The commands that come after the namenode, and PostgreSQL, were seen healthy.
AfterPostgres == {"provision", "verify", "up_api", "wait_api"} \cup Runs \cup Jobs
AfterNamenode == {"wait_namenode", "up_postgres", "wait_postgres"} \cup AfterPostgres

SeenOnTheWay ==
  /\ pc \in AfterNamenode => "namenode" \in seen
  /\ pc \in AfterPostgres => "postgres" \in seen
  /\ pc = "operational" => seen = Services

\* The commands that come after ingestion was verified, after processing, after the
\* load.
AfterLoad       == {"loaded", "up_api", "wait_api", "operational"}
AfterProcessing == {"processed", "run_loader", "loading"} \cup AfterLoad
AfterIngestion  == {"run_processing", "processing"} \cup AfterProcessing

\* What a command finds in HDFS and in PostgreSQL from the commands before it.
DataInOrder ==
  /\ pc \in {"verify"} \cup AfterIngestion => \A f \in csv : data[f] = run
  /\ pc \in AfterIngestion => data["kt4"] > 0
  /\ pc \in AfterProcessing => data["curated"] = data["kt4"]
  /\ pc \in AfterLoad => data["tables"] = data["curated"]

\* The steps that leave the script where it is, or bring it to a command that
\* promises nothing.
LEMMA OtherSteps ==
  [Next]_vars =>
    \/ UNCHANGED <<pc, seen, csv, run, data>>
    \/ pc' \in {"preflight", "clean", "build", "up_storage", "storage_deps", "failed"}
    \/ StorageDependency \/ UpPostgres \/ Poll \/ Provision \/ StartJob
    \/ \E f \in Folders : Ingest(f)
    \/ IngestionEnds \/ Verify \/ Process \/ Load \/ Exit \/ UpApi
<1> SUFFICES ASSUME Next
             PROVE  \/ UNCHANGED <<pc, seen, csv, run, data>>
                    \/ pc' \in {"preflight", "clean", "build", "up_storage",
                               "storage_deps", "failed"}
                    \/ Script
  BY DEF vars, script_vars, hdfs_vars, Script, Preflight, CleanUp, Build, UpStorage, Goto
<1>1. CASE World
  BY <1>1 DEF World, Tick, Register, LeaveSafeMode, InitZones, Answer, Crash, Hang,
     Reload, script_vars, hdfs_vars
<1>2. CASE CommandFails \/ \E folders \in Deliveries : Start(folders)
  BY <1>2 DEF CommandFails, Fail, Goto, Start
<1> QED BY <1>1, <1>2 DEF Next

LEMMA StepSeen == Types /\ SeenOnTheWay /\ [Next]_vars => SeenOnTheWay'
<1> SUFFICES ASSUME Types, SeenOnTheWay, [Next]_vars
             PROVE  SeenOnTheWay'
  OBVIOUS
<1> USE DEF SeenOnTheWay, AfterNamenode, AfterPostgres, Runs, Jobs
<1>1. CASE UNCHANGED <<pc, seen, csv, run, data>>
  BY <1>1
<1>2. CASE pc' \in {"preflight", "clean", "build", "up_storage", "storage_deps", "failed"}
  BY <1>2
<1>3. CASE StorageDependency
  BY <1>3 DEF StorageDependency, AfterDependency, Fail, Goto
<1>4. CASE UpPostgres \/ Provision \/ IngestionEnds \/ Verify \/ Exit
  BY <1>4 DEF UpPostgres, Provision, IngestionEnds, Verify, Exit, Goto
<1>5. CASE Poll
  <2>1. pc \in {"wait_namenode", "wait_postgres", "wait_api"}
    BY <1>5 DEF Poll, Waits
  <2>2. \/ UNCHANGED <<pc, seen>>
        \/ pc' = "failed"
        \/ pc' = AfterWait(pc) /\ seen' = seen \cup {WaitsFor(pc)}
    BY <1>5 DEF Poll, CountPoll, Goto
  <2>3. seen \in SUBSET Services
    BY DEF Types, RestOK
  <2> QED BY <2>1, <2>2, <2>3 DEF AfterWait, WaitsFor, Services
<1>6. CASE StartJob
  <2>1. \/ pc' = "failed"
        \/ pc \in Runs /\ pc' = JobOf(pc) /\ seen \subseteq seen'
    BY <1>6 DEF StartJob, Fail, Goto
  <2> QED BY <2>1 DEF JobOf
<1>7. ASSUME NEW f \in Folders, Ingest(f)
      PROVE  SeenOnTheWay'
  BY <1>7 DEF Ingest, script_vars
<1>8. CASE Process \/ Load
  BY <1>8 DEF Process, Load, AfterWork, Goto
<1>9. CASE UpApi
  BY <1>9 DEF UpApi, AfterDependency, Fail, Goto
<1> QED BY <1>1, <1>2, <1>3, <1>4, <1>5, <1>6, <1>7, <1>8, <1>9, OtherSteps

LEMMA StepData == Types /\ DataInOrder /\ [Next]_vars => DataInOrder'
<1> SUFFICES ASSUME Types, DataInOrder, [Next]_vars
             PROVE  DataInOrder'
  OBVIOUS
<1> USE DEF DataInOrder, AfterIngestion, AfterProcessing, AfterLoad
<1>1. CASE UNCHANGED <<pc, seen, csv, run, data>>
  BY <1>1
<1>2. CASE pc' \in {"preflight", "clean", "build", "up_storage", "storage_deps", "failed"}
  BY <1>2
<1>3. CASE StorageDependency \/ UpPostgres \/ Provision
  BY <1>3 DEF StorageDependency, AfterDependency, Fail, UpPostgres, Provision, Goto
<1>4. CASE Poll
  <2>1. pc \in {"wait_namenode", "wait_postgres", "wait_api"}
    BY <1>4 DEF Poll, Waits
  <2>2. /\ pc' \in {pc, "failed", AfterWait(pc)}
        /\ UNCHANGED <<csv, run, data>>
    BY <1>4 DEF Poll, CountPoll, Goto, hdfs_vars
  <2> QED BY <2>1, <2>2 DEF AfterWait
<1>5. CASE StartJob
  <2>1. /\ pc \in Runs /\ pc' \in {"failed", JobOf(pc)}
        /\ UNCHANGED <<csv, run, data>>
    BY <1>5 DEF StartJob, Fail, Goto, hdfs_vars
  <2> QED BY <2>1 DEF JobOf, Runs
<1>6. ASSUME NEW f \in Folders, Ingest(f)
      PROVE  DataInOrder'
  BY <1>6 DEF Ingest, script_vars
<1>7. CASE IngestionEnds
  BY <1>7 DEF IngestionEnds, Outdated, Goto, hdfs_vars
<1>8. CASE Verify \/ Exit
  BY <1>8 DEF Verify, Exit, Goto, hdfs_vars
<1>9. CASE Process
  <2>1. /\ pc = "processing" /\ UNCHANGED <<csv, run>>
        /\ \/ data' = data /\ pc' = "failed"
           \/ data' = [data EXCEPT !["curated"] = data["kt4"]] /\ pc' = "processed"
    BY <1>9 DEF Process, AfterWork, Goto
  <2>2. /\ DOMAIN data = Datasets /\ csv \subseteq Folders
        /\ "kt4" \in Datasets /\ "curated" \in Datasets
        /\ \A f \in Folders : f # "curated" /\ f \in Datasets
    BY DEF Types, RestOK, Datasets, Folders
  <2> QED BY <2>1, <2>2
<1>10. CASE Load
  <2>1. /\ pc = "loading" /\ UNCHANGED <<csv, run>>
        /\ \/ data' = data /\ pc' = "failed"
           \/ data' = [data EXCEPT !["tables"] = data["curated"]] /\ pc' = "loaded"
    BY <1>10 DEF Load, AfterWork, Goto
  <2>2. /\ DOMAIN data = Datasets /\ csv \subseteq Folders
        /\ {"kt4", "curated", "tables"} \subseteq Datasets
        /\ \A f \in Folders : f # "tables" /\ f \in Datasets
    BY DEF Types, RestOK, Datasets, Folders
  <2> QED BY <2>1, <2>2
<1>11. CASE UpApi
  <2>1. UNCHANGED data
    BY <1>11, UpHdfs DEF UpApi, hdfs_vars, Types
  <2>2. pc = "up_api" /\ pc' \in {"wait_api", "failed"} /\ UNCHANGED <<csv, run>>
    BY <1>11 DEF UpApi, AfterDependency, Fail, Goto
  <2> QED BY <2>1, <2>2
<1> QED BY <1>1, <1>2, <1>3, <1>4, <1>5, <1>6, <1>7, <1>8, <1>9, <1>10, <1>11, OtherSteps

\* A bootstrap that reports success serves what it has been given.
THEOREM SuccessIsServed == Spec => []OperationalMeansServed
<1>1. Init => Types /\ SeenOnTheWay /\ DataInOrder
  BY InitTypes DEF Init, SeenOnTheWay, AfterNamenode, AfterPostgres, Runs, Jobs,
     DataInOrder, AfterIngestion, AfterProcessing, AfterLoad
<1>2. Types /\ SeenOnTheWay /\ DataInOrder /\ [Next]_vars =>
        Types' /\ SeenOnTheWay' /\ DataInOrder'
  BY StepTypes, StepSeen, StepData
<1>3. SeenOnTheWay /\ DataInOrder => OperationalMeansServed
  BY DEF SeenOnTheWay, DataInOrder, AfterIngestion, AfterProcessing, AfterLoad,
     OperationalMeansServed
<1> QED BY <1>1, <1>2, <1>3, PTL DEF Spec

-----------------------------------------------------------------------------
\* The commands that come after step 5b has provisioned the batch user.
Provisioned == {"verify", "up_api", "wait_api"} \cup Runs \cup Jobs

\* Without faults a service that answers goes on answering, so a healthy status is
\* not stale, and nothing undoes what the script has waited for.
Undisturbed ==
  faults = 0 =>
    /\ \A s \in Services : box[s].state = "healthy" => box[s].answers
    /\ pc \in Provisioned => box["namenode"].answers /\ ~safemode /\ open
    /\ pc \in {"loading", "loaded"} => box["postgres"].answers

\* A fault is counted.
LEMMA FaultsAreCounted ==
  ASSUME Types, Fault
  PROVE  faults' # 0 /\ faults' # faults
BY BoundsAssumption DEF Types, RestOK, Fault

LEMMA FaultFreeStep ==
  ASSUME Types, [Next]_vars, faults' = 0
  PROVE  /\ faults = 0
         /\ \A s \in Services : ~Crash(s) /\ ~Hang(s)
         /\ ~InitZones /\ ~CommandFails
         /\ \A kept \in SUBSET Services :
              CleanUp(kept) => \A s \in kept : box[s].state = "missing"
<1>1. ~Fault
  BY FaultsAreCounted
<1>2. UNCHANGED faults
  BY <1>1 DEF Next, Script, World, Tick, Register, LeaveSafeMode, InitZones, Answer, Crash,
     Hang, Start, Preflight, CleanUp, Build, UpStorage, StorageDependency, Poll, UpPostgres,
     Provision, StartJob, Ingest, IngestionEnds, Verify, Process, Load, Exit, UpApi,
     CommandFails, vars
<1> QED BY <1>1, <1>2 DEF Crash, Hang, InitZones, CommandFails, CleanUp

LEMMA HealthyAnswers ==
  ASSUME Types, [Next]_vars, faults' = 0,
         \A s \in Services : box[s].state = "healthy" => box[s].answers
  PROVE  \A s \in Services : box'[s].state = "healthy" => box'[s].answers
<1>1. CASE UNCHANGED box
  BY <1>1
<1>2. CASE Tick
  <2> SUFFICES ASSUME NEW s \in Services, Aged(s).state = "healthy"
               PROVE  Aged(s).answers
    BY <1>2 DEF Tick
  <2>1. /\ box[s] \in Boxes(s) /\ box[s].answers \in BOOLEAN
        /\ box[s].state # "missing" <=> box[s].next > 0
        /\ Aged(s).answers = box[s].answers
    BY AgedBox DEF Types, BoxesOK, Boxes
  <2> SUFFICES ASSUME ~box[s].answers
               PROVE  FALSE
    BY <2>1
  <2>2. box[s].state # "healthy" /\ ~Older(s).answers /\ Older(s).state = box[s].state
    BY <2>1, OlderBox
  <2>3. box[s].state # "missing"
    BY <2>1, AgedBox DEF Types
  <2>4. Aged(s) = IF box[s].next = 1 THEN Probed(s, Older(s)) ELSE Later(s)
    BY <2>1, <2>3, AgedIs
  <2>5. Probed(s, Older(s)).state # "healthy"
    BY <2>1, <2>2, OlderBox, ProbeFailed
  <2>6. Later(s).state # "healthy"
    BY <2>1, <2>2, <2>3, LaterBox
  <2> QED BY <2>4, <2>5, <2>6
<1>3. ASSUME NEW kept \in SUBSET Services, CleanUp(kept)
      PROVE  \A s \in Services : box'[s].state = "healthy" => box'[s].answers
  <2>1. \A s \in Services : box'[s] = IF s \in kept THEN box[s] ELSE NoBox
    BY <1>3 DEF CleanUp
  <2> QED BY <2>1, NoBoxType
<1>4. ASSUME NEW t \in Services, Answer(t)
      PROVE  \A s \in Services : box'[s].state = "healthy" => box'[s].answers
  <2>1. DOMAIN box = Services /\ box[t] \in Boxes(t)
    BY DEF Types, BoxesOK
  <2>2. box' = [box EXCEPT ![t].answers = TRUE]
    BY <1>4 DEF Answer
  <2> QED BY <2>1, <2>2 DEF Boxes
<1>5. ASSUME NEW t \in Services, Up(t)
      PROVE  \A s \in Services : box'[s].state = "healthy" => box'[s].answers
  <2>1. DOMAIN box = Services
    BY DEF Types, BoxesOK
  <2> QED BY <1>1, <1>5, <2>1, NewBoxType DEF Up
<1> QED BY <1>1, <1>2, <1>3, <1>4, <1>5, BoxSteps, FaultFreeStep

\* Whatever answers is not touched by a step without a fault, but for a clean-up.
LEMMA AnswersStay ==
  ASSUME Types, [Next]_vars, faults' = 0, NEW s \in Services, box[s].answers,
         pc # "clean"
  PROVE  box'[s].answers
<1>1. DOMAIN box = Services /\ box[s] \in Boxes(s)
  BY DEF Types, BoxesOK
<1>2. CASE Tick
  BY <1>2, AgedBox DEF Tick, Types
<1>3. ASSUME NEW t \in Services, Answer(t)
      PROVE  box'[s].answers
  BY <1>1, <1>3 DEF Answer, Boxes
<1>4. ASSUME NEW t \in Services, Up(t), s # t \/ box[t].state # "missing"
      PROVE  box'[s].answers
  BY <1>1, <1>4 DEF Up
<1>5. ASSUME NEW t \in Services, Up(t)
      PROVE  s # t \/ box[t].state # "missing"
  BY DEF Types, BoxesOK
<1> QED BY <1>1, <1>2, <1>3, <1>4, <1>5, BoxSteps, FaultFreeStep DEF CleanUp

\* The steps without a fault that lead to, or happen at, a command that needs the
\* provisioned cluster.
LEMMA ProvisionedSteps ==
  ASSUME Types, [Next]_vars, faults' = 0, pc' \in Provisioned
  PROVE  \/ /\ pc = "provision" /\ UNCHANGED <<box, safemode>>
            /\ box["namenode"].answers /\ ~safemode /\ open'
         \/ /\ pc \in Provisioned /\ UNCHANGED open
            /\ (safemode' => safemode)
<1> USE DEF Provisioned, Runs, Jobs
<1>1. CASE UNCHANGED <<pc, open, safemode>>
  BY <1>1
<1>2. CASE Preflight \/ Build \/ UpStorage \/ StorageDependency \/ UpPostgres
           \/ \E kept \in SUBSET Services : CleanUp(kept)
  BY <1>2 DEF Preflight, Build, UpStorage, StorageDependency, AfterDependency, UpPostgres,
     CleanUp, Fail, Goto
<1>3. CASE Poll
  BY <1>3 DEF Poll, Waits, AfterWait, CountPoll, Goto, hdfs_vars
<1>4. CASE Provision
  BY <1>4 DEF Provision, Goto
<1>5. CASE StartJob \/ IngestionEnds \/ Verify \/ Exit
  BY <1>5 DEF StartJob, IngestionEnds, Verify, Exit, Goto, hdfs_vars
<1>6. CASE Process \/ Load
  BY <1>6 DEF Process, Load, Goto
<1>7. CASE UpApi
  <2>1. pc = "up_api" /\ UNCHANGED <<safemode, open>>
    BY <1>7 DEF UpApi, Up, hdfs_vars
  <2> QED BY <2>1
<1>8. CASE \E f \in Folders : Ingest(f)
  BY <1>8, <1>1 DEF Ingest, script_vars
<1>9. CASE World
  <2>1. UNCHANGED <<pc, open>> /\ (safemode' => safemode)
    BY <1>9, FaultFreeStep DEF World, Tick, Register, LeaveSafeMode, Answer, script_vars,
       hdfs_vars
  <2> QED BY <2>1
<1>10. CASE \E folders \in Deliveries : Start(folders)
  BY <1>10 DEF Start
<1>11. CASE UNCHANGED vars
  BY <1>11, <1>1 DEF vars, script_vars, hdfs_vars
<1> QED BY <1>2, <1>3, <1>4, <1>5, <1>6, <1>7, <1>8, <1>9, <1>10, <1>11, FaultFreeStep
        DEF Next, Script

\* The steps that lead to, or happen at, the loader's work.
LEMMA LoadingSteps ==
  ASSUME [Next]_vars, pc' \in {"loading", "loaded"}
  PROVE  \/ pc \in {"loading", "loaded"}
         \/ box["postgres"].state = "healthy" /\ UNCHANGED box
<1>1. CASE UNCHANGED pc
  BY <1>1
<1>2. CASE Script
  <2>1. CASE Poll
    BY <2>1 DEF Poll, Waits, AfterWait, CountPoll, Goto
  <2>2. CASE StartJob
    <3>1. pc \in Runs /\ (pc' = "failed" \/ pc' = JobOf(pc)) /\ UNCHANGED box
      BY <2>2 DEF StartJob, Fail, Goto
    <3>2. pc = "run_loader"
      BY <3>1 DEF Runs, JobOf
    <3>3. box["postgres"].state = "healthy"
      BY <2>2, <3>2 DEF StartJob, Fail, Goto
    <3> QED BY <3>1, <3>3
  <2>3. ~Poll /\ ~StartJob => pc \in {"loading", "loaded"}
    BY <1>2, <1>1 DEF Script, Preflight, CleanUp, Build, UpStorage, StorageDependency,
       AfterDependency, UpPostgres, Provision, Ingest, IngestionEnds, Verify, Process, Load,
       AfterWork, Exit, UpApi, Fail, Goto, script_vars
  <2> QED BY <2>1, <2>2, <2>3
<1>3. CASE World \/ UNCHANGED vars
  BY <1>3, <1>1 DEF World, Tick, Register, LeaveSafeMode, InitZones, Answer, Crash, Hang,
     vars, script_vars
<1>4. CASE CommandFails \/ \E folders \in Deliveries : Start(folders)
  BY <1>4 DEF CommandFails, Fail, Goto, Start
<1> QED BY <1>2, <1>3, <1>4 DEF Next

LEMMA StepUndisturbed == Types /\ Undisturbed /\ [Next]_vars => Undisturbed'
<1> SUFFICES ASSUME Types, Undisturbed, [Next]_vars, faults' = 0
             PROVE  /\ \A s \in Services : box'[s].state = "healthy" => box'[s].answers
                    /\ pc' \in Provisioned =>
                         box'["namenode"].answers /\ ~safemode' /\ open'
                    /\ pc' \in {"loading", "loaded"} => box'["postgres"].answers
  BY DEF Undisturbed
<1>1. /\ \A s \in Services : box[s].state = "healthy" => box[s].answers
      /\ pc \in Provisioned => box["namenode"].answers /\ ~safemode /\ open
      /\ pc \in {"loading", "loaded"} => box["postgres"].answers
  BY FaultFreeStep DEF Undisturbed
<1>2. \A s \in Services : box'[s].state = "healthy" => box'[s].answers
  BY <1>1, HealthyAnswers
<1>3. ASSUME pc' \in Provisioned
      PROVE  box'["namenode"].answers /\ ~safemode' /\ open'
  <2>1. CASE /\ pc = "provision" /\ UNCHANGED <<box, safemode>>
             /\ box["namenode"].answers /\ ~safemode /\ open'
    BY <2>1
  <2>2. CASE /\ pc \in Provisioned /\ UNCHANGED open
             /\ (safemode' => safemode)
    <3>1. pc # "clean" /\ "namenode" \in Services
      BY <2>2 DEF Provisioned, Runs, Jobs, Services
    <3> QED BY <1>1, <2>2, <3>1, AnswersStay
  <2> QED BY <1>3, <2>1, <2>2, ProvisionedSteps
<1>4. ASSUME pc' \in {"loading", "loaded"}
      PROVE  box'["postgres"].answers
  <2>1. "postgres" \in Services
    BY DEF Services
  <2>2. CASE pc \in {"loading", "loaded"}
    BY <1>1, <2>1, <2>2, AnswersStay
  <2>3. CASE box["postgres"].state = "healthy" /\ UNCHANGED box
    BY <1>1, <2>1, <2>3
  <2> QED BY <1>4, <2>2, <2>3, LoadingSteps
<1> QED BY <1>2, <1>3, <1>4

LEMMA UndisturbedAlways == Spec => [](Types /\ Undisturbed)
<1>1. Init => Types /\ Undisturbed
  <2>1. Init => Undisturbed
    BY NoBoxType DEF Init, Undisturbed, Provisioned, Runs, Jobs
  <2> QED BY <2>1, InitTypes
<1> QED BY <1>1, StepTypes, StepUndisturbed, PTL DEF Spec

\* Until something goes wrong, jobs run only while the cluster answers them, out of
\* safe mode and open to them, and the loader only while PostgreSQL does.
THEOREM JobsAreServed == Spec => []JobsFindTheCluster
<1>1. Undisturbed => JobsFindTheCluster
  BY DEF Undisturbed, Provisioned, JobsFindTheCluster
<1> QED BY <1>1, UndisturbedAlways, PTL

-----------------------------------------------------------------------------
\* Failing probes that count are an interval apart, the first of them after the
\* start period.
FailuresTakeTime(s) ==
  box[s].fails > 0 =>
    StartPeriod(s) + box[s].fails * Interval(s) <= box[s].age + box[s].next

\* A service that is not late has answered by the end of its start-up time and has
\* never stopped since: no health check gives it up.
InTime(s) ==
  box[s].state # "missing" /\ s \notin late =>
    /\ box[s].state \in {"starting", "healthy"}
    /\ ~box[s].answers => /\ box[s].state = "starting"
                          /\ box[s].age < Allowance(s)
                          /\ FailuresTakeTime(s)

AllInTime == \A s \in Services : InTime(s)

\* A service still starting up fails too few probes to be unhealthy.
LEMMA FewFailures ==
  ASSUME NEW s \in Services, NEW n \in Nat,
         StartPeriod(s) + n * Interval(s) < Allowance(s)
  PROVE  n + 1 < Retries(s)
BY DEF Services, StartPeriod, Interval, Allowance, Retries

LEMMA OneMoreInterval ==
  ASSUME NEW s \in Services, NEW n \in Nat
  PROVE  /\ n * Interval(s) \in Nat /\ (n > 0 => n * Interval(s) > 0)
         /\ (n + 1) * Interval(s) = n * Interval(s) + Interval(s)
BY DEF Interval

\* A tick of a service that has not answered yet and is not late afterwards.
LEMMA SilentTick ==
  ASSUME BoxesOK, NEW s \in Services, box[s].state = "starting", ~box[s].answers,
         box[s].age < Allowance(s), FailuresTakeTime(s),
         Aged(s).age # Allowance(s)
  PROVE  /\ Aged(s).state = "starting" /\ Aged(s).age = box[s].age + 1
         /\ Aged(s).age < Allowance(s)
         /\ Aged(s).fails > 0 =>
              StartPeriod(s) + Aged(s).fails * Interval(s) <= Aged(s).age + Aged(s).next
<1> DEFINE b == box[s]
           o == Older(s)
<1>1. /\ b \in Boxes(s) /\ b.next > 0 /\ b.age \in Nat /\ b.fails \in Nat
      /\ b.next \in 1 .. Interval(s) /\ b.fails <= Retries(s)
  BY HealthChecks DEF BoxesOK, Boxes
<1>2. /\ o \in Boxes(s) /\ o.state = "starting" /\ ~o.answers /\ o.age = b.age + 1
      /\ o.next = b.next /\ o.fails = b.fails
  BY <1>1, OlderBox
<1>3. /\ Interval(s) \in Nat /\ StartPeriod(s) \in Nat /\ Allowance(s) \in Nat
      /\ Retries(s) \in Nat /\ Interval(s) > 1 /\ Retries(s) > 0
  BY HealthChecks
<1>4. b.fails > 0 => StartPeriod(s) + b.fails * Interval(s) <= b.age + b.next
  BY DEF FailuresTakeTime
<1>5. CASE b.next # 1
  <2>1. Aged(s) = Later(s)
    BY <1>1, <1>5, AgedIs
  <2>2. /\ Aged(s).state = "starting" /\ Aged(s).next = b.next - 1
        /\ Aged(s).fails = b.fails /\ Aged(s).age = b.age + 1
    BY <1>1, <1>2, <2>1, LaterBox
  <2>3. b.fails * Interval(s) \in Nat
    BY <1>1, OneMoreInterval
  <2>4. Aged(s).fails * Interval(s) = b.fails * Interval(s)
    BY <2>2
  <2>5. b.age + 1 < Allowance(s)
    BY <1>1, <1>3, <2>2
  <2>6. ASSUME Aged(s).fails > 0
        PROVE  StartPeriod(s) + Aged(s).fails * Interval(s) <= Aged(s).age + Aged(s).next
    <3>1. StartPeriod(s) + b.fails * Interval(s) <= b.age + b.next
      BY <1>4, <2>2, <2>6
    <3>2. Aged(s).age + Aged(s).next = b.age + b.next
      BY <1>1, <2>2
    <3> QED BY <2>4, <3>1, <3>2
  <2> QED BY <2>2, <2>5, <2>6
<1>6. CASE b.next = 1
  <2>1. Aged(s) = Probed(s, o)
    BY <1>6, AgedIs
  <2>2. /\ Aged(s).age = b.age + 1 /\ Aged(s).next = Gap(s, b.age + 1)
        /\ Aged(s).fails = IF b.age + 1 < StartPeriod(s) THEN b.fails
                          ELSE IF b.fails < Retries(s) THEN b.fails + 1 ELSE b.fails
        /\ Aged(s).state = IF Aged(s).fails = Retries(s) THEN "unhealthy" ELSE "starting"
    BY <1>2, <2>1, ProbeFailed
  <2>3. b.age + 1 < Allowance(s)
    BY <1>1, <1>3, <2>2
  <2>4. b.fails * Interval(s) \in Nat /\ (b.fails > 0 => b.fails * Interval(s) > 0)
    BY <1>1, OneMoreInterval
  <2>5. CASE b.age + 1 < StartPeriod(s)
    <3>1. b.fails = 0
      BY <1>1, <1>3, <1>4, <1>6, <2>4, <2>5
    <3> QED BY <1>3, <2>2, <2>3, <2>5, <3>1
  <2>6. CASE b.age + 1 >= StartPeriod(s)
    <3>1. StartPeriod(s) + b.fails * Interval(s) <= b.age + 1
      <4>1. CASE b.fails = 0
        BY <1>3, <2>6, <4>1
      <4>2. CASE b.fails > 0
        BY <1>4, <1>6, <4>2
      <4> QED BY <1>1, <4>1, <4>2
    <3>2. b.fails + 1 < Retries(s)
      <4>1. StartPeriod(s) + b.fails * Interval(s) < Allowance(s)
        BY <1>1, <1>3, <2>3, <2>4, <3>1
      <4> QED BY <1>1, <4>1, FewFailures
    <3>3. /\ Aged(s).fails = b.fails + 1 /\ Aged(s).state = "starting"
          /\ Aged(s).next = Interval(s)
      BY <1>1, <1>3, <2>2, <2>6, <3>2 DEF Gap
    <3>4. (b.fails + 1) * Interval(s) = b.fails * Interval(s) + Interval(s)
      BY <1>1, OneMoreInterval
    <3>5. Aged(s).fails * Interval(s) = b.fails * Interval(s) + Interval(s)
      BY <3>3, <3>4
    <3>6. StartPeriod(s) + Aged(s).fails * Interval(s) <= Aged(s).age + Aged(s).next
      BY <1>1, <1>3, <2>2, <2>4, <3>1, <3>3, <3>5
    <3> QED BY <2>2, <2>3, <3>3, <3>6
  <2> QED BY <1>1, <1>3, <2>5, <2>6
<1> QED BY <1>5, <1>6

\* A tick of a service that answers: it stays, or becomes, healthy.
LEMMA AnsweredTick ==
  ASSUME BoxesOK, NEW s \in Services, box[s].state \in {"starting", "healthy"},
         box[s].answers
  PROVE  /\ Aged(s).state \in {"starting", "healthy"} /\ Aged(s).answers
         /\ Aged(s).state = "starting" =>
              box[s].state = "starting" /\ Aged(s).next = box[s].next - 1
<1>1. box[s] \in Boxes(s) /\ box[s].next > 0
  BY DEF BoxesOK
<1>2. Older(s) \in Boxes(s) /\ Older(s).answers
  BY <1>1, OlderBox
<1>3. CASE box[s].next = 1
  BY <1>2, <1>3, <1>1, AgedIs, ProbeAnswered
<1>4. CASE box[s].next # 1
  BY <1>1, <1>4, AgedIs, LaterBox
<1> QED BY <1>3, <1>4

LEMMA StepInTime == Types /\ AllInTime /\ [Next]_vars => AllInTime'
<1> SUFFICES ASSUME Types, AllInTime, [Next]_vars, NEW s \in Services,
                    box'[s].state # "missing", s \notin late'
             PROVE  /\ box'[s].state \in {"starting", "healthy"}
                    /\ ~box'[s].answers =>
                         /\ box'[s].state = "starting"
                         /\ box'[s].age < Allowance(s)
                         /\ FailuresTakeTime(s)'
  BY DEF AllInTime, InTime
<1>1. InTime(s) /\ BoxesOK /\ DOMAIN box = Services /\ box[s] \in Boxes(s)
  BY DEF AllInTime, Types, BoxesOK
<1>2. CASE box'[s] = box[s] /\ s \notin late
  BY <1>1, <1>2 DEF InTime, FailuresTakeTime
<1>3. CASE Tick
  <2>1. box'[s] = Aged(s) /\ s \notin late
    BY <1>3 DEF Tick
  <2>2. box[s].state # "missing"
    BY <1>1, <2>1, AgedBox
  <2>3. CASE box[s].answers
    BY <1>1, <2>1, <2>2, <2>3, AnsweredTick DEF InTime
  <2>4. CASE ~box[s].answers
    <3>1. Aged(s).age # Allowance(s)
      BY <1>3, <2>1, <2>4 DEF Tick
    <3>2. /\ box[s].state = "starting" /\ box[s].age < Allowance(s)
          /\ FailuresTakeTime(s)
      BY <1>1, <2>1, <2>2, <2>4 DEF InTime
    <3> QED BY <1>1, <2>1, <2>4, <3>1, <3>2, SilentTick DEF FailuresTakeTime
  <2> QED BY <2>3, <2>4
<1>4. ASSUME NEW kept \in SUBSET Services, CleanUp(kept)
      PROVE  box'[s] = box[s] /\ s \notin late
  BY <1>4, NoBoxType DEF CleanUp
<1>5. ASSUME NEW t \in Services, Answer(t)
      PROVE  /\ box'[s].state \in {"starting", "healthy"}
             /\ ~box'[s].answers =>
                  /\ box'[s].state = "starting"
                  /\ box'[s].age < Allowance(s)
                  /\ FailuresTakeTime(s)'
  <2>1. CASE t = s
    <3>1. box'[s].state = box[s].state /\ box'[s].answers /\ s \notin late
      BY <1>1, <1>5, <2>1 DEF Answer, Boxes
    <3> QED BY <1>1, <3>1 DEF InTime
  <2>2. CASE t # s
    BY <1>2, <1>5, <2>2 DEF Answer
  <2> QED BY <2>1, <2>2
<1>6. ASSUME NEW t \in Services, Crash(t) \/ Hang(t)
      PROVE  box'[s] = box[s] /\ s \notin late
  <2>1. s # t /\ s \notin late
    BY <1>6 DEF Crash, Hang
  <2> QED BY <1>1, <1>6, <2>1 DEF Crash, Hang
<1>7. ASSUME NEW t \in Services, Up(t), UNCHANGED late
      PROVE  /\ box'[s].state \in {"starting", "healthy"}
             /\ ~box'[s].answers =>
                  /\ box'[s].state = "starting"
                  /\ box'[s].age < Allowance(s)
                  /\ FailuresTakeTime(s)'
  <2>1. CASE box'[s] = NewBox(s)
    BY <2>1, NewBoxType, HealthChecks DEF FailuresTakeTime
  <2>2. CASE box'[s] = box[s]
    BY <1>2, <1>7, <2>2
  <2> QED BY <1>1, <1>7, <2>1, <2>2 DEF Up
<1> QED BY <1>2, <1>3, <1>4, <1>5, <1>6, <1>7, BoxSteps

-----------------------------------------------------------------------------
\* Ticks since the current wait_for_healthy began.
Elapsed == IF asleep THEN polls - 1 ELSE polls

\* The container a wait is for exists, and if it is not late the wait is no further
\* than its start-up time and one interval of its health check.
WaitedFor ==
  pc \in Waits =>
    LET s == WaitsFor(pc) IN
    /\ box[s].state # "missing"
    /\ box[s].state = "starting" /\ s \notin late =>
         /\ ~box[s].answers => Elapsed <= box[s].age
         /\ box[s].answers => Elapsed + box[s].next < Allowance(s) + Interval(s)

\* The steps into a wait and the steps within one.
LEMMA WaitSteps ==
  ASSUME Types, [Next]_vars, pc' \in Waits
  PROVE  \/ /\ polls' = 0 /\ asleep' = FALSE
            /\ \/ UNCHANGED box /\ box[WaitsFor(pc')].state = "healthy"
               \/ Up(WaitsFor(pc'))
         \/ /\ UNCHANGED <<pc, box, late>>
            /\ \/ UNCHANGED <<polls, asleep>>
               \/ ~asleep /\ polls' = polls + 1 /\ asleep' = TRUE
         \/ UNCHANGED pc /\ Tick
         \/ /\ UNCHANGED <<pc, polls, asleep>>
            /\ \E t \in Services : Answer(t) \/ Crash(t) \/ Hang(t)
<1> USE DEF Waits
<1>1. CASE Preflight \/ Build \/ Provision \/ IngestionEnds \/ Verify \/ Exit \/ CommandFails
           \/ \E kept \in SUBSET Services : CleanUp(kept)
  BY <1>1 DEF Preflight, Build, Provision, IngestionEnds, Verify, Exit, CommandFails, CleanUp,
     Fail, Goto
<1>2. CASE UpStorage \/ Process \/ Load \/ \E folders \in Deliveries : Start(folders)
  BY <1>2 DEF UpStorage, Process, Load, AfterWork, Goto, Start
<1>3. CASE StorageDependency
  BY <1>3 DEF StorageDependency, AfterDependency, Fail, Goto, WaitsFor
<1>4. CASE UpPostgres
  BY <1>4 DEF UpPostgres, Goto, WaitsFor
<1>5. CASE UpApi
  <2>1. pc' = "wait_api" /\ polls' = 0 /\ asleep' = FALSE
    BY <1>5 DEF UpApi, AfterDependency, Fail, Goto
  <2>2. box["postgres"].state = "healthy"
    BY <1>5, <2>1 DEF UpApi, AfterDependency, Fail, Goto
  <2> QED BY <1>5, <2>1, <2>2 DEF UpApi, WaitsFor
<1>6. CASE Poll
  BY <1>6 DEF Poll, CountPoll, AfterWait, Goto
<1>7. CASE StartJob
  BY <1>7 DEF StartJob, JobOf, Runs, Fail, Goto
<1>8. CASE \/ Register \/ LeaveSafeMode \/ InitZones \/ UNCHANGED vars
           \/ \E f \in Folders : Ingest(f)
  BY <1>8 DEF Register, LeaveSafeMode, InitZones, Ingest, vars, script_vars
<1>9. CASE Tick
  BY <1>9 DEF Tick
<1>10. CASE \E t \in Services : Answer(t) \/ Crash(t) \/ Hang(t)
  BY <1>10 DEF Answer, Crash, Hang, script_vars
<1> QED BY <1>1, <1>2, <1>3, <1>4, <1>5, <1>6, <1>7, <1>8, <1>9, <1>10 DEF Next, Script, World

LEMMA StepWaited == Types /\ AllInTime /\ WaitedFor /\ [Next]_vars => WaitedFor'
<1> SUFFICES ASSUME Types, AllInTime, WaitedFor, [Next]_vars, pc' \in Waits,
                    NEW s \in Services, s = WaitsFor(pc')
             PROVE  /\ box'[s].state # "missing"
                    /\ box'[s].state = "starting" /\ s \notin late' =>
                         /\ ~box'[s].answers => Elapsed' <= box'[s].age
                         /\ box'[s].answers =>
                              Elapsed' + box'[s].next < Allowance(s) + Interval(s)
  BY WaitsForServices DEF WaitedFor
<1>1. /\ BoxesOK /\ DOMAIN box = Services /\ box[s] \in Boxes(s) /\ InTime(s)
      /\ box[s].age \in Nat /\ box[s].next \in 0 .. Interval(s)
      /\ polls \in Nat /\ (asleep => polls > 0) /\ asleep \in BOOLEAN
  <2>1. polls \in Nat
    BY WaitsForServices, HealthChecks DEF Types, PollsOK
  <2> QED BY <2>1, HealthChecks DEF Types, BoxesOK, PollsOK, AllInTime, Boxes
<1>2. BoxesOK' /\ box'[s] \in Boxes(s) /\ box'[s].age \in Nat
      /\ box'[s].next \in 0 .. Interval(s)
  BY StepTypes, HealthChecks DEF Types, BoxesOK, Boxes
<1>3. Elapsed \in Nat /\ Interval(s) \in Nat /\ Allowance(s) \in Nat /\ Allowance(s) > 0
  BY <1>1, HealthChecks DEF Elapsed
<1>4. pc = pc' =>
        /\ box[s].state # "missing"
        /\ box[s].state = "starting" /\ s \notin late =>
             /\ ~box[s].answers => Elapsed <= box[s].age
             /\ box[s].answers => Elapsed + box[s].next < Allowance(s) + Interval(s)
  BY DEF WaitedFor
<1>5. CASE /\ polls' = 0 /\ asleep' = FALSE
           /\ \/ UNCHANGED box /\ box[WaitsFor(pc')].state = "healthy"
              \/ Up(WaitsFor(pc'))
  <2>1. Elapsed' = 0
    BY <1>5 DEF Elapsed
  <2>2. box'[s].state # "missing"
    BY <1>1, <1>5, NewBoxType DEF Up
  <2> QED BY <1>2, <1>3, <2>1, <2>2
<1>6. CASE /\ UNCHANGED <<pc, box, late>>
           /\ \/ UNCHANGED <<polls, asleep>>
              \/ ~asleep /\ polls' = polls + 1 /\ asleep' = TRUE
  <2>1. Elapsed' = Elapsed
    BY <1>1, <1>6 DEF Elapsed
  <2> QED BY <1>4, <1>6, <2>1
<1>7. CASE UNCHANGED pc /\ Tick
  <2>1. Elapsed' = Elapsed + 1
    BY <1>1, <1>7 DEF Tick, Elapsed, Waits, Runs, Jobs
  <2>2. box'[s] = Aged(s) /\ late \subseteq late' /\ box[s].state # "missing"
    BY <1>4, <1>7 DEF Tick
  <2>3. box'[s].state # "missing" /\ box'[s].answers = box[s].answers
    BY <1>1, <2>2, AgedBox
  <2>4. ASSUME box'[s].state = "starting", s \notin late', box[s].answers
        PROVE  Elapsed' + box'[s].next < Allowance(s) + Interval(s)
    <3>1. box[s].state \in {"starting", "healthy"} /\ s \notin late
      BY <1>1, <2>2, <2>4 DEF InTime
    <3>2. box[s].state = "starting" /\ box'[s].next = box[s].next - 1
      BY <1>1, <2>2, <2>4, <3>1, AnsweredTick
    <3> QED BY <1>1, <1>3, <1>4, <1>7, <2>1, <2>4, <3>1, <3>2
  <2>5. ASSUME box'[s].state = "starting", s \notin late', ~box[s].answers
        PROVE  Elapsed' <= box'[s].age
    <3>1. /\ s \notin late /\ box[s].state = "starting" /\ box[s].age < Allowance(s)
          /\ FailuresTakeTime(s)
      BY <1>1, <2>2, <2>5 DEF InTime
    <3>2. Aged(s).age # Allowance(s)
      BY <1>7, <2>2, <2>5 DEF Tick
    <3>3. box'[s].age = box[s].age + 1
      BY <1>1, <2>2, <2>5, <3>1, <3>2, SilentTick
    <3> QED BY <1>1, <1>3, <1>4, <1>7, <2>1, <2>5, <3>1, <3>3
  <2> QED BY <2>3, <2>4, <2>5
<1>8. CASE /\ UNCHANGED <<pc, polls, asleep>>
           /\ \E t \in Services : Answer(t) \/ Crash(t) \/ Hang(t)
  <2>1. PICK t \in Services : Answer(t) \/ Crash(t) \/ Hang(t)
    BY <1>8
  <2>2. Elapsed' = Elapsed
    BY <1>8 DEF Elapsed
  <2>3. CASE t # s
    BY <1>1, <1>4, <1>8, <2>1, <2>2, <2>3 DEF Answer, Crash, Hang
  <2>4. CASE t = s /\ Answer(s)
    <3>1. /\ box'[s].state = box[s].state /\ box'[s].answers
          /\ box'[s].next = box[s].next /\ ~box[s].answers /\ UNCHANGED late
      BY <1>1, <2>4 DEF Answer, Boxes
    <3>2. s \notin late /\ box[s].state = "starting" => box[s].age < Allowance(s)
      BY <1>1, <3>1 DEF InTime
    <3> QED BY <1>1, <1>3, <1>4, <1>8, <2>2, <3>1, <3>2
  <2>5. CASE t = s /\ (Crash(s) \/ Hang(s))
    <3>1. s \in late' /\ box'[s].state # "missing"
      BY <1>1, <1>4, <1>8, <2>5, NewBoxType DEF Crash, Hang, Boxes
    <3> QED BY <3>1
  <2> QED BY <2>1, <2>3, <2>4, <2>5
<1> QED BY <1>5, <1>6, <1>7, <1>8, WaitSteps

LEMMA TimingAlways == Spec => [](Types /\ AllInTime /\ WaitedFor)
<1>1. Init => Types /\ AllInTime /\ WaitedFor
  <2>1. Init => AllInTime /\ WaitedFor
    BY NoBoxType DEF Init, AllInTime, InTime, WaitedFor, Waits
  <2> QED BY <2>1, InitTypes
<1> QED BY <1>1, StepTypes, StepInTime, StepWaited, PTL DEF Spec

-----------------------------------------------------------------------------
\* A wait that has made all its polls has outlasted the start-up time.
LEMMA WaitsAreLongEnough ==
  ASSUME NEW s \in Services
  PROVE  Allowance(s) + Interval(s) <= MaxPolls(s)
BY DEF Services, Allowance, Interval, MaxPolls

\* An unhealthy container is late.
LEMMA UnhealthyIsLate ==
  ASSUME AllInTime, NEW s \in Services, box[s].state = "unhealthy"
  PROVE  s \in late
BY DEF AllInTime, InTime

\* The script gives a service up only if it is late or has stopped, although it polls
\* a bounded number of times and looks at statuses that may be an interval old.
THEOREM OnlyLateAreGivenUp == Spec => OnlyTheLateAreGivenUp
<1>1. Types /\ AllInTime /\ WaitedFor /\ [Next]_vars =>
        [Awaited # {} /\ pc' = "failed" /\ UNCHANGED faults => Awaited \cap late # {}]_vars
  <2> SUFFICES ASSUME Types, AllInTime, WaitedFor, Next,
                      Awaited # {}, pc' = "failed", UNCHANGED faults
               PROVE  Awaited \cap late # {}
    OBVIOUS
  <2>1. ~Fault
    BY FaultsAreCounted
  <2>2. pc \in Waits \cup {"storage_deps", "up_api"} \cup Runs
    BY DEF Awaited
  <2>3. Poll \/ StorageDependency \/ UpApi \/ StartJob
    BY <2>1, <2>2 DEF Next, Script, World, Tick, Register, LeaveSafeMode, InitZones, Answer,
       Crash, Hang, Start, Preflight, CleanUp, Build, UpStorage, UpPostgres, Provision,
       Ingest, IngestionEnds, Verify, Process, Load, Exit, CommandFails, script_vars,
       Waits, Runs, Idle, Goto
  <2>4. CASE StorageDependency
    <3>1. box["namenode"].state = "unhealthy" /\ pc = "storage_deps"
      BY <2>4 DEF StorageDependency, AfterDependency, Depends, Goto
    <3> QED BY <3>1, UnhealthyIsLate DEF Awaited, Services, Waits
  <2>5. CASE UpApi
    <3>1. box["postgres"].state = "unhealthy" /\ pc = "up_api"
      BY <2>5 DEF UpApi, AfterDependency, Depends, Goto
    <3> QED BY <3>1, UnhealthyIsLate DEF Awaited, Services, Waits
  <2>6. CASE StartJob
    <3>1. /\ pc \in Runs /\ Depends("namenode")
          /\ pc = "run_loader" => Depends("postgres")
      BY <2>6 DEF StartJob
    <3>2. \/ box["namenode"].state # "healthy"
          \/ pc = "run_loader" /\ box["postgres"].state # "healthy"
      BY <2>6 DEF StartJob, Goto, JobOf, Runs
    <3>3. \E s \in {"namenode", "postgres"} : box[s].state = "unhealthy"
      BY <3>1, <3>2 DEF Depends
    <3>4. Awaited = {"namenode", "postgres"}
      BY <3>1 DEF Awaited, Runs, Waits
    <3> QED BY <3>3, <3>4, UnhealthyIsLate DEF Services
  <2>7. CASE Poll
    <3> DEFINE s == WaitsFor(pc)
    <3>1. s \in Services /\ pc \in Waits /\ Awaited = {s}
      BY <2>7, WaitsForServices DEF Poll, Awaited, Waits, Runs
    <3>2. ~asleep /\ polls + 1 = MaxPolls(s) /\ box[s].state # "healthy"
      BY <2>7 DEF Poll, CountPoll, AfterWait, Goto, Waits
    <3>3. box[s].state # "missing"
      BY <3>1 DEF WaitedFor
    <3> SUFFICES ASSUME s \notin late
                 PROVE  FALSE
      BY <3>1
    <3>4. /\ box[s].state = "starting"
          /\ ~box[s].answers => box[s].age < Allowance(s)
      BY <3>1, <3>2, <3>3 DEF AllInTime, InTime
    <3>5. /\ Elapsed = polls /\ polls \in Nat /\ MaxPolls(s) \in Nat
          /\ Interval(s) \in Nat /\ Interval(s) > 1 /\ Allowance(s) \in Nat
          /\ box[s].next \in Nat /\ box[s].next > 0 /\ box[s].age \in Nat
      BY <3>1, <3>2, <3>3, HealthChecks DEF Types, PollsOK, BoxesOK, Boxes, Elapsed
    <3>6. /\ ~box[s].answers => Elapsed <= box[s].age
          /\ box[s].answers => Elapsed + box[s].next < Allowance(s) + Interval(s)
      BY <3>1, <3>3, <3>4 DEF WaitedFor
    <3>7. Allowance(s) + Interval(s) <= MaxPolls(s)
      BY <3>1, WaitsAreLongEnough
    <3> HIDE DEF s
    <3> QED BY <3>2, <3>4, <3>5, <3>6, <3>7
  <2> QED BY <2>3, <2>4, <2>5, <2>6, <2>7
<1> QED BY <1>1, TimingAlways, PTL DEF Spec, OnlyTheLateAreGivenUp
=============================================================================
