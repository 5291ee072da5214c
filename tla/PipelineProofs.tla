--------------------------- MODULE PipelineProofs ---------------------------
(***************************************************************************)
(* What the pipeline scripts guarantee, for every number of pipelines,     *)
(* batches, attempts and failures.                                         *)
(***************************************************************************)
EXTENDS Pipeline, TLAPS

\* A pipeline is at a step only once the steps before it have exited with 0.
StepsInOrder ==
  \A r \in Runs :
    /\ step[r] = "ingestion" => "ingestion" \notin exited[r]
    /\ step[r] = "processing" => "ingestion" \in exited[r]
    /\ step[r] = "loader" => {"ingestion", "processing"} \subseteq exited[r]

\* A pipeline that was not started yet is at its first step.
FirstIsIngestion == \A r \in Runs : pc[r] = "waiting" => step[r] = "ingestion"

\* Two pipelines that run at the same time have run beside each other.
Alone == \A r, q \in Runs : pc[r] \in Running /\ pc[q] \in Running /\ r # q => r \in beside

\* What is true of the data while pipeline r runs and no other one has run beside it.
Ingested(r) ==
  step[r] # "ingestion" \/ pc[r] = "exit" => \A b \in taken[r] : raw[b] > 0
HasRead(r) ==
  \/ step[r] = "processing" /\ pc[r] \in {"work", "half", "exit"}
  \/ step[r] = "loader"
  => taken[r] \cap Window(r) \subseteq input[r]
Published(r) ==
  /\ step[r] = "processing" /\ pc[r] \in {"half", "exit"} => curated["features"] = Version(r)
  /\ step[r] = "processing" /\ pc[r] = "exit" => curated["recommendations"] = Version(r)
  /\ step[r] = "loader" => \A d \in Tables : curated[d] = Version(r)
Serves(r) ==
  step[r] = "loader" =>
    /\ pc[r] \in {"half", "exit"} => served["recommendations"] = Version(r)
    /\ pc[r] = "exit" => served["features"] = Version(r)

LoneRunsOwnTheData ==
  \A r \in Runs \ beside : pc[r] \in Running =>
    Ingested(r) /\ HasRead(r) /\ Published(r) /\ Serves(r)

IInv ==
  TypeOK /\ StepsInOrder /\ FirstIsIngestion /\ Alone /\ LoneRunsOwnTheData
    /\ AbortsForAReason

-----------------------------------------------------------------------------
LEMMA NextAttemptType ==
  ASSUME TypeOK, NEW r \in Runs, RetryOrAbort(r)
  PROVE  /\ pc' \in [Runs -> Ended \cup Running \cup {"waiting"}]
         /\ step' \in [Runs -> Jobs]
         /\ attempt' \in [Runs -> 1 .. MaxRetries]
<1>1. attempt[r] \in 1 .. MaxRetries /\ Attempts(script[r]) \in 1 .. MaxRetries
  BY SizesAssumption DEF TypeOK, Attempts
<1>2. CASE attempt[r] < Attempts(script[r])
  <2>1. attempt[r] + 1 \in 1 .. MaxRetries
    BY <1>1, <1>2, SizesAssumption
  <2> QED BY <1>2, <2>1 DEF RetryOrAbort, GoTo, TypeOK, Running
<1>3. CASE ~(attempt[r] < Attempts(script[r]))
  BY <1>3 DEF RetryOrAbort, GoTo, TypeOK, Ended
<1> QED BY <1>2, <1>3

LEMMA VersionType == ASSUME TypeOK, NEW r \in Runs PROVE Version(r) \in Versions \ {Nothing}
BY NothingAssumption DEF TypeOK, Version, Versions

LEMMA StepTypeOK == TypeOK /\ [Next]_vars => TypeOK'
<1> SUFFICES ASSUME TypeOK, [Next]_vars
             PROVE  TypeOK'
  OBVIOUS
<1> USE DEF data_vars, run_vars
<1>1. ASSUME NEW r \in Runs, Start(r)
      PROVE  TypeOK'
  <2>1. beside' \subseteq Runs
    BY <1>1 DEF Start, TypeOK
  <2>2. pc' \in [Runs -> Ended \cup Running \cup {"waiting"}]
    BY <1>1 DEF Start, GoTo, TypeOK, Running
  <2> QED BY <1>1, <2>1, <2>2 DEF Start, TypeOK
<1>2. ASSUME NEW r \in Runs, Launch(r)
      PROVE  TypeOK'
  <2>1. pc' \in [Runs -> Ended \cup Running \cup {"waiting"}]
    BY <1>2 DEF Launch, GoTo, TypeOK, Running
  <2>2. taken' \in [Runs -> SUBSET Batches]
    BY <1>2 DEF Launch, TypeOK
  <2>3. input' \in [Runs -> SUBSET Batches]
    BY <1>2, BatchesAssumption DEF Launch, Window, TypeOK
  <2> QED BY <1>2, <2>1, <2>2, <2>3 DEF Launch, TypeOK
<1>3. ASSUME NEW r \in Runs, RejectMode(r) \/ NameTaken(r) \/ NoData(r)
      PROVE  TypeOK'
  <2>1. /\ RetryOrAbort(r)
        /\ UNCHANGED <<source, data_vars, script, exited, taken, input, faults, beside>>
    BY <1>3 DEF RejectMode, NameTaken, NoData
  <2> QED BY <2>1, NextAttemptType DEF TypeOK
<1>4. ASSUME NEW r \in Runs, Ingest(r)
      PROVE  TypeOK'
  <2>1. raw' \in [Batches -> Nat]
    BY <1>4 DEF Ingest, TypeOK
  <2>2. pc' \in [Runs -> Ended \cup Running \cup {"waiting"}]
    BY <1>4 DEF Ingest, GoTo, TypeOK, Running
  <2> QED BY <1>4, <2>1, <2>2 DEF Ingest, TypeOK
<1>5. ASSUME NEW r \in Runs, Process(r)
      PROVE  TypeOK'
  <2>1. curated' \in [Tables -> Versions]
    BY <1>5, VersionType DEF Process, TypeOK
  <2>2. pc' \in [Runs -> Ended \cup Running \cup {"waiting"}]
    BY <1>5 DEF Process, GoTo, TypeOK, Running
  <2> QED BY <1>5, <2>1, <2>2 DEF Process, TypeOK
<1>6. ASSUME NEW r \in Runs, Load(r)
      PROVE  TypeOK'
  <2>1. served' \in [Tables -> Versions]
    BY <1>6 DEF Load, LoadTable, TypeOK, Tables
  <2>2. pc' \in [Runs -> Ended \cup Running \cup {"waiting"}]
    BY <1>6 DEF Load, LoadTable, GoTo, TypeOK, Running
  <2> QED BY <1>6, <2>1, <2>2 DEF Load, TypeOK
<1>7. ASSUME NEW r \in Runs, Exit(r)
      PROVE  TypeOK'
  <2>1. exited' \in [Runs -> SUBSET Jobs]
    BY <1>7 DEF Exit, TypeOK
  <2>2. pc' \in [Runs -> Ended \cup Running \cup {"waiting"}]
    BY <1>7 DEF Exit, GoTo, TypeOK, Running, Ended
  <2>3. step' \in [Runs -> Jobs] /\ attempt' \in [Runs -> 1 .. MaxRetries]
    BY <1>7, SizesAssumption DEF Exit, TypeOK, NextJob, Jobs
  <2> QED BY <1>7, <2>1, <2>2, <2>3 DEF Exit, TypeOK
<1>8. ASSUME NEW r \in Runs, Fault(r)
      PROVE  TypeOK'
  <2>1. /\ RetryOrAbort(r) /\ BrokenOff(r)
        /\ UNCHANGED <<source, script, exited, taken, input, beside>>
    BY <1>8 DEF Fault
  <2>2. faults' \in 0 .. MaxFaults
    BY <1>8, SizesAssumption DEF Fault, TypeOK
  <2>3. raw' \in [Batches -> Nat]
    BY <2>1 DEF BrokenOff, TypeOK
  <2>4. curated' \in [Tables -> Versions] /\ served' \in [Tables -> Versions]
    BY <2>1 DEF BrokenOff, TypeOK, Versions
  <2> QED BY <2>1, <2>2, <2>3, <2>4, NextAttemptType DEF TypeOK
<1>9. ASSUME NEW b \in Batches, Arrive(b)
      PROVE  TypeOK'
  BY <1>9 DEF Arrive, TypeOK
<1>10. CASE UNCHANGED vars
  BY <1>10 DEF vars, TypeOK
<1> QED BY <1>1, <1>2, <1>3, <1>4, <1>5, <1>6, <1>7, <1>8, <1>9, <1>10 DEF Next, Progress

-----------------------------------------------------------------------------
\* The places of the pipelines that take no step do not change.
LEMMA OthersStay ==
  ASSUME TypeOK, NEW r \in Runs, Start(r) \/ Progress(r) \/ Fault(r)
  PROVE  \A q \in Runs \ {r} :
           /\ pc'[q] = pc[q] /\ step'[q] = step[q] /\ exited'[q] = exited[q]
           /\ taken'[q] = taken[q] /\ input'[q] = input[q]
BY DEF TypeOK, Start, Progress, Fault, Launch, RejectMode, NameTaken, Ingest, Process,
       Load, LoadTable, NoData, Exit, RetryOrAbort, GoTo, run_vars, data_vars

LEMMA StepStepsInOrder == TypeOK /\ StepsInOrder /\ [Next]_vars => StepsInOrder'
<1> SUFFICES ASSUME TypeOK, StepsInOrder, [Next]_vars
             PROVE  StepsInOrder'
  OBVIOUS
<1> USE DEF data_vars, run_vars
<1>1. ASSUME NEW r \in Runs, Exit(r)
      PROVE  StepsInOrder'
  <2>1. exited'[r] = exited[r] \cup {step[r]}
    BY <1>1 DEF Exit, TypeOK
  <2>2. step[r] \in Jobs /\ step'[r] = IF step[r] = "loader" THEN "loader" ELSE NextJob(step[r])
    BY <1>1 DEF Exit, TypeOK
  <2>3. \A q \in Runs \ {r} : step'[q] = step[q] /\ exited'[q] = exited[q]
    BY <1>1, OthersStay DEF Progress
  <2>4. /\ step'[r] # "ingestion"
        /\ step'[r] = "processing" => "ingestion" \in exited'[r]
        /\ step'[r] = "loader" => {"ingestion", "processing"} \subseteq exited'[r]
    BY <2>1, <2>2 DEF Jobs, NextJob, StepsInOrder
  <2> QED BY <2>3, <2>4 DEF StepsInOrder
<1>2. ASSUME NEW r \in Runs, Start(r) \/ Fault(r) \/ (Progress(r) /\ ~Exit(r))
      PROVE  UNCHANGED <<step, exited>>
  BY <1>2 DEF Start, Fault, Progress, Launch, RejectMode, NameTaken, Ingest, Process, Load,
              NoData, RetryOrAbort
<1>3. ASSUME (\E b \in Batches : Arrive(b)) \/ UNCHANGED vars
      PROVE  UNCHANGED <<step, exited>>
  BY <1>3 DEF Arrive, vars
<1> QED BY <1>1, <1>2, <1>3 DEF Next, StepsInOrder

LEMMA StepFirst == TypeOK /\ FirstIsIngestion /\ [Next]_vars => FirstIsIngestion'
<1> SUFFICES ASSUME TypeOK, FirstIsIngestion, [Next]_vars
             PROVE  FirstIsIngestion'
  OBVIOUS
<1> USE DEF data_vars, run_vars
<1>1. ASSUME NEW r \in Runs, Start(r) \/ Progress(r) \/ Fault(r)
      PROVE  FirstIsIngestion'
  <2>1. pc'[r] # "waiting"
    BY <1>1 DEF TypeOK, Start, Progress, Fault, Launch, RejectMode, NameTaken, Ingest, Process,
                Load, LoadTable, NoData, Exit, RetryOrAbort, GoTo
  <2> QED BY <1>1, <2>1, OthersStay DEF FirstIsIngestion
<1>2. CASE (\E b \in Batches : Arrive(b)) \/ UNCHANGED vars
  BY <1>2 DEF Arrive, vars, FirstIsIngestion
<1> QED BY <1>1, <1>2 DEF Next

LEMMA StepAlone == TypeOK /\ Alone /\ [Next]_vars => Alone'
<1> SUFFICES ASSUME TypeOK, Alone, [Next]_vars
             PROVE  Alone'
  OBVIOUS
<1> USE DEF data_vars, run_vars
<1>1. ASSUME NEW r \in Runs, Start(r)
      PROVE  Alone'
  <2>1. \A q \in Runs \ {r} : pc'[q] = pc[q]
    BY <1>1, OthersStay
  <2>2. beside \subseteq beside'
    BY <1>1 DEF Start
  <2>3. \A q \in Runs \ {r} : pc[q] \in Running => r \in beside' /\ q \in beside'
    BY <1>1 DEF Start
  <2> QED BY <2>1, <2>2, <2>3 DEF Alone
<1>2. ASSUME NEW r \in Runs, Progress(r) \/ Fault(r)
      PROVE  Alone'
  <2>1. pc[r] \in Running /\ beside' = beside
    BY <1>2 DEF Fault, Progress, Launch, RejectMode, NameTaken, Ingest, Process, Load, NoData,
                Exit, Running
  <2>2. \A q \in Runs \ {r} : pc'[q] = pc[q]
    BY <1>2, OthersStay
  <2> QED BY <2>1, <2>2 DEF Alone
<1>3. CASE (\E b \in Batches : Arrive(b)) \/ UNCHANGED vars
  BY <1>3 DEF Arrive, vars, Alone
<1> QED BY <1>1, <1>2, <1>3 DEF Next

-----------------------------------------------------------------------------
\* A step of a pipeline that has run alone so far, seen by itself.
LEMMA LoneRunStep ==
  ASSUME TypeOK, TypeOK', StepsInOrder,
         NEW r \in Runs, Progress(r) \/ Fault(r), pc'[r] \in Running,
         Ingested(r), HasRead(r), Published(r), Serves(r)
  PROVE  Ingested(r)' /\ HasRead(r)' /\ Published(r)' /\ Serves(r)'
<1> USE DEF data_vars, run_vars
<1>s. step[r] \in Jobs /\ script' = script
  BY DEF TypeOK, Progress, Fault, Launch, RejectMode, NameTaken, Ingest, Process, Load,
         NoData, Exit
<1>w. Window(r)' = Window(r)
  BY <1>s DEF Window
<1>1. CASE RejectMode(r) \/ NameTaken(r) \/ NoData(r) \/ Fault(r)
  <2>1. /\ pc'[r] = "launch" /\ step' = step
        /\ UNCHANGED <<taken, input>>
    BY <1>1 DEF RejectMode, NameTaken, NoData, Fault, RetryOrAbort, GoTo, TypeOK, Running,
                Ended
  <2>2. step[r] # "ingestion" => raw' = raw
    BY <1>1 DEF RejectMode, NameTaken, NoData, Fault, BrokenOff
  <2>3. step[r] = "loader" => curated' = curated
    BY <1>1 DEF RejectMode, NameTaken, NoData, Fault, BrokenOff
  <2>4. Ingested(r)'
    BY <2>1, <2>2 DEF Ingested
  <2>5. HasRead(r)'
    BY <1>w, <2>1 DEF HasRead
  <2>6. Published(r)' /\ Serves(r)'
    BY <2>1, <2>3 DEF Published, Serves, Version
  <2> QED BY <2>4, <2>5, <2>6
<1>2. CASE Launch(r)
  <2>1. /\ pc[r] = "launch" /\ pc'[r] = "work"
        /\ UNCHANGED <<raw, curated, served, step>>
        /\ step[r] # "ingestion" => taken' = taken
        /\ step[r] # "processing" => input' = input
    BY <1>2 DEF Launch, GoTo, TypeOK
  <2>2. step[r] = "processing" => input'[r] = {b \in Window(r) : raw[b] > 0}
    BY <1>2 DEF Launch, TypeOK
  <2>3. Ingested(r)'
    BY <2>1 DEF Ingested
  <2>4. HasRead(r)'
    BY <1>w, <2>1, <2>2 DEF HasRead, Ingested
  <2>5. Published(r)' /\ Serves(r)'
    BY <2>1 DEF Published, Serves, Version
  <2> QED BY <2>3, <2>4, <2>5
<1>3. CASE Ingest(r)
  <2>1. /\ step[r] = "ingestion" /\ step' = step
        /\ UNCHANGED <<taken, input>>
    BY <1>3 DEF Ingest
  <2>2. \A b \in taken[r] : raw'[b] > 0
    BY <1>3 DEF Ingest, TypeOK
  <2> QED BY <2>1, <2>2 DEF Ingested, HasRead, Published, Serves
<1>4. CASE Process(r)
  <2>1. /\ step[r] = "processing" /\ step' = step
        /\ UNCHANGED <<raw, served, taken, input>>
        /\ pc[r] \in {"work", "half"}
    BY <1>4 DEF Process
  <2>2. pc[r] = "work" => pc'[r] = "half" /\ curated'["features"] = Version(r)
    BY <1>4 DEF Process, GoTo, TypeOK, Tables
  <2>3. pc[r] = "half" =>
          /\ pc'[r] = "exit"
          /\ curated'["features"] = curated["features"]
          /\ curated'["recommendations"] = Version(r)
    BY <1>4 DEF Process, GoTo, TypeOK, Tables
  <2>4. Ingested(r)' /\ HasRead(r)' /\ Serves(r)'
    BY <1>w, <2>1 DEF Ingested, HasRead, Serves
  <2>5. Published(r)'
    BY <2>1, <2>2, <2>3 DEF Published, Version
  <2> QED BY <2>4, <2>5
<1>5. CASE Load(r)
  <2>1. /\ step[r] = "loader" /\ step' = step
        /\ UNCHANGED <<raw, curated, taken, input>>
        /\ pc[r] \in {"work", "half"}
    BY <1>5 DEF Load, LoadTable
  <2>2. pc[r] = "work" =>
          pc'[r] = "half" /\ served'["recommendations"] = curated["recommendations"]
    BY <1>5 DEF Load, LoadTable, GoTo, TypeOK, Tables
  <2>3. pc[r] = "half" =>
          /\ pc'[r] = "exit"
          /\ served'["recommendations"] = served["recommendations"]
          /\ served'["features"] = curated["features"]
    BY <1>5 DEF Load, LoadTable, GoTo, TypeOK, Tables
  <2>4. Ingested(r)' /\ HasRead(r)' /\ Published(r)'
    BY <1>w, <2>1 DEF Ingested, HasRead, Published, Version
  <2>5. Serves(r)'
    BY <2>1, <2>2, <2>3 DEF Serves, Published, Version, Tables
  <2> QED BY <2>4, <2>5
<1>6. CASE Exit(r)
  <2>1. /\ pc[r] = "exit" /\ step[r] \in {"ingestion", "processing"} /\ pc'[r] = "launch"
        /\ step'[r] = NextJob(step[r])
        /\ UNCHANGED <<raw, curated, served, taken, input>>
    BY <1>6, <1>s DEF Exit, GoTo, TypeOK, Jobs, Running
  <2>2. Ingested(r)'
    BY <2>1 DEF Ingested
  <2>3. HasRead(r)'
    BY <1>w, <2>1 DEF HasRead, NextJob
  <2>4. Published(r)' /\ Serves(r)'
    BY <2>1 DEF Published, Serves, NextJob, Version, Tables
  <2> QED BY <2>2, <2>3, <2>4
<1> QED BY <1>1, <1>2, <1>3, <1>4, <1>5, <1>6 DEF Progress

LEMMA StepLoneRuns ==
  TypeOK /\ TypeOK' /\ StepsInOrder /\ FirstIsIngestion /\ Alone /\ LoneRunsOwnTheData
    /\ [Next]_vars => LoneRunsOwnTheData'
<1> SUFFICES ASSUME TypeOK, TypeOK', StepsInOrder, FirstIsIngestion, Alone,
                    LoneRunsOwnTheData, [Next]_vars,
                    NEW r \in Runs \ beside', pc'[r] \in Running
             PROVE  Ingested(r)' /\ HasRead(r)' /\ Published(r)' /\ Serves(r)'
  BY DEF LoneRunsOwnTheData
<1> USE DEF data_vars, run_vars
<1>b. r \notin beside
  BY DEF Next, Start, Progress, Fault, Launch, RejectMode, NameTaken, Ingest, Process, Load,
         NoData, Exit, Arrive, vars
<1>1. CASE Start(r)
  <2>1. pc'[r] = "launch" /\ step' = step /\ step[r] = "ingestion"
    BY <1>1 DEF Start, GoTo, TypeOK, FirstIsIngestion
  <2> QED BY <2>1 DEF Ingested, HasRead, Published, Serves
<1>2. CASE Progress(r) \/ Fault(r)
  <2>1. pc[r] \in Running
    BY <1>2 DEF Fault, Progress, Launch, RejectMode, NameTaken, Ingest, Process, Load, NoData,
                Exit, Running
  <2>2. Ingested(r) /\ HasRead(r) /\ Published(r) /\ Serves(r)
    BY <1>b, <2>1 DEF LoneRunsOwnTheData
  <2> QED BY <1>2, <2>2, LoneRunStep
<1>3. ASSUME NEW q \in Runs \ {r}, Start(q) \/ Progress(q) \/ Fault(q)
      PROVE  FALSE
  <2>1. pc[r] \in Running
    BY <1>3, OthersStay
  <2>2. CASE Start(q)
    BY <2>1, <2>2, <1>3 DEF Start
  <2>3. CASE Progress(q) \/ Fault(q)
    <3>1. pc[q] \in Running
      BY <2>3 DEF Fault, Progress, Launch, RejectMode, NameTaken, Ingest, Process, Load,
                  NoData, Exit, Running
    <3> QED BY <1>b, <1>3, <2>1, <3>1 DEF Alone
  <2> QED BY <1>3, <2>2, <2>3
<1>4. CASE (\E b \in Batches : Arrive(b)) \/ UNCHANGED vars
  <2>1. UNCHANGED <<data_vars, run_vars, beside>>
    BY <1>4 DEF Arrive, vars
  <2>2. Ingested(r) /\ HasRead(r) /\ Published(r) /\ Serves(r)
    BY <1>b, <2>1 DEF LoneRunsOwnTheData
  <2> QED BY <2>1, <2>2 DEF Ingested, HasRead, Published, Serves, Version, Window
<1> QED BY <1>1, <1>2, <1>3, <1>4 DEF Next

\* A pipeline that ran alone and met no failure aborts only when its ingestion has
\* read no batch of the window.
LEMMA StepAborts ==
  IInv /\ TypeOK' /\ [Next]_vars => AbortsForAReason'
<1> SUFFICES ASSUME IInv, TypeOK', [Next]_vars
             PROVE  AbortsForAReason'
  OBVIOUS
<1>n. faults' = 0 \/ faults' > 0
  BY SizesAssumption DEF TypeOK
<1> SUFFICES ASSUME NEW r \in Runs, pc'[r] = "aborted", script'[r] # "initial",
                    faults' = 0, r \notin beside'
             PROVE  taken'[r] \cap Window(r)' = {}
  BY <1>n DEF AbortsForAReason
<1> USE DEF data_vars, run_vars
<1>t. TypeOK
  BY DEF IInv
<1>s. script' = script
  BY DEF Next, Start, Progress, Fault, Launch, RejectMode, NameTaken, Ingest, Process, Load,
         NoData, Exit, Arrive, vars
<1>w. Window(r)' = Window(r)
  BY <1>s DEF Window
<1>f. faults = 0
  <2>1. faults' = faults \/ (faults' = faults + 1 /\ faults \in Nat)
    BY <1>t DEF TypeOK, Next, Start, Progress, Fault, Launch, RejectMode, NameTaken, Ingest,
                Process, Load, NoData, Exit, Arrive, vars
  <2> QED BY <2>1
<1>b. r \notin beside
  BY DEF Next, Start, Progress, Fault, Launch, RejectMode, NameTaken, Ingest, Process, Load,
         NoData, Exit, Arrive, vars
<1>1. CASE pc[r] = "aborted"
  <2>1. taken[r] \cap Window(r) = {}
    BY <1>1, <1>s, <1>f, <1>b DEF IInv, AbortsForAReason
  <2>2. taken'[r] = taken[r]
    <3>1. ASSUME NEW q \in Runs, Start(q) \/ Progress(q) \/ Fault(q)
          PROVE  taken'[r] = taken[r]
      <4>1. q # r
        BY <1>1, <3>1 DEF Start, Fault, Progress, Launch, RejectMode, NameTaken, Ingest,
                          Process, Load, NoData, Exit, Running
      <4> QED BY <1>t, <3>1, <4>1, OthersStay
    <3>2. CASE (\E b \in Batches : Arrive(b)) \/ UNCHANGED vars
      BY <3>2 DEF Arrive, vars
    <3> QED BY <3>1, <3>2 DEF Next
  <2> QED BY <1>w, <2>1, <2>2
<1>2. CASE pc[r] # "aborted"
  <2>1. RejectMode(r) \/ NameTaken(r) \/ NoData(r)
    <3>1. ASSUME NEW q \in Runs \ {r}, Start(q) \/ Progress(q) \/ Fault(q)
          PROVE  FALSE
      BY <1>t, <1>2, <3>1, OthersStay
    <3>2. ~Start(r) /\ ~Launch(r) /\ ~Ingest(r) /\ ~Process(r) /\ ~Load(r) /\ ~Exit(r)
      BY <1>t DEF Start, Launch, Ingest, Process, Load, LoadTable, Exit, GoTo, TypeOK
    <3>3. ~Fault(r)
      BY <1>f DEF Fault
    <3>4. ~((\E b \in Batches : Arrive(b)) \/ UNCHANGED vars)
      BY <1>2 DEF Arrive, vars
    <3> QED BY <3>1, <3>2, <3>3, <3>4 DEF Next, Progress
  <2>2. ~RejectMode(r)
    <3>1. script[r] \in {"daily", "bootstrap"}
      BY <1>s, <1>t, ScriptsAssumption DEF TypeOK
    <3>2. step[r] \in Jobs
      BY <1>t DEF TypeOK
    <3> QED BY <3>1, <3>2 DEF RejectMode, Accepts, Mode, Jobs
  <2>3. ~NameTaken(r)
    <3>1. ASSUME NameTaken(r)
          PROVE  FALSE
      <4>1. PICK q \in Runs \ {r} : pc[q] \in Running \ {"launch"}
        BY <3>1 DEF NameTaken
      <4>2. pc[r] \in Running
        BY <3>1 DEF NameTaken, Running
      <4> QED BY <1>b, <4>1, <4>2 DEF IInv, Alone
    <3> QED BY <3>1
  <2>4. NoData(r)
    BY <2>1, <2>2, <2>3
  <2>5. pc[r] \in Running /\ Ingested(r) /\ HasRead(r) /\ Published(r)
    BY <1>b, <2>4 DEF NoData, Running, IInv, LoneRunsOwnTheData
  <2>6. step[r] = "processing" /\ pc[r] = "work" /\ input[r] = {}
    BY <1>t, <2>4, <2>5, VersionType DEF NoData, Published, Tables
  <2>7. taken'[r] = taken[r]
    BY <2>4 DEF NoData
  <2> QED BY <1>w, <2>5, <2>6, <2>7 DEF HasRead
<1> QED BY <1>1, <1>2

LEMMA IInvAlways == Spec => []IInv
<1>1. Init => IInv
  <2> SUFFICES ASSUME Init
               PROVE  IInv
    OBVIOUS
  <2> USE DEF Init
  <2>1. TypeOK
    BY SizesAssumption DEF TypeOK, Versions, Jobs, Running, Ended
  <2>2. \A r \in Runs : pc[r] = "waiting" /\ step[r] = "ingestion" /\ exited[r] = {}
    OBVIOUS
  <2> QED BY <2>1, <2>2 DEF IInv, StepsInOrder, FirstIsIngestion, Alone, LoneRunsOwnTheData,
                      AbortsForAReason, Running
<1>2. IInv /\ [Next]_vars => IInv'
  BY StepTypeOK, StepStepsInOrder, StepFirst, StepAlone, StepLoneRuns, StepAborts DEF IInv
<1> QED BY <1>1, <1>2, PTL DEF Spec

\* Type correctness: in particular no step has more than MaxRetries attempts.
THEOREM TypeCorrect == Spec => []TypeOK
BY IInvAlways, PTL DEF IInv

\* Side by side or not, and after any retries: a pipeline touches the served tables
\* only when its own ingestion and processing have succeeded.
THEOREM FailsFast == Spec => FailFast
<1>1. IInv /\ [Next]_vars =>
        [served' # served => \E r \in Runs :
           step[r] = "loader" /\ {"ingestion", "processing"} \subseteq exited[r]]_vars
  <2> SUFFICES ASSUME IInv, Next, served' # served
               PROVE  \E r \in Runs :
                        step[r] = "loader" /\ {"ingestion", "processing"} \subseteq exited[r]
    BY DEF vars, data_vars
  <2>1. PICK r \in Runs : Start(r) \/ Progress(r) \/ Fault(r)
    BY DEF Next, Arrive, data_vars
  <2>2. step[r] = "loader"
    BY <2>1 DEF Start, Progress, Fault, BrokenOff, Launch, RejectMode, NameTaken, Ingest,
                Process, Load, NoData, Exit, data_vars
  <2> QED BY <2>2 DEF IInv, StepsInOrder
<1> QED BY <1>1, IInvAlways, PTL DEF Spec, FailFast

\* The retries hide no failure and invent none: without a failure, another pipeline
\* or an empty window no pipeline aborts.
THEOREM NeverAbortsForNothing == Spec => []AbortsForAReason
BY IInvAlways, PTL DEF IInv

\* A completed pipeline that ran alone has served its own batches, whatever failed
\* and was repeated on the way.
THEOREM CompletionMeansServed == Spec => DoneMeansServed
<1> DEFINE Served == \A r \in Runs \ beside : pc[r] # "done" /\ pc'[r] = "done" =>
                       /\ served["recommendations"] = Version(r)
                       /\ served["features"] = Version(r)
                       /\ taken[r] \cap Window(r) \subseteq input[r]
<1>1. IInv /\ [Next]_vars => [Served]_vars
  <2> SUFFICES ASSUME IInv, Next, NEW r \in Runs \ beside, pc[r] # "done", pc'[r] = "done"
               PROVE  /\ served["recommendations"] = Version(r)
                      /\ served["features"] = Version(r)
                      /\ taken[r] \cap Window(r) \subseteq input[r]
    BY DEF vars
  <2>t. TypeOK
    BY DEF IInv
  <2>1. Exit(r) /\ step[r] = "loader" /\ pc[r] = "exit"
    <3>1. ASSUME NEW q \in Runs \ {r}, Start(q) \/ Progress(q) \/ Fault(q)
          PROVE  FALSE
      BY <2>t, <3>1, OthersStay
    <3>2. \A b \in Batches : ~Arrive(b)
      BY DEF Arrive, run_vars
    <3>3. ~Start(r) /\ ~Launch(r) /\ ~Ingest(r) /\ ~Process(r) /\ ~Load(r)
      BY <2>t DEF Start, Launch, Ingest, Process, Load, LoadTable, GoTo, TypeOK
    <3>4. ~RejectMode(r) /\ ~NameTaken(r) /\ ~NoData(r) /\ ~Fault(r)
      BY <2>t DEF RejectMode, NameTaken, NoData, Fault, RetryOrAbort, GoTo, TypeOK
    <3>5. Exit(r)
      BY <3>1, <3>2, <3>3, <3>4 DEF Next, Progress
    <3> QED BY <2>t, <3>5 DEF Exit, GoTo, TypeOK
  <2>2. HasRead(r) /\ Serves(r)
    BY <2>1 DEF IInv, LoneRunsOwnTheData, Running
  <2> QED BY <2>1, <2>2 DEF HasRead, Serves
<1> QED BY <1>1, IInvAlways, PTL DEF Spec, DoneMeansServed
=============================================================================
