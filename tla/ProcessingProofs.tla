-------------------------- MODULE ProcessingProofs --------------------------
(***************************************************************************)
(* Proofs about Processing for every set of raw files, any number of part  *)
(* files, runs, days and retries, and every configuration; and, in the     *)
(* second half, about what Features computes, for every table of           *)
(* interactions and questions; and, last, that the row counts by which     *)
(* Processing judges a run are those that Features computes.               *)
(*                                                                         *)
(* The inductive invariant of Processing has three layers: Control (types  *)
(* and control flow), Fresh (what a run has written so far) and Order      *)
(* (what later datasets can be while earlier ones are replaced).  With     *)
(* OneInput, what is of a run is of the files it listed, it carries the    *)
(* refinement: Processing implements CuratedZone.  The invariant of        *)
(* Features says only that each dataframe stays what was computed from the *)
(* one before it: the rest are facts about the operators.  The prover has  *)
(* no induction over data, so it is made of a smallest counterexample:     *)
(* from it come the value of a fold, fractions that are equal only if they *)
(* are the same, the Cauchy-Schwarz inequality of dot products (cosines    *)
(* are at most 1), and what doubling a table does to each column.          *)
(***************************************************************************)
EXTENDS Processing, Features, FiniteSetTheorems, SequenceTheorems,
        WellFoundedInduction, TLAPS

BeforeWrite == {"intake", "compute", "quality"}
InAttempt   == {"attempt", "job"}

\* Where control may be, and what the write loop's variables mean there.
ControlInv ==
  /\ pc \in BeforeWrite => written = {} /\ \A d \in Datasets : tries[d] = 0
  /\ pc \in InAttempt =>
       /\ target \notin written
       /\ tries[target] >= 1
       /\ \A d \in Datasets : <<d, target>> \in Before => d \in written
  /\ pc \in {"lineage", "done"} => written = Datasets
  /\ \A d \in Datasets \ written :
       pc \in Running /\ ~(pc \in InAttempt /\ d = target) => tries[d] <= MaxRetries
  /\ \A d, e \in Datasets : <<d, e>> \in Before /\ tries[e] > 0 => d \in written
  /\ pc \in Running \ BeforeWrite => QualityOk

Control == TypeOK /\ ControlInv

\* What a run has written is whole and comes from the files it listed; what it is
\* writing comes from them, too.
FreshInv ==
  /\ \A d \in written : Whole(d) /\ curated[d].run = runs /\ curated[d].input = seen
  /\ pc = "job" => curated[target].run = runs /\ curated[target].input = seen

\* No dataset comes from a later run, and one the running container has not come to
\* comes from an earlier run.
OrderInv ==
  /\ PublicationOrder
  /\ \A d \in Datasets : curated[d].run <= runs
  /\ pc \in Running => \A d \in Datasets : tries[d] = 0 => curated[d].run < runs

IInv == Control /\ FreshInv /\ OrderInv

-----------------------------------------------------------------------------
\* The initial states satisfy the control layer.
LEMMA InitControl == Init => Control
<1> SUFFICES ASSUME Init PROVE Control
  OBVIOUS
<1>1. TypeOK
  BY ConfigAssumption DEF Init, TypeOK, Nothing, Datasets, Ended
<1>2. ControlInv
  BY DEF Init, ControlInv, BeforeWrite, InAttempt, Running
<1> QED
  BY <1>1, <1>2 DEF Control

\* Files that come and go, and days that pass, leave a run as it is.
LEMMA ControlEnvironment == Control /\ Environment => Control'
<1> SUFFICES ASSUME Control, Environment PROVE Control'
  OBVIOUS
<1>1. UNCHANGED <<runs, pc, mode, seen, written, target, tries, curated>>
  BY DEF Environment, RawAppended, RawOverwritten, Tick, run_vars, write_vars
<1>2. TypeOK'
  BY <1>1, ConfigAssumption
  DEF Control, TypeOK, Environment, RawAppended, RawOverwritten, Tick
<1>3. ControlInv'
  BY <1>1 DEF Control, ControlInv, QualityOk, RowCount
<1> QED
  BY <1>2, <1>3 DEF Control

\* Every step preserves types and control flow.
LEMMA ControlStep == Control /\ [Next]_vars => Control'
<1> SUFFICES ASSUME Control, [Next]_vars PROVE Control'
  OBVIOUS
<1> USE ConfigAssumption
    DEF Control, TypeOK, ControlInv, env_vars, run_vars, write_vars, vars, Ended,
        Running, BeforeWrite, InAttempt
<1>1. ASSUME NEW m \in {"initial", "incremental"}, Start(m) PROVE Control'
  <2>1. TypeOK'
    BY <1>1 DEF Start
  <2>2. ControlInv'
    BY <1>1 DEF Start
  <2> QED BY <2>1, <2>2
<1>2. ASSUME NEW readable \in BOOLEAN, ReadRaw(readable) PROVE Control'
  <2>1. TypeOK'
    BY <1>2 DEF ReadRaw, Of
  <2>2. ControlInv'
    BY <1>2 DEF ReadRaw
  <2> QED BY <2>1, <2>2
<1>3. CASE Compute
  BY <1>3 DEF Compute
<1>4. CASE ValidateQuality
  BY <1>4 DEF ValidateQuality, QualityOk, RowCount
<1>5. ASSUME NEW d \in Datasets, BeginWrite(d) PROVE Control'
  <2>1. d \notin written /\ tries[d] <= MaxRetries
    BY <1>5 DEF BeginWrite, Turn
  <2>2. TypeOK'
    BY <1>5, <2>1 DEF BeginWrite
  <2>3. ControlInv'
    BY <1>5, <2>1 DEF BeginWrite, Turn, QualityOk, RowCount
  <2> QED BY <2>2, <2>3
<1>6. CASE StartJob
  BY <1>6 DEF StartJob, QualityOk, RowCount
<1>7. ASSUME NEW p \in Parts, PublishPart(p) PROVE Control'
  BY <1>7 DEF PublishPart, QualityOk, RowCount
<1>8. CASE FinishWrite
  BY <1>8 DEF FinishWrite, QualityOk, RowCount
<1>9. CASE RecordTarget
  BY <1>9 DEF RecordTarget, QualityOk, RowCount
<1>10. CASE SaveLineage
  BY <1>10 DEF SaveLineage
<1>11. CASE TransientFailure
  BY <1>11 DEF TransientFailure, RetriesLeft, QualityOk, RowCount
<1>12. ASSUME NEW how \in {"failed", "killed"}, Stop(how) PROVE Control'
  BY <1>12 DEF Stop
<1>13. CASE Environment
  BY <1>13, ControlEnvironment
<1>14. CASE UNCHANGED vars
  BY <1>14 DEF QualityOk, RowCount
<1> QED
  BY <1>1, <1>2, <1>3, <1>4, <1>5, <1>6, <1>7, <1>8, <1>9, <1>10, <1>11, <1>12,
     <1>13, <1>14 DEF Next, Progress, Write

\* The control layer is invariant.
LEMMA ControlAlways == Spec => []Control
BY InitControl, ControlStep, PTL DEF Spec

\* Type correctness, for every set of raw files and any number of runs and retries:
\* no dataset is attempted more than max_retries + 1 times in a run.
THEOREM TypeCorrect == Spec => []TypeOK
<1>1. Control => TypeOK
  BY DEF Control
<1> QED
  BY <1>1, ControlAlways, PTL

\* Only the steps of a write touch the curated zone.
LEMMA OnlyWritesChangeCurated ==
  [Next]_vars /\ curated' # curated => pc \in {"attempt", "job"}
BY DEF Next, Progress, Write, Environment, vars, env_vars, run_vars, write_vars,
       Start, ReadRaw, Compute, ValidateQuality, BeginWrite, StartJob, PublishPart,
       FinishWrite, RecordTarget, SaveLineage, TransientFailure, Stop, RawAppended,
       RawOverwritten, Tick

\* Nothing in the curated zone is deleted or replaced by a run unless each of its
\* datasets has rows enough.
THEOREM GateHolds == Spec => PublicationIsGated
<1> DEFINE Gated == curated' # curated =>
             /\ Cardinality(Students(seen)) >= MinRowCount
             /\ RowCount("recommendations_batch", seen) >= MinRowCount
<1>1. Control /\ [Next]_vars => [Gated]_vars
  <2> SUFFICES ASSUME Control, [Next]_vars, curated' # curated
               PROVE  /\ Cardinality(Students(seen)) >= MinRowCount
                      /\ RowCount("recommendations_batch", seen) >= MinRowCount
    OBVIOUS
  <2>1. pc \in {"attempt", "job"}
    BY OnlyWritesChangeCurated
  <2>2. QualityOk
    BY <2>1 DEF Control, ControlInv, Running, BeforeWrite
  <2>3. RowCount("aggregated_student_features", seen) = Cardinality(Students(seen))
    BY DEF RowCount
  <2> QED
    BY <2>2, <2>3 DEF QualityOk, Datasets
<1> QED
  BY <1>1, ControlAlways, PTL DEF Spec, PublicationIsGated

-----------------------------------------------------------------------------
\* The initial states satisfy the two other layers.
LEMMA InitFreshOrder == Init => FreshInv /\ OrderInv
BY ConfigAssumption
DEF Init, FreshInv, OrderInv, PublicationOrder, Nothing, Running, Datasets, Whole

\* A step that leaves the curated zone and the run's bookkeeping alone preserves
\* them both, unless it starts a job.
LEMMA FreshOrderFrame ==
  ASSUME FreshInv, OrderInv, UNCHANGED <<runs, seen, written, target, curated>>,
         \A d \in Datasets : tries'[d] = 0 => tries[d] = 0,
         pc' = "job" => pc = "job", pc' \in Running => pc \in Running
  PROVE  FreshInv' /\ OrderInv'
<1>1. FreshInv'
  BY DEF FreshInv, Whole
<1>2. OrderInv'
  BY DEF OrderInv, PublicationOrder, Whole
<1> QED
  BY <1>1, <1>2

\* Overwriting a dataset: those before it are written already, those after it have
\* not been tried and come from an earlier run.
LEMMA FreshOrderStartJob ==
  ASSUME Control, FreshInv, OrderInv, StartJob
  PROVE  FreshInv' /\ OrderInv'
<1> USE ConfigAssumption
    DEF Control, TypeOK, StartJob, Running, InAttempt, run_vars, write_vars, env_vars
<1>1. target \in Datasets \ written /\ tries[target] >= 1
  BY DEF ControlInv
<1>2. /\ \A d \in Datasets \ {target} : curated'[d] = curated[d]
      /\ curated'[target] = [parts |-> {}, run |-> runs, input |-> seen]
  OBVIOUS
<1>3. FreshInv'
  BY <1>1, <1>2 DEF FreshInv, Whole
<1>4. PublicationOrder'
  <2> SUFFICES ASSUME NEW d \in Datasets, NEW e \in Datasets,
                      <<d, e>> \in { <<"aggregated_student_features", "user_vectors">>,
                                     <<"user_vectors", "recommendations_batch">> }
               PROVE  /\ curated'[d].run >= curated'[e].run
                      /\ Whole(e)' /\ curated'[d].run = curated'[e].run =>
                           Whole(d)' /\ curated'[d].input = curated'[e].input
    BY DEF PublicationOrder
  <2>1. <<d, e>> \in Before /\ d # e
    BY DEF Before
  <2>2. CASE target = e
    <3>1. d \in written
      BY <2>1, <2>2 DEF ControlInv
    <3>2. ~Whole(e)'
      BY <1>2, <2>2 DEF Whole
    <3> QED
      BY <1>2, <2>1, <2>2, <3>1, <3>2 DEF FreshInv
  <2>3. CASE target = d
    <3>1. tries[e] = 0
      BY <1>1, <2>1, <2>3 DEF ControlInv
    <3>2. curated[e].run < runs
      BY <3>1 DEF OrderInv
    <3> QED
      BY <1>2, <2>1, <2>3, <3>2
  <2>4. CASE target # d /\ target # e
    BY <1>2, <2>4 DEF OrderInv, PublicationOrder, Whole
  <2> QED
    BY <2>2, <2>3, <2>4
<1>5. OrderInv'
  BY <1>1, <1>2, <1>4 DEF OrderInv
<1> QED
  BY <1>3, <1>5

\* A part file arrives in the dataset being written.
LEMMA FreshOrderPublishPart ==
  ASSUME Control, FreshInv, OrderInv, NEW p \in Parts, PublishPart(p)
  PROVE  FreshInv' /\ OrderInv'
<1> USE ConfigAssumption
    DEF Control, TypeOK, PublishPart, Running, InAttempt, run_vars, write_vars,
        env_vars
<1>1. target \in Datasets \ written /\ tries[target] >= 1
  BY DEF ControlInv
<1>2. /\ \A d \in Datasets \ {target} : curated'[d] = curated[d]
      /\ curated'[target].run = runs /\ curated'[target].input = seen
  BY DEF FreshInv
<1>3. FreshInv'
  BY <1>1, <1>2 DEF FreshInv, Whole
<1>4. PublicationOrder'
  <2> SUFFICES ASSUME NEW d \in Datasets, NEW e \in Datasets,
                      <<d, e>> \in { <<"aggregated_student_features", "user_vectors">>,
                                     <<"user_vectors", "recommendations_batch">> }
               PROVE  /\ curated'[d].run >= curated'[e].run
                      /\ Whole(e)' /\ curated'[d].run = curated'[e].run =>
                           Whole(d)' /\ curated'[d].input = curated'[e].input
    BY DEF PublicationOrder
  <2>1. <<d, e>> \in Before /\ d # e
    BY DEF Before
  <2>2. CASE target = e
    <3>1. d \in written
      BY <2>1, <2>2 DEF ControlInv
    <3> QED
      BY <1>2, <2>1, <2>2, <3>1 DEF FreshInv, Whole
  <2>3. CASE target = d
    <3>1. tries[e] = 0
      BY <1>1, <2>1, <2>3 DEF ControlInv
    <3>2. curated[e].run < runs
      BY <3>1 DEF OrderInv
    <3> QED
      BY <1>2, <2>1, <2>3, <3>2
  <2>4. CASE target # d /\ target # e
    BY <1>2, <2>4 DEF OrderInv, PublicationOrder, Whole
  <2> QED
    BY <2>2, <2>3, <2>4
<1>5. OrderInv'
  BY <1>1, <1>2, <1>4 DEF OrderInv
<1> QED
  BY <1>3, <1>5

\* Every step preserves the two layers.
LEMMA FreshOrderStep ==
  Control /\ FreshInv /\ OrderInv /\ [Next]_vars => FreshInv' /\ OrderInv'
<1> SUFFICES ASSUME Control, FreshInv, OrderInv, [Next]_vars
             PROVE  FreshInv' /\ OrderInv'
  OBVIOUS
<1> USE DEF env_vars, run_vars, write_vars, Running
<1>1. ASSUME NEW m \in {"initial", "incremental"}, Start(m)
      PROVE  FreshInv' /\ OrderInv'
  <2>1. FreshInv'
    BY <1>1 DEF Start, FreshInv
  <2>2. OrderInv'
    BY <1>1 DEF Start, OrderInv, PublicationOrder, Whole, Control, TypeOK
  <2> QED BY <2>1, <2>2
<1>2. ASSUME NEW readable \in BOOLEAN, ReadRaw(readable)
      PROVE  FreshInv' /\ OrderInv'
  <2>1. written = {}
    BY <1>2 DEF ReadRaw, Control, ControlInv, BeforeWrite
  <2>2. FreshInv'
    BY <1>2, <2>1 DEF ReadRaw, FreshInv
  <2>3. OrderInv'
    BY <1>2 DEF ReadRaw, OrderInv, PublicationOrder, Whole
  <2> QED BY <2>2, <2>3
<1>3. CASE Compute
  BY <1>3, FreshOrderFrame DEF Compute
<1>4. CASE ValidateQuality
  BY <1>4, FreshOrderFrame DEF ValidateQuality
<1>5. ASSUME NEW d \in Datasets, BeginWrite(d) PROVE FreshInv' /\ OrderInv'
  <2>1. FreshInv'
    BY <1>5 DEF BeginWrite, FreshInv, Whole
  <2>2. OrderInv'
    BY <1>5 DEF BeginWrite, OrderInv, PublicationOrder, Whole, Control, TypeOK
  <2> QED BY <2>1, <2>2
<1>6. CASE StartJob
  BY <1>6, FreshOrderStartJob
<1>7. ASSUME NEW p \in Parts, PublishPart(p) PROVE FreshInv' /\ OrderInv'
  BY <1>7, FreshOrderPublishPart
<1>8. CASE FinishWrite
  <2>1. FreshInv'
    BY <1>8 DEF FinishWrite, FreshInv, Whole
  <2>2. OrderInv'
    BY <1>8 DEF FinishWrite, OrderInv, PublicationOrder, Whole
  <2> QED BY <2>1, <2>2
<1>9. CASE RecordTarget
  BY <1>9, FreshOrderFrame DEF RecordTarget
<1>10. CASE SaveLineage
  BY <1>10, FreshOrderFrame DEF SaveLineage
<1>11. CASE TransientFailure
  BY <1>11, FreshOrderFrame DEF TransientFailure
<1>12. ASSUME NEW how \in {"failed", "killed"}, Stop(how)
       PROVE  FreshInv' /\ OrderInv'
  BY <1>12, FreshOrderFrame DEF Stop
<1>13. CASE Environment
  BY <1>13, FreshOrderFrame DEF Environment, RawAppended, RawOverwritten, Tick
<1>14. CASE UNCHANGED vars
  BY <1>14, FreshOrderFrame DEF vars
<1> QED
  BY <1>1, <1>2, <1>3, <1>4, <1>5, <1>6, <1>7, <1>8, <1>9, <1>10, <1>11, <1>12,
     <1>13, <1>14 DEF Next, Progress, Write

\* The whole inductive invariant.
LEMMA IInvAlways == Spec => []IInv
<1>1. Init => IInv
  BY InitControl, InitFreshOrder DEF IInv
<1>2. IInv /\ [Next]_vars => IInv'
  BY ControlStep, FreshOrderStep DEF IInv
<1> QED
  BY <1>1, <1>2, PTL DEF Spec

\* A run that exits with 0 has published all three datasets, whole and from the
\* files it listed, whatever ingestion did meanwhile, for any number of retries.
THEOREM SuccessFresh == Spec => []SuccessIsFresh
<1>1. IInv => SuccessIsFresh
  BY DEF IInv, Control, ControlInv, FreshInv, SuccessIsFresh
<1> QED
  BY <1>1, IInvAlways, PTL

\* Recommendations and user vectors are never newer than the features they were
\* derived with, across any number of failed and repeated runs.
THEOREM OrderHolds == Spec => []PublicationOrder
<1>1. IInv => PublicationOrder
  BY DEF IInv, OrderInv
<1> QED
  BY <1>1, IInvAlways, PTL

-----------------------------------------------------------------------------
\* Whatever the running container has put into the curated zone, failed attempts
\* included, comes from the files it listed.
OneInput ==
  pc \in Running => \A d \in Datasets : curated[d].run = runs => curated[d].input = seen

LEMMA OneInputStep == IInv /\ OneInput /\ [Next]_vars => OneInput'
<1> SUFFICES ASSUME IInv, OneInput, [Next]_vars PROVE OneInput'
  OBVIOUS
<1> USE DEF OneInput, env_vars, run_vars, write_vars, Running
<1>1. ASSUME NEW m \in {"initial", "incremental"}, Start(m) PROVE OneInput'
  <2>1. \A d \in Datasets : curated[d].run <= runs /\ curated[d].run \in Nat
    BY DEF IInv, OrderInv, Control, TypeOK
  <2>2. runs' = runs + 1 /\ curated' = curated /\ runs \in Nat
    BY <1>1 DEF Start, IInv, Control, TypeOK
  <2> QED BY <2>1, <2>2
<1>2. ASSUME NEW readable \in BOOLEAN, ReadRaw(readable) PROVE OneInput'
  <2>1. \A d \in Datasets : curated[d].run < runs /\ curated[d].run \in Nat
    BY <1>2 DEF ReadRaw, IInv, OrderInv, Control, ControlInv, BeforeWrite, TypeOK
  <2>2. runs' = runs /\ curated' = curated /\ runs \in Nat
    BY <1>2 DEF ReadRaw, IInv, Control, TypeOK
  <2> QED BY <2>1, <2>2
<1>3. CASE StartJob
  <2>1. \A d \in Datasets : curated'[d] =
          IF d = target THEN [parts |-> {}, run |-> runs, input |-> seen] ELSE curated[d]
    BY <1>3 DEF StartJob, IInv, Control, TypeOK
  <2> QED BY <1>3, <2>1 DEF StartJob
<1>4. ASSUME NEW p \in Parts, PublishPart(p) PROVE OneInput'
  <2>1. \A d \in Datasets :
          curated'[d].run = curated[d].run /\ curated'[d].input = curated[d].input
    BY <1>4 DEF PublishPart, IInv, Control, TypeOK
  <2> QED BY <1>4, <2>1 DEF PublishPart
<1>5. CASE UNCHANGED <<runs, seen, curated>> /\ (pc' \in Running => pc \in Running)
  BY <1>5
<1>6. CASE UNCHANGED vars
  BY <1>6 DEF vars
<1> QED
  BY <1>1, <1>2, <1>3, <1>4, <1>5, <1>6
  DEF Next, Progress, Write, Environment, Compute, ValidateQuality, BeginWrite,
      FinishWrite, RecordTarget, SaveLineage, TransientFailure, Stop, RawAppended,
      RawOverwritten, Tick

LEMMA OneInputAlways == Spec => [](IInv /\ OneInput)
<1>1. Init => OneInput
  BY DEF Init, OneInput, Running
<1> QED
  BY <1>1, IInvAlways, OneInputStep, PTL DEF Spec

-----------------------------------------------------------------------------
\* The curated zone through the refinement mapping.
LEMMA ZoneIs ==
  /\ Zone!Datasets = Datasets
  /\ \A d \in Datasets :
       /\ Zone!DerivedFrom[d] \subseteq Datasets
       /\ \A e \in Datasets : e \in Zone!DerivedFrom[d] <=> <<e, d>> \in Before
BY DEF Zone!Datasets, Zone!DerivedFrom, Datasets, Before

VersionOf == [d \in Datasets |-> [run |-> curated[d].run, input |-> curated[d].input]]
WholeOnes == {d \in Datasets : Whole(d)}

LEMMA InitZone == Init => Zone!Init
BY ZoneIs, ConfigAssumption DEF Init, Zone!Init, Zone!Unwritten, Nothing, Whole

\* What the running container is about to write, or is writing, is made from whole
\* datasets of its own version.
LEMMA TargetIsDue ==
  ASSUME IInv, pc \in InAttempt
  PROVE  /\ target \in Datasets
         /\ Zone!MadeFromWhole(target, [run |-> runs, input |-> seen])
<1>1. target \in Datasets /\ \A e \in Datasets : <<e, target>> \in Before => e \in written
  BY DEF IInv, Control, TypeOK, ControlInv
<1>2. \A e \in written : /\ e \in Datasets /\ Whole(e)
                         /\ curated[e].run = runs /\ curated[e].input = seen
  BY DEF IInv, FreshInv, Control, TypeOK
<1> QED BY <1>1, <1>2, ZoneIs DEF Zone!MadeFromWhole

\* The deletion that starts an overwrite withdraws the dataset.
LEMMA StartJobWithdraws ==
  ASSUME IInv, OneInput, StartJob, NEW d \in Datasets, d = target
  PROVE  Zone!Withdraw(d)
<1> DEFINE v == [run |-> runs, input |-> seen]
<1>1. pc \in InAttempt /\ pc \in Running
  BY DEF StartJob, InAttempt, Running
<1>2. target \in Datasets /\ Zone!MadeFromWhole(target, v)
  BY <1>1, TargetIsDue
<1>3. /\ \A e \in Datasets \ {target} : curated'[e] = curated[e]
      /\ curated'[target] = [parts |-> {}, run |-> runs, input |-> seen]
  BY DEF StartJob, IInv, Control, TypeOK
<1>4. VersionOf' = [VersionOf EXCEPT ![target] = v] /\ VersionOf'[target] = v
  <2>1. \A e \in Datasets : VersionOf'[e] = IF e = target THEN v ELSE VersionOf[e]
    BY <1>3 DEF VersionOf
  <2>2. DOMAIN VersionOf = Datasets /\ DOMAIN VersionOf' = Datasets
    BY DEF VersionOf
  <2>3. VersionOf = [e \in Datasets |-> VersionOf[e]]
        /\ VersionOf' = [e \in Datasets |-> VersionOf'[e]]
    BY DEF VersionOf
  <2> HIDE DEF v
  <2> QED BY <1>2, <2>1, <2>2, <2>3
<1>5. WholeOnes' = WholeOnes \ {target}
  BY <1>2, <1>3, ConfigAssumption DEF WholeOnes, Whole
<1>6. Zone!Latest(v)
  <2>1. \A e \in Datasets :
          curated[e].run < runs \/ (curated[e].run = runs /\ curated[e].input = seen)
    BY <1>1 DEF IInv, OrderInv, Control, TypeOK, OneInput
  <2> QED BY <2>1, ZoneIs DEF Zone!Latest
<1>7. \A e \in Datasets : <<target, e>> \in Before => VersionOf[e].run < runs
  <2>1. target \notin written
    BY <1>1 DEF IInv, Control, ControlInv
  <2>2. \A e \in Datasets : <<target, e>> \in Before => tries[e] = 0
    BY <1>2, <2>1 DEF IInv, Control, ControlInv, TypeOK
  <2> QED BY <1>1, <2>2 DEF IInv, OrderInv, VersionOf
<1> QED
  <2> DEFINE w == VersionOf'[d]
  <2>1. /\ Zone!Latest(w) /\ Zone!MadeFromWhole(d, w)
        /\ VersionOf' = [VersionOf EXCEPT ![d] = w] /\ WholeOnes' = WholeOnes \ {d}
    BY <1>2, <1>4, <1>5, <1>6
  <2>2. w.run \in Nat
    <3>1. w.run = runs
      BY <1>4
    <3> QED BY <3>1 DEF IInv, Control, TypeOK
  <2>3. \A e \in Zone!Datasets : d \in Zone!DerivedFrom[e] => VersionOf[e].run < w.run
    <3>1. w.run = runs
      BY <1>4
    <3> HIDE DEF w
    <3>2. \A e \in Datasets : d \in Zone!DerivedFrom[e] <=> <<target, e>> \in Before
      BY ZoneIs
    <3> QED BY <1>7, <3>1, <3>2, ZoneIs
  <2> QED BY <2>1, <2>2, <2>3 DEF Zone!Withdraw, VersionOf, WholeOnes

\* A part file that arrives is hidden, unless it is the last.
LEMMA PublishPartPublishes ==
  ASSUME IInv, NEW p \in Parts, PublishPart(p)
  PROVE  Zone!Publish(target) \/ UNCHANGED Zone!vars
<1>1. pc \in InAttempt /\ pc = "job"
  BY DEF PublishPart, InAttempt
<1>2. /\ target \in Datasets
      /\ Zone!MadeFromWhole(target, [run |-> runs, input |-> seen])
  BY <1>1, TargetIsDue
<1>3. /\ \A d \in Datasets \ {target} : curated'[d] = curated[d]
      /\ curated'[target] = [curated[target] EXCEPT !.parts = @ \cup {p}]
      /\ curated[target].parts # Parts
  BY <1>2 DEF PublishPart, IInv, Control, TypeOK, Whole
<1>4. VersionOf' = VersionOf
  BY <1>2, <1>3 DEF VersionOf, IInv, Control, TypeOK
<1>5. VersionOf[target] = [run |-> runs, input |-> seen]
  BY <1>1, <1>2 DEF VersionOf, IInv, FreshInv
<1>6. CASE curated'[target].parts = Parts
  <2>1. \A d \in Datasets :
          curated'[d].parts = Parts <=> d = target \/ curated[d].parts = Parts
    BY <1>3, <1>6
  <2>2. WholeOnes' = WholeOnes \cup {target} /\ target \notin WholeOnes
    BY <1>2, <1>3, <2>1 DEF WholeOnes, Whole
  <2> QED
    BY <1>2, <1>4, <1>5, <2>2, ZoneIs DEF Zone!Publish, VersionOf, WholeOnes
<1>7. CASE curated'[target].parts # Parts
  <2>1. \A d \in Datasets : curated'[d].parts = Parts <=> curated[d].parts = Parts
    BY <1>3, <1>7
  <2>2. WholeOnes' = WholeOnes
    BY <2>1 DEF WholeOnes, Whole
  <2> QED
    BY <1>4, <2>2 DEF Zone!vars, VersionOf, WholeOnes
<1> QED BY <1>6, <1>7

LEMMA StepZone == IInv /\ OneInput /\ [Next]_vars => [Zone!Next]_(Zone!vars)
<1> SUFFICES ASSUME IInv, OneInput, [Next]_vars
             PROVE  Zone!Next \/ UNCHANGED Zone!vars
  OBVIOUS
<1>1. target \in Datasets
  BY DEF IInv, Control, TypeOK
<1>2. CASE StartJob
  <2>1. \A d \in Datasets : d = target => Zone!Withdraw(d)
    BY <1>2, StartJobWithdraws
  <2> QED BY <1>1, <2>1, ZoneIs DEF Zone!Next
<1>3. ASSUME NEW p \in Parts, PublishPart(p)
      PROVE  Zone!Next \/ UNCHANGED Zone!vars
  BY <1>1, <1>3, PublishPartPublishes, ZoneIs DEF Zone!Next
<1>4. CASE UNCHANGED curated
  BY <1>4 DEF Zone!vars, Whole
<1> QED
  BY <1>2, <1>3, <1>4
  DEF Next, Progress, Write, Environment, Start, ReadRaw, Compute, ValidateQuality,
      BeginWrite, FinishWrite, RecordTarget, SaveLineage, TransientFailure, Stop,
      RawAppended, RawOverwritten, Tick, vars, env_vars, run_vars, write_vars

\* Processing implements the curated zone its readers may count on, for any number of
\* part files, retries, failures and runs: main's loop withdraws a dataset only when
\* those it is made from are whole and of the same run and input, and does not come
\* back to one once something has been made from it.
THEOREM ProcessingImplementsCuratedZone == Spec => ImplementsCuratedZone
BY InitZone, StepZone, OneInputAlways, PTL DEF Spec, Zone!Spec, ImplementsCuratedZone

\* What CuratedZone promises is enough for the order: a version is not older than
\* one made from it, and what a whole dataset was made from is whole.
InOrder ==
  /\ \A d \in Datasets : VersionOf[d].run \in Nat
  /\ \A d, e \in Datasets : <<d, e>> \in Before =>
       /\ VersionOf[e].run < VersionOf[d].run \/ VersionOf[e] = VersionOf[d]
       /\ e \in WholeOnes /\ VersionOf[e] = VersionOf[d] => d \in WholeOnes

LEMMA WithdrawKeepsOrder ==
  ASSUME InOrder, NEW x \in Datasets, Zone!Withdraw(x)
  PROVE  InOrder'
<1> DEFINE v == VersionOf'[x]
<1>1. /\ v.run \in Nat
      /\ VersionOf' = [VersionOf EXCEPT ![x] = v] /\ WholeOnes' = WholeOnes \ {x}
      /\ \A e \in Datasets : VersionOf[e].run < v.run \/ VersionOf[e] = v
      /\ \A e \in Zone!DerivedFrom[x] : e \in WholeOnes /\ VersionOf[e] = v
      /\ \A e \in Datasets : x \in Zone!DerivedFrom[e] => VersionOf[e].run < v.run
  BY ZoneIs DEF Zone!Withdraw, Zone!Latest, Zone!MadeFromWhole, VersionOf, WholeOnes
<1>2. \A d \in Datasets : VersionOf'[d] = IF d = x THEN v ELSE VersionOf[d]
  BY <1>1 DEF VersionOf
<1> HIDE DEF v
<1>3. ASSUME NEW d \in Datasets, NEW e \in Datasets, <<d, e>> \in Before
      PROVE  /\ VersionOf'[e].run < VersionOf'[d].run \/ VersionOf'[e] = VersionOf'[d]
             /\ e \in WholeOnes' /\ VersionOf'[e] = VersionOf'[d] => d \in WholeOnes'
  <2>1. d # e /\ d \in Zone!DerivedFrom[e]
    BY <1>3, ZoneIs DEF Before
  <2>2. CASE x = d
    BY <1>1, <1>2, <2>1, <2>2 DEF InOrder
  <2>3. CASE x = e
    BY <1>1, <1>2, <2>1, <2>3
  <2>4. CASE x # d /\ x # e
    BY <1>1, <1>2, <1>3, <2>4 DEF InOrder
  <2> QED BY <2>2, <2>3, <2>4
<1>4. \A d \in Datasets : VersionOf'[d].run \in Nat
  BY <1>1, <1>2 DEF InOrder
<1> QED BY <1>3, <1>4 DEF InOrder

LEMMA PublishKeepsOrder ==
  ASSUME InOrder, NEW x \in Datasets, Zone!Publish(x)
  PROVE  InOrder'
<1>1. /\ VersionOf' = VersionOf /\ WholeOnes' = WholeOnes \cup {x}
      /\ \A e \in Zone!DerivedFrom[x] : e \in WholeOnes /\ VersionOf[e] = VersionOf[x]
  BY DEF Zone!Publish, Zone!MadeFromWhole, VersionOf, WholeOnes
<1>2. \A d, e \in Datasets : <<d, e>> \in Before => d \in Zone!DerivedFrom[e]
  BY ZoneIs
<1> QED BY <1>1, <1>2 DEF InOrder

\* Of whatever implements CuratedZone, the recommendations and the user vectors on
\* offer are never newer than the features they were derived with: the order follows
\* from the promise, not from how processing keeps it.
THEOREM CuratedZoneKeepsOrder == ImplementsCuratedZone => []PublicationOrder
<1>1. Zone!Init => InOrder
  <2> SUFFICES ASSUME Zone!Init PROVE InOrder
    OBVIOUS
  <2>1. /\ \A d \in Datasets : VersionOf[d] = Zone!Unwritten
        /\ WholeOnes = {}
    BY ZoneIs DEF Zone!Init, VersionOf, WholeOnes
  <2> QED BY <2>1 DEF InOrder, Zone!Unwritten
<1>2. InOrder /\ [Zone!Next]_(Zone!vars) => InOrder'
  <2>1. ASSUME InOrder, UNCHANGED Zone!vars PROVE InOrder'
    <3>1. VersionOf' = VersionOf /\ WholeOnes' = WholeOnes
      BY <2>1 DEF Zone!vars, VersionOf, WholeOnes
    <3> QED BY <2>1, <3>1 DEF InOrder
  <2>2. ASSUME InOrder, Zone!Next PROVE InOrder'
    <3>1. PICK x \in Datasets : Zone!Withdraw(x) \/ Zone!Publish(x)
      BY <2>2, ZoneIs DEF Zone!Next
    <3> QED BY <2>2, <3>1, WithdrawKeepsOrder, PublishKeepsOrder
  <2> QED BY <2>1, <2>2
<1>3. InOrder => PublicationOrder
  <2> SUFFICES ASSUME InOrder, NEW d \in Datasets, NEW e \in Datasets,
                      <<d, e>> \in { <<"aggregated_student_features", "user_vectors">>,
                                     <<"user_vectors", "recommendations_batch">> }
               PROVE  /\ curated[d].run >= curated[e].run
                      /\ Whole(e) /\ curated[d].run = curated[e].run =>
                           Whole(d) /\ curated[d].input = curated[e].input
    BY DEF PublicationOrder
  <2>1. <<d, e>> \in Before
    BY DEF Before
  <2>2. \A f \in Datasets : /\ VersionOf[f].run = curated[f].run
                            /\ VersionOf[f].input = curated[f].input
                            /\ Whole(f) <=> f \in WholeOnes
    BY DEF VersionOf, WholeOnes
  <2> QED BY <2>1, <2>2 DEF InOrder
<1> QED BY <1>1, <1>2, <1>3, PTL DEF ImplementsCuratedZone, Zone!Spec

-----------------------------------------------------------------------------
(* Features: counting, and the greatest of finitely many numbers. *)

\* A function counts its values at most once, exactly once if it is injective.
LEMMA ImageCount ==
  ASSUME NEW f, IsFiniteSet(DOMAIN f), f = [x \in DOMAIN f |-> f[x]]
  PROVE  LET T == {f[x] : x \in DOMAIN f}
         IN  /\ IsFiniteSet(T)
             /\ Cardinality(T) <= Cardinality(DOMAIN f)
             /\ IsInjective(f) => Cardinality(T) = Cardinality(DOMAIN f)
<1> DEFINE S == DOMAIN f
           T == {f[x] : x \in S}
<1>1. f \in Surjection(S, T)
  BY DEF Surjection
<1>2. IsInjective(f) => f \in Injection(S, T)
  BY DEF Injection
<1> HIDE DEF T
<1>3. /\ IsFiniteSet(T) /\ Cardinality(T) <= Cardinality(S)
      /\ f \in Injection(S, T) => Cardinality(T) = Cardinality(S)
  BY <1>1, FS_Surjection
<1> QED BY <1>2, <1>3 DEF T

-----------------------------------------------------------------------------
\* The pairs of the self-join and their mirror images.
Apart(D) == {p \in D \X D : p[1] # p[2]}

LEMMA ApartCount ==
  ASSUME NEW D, IsFiniteSet(D)
  PROVE  /\ IsFiniteSet(Apart(D))
         /\ Cardinality(Apart(D)) = Cardinality(D) * (Cardinality(D) - 1)
<1> DEFINE Same == [x \in D |-> <<x, x>>]
           Twins == {Same[x] : x \in D}
<1>1. IsInjective(Same) /\ DOMAIN Same = D
  BY DEF IsInjective
<1>2. IsFiniteSet(Twins) /\ Cardinality(Twins) = Cardinality(D)
  BY <1>1, ImageCount
<1>3. IsFiniteSet(D \X D) /\ Cardinality(D \X D) = Cardinality(D) * Cardinality(D)
  BY FS_Product
<1>4. Apart(D) = (D \X D) \ Twins /\ (D \X D) \cap Twins = Twins
  BY DEF Apart
<1> HIDE DEF Twins
<1>5. /\ IsFiniteSet((D \X D) \ Twins)
      /\ Cardinality((D \X D) \ Twins) =
           Cardinality(D \X D) - Cardinality((D \X D) \cap Twins)
  BY <1>3, FS_Difference
<1>6. \A n \in Nat : n * n - n = n * (n - 1)
  OBVIOUS
<1>7. /\ IsFiniteSet(Apart(D))
      /\ Cardinality(Apart(D)) = Cardinality(D) * Cardinality(D) - Cardinality(D)
  BY <1>2, <1>3, <1>4, <1>5
<1>8. Cardinality(D) \in Nat
  BY FS_CardinalityType
<1> QED BY <1>6, <1>7, <1>8

\* What compute_cosine_similarity gives a pair: the value of the smaller id first.
ScoreOf(table, a, b) == IF a < b THEN Cosine(table[a], table[b])
                                 ELSE Cosine(table[b], table[a])

LEMMA EveryPairHasOneScore ==
  ASSUME NEW table, DOMAIN table \subseteq Nat
  PROVE  CosineSimilarity(table) =
           {Score(p[1], p[2], ScoreOf(table, p[1], p[2])) : p \in Apart(DOMAIN table)}
<1> DEFINE D == DOMAIN table
           All == {Score(p[1], p[2], ScoreOf(table, p[1], p[2])) : p \in Apart(D)}
<1>1. ASSUME NEW s \in PairScores(table)
      PROVE  /\ s \in All
             /\ Score(s.other_user_id, s.user_id, s.similarity_score) \in All
  <2>1. PICK p \in D \X D : p[1] < p[2]
                               /\ s = Score(p[1], p[2], Cosine(table[p[1]], table[p[2]]))
    BY <1>1 DEF PairScores
  <2>2. p[1] \in Nat /\ p[2] \in Nat /\ p \in Apart(D) /\ <<p[2], p[1]>> \in Apart(D)
    BY <2>1 DEF Apart
  <2>3. /\ ScoreOf(table, p[1], p[2]) = Cosine(table[p[1]], table[p[2]])
        /\ ScoreOf(table, p[2], p[1]) = Cosine(table[p[1]], table[p[2]])
    BY <2>1, <2>2 DEF ScoreOf
  <2> DEFINE q == <<p[2], p[1]>>
  <2>4. Score(s.other_user_id, s.user_id, s.similarity_score) =
          Score(q[1], q[2], ScoreOf(table, q[1], q[2]))
    BY <2>1, <2>3 DEF Score
  <2> QED BY <2>1, <2>2, <2>3, <2>4
<1>2. ASSUME NEW p \in Apart(D)
      PROVE  Score(p[1], p[2], ScoreOf(table, p[1], p[2])) \in CosineSimilarity(table)
  <2>1. /\ p[1] \in Nat /\ p[2] \in Nat /\ p[1] # p[2]
        /\ p \in D \X D /\ <<p[2], p[1]>> \in D \X D
    BY DEF Apart
  <2>2. CASE p[1] < p[2]
    <3>1. Score(p[1], p[2], ScoreOf(table, p[1], p[2])) \in PairScores(table)
      BY <2>1, <2>2 DEF PairScores, ScoreOf
    <3> QED BY <3>1 DEF CosineSimilarity
  <2>3. CASE p[2] < p[1]
    <3> DEFINE q == <<p[2], p[1]>>
               s == Score(q[1], q[2], Cosine(table[q[1]], table[q[2]]))
    <3>1. s \in PairScores(table)
      BY <2>1, <2>3 DEF PairScores
    <3>2. Score(p[1], p[2], ScoreOf(table, p[1], p[2])) =
            Score(s.other_user_id, s.user_id, s.similarity_score)
      BY <2>1, <2>3 DEF ScoreOf, Score
    <3> QED BY <3>1, <3>2 DEF CosineSimilarity
  <2> QED BY <2>1, <2>2, <2>3
<1> QED BY <1>1, <1>2 DEF CosineSimilarity

-----------------------------------------------------------------------------
\* What EveryPairIsScoredOnce says, of the dataframe and not of a state.
LEMMA ScoredOnce ==
  ASSUME NEW table, DOMAIN table \subseteq Nat, IsFiniteSet(DOMAIN table)
  PROVE  LET D == DOMAIN table
             sim == CosineSimilarity(table)
         IN  /\ {<<s.user_id, s.other_user_id>> : s \in sim} = Apart(D)
             /\ Cardinality(sim) = Cardinality(D) * (Cardinality(D) - 1)
             /\ \A s \in sim :
                  /\ Score(s.other_user_id, s.user_id, s.similarity_score) \in sim
                  /\ (\E c \in FeatureColumns :
                       Null \in {table[s.user_id][c], table[s.other_user_id][c]}) =>
                       s.similarity_score = Zero
<1> DEFINE D == DOMAIN table
           sim == CosineSimilarity(table)
           f == [p \in Apart(D) |-> Score(p[1], p[2], ScoreOf(table, p[1], p[2]))]
<1>1. sim = {f[p] : p \in Apart(D)}
  BY EveryPairHasOneScore
<1>2. \A p \in Apart(D) : f[p].user_id = p[1] /\ f[p].other_user_id = p[2]
                          /\ f[p].similarity_score = ScoreOf(table, p[1], p[2])
  BY DEF Score
<1>3. \A p \in Apart(D) : p = <<p[1], p[2]>> /\ p[1] \in D /\ p[2] \in D /\ p[1] # p[2]
                          /\ <<p[2], p[1]>> \in Apart(D)
  BY DEF Apart
<1>4. IsInjective(f)
  <2>1. DOMAIN f = Apart(D)
    OBVIOUS
  <2> HIDE DEF f, D
  <2>2. \A p, q \in Apart(D) : f[p] = f[q] => p = q
    <3> TAKE p \in Apart(D), q \in Apart(D)
    <3> HAVE f[p] = f[q]
    <3>0. /\ f[p].user_id = p[1] /\ f[p].other_user_id = p[2]
          /\ f[q].user_id = q[1] /\ f[q].other_user_id = q[2]
      BY <1>2
    <3>1. p[1] = q[1] /\ p[2] = q[2]
      BY <3>0
    <3>2. p = <<p[1], p[2]>> /\ q = <<q[1], q[2]>>
      BY <1>3, Zenon
    <3> QED BY <3>1, <3>2, Zenon
  <2> QED BY <2>1, <2>2 DEF IsInjective
<1>5. Cardinality(sim) = Cardinality(D) * (Cardinality(D) - 1)
  <2> HIDE DEF sim
  <2>1. /\ IsFiniteSet(DOMAIN f)
        /\ Cardinality(DOMAIN f) = Cardinality(D) * (Cardinality(D) - 1)
    BY ApartCount
  <2>2. Cardinality({f[p] : p \in DOMAIN f}) = Cardinality(DOMAIN f)
    <3> HIDE DEF f
    <3>1. f = [p \in DOMAIN f |-> f[p]]
      BY DEF f
    <3> QED BY <1>4, <2>1, <3>1, ImageCount
  <2> QED BY <1>1, <2>1, <2>2
<1>6. {<<s.user_id, s.other_user_id>> : s \in sim} = Apart(D)
  <2> HIDE DEF sim, f, D
  <2>1. \A p \in Apart(D) : <<f[p].user_id, f[p].other_user_id>> = p
    BY <1>2, <1>3
  <2> QED BY <1>1, <2>1
<1>7. ASSUME NEW s \in sim
      PROVE  /\ Score(s.other_user_id, s.user_id, s.similarity_score) \in sim
             /\ (\E c \in FeatureColumns :
                  Null \in {table[s.user_id][c], table[s.other_user_id][c]}) =>
                  s.similarity_score = Zero
  <2>1. PICK p \in Apart(D) : s = f[p]
    BY <1>1, <1>7
  <2>2. p[1] \in Nat /\ p[2] \in Nat /\ p[1] # p[2]
    BY <1>3
  <2>3. ScoreOf(table, p[1], p[2]) = ScoreOf(table, p[2], p[1])
    BY <2>2 DEF ScoreOf
  <2>4. Score(s.other_user_id, s.user_id, s.similarity_score) = f[<<p[2], p[1]>>]
    BY <1>2, <1>3, <2>1, <2>3
  <2>5. ASSUME NEW c \in FeatureColumns, Null \in {table[p[1]][c], table[p[2]][c]}
        PROVE  ScoreOf(table, p[1], p[2]) = Zero
    BY <2>5 DEF ScoreOf, Cosine, HasMagnitude
  <2> QED BY <1>1, <1>2, <1>3, <2>1, <2>4, <2>5
<1> HIDE DEF D, sim
<1> QED BY <1>5, <1>6, <1>7 DEF D, sim

-----------------------------------------------------------------------------
\* The rows the window of one student ranks.
LEMMA OwnRows ==
  ASSUME NEW table, DOMAIN table \subseteq Nat, IsFiniteSet(DOMAIN table),
         NEW u \in DOMAIN table
  PROVE  LET S == {s \in CosineSimilarity(table) : s.user_id = u}
         IN  /\ IsFiniteSet(S)
             /\ Cardinality(S) = Cardinality(DOMAIN table) - 1
             /\ \A s \in S : s.other_user_id \in DOMAIN table \ {u}
             /\ \A s, t \in S : s.other_user_id = t.other_user_id => s = t
<1> DEFINE D == DOMAIN table
           S == {s \in CosineSimilarity(table) : s.user_id = u}
           g == [v \in D \ {u} |-> Score(u, v, ScoreOf(table, u, v))]
<1>1. S = {g[v] : v \in D \ {u}}
  <2>1. ASSUME NEW s \in S
        PROVE  s \in {g[v] : v \in D \ {u}}
    <3>1. PICK p \in Apart(D) : s = Score(p[1], p[2], ScoreOf(table, p[1], p[2]))
      BY <2>1, EveryPairHasOneScore
    <3>2. p[1] = u /\ p[2] \in D \ {u}
      BY <3>1 DEF Score, Apart
    <3> QED BY <3>1, <3>2
  <2>2. ASSUME NEW v \in D \ {u}
        PROVE  g[v] \in S
    <3> DEFINE p == <<u, v>>
    <3>1. p \in Apart(D) /\ g[v] = Score(p[1], p[2], ScoreOf(table, p[1], p[2]))
      BY DEF Apart
    <3> QED BY <3>1, EveryPairHasOneScore DEF Score
  <2> QED BY <2>1, <2>2
<1>2. \A v \in D \ {u} : g[v].other_user_id = v
  BY DEF Score
<1>3. g = [v \in DOMAIN g |-> g[v]] /\ DOMAIN g = D \ {u}
  OBVIOUS
<1>4. IsFiniteSet(D \ {u}) /\ Cardinality(D \ {u}) = Cardinality(D) - 1
  BY FS_RemoveElement
<1> HIDE DEF g, S
<1>5. IsInjective(g)
  BY <1>2, <1>3 DEF IsInjective
<1>6. IsFiniteSet(S) /\ Cardinality(S) = Cardinality(D) - 1
  BY <1>1, <1>3, <1>4, <1>5, ImageCount
<1> QED BY <1>1, <1>2, <1>6 DEF S

-----------------------------------------------------------------------------
\* Min of FiniteSetsExt is a CHOOSE.
LEMMA MinOfTwo ==
  ASSUME NEW a \in Nat, NEW b \in Nat
  PROVE  Min({a, b}) = IF a <= b THEN a ELSE b
<1> DEFINE m == IF a <= b THEN a ELSE b
<1>1. m \in {a, b} /\ \A y \in {a, b} : m <= y
  OBVIOUS
<1>2. \A x \in {a, b} : (\A y \in {a, b} : x <= y) => x = m
  OBVIOUS
<1> QED BY <1>1, <1>2 DEF Min

\* A ranking holds top_k of the rows, or all, each once, and no row that is left
\* out scores higher than one that is in.
LEMMA RankingIsOfTheBest ==
  ASSUME NEW S, IsFiniteSet(S), NEW top \in TopRanked(S), TopK \in Nat
  PROVE  /\ ToSet(top) \subseteq S
         /\ IsFiniteSet(ToSet(top))
         /\ Cardinality(ToSet(top)) = Min({TopK, Cardinality(S)})
         /\ \A s \in ToSet(top), t \in S \ ToSet(top) :
              AtMost(t.similarity_score, s.similarity_score)
<1> DEFINE n == Cardinality(S)
           k == Min({TopK, n})
<1>1. n \in Nat
  BY FS_CardinalityType
<1>2. PICK q \in SetToSeqs(S) : ByScore(q) /\ top = Cut(q, TopK)
  BY DEF TopRanked
<1>3. q \in [1 .. n -> S] /\ \A i, j \in 1 .. n : i # j => q[i] # q[j]
  BY <1>2 DEF SetToSeqs
<1>4. Len(q) = n
  BY <1>1, <1>3
<1>5. k \in Nat /\ k <= n
  BY <1>1, MinOfTwo
<1> HIDE DEF n, k
<1>6. /\ DOMAIN top = 1 .. k
      /\ \A i \in 1 .. k : top[i] = q[i]
  <2>1. top = SubSeq(q, 1, k)
    BY <1>2, <1>4 DEF Cut, k
  <2>2. \A i \in 1 .. k : q[i] \in S
    BY <1>1, <1>3, <1>5
  <2>3. /\ top \in Seq(S)
        /\ Len(top) = IF 1 <= k THEN k - 1 + 1 ELSE 0
        /\ \A i \in 1 .. k - 1 + 1 : top[i] = q[1 + i - 1]
    BY <1>5, <2>1, <2>2, SubSeqProperties
  <2> QED BY <1>5, <2>3, LenProperties
<1>7. top = [i \in DOMAIN top |-> top[i]]
  <2>1. top = SubSeq(q, 1, k)
    BY <1>2, <1>4 DEF Cut, k
  <2> QED BY <1>5, <2>1
<1>8. IsInjective(top)
  BY <1>1, <1>3, <1>5, <1>6 DEF IsInjective
<1>9. IsFiniteSet(1 .. k) /\ Cardinality(1 .. k) = k
  BY <1>5, FS_Interval
<1>10. IsFiniteSet(ToSet(top)) /\ Cardinality(ToSet(top)) = k
  BY <1>6, <1>7, <1>8, <1>9, ImageCount DEF ToSet
<1>11. ToSet(top) \subseteq S
  BY <1>1, <1>3, <1>5, <1>6 DEF ToSet
<1>12. S = {q[i] : i \in 1 .. n}
  <2>1. q \in Injection(1 .. n, S)
    BY <1>3 DEF Injection, IsInjective
  <2>2. IsFiniteSet(1 .. n) /\ Cardinality(1 .. n) = Cardinality(S)
    BY <1>1, FS_Interval DEF n
  <2>3. q \in Surjection(1 .. n, S)
    BY <2>1, <2>2, FS_Injection
  <2> QED BY <1>3, <2>3 DEF Surjection
<1>13. ASSUME NEW s \in ToSet(top), NEW t \in S \ ToSet(top)
       PROVE  AtMost(t.similarity_score, s.similarity_score)
  <2>1. PICK i \in 1 .. k : s = q[i]
    BY <1>6 DEF ToSet
  <2>2. PICK j \in 1 .. n : t = q[j]
    BY <1>12
  <2>3. j \notin 1 .. k
    BY <1>6, <2>2 DEF ToSet
  <2>4. i \in 1 .. n /\ i < j
    BY <1>1, <1>5, <2>3
  <2> QED BY <1>2, <1>4, <2>1, <2>2, <2>4 DEF ByScore, IsSorted
<1> QED BY <1>10, <1>11, <1>13 DEF k, n

-----------------------------------------------------------------------------
\* So is Max, of numbers that are bounded.
LEMMA MaxExists ==
  ASSUME NEW n \in Nat, NEW S, S \subseteq 1 .. n, S # {}
  PROVE  Max(S) \in S /\ \A y \in S : y <= Max(S)
<1> DEFINE T == {i \in Nat : n - i \in S}
<1>1. T \subseteq Nat /\ T # {}
  <2>1. PICK s \in S : s \in 1 .. n
    OBVIOUS
  <2>2. n - s \in Nat /\ n - (n - s) = s
    BY <2>1
  <2> QED BY <2>1, <2>2
<1>2. PICK x \in T : \A y \in T : ~ (<<y, x>> \in OpToRel(<, Nat))
  <2> HIDE DEF T
  <2> QED BY <1>1, NatLessThanWellFounded, WFMin
<1>3. \A y \in S : y <= n - x
  <2> TAKE y \in S
  <2>1. y \in 1 .. n /\ n - y \in Nat /\ n - (n - y) = y
    OBVIOUS
  <2>2. n - y \in T
    BY <2>1
  <2>3. ~ (n - y < x)
    BY <1>2, <2>1, <2>2 DEF OpToRel
  <2> QED BY <2>1, <2>3, x \in Nat
<1>4. n - x \in S
  OBVIOUS
<1>5. \A z \in S : (\A y \in S : z >= y) => z = n - x
  BY <1>3, <1>4
<1>6. \E z \in S : \A y \in S : z >= y
  BY <1>3, <1>4
<1> QED BY <1>3, <1>4, <1>5, <1>6 DEF Max

\* What Fraction divides by is not 0.
LEMMA GcdDivides ==
  ASSUME NEW n \in Nat, NEW d \in Nat \ {0}
  PROVE  Gcd(n, d) \in 1 .. d /\ n % Gcd(n, d) = 0 /\ d % Gcd(n, d) = 0
<1> DEFINE S == {k \in 1 .. d : n % k = 0 /\ d % k = 0}
<1>1. 1 \in 1 .. d /\ n % 1 = 0 /\ d % 1 = 0
  OBVIOUS
<1>2. S \subseteq 1 .. d /\ 1 \in S
  BY <1>1
<1>3. Max(S) \in S
  <2> HIDE DEF S
  <2> QED BY <1>2, MaxExists
<1> QED BY <1>3 DEF Gcd

\* Cutting two numbers down by one factor keeps their order.
LEMMA DivisionIsMonotone ==
  ASSUME NEW n \in Nat, NEW d \in Nat, NEW g \in Nat \ {0}, n <= d
  PROVE  n \div g <= d \div g
OBVIOUS

\* A share of a whole is a fraction of at most one.
LEMMA ShareAtMostOne ==
  ASSUME NEW n \in Nat, NEW d \in Nat \ {0}, n <= d
  PROVE  AtMost(Fraction(n, d), One)
<1> DEFINE g == Gcd(n, d)
<1>1. g \in Nat \ {0}
  BY GcdDivides
<1> HIDE DEF g
<1>2. n \div g <= d \div g /\ n \div g \in Int /\ d \div g \in Int
  BY <1>1, DivisionIsMonotone
<1>3. Fraction(n, d) = <<n \div g, d \div g>>
  BY DEF Fraction, g
<1> QED BY <1>2, <1>3 DEF AtMost, One

-----------------------------------------------------------------------------
(* Induction, with a set in the place of a predicate. *)
LEMMA NumbersByInduction ==
  ASSUME NEW N, 0 \in N, \A n \in Nat : n \in N => n + 1 \in N
  PROVE  Nat \subseteq N
<1> DEFINE T == Nat \ N
<1> SUFFICES ASSUME T # {} PROVE FALSE
  OBVIOUS
<1>1. PICK x \in T : \A y \in T : ~ (<<y, x>> \in OpToRel(<, Nat))
  <2> HIDE DEF T
  <2> QED BY NatLessThanWellFounded, WFMin DEF T
<1>2. x - 1 \in Nat /\ x - 1 < x /\ x - 1 + 1 = x
  BY x \in Nat, x # 0
<1>3. x - 1 \notin T
  BY <1>1, <1>2 DEF OpToRel
<1> QED BY <1>2, <1>3

\* A subset of S is in F when all that lack one element more are.
Inductive(F, S) == \A T \in SUBSET S : (\A x \in T : T \ {x} \in F) => T \in F

\* A smallest subset outside F would lack an element that one in F lacks.
LEMMA SubsetsByInduction ==
  ASSUME NEW S, NEW F, IsFiniteSet(S), Inductive(F, S)
  PROVE  \A T \in SUBSET S : T \in F
<1> DEFINE N == {n \in Nat : \A T \in SUBSET S : Cardinality(T) = n => T \in F}
<1>1. \A T \in SUBSET S : IsFiniteSet(T) /\ Cardinality(T) \in Nat
  BY FS_Subset, FS_CardinalityType
<1>2. 0 \in N
  BY <1>1, FS_EmptySet DEF Inductive
<1>3. ASSUME NEW n \in Nat, n \in N PROVE n + 1 \in N
  <2> SUFFICES ASSUME NEW T \in SUBSET S, Cardinality(T) = n + 1 PROVE T \in F
    OBVIOUS
  <2>1. \A x \in T : Cardinality(T \ {x}) = n
    BY <1>1, FS_RemoveElement
  <2> QED BY <1>3, <2>1 DEF Inductive
<1>4. Nat \subseteq N
  <2> HIDE DEF N
  <2> QED BY <1>2, <1>3, NumbersByInduction
<1> QED BY <1>1, <1>4

-----------------------------------------------------------------------------
(* Folds. *)
Pick(T) == CHOOSE x \in T : TRUE

\* g folds the elements of S, one after the other, with step.
FoldsWith(g, S, base, step) == \A T \in SUBSET S :
  g[T] = IF T = {} THEN base ELSE step[<<Pick(T), g[T \ {Pick(T)}]>>]

\* The recursion of a fold has a solution: apply it often enough to anything.
LEMMA FoldExists ==
  ASSUME NEW S, IsFiniteSet(S), NEW V, NEW base \in V, NEW step \in [S \X V -> V]
  PROVE  \E g \in [SUBSET S -> V] : FoldsWith(g, S, base, step)
<1> DEFINE Solved(g, T) == IF T = {} THEN base ELSE step[<<Pick(T), g[T \ {Pick(T)}]>>]
           UpTo(n) == {T \in SUBSET S : Cardinality(T) <= n}
           N == {n \in Nat : \E g \in [SUBSET S -> V] :
                   \A T \in UpTo(n) : g[T] = Solved(g, T)}
<1>1. \A T \in SUBSET S : IsFiniteSet(T) /\ Cardinality(T) \in Nat
  BY FS_Subset, FS_CardinalityType
<1>2. \A T \in SUBSET S : T # {} => Pick(T) \in T
  BY DEF Pick
<1>3. 0 \in N
  <2> DEFINE g == [T \in SUBSET S |-> base]
  <2>1. \A T \in UpTo(0) : T = {}
    BY <1>1, FS_EmptySet
  <2>2. g \in [SUBSET S -> V] /\ \A T \in UpTo(0) : g[T] = Solved(g, T)
    BY <2>1
  <2> HIDE DEF g
  <2> QED BY <2>2
<1>4. ASSUME NEW n \in Nat, n \in N PROVE n + 1 \in N
  <2>1. PICK g \in [SUBSET S -> V] : \A T \in UpTo(n) : g[T] = Solved(g, T)
    BY <1>4
  <2> DEFINE h == [T \in SUBSET S |-> Solved(g, T)]
  <2>2. h \in [SUBSET S -> V]
    BY <1>2
  <2>3. \A T \in UpTo(n + 1) : T # {} => T \ {Pick(T)} \in UpTo(n)
    <3> TAKE T \in UpTo(n + 1)
    <3> HAVE T # {}
    <3>1. Pick(T) \in T /\ T \in SUBSET S
      BY <1>2
    <3>2. Cardinality(T \ {Pick(T)}) = Cardinality(T) - 1
      BY <1>1, <3>1, FS_RemoveElement
    <3> QED BY <1>1, <3>1, <3>2
  <2>4. \A T \in UpTo(n + 1) : T # {} => h[T \ {Pick(T)}] = g[T \ {Pick(T)}]
    BY <2>1, <2>3
  <2>5. \A T \in UpTo(n + 1) : h[T] = Solved(h, T)
    BY <2>4
  <2> HIDE DEF h, Solved, UpTo
  <2>6. \E k \in [SUBSET S -> V] : \A T \in UpTo(n + 1) : k[T] = Solved(k, T)
    BY <2>2, <2>5
  <2> QED BY <2>6
<1>5. Nat \subseteq N
  <2> HIDE DEF N
  <2> QED BY <1>3, <1>4, NumbersByInduction
<1>6. PICK g \in [SUBSET S -> V] : \A T \in UpTo(Cardinality(S)) : g[T] = Solved(g, T)
  BY <1>1, <1>5
<1>7. \A T \in SUBSET S : T \in UpTo(Cardinality(S))
  BY FS_Subset
<1> QED BY <1>6, <1>7 DEF FoldsWith

\* The equation SumFunctionOnSet solves.
IsSumOf(g, f, S) ==
  g = [T \in SUBSET S |-> IF T = {} THEN 0 ELSE f[Pick(T)] + g[T \ {Pick(T)}]]

\* SumFunctionOnSet is a solution of that equation, if there is one ...
LEMMA SumIs ==
  ASSUME NEW f, NEW S
  PROVE  SumFunctionOnSet(f, S) = (CHOOSE g : IsSumOf(g, f, S))[S]
BY DEF SumFunctionOnSet, FoldFunctionOnSet, MapThenFoldSet, IsSumOf, Pick

\* ... and there is one.
LEMMA SumSolves ==
  ASSUME NEW S, IsFiniteSet(S), NEW f, \A x \in S : f[x] \in Nat
  PROVE  IsSumOf(CHOOSE g : IsSumOf(g, f, S), f, S)
<1> DEFINE step == [p \in S \X Nat |-> f[p[1]] + p[2]]
<1>1. step \in [S \X Nat -> Nat]
  OBVIOUS
<1>2. PICK g \in [SUBSET S -> Nat] : FoldsWith(g, S, 0, step)
  <2> HIDE DEF step
  <2> QED BY <1>1, FoldExists
<1>3. \A T \in SUBSET S : g[T] = IF T = {} THEN 0 ELSE f[Pick(T)] + g[T \ {Pick(T)}]
  <2> TAKE T \in SUBSET S
  <2> SUFFICES ASSUME T # {} PROVE g[T] = f[Pick(T)] + g[T \ {Pick(T)}]
    BY <1>2 DEF FoldsWith
  <2>1. Pick(T) \in S /\ g[T \ {Pick(T)}] \in Nat
    BY DEF Pick
  <2> QED BY <1>2, <2>1 DEF FoldsWith
<1>4. IsSumOf(g, f, S)
  BY <1>3 DEF IsSumOf
<1> QED BY <1>4

\* Two solutions agree where both are defined.
LEMMA SumsAgree ==
  ASSUME NEW S, IsFiniteSet(S), NEW T \in SUBSET S, NEW f, NEW g, NEW h,
         IsSumOf(g, f, S), IsSumOf(h, f, T)
  PROVE  h[T] = g[T]
<1> DEFINE F == {U \in SUBSET T : h[U] = g[U]}
<1>1. IsFiniteSet(T)
  BY FS_Subset
<1>2. ASSUME NEW U \in SUBSET T, \A x \in U : U \ {x} \in F PROVE U \in F
  <2>1. U # {} => Pick(U) \in U
    BY DEF Pick
  <2>2. /\ h[U] = IF U = {} THEN 0 ELSE f[Pick(U)] + h[U \ {Pick(U)}]
        /\ g[U] = IF U = {} THEN 0 ELSE f[Pick(U)] + g[U \ {Pick(U)}]
    BY DEF IsSumOf
  <2> QED BY <1>2, <2>1, <2>2
<1>3. \A U \in SUBSET T : U \in F
  <2> HIDE DEF F
  <2>1. Inductive(F, T)
    BY <1>2 DEF Inductive
  <2> QED BY <1>1, <2>1, SubsetsByInduction
<1> QED BY <1>3

\* What a sum of natural numbers is, whichever order they are added in.
LEMMA SumProperties ==
  ASSUME NEW S, IsFiniteSet(S), NEW f, \A x \in S : f[x] \in Nat
  PROVE  \A T \in SUBSET S :
           /\ SumFunctionOnSet(f, T) \in Nat
           /\ T = {} => SumFunctionOnSet(f, T) = 0
           /\ \A x \in T : SumFunctionOnSet(f, T) = f[x] + SumFunctionOnSet(f, T \ {x})
<1> DEFINE g == CHOOSE g : IsSumOf(g, f, S)
<1>1. IsSumOf(g, f, S)
  BY SumSolves
<1> HIDE DEF g
<1>2. ASSUME NEW T \in SUBSET S PROVE SumFunctionOnSet(f, T) = g[T]
  <2> DEFINE h == CHOOSE h : IsSumOf(h, f, T)
  <2>1. IsFiniteSet(T)
    BY FS_Subset
  <2>2. IsSumOf(h, f, T)
    BY <2>1, SumSolves
  <2>3. SumFunctionOnSet(f, T) = h[T]
    BY SumIs
  <2> HIDE DEF h
  <2> QED BY <1>1, <2>2, <2>3, SumsAgree
<1>3. \A T \in SUBSET S :
        g[T] = IF T = {} THEN 0 ELSE f[Pick(T)] + g[T \ {Pick(T)}]
  BY <1>1 DEF IsSumOf
<1> DEFINE G == {T \in SUBSET S : g[T] \in Nat}
<1>6. ASSUME NEW T \in SUBSET S, \A x \in T : T \ {x} \in G PROVE T \in G
  <2>1. T # {} => Pick(T) \in T
    BY DEF Pick
  <2>2. T # {} => f[Pick(T)] \in Nat /\ g[T \ {Pick(T)}] \in Nat
    BY <1>6, <2>1
  <2> QED BY <1>3, <2>2
<1>7. \A T \in SUBSET S : T \in G
  <2> HIDE DEF G
  <2>1. Inductive(G, S)
    BY <1>6 DEF Inductive
  <2> QED BY <2>1, SubsetsByInduction
<1> DEFINE F == {T \in SUBSET S : \A x \in T : g[T] = f[x] + g[T \ {x}]}
<1>4. ASSUME NEW T \in SUBSET S, \A x \in T : T \ {x} \in F PROVE T \in F
  <2>1. CASE T = {}
    BY <2>1
  <2>2. CASE T # {}
    <3> DEFINE p == Pick(T)
    <3>1. p \in T /\ g[T] = f[p] + g[T \ {p}]
      BY <1>3, <2>2 DEF Pick
    <3> HIDE DEF p
    <3>2. g[T \ {p}] \in Nat /\ f[p] \in Nat
      BY <1>7, <3>1
    <3>3. ASSUME NEW x \in T, x # p PROVE g[T] = f[x] + g[T \ {x}]
      <4> DEFINE R == (T \ {p}) \ {x}
      <4>1. T \ {p} \in F /\ x \in T \ {p} /\ T \ {x} \in F /\ p \in T \ {x}
        BY <1>4, <3>1, <3>3
      <4>2. R = (T \ {x}) \ {p}
        OBVIOUS
      <4>3. g[T \ {p}] = f[x] + g[R]
        BY <4>1
      <4>4. g[T \ {x}] = f[p] + g[R]
        BY <4>1, <4>2
      <4>5. g[R] \in Nat
        BY <1>7
      <4>6. f[x] \in Nat
        OBVIOUS
      <4> HIDE DEF R
      <4> QED BY <3>1, <3>2, <4>3, <4>4, <4>5, <4>6
    <3> QED BY <3>1, <3>2, <3>3
  <2> QED BY <2>1, <2>2
<1>5. \A T \in SUBSET S : T \in F
  <2> HIDE DEF F
  <2>1. Inductive(F, S)
    BY <1>4 DEF Inductive
  <2> QED BY <2>1, SubsetsByInduction
<1> QED BY <1>2, <1>3, <1>5, <1>7
-----------------------------------------------------------------------------
(* Fractions in lowest terms: equal numbers are equal pairs. *)
Fractions == Nat \X (Nat \ {0})

\* A number divides another when nothing is left over.
LEMMA DividesIs ==
  ASSUME NEW n \in Nat, NEW k \in Nat \ {0}
  PROVE  /\ n \div k \in Nat
         /\ n % k = 0 <=> n = k * (n \div k)
         /\ \A m \in Nat : n = k * m => n % k = 0 /\ n \div k = m
<1>1. n = k * (n \div k) + (n % k) /\ n \div k \in Int /\ n % k \in 0 .. k - 1
  <2>1. n \div k \in Int
    OBVIOUS
  <2>2. n % k \in 0 .. k - 1
    OBVIOUS
  <2>3. n = k * (n \div k) + (n % k)
    OBVIOUS
  <2> QED BY <2>1, <2>2, <2>3
<1>2. n \div k \in Nat
  OBVIOUS
<1>3. ASSUME NEW m \in Nat, n = k * m PROVE n % k = 0 /\ n \div k = m
  <2> DEFINE q == n \div k
             r == n % k
  <2>1. k * (m - q) = r
    BY <1>1, <1>3
  <2>2. r < k /\ r >= 0
    BY <1>1
  <2> HIDE DEF q, r
  <2>3. m - q = 0
    <3>1. q \in Int /\ r \in Int
      BY <1>1 DEF q, r
    <3>2. CASE m - q >= 1
      <4>1. k * (m - q) >= k
        BY <3>1, <3>2
      <4> QED BY <2>1, <2>2, <3>1, <4>1
    <3>3. CASE m - q <= -1
      <4>1. k * (m - q) <= -k
        BY <3>1, <3>3
      <4> QED BY <2>1, <2>2, <3>1, <4>1
    <3> QED BY <3>1, <3>2, <3>3
  <2> QED BY <2>1, <2>3, <1>1 DEF q, r
<1> QED BY <1>1, <1>2, <1>3

InLowestTerms(q) ==
  \A k \in Nat : \A a, b \in Nat : q[1] = k * a /\ q[2] = k * b => k = 1

\* No fraction equal to one in lowest terms has a smaller denominator.
LEMMA LowestIsSmallest ==
  ASSUME NEW a \in Nat, NEW b \in Nat \ {0}, InLowestTerms(<<a, b>>),
         NEW n \in Nat, NEW d \in Nat \ {0}, n * b = a * d
  PROVE  b <= d
<1> DEFINE D == {m \in Nat \ {0} : \E k \in Nat : k * b = a * m}
<1>1. d \in D /\ D \subseteq Nat
  OBVIOUS
<1>2. PICK m \in D : \A y \in D : ~ (<<y, m>> \in OpToRel(<, Nat))
  <2> HIDE DEF D
  <2> QED BY <1>1, NatLessThanWellFounded, WFMin
<1>3. \A y \in D : m <= y
  <2> TAKE y \in D
  <2>1. ~ (y < m) /\ y \in Nat /\ m \in Nat
    BY <1>2 DEF OpToRel
  <2> QED BY <2>1
<1>4. PICK k \in Nat : k * b = a * m
  OBVIOUS
<1> DEFINE q == b \div m
           r == b % m
<1>5. m \in Nat \ {0}
  OBVIOUS
<1>6. b = m * q + r /\ q \in Nat /\ r \in 0 .. m - 1
  BY <1>5, DividesIs
<1> HIDE DEF D, q, r
<1>7. r = 0
  <2> SUFFICES ASSUME r # 0 PROVE FALSE
    OBVIOUS
  <2>1. (a - q * k) * b = a * r
    <3>1. (a - q * k) * b = a * b - q * (k * b)
      BY <1>6
    <3>2. a * b - q * (a * m) = a * (b - m * q)
      BY <1>5, <1>6
    <3>3. b - m * q = r
      BY <1>5, <1>6
    <3> QED BY <1>4, <3>1, <3>2, <3>3
  <2>2. a - q * k \in Nat
    <3>1. a * r >= 0 /\ a - q * k \in Int
      BY <1>6
    <3>2. \A x \in Int : x * b >= 0 => x >= 0
      OBVIOUS
    <3> QED BY <2>1, <3>1, <3>2
  <2>3. r \in D
    <3>1. r \in Nat \ {0}
      BY <1>5, <1>6
    <3>2. \E i \in Nat : i * b = a * r
      BY <2>1, <2>2
    <3> QED BY <3>1, <3>2 DEF D
  <2> QED BY <1>3, <1>5, <1>6, <2>3
<1>8. b = q * m
  BY <1>5, <1>6, <1>7
<1>9. a = q * k
  <2>1. a * m = (q * k) * m
    BY <1>4, <1>5, <1>6, <1>8
  <2>2. \A x, y \in Int : x * m = y * m => x = y
    BY <1>5
  <2> QED BY <1>6, <2>1, <2>2
<1>10. q = 1
  BY <1>5, <1>6, <1>8, <1>9 DEF InLowestTerms
<1> QED BY <1>1, <1>3, <1>5, <1>8, <1>10

\* Two fractions in lowest terms that are equal as numbers are one fraction.
LEMMA LowestIsUnique ==
  ASSUME NEW x \in Fractions, NEW y \in Fractions, InLowestTerms(x), InLowestTerms(y),
         x[1] * y[2] = y[1] * x[2]
  PROVE  x = y
<1>1. x[1] \in Nat /\ x[2] \in Nat \ {0} /\ y[1] \in Nat /\ y[2] \in Nat \ {0}
      /\ x = <<x[1], x[2]>> /\ y = <<y[1], y[2]>>
  BY DEF Fractions
<1>2. y[2] <= x[2] /\ x[2] <= y[2]
  BY <1>1, LowestIsSmallest
<1>3. x[2] = y[2]
  BY <1>1, <1>2
<1>4. \A m, n \in Nat, d \in Nat \ {0} : m * d = n * d => m = n
  OBVIOUS
<1>5. x[1] = y[1]
  BY <1>1, <1>3, <1>4
<1> QED BY <1>1, <1>3, <1>5

\* Fraction keeps the number, and returns it in lowest terms.
LEMMA FractionIs ==
  ASSUME NEW n \in Nat, NEW d \in Nat \ {0}
  PROVE  /\ Fraction(n, d) \in Fractions
         /\ Fraction(n, d)[1] * d = n * Fraction(n, d)[2]
         /\ InLowestTerms(Fraction(n, d))
<1> DEFINE g == Gcd(n, d)
           a == n \div g
           b == d \div g
<1>1. g \in Nat \ {0} /\ g <= d /\ n % g = 0 /\ d % g = 0
  BY GcdDivides
<1>2. Fraction(n, d) = <<a, b>>
  BY DEF Fraction
<1>3. \A k \in 1 .. d : n % k = 0 /\ d % k = 0 => k <= g
  <2> DEFINE S == {k \in 1 .. d : n % k = 0 /\ d % k = 0}
  <2>1. S \subseteq 1 .. d /\ g = Max(S)
    BY DEF Gcd
  <2>2. 1 \in S
    OBVIOUS
  <2> SUFFICES \A k \in S : k <= g
    OBVIOUS
  <2> HIDE DEF S, g
  <2> QED BY <2>1, <2>2, MaxExists
<1> HIDE DEF g
<1>4. n = g * a /\ d = g * b /\ a \in Nat /\ b \in Nat
  BY <1>1, DividesIs
<1> HIDE DEF a, b
<1>5. b # 0
  BY <1>1, <1>4
<1>6. a * d = n * b
  BY <1>1, <1>4
<1>7. ASSUME NEW k \in Nat, NEW i \in Nat, NEW j \in Nat, a = k * i, b = k * j
      PROVE  k = 1
  <2>1. n = (g * k) * i /\ d = (g * k) * j
    BY <1>1, <1>4, <1>7
  <2>2. k # 0 /\ j # 0
    BY <1>5, <1>7
  <2>3. g * k \in Nat \ {0} /\ g * k <= d
    BY <1>1, <2>1, <2>2
  <2>4. n % (g * k) = 0 /\ d % (g * k) = 0
    <3> DEFINE m == g * k
    <3>1. m \in Nat \ {0} /\ n = m * i /\ d = m * j
      BY <2>1, <2>3
    <3> HIDE DEF m
    <3>2. n % m = 0 /\ d % m = 0
      BY <3>1, DividesIs
    <3> QED BY <3>2 DEF m
  <2>5. g * k <= g
    BY <1>3, <2>3, <2>4
  <2>6. \A p, q \in Nat \ {0} : p * q <= p => q = 1
    OBVIOUS
  <2> QED BY <1>1, <2>2, <2>5, <2>6
<1>8. <<a, b>> \in Fractions /\ <<a, b>>[1] * d = n * <<a, b>>[2]
  BY <1>4, <1>5, <1>6 DEF Fractions
<1>9. InLowestTerms(<<a, b>>)
  BY <1>7 DEF InLowestTerms
<1> QED BY <1>2, <1>8, <1>9

\* Fraction gives equal numbers one value, whatever it is given them as.
LEMMA FractionsAreEqual ==
  ASSUME NEW n \in Nat, NEW d \in Nat \ {0}, NEW m \in Nat, NEW e \in Nat \ {0},
         n * e = m * d
  PROVE  Fraction(n, d) = Fraction(m, e)
<1> DEFINE x == Fraction(n, d)
           y == Fraction(m, e)
<1>1. /\ x \in Fractions /\ x[1] * d = n * x[2] /\ InLowestTerms(x)
      /\ y \in Fractions /\ y[1] * e = m * y[2] /\ InLowestTerms(y)
  BY FractionIs
<1> HIDE DEF x, y
<1>2. x[1] \in Nat /\ x[2] \in Nat \ {0} /\ y[1] \in Nat /\ y[2] \in Nat \ {0}
  BY <1>1 DEF Fractions
<1>3. (x[1] * y[2]) * (d * e) = (y[1] * x[2]) * (d * e)
  <2>1. (x[1] * y[2]) * (d * e) = (x[1] * d) * (y[2] * e)
    BY <1>2
  <2>2. (n * x[2]) * (y[2] * e) = (n * e) * (x[2] * y[2])
    BY <1>2
  <2>3. (m * d) * (x[2] * y[2]) = (m * y[2]) * (x[2] * d)
    BY <1>2
  <2>4. (y[1] * e) * (x[2] * d) = (y[1] * x[2]) * (d * e)
    BY <1>2
  <2> QED BY <1>1, <2>1, <2>2, <2>3, <2>4
<1>4. x[1] * y[2] = y[1] * x[2]
  <2>1. \A p, q \in Nat, k \in Nat \ {0} : p * k = q * k => p = q
    OBVIOUS
  <2>2. d * e \in Nat \ {0} /\ x[1] * y[2] \in Nat /\ y[1] * x[2] \in Nat
    BY <1>2
  <2> QED BY <1>3, <2>1, <2>2
<1>5. x = y
  BY <1>1, <1>4, LowestIsUnique
<1> QED BY <1>5 DEF x, y

-----------------------------------------------------------------------------
\* q is the number n / d.
Is(q, n, d) == q[1] * d = n * q[2]

\* 0 is a fraction in lowest terms, ...
LEMMA ZeroIs == Zero \in Fractions /\ InLowestTerms(Zero) /\ Is(Zero, 0, 1)
BY DEF Zero, Fractions, InLowestTerms, Is

\* ... and the only one with that numerator.
LEMMA OnlyZeroIsZero ==
  ASSUME NEW q \in Fractions, InLowestTerms(q), q[1] = 0
  PROVE  q = Zero
<1>1. q[2] \in Nat \ {0} /\ q = <<q[1], q[2]>>
  BY DEF Fractions
<1>2. q[1] = q[2] * 0 /\ q[2] = q[2] * 1
  BY <1>1
<1>3. q[2] = 1
  BY <1>1, <1>2 DEF InLowestTerms
<1> QED BY <1>1, <1>3 DEF Zero

\* Plus gives a fraction in lowest terms, the sum of what its arguments are.
LEMMA PlusIs ==
  ASSUME NEW x \in Fractions, NEW y \in Fractions
  PROVE  /\ Plus(x, y) \in Fractions /\ InLowestTerms(Plus(x, y))
         /\ \A n, m \in Nat, d, e \in Nat \ {0} :
              Is(x, n, d) /\ Is(y, m, e) => Is(Plus(x, y), n * e + m * d, d * e)
<1> DEFINE N == x[1] * y[2] + y[1] * x[2]
           D == x[2] * y[2]
           q == Fraction(N, D)
<1>1. x[1] \in Nat /\ x[2] \in Nat \ {0} /\ y[1] \in Nat /\ y[2] \in Nat \ {0}
  BY DEF Fractions
<1>2. N \in Nat /\ D \in Nat \ {0}
  BY <1>1
<1> HIDE DEF N, D
<1>3. q \in Fractions /\ q[1] * D = N * q[2] /\ InLowestTerms(q)
  BY <1>2, FractionIs
<1>4. Plus(x, y) = q
  BY DEF Plus, N, D
<1> HIDE DEF q
<1>5. ASSUME NEW n \in Nat, NEW m \in Nat, NEW d \in Nat \ {0}, NEW e \in Nat \ {0},
             x[1] * d = n * x[2], y[1] * e = m * y[2]
      PROVE  q[1] * (d * e) = (n * e + m * d) * q[2]
  <2>1. q[1] \in Nat /\ q[2] \in Nat \ {0}
    BY <1>3 DEF Fractions
  <2>2. N * (d * e) = (n * e + m * d) * D
    <3>1. N * (d * e) = (x[1] * d) * (y[2] * e) + (y[1] * e) * (x[2] * d)
      BY <1>1 DEF N
    <3>2. (n * x[2]) * (y[2] * e) + (m * y[2]) * (x[2] * d) = (n * e + m * d) * D
      BY <1>1 DEF D
    <3> QED BY <1>5, <3>1, <3>2
  <2>3. (q[1] * (d * e)) * D = ((n * e + m * d) * q[2]) * D
    <3>1. (q[1] * (d * e)) * D = (q[1] * D) * (d * e)
      BY <1>2, <2>1
    <3>2. (N * q[2]) * (d * e) = (N * (d * e)) * q[2]
      BY <1>2, <2>1
    <3>3. ((n * e + m * d) * D) * q[2] = ((n * e + m * d) * q[2]) * D
      BY <1>2, <2>1
    <3> QED BY <1>3, <2>2, <3>1, <3>2, <3>3
  <2>4. \A a, b \in Nat, k \in Nat \ {0} : a * k = b * k => a = b
    OBVIOUS
  <2>5. q[1] * (d * e) \in Nat /\ (n * e + m * d) * q[2] \in Nat
    BY <2>1
  <2> QED BY <1>2, <2>3, <2>4, <2>5
<1> QED BY <1>3, <1>4, <1>5 DEF Is

\* Times does so with the product.
LEMMA TimesIs ==
  ASSUME NEW x \in Fractions, NEW y \in Fractions
  PROVE  /\ Times(x, y) \in Fractions /\ InLowestTerms(Times(x, y))
         /\ \A n, m \in Nat, d, e \in Nat \ {0} :
              Is(x, n, d) /\ Is(y, m, e) => Is(Times(x, y), n * m, d * e)
<1> DEFINE N == x[1] * y[1]
           D == x[2] * y[2]
           q == Fraction(N, D)
<1>1. x[1] \in Nat /\ x[2] \in Nat \ {0} /\ y[1] \in Nat /\ y[2] \in Nat \ {0}
  BY DEF Fractions
<1>2. N \in Nat /\ D \in Nat \ {0}
  BY <1>1
<1> HIDE DEF N, D
<1>3. q \in Fractions /\ q[1] * D = N * q[2] /\ InLowestTerms(q)
  BY <1>2, FractionIs
<1>4. Times(x, y) = q
  BY DEF Times, N, D
<1> HIDE DEF q
<1>5. ASSUME NEW n \in Nat, NEW m \in Nat, NEW d \in Nat \ {0}, NEW e \in Nat \ {0},
             x[1] * d = n * x[2], y[1] * e = m * y[2]
      PROVE  q[1] * (d * e) = (n * m) * q[2]
  <2>1. q[1] \in Nat /\ q[2] \in Nat \ {0}
    BY <1>3 DEF Fractions
  <2>2. N * (d * e) = (n * m) * D
    <3>1. N * (d * e) = (x[1] * d) * (y[1] * e)
      BY <1>1 DEF N
    <3>2. (n * x[2]) * (m * y[2]) = (n * m) * D
      BY <1>1 DEF D
    <3> QED BY <1>5, <3>1, <3>2
  <2>3. (q[1] * (d * e)) * D = ((n * m) * q[2]) * D
    <3>1. (q[1] * (d * e)) * D = (q[1] * D) * (d * e)
      BY <1>2, <2>1
    <3>2. (N * q[2]) * (d * e) = (N * (d * e)) * q[2]
      BY <1>2, <2>1
    <3>3. ((n * m) * D) * q[2] = ((n * m) * q[2]) * D
      BY <1>2, <2>1
    <3> QED BY <1>3, <2>2, <3>1, <3>2, <3>3
  <2>4. \A a, b \in Nat, k \in Nat \ {0} : a * k = b * k => a = b
    OBVIOUS
  <2>5. q[1] * (d * e) \in Nat /\ (n * m) * q[2] \in Nat
    BY <2>1
  <2> QED BY <1>2, <2>3, <2>4, <2>5
<1> QED BY <1>3, <1>4, <1>5 DEF Is

\* A fraction keeps its value when both its terms are multiplied.
LEMMA IsMultiplied ==
  ASSUME NEW q \in Fractions, NEW n \in Nat, NEW d \in Nat \ {0}, NEW k \in Nat \ {0},
         Is(q, n, d)
  PROVE  Is(q, n * k, d * k)
<1>1. q[1] \in Nat /\ q[2] \in Nat
  BY DEF Fractions
<1>2. q[1] * (d * k) = (q[1] * d) * k /\ (n * k) * q[2] = (n * q[2]) * k
  BY <1>1
<1> QED BY <1>2 DEF Is

-----------------------------------------------------------------------------
(* The Cauchy-Schwarz inequality. *)

\* From d^2 <= a b: twice d is at most a z^2 + b x^2 over x z, as the mean of two
\* numbers is not below the root of their product.
LEMMA MeansAreOrdered ==
  ASSUME NEW a \in Nat, NEW b \in Nat, NEW d \in Nat, NEW x \in Nat, NEW z \in Nat,
         d * d <= a * b
  PROVE  2 * (d * (x * z)) <= a * (z * z) + b * (x * x)
<1> DEFINE p == a * (z * z)
           q == b * (x * x)
           r == d * (x * z)
<1>1. p \in Nat /\ q \in Nat /\ r \in Nat
  OBVIOUS
<1>2. r * r <= p * q
  <2>1. r * r = (d * d) * ((x * z) * (x * z)) /\ p * q = (a * b) * ((x * z) * (x * z))
    OBVIOUS
  <2>2. \A i, j, k \in Nat : i <= j => i * k <= j * k
    OBVIOUS
  <2>3. (d * d) \in Nat /\ (a * b) \in Nat /\ ((x * z) * (x * z)) \in Nat
    OBVIOUS
  <2> HIDE DEF p, q, r
  <2> QED BY <2>1, <2>2, <2>3
<1> HIDE DEF p, q, r
<1>3. 4 * (p * q) <= (p + q) * (p + q)
  <2>1. (p + q) * (p + q) - 4 * (p * q) = (p - q) * (p - q)
    BY <1>1
  <2>2. (p - q) * (p - q) >= 0
    BY <1>1
  <2> QED BY <1>1, <2>1, <2>2
<1>4. (2 * r) * (2 * r) <= (p + q) * (p + q)
  BY <1>1, <1>2, <1>3
<1>5. \A i, j \in Nat : i * i <= j * j => i <= j
  OBVIOUS
<1>6. 2 * r <= p + q
  BY <1>1, <1>4, <1>5
<1> QED BY <1>6 DEF p, q, r

\* One term more on both sides.
LEMMA SchwarzStep ==
  ASSUME NEW a \in Nat, NEW b \in Nat, NEW d \in Nat, NEW x \in Nat, NEW z \in Nat,
         NEW m \in Nat, NEW p \in Nat, d * d <= a * b
  PROVE  ((x * z) * m + d * p) * ((x * z) * m + d * p) <=
           ((x * x) * m + a * p) * ((z * z) * m + b * p)
<1> DEFINE s == a * (z * z) + b * (x * x)
           r == d * (x * z)
           t == ((x * z) * m) * ((x * z) * m)
<1>1. 2 * r <= s /\ r \in Nat /\ s \in Nat
  BY MeansAreOrdered
<1>2. ((x * z) * m + d * p) * ((x * z) * m + d * p) =
        t + (2 * r) * (m * p) + (d * d) * (p * p)
  OBVIOUS
<1>3. ((x * x) * m + a * p) * ((z * z) * m + b * p) =
        t + s * (m * p) + (a * b) * (p * p)
  OBVIOUS
<1>4. t \in Nat /\ m * p \in Nat /\ p * p \in Nat /\ d * d \in Nat /\ a * b \in Nat
  OBVIOUS
<1> HIDE DEF r, s, t
<1>5. \A i, j, k \in Nat : i <= j => i * k <= j * k
  OBVIOUS
<1>6. (2 * r) * (m * p) <= s * (m * p) /\ (d * d) * (p * p) <= (a * b) * (p * p)
  BY <1>1, <1>4, <1>5
<1>7. /\ (2 * r) * (m * p) \in Nat /\ s * (m * p) \in Nat
      /\ (d * d) * (p * p) \in Nat /\ (a * b) * (p * p) \in Nat
  BY <1>1, <1>4
<1>8. t + (2 * r) * (m * p) + (d * d) * (p * p) <= t + s * (m * p) + (a * b) * (p * p)
  BY <1>4, <1>6, <1>7
<1> QED BY <1>2, <1>3, <1>8

\* The equation the sum of fractions solves.
IsDotOf(g, f, S) ==
  g = [T \in SUBSET S |-> IF T = {} THEN Zero ELSE Plus(f[Pick(T)], g[T \ {Pick(T)}])]

\* The fold of Dot is such a solution.
LEMMA DotSolves ==
  ASSUME NEW S, IsFiniteSet(S), NEW f, \A x \in S : f[x] \in Fractions
  PROVE  \E g \in [SUBSET S -> Fractions] :
           /\ IsDotOf(g, f, S)
           /\ FoldFunctionOnSet(Plus, Zero, f, S) = g[S]
<1> DEFINE step == [p \in S \X Fractions |-> Plus(f[p[1]], p[2])]
           G == CHOOSE g : IsDotOf(g, f, S)
<1>1. step \in [S \X Fractions -> Fractions]
  BY PlusIs
<1>2. PICK g \in [SUBSET S -> Fractions] : FoldsWith(g, S, Zero, step)
  <2> HIDE DEF step
  <2> QED BY <1>1, ZeroIs, FoldExists
<1>3. \A T \in SUBSET S : g[T] = IF T = {} THEN Zero
                                 ELSE Plus(f[Pick(T)], g[T \ {Pick(T)}])
  <2> TAKE T \in SUBSET S
  <2> SUFFICES ASSUME T # {} PROVE g[T] = Plus(f[Pick(T)], g[T \ {Pick(T)}])
    BY <1>2 DEF FoldsWith
  <2>1. Pick(T) \in S /\ g[T \ {Pick(T)}] \in Fractions
    BY DEF Pick
  <2> QED BY <1>2, <2>1 DEF FoldsWith
<1>4. IsDotOf(g, f, S)
  BY <1>3 DEF IsDotOf
<1>5. IsDotOf(G, f, S)
  BY <1>4
<1>6. FoldFunctionOnSet(Plus, Zero, f, S) = G[S]
  BY DEF FoldFunctionOnSet, MapThenFoldSet, IsDotOf, Pick
<1> HIDE DEF G
<1> DEFINE F == {T \in SUBSET S : G[T] \in Fractions}
<1>7. ASSUME NEW T \in SUBSET S, \A x \in T : T \ {x} \in F PROVE T \in F
  <2>1. T # {} => Pick(T) \in T
    BY DEF Pick
  <2>2. T # {} => f[Pick(T)] \in Fractions /\ G[T \ {Pick(T)}] \in Fractions
    BY <1>7, <2>1
  <2>3. G[T] = IF T = {} THEN Zero ELSE Plus(f[Pick(T)], G[T \ {Pick(T)}])
    BY <1>5 DEF IsDotOf
  <2> QED BY <2>2, <2>3, PlusIs, ZeroIs
<1>8. \A T \in SUBSET S : T \in F
  <2> HIDE DEF F
  <2>1. Inductive(F, S)
    BY <1>7 DEF Inductive
  <2> QED BY <2>1, SubsetsByInduction
<1>9. G \in [SUBSET S -> Fractions]
  BY <1>5, <1>8 DEF IsDotOf
<1> QED BY <1>5, <1>6, <1>9

Products(v, w) == [c \in FeatureColumns |-> Times(v[c], w[c])]

\* What v . w, v . v and w . w are over a common denominator.
Schwarz(vw, vv, ww) ==
  \E m \in Nat \ {0}, d, a, b \in Nat :
    Is(vw, d, m) /\ Is(vv, a, m) /\ Is(ww, b, m) /\ d * d <= a * b

\* Adding one column to the three products keeps the inequality.
LEMMA SchwarzPlus ==
  ASSUME NEW x \in Fractions, NEW y \in Fractions,
         NEW vw \in Fractions, NEW vv \in Fractions, NEW ww \in Fractions,
         Schwarz(vw, vv, ww)
  PROVE  Schwarz(Plus(Times(x, y), vw), Plus(Times(x, x), vv), Plus(Times(y, y), ww))
<1>1. PICK m \in Nat \ {0}, d, a, b \in Nat :
        Is(vw, d, m) /\ Is(vv, a, m) /\ Is(ww, b, m) /\ d * d <= a * b
  BY DEF Schwarz
<1>2. x[1] \in Nat /\ x[2] \in Nat \ {0} /\ y[1] \in Nat /\ y[2] \in Nat \ {0}
      /\ Is(x, x[1], x[2]) /\ Is(y, y[1], y[2])
  BY DEF Fractions, Is
<1> DEFINE X == x[1] * y[2]
           Z == y[1] * x[2]
           p == (x[2] * y[2]) * (x[2] * y[2])
<1>3. X \in Nat /\ Z \in Nat /\ p \in Nat \ {0}
  <2>1. \A i, j \in Nat \ {0} : i * j \in Nat \ {0}
    OBVIOUS
  <2>2. x[2] * y[2] \in Nat \ {0}
    BY <1>2, <2>1
  <2>3. p \in Nat \ {0}
    BY <2>1, <2>2
  <2> QED BY <1>2, <2>3
<1>4. Is(Times(x, y), X * Z, p)
  <2>1. Is(Times(x, y), x[1] * y[1], x[2] * y[2])
    BY <1>2, TimesIs
  <2>2. x[1] * y[1] \in Nat /\ x[2] * y[2] \in Nat \ {0} /\ Times(x, y) \in Fractions
    BY <1>2, TimesIs
  <2>3. Is(Times(x, y), (x[1] * y[1]) * (x[2] * y[2]), (x[2] * y[2]) * (x[2] * y[2]))
    BY <2>1, <2>2, IsMultiplied
  <2>4. (x[1] * y[1]) * (x[2] * y[2]) = X * Z
    BY <1>2
  <2> QED BY <2>3, <2>4
<1>5. Is(Times(x, x), X * X, p)
  <2>1. Is(Times(x, x), x[1] * x[1], x[2] * x[2])
    BY <1>2, TimesIs
  <2>2. /\ x[1] * x[1] \in Nat /\ x[2] * x[2] \in Nat \ {0} /\ Times(x, x) \in Fractions
        /\ y[2] * y[2] \in Nat \ {0}
    BY <1>2, TimesIs
  <2>3. Is(Times(x, x), (x[1] * x[1]) * (y[2] * y[2]), (x[2] * x[2]) * (y[2] * y[2]))
    BY <2>1, <2>2, IsMultiplied
  <2>4. (x[1] * x[1]) * (y[2] * y[2]) = X * X /\ (x[2] * x[2]) * (y[2] * y[2]) = p
    BY <1>2
  <2> QED BY <2>3, <2>4
<1>6. Is(Times(y, y), Z * Z, p)
  <2>1. Is(Times(y, y), y[1] * y[1], y[2] * y[2])
    BY <1>2, TimesIs
  <2>2. /\ y[1] * y[1] \in Nat /\ y[2] * y[2] \in Nat \ {0} /\ Times(y, y) \in Fractions
        /\ x[2] * x[2] \in Nat \ {0}
    BY <1>2, TimesIs
  <2>3. Is(Times(y, y), (y[1] * y[1]) * (x[2] * x[2]), (y[2] * y[2]) * (x[2] * x[2]))
    BY <2>1, <2>2, IsMultiplied
  <2>4. (y[1] * y[1]) * (x[2] * x[2]) = Z * Z /\ (y[2] * y[2]) * (x[2] * x[2]) = p
    BY <1>2
  <2> QED BY <2>3, <2>4
<1> HIDE DEF X, Z, p
<1>7. /\ X * Z \in Nat /\ X * X \in Nat /\ Z * Z \in Nat
      /\ Times(x, y) \in Fractions /\ Times(x, x) \in Fractions /\ Times(y, y) \in Fractions
  BY <1>3, TimesIs
<1>8. /\ Is(Plus(Times(x, y), vw), (X * Z) * m + d * p, p * m)
      /\ Is(Plus(Times(x, x), vv), (X * X) * m + a * p, p * m)
      /\ Is(Plus(Times(y, y), ww), (Z * Z) * m + b * p, p * m)
  BY <1>1, <1>3, <1>4, <1>5, <1>6, <1>7, PlusIs
<1>9. ((X * Z) * m + d * p) * ((X * Z) * m + d * p) <=
        ((X * X) * m + a * p) * ((Z * Z) * m + b * p)
  BY <1>1, <1>3, SchwarzStep
<1>10. /\ p * m \in Nat \ {0}
       /\ (X * Z) * m + d * p \in Nat /\ (X * X) * m + a * p \in Nat
       /\ (Z * Z) * m + b * p \in Nat
  BY <1>3, <1>7
<1> QED BY <1>8, <1>9, <1>10 DEF Schwarz

\* There are at most nine columns.
LEMMA ColumnsAreFinite == IsFiniteSet(FeatureColumns)
<1> DEFINE A == {"total_interactions", "correct_count", "incorrect_count"}
           B == {"accuracy_rate", "avg_response_time_ms", "total_elapsed_time_ms"}
           C == {"unique_questions_attempted", "unique_lectures_viewed", "active_days"}
<1>2. \A x, y, z : IsFiniteSet({x, y, z})
  <2> TAKE x, y, z
  <2>1. IsFiniteSet({x})
    BY FS_Singleton
  <2>2. IsFiniteSet({x} \cup {y})
    BY <2>1, FS_AddElement
  <2>3. IsFiniteSet(({x} \cup {y}) \cup {z})
    BY <2>2, FS_AddElement
  <2>4. {x, y, z} = ({x} \cup {y}) \cup {z}
    OBVIOUS
  <2> QED BY <2>3, <2>4
<1>3. IsFiniteSet(A) /\ IsFiniteSet(B) /\ IsFiniteSet(C)
  BY <1>2
<1> HIDE DEF A, B, C
<1>4. IsFiniteSet(A \cup B)
  BY <1>3, FS_Union
<1>5. IsFiniteSet((A \cup B) \cup C)
  BY <1>3, <1>4, FS_Union
<1>6. FeatureColumns \subseteq (A \cup B) \cup C
  BY FeaturesAssumption DEF A, B, C
<1> QED BY <1>5, <1>6, FS_Subset

\* A dot product, column after column.
LEMMA DotRecursion ==
  ASSUME NEW v, NEW w, \A c \in FeatureColumns : v[c] \in Fractions /\ w[c] \in Fractions
  PROVE  \E f \in [SUBSET FeatureColumns -> Fractions] :
           IsDotOf(f, Products(v, w), FeatureColumns) /\ Dot(v, w) = f[FeatureColumns]
<1>1. \A c \in FeatureColumns : Products(v, w)[c] \in Fractions
  BY TimesIs DEF Products
<1>2. Dot(v, w) = FoldFunctionOnSet(Plus, Zero, Products(v, w), FeatureColumns)
  BY DEF Dot, FoldFunction, Products
<1> QED BY <1>1, <1>2, ColumnsAreFinite, DotSolves

\* A vector of fractions and its dot products.
LEMMA DotIsAFraction ==
  ASSUME NEW v, NEW w, \A c \in FeatureColumns : v[c] \in Fractions /\ w[c] \in Fractions
  PROVE  /\ Dot(v, w) \in Fractions /\ InLowestTerms(Dot(v, w))
         /\ Dot(v, w) = Dot(w, v)
         /\ Schwarz(Dot(v, w), Dot(v, v), Dot(w, w))
<1> DEFINE S == FeatureColumns
<1>1. \A c \in S : /\ Products(v, w)[c] = Times(v[c], w[c])
                   /\ Products(v, v)[c] = Times(v[c], v[c])
                   /\ Products(w, w)[c] = Times(w[c], w[c])
  BY DEF Products
<1>3. PICK f \in [SUBSET S -> Fractions] : IsDotOf(f, Products(v, w), S) /\ Dot(v, w) = f[S]
  BY DotRecursion
<1>4. PICK g \in [SUBSET S -> Fractions] : IsDotOf(g, Products(v, v), S) /\ Dot(v, v) = g[S]
  BY DotRecursion
<1>5. PICK h \in [SUBSET S -> Fractions] : IsDotOf(h, Products(w, w), S) /\ Dot(w, w) = h[S]
  BY DotRecursion
<1> DEFINE F == {T \in SUBSET S : InLowestTerms(f[T]) /\ Schwarz(f[T], g[T], h[T])}
<1>6. ASSUME NEW T \in SUBSET S, \A x \in T : T \ {x} \in F PROVE T \in F
  <2>1. /\ f[T] = IF T = {} THEN Zero ELSE Plus(Products(v, w)[Pick(T)], f[T \ {Pick(T)}])
        /\ g[T] = IF T = {} THEN Zero ELSE Plus(Products(v, v)[Pick(T)], g[T \ {Pick(T)}])
        /\ h[T] = IF T = {} THEN Zero ELSE Plus(Products(w, w)[Pick(T)], h[T \ {Pick(T)}])
    BY <1>3, <1>4, <1>5 DEF IsDotOf
  <2>2. CASE T = {}
    <3>1. Schwarz(Zero, Zero, Zero)
      <4>1. 0 \in Nat /\ 1 \in Nat \ {0} /\ 0 * 0 <= 0 * 0
        OBVIOUS
      <4> QED BY <4>1, ZeroIs DEF Schwarz
    <3> QED BY <2>1, <2>2, <3>1, ZeroIs
  <2>3. CASE T # {}
    <3> DEFINE p == Pick(T)
               U == T \ {p}
    <3>1. p \in T /\ U \in F
      BY <1>6, <2>3 DEF Pick
    <3>2. /\ f[T] = Plus(Times(v[p], w[p]), f[U])
          /\ g[T] = Plus(Times(v[p], v[p]), g[U])
          /\ h[T] = Plus(Times(w[p], w[p]), h[U])
      BY <1>1, <2>1, <2>3, <3>1
    <3>3. /\ v[p] \in Fractions /\ w[p] \in Fractions /\ Times(v[p], w[p]) \in Fractions
          /\ f[U] \in Fractions /\ g[U] \in Fractions /\ h[U] \in Fractions
      BY <3>1, TimesIs
    <3>4. Schwarz(f[U], g[U], h[U])
      BY <3>1
    <3> HIDE DEF p, U
    <3>5. Schwarz(f[T], g[T], h[T])
      BY <3>2, <3>3, <3>4, SchwarzPlus
    <3>6. InLowestTerms(f[T])
      BY <3>2, <3>3, PlusIs
    <3> QED BY <3>5, <3>6
  <2> QED BY <2>2, <2>3
<1>7. \A T \in SUBSET S : T \in F
  <2> HIDE DEF F
  <2>1. Inductive(F, S)
    BY <1>6 DEF Inductive
  <2> QED BY <2>1, ColumnsAreFinite, SubsetsByInduction
<1>8. Products(v, w) = Products(w, v)
  <2>1. \A c \in S : Times(v[c], w[c]) = Times(w[c], v[c])
    <3> TAKE c \in S
    <3>1. v[c][1] \in Nat /\ v[c][2] \in Nat /\ w[c][1] \in Nat /\ w[c][2] \in Nat
      BY DEF Fractions
    <3>2. v[c][1] * w[c][1] = w[c][1] * v[c][1] /\ v[c][2] * w[c][2] = w[c][2] * v[c][2]
      BY <3>1
    <3> QED BY <3>2 DEF Times
  <2> QED BY <2>1 DEF Products
<1>9. Dot(v, w) = Dot(w, v)
  BY <1>8 DEF Dot, FoldFunction, Products
<1>10. S \in F
  BY <1>7
<1>11. Dot(v, w) \in Fractions
  BY <1>3
<1> QED BY <1>3, <1>4, <1>5, <1>9, <1>10, <1>11
-----------------------------------------------------------------------------
\* The row that enrich_interactions makes of an interaction and its match.
Joined(r, q) == [row |-> r, question |-> q, is_correct |-> IsCorrect(r, q),
                 response_time_ms |-> ResponseTime(r)]

\* Every joined row is an interaction with a match, and none is missing.
LEMMA EnrichedRows ==
  ASSUME NEW rows, NEW asked
  PROVE  /\ \A e \in EnrichInteractions(rows, asked) :
              /\ e.row \in rows
              /\ e.question \in Matches(e.row, asked)
              /\ e = Joined(e.row, e.question)
         /\ \A r \in rows : \A q \in Matches(r, asked) :
              Joined(r, q) \in EnrichInteractions(rows, asked)
<1>1. ASSUME NEW e \in EnrichInteractions(rows, asked)
      PROVE  /\ e.row \in rows
             /\ e.question \in Matches(e.row, asked)
             /\ e = Joined(e.row, e.question)
  <2>1. EnrichInteractions(rows, asked) =
          UNION {{Joined(r, q) : q \in Matches(r, asked)} : r \in rows}
    BY DEF EnrichInteractions, Joined
  <2>2. PICK r \in rows : e \in {Joined(r, q) : q \in Matches(r, asked)}
    BY <2>1
  <2>3. PICK q \in Matches(r, asked) : e = Joined(r, q)
    BY <2>2
  <2>4. e.row = r /\ e.question = q
    BY <2>3 DEF Joined
  <2> QED BY <2>3, <2>4
<1>2. ASSUME NEW r \in rows, NEW q \in Matches(r, asked)
      PROVE  Joined(r, q) \in EnrichInteractions(rows, asked)
  BY DEF EnrichInteractions, Joined
<1> QED BY <1>1, <1>2

\* What the parts of a joined row are.
LEMMA JoinedIs ==
  ASSUME NEW r, NEW q
  PROVE  /\ Joined(r, q).row = r
         /\ Joined(r, q).question = q
         /\ Joined(r, q).is_correct = IsCorrect(r, q)
BY DEF Joined

\* A left join loses nothing, and finds one row where ids are unique.
LEMMA MatchesOfARow ==
  ASSUME NEW asked, NEW r
  PROVE  /\ Matches(r, asked) # {}
         /\ Matches(r, asked) \subseteq asked \cup {NoQuestion}
         /\ (\A p, q \in asked : p.id = q.id => p = q) =>
              \A p, q \in Matches(r, asked) : p = q
         /\ CorrectnessJoin =>
              /\ \A q \in asked : q.id = r.item => q \in Matches(r, asked)
              /\ \A q \in Matches(r, asked) :
                   q = NoQuestion \/ (q \in asked /\ q.id = r.item)
BY DEF Matches

\* The join of finite tables is finite: its rows can be counted.
LEMMA EnrichedIsFinite ==
  ASSUME NEW rows, NEW asked, IsFiniteSet(rows), IsFiniteSet(asked)
  PROVE  IsFiniteSet(EnrichInteractions(rows, asked))
<1> DEFINE P == rows \X (asked \cup {NoQuestion})
           j == [p \in P |-> Joined(p[1], p[2])]
           T == {j[p] : p \in P}
<1>1. IsFiniteSet(P)
  <2>1. IsFiniteSet({NoQuestion})
    BY FS_Singleton
  <2> QED BY <2>1, FS_Union, FS_Product
<1>2. IsFiniteSet(T)
  <2>1. DOMAIN j = P /\ j = [p \in DOMAIN j |-> j[p]]
    OBVIOUS
  <2> HIDE DEF j, P
  <2> QED BY <1>1, <2>1, ImageCount
<1>3. ASSUME NEW e \in EnrichInteractions(rows, asked)
      PROVE  e \in T
  <2> DEFINE p == <<e.row, e.question>>
  <2>1. p \in P /\ e = j[p]
    BY EnrichedRows, MatchesOfARow
  <2> QED BY <2>1
<1> HIDE DEF T
<1> QED BY <1>2, <1>3, FS_Subset

\* Joined rows count the interactions they come from at most once, and once if no two
\* come from one.
LEMMA OriginCount ==
  ASSUME NEW O, IsFiniteSet(O)
  PROVE  LET R == {e.row : e \in O}
         IN  /\ IsFiniteSet(R)
             /\ Cardinality(R) <= Cardinality(O)
             /\ (\A a, b \in O : a.row = b.row => a = b) =>
                  Cardinality(R) = Cardinality(O)
<1> DEFINE f == [e \in O |-> e.row]
<1>1. DOMAIN f = O /\ f = [e \in DOMAIN f |-> f[e]] /\ \A e \in O : f[e] = e.row
  OBVIOUS
<1> HIDE DEF f
<1>2. (\A a, b \in O : a.row = b.row => a = b) => IsInjective(f)
  BY <1>1 DEF IsInjective
<1>3. {f[e] : e \in DOMAIN f} = {e.row : e \in O}
  BY <1>1
<1> QED BY <1>1, <1>2, <1>3, ImageCount

-----------------------------------------------------------------------------
\* A student's joined rows are those of the student's interactions, none missing.
LEMMA RowsOfAStudent ==
  ASSUME NEW rows, NEW asked, NEW u
  PROVE  /\ \A e \in RowsOf(EnrichInteractions(rows, asked), u) :
              e.row \in rows /\ e.row.user = u
         /\ \A r \in rows : r.user = u =>
              \E e \in RowsOf(EnrichInteractions(rows, asked), u) : e.row = r
<1>1. \A e \in RowsOf(EnrichInteractions(rows, asked), u) :
        e.row \in rows /\ e.row.user = u
  BY EnrichedRows DEF RowsOf
<1>2. ASSUME NEW r \in rows, r.user = u
      PROVE  \E e \in RowsOf(EnrichInteractions(rows, asked), u) : e.row = r
  <2>1. PICK q : q \in Matches(r, asked)
    BY MatchesOfARow
  <2>2. Joined(r, q) \in EnrichInteractions(rows, asked) /\ Joined(r, q).row = r
    BY <2>1, EnrichedRows, JoinedIs
  <2> QED BY <1>2, <2>2 DEF RowsOf
<1> QED BY <1>1, <1>2

\* Where question ids are unique, an interaction is in one joined row.
LEMMA Unjoined ==
  ASSUME NEW rows, NEW asked, \A p, q \in asked : p.id = q.id => p = q,
         NEW a \in EnrichInteractions(rows, asked),
         NEW b \in EnrichInteractions(rows, asked), a.row = b.row
  PROVE  a = b
<1>1. a = Joined(a.row, a.question) /\ b = Joined(b.row, b.question)
  BY EnrichedRows
<1>2. a.question \in Matches(a.row, asked) /\ b.question \in Matches(b.row, asked)
  BY EnrichedRows
<1>3. a.question = b.question
  BY <1>2, MatchesOfARow
<1> QED BY <1>1, <1>3

-----------------------------------------------------------------------------
\* The marks that IsCorrect gives.
LEMMA MarkedRows ==
  ASSUME NEW rows, NEW asked, NEW e \in EnrichInteractions(rows, asked)
  PROVE  /\ e.is_correct \in {0, 1} <=>
              e.row.action = "respond" /\ e.question.answer # Null
         /\ e.is_correct = 1 => e.row.action = "respond"
<1>1. e.is_correct = IsCorrect(e.row, e.question)
  BY EnrichedRows, JoinedIs
<1>2. Null \notin {0, 1}
  BY FeaturesAssumption
<1> QED BY <1>1, <1>2 DEF IsCorrect

\* Accuracy is a share of the answers.
LEMMA AccuracyIsAShare ==
  ASSUME NEW rows, NEW asked, NEW u, IsFiniteSet(rows), IsFiniteSet(asked)
  PROVE  AtMost(AccuracyRate(RowsOf(EnrichInteractions(rows, asked), u)), One)
<1> DEFINE E == RowsOf(EnrichInteractions(rows, asked), u)
<1>1. IsFiniteSet(E)
  BY EnrichedIsFinite, FS_Subset DEF RowsOf
<1>2. Marked(E, 1) \subseteq Responds(E)
  BY MarkedRows DEF Marked, Responds, RowsOf
<1> HIDE DEF E
<1>3. IsFiniteSet(Responds(E))
  BY <1>1, FS_Subset DEF Responds
<1>4. /\ IsFiniteSet(Marked(E, 1))
      /\ Cardinality(Marked(E, 1)) <= Cardinality(Responds(E))
      /\ Cardinality(Marked(E, 1)) \in Nat /\ Cardinality(Responds(E)) \in Nat
  BY <1>2, <1>3, FS_Subset, FS_CardinalityType
<1>5. AtMost(AccuracyRate(E), One)
  <2>1. CASE Responds(E) = {}
    BY <2>1 DEF AccuracyRate, AtMost, Zero, One
  <2>2. CASE Responds(E) # {}
    <3>1. Cardinality(Responds(E)) \in Nat \ {0}
      BY <1>3, <1>4, <2>2, FS_EmptySet
    <3> QED BY <1>4, <2>2, <3>1, ShareAtMostOne DEF AccuracyRate
  <2> QED BY <2>1, <2>2
<1> QED BY <1>5 DEF E

\* What two disjoint sets hold adds up.
LEMMA DisjointCount ==
  ASSUME NEW S, NEW T, IsFiniteSet(S), IsFiniteSet(T), S \cap T = {}
  PROVE  IsFiniteSet(S \cup T) /\ Cardinality(S \cup T) = Cardinality(S) + Cardinality(T)
<1>1. Cardinality(S) \in Nat /\ Cardinality(T) \in Nat /\ Cardinality(S \cap T) = 0
  BY FS_CardinalityType, FS_EmptySet
<1>2. /\ IsFiniteSet(S \cup T)
      /\ Cardinality(S \cup T) = Cardinality(S) + Cardinality(T) - Cardinality(S \cap T)
  BY FS_Union
<1>3. \A m, n, k \in Nat : k = 0 => m + n - k = m + n
  OBVIOUS
<1> QED BY <1>1, <1>2, <1>3

\* Where question ids are unique, every answer to a question with a key is marked,
\* once, as correct or as incorrect.
LEMMA MarksCountAnswers ==
  ASSUME NEW rows, NEW asked, NEW u, IsFiniteSet(rows), IsFiniteSet(asked),
         \A p, q \in asked : p.id = q.id => p = q, CorrectnessJoin
  PROVE  LET E == RowsOf(EnrichInteractions(rows, asked), u)
         IN  Cardinality(Marked(E, 1)) + Cardinality(Marked(Responds(E), 0)) =
               Cardinality({r \in {r \in rows : r.user = u /\ r.action = "respond"} :
                              \E q \in {q \in asked : q.id = r.item} : q.answer # Null})
<1> DEFINE All == EnrichInteractions(rows, asked)
           E == RowsOf(All, u)
           A == Marked(E, 1)
           B == Marked(Responds(E), 0)
           R == {r \in {r \in rows : r.user = u /\ r.action = "respond"} :
                   \E q \in {q \in asked : q.id = r.item} : q.answer # Null}
<1>1. IsFiniteSet(E)
  BY EnrichedIsFinite, FS_Subset DEF RowsOf
<1>2. IsFiniteSet(A) /\ IsFiniteSet(B) /\ A \cap B = {}
  <2> HIDE DEF E
  <2> QED BY <1>1, FS_Subset DEF Marked, Responds
<1>3. Cardinality(A \cup B) = Cardinality(A) + Cardinality(B) /\ IsFiniteSet(A \cup B)
  <2> HIDE DEF A, B
  <2> QED BY <1>2, DisjointCount
<1>4. A \cup B = {e \in All : /\ e.row.user = u /\ e.row.action = "respond"
                              /\ e.question.answer # Null}
  <2>1. Null \notin {0, 1}
    BY FeaturesAssumption
  <2>2. \A e \in All : e.is_correct \in {0, 1} <=>
                         e.row.action = "respond" /\ e.question.answer # Null
    BY MarkedRows
  <2>3. \A e \in All : e.is_correct = 1 => e.row.action = "respond"
    BY MarkedRows
  <2> HIDE DEF All
  <2> QED BY <2>1, <2>2, <2>3 DEF Marked, Responds, RowsOf
<1>5. ASSUME NEW e \in A \cup B
      PROVE  e.row \in R
  <2>1. /\ e \in All /\ e.row \in rows /\ e.question \in Matches(e.row, asked)
        /\ e.row.user = u /\ e.row.action = "respond" /\ e.question.answer # Null
    BY <1>4, <1>5, EnrichedRows
  <2>2. e.question # NoQuestion
    BY <2>1 DEF NoQuestion
  <2>3. e.question \in asked /\ e.question.id = e.row.item
    BY <2>1, <2>2, MatchesOfARow
  <2> QED BY <2>1, <2>3
<1>6. ASSUME NEW r \in R
      PROVE  \E e \in A \cup B : e.row = r
  <2>1. PICK q \in asked : q.id = r.item /\ q.answer # Null
    OBVIOUS
  <2>2. r \in rows /\ r.user = u /\ r.action = "respond"
    OBVIOUS
  <2>3. q \in Matches(r, asked)
    BY <2>1, MatchesOfARow
  <2>4. Joined(r, q) \in All
    BY <2>2, <2>3, EnrichedRows
  <2>5. Joined(r, q).row = r /\ Joined(r, q).question = q
    BY JoinedIs
  <2> QED BY <1>4, <2>1, <2>2, <2>4, <2>5
<1>7. \A a, b \in A \cup B : a.row = b.row => a = b
  <2> TAKE a \in A \cup B, b \in A \cup B
  <2>1. a \in All /\ b \in All
    BY <1>4
  <2> QED BY <2>1, Unjoined
<1> HIDE DEF A, B, R
<1>8. {e.row : e \in A \cup B} = R
  BY <1>5, <1>6
<1>9. Cardinality(R) = Cardinality(A \cup B)
  BY <1>3, <1>7, <1>8, OriginCount
<1> QED BY <1>3, <1>9 DEF A, B, R, E, All

-----------------------------------------------------------------------------
\* Rows of different parts add up.
LEMMA PartsAddUp ==
  ASSUME NEW E, IsFiniteSet(E)
  PROVE  LET OfPart(p) == Cardinality({e \in E : e.question.part = p})
         IN  OfPart(1) + OfPart(2) + OfPart(3) + OfPart(4) + OfPart(5)
               + OfPart(6) + OfPart(7) =
               Cardinality({e \in E : e.question.part \in 1 .. 7})
<1> DEFINE Part(p) == {e \in E : e.question.part = p}
           UpTo(p) == {e \in E : e.question.part \in 1 .. p}
<1>1. \A p \in Nat : /\ IsFiniteSet(Part(p)) /\ IsFiniteSet(UpTo(p))
                     /\ Cardinality(Part(p)) \in Nat /\ Cardinality(UpTo(p)) \in Nat
  <2> TAKE p \in Nat
  <2>1. IsFiniteSet(Part(p)) /\ IsFiniteSet(UpTo(p))
    BY FS_Subset
  <2> QED BY <2>1, FS_CardinalityType
<1>2. \A p \in Nat :
        Cardinality(UpTo(p + 1)) = Cardinality(UpTo(p)) + Cardinality(Part(p + 1))
  <2> TAKE p \in Nat
  <2>1. UpTo(p + 1) = UpTo(p) \cup Part(p + 1) /\ UpTo(p) \cap Part(p + 1) = {}
    OBVIOUS
  <2> HIDE DEF UpTo, Part
  <2>2. IsFiniteSet(UpTo(p)) /\ IsFiniteSet(Part(p + 1))
    BY <1>1, p + 1 \in Nat
  <2> QED BY <2>1, <2>2, DisjointCount
<1>3. UpTo(0) = {}
  OBVIOUS
<1>4. Cardinality(UpTo(0)) = 0
  BY <1>3, FS_EmptySet
<1> DEFINE P(p) == Cardinality(Part(p))
           C(p) == Cardinality(UpTo(p))
<1>5. /\ C(0) = 0 /\ C(1) = C(0) + P(1) /\ C(2) = C(1) + P(2) /\ C(3) = C(2) + P(3)
      /\ C(4) = C(3) + P(4) /\ C(5) = C(4) + P(5)
      /\ C(6) = C(5) + P(6) /\ C(7) = C(6) + P(7)
  <2>1. /\ 0 + 1 = 1 /\ 1 + 1 = 2 /\ 2 + 1 = 3 /\ 3 + 1 = 4 /\ 4 + 1 = 5 /\ 5 + 1 = 6
        /\ 6 + 1 = 7
    OBVIOUS
  <2> HIDE DEF UpTo, Part
  <2> QED BY <1>2, <1>4, <2>1
<1>6. \A p \in Nat : P(p) \in Nat /\ C(p) \in Nat
  BY <1>1
<1>7. P(1) + P(2) + P(3) + P(4) + P(5) + P(6) + P(7) = C(7)
  <2> HIDE DEF P, C
  <2> QED BY <1>5, <1>6
<1> QED BY <1>7

\* Where question ids are unique, the seven columns count every interaction with a
\* question of one of the seven parts once.
LEMMA PartsCountInteractions ==
  ASSUME NEW rows, NEW asked, NEW u, IsFiniteSet(rows), IsFiniteSet(asked),
         \A p, q \in asked : p.id = q.id => p = q, CorrectnessJoin
  PROVE  LET E == RowsOf(EnrichInteractions(rows, asked), u)
             part == FeaturesOf(E).interactions_part
         IN  part[1] + part[2] + part[3] + part[4] + part[5] + part[6] + part[7] =
               Cardinality({r \in {r \in rows : r.user = u} :
                 \E q \in {q \in asked : q.id = r.item} : q.part \in 1 .. 7})
<1> DEFINE All == EnrichInteractions(rows, asked)
           E == RowsOf(All, u)
           A == {e \in E : e.question.part \in 1 .. 7}
           R == {r \in {r \in rows : r.user = u} :
                   \E q \in {q \in asked : q.id = r.item} : q.part \in 1 .. 7}
           part == FeaturesOf(E).interactions_part
<1>1. IsFiniteSet(E) /\ IsFiniteSet(A)
  BY EnrichedIsFinite, FS_Subset DEF RowsOf
<1>2. part = [p \in 1 .. 7 |-> Cardinality({e \in E : e.question.part = p})]
  BY DEF FeaturesOf
<1>3. part[1] + part[2] + part[3] + part[4] + part[5] + part[6] + part[7] = Cardinality(A)
  <2> HIDE DEF E, part
  <2> QED BY <1>1, <1>2, PartsAddUp
<1>4. ASSUME NEW e \in A
      PROVE  e.row \in R
  <2>1. /\ e \in All /\ e.row \in rows /\ e.question \in Matches(e.row, asked)
        /\ e.row.user = u /\ e.question.part \in 1 .. 7
    BY EnrichedRows DEF RowsOf
  <2>2. e.question # NoQuestion
    BY <2>1, FeaturesAssumption DEF NoQuestion
  <2>3. e.question \in asked /\ e.question.id = e.row.item
    BY <2>1, <2>2, MatchesOfARow
  <2> QED BY <2>1, <2>3
<1>5. ASSUME NEW r \in R
      PROVE  \E e \in A : e.row = r
  <2>1. PICK q \in asked : q.id = r.item /\ q.part \in 1 .. 7
    OBVIOUS
  <2>2. r \in rows /\ r.user = u
    OBVIOUS
  <2>3. q \in Matches(r, asked)
    BY <2>1, MatchesOfARow
  <2>4. Joined(r, q) \in All
    BY <2>2, <2>3, EnrichedRows
  <2>5. Joined(r, q).row = r /\ Joined(r, q).question = q
    BY JoinedIs
  <2> HIDE DEF All
  <2> QED BY <2>1, <2>2, <2>4, <2>5 DEF RowsOf
<1>6. \A a, b \in A : a.row = b.row => a = b
  <2> TAKE a \in A, b \in A
  <2>1. a \in All /\ b \in All
    BY DEF RowsOf
  <2> QED BY <2>1, Unjoined
<1> HIDE DEF A, R
<1>7. {e.row : e \in A} = R
  BY <1>4, <1>5
<1>8. Cardinality(R) = Cardinality(A)
  BY <1>1, <1>6, <1>7, OriginCount
<1> QED BY <1>3, <1>8 DEF R, E, All, part

-----------------------------------------------------------------------------
\* A run computes each dataframe once, from the one before it, and keeps it.
FeaturesInv ==
  /\ kt4 \subseteq Interactions /\ questions \subseteq Questions
  /\ stage \in {"intake", "enriched", "aggregated", "normalised", "compared", "ranked"}
  /\ stage # "intake" => enriched = EnrichInteractions(kt4, questions)
  /\ stage \notin {"intake", "enriched"} => aggregated = Aggregate(enriched)
  /\ stage \in {"normalised", "compared", "ranked"} =>
       vectors = NormalizeFeatures(aggregated)
  /\ IF stage \in {"compared", "ranked"}
     THEN /\ similarity = CosineSimilarity(vectors)
          /\ recommendations = [u \in DOMAIN vectors |-> recommendations[u]]
          /\ \A u \in DOMAIN vectors :
               \/ recommendations[u] = Null
               \/ recommendations[u] \in TopRanked({s \in similarity : s.user_id = u})
     ELSE recommendations = <<>>

\* Every step of a run keeps the invariant, Rank by student.
LEMMA FeaturesInvStep == FeaturesInv /\ [FeaturesNext]_feature_vars => FeaturesInv'
<1> SUFFICES ASSUME FeaturesInv, [FeaturesNext]_feature_vars
             PROVE  FeaturesInv'
  OBVIOUS
<1>1. CASE RunFeatureEngineering
  BY <1>1 DEF FeaturesInv, RunFeatureEngineering, inputs
<1>2. CASE RunFeatureAggregation
  BY <1>2 DEF FeaturesInv, RunFeatureAggregation, inputs
<1>3. CASE Normalize
  BY <1>3 DEF FeaturesInv, Normalize, inputs
<1>4. CASE Compare
  BY <1>4 DEF FeaturesInv, Compare, inputs
<1>5. ASSUME NEW u \in DOMAIN recommendations, Rank(u)
      PROVE  FeaturesInv'
  <2>1. PICK top \in TopRanked({s \in similarity : s.user_id = u}) :
          recommendations' = [recommendations EXCEPT ![u] = top]
    BY <1>5 DEF Rank
  <2>2. /\ stage \in {"compared", "ranked"} /\ stage' = "ranked"
        /\ UNCHANGED <<inputs, enriched, aggregated, vectors, similarity>>
    BY <1>5 DEF Rank
  <2>3. u \in DOMAIN vectors
    BY <1>5, <2>2 DEF FeaturesInv
  <2>4. /\ recommendations' = [v \in DOMAIN vectors |-> recommendations'[v]]
        /\ \A v \in DOMAIN vectors : recommendations'[v] =
             IF v = u THEN top ELSE recommendations[v]
    BY <2>1, <2>2, <2>3 DEF FeaturesInv
  <2> QED BY <2>2, <2>4 DEF FeaturesInv, inputs
<1>6. CASE UNCHANGED feature_vars
  BY <1>6 DEF FeaturesInv, feature_vars, inputs
<1> QED BY <1>1, <1>2, <1>3, <1>4, <1>5, <1>6 DEF FeaturesNext

\* FeaturesInv holds throughout.
LEMMA FeaturesInvAlways == FeaturesSpec => []FeaturesInv
<1>1. FeaturesInit => FeaturesInv
  BY DEF FeaturesInit, FeaturesInv
<1> QED BY <1>1, FeaturesInvStep, PTL DEF FeaturesSpec

-----------------------------------------------------------------------------
\* The raw tables of a run are finite.
LEMMA InputsAreFinite ==
  ASSUME kt4 \subseteq Interactions, questions \subseteq Questions
  PROVE  IsFiniteSet(kt4) /\ IsFiniteSet(questions)
BY TablesAssumption, FS_Subset

\* The students of a run are finitely many, and their ids are comparable.
LEMMA StudentsAreNumbers ==
  ASSUME FeaturesInv, stage \notin {"intake", "enriched"}
  PROVE  /\ IsFiniteSet(Users) /\ Users \subseteq Nat
         /\ stage \in {"normalised", "compared", "ranked"} => DOMAIN vectors = Users
<1> DEFINE U == {e.row.user : e \in enriched}
           f == [e \in enriched |-> e.row.user]
<1>1. IsFiniteSet(enriched) /\ \A e \in enriched : e.row \in kt4
  <2>1. enriched = EnrichInteractions(kt4, questions)
    BY DEF FeaturesInv
  <2> QED BY <2>1, InputsAreFinite, EnrichedIsFinite, EnrichedRows DEF FeaturesInv
<1>2. IsFiniteSet(U)
  <2>1. DOMAIN f = enriched /\ f = [e \in DOMAIN f |-> f[e]]
        /\ {f[e] : e \in DOMAIN f} = U
    OBVIOUS
  <2> HIDE DEF f, U
  <2> QED BY <1>1, <2>1, ImageCount
<1>3. Users \subseteq U
  BY DEF Users, FeaturesInv, Aggregate
<1>4. U \subseteq Nat
  BY <1>1, TablesAssumption DEF FeaturesInv
<1>5. stage \in {"normalised", "compared", "ranked"} => DOMAIN vectors = Users
  BY DEF FeaturesInv, NormalizeFeatures, Users
<1> HIDE DEF U
<1> QED BY <1>2, <1>3, <1>4, <1>5, FS_Subset

-----------------------------------------------------------------------------
\* CountsAreOfTheRawRows of every table of interactions and questions: the left join
\* of enrich_interactions loses nothing, adds nothing where question ids are unique,
\* and what aggregate_student_features counts is then what is in the raw zone.
THEOREM CountsAreOfTheRawZone == FeaturesSpec => []CountsAreOfTheRawRows
<1>1. ASSUME FeaturesInv, stage = "aggregated", NEW u \in Users
      PROVE
        LET f == aggregated[u]
            part == f.interactions_part
            own == {r \in kt4 : r.user = u}
            Asked(r) == {q \in questions : q.id = r.item}
        IN /\ f.total_interactions >= Cardinality(own)
           /\ f.unique_questions_attempted = Cardinality({r.item : r \in Respond(u)})
           /\ AtMost(f.accuracy_rate, One)
           /\ IdsAreUnique => f.total_interactions = Cardinality(own)
           /\ IdsAreUnique /\ CorrectnessJoin =>
                /\ f.correct_count + f.incorrect_count =
                     Cardinality({r \in Respond(u) : \E q \in Asked(r) : q.answer # Null})
                /\ part[1] + part[2] + part[3] + part[4] + part[5] + part[6] + part[7] =
                     Cardinality({r \in own : \E q \in Asked(r) : q.part \in 1 .. 7})
  <2> DEFINE E == RowsOf(EnrichInteractions(kt4, questions), u)
             own == {r \in kt4 : r.user = u}
             f == aggregated[u]
             part == f.interactions_part
  <2>1. IsFiniteSet(kt4) /\ IsFiniteSet(questions)
    BY <1>1, InputsAreFinite DEF FeaturesInv
  <2>2. f = FeaturesOf(E)
    BY <1>1 DEF FeaturesInv, Aggregate, Users
  <2>3. IsFiniteSet(E)
    BY <2>1, EnrichedIsFinite, FS_Subset DEF RowsOf
  <2>4. /\ f.total_interactions = Cardinality(E)
        /\ f.correct_count = Cardinality(Marked(E, 1))
        /\ f.incorrect_count = Cardinality(Marked(Responds(E), 0))
        /\ f.accuracy_rate = AccuracyRate(E)
        /\ f.unique_questions_attempted = Cardinality({e.row.item : e \in Responds(E)})
    <3> HIDE DEF E, f
    <3> QED BY <2>2 DEF FeaturesOf
  <2>5. /\ {e.row : e \in E} = own
        /\ {e.row.item : e \in Responds(E)} = {r.item : r \in Respond(u)}
    <3>1. /\ \A e \in E : e.row \in kt4 /\ e.row.user = u
          /\ \A r \in kt4 : r.user = u => \E e \in E : e.row = r
      BY RowsOfAStudent
    <3> HIDE DEF E
    <3> QED BY <3>1 DEF Responds, Respond
  <2>6. f.total_interactions >= Cardinality(own)
    <3>1. /\ Cardinality(own) <= Cardinality(E)
          /\ Cardinality(own) \in Nat /\ Cardinality(E) \in Nat
      <4> HIDE DEF E, own
      <4> QED BY <2>3, <2>5, OriginCount, FS_CardinalityType
    <3> HIDE DEF E, own, f
    <3> QED BY <2>4, <3>1
  <2>7. IdsAreUnique => f.total_interactions = Cardinality(own)
    <3>1. IdsAreUnique => \A a, b \in E : a.row = b.row => a = b
      <4> SUFFICES ASSUME IdsAreUnique, NEW a \in E, NEW b \in E, a.row = b.row
                   PROVE  a = b
        OBVIOUS
      <4>1. /\ a \in EnrichInteractions(kt4, questions)
            /\ b \in EnrichInteractions(kt4, questions)
        BY DEF RowsOf
      <4> QED BY <4>1, Unjoined DEF IdsAreUnique
    <3> HIDE DEF E, own, f
    <3> QED BY <2>3, <2>4, <2>5, <3>1, OriginCount
  <2>8. AtMost(f.accuracy_rate, One)
    BY <2>1, <2>4, AccuracyIsAShare
  <2>9. ASSUME IdsAreUnique, CorrectnessJoin
        PROVE  /\ f.correct_count + f.incorrect_count =
                     Cardinality({r \in Respond(u) :
                       \E q \in {q \in questions : q.id = r.item} : q.answer # Null})
               /\ part[1] + part[2] + part[3] + part[4] + part[5] + part[6] + part[7] =
                    Cardinality({r \in own :
                      \E q \in {q \in questions : q.id = r.item} : q.part \in 1 .. 7})
    <3>1. \A p, q \in questions : p.id = q.id => p = q
      BY <2>9 DEF IdsAreUnique
    <3>2. f.correct_count + f.incorrect_count =
                     Cardinality({r \in Respond(u) :
                       \E q \in {q \in questions : q.id = r.item} : q.answer # Null})
      BY <2>1, <2>4, <2>9, <3>1, MarksCountAnswers DEF Respond
    <3>3. part[1] + part[2] + part[3] + part[4] + part[5] + part[6] + part[7] =
                    Cardinality({r \in own :
                      \E q \in {q \in questions : q.id = r.item} : q.part \in 1 .. 7})
      BY <2>1, <2>2, <2>9, <3>1, PartsCountInteractions
    <3> QED BY <3>2, <3>3
  <2> HIDE DEF E, f
  <2> QED BY <2>4, <2>5, <2>6, <2>7, <2>8, <2>9 DEF f
<1>2. FeaturesInv => CountsAreOfTheRawRows
  BY <1>1 DEF CountsAreOfTheRawRows
<1> QED BY <1>2, FeaturesInvAlways, PTL

-----------------------------------------------------------------------------
\* EveryPairIsScoredOnce of any number of students: once compute_cosine_similarity has
\* run, each ordered pair of students has one score, the same both ways, and it is 0
\* if a feature of either is unknown.
THEOREM PairsAreScoredOnce ==
  FeaturesSpec => [](stage \in {"compared", "ranked"} => EveryPairIsScoredOnce)
<1>1. ASSUME FeaturesInv, stage \in {"compared", "ranked"}
      PROVE  EveryPairIsScoredOnce
  <2>1. IsFiniteSet(Users) /\ Users \subseteq Nat /\ DOMAIN vectors = Users
    BY <1>1, StudentsAreNumbers
  <2>2. similarity = CosineSimilarity(vectors)
    BY <1>1 DEF FeaturesInv
  <2> QED BY <2>1, <2>2, ScoredOnce DEF EveryPairIsScoredOnce, Apart
<1> QED BY <1>1, FeaturesInvAlways, PTL

\* RecommendationsAreTheBest of any number of students and any top_k: whichever order
\* row_number() gives equal scores, everybody gets top_k others, or all, and nobody
\* left out is more similar than one who is recommended.
THEOREM OnlyTheBestAreRecommended == FeaturesSpec => []RecommendationsAreTheBest
<1>1. ASSUME FeaturesInv, NEW u \in Ranked
      PROVE
        LET listed == ToSet(recommendations[u])
            chosen == {s.other_user_id : s \in listed}
        IN /\ chosen \subseteq Users \ {u}
           /\ Cardinality(chosen) = Min({TopK, Cardinality(Users) - 1})
           /\ \A s \in listed, t \in similarity :
                t.user_id = u /\ t.other_user_id \notin chosen =>
                  AtMost(t.similarity_score, s.similarity_score)
  <2> DEFINE S == {s \in similarity : s.user_id = u}
             top == recommendations[u]
             listed == ToSet(top)
             chosen == {s.other_user_id : s \in listed}
  <2>1. stage \in {"compared", "ranked"}
    BY <1>1 DEF FeaturesInv, Ranked
  <2>2. /\ similarity = CosineSimilarity(vectors) /\ u \in DOMAIN vectors
        /\ top \in TopRanked(S)
    BY <1>1, <2>1 DEF FeaturesInv, Ranked
  <2>3. IsFiniteSet(Users) /\ Users \subseteq Nat /\ DOMAIN vectors = Users
    BY <1>1, <2>1, StudentsAreNumbers
  <2>4. /\ IsFiniteSet(S) /\ Cardinality(S) = Cardinality(Users) - 1
        /\ \A s \in S : s.other_user_id \in Users \ {u}
        /\ \A s, t \in S : s.other_user_id = t.other_user_id => s = t
    BY <2>2, <2>3, OwnRows
  <2> HIDE DEF S, top
  <2>5. /\ listed \subseteq S /\ IsFiniteSet(listed)
        /\ Cardinality(listed) = Min({TopK, Cardinality(S)})
        /\ \A s \in listed, t \in S \ listed :
             AtMost(t.similarity_score, s.similarity_score)
    BY <2>2, <2>4, CountsAssumption, RankingIsOfTheBest
  <2> DEFINE f == [s \in listed |-> s.other_user_id]
  <2>6. /\ DOMAIN f = listed /\ f = [s \in DOMAIN f |-> f[s]]
        /\ {f[s] : s \in DOMAIN f} = chosen
        /\ \A s \in listed : f[s] = s.other_user_id
    OBVIOUS
  <2> HIDE DEF f, listed, chosen
  <2>7. IsInjective(f)
    BY <2>4, <2>5, <2>6 DEF IsInjective
  <2>8. Cardinality(chosen) = Min({TopK, Cardinality(Users) - 1})
    BY <2>4, <2>5, <2>6, <2>7, ImageCount
  <2>9. chosen \subseteq Users \ {u}
    BY <2>4, <2>5 DEF chosen
  <2>10. ASSUME NEW s \in listed, NEW t \in similarity, t.user_id = u,
                t.other_user_id \notin chosen
         PROVE  AtMost(t.similarity_score, s.similarity_score)
    BY <2>5, <2>10 DEF chosen, S
  <2> QED BY <2>8, <2>9, <2>10 DEF chosen, listed, top
<1>2. FeaturesInv => RecommendationsAreTheBest
  BY <1>1 DEF RecommendationsAreTheBest
<1> QED BY <1>2, FeaturesInvAlways, PTL

-----------------------------------------------------------------------------
(* Fractions compared. *)
Reduced == {q \in Fractions : InLowestTerms(q)}

\* AtMost is a total order of the fractions.
LEMMA AtMostOrders ==
  ASSUME NEW x \in Fractions, NEW y \in Fractions
  PROVE  /\ AtMost(x, x)
         /\ AtMost(x, y) \/ AtMost(y, x)
         /\ \A z \in Fractions : AtMost(x, y) /\ AtMost(y, z) => AtMost(x, z)
<1>1. x[1] \in Nat /\ x[2] \in Nat \ {0} /\ y[1] \in Nat /\ y[2] \in Nat \ {0}
  BY DEF Fractions
<1>2. AtMost(x, x) /\ (AtMost(x, y) \/ AtMost(y, x))
  <2>1. \A i, j \in Nat : i <= j \/ j <= i
    OBVIOUS
  <2>2. x[1] * y[2] \in Nat /\ y[1] * x[2] \in Nat /\ x[1] * x[2] \in Nat
    BY <1>1
  <2> QED BY <2>1, <2>2 DEF AtMost
<1>3. ASSUME NEW z \in Fractions, AtMost(x, y), AtMost(y, z) PROVE AtMost(x, z)
  <2>1. z[1] \in Nat /\ z[2] \in Nat \ {0}
    BY DEF Fractions
  <2>2. x[1] * y[2] <= y[1] * x[2] /\ y[1] * z[2] <= z[1] * y[2]
    BY <1>3 DEF AtMost
  <2>3. \A i, j, k \in Nat : i <= j => i * k <= j * k
    OBVIOUS
  <2>4. /\ (x[1] * y[2]) * z[2] <= (y[1] * x[2]) * z[2]
        /\ (y[1] * z[2]) * x[2] <= (z[1] * y[2]) * x[2]
    <3>1. /\ x[1] * y[2] \in Nat /\ y[1] * x[2] \in Nat /\ y[1] * z[2] \in Nat
          /\ z[1] * y[2] \in Nat
      BY <1>1, <2>1
    <3> QED BY <1>1, <2>1, <2>2, <2>3, <3>1
  <2>5. /\ (x[1] * y[2]) * z[2] = (x[1] * z[2]) * y[2]
        /\ (y[1] * x[2]) * z[2] = (y[1] * z[2]) * x[2]
        /\ (z[1] * y[2]) * x[2] = (z[1] * x[2]) * y[2]
    BY <1>1, <2>1
  <2>6. x[1] * z[2] \in Nat /\ z[1] * x[2] \in Nat /\ (y[1] * z[2]) * x[2] \in Nat
    BY <1>1, <2>1
  <2>7. (x[1] * z[2]) * y[2] <= (z[1] * x[2]) * y[2]
    <3>1. /\ (x[1] * z[2]) * y[2] \in Nat /\ (z[1] * x[2]) * y[2] \in Nat
      BY <1>1, <2>6
    <3> QED BY <2>4, <2>5, <2>6, <3>1
  <2>8. \A i, j \in Nat, k \in Nat \ {0} : i * k <= j * k => i <= j
    OBVIOUS
  <2>9. x[1] * z[2] <= z[1] * x[2]
    BY <1>1, <2>6, <2>7, <2>8
  <2> QED BY <2>9 DEF AtMost
<1> QED BY <1>2, <1>3

\* The least and the greatest of finitely many fractions exist.
LEMMA ExtremesExist ==
  ASSUME NEW S, IsFiniteSet(S), S \subseteq Fractions, S # {}
  PROVE  /\ Least(S) \in S /\ \A y \in S : AtMost(Least(S), y)
         /\ Greatest(S) \in S /\ \A y \in S : AtMost(y, Greatest(S))
<1> DEFINE Low(T) == \E x \in T : \A y \in T : AtMost(x, y)
           High(T) == \E x \in T : \A y \in T : AtMost(y, x)
           F == {T \in SUBSET S : T # {} => Low(T) /\ High(T)}
<1>1. ASSUME NEW T \in SUBSET S, \A x \in T : T \ {x} \in F PROVE T \in F
  <2> SUFFICES ASSUME NEW p \in T PROVE Low(T) /\ High(T)
    OBVIOUS
  <2> DEFINE R == T \ {p}
  <2>1. CASE R = {}
    <3>1. \A y \in T : y = p
      BY <2>1
    <3> QED BY <3>1, AtMostOrders
  <2>2. CASE R # {}
    <3>1. PICK low \in R : \A y \in R : AtMost(low, y)
      BY <1>1, <2>2
    <3>2. PICK high \in R : \A y \in R : AtMost(y, high)
      BY <1>1, <2>2
    <3>3. /\ R \subseteq Fractions /\ p \in Fractions /\ p \in T
          /\ \A y \in T : y = p \/ y \in R
          /\ R \subseteq T
      OBVIOUS
    <3> HIDE DEF R
    <3>4. Low(T)
      <4>1. CASE AtMost(low, p)
        BY <3>1, <3>3, <4>1
      <4>2. CASE AtMost(p, low)
        <5>1. \A y \in R : AtMost(p, y)
          BY <3>1, <3>3, <4>2, AtMostOrders
        <5>2. AtMost(p, p)
          BY <3>3, AtMostOrders
        <5> QED BY <3>3, <5>1, <5>2
      <4> QED BY <3>3, <4>1, <4>2, AtMostOrders
    <3>5. High(T)
      <4>1. CASE AtMost(p, high)
        BY <3>2, <3>3, <4>1
      <4>2. CASE AtMost(high, p)
        <5>1. \A y \in R : AtMost(y, p)
          BY <3>2, <3>3, <4>2, AtMostOrders
        <5>2. AtMost(p, p)
          BY <3>3, AtMostOrders
        <5> QED BY <3>3, <5>1, <5>2
      <4> QED BY <3>3, <4>1, <4>2, AtMostOrders
    <3> QED BY <3>4, <3>5
  <2> QED BY <2>1, <2>2
<1>2. \A T \in SUBSET S : T \in F
  <2> HIDE DEF F
  <2>1. Inductive(F, S)
    BY <1>1 DEF Inductive
  <2> QED BY <2>1, SubsetsByInduction
<1>3. Low(S) /\ High(S)
  BY <1>2
<1> QED BY <1>3 DEF Least, Greatest

\* Subtraction and division, where they are defined.
LEMMA MinusIs ==
  ASSUME NEW x \in Fractions, NEW y \in Fractions, AtMost(y, x)
  PROVE  /\ Minus(x, y) \in Reduced
         /\ Minus(x, y)[1] = 0 => x[1] * y[2] = y[1] * x[2]
<1> DEFINE N == x[1] * y[2] - y[1] * x[2]
           D == x[2] * y[2]
           q == Fraction(N, D)
<1>1. x[1] \in Nat /\ x[2] \in Nat \ {0} /\ y[1] \in Nat /\ y[2] \in Nat \ {0}
  BY DEF Fractions
<1>2. N \in Nat /\ D \in Nat \ {0}
  <2>1. x[1] * y[2] \in Nat /\ y[1] * x[2] \in Nat /\ y[1] * x[2] <= x[1] * y[2]
    BY <1>1 DEF AtMost
  <2>2. \A i, j \in Nat \ {0} : i * j \in Nat \ {0}
    OBVIOUS
  <2> QED BY <1>1, <2>1, <2>2
<1>3. Minus(x, y) = q
  BY DEF Minus
<1>4. x[1] * y[2] \in Nat /\ y[1] * x[2] \in Nat
  BY <1>1
<1>5. N = 0 => x[1] * y[2] = y[1] * x[2]
  BY <1>4
<1> HIDE DEF N, D
<1>6. q \in Fractions /\ InLowestTerms(q) /\ q[1] * D = N * q[2]
  BY <1>2, FractionIs
<1> HIDE DEF q
<1>7. q[1] = 0 => N = 0
  <2>1. q[1] \in Nat /\ q[2] \in Nat \ {0}
    BY <1>6 DEF Fractions
  <2>2. \A i \in Nat, j \in Nat \ {0} : 0 * D = i * j => i = 0
    BY <1>2
  <2> QED BY <1>2, <1>6, <2>1, <2>2
<1> QED BY <1>3, <1>5, <1>6, <1>7 DEF Reduced

\* Over gives a fraction in lowest terms wherever its divisor is not 0.
LEMMA OverIs ==
  ASSUME NEW x \in Fractions, NEW y \in Fractions, y[1] # 0
  PROVE  Over(x, y) \in Reduced
<1>1. x[1] \in Nat /\ x[2] \in Nat \ {0} /\ y[1] \in Nat \ {0} /\ y[2] \in Nat \ {0}
  BY DEF Fractions
<1>2. x[1] * y[2] \in Nat /\ x[2] * y[1] \in Nat \ {0}
  <2>1. \A i, j \in Nat \ {0} : i * j \in Nat \ {0}
    OBVIOUS
  <2> QED BY <1>1, <2>1
<1> QED BY <1>2, FractionIs DEF Over, Reduced

\* The least and the greatest of two values or more differ.
LEMMA RangeIsPositive ==
  ASSUME NEW known, IsFiniteSet(known), known \subseteq Reduced, ~ (Cardinality(known) <= 1)
  PROVE  /\ Least(known) \in known /\ Greatest(known) \in known
         /\ Minus(Greatest(known), Least(known)) \in Reduced
         /\ Minus(Greatest(known), Least(known))[1] # 0
         /\ \A x \in known : AtMost(Least(known), x) /\ AtMost(x, Greatest(known))
<1> DEFINE low == Least(known)
           high == Greatest(known)
<1>1. known # {} /\ known \subseteq Fractions
  BY FS_EmptySet DEF Reduced
<1>2. /\ low \in known /\ \A y \in known : AtMost(low, y)
      /\ high \in known /\ \A y \in known : AtMost(y, high)
  BY <1>1, ExtremesExist
<1> HIDE DEF low, high
<1>3. Minus(high, low) \in Reduced
  BY <1>1, <1>2, MinusIs
<1>4. ASSUME Minus(high, low)[1] = 0 PROVE FALSE
  <2>1. high[1] * low[2] = low[1] * high[2]
    BY <1>1, <1>2, <1>4, MinusIs
  <2>2. high = low
    BY <1>2, <2>1, LowestIsUnique DEF Reduced
  <2>3. \A y \in known : y = low
    <3> TAKE y \in known
    <3>1. y[1] * low[2] <= low[1] * y[2] /\ low[1] * y[2] <= y[1] * low[2]
      BY <1>2, <2>2 DEF AtMost
    <3>2. y[1] * low[2] \in Nat /\ low[1] * y[2] \in Nat
      BY <1>1, <1>2 DEF Fractions
    <3>3. y[1] * low[2] = low[1] * y[2]
      BY <3>1, <3>2
    <3> QED BY <1>2, <3>3, LowestIsUnique DEF Reduced
  <2>4. known = {low}
    BY <1>2, <2>3
  <2>5. Cardinality(known) = 1
    BY <2>4, FS_Singleton
  <2> QED BY <2>5
<1> QED BY <1>2, <1>3, <1>4 DEF low, high

\* Min-max scaling divides by something, and gives fractions.
LEMMA ScaledIs ==
  ASSUME NEW known, IsFiniteSet(known), known \subseteq Reduced,
         ~ (Cardinality(known) <= 1), NEW x \in known
  PROVE  Scaled(x, known) \in Reduced
<1> DEFINE low == Least(known)
           range == Minus(Greatest(known), low)
<1>1. low \in known /\ range \in Reduced /\ range[1] # 0 /\ AtMost(low, x)
  BY RangeIsPositive
<1> HIDE DEF low, range
<1>2. Minus(x, low) \in Reduced
  BY <1>1, MinusIs DEF Reduced
<1>3. Over(Minus(x, low), range) \in Reduced
  BY <1>1, <1>2, OverIs DEF Reduced
<1> QED BY <1>3 DEF Scaled, low, range

-----------------------------------------------------------------------------
(* Cosines. *)

\* A whole number is in lowest terms over 1.
LEMMA WholeIs ==
  ASSUME NEW n \in Nat
  PROVE  /\ <<n, 1>> \in Reduced
         /\ Fraction(n, 1) = <<n, 1>>
<1>1. \A k, b \in Nat : 1 = k * b => k = 1
  OBVIOUS
<1>2. <<n, 1>> \in Fractions /\ InLowestTerms(<<n, 1>>)
  BY <1>1 DEF Fractions, InLowestTerms
<1> DEFINE q == Fraction(n, 1)
<1>3. q \in Fractions /\ q[1] * 1 = n * q[2] /\ InLowestTerms(q)
  BY FractionIs
<1> HIDE DEF q
<1>4. q[1] * <<n, 1>>[2] = <<n, 1>>[1] * q[2]
  BY <1>3 DEF Fractions
<1>5. q = <<n, 1>>
  BY <1>2, <1>3, <1>4, LowestIsUnique
<1> QED BY <1>2, <1>5 DEF q, Reduced

\* The order of a product does not matter.
LEMMA TimesCommutes ==
  ASSUME NEW x \in Fractions, NEW y \in Fractions
  PROVE  Times(x, y) = Times(y, x)
<1>1. x[1] \in Nat /\ x[2] \in Nat /\ y[1] \in Nat /\ y[2] \in Nat
  BY DEF Fractions
<1>2. x[1] * y[1] = y[1] * x[1] /\ x[2] * y[2] = y[2] * x[2]
  BY <1>1
<1> QED BY <1>2 DEF Times

\* The square of a dot product over the product of the magnitudes, by Schwarz.
LEMMA ShareOfMagnitudes ==
  ASSUME NEW d \in Reduced, NEW a \in Reduced, NEW b \in Reduced,
         Schwarz(d, a, b), a # Zero, b # Zero
  PROVE  AtMost(Over(Times(d, d), Times(a, b)), One)
<1> DEFINE t == Times(d, d)
           s == Times(a, b)
<1>1. PICK m \in Nat \ {0}, i, j, k \in Nat :
        Is(d, i, m) /\ Is(a, j, m) /\ Is(b, k, m) /\ i * i <= j * k
  BY DEF Schwarz
<1>2. /\ t \in Fractions /\ Is(t, i * i, m * m)
      /\ s \in Fractions /\ Is(s, j * k, m * m)
  <2>1. d \in Fractions /\ a \in Fractions /\ b \in Fractions
    BY DEF Reduced
  <2> QED BY <1>1, <2>1, TimesIs
<1>3. s[1] # 0
  <2>1. a[1] \in Nat /\ a[2] \in Nat \ {0} /\ b[1] \in Nat /\ b[2] \in Nat \ {0}
    BY DEF Reduced, Fractions
  <2>2. a[1] # 0 /\ b[1] # 0
    BY OnlyZeroIsZero DEF Reduced
  <2>3. Is(a, a[1], a[2]) /\ Is(b, b[1], b[2])
    BY <2>1 DEF Is
  <2>4. Is(s, a[1] * b[1], a[2] * b[2])
    BY <2>1, <2>3, TimesIs DEF Reduced
  <2>5. \A x, y \in Nat \ {0} : x * y \in Nat \ {0}
    OBVIOUS
  <2>6. a[1] * b[1] \in Nat \ {0} /\ a[2] * b[2] \in Nat /\ s[2] \in Nat \ {0}
    BY <1>2, <2>1, <2>2, <2>5 DEF Fractions
  <2>7. (a[1] * b[1]) * s[2] \in Nat \ {0}
    BY <2>5, <2>6
  <2> QED BY <2>4, <2>6, <2>7 DEF Is
<1> HIDE DEF s, t
<1>4. t[1] \in Nat /\ t[2] \in Nat \ {0} /\ s[1] \in Nat \ {0} /\ s[2] \in Nat \ {0}
  BY <1>2, <1>3 DEF Fractions
<1> DEFINE M == m * m
           D == i * i
           A == j * k
<1>5. M \in Nat \ {0} /\ D \in Nat /\ A \in Nat /\ D <= A
  BY <1>1
<1>6. t[1] * M = D * t[2] /\ s[1] * M = A * s[2]
  BY <1>2 DEF Is
<1> HIDE DEF M, D, A
<1>7. t[1] * s[2] <= t[2] * s[1]
  <2>1. (t[1] * s[2]) * M = D * (t[2] * s[2])
    <3>1. (t[1] * s[2]) * M = (t[1] * M) * s[2]
      BY <1>4, <1>5
    <3>2. (D * t[2]) * s[2] = D * (t[2] * s[2])
      BY <1>4, <1>5
    <3> QED BY <1>6, <3>1, <3>2
  <2>2. (t[2] * s[1]) * M = A * (t[2] * s[2])
    BY <1>4, <1>5, <1>6
  <2>3. \A x, y, z \in Nat : x <= y => x * z <= y * z
    OBVIOUS
  <2>4. D * (t[2] * s[2]) <= A * (t[2] * s[2])
    BY <1>4, <1>5, <2>3
  <2>5. \A x, y \in Nat, z \in Nat \ {0} : x * z <= y * z => x <= y
    OBVIOUS
  <2>6. t[1] * s[2] \in Nat /\ t[2] * s[1] \in Nat
    BY <1>4
  <2>7. (t[1] * s[2]) * M <= (t[2] * s[1]) * M
    BY <2>1, <2>2, <2>4
  <2> QED BY <1>5, <2>5, <2>6, <2>7
<1>8. t[1] * s[2] \in Nat /\ t[2] * s[1] \in Nat \ {0}
  <2>1. \A x, y \in Nat \ {0} : x * y \in Nat \ {0}
    OBVIOUS
  <2> QED BY <1>4, <2>1
<1> QED BY <1>7, <1>8, ShareAtMostOne DEF Over, s, t

\* A square over itself is 1.
LEMMA RatioOfEquals ==
  ASSUME NEW a \in Reduced, a # Zero
  PROVE  Over(Times(a, a), Times(a, a)) = One
<1> DEFINE t == Times(a, a)
<1>1. a[1] \in Nat \ {0} /\ a[2] \in Nat \ {0}
  BY OnlyZeroIsZero DEF Reduced, Fractions
<1>2. t \in Fractions /\ Is(t, a[1] * a[1], a[2] * a[2])
  <2>1. Is(a, a[1], a[2])
    BY <1>1 DEF Is
  <2> QED BY <1>1, <2>1, TimesIs DEF Reduced
<1> HIDE DEF t
<1>3. \A x, y \in Nat \ {0} : x * y \in Nat \ {0}
  OBVIOUS
<1>4. t[1] \in Nat \ {0} /\ t[2] \in Nat \ {0}
  <2>1. t[1] \in Nat /\ t[2] \in Nat \ {0}
    BY <1>2 DEF Fractions
  <2>2. (a[1] * a[1]) * t[2] \in Nat \ {0}
    BY <1>1, <1>3, <2>1
  <2>3. t[1] * (a[2] * a[2]) = (a[1] * a[1]) * t[2]
    BY <1>2 DEF Is
  <2>4. t[1] # 0
    BY <1>1, <2>2, <2>3
  <2> QED BY <2>1, <2>4
<1>5. /\ t[1] * t[2] \in Nat /\ t[2] * t[1] \in Nat \ {0}
      /\ (t[1] * t[2]) * 1 = 1 * (t[2] * t[1])
  BY <1>3, <1>4
<1>6. Fraction(t[1] * t[2], t[2] * t[1]) = Fraction(1, 1)
  BY <1>5, FractionsAreEqual
<1>7. Fraction(1, 1) = One
  BY WholeIs DEF One
<1> QED BY <1>6, <1>7 DEF Over, t

\* What the score of two vectors is: the cosine is the same both ways, at most 1, and
\* 1 of equal vectors.
LEMMA CosineIs ==
  ASSUME NEW v, NEW w,
         \A c \in FeatureColumns : {v[c], w[c]} \subseteq Reduced \cup {Null}
  PROVE  /\ Cosine(v, w) = Cosine(w, v)
         /\ AtMost(Cosine(v, w), One)
         /\ v = w /\ HasMagnitude(v) => Cosine(v, w) = One
<1>1. CASE HasMagnitude(v) /\ HasMagnitude(w)
  <2>1. \A c \in FeatureColumns : v[c] \in Fractions /\ w[c] \in Fractions
    BY <1>1 DEF HasMagnitude, Reduced
  <2>2. /\ Dot(v, w) \in Reduced /\ Dot(v, w) = Dot(w, v)
        /\ Schwarz(Dot(v, w), Dot(v, v), Dot(w, w))
    BY <2>1, DotIsAFraction DEF Reduced
  <2>3. Dot(v, v) \in Reduced /\ Dot(w, w) \in Reduced
    BY <2>1, DotIsAFraction DEF Reduced
  <2>4. Dot(v, v) # Zero /\ Dot(w, w) # Zero
    BY <1>1 DEF HasMagnitude
  <2>5. /\ Cosine(v, w) = Over(Times(Dot(v, w), Dot(v, w)), Times(Dot(v, v), Dot(w, w)))
        /\ Cosine(w, v) = Over(Times(Dot(w, v), Dot(w, v)), Times(Dot(w, w), Dot(v, v)))
    BY <1>1 DEF Cosine
  <2>6. Times(Dot(v, v), Dot(w, w)) = Times(Dot(w, w), Dot(v, v))
    BY <2>3, TimesCommutes DEF Reduced
  <2>7. AtMost(Cosine(v, w), One)
    BY <2>2, <2>3, <2>4, <2>5, ShareOfMagnitudes
  <2>8. v = w => Cosine(v, w) = One
    BY <2>3, <2>4, <2>5, RatioOfEquals
  <2> QED BY <2>2, <2>5, <2>6, <2>7, <2>8
<1>2. CASE ~ (HasMagnitude(v) /\ HasMagnitude(w))
  <2>1. Cosine(v, w) = Zero /\ Cosine(w, v) = Zero
    BY <1>2 DEF Cosine
  <2>2. AtMost(Zero, One)
    BY DEF AtMost, Zero, One
  <2> QED BY <1>2, <2>1, <2>2
<1> QED BY <1>1, <1>2

-----------------------------------------------------------------------------
\* The response times of joined rows are numbers or NULL.
LEMMA TimesOfARow ==
  ASSUME NEW rows, rows \subseteq Interactions, NEW asked,
         NEW e \in EnrichInteractions(rows, asked)
  PROVE  /\ e.row \in Interactions
         /\ e.row.elapsed \in Nat \cup {Null}
         /\ e.response_time_ms \in Nat \cup {Null}
<1>1. e.row \in Interactions /\ e.response_time_ms = ResponseTime(e.row)
  BY EnrichedRows DEF Joined
<1>2. e.row.elapsed \in Nat \cup {Null}
  BY <1>1, TablesAssumption
<1>3. e.row.elapsed # Null =>
        ResponseTime(e.row) = IF e.row.elapsed <= ResponseTimeCap THEN e.row.elapsed
                              ELSE ResponseTimeCap
  BY <1>2, MinOfTwo, FeaturesAssumption DEF ResponseTime
<1>4. e.row.elapsed = Null => ResponseTime(e.row) = Null
  BY DEF ResponseTime
<1> QED BY <1>1, <1>2, <1>3, <1>4, FeaturesAssumption

\* A sum of natural numbers is one.
LEMMA SumIsANumber ==
  ASSUME NEW f, IsFiniteSet(DOMAIN f), \A x \in DOMAIN f : f[x] \in Nat
  PROVE  SumFunction(f) \in Nat
<1>1. SumFunctionOnSet(f, DOMAIN f) \in Nat
  BY SumProperties
<1> QED BY <1>1 DEF SumFunction

\* A dataframe whose features can be computed.
Measured(E) == /\ IsFiniteSet(E)
               /\ \A e \in E : /\ e.row.elapsed \in Nat \cup {Null}
                               /\ e.response_time_ms \in Nat \cup {Null}

\* What aggregate_student_features puts in each of the columns.
LEMMA FeaturesAre ==
  ASSUME NEW E, Measured(E)
  PROVE  /\ AccuracyRate(E) \in Reduced
         /\ AverageResponseTime(E) \in Reduced \cup {Null}
         /\ TotalElapsed(E) \in Nat \cup {Null}
         /\ Cardinality(E) \in Nat
         /\ Cardinality(Marked(E, 1)) \in Nat
         /\ Cardinality(Marked(Responds(E), 0)) \in Nat
         /\ Cardinality({e.row.item : e \in Responds(E)}) \in Nat
         /\ Cardinality({e.row.item : e \in Enters(E)}) \in Nat
         /\ Cardinality({e.row.date : e \in E}) \in Nat
<1>1. /\ IsFiniteSet(E) /\ IsFiniteSet(Responds(E)) /\ IsFiniteSet(Enters(E))
      /\ IsFiniteSet(Marked(E, 1)) /\ IsFiniteSet(Marked(Responds(E), 0))
  BY FS_Subset DEF Measured, Responds, Enters, Marked
<1>2. \A S : IsFiniteSet(S) => /\ IsFiniteSet({e.row.item : e \in S})
                               /\ IsFiniteSet({e.row.date : e \in S})
  <2> SUFFICES ASSUME NEW S, IsFiniteSet(S)
               PROVE  /\ IsFiniteSet({e.row.item : e \in S})
                      /\ IsFiniteSet({e.row.date : e \in S})
    OBVIOUS
  <2>1. IsFiniteSet({e.row.item : e \in S})
    <3> DEFINE f == [e \in S |-> e.row.item]
    <3>1. /\ DOMAIN f = S /\ f = [e \in DOMAIN f |-> f[e]]
          /\ {f[e] : e \in DOMAIN f} = {e.row.item : e \in S}
      OBVIOUS
    <3> HIDE DEF f
    <3> QED BY <3>1, ImageCount
  <2>2. IsFiniteSet({e.row.date : e \in S})
    <3> DEFINE f == [e \in S |-> e.row.date]
    <3>1. /\ DOMAIN f = S /\ f = [e \in DOMAIN f |-> f[e]]
          /\ {f[e] : e \in DOMAIN f} = {e.row.date : e \in S}
      OBVIOUS
    <3> HIDE DEF f
    <3> QED BY <3>1, ImageCount
  <2> QED BY <2>1, <2>2
<1>3. AccuracyRate(E) \in Reduced
  <2>1. Zero \in Reduced
    BY ZeroIs DEF Reduced
  <2>2. ASSUME Responds(E) # {}
        PROVE  Fraction(Cardinality(Marked(E, 1)), Cardinality(Responds(E))) \in Reduced
    <3>1. Cardinality(Marked(E, 1)) \in Nat /\ Cardinality(Responds(E)) \in Nat \ {0}
      BY <1>1, <2>2, FS_CardinalityType, FS_EmptySet
    <3> QED BY <3>1, FractionIs DEF Reduced
  <2> QED BY <2>1, <2>2 DEF AccuracyRate
<1>4. AverageResponseTime(E) \in Reduced \cup {Null}
  <2> DEFINE T == {e \in Responds(E) : e.response_time_ms # Null}
             f == [e \in T |-> e.response_time_ms]
  <2> SUFFICES ASSUME T # {} PROVE Fraction(SumFunction(f), Cardinality(T)) \in Reduced
    BY DEF AverageResponseTime
  <2>1. IsFiniteSet(T)
    BY <1>1, FS_Subset
  <2>2. Cardinality(T) \in Nat \ {0}
    BY <2>1, FS_CardinalityType, FS_EmptySet
  <2>3. DOMAIN f = T /\ \A e \in T : f[e] \in Nat
    BY DEF Measured, Responds
  <2> HIDE DEF T, f
  <2>4. SumFunction(f) \in Nat
    BY <2>1, <2>3, SumIsANumber
  <2> QED BY <2>2, <2>4, FractionIs DEF Reduced
<1>5. TotalElapsed(E) \in Nat \cup {Null}
  <2> DEFINE T == {e \in E : e.row.elapsed # Null}
             f == [e \in T |-> e.row.elapsed]
  <2> SUFFICES SumFunction(f) \in Nat
    BY DEF TotalElapsed
  <2>1. IsFiniteSet(T)
    BY <1>1, FS_Subset
  <2>2. DOMAIN f = T /\ \A e \in T : f[e] \in Nat
    BY DEF Measured
  <2> HIDE DEF T, f
  <2> QED BY <2>1, <2>2, SumIsANumber
<1> QED BY <1>1, <1>2, <1>3, <1>4, <1>5, FS_CardinalityType

RateColumns == {"accuracy_rate", "avg_response_time_ms"}

\* The columns that are not rates are whole numbers or NULL.
LEMMA ColumnIs ==
  ASSUME NEW E, Measured(E), NEW u \in DOMAIN Aggregate(E), NEW c \in FeatureColumns
  PROVE  /\ Column(Aggregate(E), u, c) \in Reduced \cup {Null}
         /\ c \notin RateColumns =>
              /\ FeaturesOf(RowsOf(E, u))[c] \in Nat \cup {Null}
              /\ Column(Aggregate(E), u, c) =
                   IF FeaturesOf(RowsOf(E, u))[c] = Null THEN Null
                   ELSE <<FeaturesOf(RowsOf(E, u))[c], 1>>
         /\ c \in RateColumns =>
              Column(Aggregate(E), u, c) = FeaturesOf(RowsOf(E, u))[c]
<1> DEFINE O == RowsOf(E, u)
           f == FeaturesOf(O)
<1>1. Aggregate(E)[u] = f
  BY DEF Aggregate
<1>2. Measured(O)
  BY FS_Subset DEF Measured, RowsOf
<1> HIDE DEF O
<1>3. /\ f.total_interactions \in Nat
      /\ f.correct_count \in Nat
      /\ f.incorrect_count \in Nat
      /\ f.accuracy_rate \in Reduced
      /\ f.avg_response_time_ms \in Reduced \cup {Null}
      /\ f.total_elapsed_time_ms \in Nat \cup {Null}
      /\ f.unique_questions_attempted \in Nat
      /\ f.unique_lectures_viewed \in Nat
      /\ f.active_days \in Nat
  BY <1>2, FeaturesAre DEF FeaturesOf
<1> HIDE DEF f
<1>4. /\ c \in RateColumns => f[c] \in Reduced \cup {Null}
      /\ c \notin RateColumns => f[c] \in Nat \cup {Null}
  BY <1>3, FeaturesAssumption DEF RateColumns
<1>5. Column(Aggregate(E), u, c) =
        IF c \in RateColumns \/ f[c] = Null THEN f[c] ELSE <<f[c], 1>>
  BY <1>1 DEF Column, RateColumns
<1>6. f[c] \in Nat => <<f[c], 1>> \in Reduced
  BY WholeIs
<1>7. Column(Aggregate(E), u, c) \in Reduced \cup {Null}
  BY <1>4, <1>5, <1>6
<1> QED BY <1>4, <1>5, <1>7 DEF f, O

\* The known values of a column are finitely many fractions.
LEMMA KnownIs ==
  ASSUME NEW E, Measured(E), IsFiniteSet(DOMAIN Aggregate(E)), NEW c \in FeatureColumns
  PROVE  IsFiniteSet(Known(Aggregate(E), c)) /\ Known(Aggregate(E), c) \subseteq Reduced
<1> DEFINE f == [u \in DOMAIN Aggregate(E) |-> Column(Aggregate(E), u, c)]
           V == {f[u] : u \in DOMAIN f}
<1>1. DOMAIN f = DOMAIN Aggregate(E) /\ f = [u \in DOMAIN f |-> f[u]]
  OBVIOUS
<1>2. Known(Aggregate(E), c) = V \ {Null}
  BY DEF Known
<1>3. V \subseteq Reduced \cup {Null}
  BY ColumnIs
<1> HIDE DEF f
<1>4. IsFiniteSet(V)
  BY <1>1, ImageCount
<1> HIDE DEF V
<1>5. IsFiniteSet(V \ {Null})
  BY <1>4, FS_Subset
<1> QED BY <1>2, <1>3, <1>5

\* Normalised vectors hold fractions or NULL.
LEMMA VectorsAre ==
  ASSUME NEW E, Measured(E), IsFiniteSet(DOMAIN Aggregate(E)),
         NEW u \in DOMAIN Aggregate(E), NEW c \in FeatureColumns
  PROVE  NormalizeFeatures(Aggregate(E))[u][c] \in Reduced \cup {Null}
<1> DEFINE x == Column(Aggregate(E), u, c)
           known == Known(Aggregate(E), c)
<1>1. NormalizeFeatures(Aggregate(E))[u][c] =
        IF Cardinality(known) <= 1 THEN Zero
        ELSE IF x = Null THEN Null ELSE Scaled(x, known)
  BY DEF NormalizeFeatures
<1>2. IsFiniteSet(known) /\ known \subseteq Reduced
  BY KnownIs
<1>3. x # Null => x \in known
  BY DEF Known
<1> HIDE DEF x, known
<1>4. Zero \in Reduced
  BY ZeroIs DEF Reduced
<1> QED BY <1>1, <1>2, <1>3, <1>4, ScaledIs

\* ScoresAreCosines of any number of students and any choice of feature columns: the
\* score compute_cosine_similarity gives a pair is the cosine of the two vectors, is at
\* most 1 (Cauchy-Schwarz), is 1 of equal vectors, and every pair has one.
THEOREM ScoresAreTheCosines == FeaturesSpec => []ScoresAreCosines
<1>1. ASSUME FeaturesInv, stage = "compared" PROVE EveryPairIsScoredOnce
  <2>1. IsFiniteSet(Users) /\ Users \subseteq Nat /\ DOMAIN vectors = Users
    BY <1>1, StudentsAreNumbers
  <2>2. similarity = CosineSimilarity(vectors)
    BY <1>1 DEF FeaturesInv
  <2> QED BY <2>1, <2>2, ScoredOnce DEF EveryPairIsScoredOnce, Apart
<1>2. ASSUME FeaturesInv, stage = "compared", NEW s \in similarity
      PROVE  LET v == vectors[s.user_id]
                 w == vectors[s.other_user_id]
             IN  /\ s.similarity_score = Cosine(v, w)
                 /\ AtMost(s.similarity_score, One)
                 /\ v = w /\ HasMagnitude(v) => s.similarity_score = One
  <2>1. /\ IsFiniteSet(Users) /\ Users \subseteq Nat /\ DOMAIN vectors = Users
        /\ vectors = NormalizeFeatures(Aggregate(enriched))
        /\ Users = DOMAIN Aggregate(enriched)
        /\ similarity = CosineSimilarity(vectors)
    BY <1>2, StudentsAreNumbers DEF FeaturesInv, Users
  <2>2. Measured(enriched)
    <3>1. /\ enriched = EnrichInteractions(kt4, questions)
          /\ kt4 \subseteq Interactions /\ questions \subseteq Questions
      BY <1>2 DEF FeaturesInv
    <3>2. IsFiniteSet(enriched)
      BY <3>1, InputsAreFinite, EnrichedIsFinite
    <3> QED BY <3>1, <3>2, TimesOfARow DEF Measured
  <2>3. PICK p \in Apart(Users) : s = Score(p[1], p[2], ScoreOf(vectors, p[1], p[2]))
    BY <2>1, EveryPairHasOneScore
  <2> DEFINE v == vectors[p[1]]
             w == vectors[p[2]]
  <2>4. /\ p[1] \in Users /\ p[2] \in Users
        /\ s.user_id = p[1] /\ s.other_user_id = p[2]
        /\ s.similarity_score = ScoreOf(vectors, p[1], p[2])
    BY <2>3 DEF Apart, Score
  <2>5. \A c \in FeatureColumns : {v[c], w[c]} \subseteq Reduced \cup {Null}
    BY <2>1, <2>2, <2>4, VectorsAre
  <2>6. ScoreOf(vectors, p[1], p[2]) \in {Cosine(v, w), Cosine(w, v)}
    BY DEF ScoreOf
  <2> HIDE DEF v, w
  <2>7. /\ Cosine(v, w) = Cosine(w, v) /\ AtMost(Cosine(v, w), One)
        /\ v = w /\ HasMagnitude(v) => Cosine(v, w) = One
    BY <2>5, CosineIs
  <2> QED BY <2>4, <2>6, <2>7 DEF v, w
<1>3. FeaturesInv => ScoresAreCosines
  BY <1>1, <1>2 DEF ScoresAreCosines
<1> QED BY <1>3, FeaturesInvAlways, PTL

-----------------------------------------------------------------------------
(* A table that is there twice. *)
Sides == {0, 1}

\* What a copy of a joined row shares with it: all that the features are made of.
Alike(d, e) ==
  /\ d.row.user = e.row.user /\ d.row.action = e.row.action /\ d.row.item = e.row.item
  /\ d.row.date = e.row.date /\ d.row.elapsed = e.row.elapsed
  /\ d.is_correct = e.is_correct /\ d.response_time_ms = e.response_time_ms

\* D holds two copies of each joined row in E, those that m gives it.
TwiceEach(D, E, m) ==
  /\ D = {m[p] : p \in E \X Sides}
  /\ \A p, q \in E \X Sides : m[p] = m[q] => p = q
  /\ \A p \in E \X Sides : Alike(m[p], p[1])

\* Two copies are twice as many.
LEMMA TwiceCount ==
  ASSUME NEW D, NEW E, NEW m, IsFiniteSet(E), TwiceEach(D, E, m)
  PROVE  /\ IsFiniteSet(D)
         /\ Cardinality(E) \in Nat
         /\ Cardinality(D) = 2 * Cardinality(E)
<1> DEFINE P == E \X Sides
           f == [p \in P |-> m[p]]
<1>1. IsFiniteSet(Sides) /\ Cardinality(Sides) = 2
  <2>1. Sides = {0} \cup {1} /\ 1 \notin {0}
    BY DEF Sides
  <2>2. IsFiniteSet({0}) /\ Cardinality({0}) = 1
    BY FS_Singleton
  <2>3. IsFiniteSet({0} \cup {1}) /\ Cardinality({0} \cup {1}) = Cardinality({0}) + 1
    BY <2>1, <2>2, FS_AddElement
  <2> QED BY <2>1, <2>2, <2>3
<1>2. IsFiniteSet(P) /\ Cardinality(P) = Cardinality(E) * 2 /\ Cardinality(E) \in Nat
  BY <1>1, FS_Product, FS_CardinalityType
<1>3. /\ DOMAIN f = P /\ f = [p \in DOMAIN f |-> f[p]]
      /\ {f[p] : p \in DOMAIN f} = D
      /\ \A p, q \in P : f[p] = f[q] => p = q
  BY DEF TwiceEach
<1> HIDE DEF f, P
<1>4. IsInjective(f)
  BY <1>3 DEF IsInjective
<1>5. IsFiniteSet(D) /\ Cardinality(D) = Cardinality(P)
  BY <1>2, <1>3, <1>4, ImageCount
<1> QED BY <1>2, <1>5

\* Copies of a part of the rows.
LEMMA TwiceOfAPart ==
  ASSUME NEW D, NEW E, NEW m, TwiceEach(D, E, m), NEW D1 \in SUBSET D, NEW E1 \in SUBSET E,
         \A p \in E \X Sides : m[p] \in D1 <=> p[1] \in E1
  PROVE  TwiceEach(D1, E1, m)
<1>1. E1 \X Sides \subseteq E \X Sides
  OBVIOUS
<1>2. D1 = {m[p] : p \in E1 \X Sides}
  <2>1. ASSUME NEW d \in D1 PROVE d \in {m[p] : p \in E1 \X Sides}
    <3>1. PICK p \in E \X Sides : d = m[p]
      BY DEF TwiceEach
    <3>2. p \in E1 \X Sides
      BY <3>1
    <3> QED BY <3>1, <3>2
  <2>2. \A p \in E1 \X Sides : m[p] \in D1
    BY <1>1
  <2> QED BY <2>1, <2>2
<1> QED BY <1>1, <1>2 DEF TwiceEach

\* The sum over both copies is twice the sum.
LEMMA TwiceSum ==
  ASSUME NEW D, NEW E, NEW m, IsFiniteSet(E), TwiceEach(D, E, m),
         NEW f, DOMAIN f = E, \A x \in E : f[x] \in Nat,
         NEW g, DOMAIN g = D, \A p \in E \X Sides : g[m[p]] = f[p[1]]
  PROVE  SumFunction(f) \in Nat /\ SumFunction(g) = 2 * SumFunction(f)
<1> DEFINE Both(T) == {m[p] : p \in T \X Sides}
           F == {T \in SUBSET E : SumFunctionOnSet(g, Both(T)) = 2 * SumFunctionOnSet(f, T)}
<1>1. /\ D = Both(E)
      /\ \A p, q \in E \X Sides : m[p] = m[q] => p = q
  BY DEF TwiceEach
<1>2. \A T \in SUBSET E :
         /\ SumFunctionOnSet(f, T) \in Nat
         /\ T = {} => SumFunctionOnSet(f, T) = 0
         /\ \A x \in T : SumFunctionOnSet(f, T) = f[x] + SumFunctionOnSet(f, T \ {x})
  BY SumProperties
<1>3. \A T \in SUBSET D :
         /\ SumFunctionOnSet(g, T) \in Nat
         /\ T = {} => SumFunctionOnSet(g, T) = 0
         /\ \A x \in T : SumFunctionOnSet(g, T) = g[x] + SumFunctionOnSet(g, T \ {x})
  <2>1. IsFiniteSet(D)
    BY TwiceCount
  <2>2. \A x \in D : g[x] \in Nat
    BY <1>1
  <2> QED BY <2>1, <2>2, SumProperties
<1>4. ASSUME NEW T \in SUBSET E, \A x \in T : T \ {x} \in F PROVE T \in F
  <2>1. CASE T = {}
    <3>1. Both(T) = {} /\ Both(T) \in SUBSET D
      BY <2>1
    <3>2. SumFunctionOnSet(g, Both(T)) = 0 /\ SumFunctionOnSet(f, T) = 0
      BY <1>2, <1>3, <2>1, <3>1
    <3> QED BY <3>2
  <2>2. ASSUME NEW x \in T PROVE T \in F
    <3> DEFINE a == m[<<x, 0>>]
               b == m[<<x, 1>>]
               U == T \ {x}
    <3>1. /\ <<x, 0>> \in T \X Sides /\ <<x, 1>> \in T \X Sides
          /\ a \in Both(T) /\ b \in Both(T) /\ a # b
          /\ g[a] = f[x] /\ g[b] = f[x]
      <4>1. <<x, 0>> \in T \X Sides /\ <<x, 1>> \in T \X Sides /\ <<x, 0>> # <<x, 1>>
        BY DEF Sides
      <4>2. T \X Sides \subseteq E \X Sides
        OBVIOUS
      <4> QED BY <1>1, <4>1, <4>2
    <3>2. (Both(T) \ {a}) \ {b} = Both(U)
      <4>1. ASSUME NEW p \in T \X Sides PROVE m[p] \in {a, b} <=> p[1] = x
        <5>1. p \in E \X Sides /\ <<x, 0>> \in E \X Sides /\ <<x, 1>> \in E \X Sides
          BY <3>1
        <5>2. p[1] = x <=> p = <<x, 0>> \/ p = <<x, 1>>
          BY DEF Sides
        <5> QED BY <1>1, <5>1, <5>2
      <4>2. \A p \in T \X Sides : p \in U \X Sides <=> p[1] # x
        OBVIOUS
      <4>3. U \X Sides \subseteq T \X Sides
        OBVIOUS
      <4> QED BY <4>1, <4>2, <4>3
    <3>3. Both(T) \in SUBSET D /\ Both(T) \ {a} \in SUBSET D /\ Both(U) \in SUBSET D
      BY <1>1
    <3>4. SumFunctionOnSet(g, Both(T)) = f[x] + SumFunctionOnSet(g, Both(T) \ {a})
      BY <1>3, <3>1, <3>3
    <3>5. SumFunctionOnSet(g, Both(T) \ {a}) = f[x] + SumFunctionOnSet(g, Both(U))
      <4>1. b \in Both(T) \ {a}
        BY <3>1
      <4> HIDE DEF Both, a, b, U
      <4> QED BY <1>3, <3>1, <3>2, <3>3, <4>1
    <3>6. SumFunctionOnSet(f, T) = f[x] + SumFunctionOnSet(f, U)
      BY <1>2
    <3>7. SumFunctionOnSet(g, Both(U)) = 2 * SumFunctionOnSet(f, U)
      BY <1>4
    <3>8. f[x] \in Nat /\ SumFunctionOnSet(f, U) \in Nat
      BY <1>2
    <3> HIDE DEF Both, a, b, U
    <3>9. SumFunctionOnSet(g, Both(T)) = 2 * SumFunctionOnSet(f, T)
      BY <3>4, <3>5, <3>6, <3>7, <3>8
    <3> QED BY <3>9
  <2> QED BY <2>1, <2>2
<1>5. \A T \in SUBSET E : T \in F
  <2> HIDE DEF F
  <2>1. Inductive(F, E)
    BY <1>4 DEF Inductive
  <2> QED BY <2>1, SubsetsByInduction
<1>6. E \in F
  BY <1>5
<1> QED BY <1>1, <1>2, <1>6 DEF SumFunction

\* Numerator and denominator doubled give the same fraction.
LEMMA HalvesAreEqual ==
  ASSUME NEW n \in Nat, NEW d \in Nat \ {0}
  PROVE  Fraction(2 * n, 2 * d) = Fraction(n, d)
<1>1. 2 * n \in Nat /\ 2 * d \in Nat \ {0} /\ (2 * n) * d = n * (2 * d)
  OBVIOUS
<1> QED BY <1>1, FractionsAreEqual

\* The rates are those of the answers, and two copies of each change none.
LEMMA TwiceRates ==
  ASSUME NEW D, NEW E, NEW m, Measured(E), TwiceEach(Responds(D), Responds(E), m),
         Marked(E, 1) \subseteq Responds(E), Marked(D, 1) \subseteq Responds(D)
  PROVE  /\ AccuracyRate(D) = AccuracyRate(E)
         /\ AverageResponseTime(D) = AverageResponseTime(E)
<1>1. IsFiniteSet(Responds(E)) /\ Responds(E) \subseteq E
  BY FS_Subset DEF Measured, Responds
<1>2. /\ IsFiniteSet(Responds(D)) /\ Cardinality(Responds(D)) = 2 * Cardinality(Responds(E))
      /\ Cardinality(Responds(E)) \in Nat
  BY <1>1, TwiceCount
<1>3. Responds(D) = {} <=> Responds(E) = {}
  <2>1. \A e \in Responds(E) : m[<<e, 0>>] \in Responds(D)
    <3>1. \A e \in Responds(E) : <<e, 0>> \in Responds(E) \X Sides
      BY DEF Sides
    <3> QED BY <3>1 DEF TwiceEach
  <2> QED BY <2>1 DEF TwiceEach
<1>4. ASSUME Responds(E) # {} PROVE AccuracyRate(D) = AccuracyRate(E)
  <2>1. TwiceEach(Marked(D, 1), Marked(E, 1), m)
    <3>1. \A p \in Responds(E) \X Sides :
            /\ m[p] \in Responds(D) /\ p[1] \in Responds(E)
            /\ m[p].is_correct = p[1].is_correct
      BY DEF TwiceEach, Alike
    <3>2. \A p \in Responds(E) \X Sides : m[p] \in Marked(D, 1) <=> p[1] \in Marked(E, 1)
      BY <3>1 DEF Marked, Responds
    <3> HIDE DEF Responds
    <3> QED BY <3>2, TwiceOfAPart
  <2>2. IsFiniteSet(Marked(E, 1))
    BY <1>1, FS_Subset
  <2>3. /\ Cardinality(Marked(D, 1)) = 2 * Cardinality(Marked(E, 1))
        /\ Cardinality(Marked(E, 1)) \in Nat
    BY <2>1, <2>2, TwiceCount
  <2>4. Cardinality(Responds(E)) \in Nat \ {0}
    BY <1>1, <1>2, <1>4, FS_EmptySet
  <2> QED BY <1>2, <1>3, <1>4, <2>3, <2>4, HalvesAreEqual DEF AccuracyRate
<1>5. AverageResponseTime(D) = AverageResponseTime(E)
  <2> DEFINE A == {e \in Responds(E) : e.response_time_ms # Null}
             B == {e \in Responds(D) : e.response_time_ms # Null}
             f == [e \in A |-> e.response_time_ms]
             g == [e \in B |-> e.response_time_ms]
  <2>1. TwiceEach(B, A, m)
    <3>1. \A p \in Responds(E) \X Sides :
            /\ m[p] \in Responds(D) /\ p[1] \in Responds(E)
            /\ m[p].response_time_ms = p[1].response_time_ms
      BY DEF TwiceEach, Alike
    <3>2. \A p \in Responds(E) \X Sides : m[p] \in B <=> p[1] \in A
      BY <3>1
    <3>3. A \in SUBSET Responds(E) /\ B \in SUBSET Responds(D)
      OBVIOUS
    <3> HIDE DEF A, B
    <3> QED BY <3>2, <3>3, TwiceOfAPart
  <2>2. IsFiniteSet(A)
    BY <1>1, FS_Subset
  <2>3. /\ DOMAIN f = A /\ \A x \in A : f[x] \in Nat
        /\ DOMAIN g = B /\ \A p \in A \X Sides : g[m[p]] = f[p[1]]
    <3>1. \A x \in A : f[x] \in Nat
      BY DEF Measured, Responds
    <3>2. \A p \in A \X Sides : m[p] \in B /\ m[p].response_time_ms = p[1].response_time_ms
      BY <2>1 DEF TwiceEach, Alike
    <3> QED BY <3>1, <3>2
  <2>4. /\ AverageResponseTime(E) =
             IF A = {} THEN Null ELSE Fraction(SumFunction(f), Cardinality(A))
        /\ AverageResponseTime(D) =
             IF B = {} THEN Null ELSE Fraction(SumFunction(g), Cardinality(B))
    BY DEF AverageResponseTime
  <2> HIDE DEF A, B, f, g
  <2>5. SumFunction(f) \in Nat /\ SumFunction(g) = 2 * SumFunction(f)
    BY <2>1, <2>2, <2>3, TwiceSum
  <2>6. /\ IsFiniteSet(B) /\ Cardinality(B) = 2 * Cardinality(A) /\ Cardinality(A) \in Nat
    BY <2>1, <2>2, TwiceCount
  <2>7. /\ A = {} <=> Cardinality(A) = 0
        /\ B = {} <=> Cardinality(B) = 0
    BY <2>2, <2>6, FS_EmptySet
  <2>8. CASE A = {}
    BY <2>4, <2>6, <2>7, <2>8
  <2>9. CASE A # {}
    <3>1. Cardinality(A) \in Nat \ {0} /\ B # {}
      BY <2>6, <2>7, <2>9
    <3> QED BY <2>4, <2>5, <2>6, <2>9, <3>1, HalvesAreEqual
  <2> QED BY <2>8, <2>9
<1>6. Responds(E) = {} => AccuracyRate(D) = AccuracyRate(E)
  BY <1>3 DEF AccuracyRate
<1> QED BY <1>4, <1>5, <1>6

-----------------------------------------------------------------------------
(* A second copy of the interactions. *)
CopiedColumns == {"total_interactions", "correct_count", "incorrect_count",
                  "total_elapsed_time_ms"}

\* Counts and the sum are doubled; the other columns stay.
LEMMA TwiceFeatures ==
  ASSUME NEW D, NEW E, NEW m, Measured(E), TwiceEach(D, E, m),
         Marked(E, 1) \subseteq Responds(E), Marked(D, 1) \subseteq Responds(D)
  PROVE  /\ Rates(FeaturesOf(D)) = Rates(FeaturesOf(E))
         /\ \A c \in CopiedColumns :
              /\ FeaturesOf(E)[c] \in Nat \cup {Null}
              /\ FeaturesOf(D)[c] = IF FeaturesOf(E)[c] = Null THEN Null
                                    ELSE 2 * FeaturesOf(E)[c]
<1>1. IsFiniteSet(E) /\ Null \notin Nat
  BY FeaturesAssumption DEF Measured
<1>2. \A p \in E \X Sides : m[p] \in D /\ p[1] \in E /\ Alike(m[p], p[1])
  BY DEF TwiceEach
<1>3. TwiceEach(Responds(D), Responds(E), m)
  <2>1. \A p \in E \X Sides : m[p] \in Responds(D) <=> p[1] \in Responds(E)
    BY <1>2 DEF Responds, Alike
  <2>2. Responds(E) \in SUBSET E /\ Responds(D) \in SUBSET D
    BY DEF Responds
  <2> QED BY <2>1, <2>2, TwiceOfAPart
<1>4. TwiceEach(Enters(D), Enters(E), m)
  <2>1. \A p \in E \X Sides : m[p] \in Enters(D) <=> p[1] \in Enters(E)
    BY <1>2 DEF Enters, Alike
  <2>2. Enters(E) \in SUBSET E /\ Enters(D) \in SUBSET D
    BY DEF Enters
  <2> QED BY <2>1, <2>2, TwiceOfAPart
<1>5. TwiceEach(Marked(D, 1), Marked(E, 1), m)
  <2>1. \A p \in E \X Sides : m[p] \in Marked(D, 1) <=> p[1] \in Marked(E, 1)
    BY <1>2 DEF Marked, Alike
  <2>2. Marked(E, 1) \in SUBSET E /\ Marked(D, 1) \in SUBSET D
    BY DEF Marked
  <2> QED BY <2>1, <2>2, TwiceOfAPart
<1>6. TwiceEach(Marked(Responds(D), 0), Marked(Responds(E), 0), m)
  <2>1. \A p \in E \X Sides :
          m[p] \in Marked(Responds(D), 0) <=> p[1] \in Marked(Responds(E), 0)
    BY <1>2 DEF Marked, Responds, Alike
  <2>2. Marked(Responds(E), 0) \in SUBSET E /\ Marked(Responds(D), 0) \in SUBSET D
    BY DEF Marked, Responds
  <2> QED BY <2>1, <2>2, TwiceOfAPart
<1>7. /\ IsFiniteSet(Marked(E, 1)) /\ IsFiniteSet(Marked(Responds(E), 0))
  BY <1>1, FS_Subset DEF Marked, Responds
<1>8. \A S, T : TwiceEach(T, S, m) =>
        /\ {e.row.item : e \in T} = {e.row.item : e \in S}
        /\ {e.row.date : e \in T} = {e.row.date : e \in S}
  <2> SUFFICES ASSUME NEW S, NEW T, TwiceEach(T, S, m)
               PROVE  /\ {e.row.item : e \in T} = {e.row.item : e \in S}
                      /\ {e.row.date : e \in T} = {e.row.date : e \in S}
    OBVIOUS
  <2>1. \A e \in T : \E d \in S : e.row.item = d.row.item /\ e.row.date = d.row.date
    BY DEF TwiceEach, Alike
  <2>2. \A d \in S : \E e \in T : e.row.item = d.row.item /\ e.row.date = d.row.date
    <3> TAKE d \in S
    <3>1. <<d, 0>> \in S \X Sides
      BY DEF Sides
    <3>2. m[<<d, 0>>] \in T /\ Alike(m[<<d, 0>>], d)
      BY <3>1 DEF TwiceEach
    <3> QED BY <3>2 DEF Alike
  <2> QED BY <2>1, <2>2
<1>9. Rates(FeaturesOf(D)) = Rates(FeaturesOf(E))
  <2>1. /\ AccuracyRate(D) = AccuracyRate(E)
        /\ AverageResponseTime(D) = AverageResponseTime(E)
    BY <1>3, TwiceRates
  <2>2. /\ {e.row.item : e \in Responds(D)} = {e.row.item : e \in Responds(E)}
        /\ {e.row.item : e \in Enters(D)} = {e.row.item : e \in Enters(E)}
        /\ {e.row.date : e \in D} = {e.row.date : e \in E}
    BY <1>3, <1>4, <1>8
  <2> QED BY <2>1, <2>2 DEF Rates, FeaturesOf
<1>10. /\ Cardinality(E) \in Nat /\ Cardinality(D) = 2 * Cardinality(E)
       /\ Cardinality(Marked(E, 1)) \in Nat
       /\ Cardinality(Marked(D, 1)) = 2 * Cardinality(Marked(E, 1))
       /\ Cardinality(Marked(Responds(E), 0)) \in Nat
       /\ Cardinality(Marked(Responds(D), 0)) = 2 * Cardinality(Marked(Responds(E), 0))
  BY <1>1, <1>5, <1>6, <1>7, TwiceCount
<1>11. /\ TotalElapsed(E) \in Nat \cup {Null}
       /\ TotalElapsed(D) = IF TotalElapsed(E) = Null THEN Null ELSE 2 * TotalElapsed(E)
  <2> DEFINE A == {e \in E : e.row.elapsed # Null}
             B == {e \in D : e.row.elapsed # Null}
             f == [e \in A |-> e.row.elapsed]
             g == [e \in B |-> e.row.elapsed]
  <2>1. TwiceEach(B, A, m)
    <3>1. \A p \in E \X Sides : m[p] \in B <=> p[1] \in A
      BY <1>2 DEF Alike
    <3>2. A \in SUBSET E /\ B \in SUBSET D
      OBVIOUS
    <3> HIDE DEF A, B
    <3> QED BY <3>1, <3>2, TwiceOfAPart
  <2>2. IsFiniteSet(A)
    BY <1>1, FS_Subset
  <2>3. /\ DOMAIN f = A /\ \A x \in A : f[x] \in Nat
        /\ DOMAIN g = B /\ \A p \in A \X Sides : g[m[p]] = f[p[1]]
    <3>1. \A x \in A : f[x] \in Nat
      BY DEF Measured
    <3>2. \A p \in A \X Sides : m[p] \in B /\ m[p].row.elapsed = p[1].row.elapsed
      BY <2>1 DEF TwiceEach, Alike
    <3> QED BY <3>1, <3>2
  <2>4. /\ TotalElapsed(E) = IF A = {} THEN Null ELSE SumFunction(f)
        /\ TotalElapsed(D) = IF B = {} THEN Null ELSE SumFunction(g)
    BY DEF TotalElapsed
  <2>5. A = {} <=> B = {}
    <3>1. \A e \in A : <<e, 0>> \in A \X Sides
      BY DEF Sides
    <3> HIDE DEF A, B
    <3>2. \A e \in A : m[<<e, 0>>] \in B
      BY <2>1, <3>1 DEF TwiceEach
    <3>3. \A e \in B : \E p \in A \X Sides : e = m[p]
      BY <2>1 DEF TwiceEach
    <3> QED BY <3>2, <3>3
  <2> HIDE DEF A, B, f, g
  <2>6. SumFunction(f) \in Nat /\ SumFunction(g) = 2 * SumFunction(f)
    BY <2>1, <2>2, <2>3, TwiceSum
  <2> QED BY <1>1, <2>4, <2>5, <2>6
<1>12. \A n \in Nat : n # Null
  BY <1>1
<1>13. /\ FeaturesOf(E).total_interactions = Cardinality(E)
       /\ FeaturesOf(E).correct_count = Cardinality(Marked(E, 1))
       /\ FeaturesOf(E).incorrect_count = Cardinality(Marked(Responds(E), 0))
       /\ FeaturesOf(E).total_elapsed_time_ms = TotalElapsed(E)
       /\ FeaturesOf(D).total_interactions = Cardinality(D)
       /\ FeaturesOf(D).correct_count = Cardinality(Marked(D, 1))
       /\ FeaturesOf(D).incorrect_count = Cardinality(Marked(Responds(D), 0))
       /\ FeaturesOf(D).total_elapsed_time_ms = TotalElapsed(D)
  BY DEF FeaturesOf
<1> QED BY <1>9, <1>10, <1>11, <1>12, <1>13 DEF CopiedColumns

\* A copy of a row keeps all but the copy, and tells which it is.
LEMMA CopiesOfInteractions ==
  ASSUME NEW r \in Interactions, NEW i \in Sides
  PROVE  /\ Copy(r, i).user = r.user /\ Copy(r, i).action = r.action
         /\ Copy(r, i).item = r.item /\ Copy(r, i).answer = r.answer
         /\ Copy(r, i).elapsed = r.elapsed /\ Copy(r, i).date = r.date
         /\ \A s \in Interactions, j \in Sides : Copy(r, i) = Copy(s, j) => r = s /\ i = j
<1> DEFINE Fields == {"user", "action", "item", "answer", "elapsed", "date", "copy"}
<1>1. \A s \in Interactions : s = [f \in Fields |-> s[f]] /\ s.copy \in Nat
  BY TablesAssumption
<1>2. \A s \in Interactions, j \in Sides :
        /\ Copy(s, j).user = s.user /\ Copy(s, j).action = s.action
        /\ Copy(s, j).item = s.item /\ Copy(s, j).answer = s.answer
        /\ Copy(s, j).elapsed = s.elapsed /\ Copy(s, j).date = s.date
        /\ Copy(s, j).copy = 2 * s.copy + j
  BY <1>1 DEF Copy
<1>3. ASSUME NEW s \in Interactions, NEW j \in Sides, Copy(r, i) = Copy(s, j)
      PROVE  r = s /\ i = j
  <2>1. 2 * r.copy + i = 2 * s.copy + j
    BY <1>2, <1>3
  <2>2. \A x, y \in Nat : \A a, b \in {0, 1} : 2 * x + a = 2 * y + b => x = y /\ a = b
    OBVIOUS
  <2>3. r.copy = s.copy /\ i = j
    BY <1>1, <2>1, <2>2 DEF Sides
  <2>4. \A f \in Fields : r[f] = s[f]
    BY <1>2, <1>3, <2>3
  <2>5. [f \in Fields |-> r[f]] = [f \in Fields |-> s[f]]
    BY <2>4
  <2> QED BY <1>1, <2>3, <2>5
<1> QED BY <1>2, <1>3

\* What joining the interactions twice gives.
LEMMA TwiceJoined ==
  ASSUME NEW rows, rows \subseteq Interactions, NEW asked
  PROVE  \E m : TwiceEach(EnrichInteractions(Twice(rows), asked),
                          EnrichInteractions(rows, asked), m)
<1> DEFINE E == EnrichInteractions(rows, asked)
           D == EnrichInteractions(Twice(rows), asked)
           m == [p \in E \X Sides |-> Joined(Copy(p[1].row, p[2]), p[1].question)]
<1>1. \A r \in Interactions, i \in Sides :
        /\ Matches(Copy(r, i), asked) = Matches(r, asked)
        /\ ResponseTime(Copy(r, i)) = ResponseTime(r)
        /\ \A q : IsCorrect(Copy(r, i), q) = IsCorrect(r, q)
  <2> TAKE r \in Interactions, i \in Sides
  <2>1. /\ Copy(r, i).action = r.action /\ Copy(r, i).item = r.item
        /\ Copy(r, i).answer = r.answer /\ Copy(r, i).elapsed = r.elapsed
    BY CopiesOfInteractions
  <2> QED BY <2>1 DEF Matches, ResponseTime, IsCorrect
<1>2. \A e \in E : /\ e.row \in rows /\ e.row \in Interactions
                   /\ e.question \in Matches(e.row, asked)
                   /\ e = Joined(e.row, e.question)
  BY EnrichedRows
<1>3. \A p \in E \X Sides :
        /\ p[1] \in E /\ p[2] \in Sides /\ p = <<p[1], p[2]>>
        /\ m[p].row = Copy(p[1].row, p[2]) /\ m[p].question = p[1].question
        /\ m[p].is_correct = IsCorrect(Copy(p[1].row, p[2]), p[1].question)
        /\ m[p].response_time_ms = ResponseTime(Copy(p[1].row, p[2]))
  BY DEF Joined
<1>4. ASSUME NEW p \in E \X Sides, NEW q \in E \X Sides, m[p] = m[q] PROVE p = q
  <2>1. Copy(p[1].row, p[2]) = Copy(q[1].row, q[2]) /\ p[1].question = q[1].question
    BY <1>3, <1>4
  <2>2. p[1].row = q[1].row /\ p[2] = q[2]
    BY <1>2, <1>3, <2>1, CopiesOfInteractions
  <2>3. p[1] = q[1]
    BY <1>2, <1>3, <2>1, <2>2
  <2> QED BY <1>3, <2>2, <2>3
<1>5. ASSUME NEW p \in E \X Sides PROVE Alike(m[p], p[1])
  <2> DEFINE e == p[1]
  <2>1. e \in E /\ p[2] \in Sides /\ e.row \in Interactions
    BY <1>2, <1>3
  <2>2. /\ e.is_correct = IsCorrect(e.row, e.question)
        /\ e.response_time_ms = ResponseTime(e.row)
    BY <1>2, <2>1 DEF Joined
  <2>3. /\ Copy(e.row, p[2]).user = e.row.user /\ Copy(e.row, p[2]).action = e.row.action
        /\ Copy(e.row, p[2]).item = e.row.item /\ Copy(e.row, p[2]).date = e.row.date
        /\ Copy(e.row, p[2]).elapsed = e.row.elapsed
    BY <2>1, CopiesOfInteractions
  <2> HIDE DEF m
  <2> QED BY <1>1, <1>3, <2>1, <2>2, <2>3 DEF Alike
<1>6. ASSUME NEW d \in D PROVE d \in {m[p] : p \in E \X Sides}
  <2>1. d.row \in Twice(rows) /\ d.question \in Matches(d.row, asked)
        /\ d = Joined(d.row, d.question)
    BY EnrichedRows
  <2>2. PICK r \in rows, i \in Sides : d.row = Copy(r, i)
    BY <2>1 DEF Twice, Sides
  <2> DEFINE e == Joined(r, d.question)
             p == <<e, i>>
  <2>3. e \in E
    BY <1>1, <2>1, <2>2, EnrichedRows
  <2>4. p \in E \X Sides /\ p[1].row = r /\ p[1].question = d.question /\ p[2] = i
    BY <2>3 DEF Joined
  <2>5. m[p] = Joined(Copy(r, i), d.question)
    BY <2>4
  <2>6. d = m[p]
    BY <2>1, <2>2, <2>5
  <2> HIDE DEF p, m
  <2> QED BY <2>4, <2>6
<1>7. ASSUME NEW p \in E \X Sides PROVE m[p] \in D
  <2>1. /\ p[1].row \in rows /\ p[1].row \in Interactions /\ p[2] \in Sides
        /\ p[1].question \in Matches(p[1].row, asked)
    BY <1>2, <1>3
  <2>2. Copy(p[1].row, p[2]) \in Twice(rows)
    BY <2>1 DEF Twice, Sides
  <2>3. p[1].question \in Matches(Copy(p[1].row, p[2]), asked)
    BY <1>1, <2>1
  <2> QED BY <2>2, <2>3, EnrichedRows
<1>8. D = {m[p] : p \in E \X Sides}
  <2> HIDE DEF D, m
  <2> QED BY <1>6, <1>7
<1> HIDE DEF m
<1> QED BY <1>4, <1>5, <1>8 DEF TwiceEach

\* The same of one student.
LEMMA TwiceJoinedOfAStudent ==
  ASSUME NEW rows, rows \subseteq Interactions, NEW asked, NEW u,
         IsFiniteSet(rows), IsFiniteSet(asked)
  PROVE  LET E == RowsOf(EnrichInteractions(rows, asked), u)
             D == RowsOf(EnrichInteractions(Twice(rows), asked), u)
         IN  /\ \E m : TwiceEach(D, E, m)
             /\ Cardinality(E) \in Nat /\ Cardinality(D) = 2 * Cardinality(E)
             /\ Measured(E)
             /\ Marked(E, 1) \subseteq Responds(E) /\ Marked(D, 1) \subseteq Responds(D)
<1> DEFINE E0 == EnrichInteractions(rows, asked)
           D0 == EnrichInteractions(Twice(rows), asked)
           E == RowsOf(E0, u)
           D == RowsOf(D0, u)
<1>1. PICK m : TwiceEach(D0, E0, m)
  BY TwiceJoined
<1>2. TwiceEach(D, E, m)
  <2>1. \A p \in E0 \X Sides : m[p] \in D0 /\ p[1] \in E0 /\ m[p].row.user = p[1].row.user
    BY <1>1 DEF TwiceEach, Alike
  <2>2. \A p \in E0 \X Sides : m[p] \in D <=> p[1] \in E
    BY <2>1 DEF RowsOf
  <2>3. E \in SUBSET E0 /\ D \in SUBSET D0
    BY DEF RowsOf
  <2> HIDE DEF D, E, D0, E0
  <2> QED BY <1>1, <2>2, <2>3, TwiceOfAPart
<1>3. Measured(E)
  <2>1. IsFiniteSet(E)
    BY EnrichedIsFinite, FS_Subset DEF RowsOf
  <2>2. \A e \in E : /\ e.row.elapsed \in Nat \cup {Null}
                     /\ e.response_time_ms \in Nat \cup {Null}
    BY TimesOfARow DEF RowsOf
  <2> QED BY <2>1, <2>2 DEF Measured
<1>4. Marked(E, 1) \subseteq Responds(E) /\ Marked(D, 1) \subseteq Responds(D)
  BY MarkedRows DEF Marked, Responds, RowsOf
<1>5. Cardinality(E) \in Nat /\ Cardinality(D) = 2 * Cardinality(E)
  <2> HIDE DEF D, E
  <2> QED BY <1>2, <1>3, TwiceCount DEF Measured
<1> QED BY <1>2, <1>3, <1>4, <1>5

\* Every student is still there, with the same rates.
LEMMA RatesWithCopiedRows ==
  ASSUME NEW rows, rows \subseteq Interactions, NEW asked,
         IsFiniteSet(rows), IsFiniteSet(asked),
         NEW u \in DOMAIN Aggregate(EnrichInteractions(rows, asked))
  PROVE  /\ u \in DOMAIN Aggregate(EnrichInteractions(Twice(rows), asked))
         /\ Rates(Aggregate(EnrichInteractions(Twice(rows), asked))[u]) =
              Rates(Aggregate(EnrichInteractions(rows, asked))[u])
<1> DEFINE E0 == EnrichInteractions(rows, asked)
           D0 == EnrichInteractions(Twice(rows), asked)
           E == RowsOf(E0, u)
           D == RowsOf(D0, u)
<1>1. PICK m : TwiceEach(D, E, m)
  BY TwiceJoinedOfAStudent
<1>2. /\ Cardinality(E) \in Nat /\ Cardinality(D) = 2 * Cardinality(E) /\ Measured(E)
      /\ Marked(E, 1) \subseteq Responds(E) /\ Marked(D, 1) \subseteq Responds(D)
  BY TwiceJoinedOfAStudent
<1>3. Cardinality(E) >= MinInteractions /\ \E e \in E0 : e.row.user = u
  BY DEF Aggregate
<1>4. Cardinality(D) >= MinInteractions
  BY <1>2, <1>3, CountsAssumption
<1>5. \E d \in D0 : d.row.user = u
  <2>1. PICK e \in E : TRUE
    BY <1>3 DEF RowsOf
  <2>2. <<e, 0>> \in E \X Sides
    BY DEF Sides
  <2>3. m[<<e, 0>>] \in D
    BY <1>1, <2>2 DEF TwiceEach
  <2> QED BY <2>3 DEF RowsOf
<1>6. u \in DOMAIN Aggregate(D0)
  <2> HIDE DEF D0
  <2> QED BY <1>4, <1>5 DEF Aggregate
<1>7. Aggregate(D0)[u] = FeaturesOf(D) /\ Aggregate(E0)[u] = FeaturesOf(E)
  <2>1. u \in DOMAIN Aggregate(E0)
    OBVIOUS
  <2> HIDE DEF D0, E0
  <2> QED BY <1>6, <2>1 DEF Aggregate
<1> HIDE DEF D, E, D0, E0
<1>8. Rates(FeaturesOf(D)) = Rates(FeaturesOf(E))
  BY <1>1, <1>2, TwiceFeatures
<1> QED BY <1>6, <1>7, <1>8 DEF D0, E0

-----------------------------------------------------------------------------
(* A second copy of the questions. *)
LEMMA CopiesOfQuestions ==
  ASSUME NEW q \in Questions, NEW i \in Sides
  PROVE  /\ Copy(q, i).id = q.id /\ Copy(q, i).answer = q.answer
         /\ \A r \in Questions, j \in Sides : Copy(q, i) = Copy(r, j) => q = r /\ i = j
<1> DEFINE Fields == {"id", "answer", "part", "copy"}
<1>1. \A s \in Questions : s = [f \in Fields |-> s[f]] /\ s.copy \in Nat
  BY TablesAssumption
<1>2. \A s \in Questions, j \in Sides :
        /\ Copy(s, j).id = s.id /\ Copy(s, j).answer = s.answer
        /\ Copy(s, j).part = s.part /\ Copy(s, j).copy = 2 * s.copy + j
  BY <1>1 DEF Copy
<1>3. ASSUME NEW s \in Questions, NEW j \in Sides, Copy(q, i) = Copy(s, j)
      PROVE  q = s /\ i = j
  <2>1. 2 * q.copy + i = 2 * s.copy + j
    BY <1>2, <1>3
  <2>2. \A x, y \in Nat : \A a, b \in {0, 1} : 2 * x + a = 2 * y + b => x = y /\ a = b
    OBVIOUS
  <2>3. q.copy = s.copy /\ i = j
    BY <1>1, <2>1, <2>2 DEF Sides
  <2>4. \A f \in Fields : q[f] = s[f]
    BY <1>2, <1>3, <2>3
  <2>5. [f \in Fields |-> q[f]] = [f \in Fields |-> s[f]]
    BY <2>4
  <2> QED BY <1>1, <2>3, <2>5
<1> QED BY <1>2, <1>3

\* The join is made, and finds the question of a row.
IsAsked(r, asked) == CorrectnessJoin /\ \E q \in asked : q.id = r.item

\* What an interaction matches once the questions are there twice.
LEMMA TwiceMatched ==
  ASSUME NEW asked, asked \subseteq Questions, NEW r
  PROVE  /\ IsAsked(r, asked) =>
              /\ Matches(r, asked) = {q \in asked : q.id = r.item}
              /\ Matches(r, Twice(asked)) =
                   {Copy(q, i) : q \in Matches(r, asked), i \in Sides}
         /\ ~ IsAsked(r, asked) =>
              /\ Matches(r, asked) = {NoQuestion}
              /\ Matches(r, Twice(asked)) = {NoQuestion}
<1> DEFINE here == {q \in asked : CorrectnessJoin /\ q.id = r.item}
           there == {q \in Twice(asked) : CorrectnessJoin /\ q.id = r.item}
<1>1. there = {Copy(q, i) : q \in here, i \in Sides}
  <2>1. Twice(asked) = {Copy(q, i) : q \in asked, i \in Sides}
    BY DEF Twice, Sides
  <2>2. \A q \in asked, i \in Sides : Copy(q, i).id = q.id
    BY CopiesOfQuestions
  <2> QED BY <2>1, <2>2
<1>2. /\ Matches(r, asked) = IF here = {} THEN {NoQuestion} ELSE here
      /\ Matches(r, Twice(asked)) = IF there = {} THEN {NoQuestion} ELSE there
  BY DEF Matches
<1>3. here = {} <=> there = {}
  <2>1. 0 \in Sides
    BY DEF Sides
  <2> HIDE DEF here, there
  <2>2. \A q \in here : Copy(q, 0) \in there
    BY <1>1, <2>1
  <2>3. \A q \in there : \E p \in here : TRUE
    BY <1>1
  <2> QED BY <2>2, <2>3
<1>4. IsAsked(r, asked) <=> here # {}
  BY DEF IsAsked
<1>5. here # {} => here = {q \in asked : q.id = r.item}
  OBVIOUS
<1> HIDE DEF here, there
<1> QED BY <1>1, <1>2, <1>3, <1>4, <1>5

\* Where all that a student answered is in the table, each answer is there twice; and
\* no row of the student's is lost.
LEMMA TwiceAsked ==
  ASSUME NEW rows, NEW asked, asked \subseteq Questions, NEW u, CorrectnessJoin,
         \A r \in rows : r.user = u /\ r.action = "respond" =>
           \E q \in asked : q.id = r.item
  PROVE  LET E == RowsOf(EnrichInteractions(rows, asked), u)
             D == RowsOf(EnrichInteractions(rows, Twice(asked)), u)
         IN  \E m : TwiceEach(Responds(D), Responds(E), m)
<1> DEFINE E == RowsOf(EnrichInteractions(rows, asked), u)
           D == RowsOf(EnrichInteractions(rows, Twice(asked)), u)
           m == [p \in Responds(E) \X Sides |-> Joined(p[1].row, Copy(p[1].question, p[2]))]
<1>1. \A e \in Responds(E) :
        /\ e.row \in rows /\ e.row.user = u /\ e.row.action = "respond"
        /\ e.question \in Matches(e.row, asked) /\ e = Joined(e.row, e.question)
  BY EnrichedRows DEF RowsOf, Responds
<1>2. \A d \in Responds(D) :
        /\ d.row \in rows /\ d.row.user = u /\ d.row.action = "respond"
        /\ d.question \in Matches(d.row, Twice(asked)) /\ d = Joined(d.row, d.question)
  BY EnrichedRows DEF RowsOf, Responds
<1>3. \A r \in rows : r.user = u /\ r.action = "respond" =>
        /\ Matches(r, asked) \subseteq Questions
        /\ Matches(r, Twice(asked)) = {Copy(q, i) : q \in Matches(r, asked), i \in Sides}
  <2>1. \A r \in rows : r.user = u /\ r.action = "respond" => IsAsked(r, asked)
    BY DEF IsAsked
  <2> QED BY <2>1, TwiceMatched
<1>4. \A e \in Responds(E) : e.question \in Questions
  BY <1>1, <1>3
<1>5. \A p \in Responds(E) \X Sides :
        /\ p[1] \in Responds(E) /\ p[2] \in Sides /\ p = <<p[1], p[2]>>
        /\ m[p].row = p[1].row /\ m[p].question = Copy(p[1].question, p[2])
        /\ m[p] = Joined(p[1].row, Copy(p[1].question, p[2]))
        /\ m[p].is_correct = IsCorrect(p[1].row, Copy(p[1].question, p[2]))
        /\ m[p].response_time_ms = ResponseTime(p[1].row)
  BY DEF Joined
<1> HIDE DEF m
<1>6. ASSUME NEW p \in Responds(E) \X Sides, NEW q \in Responds(E) \X Sides, m[p] = m[q]
      PROVE  p = q
  <2>1. p[1].row = q[1].row /\ Copy(p[1].question, p[2]) = Copy(q[1].question, q[2])
    BY <1>5, <1>6
  <2>2. p[1].question = q[1].question /\ p[2] = q[2]
    BY <1>4, <1>5, <2>1, CopiesOfQuestions
  <2>3. p[1] = q[1]
    BY <1>1, <1>5, <2>1, <2>2
  <2> QED BY <1>5, <2>2, <2>3
<1>7. ASSUME NEW p \in Responds(E) \X Sides PROVE Alike(m[p], p[1])
  <2>1. Copy(p[1].question, p[2]).answer = p[1].question.answer
    BY <1>4, <1>5, CopiesOfQuestions
  <2>2. /\ p[1].is_correct = IsCorrect(p[1].row, p[1].question)
        /\ p[1].response_time_ms = ResponseTime(p[1].row)
    BY <1>1, <1>5 DEF Joined
  <2>3. IsCorrect(p[1].row, Copy(p[1].question, p[2])) = IsCorrect(p[1].row, p[1].question)
    BY <2>1 DEF IsCorrect
  <2> QED BY <1>5, <2>2, <2>3 DEF Alike
<1>8. ASSUME NEW d \in Responds(D)
      PROVE  d \in {m[p] : p \in Responds(E) \X Sides}
  <2>1. PICK q \in Matches(d.row, asked), i \in Sides : d.question = Copy(q, i)
    BY <1>2, <1>3
  <2> DEFINE e == Joined(d.row, q)
             p == <<e, i>>
  <2>2. e \in EnrichInteractions(rows, asked) /\ e.row = d.row /\ e.question = q
    BY <1>2, EnrichedRows DEF Joined
  <2>3. e \in Responds(E)
    BY <1>2, <2>2 DEF Responds, RowsOf
  <2>4. p \in Responds(E) \X Sides /\ p[1] = e /\ p[2] = i
    BY <2>3
  <2> HIDE DEF e, p
  <2>5. m[p] = d
    BY <1>2, <1>5, <2>1, <2>2, <2>4
  <2> QED BY <2>4, <2>5
<1>9. ASSUME NEW p \in Responds(E) \X Sides PROVE m[p] \in Responds(D)
  <2>1. /\ p[1].row \in rows /\ p[1].row.user = u /\ p[1].row.action = "respond"
        /\ p[1].question \in Matches(p[1].row, asked) /\ p[2] \in Sides
    BY <1>1, <1>5
  <2>2. Copy(p[1].question, p[2]) \in Matches(p[1].row, Twice(asked))
    BY <1>3, <2>1
  <2>3. m[p] \in EnrichInteractions(rows, Twice(asked))
    BY <1>5, <2>1, <2>2, EnrichedRows
  <2> QED BY <1>5, <2>1, <2>3 DEF Responds, RowsOf
<1>10. TwiceEach(Responds(D), Responds(E), m)
  <2>1. Responds(D) = {m[p] : p \in Responds(E) \X Sides}
    <3> DEFINE X == Responds(D)
    <3>1. \A d \in X : d \in {m[p] : p \in Responds(E) \X Sides}
      BY <1>8
    <3>2. \A p \in Responds(E) \X Sides : m[p] \in X
      BY <1>9
    <3> HIDE DEF X, E
    <3> QED BY <3>1, <3>2 DEF X
  <2> HIDE DEF D, E
  <2> QED BY <1>6, <1>7, <2>1 DEF TwiceEach
<1> QED BY <1>10

-----------------------------------------------------------------------------
\* A second copy of the questions takes no student below the minimum.
LEMMA NoStudentIsLost ==
  ASSUME NEW rows, NEW asked, asked \subseteq Questions,
         IsFiniteSet(rows), IsFiniteSet(asked),
         NEW u \in DOMAIN Aggregate(EnrichInteractions(rows, asked))
  PROVE  u \in DOMAIN Aggregate(EnrichInteractions(rows, Twice(asked)))
<1> DEFINE E0 == EnrichInteractions(rows, asked)
           D0 == EnrichInteractions(rows, Twice(asked))
           E == RowsOf(E0, u)
           D == RowsOf(D0, u)
           Found(e) == IsAsked(e.row, asked)
           h == [e \in E |-> IF Found(e) THEN Joined(e.row, Copy(e.question, 0)) ELSE e]
<1>1. Cardinality(E) >= MinInteractions /\ \E e \in E0 : e.row.user = u
  BY DEF Aggregate
<1>2. \A e \in E : /\ e.row \in rows /\ e.row.user = u
                   /\ e.question \in Matches(e.row, asked) /\ e = Joined(e.row, e.question)
  BY EnrichedRows DEF RowsOf
<1>3. ASSUME NEW e \in E, Found(e)
      PROVE  /\ e.question \in Questions
             /\ h[e] \in D /\ h[e].row = e.row /\ h[e].question = Copy(e.question, 0)
  <2>1. /\ Matches(e.row, asked) \subseteq Questions
        /\ Matches(e.row, Twice(asked)) =
             {Copy(q, i) : q \in Matches(e.row, asked), i \in Sides}
    BY <1>3, TwiceMatched
  <2>2. Copy(e.question, 0) \in Matches(e.row, Twice(asked))
    BY <1>2, <2>1 DEF Sides
  <2>3. h[e] = Joined(e.row, Copy(e.question, 0))
    BY <1>3
  <2>4. h[e].row = e.row /\ h[e].question = Copy(e.question, 0)
    BY <2>3 DEF Joined
  <2>5. h[e] \in D0
    BY <1>2, <2>2, <2>3, EnrichedRows
  <2> QED BY <1>2, <2>1, <2>4, <2>5 DEF RowsOf
<1>4. ASSUME NEW e \in E, ~ Found(e)
      PROVE  h[e] \in D /\ h[e] = e
  <2>1. Matches(e.row, asked) = Matches(e.row, Twice(asked))
    <3> DEFINE r == e.row
    <3>1. ~ IsAsked(r, asked)
      BY <1>4
    <3> HIDE DEF r
    <3>2. Matches(r, asked) = {NoQuestion} /\ Matches(r, Twice(asked)) = {NoQuestion}
      BY <3>1, TwiceMatched
    <3> QED BY <3>2 DEF r
  <2>2. e \in D0
    BY <1>2, <2>1, EnrichedRows
  <2> QED BY <1>2, <1>4, <2>2 DEF RowsOf
<1>5. ASSUME NEW d \in E, NEW e \in E, h[d] = h[e] PROVE d = e
  <2>1. h[d].row = d.row /\ h[e].row = e.row
    BY <1>3, <1>4
  <2>2. d.row = e.row
    BY <1>5, <2>1
  <2>3. CASE Found(d)
    <3>1. /\ Copy(d.question, 0) = Copy(e.question, 0)
          /\ d.question \in Questions /\ e.question \in Questions
      BY <1>3, <1>5, <2>2, <2>3
    <3>2. d.question = e.question
      BY <3>1, CopiesOfQuestions DEF Sides
    <3> QED BY <1>2, <2>2, <3>2
  <2>4. CASE ~ Found(d)
    BY <1>4, <1>5, <2>2, <2>4
  <2> QED BY <2>3, <2>4
<1>6. IsFiniteSet(Twice(asked))
  <2> DEFINE P == asked \X Sides
             f == [p \in P |-> Copy(p[1], p[2])]
  <2>1. IsFiniteSet(Sides)
    <3>1. Sides = {0} \cup {1} /\ IsFiniteSet({0})
      BY FS_Singleton DEF Sides
    <3> QED BY <3>1, FS_AddElement
  <2>2. IsFiniteSet(P)
    BY <2>1, FS_Product
  <2>3. DOMAIN f = P /\ f = [p \in DOMAIN f |-> f[p]]
    OBVIOUS
  <2>4. Twice(asked) \subseteq {f[p] : p \in DOMAIN f}
    <3> SUFFICES ASSUME NEW c \in Twice(asked) PROVE \E p \in P : c = f[p]
      OBVIOUS
    <3>1. PICK q \in asked, i \in Sides : c = Copy(q, i)
      BY DEF Twice, Sides
    <3>2. <<q, i>> \in P /\ f[<<q, i>>] = c
      BY <3>1
    <3> QED BY <3>2
  <2> HIDE DEF f, P
  <2>5. IsFiniteSet({f[p] : p \in DOMAIN f})
    BY <2>2, <2>3, ImageCount
  <2> QED BY <2>4, <2>5, FS_Subset
<1>7. IsFiniteSet(E) /\ IsFiniteSet(D)
  BY <1>6, EnrichedIsFinite, FS_Subset DEF RowsOf
<1>8. Cardinality(E) <= Cardinality(D) /\ Cardinality(E) \in Nat /\ Cardinality(D) \in Nat
  <2> DEFINE H == {h[e] : e \in DOMAIN h}
  <2>1. DOMAIN h = E /\ h = [e \in DOMAIN h |-> h[e]]
    OBVIOUS
  <2>2. H \subseteq D
    BY <1>3, <1>4
  <2> HIDE DEF h, E, D
  <2>3. IsInjective(h)
    BY <1>5, <2>1 DEF IsInjective
  <2>4. Cardinality(H) = Cardinality(E)
    BY <1>7, <2>1, <2>3, ImageCount
  <2>5. Cardinality(H) <= Cardinality(D)
    BY <1>7, <2>2, FS_Subset
  <2> QED BY <1>7, <2>4, <2>5, FS_CardinalityType
<1>9. Cardinality(D) >= MinInteractions
  BY <1>1, <1>8, CountsAssumption
<1>10. \E d \in D0 : d.row.user = u
  <2>1. PICK e \in E : TRUE
    BY <1>1 DEF RowsOf
  <2>2. h[e] \in D
    BY <1>3, <1>4
  <2> QED BY <2>2 DEF RowsOf
<1> HIDE DEF D0
<1>11. u \in DOMAIN Aggregate(D0)
  BY <1>9, <1>10 DEF Aggregate
<1> QED BY <1>11 DEF D0

\* A student all of whose answered questions are known keeps accuracy and response time.
LEMMA RatesWithCopiedQuestions ==
  ASSUME NEW rows, rows \subseteq Interactions, NEW asked, asked \subseteq Questions,
         IsFiniteSet(rows), IsFiniteSet(asked),
         NEW u \in DOMAIN Aggregate(EnrichInteractions(rows, asked)),
         \A r \in rows : r.user = u /\ r.action = "respond" =>
           \E q \in asked : q.id = r.item
  PROVE  LET f == Aggregate(EnrichInteractions(rows, asked))[u]
             g == Aggregate(EnrichInteractions(rows, Twice(asked)))[u]
         IN  /\ f.accuracy_rate = g.accuracy_rate
             /\ f.avg_response_time_ms = g.avg_response_time_ms
<1> DEFINE E0 == EnrichInteractions(rows, asked)
           D0 == EnrichInteractions(rows, Twice(asked))
           E == RowsOf(E0, u)
           D == RowsOf(D0, u)
<1>1. CASE ~ CorrectnessJoin
  <2>1. \A r : Matches(r, Twice(asked)) = Matches(r, asked)
    BY <1>1 DEF Matches
  <2>2. D0 = E0
    BY <2>1 DEF EnrichInteractions
  <2> QED BY <2>2
<1>2. CASE CorrectnessJoin
  <2>1. Measured(E)
    <3>1. IsFiniteSet(E)
      BY EnrichedIsFinite, FS_Subset DEF RowsOf
    <3>2. \A e \in E : /\ e.row.elapsed \in Nat \cup {Null}
                       /\ e.response_time_ms \in Nat \cup {Null}
      BY TimesOfARow DEF RowsOf
    <3> QED BY <3>1, <3>2 DEF Measured
  <2>2. Marked(E, 1) \subseteq Responds(E) /\ Marked(D, 1) \subseteq Responds(D)
    BY MarkedRows DEF Marked, Responds, RowsOf
  <2>3. PICK m : TwiceEach(Responds(D), Responds(E), m)
    BY <1>2, TwiceAsked
  <2>4. u \in DOMAIN Aggregate(D0) /\ u \in DOMAIN Aggregate(E0)
    BY NoStudentIsLost
  <2>5. Aggregate(D0)[u] = FeaturesOf(D) /\ Aggregate(E0)[u] = FeaturesOf(E)
    <3> HIDE DEF D0, E0
    <3> QED BY <2>4 DEF Aggregate
  <2> HIDE DEF D, E, D0, E0
  <2>6. AccuracyRate(D) = AccuracyRate(E) /\ AverageResponseTime(D) = AverageResponseTime(E)
    BY <2>1, <2>2, <2>3, TwiceRates
  <2>7. /\ FeaturesOf(D).accuracy_rate = FeaturesOf(E).accuracy_rate
        /\ FeaturesOf(D).avg_response_time_ms = FeaturesOf(E).avg_response_time_ms
    BY <2>6 DEF FeaturesOf
  <2> QED BY <2>5, <2>7 DEF D0, E0
<1> QED BY <1>1, <1>2

-----------------------------------------------------------------------------
(* The vectors of doubled features. *)
Integral == {<<n, 1>> : n \in Nat}
Double(x) == IF x = Null THEN Null ELSE <<2 * x[1], x[2]>>

\* The least and the greatest value are what no other value is below or above.
LEMMA ExtremeIs ==
  ASSUME NEW S, S \subseteq Reduced, NEW x \in S
  PROVE  /\ (\A y \in S : AtMost(x, y)) => Least(S) = x
         /\ (\A y \in S : AtMost(y, x)) => Greatest(S) = x
<1>1. \A y, z \in S : AtMost(y, z) /\ AtMost(z, y) => y = z
  <2> TAKE y, z \in S
  <2> HAVE AtMost(y, z) /\ AtMost(z, y)
  <2>1. y[1] * z[2] <= z[1] * y[2] /\ z[1] * y[2] <= y[1] * z[2]
    BY DEF AtMost
  <2>2. y[1] * z[2] \in Nat /\ z[1] * y[2] \in Nat
    BY DEF Reduced, Fractions
  <2>3. y[1] * z[2] = z[1] * y[2]
    BY <2>1, <2>2
  <2> QED BY <2>3, LowestIsUnique DEF Reduced
<1>2. ASSUME \A y \in S : AtMost(x, y) PROVE Least(S) = x
  <2>1. Least(S) \in S /\ \A y \in S : AtMost(Least(S), y)
    BY <1>2 DEF Least
  <2> QED BY <1>1, <1>2, <2>1
<1>3. ASSUME \A y \in S : AtMost(y, x) PROVE Greatest(S) = x
  <2>1. Greatest(S) \in S /\ \A y \in S : AtMost(y, Greatest(S))
    BY <1>3 DEF Greatest
  <2> QED BY <1>1, <1>3, <2>1
<1> QED BY <1>2, <1>3

\* Whole numbers are subtracted and divided as one expects.
LEMMA WholeNumbers ==
  ASSUME NEW a \in Nat, NEW b \in Nat
  PROVE  /\ AtMost(<<a, 1>>, <<b, 1>>) <=> a <= b
         /\ a <= b => Minus(<<b, 1>>, <<a, 1>>) = <<b - a, 1>>
         /\ Over(<<a, 1>>, <<b, 1>>) = Fraction(a, b)
<1>1. a * 1 = a /\ b * 1 = b /\ 1 * b = b
  OBVIOUS
<1>2. AtMost(<<a, 1>>, <<b, 1>>) <=> a <= b
  BY <1>1 DEF AtMost
<1>3. a <= b => Minus(<<b, 1>>, <<a, 1>>) = <<b - a, 1>>
  <2>1. a <= b => b - a \in Nat
    OBVIOUS
  <2>2. Minus(<<b, 1>>, <<a, 1>>) = Fraction(b - a, 1)
    BY <1>1 DEF Minus
  <2> QED BY <2>1, <2>2, WholeIs
<1>4. Over(<<a, 1>>, <<b, 1>>) = Fraction(a, b)
  BY <1>1 DEF Over
<1> QED BY <1>2, <1>3, <1>4

\* Min-max scaling does not see that all is doubled.
LEMMA ScaledDoubled ==
  ASSUME NEW known, IsFiniteSet(known), known \subseteq Integral
  PROVE  LET doubled == {Double(x) : x \in known}
         IN  /\ Cardinality(doubled) = Cardinality(known)
             /\ ~ (Cardinality(known) <= 1) =>
                  \A x \in known : Scaled(Double(x), doubled) = Scaled(x, known)
<1> DEFINE doubled == {Double(x) : x \in known}
<1>1. \A x \in known : /\ x[1] \in Nat /\ x = <<x[1], 1>> /\ x # Null
                       /\ Double(x) = <<2 * x[1], 1>>
                       /\ x \in Reduced /\ Double(x) \in Reduced
  <2> TAKE x \in known
  <2>1. PICK n \in Nat : x = <<n, 1>>
    BY DEF Integral
  <2>2. x # Null
    BY <2>1, FeaturesAssumption
  <2>3. Double(x) = <<2 * n, 1>> /\ 2 * n \in Nat
    BY <2>1, <2>2 DEF Double
  <2> QED BY <2>1, <2>2, <2>3, WholeIs
<1>2. Cardinality(doubled) = Cardinality(known)
  <2> DEFINE f == [x \in known |-> Double(x)]
  <2>1. /\ DOMAIN f = known /\ f = [x \in DOMAIN f |-> f[x]]
        /\ doubled = {f[x] : x \in DOMAIN f}
    OBVIOUS
  <2>2. \A x, y \in known : f[x] = f[y] => x = y
    <3> TAKE x, y \in known
    <3> HAVE f[x] = f[y]
    <3>1. <<2 * x[1], 1>> = <<2 * y[1], 1>>
      BY <1>1
    <3>2. x[1] = y[1]
      BY <1>1, <3>1
    <3> QED BY <1>1, <3>2
  <2> HIDE DEF f, doubled
  <2>3. IsInjective(f)
    BY <2>1, <2>2 DEF IsInjective
  <2> QED BY <2>1, <2>3, ImageCount
<1>3. ASSUME ~ (Cardinality(known) <= 1), NEW x \in known
      PROVE  Scaled(Double(x), doubled) = Scaled(x, known)
  <2>1. known \subseteq Reduced
    BY <1>1
  <2> DEFINE low == Least(known)
             high == Greatest(known)
             l == low[1]
             g == high[1]
             n == x[1]
  <2>2. /\ low \in known /\ high \in known
        /\ \A y \in known : AtMost(low, y) /\ AtMost(y, high)
        /\ Minus(high, low)[1] # 0
    BY <1>3, <2>1, RangeIsPositive
  <2> HIDE DEF low, high
  <2>3. /\ l \in Nat /\ g \in Nat /\ n \in Nat
        /\ low = <<l, 1>> /\ high = <<g, 1>> /\ x = <<n, 1>>
    BY <1>1, <2>2
  <2>4. \A y \in known : l <= y[1] /\ y[1] <= g
    <3> TAKE y \in known
    <3>1. y[1] \in Nat /\ y = <<y[1], 1>>
      BY <1>1
    <3>2. AtMost(<<l, 1>>, <<y[1], 1>>) /\ AtMost(<<y[1], 1>>, <<g, 1>>)
      BY <2>2, <2>3, <3>1
    <3> HIDE DEF l, g
    <3> QED BY <2>3, <3>1, <3>2, WholeNumbers
  <2>5. l <= n /\ n <= g /\ l <= g
    BY <2>2, <2>4
  <2>6. l < g
    <3>1. Minus(high, low) = <<g - l, 1>>
      BY <2>3, <2>5, WholeNumbers
    <3> QED BY <2>2, <2>3, <2>5, <3>1
  <2> HIDE DEF l, g, n
  <2>7. Least(doubled) = <<2 * l, 1>> /\ Greatest(doubled) = <<2 * g, 1>>
    <3>1. doubled \subseteq Reduced
      BY <1>1
    <3>2. <<2 * l, 1>> \in doubled /\ <<2 * g, 1>> \in doubled
      <4>1. Double(low) = <<2 * l, 1>> /\ Double(high) = <<2 * g, 1>>
        BY <1>1, <2>2 DEF l, g
      <4> QED BY <2>2, <4>1
    <3>3. ASSUME NEW y \in doubled
          PROVE  AtMost(<<2 * l, 1>>, y) /\ AtMost(y, <<2 * g, 1>>)
      <4>1. PICK z \in known : y = Double(z)
        OBVIOUS
      <4>2. z[1] \in Nat /\ y = <<2 * z[1], 1>>
        BY <1>1, <4>1
      <4>3. 2 * l <= 2 * z[1] /\ 2 * z[1] <= 2 * g
        BY <2>3, <2>4, <4>2
      <4>4. 2 * l \in Nat /\ 2 * g \in Nat /\ 2 * z[1] \in Nat
        BY <2>3, <4>2
      <4> QED BY <4>2, <4>3, <4>4, WholeNumbers
    <3> HIDE DEF doubled
    <3> QED BY <3>1, <3>2, <3>3, ExtremeIs
  <2>8. Double(x) = <<2 * n, 1>>
    BY <1>1 DEF n
  <2>9. Scaled(x, known) = Fraction(n - l, g - l)
    <3>1. Minus(x, low) = <<n - l, 1>> /\ Minus(high, low) = <<g - l, 1>>
      BY <2>3, <2>5, WholeNumbers
    <3>2. n - l \in Nat /\ g - l \in Nat
      BY <2>3, <2>5
    <3> QED BY <3>1, <3>2, WholeNumbers DEF Scaled, low, high
  <2>10. Scaled(Double(x), doubled) = Fraction(2 * n - 2 * l, 2 * g - 2 * l)
    <3>1. /\ 2 * n \in Nat /\ 2 * l \in Nat /\ 2 * g \in Nat
          /\ 2 * l <= 2 * n /\ 2 * l <= 2 * g
      BY <2>3, <2>5
    <3>2. /\ Minus(<<2 * n, 1>>, <<2 * l, 1>>) = <<2 * n - 2 * l, 1>>
          /\ Minus(<<2 * g, 1>>, <<2 * l, 1>>) = <<2 * g - 2 * l, 1>>
      BY <3>1, WholeNumbers
    <3>3. 2 * n - 2 * l \in Nat /\ 2 * g - 2 * l \in Nat
      BY <3>1
    <3> HIDE DEF doubled
    <3> QED BY <2>7, <2>8, <3>2, <3>3, WholeNumbers DEF Scaled
  <2>11. Fraction(2 * n - 2 * l, 2 * g - 2 * l) = Fraction(n - l, g - l)
    <3>1. 2 * n - 2 * l = 2 * (n - l) /\ 2 * g - 2 * l = 2 * (g - l)
      BY <2>3
    <3>2. n - l \in Nat /\ g - l \in Nat \ {0}
      BY <2>3, <2>5, <2>6
    <3> QED BY <3>1, <3>2, HalvesAreEqual
  <2> QED BY <2>9, <2>10, <2>11
<1> QED BY <1>2, <1>3

\* The vectors of all students are the same, if they are the same students.
LEMMA VectorsWithCopiedRows ==
  ASSUME NEW rows, rows \subseteq Interactions, NEW asked,
         IsFiniteSet(rows), IsFiniteSet(asked),
         IsFiniteSet(DOMAIN Aggregate(EnrichInteractions(rows, asked))),
         DOMAIN Aggregate(EnrichInteractions(Twice(rows), asked)) =
           DOMAIN Aggregate(EnrichInteractions(rows, asked))
  PROVE  NormalizeFeatures(Aggregate(EnrichInteractions(Twice(rows), asked))) =
           NormalizeFeatures(Aggregate(EnrichInteractions(rows, asked)))
<1> DEFINE E == EnrichInteractions(rows, asked)
           D == EnrichInteractions(Twice(rows), asked)
           once == Aggregate(E)
           twice == Aggregate(D)
<1>1. DOMAIN twice = DOMAIN once /\ IsFiniteSet(DOMAIN once)
  OBVIOUS
<1>2. Measured(E)
  <2>1. IsFiniteSet(E)
    BY EnrichedIsFinite
  <2> QED BY <2>1, TimesOfARow DEF Measured
<1>3. ASSUME NEW u \in DOMAIN once
      PROVE  /\ once[u] = FeaturesOf(RowsOf(E, u)) /\ twice[u] = FeaturesOf(RowsOf(D, u))
             /\ Rates(twice[u]) = Rates(once[u])
             /\ \A c \in CopiedColumns :
                  /\ once[u][c] \in Nat \cup {Null}
                  /\ twice[u][c] = IF once[u][c] = Null THEN Null ELSE 2 * once[u][c]
  <2>1. once[u] = FeaturesOf(RowsOf(E, u)) /\ twice[u] = FeaturesOf(RowsOf(D, u))
    <3> HIDE DEF D, E
    <3> QED BY <1>1 DEF Aggregate
  <2>2. PICK m : TwiceEach(RowsOf(D, u), RowsOf(E, u), m)
    BY TwiceJoinedOfAStudent
  <2>3. /\ Measured(RowsOf(E, u))
        /\ Marked(RowsOf(E, u), 1) \subseteq Responds(RowsOf(E, u))
        /\ Marked(RowsOf(D, u), 1) \subseteq Responds(RowsOf(D, u))
    BY TwiceJoinedOfAStudent
  <2> HIDE DEF D, E
  <2>4. /\ Rates(FeaturesOf(RowsOf(D, u))) = Rates(FeaturesOf(RowsOf(E, u)))
        /\ \A c \in CopiedColumns :
             /\ FeaturesOf(RowsOf(E, u))[c] \in Nat \cup {Null}
             /\ FeaturesOf(RowsOf(D, u))[c] =
                  IF FeaturesOf(RowsOf(E, u))[c] = Null THEN Null
                  ELSE 2 * FeaturesOf(RowsOf(E, u))[c]
    BY <2>2, <2>3, TwiceFeatures
  <2> HIDE DEF once, twice
  <2> QED BY <2>1, <2>4
<1> HIDE DEF D, E
<1>4. ASSUME NEW u \in DOMAIN once, NEW c \in FeatureColumns \ CopiedColumns
      PROVE  Column(twice, u, c) = Column(once, u, c)
  <2>1. /\ twice[u].accuracy_rate = once[u].accuracy_rate
        /\ twice[u].avg_response_time_ms = once[u].avg_response_time_ms
        /\ twice[u].unique_questions_attempted = once[u].unique_questions_attempted
        /\ twice[u].unique_lectures_viewed = once[u].unique_lectures_viewed
        /\ twice[u].active_days = once[u].active_days
    BY <1>3 DEF Rates
  <2>2. twice[u][c] = once[u][c]
    BY <2>1, FeaturesAssumption DEF CopiedColumns
  <2> QED BY <2>2 DEF Column
<1>5. ASSUME NEW u \in DOMAIN once, NEW c \in FeatureColumns \cap CopiedColumns
      PROVE  /\ Column(twice, u, c) = Double(Column(once, u, c))
             /\ Column(once, u, c) \in Integral \cup {Null}
             /\ Column(once, u, c) # Null => Double(Column(once, u, c)) # Null
  <2>1. /\ once[u][c] \in Nat \cup {Null}
        /\ twice[u][c] = IF once[u][c] = Null THEN Null ELSE 2 * once[u][c]
    BY <1>3
  <2>2. c \notin {"accuracy_rate", "avg_response_time_ms"}
    BY DEF CopiedColumns
  <2>3. \A n \in Nat : 2 * n \in Nat /\ n # Null /\ 2 * n # Null /\ <<n, 1>> # Null
    BY FeaturesAssumption
  <2>4. /\ Column(once, u, c) = IF once[u][c] = Null THEN Null ELSE <<once[u][c], 1>>
        /\ Column(twice, u, c) = IF twice[u][c] = Null THEN Null ELSE <<twice[u][c], 1>>
    BY <2>2 DEF Column
  <2> HIDE DEF once, twice
  <2>5. CASE once[u][c] = Null
    BY <2>1, <2>4, <2>5 DEF Double
  <2>6. CASE once[u][c] \in Nat
    <3> DEFINE n == once[u][c]
    <3>1. /\ n # Null /\ twice[u][c] = 2 * n /\ 2 * n # Null /\ 2 * n \in Nat
      BY <2>1, <2>3, <2>6
    <3>2. Column(once, u, c) = <<n, 1>> /\ Column(twice, u, c) = <<2 * n, 1>>
      BY <2>4, <3>1
    <3>3. Double(<<n, 1>>) = <<2 * n, 1>> /\ <<n, 1>> # Null /\ <<2 * n, 1>> # Null
      BY <2>3, <2>6, <3>1 DEF Double
    <3> QED BY <2>6, <3>2, <3>3 DEF Integral
  <2> QED BY <2>1, <2>5, <2>6
<1>6. ASSUME NEW u \in DOMAIN once, NEW c \in FeatureColumns
      PROVE  NormalizeFeatures(twice)[u][c] = NormalizeFeatures(once)[u][c]
  <2> DEFINE x == Column(once, u, c)
             y == Column(twice, u, c)
             here == Known(once, c)
             there == Known(twice, c)
  <2>1. /\ NormalizeFeatures(once)[u][c] =
             IF Cardinality(here) <= 1 THEN Zero
             ELSE IF x = Null THEN Null ELSE Scaled(x, here)
        /\ NormalizeFeatures(twice)[u][c] =
             IF Cardinality(there) <= 1 THEN Zero
             ELSE IF y = Null THEN Null ELSE Scaled(y, there)
    <3> HIDE DEF once, twice
    <3> QED BY <1>1 DEF NormalizeFeatures
  <2>2. CASE c \notin CopiedColumns
    <3>1. y = x
      BY <1>4, <2>2
    <3>2. there = here
      <4> HIDE DEF once, twice
      <4> QED BY <1>1, <1>4, <2>2 DEF Known
    <3> HIDE DEF x, y, here, there, once, twice
    <3> QED BY <2>1, <3>1, <3>2
  <2>3. CASE c \in CopiedColumns
    <3>1. IsFiniteSet(here)
      BY <1>1, <1>2, KnownIs
    <3> HIDE DEF once, twice
    <3>2. here \subseteq Integral
      BY <1>5, <2>3 DEF Known
    <3>3. there = {Double(k) : k \in here}
      <4>1. \A v \in DOMAIN once :
              /\ Column(twice, v, c) = Double(Column(once, v, c))
              /\ Column(twice, v, c) = Null <=> Column(once, v, c) = Null
        BY <1>5, <2>3 DEF Double
      <4> QED BY <1>1, <4>1 DEF Known
    <3>4. y = Double(x) /\ (y = Null <=> x = Null)
      BY <1>5, <2>3 DEF Double
    <3>5. x # Null => x \in here
      BY DEF Known
    <3> HIDE DEF x, y, here, there
    <3>6. /\ Cardinality(there) = Cardinality(here)
          /\ ~ (Cardinality(here) <= 1) =>
               \A k \in here : Scaled(Double(k), there) = Scaled(k, here)
      BY <3>1, <3>2, <3>3, ScaledDoubled
    <3> QED BY <2>1, <3>4, <3>5, <3>6
  <2> QED BY <2>2, <2>3
<1>7. /\ NormalizeFeatures(twice) = [u \in DOMAIN once |-> [c \in FeatureColumns |->
                                       NormalizeFeatures(twice)[u][c]]]
      /\ NormalizeFeatures(once) = [u \in DOMAIN once |-> [c \in FeatureColumns |->
                                       NormalizeFeatures(once)[u][c]]]
  <2> HIDE DEF once, twice
  <2> QED BY <1>1 DEF NormalizeFeatures
<1>8. NormalizeFeatures(twice) = NormalizeFeatures(once)
  <2> HIDE DEF once, twice
  <2> QED BY <1>6, <1>7
<1> QED BY <1>8 DEF D, E

\* RepeatedIngestionIsHarmless of every table: whatever the interactions, the questions
\* and the feature columns, a source that run_ingestion appends a second time changes
\* no rate, no distinct count and no normalised vector of aggregate_student_features
\* and normalize_features.
THEOREM RepetitionIsHarmless == FeaturesSpec => []RepeatedIngestionIsHarmless
<1>1. ASSUME FeaturesInv, stage = "aggregated" PROVE RatesSurviveRepeatedIngestion
  <2>1. /\ kt4 \subseteq Interactions /\ questions \subseteq Questions
        /\ aggregated = Aggregate(EnrichInteractions(kt4, questions))
        /\ Users = DOMAIN Aggregate(EnrichInteractions(kt4, questions))
    BY <1>1 DEF FeaturesInv, Users
  <2>2. IsFiniteSet(kt4) /\ IsFiniteSet(questions)
    BY <2>1, InputsAreFinite
  <2>3. ASSUME NEW u \in Users
        PROVE  Rates(aggregated[u]) =
                 Rates(Aggregate(EnrichInteractions(Twice(kt4), questions))[u])
    BY <2>1, <2>2, RatesWithCopiedRows
  <2>4. ASSUME NEW u \in Users, \A r \in Respond(u) : \E q \in questions : q.id = r.item
        PROVE  LET again == Aggregate(EnrichInteractions(kt4, Twice(questions)))
               IN  /\ aggregated[u].accuracy_rate = again[u].accuracy_rate
                   /\ aggregated[u].avg_response_time_ms = again[u].avg_response_time_ms
    <3>1. \A r \in kt4 : r.user = u /\ r.action = "respond" =>
            \E q \in questions : q.id = r.item
      BY <2>4 DEF Respond
    <3> QED BY <2>1, <2>2, <3>1, RatesWithCopiedQuestions
  <2> QED BY <2>3, <2>4 DEF RatesSurviveRepeatedIngestion
<1>2. ASSUME FeaturesInv, stage = "normalised" PROVE VectorsSurviveRepeatedIngestion
  <2>1. /\ kt4 \subseteq Interactions /\ questions \subseteq Questions
        /\ vectors = NormalizeFeatures(Aggregate(EnrichInteractions(kt4, questions)))
        /\ Users = DOMAIN Aggregate(EnrichInteractions(kt4, questions))
    BY <1>2 DEF FeaturesInv, Users
  <2>2. IsFiniteSet(kt4) /\ IsFiniteSet(questions)
    BY <2>1, InputsAreFinite
  <2>3. IsFiniteSet(Users)
    BY <1>2, StudentsAreNumbers
  <2> QED BY <2>1, <2>2, <2>3, VectorsWithCopiedRows DEF VectorsSurviveRepeatedIngestion
<1>3. FeaturesInv => RepeatedIngestionIsHarmless
  BY <1>1, <1>2 DEF RepeatedIngestionIsHarmless, RatesSurviveRepeatedIngestion,
                    VectorsSurviveRepeatedIngestion
<1> QED BY <1>3, FeaturesInvAlways, PTL

-----------------------------------------------------------------------------
(* The row counts that Processing takes from Features. *)

\* The files hold the interactions, one each.
HoldInteractions(files) ==
  \E g : /\ {g[r] : r \in kt4} = Of("kt4", files)
         /\ \A p, r \in kt4 : g[p] = g[r] => p = r
         /\ \A r \in kt4 : g[r].user = r.user

\* The rows of the dataframe that get_top_k_recommendations returns.
RecommendationRows ==
  {p \in Users \X Users : p[2] \in {s.other_user_id : s \in ToSet(recommendations[p[1]])}}

\* R relates each member u of S to the k members of c[u], a subset of S.
Grouped(R, S, c, k) ==
  /\ IsFiniteSet(S) /\ k \in Nat
  /\ \A u \in S : c[u] \subseteq S /\ IsFiniteSet(c[u]) /\ Cardinality(c[u]) = k
  /\ R \subseteq S \X S
  /\ \A p \in S \X S : p \in R <=> p[2] \in c[p[1]]

\* As many rows in each of finitely many groups: they multiply.
LEMMA GroupsMultiply ==
  ASSUME NEW S, NEW R, NEW c, NEW k, Grouped(R, S, c, k)
  PROVE  Cardinality(R) = Cardinality(S) * k
<1> USE DEF Grouped
<1> DEFINE G(T) == {p \in T \X S : p[2] \in c[p[1]]}
           F == {T \in SUBSET S : /\ IsFiniteSet(G(T))
                                  /\ Cardinality(G(T)) = Cardinality(T) * k}
<1>1. ASSUME NEW T \in SUBSET S, \A u \in T : T \ {u} \in F PROVE T \in F
  <2>1. CASE T = {}
    <3>1. G(T) = {}
      BY <2>1
    <3>2. Cardinality({}) = 0 /\ IsFiniteSet({}) /\ 0 * k = 0
      BY FS_EmptySet
    <3> QED BY <2>1, <3>1, <3>2
  <2>2. ASSUME NEW u \in T PROVE T \in F
    <3> DEFINE U == T \ {u}
               f == [o \in c[u] |-> <<u, o>>]
               H == {f[o] : o \in DOMAIN f}
    <3>1. c[u] \subseteq S /\ IsFiniteSet(c[u]) /\ Cardinality(c[u]) = k
      OBVIOUS
    <3>2. /\ DOMAIN f = c[u] /\ f = [o \in DOMAIN f |-> f[o]]
          /\ \A a, b \in DOMAIN f : f[a] = f[b] => a = b
      OBVIOUS
    <3>3. G(T) = G(U) \cup H
      <4>1. \A p \in G(T) : p[1] = u => p = f[p[2]] /\ p[2] \in DOMAIN f
        OBVIOUS
      <4>2. \A p \in G(T) : p[1] # u => p \in G(U)
        OBVIOUS
      <4>3. \A o \in DOMAIN f : f[o] \in G(T)
        BY <3>1
      <4>4. G(U) \subseteq G(T)
        OBVIOUS
      <4> HIDE DEF f, G
      <4> QED BY <4>1, <4>2, <4>3, <4>4
    <3>4. G(U) \cap H = {}
      <4>1. \A p \in G(U) : p[1] # u
        OBVIOUS
      <4>2. \A o \in DOMAIN f : f[o][1] = u
        OBVIOUS
      <4> HIDE DEF f, G
      <4> QED BY <4>1, <4>2
    <3> HIDE DEF f
    <3>5. IsInjective(f)
      BY <3>2 DEF IsInjective
    <3>6. IsFiniteSet(H) /\ Cardinality(H) = k
      BY <3>1, <3>2, <3>5, ImageCount
    <3>7. IsFiniteSet(G(U)) /\ Cardinality(G(U)) = Cardinality(U) * k
      BY <1>1
    <3>8. IsFiniteSet(T) /\ Cardinality(T) \in Nat /\ Cardinality(U) = Cardinality(T) - 1
      BY FS_Subset, FS_CardinalityType, FS_RemoveElement
    <3> HIDE DEF G, H, U
    <3>9. IsFiniteSet(G(T)) /\ Cardinality(G(T)) = Cardinality(U) * k + k
      <4>1. /\ IsFiniteSet(G(U) \cup H)
            /\ Cardinality(G(U) \cup H) = Cardinality(G(U)) + Cardinality(H)
        BY <3>4, <3>6, <3>7, DisjointCount
      <4> QED BY <3>3, <3>6, <3>7, <4>1
    <3>10. \A n \in Nat : (n - 1) * k + k = n * k
      OBVIOUS
    <3> QED BY <3>8, <3>9, <3>10
  <2> QED BY <2>1, <2>2
<1>2. \A T \in SUBSET S : T \in F
  <2> HIDE DEF F
  <2>1. Inductive(F, S)
    BY <1>1 DEF Inductive
  <2> QED BY <2>1, SubsetsByInduction
<1>3. S \in F
  BY <1>2
<1>4. R = G(S)
  OBVIOUS
<1> QED BY <1>3, <1>4

\* Where question ids are unique, the students are those with enough raw rows.
LEMMA StudentsAreOfTheRawRows ==
  ASSUME FeaturesInv, stage \notin {"intake", "enriched"}, IdsAreUnique
  PROVE  Users = {u \in {r.user : r \in kt4} :
                    Cardinality({r \in kt4 : r.user = u}) >= MinInteractions}
<1> DEFINE own(u) == {r \in kt4 : r.user = u}
<1>1. enriched = EnrichInteractions(kt4, questions)
  BY DEF FeaturesInv
<1>2. \A p, q \in questions : p.id = q.id => p = q
  BY DEF IdsAreUnique
<1>3. IsFiniteSet(enriched)
  BY <1>1, InputsAreFinite, EnrichedIsFinite DEF FeaturesInv
<1>4. ASSUME NEW u
      PROVE  /\ {e.row : e \in RowsOf(enriched, u)} = own(u)
             /\ Cardinality(RowsOf(enriched, u)) = Cardinality(own(u))
  <2> DEFINE E == RowsOf(enriched, u)
  <2>1. {e.row : e \in E} = own(u)
    <3>1. /\ \A e \in E : e.row \in kt4 /\ e.row.user = u
          /\ \A r \in kt4 : r.user = u => \E e \in E : e.row = r
      BY <1>1, RowsOfAStudent
    <3> HIDE DEF E
    <3> QED BY <3>1
  <2>2. \A a, b \in E : a.row = b.row => a = b
    BY <1>1, <1>2, Unjoined DEF RowsOf
  <2>3. IsFiniteSet(E)
    BY <1>3, FS_Subset DEF RowsOf
  <2> HIDE DEF E, own
  <2>4. Cardinality(E) = Cardinality(own(u))
    BY <2>1, <2>2, <2>3, OriginCount
  <2> QED BY <2>1, <2>4 DEF E
<1>5. {e.row.user : e \in enriched} = {r.user : r \in kt4}
  <2>1. \A e \in enriched : e.row \in kt4
    BY <1>1, EnrichedRows
  <2>2. ASSUME NEW r \in kt4 PROVE \E e \in enriched : e.row = r
    <3>1. r \in own(r.user)
      OBVIOUS
    <3>2. r \in {e.row : e \in RowsOf(enriched, r.user)}
      BY <1>4, <3>1
    <3> QED BY <3>2 DEF RowsOf
  <2> QED BY <2>1, <2>2
<1>6. Users = {u \in {e.row.user : e \in enriched} :
                 Cardinality(RowsOf(enriched, u)) >= MinInteractions}
  BY DEF Users, FeaturesInv, Aggregate
<1> QED BY <1>4, <1>5, <1>6

\* The counts by which Processing judges a run are those of the dataframes: as long as
\* question ids are unique, the students of the aggregation are the Students of any
\* files that hold the interactions, and once all are ranked the recommendations have
\* RowCount rows, top_k each or as many as there are others.
THEOREM RowCountsAreOfFeatures ==
  FeaturesSpec => [](\A files : IdsAreUnique /\ HoldInteractions(files) =>
    /\ stage \notin {"intake", "enriched"} =>
         /\ Users = Students(files)
         /\ Cardinality(Users) = RowCount("aggregated_student_features", files)
    /\ stage = "ranked" /\ Ranked = Users =>
         Cardinality(RecommendationRows) = RowCount("recommendations_batch", files))
<1>1. ASSUME FeaturesInv, IdsAreUnique, NEW files, HoldInteractions(files),
             stage \notin {"intake", "enriched"}
      PROVE  Users = Students(files)
  <2>1. PICK g : /\ {g[r] : r \in kt4} = Of("kt4", files)
                 /\ \A p, r \in kt4 : g[p] = g[r] => p = r
                 /\ \A r \in kt4 : g[r].user = r.user
    BY <1>1 DEF HoldInteractions
  <2>2. {f.user : f \in Of("kt4", files)} = {r.user : r \in kt4}
    BY <2>1
  <2>3. ASSUME NEW u
        PROVE  Cardinality({f \in Of("kt4", files) : f.user = u}) =
                 Cardinality({r \in kt4 : r.user = u})
    <3> DEFINE own == {r \in kt4 : r.user = u}
               h == [r \in own |-> g[r]]
    <3>1. IsFiniteSet(own)
      BY <1>1, InputsAreFinite, FS_Subset DEF FeaturesInv
    <3>2. /\ DOMAIN h = own /\ h = [r \in DOMAIN h |-> h[r]]
          /\ {h[r] : r \in DOMAIN h} = {f \in Of("kt4", files) : f.user = u}
          /\ \A p, r \in DOMAIN h : h[p] = h[r] => p = r
      <4>1. DOMAIN h = own /\ h = [r \in DOMAIN h |-> h[r]]
        OBVIOUS
      <4>2. \A r \in own : h[r] = g[r]
        OBVIOUS
      <4>3. \A p, r \in DOMAIN h : h[p] = h[r] => p = r
        BY <2>1, <4>1, <4>2
      <4> HIDE DEF h
      <4>4. \A r \in own : h[r] \in Of("kt4", files) /\ h[r].user = u
        BY <2>1, <4>2
      <4>5. ASSUME NEW x \in Of("kt4", files), x.user = u
            PROVE  \E r \in own : h[r] = x
        <5>1. PICK r \in kt4 : x = g[r]
          BY <2>1
        <5> QED BY <2>1, <4>2, <4>5, <5>1
      <4> HIDE DEF own
      <4> QED BY <4>1, <4>3, <4>4, <4>5
    <3> HIDE DEF h, own
    <3>3. IsInjective(h)
      BY <3>2 DEF IsInjective
    <3>4. Cardinality({h[r] : r \in DOMAIN h}) = Cardinality(own)
      BY <3>1, <3>2, <3>3, ImageCount
    <3> QED BY <3>2, <3>4 DEF own
  <2>4. Users = {u \in {r.user : r \in kt4} :
                   Cardinality({r \in kt4 : r.user = u}) >= MinInteractions}
    BY <1>1, StudentsAreOfTheRawRows
  <2>5. Students(files) = {u \in {f.user : f \in Of("kt4", files)} :
                             Cardinality({f \in Of("kt4", files) : f.user = u}) >=
                               MinInteractions}
    BY DEF Students
  <2> DEFINE A == {f.user : f \in Of("kt4", files)}
             B == {r.user : r \in kt4}
             a == [u \in A |-> Cardinality({f \in Of("kt4", files) : f.user = u})]
             b == [u \in B |-> Cardinality({r \in kt4 : r.user = u})]
  <2>6. /\ Users = {u \in B : b[u] >= MinInteractions}
        /\ Students(files) = {u \in A : a[u] >= MinInteractions}
    BY <2>4, <2>5
  <2>7. A = B /\ \A u \in A : a[u] = b[u]
    BY <2>2, <2>3
  <2> HIDE DEF A, B, a, b
  <2> QED BY <2>6, <2>7
<1>2. ASSUME FeaturesInv, RecommendationsAreTheBest, stage = "ranked", Ranked = Users,
             NEW files, Users = Students(files)
      PROVE  Cardinality(RecommendationRows) = RowCount("recommendations_batch", files)
  <2> DEFINE n == Cardinality(Users)
             c == [u \in Users |-> {s.other_user_id : s \in ToSet(recommendations[u])}]
             k == Min({TopK, n - 1})
  <2>1. IsFiniteSet(Users) /\ n \in Nat
    BY <1>2, StudentsAreNumbers, FS_CardinalityType
  <2>2. \A u \in Users : c[u] \subseteq Users \ {u} /\ Cardinality(c[u]) = k
    BY <1>2 DEF RecommendationsAreTheBest
  <2>3. \A u \in Users : IsFiniteSet(c[u]) /\ c[u] \subseteq Users
    BY <2>1, <2>2, FS_Subset
  <2>4. RecommendationRows = {p \in Users \X Users : p[2] \in c[p[1]]}
    BY DEF RecommendationRows
  <2>5. RowCount("recommendations_batch", files) =
          IF n = 0 THEN 0 ELSE n * Smaller(n - 1, TopK)
    BY <1>2 DEF RowCount
  <2> HIDE DEF c, n, k
  <2>6. CASE n = 0
    <3>1. Users = {}
      BY <2>1, <2>6, FS_EmptySet DEF n
    <3>2. RecommendationRows = {}
      BY <2>4, <3>1
    <3> QED BY <2>5, <2>6, <3>2, FS_EmptySet
  <2>7. CASE n # 0
    <3>1. n - 1 \in Nat
      BY <2>1, <2>7
    <3>2. k = Smaller(n - 1, TopK) /\ k \in Nat
      <4>1. k = IF TopK <= n - 1 THEN TopK ELSE n - 1
        BY <3>1, CountsAssumption, MinOfTwo DEF k
      <4> QED BY <3>1, <4>1, CountsAssumption DEF Smaller
    <3>3. \A u \in Users : c[u] \subseteq Users /\ IsFiniteSet(c[u])
                            /\ Cardinality(c[u]) = k
      BY <2>2, <2>3
    <3>4. /\ RecommendationRows \in SUBSET (Users \X Users)
          /\ \A p \in Users \X Users : p \in RecommendationRows <=> p[2] \in c[p[1]]
      BY <2>4
    <3>5. Cardinality(RecommendationRows) = Cardinality(Users) * k
      <4>1. Grouped(RecommendationRows, Users, c, k)
        <5> HIDE DEF RecommendationRows
        <5> QED BY <2>1, <3>2, <3>3, <3>4 DEF Grouped
      <4> QED BY <4>1, GroupsMultiply
    <3> QED BY <2>5, <2>7, <3>2, <3>5 DEF n
  <2> QED BY <2>6, <2>7
<1>3. FeaturesInv /\ RecommendationsAreTheBest =>
        \A files : IdsAreUnique /\ HoldInteractions(files) =>
          /\ stage \notin {"intake", "enriched"} =>
               /\ Users = Students(files)
               /\ Cardinality(Users) = RowCount("aggregated_student_features", files)
          /\ stage = "ranked" /\ Ranked = Users =>
               Cardinality(RecommendationRows) = RowCount("recommendations_batch", files)
  <2> SUFFICES ASSUME FeaturesInv, RecommendationsAreTheBest, NEW files, IdsAreUnique,
                      HoldInteractions(files), stage \notin {"intake", "enriched"}
               PROVE  /\ Users = Students(files)
                      /\ Cardinality(Users) = RowCount("aggregated_student_features", files)
                      /\ stage = "ranked" /\ Ranked = Users =>
                           Cardinality(RecommendationRows) =
                             RowCount("recommendations_batch", files)
    OBVIOUS
  <2>1. Users = Students(files)
    BY <1>1
  <2>2. Cardinality(Users) = RowCount("aggregated_student_features", files)
    BY <2>1 DEF RowCount
  <2>3. stage = "ranked" /\ Ranked = Users =>
          Cardinality(RecommendationRows) = RowCount("recommendations_batch", files)
    BY <1>2, <2>1
  <2> QED BY <2>1, <2>2, <2>3
<1> QED BY <1>3, FeaturesInvAlways, OnlyTheBestAreRecommended, PTL

=============================================================================
