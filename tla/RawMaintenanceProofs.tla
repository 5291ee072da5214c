------------------------- MODULE RawMaintenanceProofs -------------------------
(***************************************************************************)
(* What compaction and retention leave in the raw zone, for every set of   *)
(* targets and pieces, every retention period and every number of batches, *)
(* jobs and rounds.                                                        *)
(***************************************************************************)
EXTENDS RawMaintenance, TLAPS

\* A file holds rows of batches that have been ingested; so a new one differs from
\* every file that a job has listed.
FilesAreOld ==
  \A p \in Pieces : \A f \in store[p] \cup listed[p] : f \subseteq 1 .. batches

\* What the job has listed, and staged, is of the target it works on.
JobIsHere ==
  /\ job \in {"idle", "read"} => listed = Nothing
  /\ \A p \in Pieces : listed[p] # {} => p \in Mine
  /\ staged \subseteq {p \in Mine : listed[p] # {}}
  /\ job = "write" => \E p \in Mine : listed[p] # {}

\* A static overwrite has deleted what it is to read, and never gets to its commit.
StaticOverwriteFails ==
  Here \notin Partitioned =>
    /\ job = "stage" => \E p \in Mine : ~(listed[p] \subseteq store[p])
    /\ job # "commit"

\* The listing of a piece that is to be replaced holds all that the piece owes.
ListingIsComplete ==
  \A p \in Pieces : Held(p) /\ (~armed \/ ~Expired(p)) => owed[p] \subseteq UNION listed[p]

\* A command that deletes is of an expired partition, and of a round that deletes.
CommandsAreOfExpired ==
  /\ round # "run" => commands = {}
  /\ round # "idle" /\ policy.enabled /\ ~policy.dry_run => armed
  /\ commands # {} => policy.enabled
  /\ \A p \in commands : Expired(p)

IInv ==
  /\ TypeOK
  /\ FilesAreOld
  /\ JobIsHere
  /\ StaticOverwriteFails
  /\ ListingIsComplete
  /\ CommandsAreOfExpired
  /\ NothingIsDuplicated
  /\ RowsAreKept

-----------------------------------------------------------------------------
LEMMA TargetsFacts ==
  /\ Len(Targets) \in Nat \ {0}
  /\ DOMAIN Targets = 1 .. Len(Targets)
BY LayoutAssumption

LEMMA NextTargetType ==
  ASSUME TypeOK, NextTarget
  PROVE  /\ job' \in {"idle", "read"}
         /\ turn' \in DOMAIN Targets
         /\ listed' = Nothing
         /\ listed' \in [Pieces -> SUBSET SUBSET Batches]
         /\ staged' = {}
BY TargetsFacts DEF TypeOK, NextTarget, Nothing

LEMMA InitTypeOK == Init => TypeOK
<1> SUFFICES ASSUME Init
             PROVE  TypeOK
  OBVIOUS
<1> USE DEF Init
<1>1. Nothing \in [Pieces -> SUBSET SUBSET Batches] /\ Nothing \in [Pieces -> SUBSET Batches]
  BY DEF Nothing
<1>2. batches \in 0 .. MaxBatches /\ turn \in DOMAIN Targets
  BY BoundsAssumption, TargetsFacts
<1> QED BY <1>1, <1>2 DEF TypeOK

LEMMA StepTypeOK == TypeOK /\ [Next]_vars => TypeOK'
<1> SUFFICES ASSUME TypeOK, [Next]_vars
             PROVE  TypeOK'
  OBVIOUS
<1> USE DEF TypeOK, job_vars, round_vars, history_vars
<1>1. CASE Midnight
  BY <1>1 DEF Midnight
<1>2. ASSUME NEW p \in Pieces, NEW mode \in {"daily", "initial"}, Ingest(p, mode)
      PROVE  TypeOK'
  <2>1. batches' \in 0 .. MaxBatches /\ batches + 1 \in Batches
    BY <1>2, BoundsAssumption DEF Ingest, Batches
  <2>2. store' \in [Pieces -> SUBSET SUBSET Batches]
    <3>1. \E files \in SUBSET SUBSET Batches : store' = [store EXCEPT ![p] = files]
      <4>1. (IF mode = "daily" THEN store[p] ELSE {}) \cup {{batches + 1}}
              \in SUBSET SUBSET Batches
        BY <2>1
      <4> QED BY <1>2, <4>1 DEF Ingest
    <3> QED BY <3>1
  <2>3. owed' \in [Pieces -> SUBSET Batches]
    BY <1>2, <2>1 DEF Ingest
  <2> QED BY <1>2, <2>1, <2>2, <2>3 DEF Ingest
<1>3. CASE StartJob
  BY <1>3, TargetsFacts DEF StartJob
<1>4. CASE ReadPath
  <2>1. listed' \in [Pieces -> SUBSET SUBSET Batches]
    BY <1>4 DEF ReadPath
  <2> QED BY <1>4, <2>1 DEF ReadPath
<1>5. CASE BeginOverwrite
  <2>1. store' \in [Pieces -> SUBSET SUBSET Batches]
    BY <1>5 DEF BeginOverwrite
  <2>2. owed' \in [Pieces -> SUBSET Batches]
    BY <1>5 DEF BeginOverwrite
  <2> QED BY <1>5, <2>1, <2>2 DEF BeginOverwrite
<1>6. CASE Stage
  BY <1>6 DEF Stage, Mine
<1>7. CASE FinishTarget
  BY <1>7, NextTargetType DEF FinishTarget
<1>8. ASSUME NEW p \in Pieces, ReplacePiece(p)
      PROVE  TypeOK'
  <2>1. {UNION listed[p]} \in SUBSET SUBSET Batches
    OBVIOUS
  <2> QED BY <1>8, <2>1 DEF ReplacePiece
<1>9. CASE CaughtFailure
  BY <1>9, NextTargetType DEF CaughtFailure
<1>10. CASE Killed
  BY <1>10 DEF Killed, Nothing
<1>11. ASSUME NEW p \in Pieces, BrokenReplace(p)
       PROVE  TypeOK'
  BY <1>11, NextTargetType DEF BrokenReplace
<1>12. ASSUME NEW enabled \in BOOLEAN, NEW dry_run \in BOOLEAN,
              ListPartitions(enabled, dry_run)
       PROVE  TypeOK'
  BY <1>12 DEF ListPartitions
<1>13. CASE FindExpired
  BY <1>13 DEF FindExpired
<1>14. CASE FinishRound
  BY <1>14 DEF FinishRound
<1>15. ASSUME NEW p \in Pieces, RunCommand(p)
       PROVE  TypeOK'
  BY <1>15 DEF RunCommand
<1>16. CASE UNCHANGED vars
  BY <1>16 DEF vars
<1> HIDE DEF TypeOK
<1>17. CASE JobProgress
  BY <1>4, <1>5, <1>6, <1>7, <1>8, <1>9, <1>17 DEF JobProgress, Compaction
<1>18. CASE RoundProgress
  BY <1>13, <1>14, <1>15, <1>18 DEF RoundProgress
<1> QED BY <1>1, <1>2, <1>3, <1>10, <1>11, <1>12, <1>16, <1>17, <1>18 DEF Next

\* Type correctness: among other things, the job's turn stays within the
\* configured targets whatever fails.
THEOREM TypeCorrect == Spec => []TypeOK
BY InitTypeOK, StepTypeOK, PTL DEF Spec

-----------------------------------------------------------------------------
\* Steps that only look, or only move the calendar or a round on.
Looks ==
  /\ UNCHANGED <<store, batches, job, turn, listed, staged, owed>>
  /\ today' \in {today, today + 1}

\* The job leaves its target, or ends.
Leaves ==
  /\ job' \in {"idle", "read"} /\ listed' = Nothing /\ staged' = {}
  /\ UNCHANGED <<batches, round, policy, commands, today, armed>>

LEMMA Lookers ==
  ASSUME TypeOK,
         \/ Midnight \/ FindExpired \/ FinishRound \/ UNCHANGED vars
         \/ \E enabled, dry_run \in BOOLEAN : ListPartitions(enabled, dry_run)
  PROVE  Looks
BY DEF Looks, Midnight, FindExpired, FinishRound, ListPartitions, vars, job_vars,
       round_vars, history_vars

LEMMA Leavers ==
  ASSUME TypeOK,
         \/ FinishTarget \/ CaughtFailure \/ Killed
         \/ \E p \in Pieces : BrokenReplace(p)
  PROVE  /\ Leaves
         /\ \/ UNCHANGED <<store, owed>>
            \/ \E p \in Pieces : /\ store' = [store EXCEPT ![p] = {}]
                                /\ owed' = [owed EXCEPT ![p] = {}]
<1>1. CASE Killed
  BY <1>1 DEF Killed, Leaves, round_vars, history_vars
<1>2. CASE FinishTarget \/ CaughtFailure
  BY <1>2, NextTargetType DEF FinishTarget, CaughtFailure, Leaves, round_vars, history_vars
<1>3. ASSUME NEW p \in Pieces, BrokenReplace(p)
      PROVE  /\ Leaves
             /\ store' = [store EXCEPT ![p] = {}] /\ owed' = [owed EXCEPT ![p] = {}]
  BY <1>3, NextTargetType DEF BrokenReplace, Leaves, round_vars
<1> QED BY <1>1, <1>2, <1>3

\* Every step is one of these.
LEMMA Steps ==
  ASSUME TypeOK, [Next]_vars
  PROVE  \/ Looks /\ (\/ Midnight \/ FindExpired \/ FinishRound \/ UNCHANGED vars
                      \/ \E enabled, dry_run \in BOOLEAN : ListPartitions(enabled, dry_run))
         \/ \E p \in Pieces, mode \in {"daily", "initial"} : Ingest(p, mode)
         \/ StartJob \/ ReadPath \/ BeginOverwrite \/ Stage
         \/ \E p \in Pieces : ReplacePiece(p)
         \/ Leaves /\ (\/ FinishTarget \/ CaughtFailure \/ Killed
                       \/ \E p \in Pieces : BrokenReplace(p))
         \/ \E p \in Pieces : RunCommand(p)
BY Lookers, Leavers DEF Next, JobProgress, Compaction, RoundProgress

LEMMA IngestEffect ==
  ASSUME TypeOK, NEW p \in Pieces, NEW mode \in {"daily", "initial"}, Ingest(p, mode),
         NEW q \in Pieces
  PROVE  /\ store'[q] \subseteq store[q] \cup {{batches + 1}}
         /\ q # p => store'[q] = store[q] /\ owed'[q] = owed[q]
         /\ q = p => /\ {batches + 1} \in store'[q]
                     /\ store[q] \subseteq store'[q] \/ owed'[q] \subseteq {batches + 1}
                     /\ owed'[q] \subseteq owed[q] \cup {batches + 1}
                     /\ Held(q) => owed'[q] \subseteq owed[q]
         /\ batches' = batches + 1 /\ batches \in Nat
         /\ UNCHANGED <<today, job, turn, listed, staged, round, policy, commands, armed>>
<1>1. store' = [store EXCEPT ![p] = (IF mode = "daily" THEN store[p] ELSE {})
                                       \cup {{batches + 1}}]
  BY DEF Ingest
<1>2. owed' = [owed EXCEPT ![p] = (IF mode = "daily" THEN owed[p] ELSE {})
                                     \cup (IF Held(p) THEN {} ELSE {batches + 1})]
  BY DEF Ingest
<1>3. store'[q] = IF q = p THEN (IF mode = "daily" THEN store[q] ELSE {}) \cup {{batches + 1}}
                  ELSE store[q]
  BY <1>1 DEF TypeOK
<1>4. owed'[q] = IF q = p THEN (IF mode = "daily" THEN owed[q] ELSE {})
                                 \cup (IF Held(q) THEN {} ELSE {batches + 1})
                 ELSE owed[q]
  BY <1>2 DEF TypeOK
<1>5. /\ batches' = batches + 1 /\ batches \in Nat
      /\ UNCHANGED <<today, job, turn, listed, staged, round, policy, commands, armed>>
  BY DEF Ingest, job_vars, round_vars, TypeOK
<1>6. mode # "daily" => owed'[q] \subseteq {batches + 1} \/ q # p
  BY <1>4
<1> QED BY <1>3, <1>4, <1>5, <1>6

LEMMA StepFiles == TypeOK /\ FilesAreOld /\ [Next]_vars => FilesAreOld'
<1> SUFFICES ASSUME TypeOK, FilesAreOld, [Next]_vars,
                    NEW p \in Pieces, NEW f \in store'[p] \cup listed'[p]
             PROVE  f \subseteq 1 .. batches'
  BY DEF FilesAreOld
<1>1. CASE f \in store[p] \cup listed[p] /\ batches' = batches
  BY <1>1 DEF FilesAreOld
<1>2. ASSUME NEW q \in Pieces, NEW mode \in {"daily", "initial"}, Ingest(q, mode)
      PROVE  f \subseteq 1 .. batches'
  <2>1. f \in store[p] \cup listed[p] \/ f = {batches + 1}
    BY <1>2, IngestEffect
  <2>2. batches' = batches + 1 /\ batches \in Nat
    BY <1>2, IngestEffect
  <2>3. f \in store[p] \cup listed[p] => f \subseteq 1 .. batches
    BY DEF FilesAreOld
  <2> QED BY <2>1, <2>2, <2>3
<1>3. CASE StartJob \/ Stage \/ Looks
  BY <1>1, <1>3 DEF StartJob, Stage, Looks
<1>4. CASE ReadPath
  BY <1>1, <1>4 DEF ReadPath
<1>5. CASE BeginOverwrite
  BY <1>1, <1>5 DEF BeginOverwrite
<1>6. ASSUME NEW q \in Pieces, ReplacePiece(q)
      PROVE  f \subseteq 1 .. batches'
  <2>1. batches' = batches /\ listed' = listed
        /\ store'[p] \in {store[p], {UNION listed[p]}}
    BY <1>6 DEF ReplacePiece, TypeOK
  <2>2. UNION listed[p] \subseteq 1 .. batches
    BY DEF FilesAreOld
  <2> QED BY <1>1, <2>1, <2>2
<1>7. CASE Leaves /\ (\/ FinishTarget \/ CaughtFailure \/ Killed
                     \/ \E q \in Pieces : BrokenReplace(q))
  <2>1. store'[p] \in {store[p], {}} /\ listed'[p] = {} /\ batches' = batches
    BY <1>7, Leavers DEF Leaves, Nothing, TypeOK
  <2> QED BY <1>1, <2>1
<1>8. ASSUME NEW q \in Pieces, RunCommand(q)
      PROVE  f \subseteq 1 .. batches'
  <2>1. store'[p] \in {store[p], {}} /\ listed' = listed /\ batches' = batches
    BY <1>8 DEF RunCommand, job_vars, TypeOK
  <2> QED BY <1>1, <2>1
<1> QED BY <1>2, <1>3, <1>4, <1>5, <1>6, <1>7, <1>8, Steps

LEMMA StepDup ==
  TypeOK /\ FilesAreOld /\ NothingIsDuplicated /\ [Next]_vars => NothingIsDuplicated'
<1> SUFFICES ASSUME TypeOK, FilesAreOld, NothingIsDuplicated, [Next]_vars,
                    NEW p \in Pieces,
                    NEW f \in store'[p], NEW g \in store'[p], f # g
             PROVE  f \cap g = {}
  BY DEF NothingIsDuplicated
<1>1. CASE store'[p] \subseteq store[p]
  BY <1>1 DEF NothingIsDuplicated
<1>2. ASSUME NEW q \in Pieces, NEW mode \in {"daily", "initial"}, Ingest(q, mode)
      PROVE  f \cap g = {}
  <2>1. batches \in Nat /\ \A h \in store'[p] : h \in store[p] \/ h = {batches + 1}
    BY <1>2, IngestEffect
  <2>2. \A h \in store[p] : batches + 1 \notin h
    BY <2>1 DEF FilesAreOld
  <2>3. f \in store[p] /\ g \in store[p] => f \cap g = {}
    BY DEF NothingIsDuplicated
  <2>4. f = {batches + 1} => g \in store[p] /\ f \cap g = {}
    BY <2>1, <2>2
  <2>5. g = {batches + 1} => f \in store[p] /\ f \cap g = {}
    BY <2>1, <2>2
  <2> QED BY <2>1, <2>3, <2>4, <2>5
<1>3. CASE StartJob \/ Stage \/ Looks \/ ReadPath \/ BeginOverwrite
  BY <1>1, <1>3 DEF StartJob, Stage, Looks, ReadPath, BeginOverwrite
<1>4. ASSUME NEW q \in Pieces, ReplacePiece(q)
      PROVE  f \cap g = {}
  <2>1. store'[p] = store[p] \/ store'[p] = {UNION listed[p]}
    BY <1>4 DEF ReplacePiece, TypeOK
  <2>2. store'[p] # {UNION listed[p]}
    OBVIOUS
  <2> QED BY <1>1, <2>1, <2>2
<1>5. CASE Leaves /\ (\/ FinishTarget \/ CaughtFailure \/ Killed
                     \/ \E q \in Pieces : BrokenReplace(q))
  <2>1. store'[p] \in {store[p], {}}
    BY <1>5, Leavers DEF TypeOK
  <2> QED BY <1>1, <2>1
<1>6. ASSUME NEW q \in Pieces, RunCommand(q)
      PROVE  f \cap g = {}
  <2>1. store'[p] \in {store[p], {}}
    BY <1>6 DEF RunCommand, TypeOK
  <2> QED BY <1>1, <2>1
<1> QED BY <1>2, <1>3, <1>4, <1>5, <1>6, Steps

\* However compaction jobs, ingestion and retention interleave and wherever a job
\* ends, no row is in two files of a partition.
THEOREM NothingDuplicated == Spec => []NothingIsDuplicated
<1>1. Init => FilesAreOld /\ NothingIsDuplicated
  BY DEF Init, Nothing, FilesAreOld, NothingIsDuplicated
<1> QED BY <1>1, InitTypeOK, StepTypeOK, StepFiles, StepDup, PTL DEF Spec

-----------------------------------------------------------------------------
LEMMA StepJob == TypeOK /\ JobIsHere /\ [Next]_vars => JobIsHere'
<1> SUFFICES ASSUME TypeOK, JobIsHere, [Next]_vars
             PROVE  JobIsHere'
  OBVIOUS
<1>1. CASE UNCHANGED <<job, turn, listed, staged>>
  BY <1>1 DEF JobIsHere, Mine, Here
<1>2. ASSUME NEW q \in Pieces, NEW mode \in {"daily", "initial"}, Ingest(q, mode)
      PROVE  JobIsHere'
  BY <1>1, <1>2 DEF Ingest, job_vars
<1>3. CASE Looks
  BY <1>1, <1>3 DEF Looks
<1>4. CASE StartJob
  <2>1. UNCHANGED <<listed, staged>> /\ job' = "read" /\ listed = Nothing
    BY <1>4 DEF StartJob, JobIsHere
  <2>2. \A p \in Pieces : listed[p] = {}
    BY <2>1 DEF Nothing
  <2>3. staged = {}
    BY <2>2 DEF JobIsHere, Mine
  <2> QED BY <2>1, <2>2, <2>3 DEF JobIsHere
<1>5. CASE ReadPath
  <2>1. Mine' = Mine /\ staged' = staged /\ staged = {}
    BY <1>5 DEF ReadPath, Mine, Here, JobIsHere, Nothing
  <2>2. \A p \in Pieces : listed'[p] = IF p \in Mine THEN store[p] ELSE {}
    BY <1>5 DEF ReadPath
  <2>3. \E p \in Mine : listed'[p] # {}
    BY <1>5, <2>2 DEF ReadPath, Mine
  <2> QED BY <1>5, <2>1, <2>2, <2>3 DEF ReadPath, JobIsHere
<1>6. CASE BeginOverwrite
  BY <1>6 DEF BeginOverwrite, JobIsHere, Mine, Here
<1>7. CASE Stage
  BY <1>7 DEF Stage, JobIsHere, Mine, Here
<1>8. ASSUME NEW q \in Pieces, ReplacePiece(q)
      PROVE  JobIsHere'
  BY <1>8 DEF ReplacePiece, JobIsHere, Mine, Here
<1>9. CASE Leaves
  BY <1>9 DEF Leaves, JobIsHere, Nothing
<1>10. ASSUME NEW q \in Pieces, RunCommand(q)
       PROVE  JobIsHere'
  BY <1>1, <1>10 DEF RunCommand, job_vars
<1> QED BY <1>2, <1>3, <1>4, <1>5, <1>6, <1>7, <1>8, <1>9, <1>10, Steps

LEMMA StepStatic ==
  TypeOK /\ FilesAreOld /\ JobIsHere /\ StaticOverwriteFails /\ [Next]_vars
    => StaticOverwriteFails'
<1> SUFFICES ASSUME TypeOK, FilesAreOld, JobIsHere, StaticOverwriteFails, [Next]_vars,
                    Here' \notin Partitioned
             PROVE  /\ job' = "stage" => \E p \in Mine' : ~(listed'[p] \subseteq store'[p])
                    /\ job' # "commit"
  BY DEF StaticOverwriteFails
<1>1. CASE /\ UNCHANGED <<job, turn, listed>>
           /\ \A p \in Pieces : \A f \in listed[p] : f \notin store[p] => f \notin store'[p]
  BY <1>1 DEF StaticOverwriteFails, Here, Mine
<1>2. ASSUME NEW q \in Pieces, NEW mode \in {"daily", "initial"}, Ingest(q, mode)
      PROVE  /\ UNCHANGED <<job, turn, listed>>
             /\ \A p \in Pieces : \A f \in listed[p] : f \notin store[p] => f \notin store'[p]
  <2>1. batches \in Nat /\ UNCHANGED <<job, turn, listed>>
    BY <1>2, IngestEffect
  <2>2. \A p \in Pieces : \A f \in listed[p] : f # {batches + 1}
    BY <2>1 DEF FilesAreOld
  <2>3. \A p \in Pieces : store'[p] \subseteq store[p] \cup {{batches + 1}}
    BY <1>2, IngestEffect
  <2> QED BY <2>1, <2>2, <2>3
<1>3. CASE Looks
  BY <1>1, <1>3 DEF Looks
<1>4. CASE StartJob \/ ReadPath \/ Leaves
  BY <1>4 DEF StartJob, ReadPath, Leaves
<1>5. CASE BeginOverwrite
  <2>1. Here \notin Partitioned /\ Mine' = Mine /\ listed' = listed
    BY <1>5 DEF BeginOverwrite, Here, Mine
  <2>2. \A p \in Mine : store'[p] = {}
    BY <1>5, <2>1 DEF BeginOverwrite, StaticOverwrite, Mine
  <2>3. \E p \in Mine : listed[p] # {}
    BY <1>5 DEF BeginOverwrite, JobIsHere
  <2> QED BY <1>5, <2>1, <2>2, <2>3 DEF BeginOverwrite
<1>6. CASE Stage
  BY <1>6 DEF Stage, StaticOverwriteFails, Here
<1>7. ASSUME NEW q \in Pieces, ReplacePiece(q)
      PROVE  FALSE
  BY <1>7 DEF ReplacePiece, StaticOverwriteFails, Here
<1>8. ASSUME NEW q \in Pieces, RunCommand(q)
      PROVE  /\ UNCHANGED <<job, turn, listed>>
             /\ \A p \in Pieces : \A f \in listed[p] : f \notin store[p] => f \notin store'[p]
  <2>1. \A p \in Pieces : store'[p] \in {store[p], {}}
    BY <1>8 DEF RunCommand, TypeOK
  <2> QED BY <1>8, <2>1 DEF RunCommand, job_vars
<1> QED BY <1>1, <1>2, <1>3, <1>4, <1>5, <1>6, <1>7, <1>8, Steps

LEMMA ExpiredStays ==
  ASSUME TypeOK, NEW p \in Pieces, today' \in {today, today + 1}, Expired(p)
  PROVE  Expired(p)'
BY LayoutAssumption, BoundsAssumption DEF Expired, TypeOK, Dated

LEMMA StepCommands ==
  TypeOK /\ CommandsAreOfExpired /\ [Next]_vars => CommandsAreOfExpired'
<1> SUFFICES ASSUME TypeOK, CommandsAreOfExpired, [Next]_vars
             PROVE  CommandsAreOfExpired'
  OBVIOUS
<1>p. commands \subseteq Pieces
  BY DEF TypeOK
<1>1. CASE UNCHANGED <<today, round, policy, commands, armed>>
  BY <1>1 DEF CommandsAreOfExpired, Expired
<1>2. CASE Midnight
  <2>1. UNCHANGED <<round, policy, commands, armed>> /\ today' = today + 1
    BY <1>2 DEF Midnight, round_vars, history_vars
  <2>2. \A p \in commands : Expired(p)'
    BY <1>p, <2>1, ExpiredStays DEF CommandsAreOfExpired
  <2> QED BY <2>1, <2>2 DEF CommandsAreOfExpired
<1>3. ASSUME NEW enabled \in BOOLEAN, NEW dry_run \in BOOLEAN,
             ListPartitions(enabled, dry_run)
      PROVE  CommandsAreOfExpired'
  BY <1>3 DEF ListPartitions, CommandsAreOfExpired
<1>4. CASE FindExpired
  <2>1. commands' = IF policy.enabled THEN {p \in listing : IsExpired(p)} ELSE {}
    BY <1>4 DEF FindExpired
  <2>2. \A p \in commands' : Expired(p)'
    BY <1>4, <2>1 DEF FindExpired, IsExpired, Expired
  <2> QED BY <1>4, <2>1, <2>2 DEF FindExpired, CommandsAreOfExpired
<1>5. CASE FinishRound
  BY <1>5 DEF FinishRound, history_vars, CommandsAreOfExpired
<1>6. ASSUME NEW q \in Pieces, RunCommand(q)
      PROVE  CommandsAreOfExpired'
  BY <1>6 DEF RunCommand, history_vars, CommandsAreOfExpired, Expired
<1>7. ASSUME NEW q \in Pieces, NEW mode \in {"daily", "initial"}, Ingest(q, mode)
      PROVE  CommandsAreOfExpired'
  BY <1>1, <1>7, IngestEffect
<1>8. ASSUME NEW q \in Pieces, ReplacePiece(q)
      PROVE  CommandsAreOfExpired'
  BY <1>1, <1>8 DEF ReplacePiece, round_vars, history_vars
<1>9. CASE StartJob \/ ReadPath \/ BeginOverwrite \/ Stage \/ Leaves \/ UNCHANGED vars
  BY <1>1, <1>9 DEF StartJob, ReadPath, BeginOverwrite, Stage, Leaves, vars,
                    round_vars, history_vars
<1> QED BY <1>2, <1>3, <1>4, <1>5, <1>6, <1>7, <1>8, <1>9, Steps

LEMMA StepComplete ==
  IInv /\ TypeOK' /\ [Next]_vars => ListingIsComplete'
<1> SUFFICES ASSUME IInv, TypeOK', [Next]_vars,
                    NEW p \in Pieces, Held(p)', (~armed \/ ~Expired(p))'
             PROVE  owed'[p] \subseteq UNION listed'[p]
  BY DEF ListingIsComplete
<1>t. TypeOK /\ JobIsHere
  BY DEF IInv
<1>a. today' \in {today, today + 1} /\ (armed => armed')
  BY <1>t DEF TypeOK, Next, vars, JobProgress, Compaction, RoundProgress, Midnight,
              Ingest, StartJob, ReadPath, BeginOverwrite, Stage, ReplacePiece,
              FinishTarget, CaughtFailure, Killed, BrokenReplace, ListPartitions,
              FindExpired, FinishRound, RunCommand, job_vars, round_vars, history_vars
<1>b. ~armed \/ ~Expired(p)
  BY <1>a, <1>t, ExpiredStays
<1>1. CASE Held(p) /\ owed'[p] \subseteq owed[p] /\ listed' = listed
  BY <1>1, <1>b DEF IInv, ListingIsComplete
<1>2. ASSUME NEW q \in Pieces, NEW mode \in {"daily", "initial"}, Ingest(q, mode)
      PROVE  owed'[p] \subseteq UNION listed'[p]
  <2>1. UNCHANGED <<job, turn, listed, staged>>
    BY <1>2, <1>t, IngestEffect
  <2>2. Held(p)
    BY <2>1 DEF Held, Mine, Here
  <2>3. owed'[p] \subseteq owed[p]
    BY <1>2, <1>t, <2>2, IngestEffect
  <2> QED BY <1>1, <2>1, <2>2, <2>3
<1>3. CASE Looks
  BY <1>1, <1>3 DEF Looks, Held, Mine, Here
<1>4. CASE StartJob \/ Leaves
  BY <1>4 DEF StartJob, Leaves, Held
<1>5. CASE ReadPath
  <2>1. p \in Mine /\ owed' = owed
    BY <1>5 DEF ReadPath, Held, Mine, Here
  <2>2. listed'[p] = store[p]
    BY <1>5, <2>1 DEF ReadPath
  <2>3. owed[p] \subseteq UNION store[p]
    BY <1>b DEF IInv, RowsAreKept, RowsIn
  <2> QED BY <2>1, <2>2, <2>3
<1>6. CASE BeginOverwrite
  <2>1. UNCHANGED <<turn, listed, staged>> /\ job' = "stage" /\ job = "write"
    BY <1>6 DEF BeginOverwrite
  <2>2. p \in Mine /\ Here \in Partitioned /\ listed[p] # {}
    BY <2>1 DEF Held, Mine, Here
  <2>3. owed' = owed
    BY <1>6, <2>2 DEF BeginOverwrite, StaticOverwrite
  <2>4. Held(p)
    BY <2>1, <2>2 DEF Held
  <2> QED BY <1>1, <2>1, <2>3, <2>4
<1>7. CASE Stage
  BY <1>1, <1>7 DEF Stage, Held, Mine, Here, history_vars
<1>8. ASSUME NEW q \in Pieces, ReplacePiece(q)
      PROVE  owed'[p] \subseteq UNION listed'[p]
  BY <1>1, <1>8 DEF ReplacePiece, Held, Mine, Here, history_vars
<1>9. ASSUME NEW q \in Pieces, RunCommand(q)
      PROVE  owed'[p] \subseteq UNION listed'[p]
  BY <1>1, <1>9 DEF RunCommand, Held, Mine, Here, history_vars, job_vars
<1> QED BY <1>2, <1>3, <1>4, <1>5, <1>6, <1>7, <1>8, <1>9, <1>t, Steps

LEMMA StepKept == IInv /\ TypeOK' /\ [Next]_vars => RowsAreKept'
<1> SUFFICES ASSUME IInv, TypeOK', [Next]_vars,
                    NEW p \in Pieces, (~armed \/ ~Expired(p))'
             PROVE  owed'[p] \subseteq UNION store'[p]
  BY DEF RowsAreKept, RowsIn
<1>t. TypeOK /\ JobIsHere
  BY DEF IInv
<1>a. today' \in {today, today + 1} /\ (armed => armed')
  BY <1>t DEF TypeOK, Next, vars, JobProgress, Compaction, RoundProgress, Midnight,
              Ingest, StartJob, ReadPath, BeginOverwrite, Stage, ReplacePiece,
              FinishTarget, CaughtFailure, Killed, BrokenReplace, ListPartitions,
              FindExpired, FinishRound, RunCommand, job_vars, round_vars, history_vars
<1>b. ~armed \/ ~Expired(p)
  BY <1>a, <1>t, ExpiredStays
<1>c. owed[p] \subseteq UNION store[p]
  BY <1>b DEF IInv, RowsAreKept, RowsIn
<1>1. CASE owed'[p] = {} \/ (owed'[p] \subseteq owed[p] /\ store[p] \subseteq store'[p])
  BY <1>1, <1>c
<1>2. ASSUME NEW q \in Pieces, NEW mode \in {"daily", "initial"}, Ingest(q, mode)
      PROVE  owed'[p] \subseteq UNION store'[p]
  <2>1. CASE q # p
    BY <1>1, <1>2, <1>t, <2>1, IngestEffect
  <2>2. CASE q = p
    <3>1. /\ {batches + 1} \in store'[p]
          /\ store[p] \subseteq store'[p] \/ owed'[p] \subseteq {batches + 1}
          /\ owed'[p] \subseteq owed[p] \cup {batches + 1}
      BY <1>2, <1>t, <2>2, IngestEffect
    <3>2. {batches + 1} \subseteq UNION store'[p]
      BY <3>1
    <3>3. store[p] \subseteq store'[p] => owed[p] \subseteq UNION store'[p]
      BY <1>c
    <3> QED BY <3>1, <3>2, <3>3
  <2> QED BY <2>1, <2>2
<1>3. CASE Looks \/ StartJob \/ ReadPath \/ Stage
  BY <1>1, <1>3 DEF Looks, StartJob, ReadPath, Stage, history_vars
<1>4. CASE BeginOverwrite
  <2>1. CASE StaticOverwrite
    <3>1. p \in Mine => owed'[p] = {}
      BY <1>4, <2>1 DEF BeginOverwrite, StaticOverwrite
    <3>2. p \notin Mine => owed'[p] = owed[p] /\ store'[p] = store[p]
      BY <1>4, <2>1 DEF BeginOverwrite
    <3> QED BY <1>1, <3>1, <3>2
  <2>2. CASE ~StaticOverwrite
    BY <1>1, <1>4, <2>2 DEF BeginOverwrite
  <2> QED BY <2>1, <2>2
<1>5. ASSUME NEW q \in Pieces, ReplacePiece(q)
      PROVE  owed'[p] \subseteq UNION store'[p]
  <2>1. owed' = owed /\ job = "commit" /\ q \in staged
    BY <1>5 DEF ReplacePiece, history_vars
  <2>2. CASE q # p
    <3>1. store'[p] = store[p]
      BY <1>5, <1>t, <2>2 DEF ReplacePiece, TypeOK
    <3> QED BY <1>1, <2>1, <3>1
  <2>3. CASE q = p
    <3>1. Held(p)
      BY <1>t, <2>1, <2>3 DEF IInv, StaticOverwriteFails, Held, JobIsHere
    <3>2. owed[p] \subseteq UNION listed[p]
      BY <1>b, <3>1 DEF IInv, ListingIsComplete
    <3>3. store'[p] = {UNION listed[p]}
      BY <1>5, <1>t, <2>3 DEF ReplacePiece, TypeOK
    <3> QED BY <2>1, <3>2, <3>3
  <2> QED BY <2>2, <2>3
<1>6. CASE Leaves /\ (\/ FinishTarget \/ CaughtFailure \/ Killed
                     \/ \E q \in Pieces : BrokenReplace(q))
  <2>1. \/ UNCHANGED <<store, owed>>
        \/ \E q \in Pieces : /\ store' = [store EXCEPT ![q] = {}]
                            /\ owed' = [owed EXCEPT ![q] = {}]
    BY <1>6, <1>t, Leavers
  <2>2. owed'[p] = {} \/ (owed'[p] = owed[p] /\ store'[p] = store[p])
    BY <1>t, <2>1 DEF TypeOK
  <2> QED BY <1>1, <2>2
<1>7. ASSUME NEW q \in Pieces, RunCommand(q)
      PROVE  owed'[p] \subseteq UNION store'[p]
  <2>1. owed' = owed /\ round = "run" /\ q \in commands
    BY <1>7 DEF RunCommand, history_vars
  <2>2. CASE Deletes /\ q = p
    BY <1>b, <2>1, <2>2 DEF IInv, CommandsAreOfExpired, Deletes
  <2>3. CASE ~(Deletes /\ q = p)
    <3>1. store'[p] = store[p]
      BY <1>7, <1>t, <2>3 DEF RunCommand, TypeOK
    <3> QED BY <1>1, <2>1, <3>1
  <2> QED BY <2>2, <2>3
<1> QED BY <1>2, <1>3, <1>4, <1>5, <1>6, <1>7, <1>t, Steps

\* Rows are lost only where owed says so, and otherwise only with an expired
\* partition, in a round that deletes.
THEOREM RowsKept == Spec => []RowsAreKept
<1>1. Init => IInv
  <2> SUFFICES ASSUME Init
               PROVE  IInv
    OBVIOUS
  <2>1. TypeOK
    BY InitTypeOK
  <2>2. FilesAreOld /\ NothingIsDuplicated /\ RowsAreKept
    BY DEF Init, Nothing, FilesAreOld, NothingIsDuplicated, RowsAreKept
  <2>3. JobIsHere /\ StaticOverwriteFails /\ ListingIsComplete /\ CommandsAreOfExpired
    BY DEF Init, Nothing, JobIsHere, StaticOverwriteFails, ListingIsComplete, Held,
           CommandsAreOfExpired
  <2> QED BY <2>1, <2>2, <2>3 DEF IInv
<1>2. IInv /\ [Next]_vars => IInv'
  BY StepTypeOK, StepFiles, StepDup, StepJob, StepStatic, StepCommands, StepComplete,
     StepKept DEF IInv
<1>3. IInv => RowsAreKept
  BY DEF IInv
<1> QED BY <1>1, <1>2, <1>3, PTL DEF Spec
-----------------------------------------------------------------------------
\* A partition the round has to remove is gone or its command is still to be run;
\* no compaction has listed it, and so none will put it back.
DueIsUnderWay ==
  /\ round = "listed" => due = {}
  /\ \A p \in due : listed[p] = {} /\ (store[p] = {} \/ p \in commands)
  /\ due # {} => ~policy.dry_run
  /\ round = "idle" => commands = {}

LEMMA StepDue ==
  TypeOK /\ JobIsHere /\ DueIsUnderWay /\ [Next]_vars => DueIsUnderWay'
<1> SUFFICES ASSUME TypeOK, JobIsHere, DueIsUnderWay, [Next]_vars
             PROVE  DueIsUnderWay'
  OBVIOUS
<1> USE DEF round_vars, job_vars, history_vars
<1>d. due \subseteq Pieces
  BY DEF TypeOK
<1>1. ASSUME NEW q \in Pieces, NEW mode \in {"daily", "initial"}, Ingest(q, mode)
      PROVE  DueIsUnderWay'
  <2>1. \A p \in due' : p \in due /\ p # q /\ store'[p] = store[p]
    BY <1>1, <1>d, IngestEffect DEF Ingest
  <2> QED BY <1>1, <2>1 DEF Ingest, DueIsUnderWay
<1>2. CASE StartJob \/ Stage \/ Midnight
  BY <1>2 DEF StartJob, Stage, Midnight, DueIsUnderWay
<1>3. CASE ReadPath
  BY <1>3 DEF ReadPath, DueIsUnderWay
<1>4. CASE BeginOverwrite
  <2>1. \A p \in due : store'[p] = store[p] \/ store'[p] = {}
    BY <1>4, <1>d DEF BeginOverwrite
  <2> QED BY <1>4, <2>1 DEF BeginOverwrite, DueIsUnderWay
<1>5. ASSUME NEW q \in Pieces, ReplacePiece(q)
      PROVE  DueIsUnderWay'
  <2>1. q \notin due
    BY <1>5 DEF ReplacePiece, JobIsHere, DueIsUnderWay
  <2>2. \A p \in due : store'[p] = store[p]
    BY <1>5, <1>d, <2>1 DEF ReplacePiece, TypeOK
  <2> QED BY <1>5, <2>2 DEF ReplacePiece, DueIsUnderWay
<1>6. CASE Leaves /\ (\/ FinishTarget \/ CaughtFailure \/ Killed
                     \/ \E q \in Pieces : BrokenReplace(q))
  <2>1. \A p \in due : store'[p] \in {store[p], {}} /\ listed'[p] = {}
    BY <1>6, <1>d, Leavers DEF Leaves, Nothing, TypeOK
  <2>2. UNCHANGED <<due, round, policy, commands>>
    BY <1>6 DEF FinishTarget, CaughtFailure, Killed, BrokenReplace
  <2> QED BY <2>1, <2>2 DEF DueIsUnderWay
<1>7. ASSUME NEW enabled \in BOOLEAN, NEW dry_run \in BOOLEAN,
             ListPartitions(enabled, dry_run)
      PROVE  DueIsUnderWay'
  BY <1>7 DEF ListPartitions, DueIsUnderWay
<1>8. CASE FindExpired
  BY <1>8 DEF FindExpired, DueIsUnderWay, Expired, IsExpired
<1>9. ASSUME NEW q \in Pieces, RunCommand(q)
      PROVE  DueIsUnderWay'
  <2>1. \A p \in due : /\ p = q => store'[p] = {}
                       /\ p # q => store'[p] = store[p]
    BY <1>9, <1>d DEF RunCommand, Deletes, DueIsUnderWay, TypeOK
  <2> QED BY <1>9, <2>1 DEF RunCommand, DueIsUnderWay
<1>10. CASE FinishRound
  BY <1>10 DEF FinishRound, DueIsUnderWay
<1>11. CASE UNCHANGED vars
  BY <1>11 DEF vars, DueIsUnderWay
<1> QED BY <1>1, <1>2, <1>3, <1>4, <1>5, <1>6, <1>7, <1>8, <1>9, <1>10, <1>11, Steps

\* A round that deletes removes what had expired when the operator looked, wherever
\* ingestion and compaction come in between.
THEOREM ExpiredRemoved == Spec => []ExpiredAreRemoved
<1>1. Init => JobIsHere /\ DueIsUnderWay
  BY DEF Init, JobIsHere, DueIsUnderWay, Nothing
<1>2. DueIsUnderWay => ExpiredAreRemoved
  BY DEF DueIsUnderWay, ExpiredAreRemoved
<1> QED BY <1>1, <1>2, InitTypeOK, StepTypeOK, StepJob, StepDue, PTL DEF Spec
=============================================================================
