-------------------------- MODULE IngestionProofs --------------------------
(***************************************************************************)
(* Proofs about Ingestion for every set of rows, every sequence of         *)
(* deployed schemas and every max_retries.  The inductive invariant is     *)
(* built in layers: Control (types and control flow), then the guards the  *)
(* frames have passed (Guarded), then what each row's copies can be at     *)
(* every point of a write (Copies).                                        *)
(*                                                                         *)
(* The second half is about SourceFiles, the files the same container      *)
(* hashes and then reads, for every set of sources, files and contents.    *)
(***************************************************************************)
EXTENDS Ingestion, SourceFiles, TLAPS

BeforeWrite == {"intake", "validation", "privacy"}
InAttempt   == {"attempt", "publish"}

\* Where control may be, and what the write loop's variables mean there.
ControlInv ==
  /\ pc \in BeforeWrite => written = {} /\ \A s \in Sources : tries[s] = 0
  /\ pc \in InAttempt => target \in Loaded \ written
  /\ pc \in {"lineage", "done"} => Loaded \subseteq written
  /\ pc = "publish" => pending \subseteq PiecesOf(target)
  /\ pc \in InAttempt => tries[target] >= 1
  /\ \A s \in Sources \ written :
       pc \in Running /\ ~(pc \in InAttempt /\ s = target) => tries[s] <= MaxRetries
  /\ \A s \in Sources : frames[s] \subseteq RowsOf(s)
  /\ \A rec \in lineage : pc = "done" /\ rec.targets = Loaded

Control == TypeOK /\ ControlInv

\* What the frames of a run have passed by the time control is past each gate.
GuardedInv ==
  /\ pc = "validation" => frames = intake
  /\ pc \in Running \ {"intake", "validation"} =>
       /\ \A s \in Loaded : NullRatioOk(s)
       /\ frames["kt4"] = intake["kt4"]
  /\ PiiStrict /\ pc \in Running \ BeforeWrite =>
       \A s \in Loaded : columns[s] \cap PIIColumns = {}
  /\ RawZoneIsPrivate

\* Copies of a row in initial mode, also while a write is going on.
ExactInv ==
  mode = "initial" =>
    /\ InitialLoadIsExact
    /\ pc = "publish" => \A r \in RowsOf(target) :
         /\ r.piece \in PiecesOf(target) \ pending
              => raw[r] = IF InFrame(r) THEN 1 ELSE 0
         /\ target \notin Partitioned /\ r.piece \notin PiecesOf(target)
              => raw[r] = 0

\* Copies of a row in daily mode, also while a write is going on.
DailyInv ==
  mode = "daily" =>
    /\ DailyAppendsPerAttempt
    /\ pc = "attempt" => \A r \in frames[target] :
         raw[r] + 1 <= before[r] + tries[target]
    /\ pc = "publish" => \A r \in frames[target] :
         IF r.piece \in pending THEN raw[r] + 1 <= before[r] + tries[target]
                                ELSE raw[r] >= before[r] + 1

\* The raw zone is what it was until the first job of the run starts.
UntouchedInv ==
  /\ pc \in BeforeWrite => raw = before
  /\ SkippedDataIsUntouched

CopiesInv == ExactInv /\ DailyInv /\ UntouchedInv

IInv == Control /\ GuardedInv /\ CopiesInv

-----------------------------------------------------------------------------
\* The initial states satisfy the control layer.
LEMMA InitControl == Init => Control
<1> SUFFICES ASSUME Init PROVE Control
  OBVIOUS
<1>1. TypeOK
  BY ConfigAssumption DEF Init, TypeOK, NoFrames, Sources, Ended
<1>2. ControlInv
  BY ConfigAssumption
  DEF Init, ControlInv, NoFrames, Sources, BeforeWrite, InAttempt, Running
<1> QED
  BY <1>1, <1>2 DEF Control

\* Every step preserves types and control flow.
LEMMA ControlStep == Control /\ [Next]_vars => Control'
<1> SUFFICES ASSUME Control, [Next]_vars PROVE Control'
  OBVIOUS
<1> USE DEF Control, vars, run_vars, write_vars, zone_vars, history_vars
<1>1. ASSUME NEW m \in {"initial", "daily"}, NEW img \in Schemas, Start(m, img)
      PROVE  Control'
  <2>1. TypeOK'
    BY <1>1, ConfigAssumption DEF TypeOK, Start, NoFrames, Sources, Ended, Running
  <2>2. ControlInv'
    BY <1>1, <2>1, ConfigAssumption
    DEF TypeOK, Start, NoFrames, ControlInv, Sources, Ended, Running,
        BeforeWrite, InAttempt, Loaded, RowsOf, PiecesOf
  <2> QED
    BY <2>1, <2>2
<1>2. ASSUME NEW found \in SUBSET Rows, ReadSources(found) PROVE Control'
  <2>1. TypeOK'
    BY <1>2, ConfigAssumption DEF TypeOK, ReadSources, Sources, Ended, Running
  <2>2. ControlInv'
    BY <1>2, <2>1, ConfigAssumption
    DEF TypeOK, ReadSources, ControlInv, Sources, Ended, Running, BeforeWrite,
        InAttempt, Loaded, RowsOf, PiecesOf
  <2> QED
    BY <2>1, <2>2
<1>3. ASSUME ValidateSources PROVE Control'
  <2>1. TypeOK'
    BY <1>3, ConfigAssumption DEF TypeOK, ValidateSources, Sources, Ended, Running
  <2>2. ControlInv'
    BY <1>3, <2>1, ConfigAssumption
    DEF TypeOK, ValidateSources, ControlInv, Sources, Ended, Running,
        BeforeWrite, InAttempt, Loaded, RowsOf, PiecesOf
  <2> QED
    BY <2>1, <2>2
<1>4. ASSUME GuardPrivacy PROVE Control'
  <2>1. TypeOK'
    BY <1>4, ConfigAssumption DEF TypeOK, GuardPrivacy, Sources, Ended, Running
  <2>2. ControlInv'
    BY <1>4, <2>1, ConfigAssumption
    DEF TypeOK, GuardPrivacy, ControlInv, Sources, Ended, Running, BeforeWrite,
        InAttempt, Loaded, RowsOf, PiecesOf
  <2> QED
    BY <2>1, <2>2
<1>5. ASSUME NEW s \in Sources, BeginWrite(s) PROVE Control'
  <2>1. TypeOK'
    BY <1>5, ConfigAssumption
    DEF TypeOK, BeginWrite, Turn, ControlInv, Ended, Running, InAttempt
  <2>2. ControlInv'
    BY <1>5, <2>1, ConfigAssumption
    DEF TypeOK, BeginWrite, Turn, ControlInv, Sources, Ended, Running,
        BeforeWrite, InAttempt, Loaded, RowsOf, PiecesOf
  <2> QED
    BY <2>1, <2>2
<1>6. ASSUME StartJob PROVE Control'
  <2>1. TypeOK'
    BY <1>6, ConfigAssumption DEF TypeOK, StartJob, Ended, Running, PiecesOf
  <2>2. ControlInv'
    BY <1>6, <2>1, ConfigAssumption
    DEF TypeOK, StartJob, ControlInv, Sources, Ended, Running, BeforeWrite,
        InAttempt, Loaded, RowsOf, PiecesOf
  <2> QED
    BY <2>1, <2>2
<1>7. ASSUME NEW p \in pending, PublishPiece(p) PROVE Control'
  <2>1. TypeOK'
    BY <1>7, ConfigAssumption DEF TypeOK, PublishPiece, Sources, Ended, Running
  <2>2. ControlInv'
    BY <1>7, <2>1, ConfigAssumption
    DEF TypeOK, PublishPiece, ControlInv, Sources, Ended, Running, BeforeWrite,
        InAttempt, Loaded, RowsOf, PiecesOf
  <2> QED
    BY <2>1, <2>2
<1>8. ASSUME FinishWrite PROVE Control'
  <2>1. TypeOK'
    BY <1>8, ConfigAssumption DEF TypeOK, FinishWrite, Sources, Ended, Running
  <2>2. ControlInv'
    BY <1>8, <2>1, ConfigAssumption
    DEF TypeOK, FinishWrite, ControlInv, Sources, Ended, Running, BeforeWrite,
        InAttempt, Loaded, RowsOf, PiecesOf
  <2> QED
    BY <2>1, <2>2
<1>9. ASSUME TransientFailure PROVE Control'
  <2>1. TypeOK'
    BY <1>9, ConfigAssumption
    DEF TypeOK, TransientFailure, Sources, Ended, Running
  <2>2. ControlInv'
    BY <1>9, <2>1, ConfigAssumption
    DEF TypeOK, TransientFailure, RetriesLeft, ControlInv, Sources, Ended,
        Running, BeforeWrite, InAttempt, Loaded, RowsOf, PiecesOf
  <2> QED
    BY <2>1, <2>2
<1>10. ASSUME FatalFailure PROVE Control'
  <2>1. TypeOK'
    BY <1>10, ConfigAssumption DEF TypeOK, FatalFailure, Sources, Ended, Running
  <2>2. ControlInv'
    BY <1>10, <2>1, ConfigAssumption
    DEF TypeOK, FatalFailure, ControlInv, Sources, Ended, Running, BeforeWrite,
        InAttempt, Loaded, RowsOf, PiecesOf
  <2> QED
    BY <2>1, <2>2
<1>11. ASSUME SaveLineage PROVE Control'
  <2>1. TypeOK'
    BY <1>11, ConfigAssumption DEF TypeOK, SaveLineage, Sources, Ended, Loaded
  <2>2. ControlInv'
    BY <1>11, <2>1, ConfigAssumption
    DEF TypeOK, SaveLineage, ControlInv, Sources, Ended, Running, BeforeWrite,
        InAttempt, Loaded, RowsOf, PiecesOf
  <2> QED
    BY <2>1, <2>2
<1>12. CASE UNCHANGED vars
  BY <1>12
  DEF TypeOK, ControlInv, Sources, Ended, Running, BeforeWrite, InAttempt,
      Loaded, RowsOf, PiecesOf
<1> QED
  BY <1>1, <1>2, <1>3, <1>4, <1>5, <1>6, <1>7, <1>8, <1>9, <1>10, <1>11,
     <1>12
  DEF Next, Progress, Write

\* The invariance of the control layer, and type correctness with it.
LEMMA ControlAlways == Spec => []Control
  BY InitControl, ControlStep, PTL DEF Spec

\* The state stays within its types for every set of rows, every max_retries and
\* any number of runs; no target is attempted more than max_retries + 1 times.
THEOREM TypeCorrect == Spec => []TypeOK
<1>1. Control => TypeOK
  BY DEF Control
<1> QED
  BY <1>1, ControlAlways, PTL

-----------------------------------------------------------------------------
\* The null ratio of a source depends on its frame only.
LEMMA NullRatioFrame ==
  ASSUME NEW s \in Sources, frames'[s] = frames[s]
  PROVE  NullRatioOk(s)' <=> NullRatioOk(s)
BY DEF NullRatioOk

\* The initial states satisfy the guard layer.
LEMMA InitGuarded == Init => GuardedInv
BY DEF Init, GuardedInv, RawZoneIsPrivate, NoFrames, Running, BeforeWrite

\* Every step preserves what the gates have established.
LEMMA GuardedStep == Control /\ GuardedInv /\ [Next]_vars => GuardedInv'
<1> SUFFICES ASSUME Control, GuardedInv, [Next]_vars PROVE GuardedInv'
  OBVIOUS
<1> USE DEF vars, run_vars, write_vars, zone_vars, history_vars
<1>1. ASSUME NEW m \in {"initial", "daily"}, NEW img \in Schemas, Start(m, img)
      PROVE  GuardedInv'
  BY <1>1 DEF GuardedInv, Start, RawZoneIsPrivate, Running, BeforeWrite
<1>2. ASSUME NEW found \in SUBSET Rows, ReadSources(found)
      PROVE  GuardedInv'
  BY <1>2 DEF GuardedInv, ReadSources, RawZoneIsPrivate, Running, BeforeWrite
<1>3. ASSUME ValidateSources PROVE GuardedInv'
  <2>1. CASE pc' = "failed"
    BY <1>3, <2>1 DEF GuardedInv, ValidateSources, RawZoneIsPrivate, Running
  <2>2. CASE pc' = "privacy"
    <3>1. /\ pc = "validation" /\ frames = intake /\ intake' = intake
          /\ \A s \in Loaded \cap Mandatory : Valid(s)
          /\ frames' = [s \in Sources |->
                         IF s \in Loaded /\ Valid(s) THEN frames[s] ELSE {}]
      BY <1>3, <2>2 DEF ValidateSources, GuardedInv
    <3>2. ASSUME NEW s \in Sources, s \in Loaded' PROVE NullRatioOk(s)'
      <4>1. s \in Loaded /\ Valid(s) /\ frames'[s] = frames[s]
        BY <3>1, <3>2 DEF Loaded
      <4> QED
        BY <4>1, NullRatioFrame DEF Valid
    <3>3. frames'["kt4"] = intake'["kt4"]
      BY <3>1 DEF Mandatory, Loaded, Sources
    <3> QED
      BY <1>3, <2>2, <3>2, <3>3
      DEF GuardedInv, ValidateSources, RawZoneIsPrivate, Running, BeforeWrite,
          Loaded
  <2> QED
    BY <1>3, <2>1, <2>2 DEF ValidateSources
<1>4. ASSUME UNCHANGED <<frames, intake>>, pc \in Running \ {"intake", "validation"}
      PROVE  /\ \A s \in Loaded' : NullRatioOk(s)'
             /\ frames'["kt4"] = intake'["kt4"]
  BY <1>4, NullRatioFrame DEF GuardedInv, Loaded
<1>5. ASSUME GuardPrivacy PROVE GuardedInv'
  BY <1>4, <1>5, ConfigAssumption
  DEF GuardedInv, GuardPrivacy, PiiFound, RawZoneIsPrivate, Control, TypeOK,
      Running, BeforeWrite, Loaded
<1>6. ASSUME NEW s \in Sources, BeginWrite(s) PROVE GuardedInv'
  BY <1>4, <1>6
  DEF GuardedInv, BeginWrite, RawZoneIsPrivate, Running, BeforeWrite, Loaded
<1>7. ASSUME StartJob PROVE GuardedInv'
  BY <1>4, <1>7
  DEF GuardedInv, StartJob, RawZoneIsPrivate, Running, BeforeWrite, Loaded
<1>8. ASSUME NEW p \in pending, PublishPiece(p) PROVE GuardedInv'
  <2>1. target \in Loaded
    BY <1>8 DEF PublishPiece, Control, ControlInv, InAttempt
  <2>2. RawZoneIsPrivate'
    BY <1>8, <2>1
    DEF PublishPiece, RawZoneIsPrivate, GuardedInv, Control, TypeOK, Running,
        BeforeWrite
  <2> QED
    BY <1>4, <1>8, <2>2
    DEF GuardedInv, PublishPiece, Running, BeforeWrite, Loaded
<1>9. ASSUME FinishWrite PROVE GuardedInv'
  BY <1>4, <1>9
  DEF GuardedInv, FinishWrite, RawZoneIsPrivate, Running, BeforeWrite, Loaded
<1>10. ASSUME TransientFailure PROVE GuardedInv'
  BY <1>4, <1>10
  DEF GuardedInv, TransientFailure, RawZoneIsPrivate, Running, BeforeWrite, Loaded
<1>11. ASSUME FatalFailure \/ SaveLineage PROVE GuardedInv'
  BY <1>11
  DEF GuardedInv, FatalFailure, SaveLineage, RawZoneIsPrivate, Running
<1>12. CASE UNCHANGED vars
  BY <1>4, <1>12 DEF GuardedInv, RawZoneIsPrivate, Running, BeforeWrite, Loaded
<1> QED
  BY <1>1, <1>2, <1>3, <1>5, <1>6, <1>7, <1>8, <1>9, <1>10, <1>11, <1>12
  DEF Next, Progress, Write

LEMMA GuardedAlways == Spec => [](Control /\ GuardedInv)
  BY InitGuarded, GuardedStep, ControlAlways, PTL DEF Spec

\* Under a strict scan no flagged column reaches the raw zone, whatever schemas
\* the images of successive runs carry.
THEOREM PrivacyHolds == Spec => []RawZoneIsPrivate
<1>1. GuardedInv => RawZoneIsPrivate
  BY DEF GuardedInv
<1> QED
  BY <1>1, GuardedAlways, PTL

\* Only StartJob and PublishPiece touch the raw zone.
LEMMA OnlyWritesChangeRaw ==
  ASSUME Next, raw' # raw
  PROVE  pc \in InAttempt
BY DEF Next, Progress, Write, Start, ReadSources, ValidateSources, GuardPrivacy,
       BeginWrite, StartJob, PublishPiece, FinishWrite, TransientFailure,
       FatalFailure, SaveLineage, zone_vars, InAttempt

\* The raw zone changes only in runs all of whose frames passed validation, with
\* kt4 as it was read.
THEOREM ValidationPrecedesWrites == Spec => NothingUnvalidatedIsWritten
<1>1. ASSUME GuardedInv, Next
      PROVE  raw' # raw => /\ \A s \in Loaded : NullRatioOk(s)
                           /\ frames["kt4"] = intake["kt4"]
  BY <1>1, OnlyWritesChangeRaw DEF GuardedInv, InAttempt, Running
<1>2. ASSUME GuardedInv, UNCHANGED vars
      PROVE  raw' # raw => /\ \A s \in Loaded : NullRatioOk(s)
                           /\ frames["kt4"] = intake["kt4"]
  BY <1>2 DEF vars, zone_vars
<1> QED
  BY <1>1, <1>2, GuardedAlways, PTL DEF Spec, NothingUnvalidatedIsWritten

-----------------------------------------------------------------------------
\* A row of the raw zone belongs to one of the sources.
LEMMA RowSource == \A r \in Rows : r.source \in Sources
  BY RowsAssumption

\* The initial states satisfy the copies layer.
LEMMA InitCopies == Init => CopiesInv
BY RowSource
DEF Init, CopiesInv, ExactInv, DailyInv, UntouchedInv, InitialLoadIsExact,
    DailyAppendsPerAttempt, SkippedDataIsUntouched, InFrame, NoFrames

\* A step that leaves the raw zone and the frames alone, and ends up outside the
\* attempt of a write, preserves the copies layer.
LEMMA CopiesFrame ==
  ASSUME CopiesInv,
         UNCHANGED <<mode, frames, written, tries, raw, before>>,
         pc' \notin BeforeWrite \cup InAttempt
  PROVE  CopiesInv'
BY DEF CopiesInv, ExactInv, DailyInv, UntouchedInv, InitialLoadIsExact,
       DailyAppendsPerAttempt, SkippedDataIsUntouched, InFrame, RowsOf, PiecesOf,
       BeforeWrite, InAttempt

\* Every step before the first write preserves the copies layer.
LEMMA CopiesBeforeWrite ==
  ASSUME Control, CopiesInv,
         \/ \E m \in {"initial", "daily"}, img \in Schemas : Start(m, img)
         \/ \E found \in SUBSET Rows : ReadSources(found)
         \/ ValidateSources
         \/ GuardPrivacy
  PROVE  CopiesInv'
<1>1. /\ raw' \in [Rows -> Nat] /\ raw' = before' /\ written' = {}
      /\ pc' \notin InAttempt
      /\ \A s \in Sources : tries'[s] = 0
  BY DEF Start, ReadSources, ValidateSources, GuardPrivacy, Control, ControlInv,
         TypeOK, CopiesInv, UntouchedInv, BeforeWrite, InAttempt, write_vars,
         zone_vars, history_vars
<1> QED
  BY <1>1, RowSource
  DEF CopiesInv, ExactInv, DailyInv, UntouchedInv, InitialLoadIsExact,
      DailyAppendsPerAttempt, SkippedDataIsUntouched, InAttempt

\* convert_to_parquet is called: one more attempt, nothing written yet.
LEMMA CopiesBeginWrite ==
  ASSUME Control, CopiesInv, NEW s \in Sources, BeginWrite(s)
  PROVE  CopiesInv'
<1> USE DEF BeginWrite, run_vars, zone_vars, history_vars
<1>1. ExactInv'
  BY DEF CopiesInv, ExactInv, InitialLoadIsExact, InFrame, RowsOf, PiecesOf
<1>2. DailyInv'
  BY RowSource
  DEF CopiesInv, DailyInv, DailyAppendsPerAttempt, InFrame, Turn, Control,
      ControlInv, TypeOK, RowsOf
<1>3. UntouchedInv'
  BY DEF CopiesInv, UntouchedInv, SkippedDataIsUntouched, PiecesOf, BeforeWrite
<1> QED
  BY <1>1, <1>2, <1>3 DEF CopiesInv

\* The job starts: a static overwrite empties the target it is about to fill.
LEMMA CopiesStartJob == ASSUME Control, CopiesInv, StartJob PROVE CopiesInv'
<1> USE DEF StartJob, run_vars, history_vars
<1>1. target \in Loaded \ written
  BY DEF Control, ControlInv, InAttempt
<1>2. ExactInv'
  BY <1>1
  DEF CopiesInv, ExactInv, InitialLoadIsExact, InFrame, RowsOf, PiecesOf,
      StaticOverwrite, Overwrites, Control, TypeOK
<1>3. DailyInv'
  BY <1>1
  DEF CopiesInv, DailyInv, DailyAppendsPerAttempt, InFrame, PiecesOf,
      StaticOverwrite, Overwrites, Control, ControlInv, TypeOK, RowsOf
<1>4. UntouchedInv'
  BY <1>1
  DEF CopiesInv, UntouchedInv, SkippedDataIsUntouched, PiecesOf, BeforeWrite,
      StaticOverwrite, Loaded, Control, TypeOK
<1> QED
  BY <1>2, <1>3, <1>4 DEF CopiesInv

\* One piece is put into place.
LEMMA CopiesPublishPiece ==
  ASSUME Control, CopiesInv, NEW p \in pending, PublishPiece(p)
  PROVE  CopiesInv'
<1> USE DEF PublishPiece, run_vars, history_vars
<1>1. target \in Loaded \ written /\ pending \subseteq PiecesOf(target)
  BY DEF Control, ControlInv, InAttempt
<1>2. ExactInv'
  BY <1>1
  DEF CopiesInv, ExactInv, InitialLoadIsExact, InFrame, RowsOf, PiecesOf,
      Overwrites, Control, TypeOK
<1>3. DailyInv'
  BY <1>1, RowSource
  DEF CopiesInv, DailyInv, DailyAppendsPerAttempt, InFrame, PiecesOf,
      Overwrites, Control, ControlInv, TypeOK, RowsOf
<1>4. UntouchedInv'
  BY <1>1
  DEF CopiesInv, UntouchedInv, SkippedDataIsUntouched, PiecesOf, BeforeWrite,
      Loaded, Control, TypeOK
<1> QED
  BY <1>2, <1>3, <1>4 DEF CopiesInv

\* The write returns: everything pending has been put into place.
LEMMA CopiesFinishWrite ==
  ASSUME Control, CopiesInv, FinishWrite
  PROVE  CopiesInv'
<1> USE DEF FinishWrite, run_vars, zone_vars, history_vars
<1>1. target \in Loaded \ written
  BY DEF Control, ControlInv, InAttempt
<1>2. ExactInv'
  BY <1>1, RowSource
  DEF CopiesInv, ExactInv, InitialLoadIsExact, InFrame, RowsOf, PiecesOf,
      Control, TypeOK
<1>3. DailyInv'
  BY <1>1, RowSource
  DEF CopiesInv, DailyInv, DailyAppendsPerAttempt, InFrame, Control, ControlInv,
      TypeOK, RowsOf
<1>4. UntouchedInv'
  BY DEF CopiesInv, UntouchedInv, SkippedDataIsUntouched, PiecesOf, BeforeWrite
<1> QED
  BY <1>2, <1>3, <1>4 DEF CopiesInv

\* Every step preserves the copies layer.
LEMMA CopiesStep == Control /\ CopiesInv /\ [Next]_vars => CopiesInv'
<1> SUFFICES ASSUME Control, CopiesInv, [Next]_vars PROVE CopiesInv'
  OBVIOUS
<1>1. ASSUME TransientFailure \/ FatalFailure \/ SaveLineage
      PROVE  CopiesInv'
  BY <1>1, CopiesFrame
  DEF TransientFailure, FatalFailure, SaveLineage, run_vars, write_vars,
      zone_vars, history_vars, BeforeWrite, InAttempt
<1>2. CASE UNCHANGED vars
  BY <1>2
  DEF vars, run_vars, write_vars, zone_vars, history_vars, CopiesInv, ExactInv,
      DailyInv, UntouchedInv, InitialLoadIsExact, DailyAppendsPerAttempt,
      SkippedDataIsUntouched, InFrame, RowsOf, PiecesOf
<1> QED
  BY <1>1, <1>2, CopiesBeforeWrite, CopiesBeginWrite, CopiesStartJob,
     CopiesPublishPiece, CopiesFinishWrite
  DEF Next, Progress, Write

LEMMA IInvAlways == Spec => []IInv
<1>1. Control /\ GuardedInv /\ CopiesInv => IInv
  BY DEF IInv
<1> QED
  BY <1>1, InitCopies, CopiesStep, ControlAlways, GuardedAlways, PTL DEF Spec

\* In initial mode a written target holds exactly the frame, for every number of
\* failed attempts and whatever the raw zone held before.
THEOREM InitialLoadExact == Spec => []InitialLoadIsExact
<1>1. IInv => InitialLoadIsExact
  BY DEF IInv, CopiesInv, ExactInv, InitialLoadIsExact
<1> QED
  BY <1>1, IInvAlways, PTL

\* In daily mode a row gains at most one copy per attempt and none is lost.
THEOREM DailyBounded == Spec => []DailyAppendsPerAttempt
<1>1. IInv => DailyAppendsPerAttempt
  BY DEF IInv, CopiesInv, DailyInv, DailyAppendsPerAttempt
<1> QED
  BY <1>1, IInvAlways, PTL

\* What a run does not write keeps its contents, however the run ends.
THEOREM SkippedUntouched == Spec => []SkippedDataIsUntouched
<1>1. IInv => SkippedDataIsUntouched
  BY DEF IInv, CopiesInv, UntouchedInv
<1> QED
  BY <1>1, IInvAlways, PTL

\* A success record is truthful: each target it names holds every row of the
\* frame it was written from.
THEOREM LineageTruthful == Spec => []LineageIsTruthful
<1>1. ASSUME IInv, NEW rec \in lineage, NEW s \in rec.targets
      PROVE  frames[s] # {} /\ \A r \in frames[s] : raw[r] >= 1
  <2>1. /\ s \in Sources /\ frames[s] # {} /\ s \in written
        /\ frames[s] \subseteq RowsOf(s)
    BY <1>1 DEF IInv, Control, ControlInv, Loaded
  <2>2. CASE mode = "initial"
    BY <1>1, <2>1, <2>2
    DEF IInv, CopiesInv, ExactInv, InitialLoadIsExact, RowsOf, PiecesOf, InFrame
  <2>3. CASE mode = "daily"
    BY <1>1, <2>1, <2>3
    DEF IInv, CopiesInv, DailyInv, DailyAppendsPerAttempt, RowsOf, InFrame,
        Control, TypeOK
  <2> QED
    BY <1>1, <2>1, <2>2, <2>3 DEF IInv, Control, TypeOK
<1>2. IInv => LineageIsTruthful
  BY <1>1 DEF LineageIsTruthful
<1> QED
  BY <1>2, IInvAlways, PTL

-----------------------------------------------------------------------------
\* SourceFiles' type invariant with what a step needs to know of the loops: a
\* manifest under construction is of the source the loop has come to.
FilesTyped ==
  /\ FilesTypeOK
  /\ DOMAIN manifests = SourceKeys /\ DOMAIN dataframes = SourceKeys
  /\ unhashed \subseteq FilesOf[s0]
  /\ \A f \in DOMAIN digests : digests[f] \in Versions
  /\ step # "hash" => unhashed = {} /\ DOMAIN digests = {}

-----------------------------------------------------------------------------
\* The loops' index stays in Order, and what it points at is a configured source.
LEMMA OrderFacts ==
  /\ Len(Order) \in Nat /\ DOMAIN Order = 1 .. Len(Order) /\ 1 \in DOMAIN Order
  /\ \A i \in DOMAIN Order : Order[i] \in SourceKeys
  /\ \A s \in SourceKeys : FilesOf[s] \subseteq Files
BY SourcesAssumption DEF SourceKeys, Files

LEMMA NextSourceType ==
  ASSUME turn \in DOMAIN Order, NextSource
  PROVE  /\ turn' \in DOMAIN Order /\ step' \in {"checksum", "intake"}
         /\ unhashed' = {} /\ DOMAIN digests' = {}
BY OrderFacts DEF NextSource, NoDigest

LEMMA NextReadType ==
  ASSUME turn \in DOMAIN Order, step = "intake", NextRead
  PROVE  turn' \in DOMAIN Order /\ step' \in {"intake", "failed", "write"}
BY OrderFacts DEF NextRead

LEMMA InitFiles ==
  ASSUME FilesInit
  PROVE  FilesTyped
<1>1. (CHOOSE v \in Versions : TRUE) \in Versions
  BY VersionsAssumption
<1>2. content \in [Files -> {0} \cup Versions]
  BY <1>1 DEF FilesInit
<1> QED BY <1>2, OrderFacts
        DEF FilesInit, FilesTyped, FilesTypeOK, NoVersion, NoDigest

LEMMA StepFiles ==
  ASSUME FilesTyped, [FilesNext]_file_vars
  PROVE  FilesTyped'
<1> USE DEF FilesTyped, FilesTypeOK
<1>1. ASSUME NEW f \in Files, NEW v \in {0} \cup Versions, Edit(f, v)
      PROVE  FilesTyped'
  BY <1>1 DEF Edit, check_vars, read_vars, s0
<1>2. ASSUME NEW m \in {"initial", "daily"}, StartRun(m)
      PROVE  FilesTyped'
  BY <1>2, OrderFacts DEF StartRun, change_vars, NoVersion, s0
<1>3. CASE BeginSource
  <2>1. /\ s0 \in SourceKeys /\ FilesOf[s0] \subseteq Files
    BY OrderFacts DEF s0
  <2>2. CASE LogFailure("failed")
    BY <1>3, <2>1, <2>2, NextSourceType DEF BeginSource, LogFailure, read_vars
  <2>3. CASE /\ step' = "hash" /\ unhashed' = FilesUnder(s0)
             /\ UNCHANGED <<turn, digests, verdict>>
    <3>1. unhashed' \subseteq FilesOf[s0] /\ s0' = s0
      BY <2>3 DEF FilesUnder, s0
    <3> QED BY <1>3, <2>1, <2>3, <3>1 DEF BeginSource, read_vars
  <2> QED BY <1>3, <2>2, <2>3 DEF BeginSource
<1>4. ASSUME NEW f \in unhashed, HashFile(f)
      PROVE  FilesTyped'
  <2>1. f \in FilesOf[s0] /\ content[f] \in {0} \cup Versions /\ s0' = s0
    BY <1>4, OrderFacts DEF HashFile, s0
  <2>2. /\ DOMAIN digests' \subseteq FilesOf[s0]
        /\ \A g \in DOMAIN digests' : digests'[g] \in Versions
    BY <1>4, <2>1 DEF HashFile
  <2> QED BY <1>4, <2>1, <2>2 DEF HashFile, read_vars
<1>5. CASE SaveManifest
  <2>1. s0 \in SourceKeys
    BY OrderFacts DEF s0
  <2> QED BY <1>5, <2>1, NextSourceType, OrderFacts DEF SaveManifest, read_vars
<1>6. CASE Verify
  BY <1>6, NextSourceType DEF Verify, LogFailure, read_vars, change_vars
<1>7. CASE CheckFails
  BY <1>7, NextSourceType DEF CheckFails, LogFailure, read_vars, change_vars
<1>8. CASE ReadSource
  <2>1. s0 \in SourceKeys /\ \A s \in SourceKeys : dataframes'[s] \subseteq FilesOf[s]
    BY <1>8, OrderFacts DEF ReadSource, s0
  <2> QED BY <1>8, <2>1, NextReadType DEF ReadSource, check_vars, change_vars
<1>9. CASE ReadFails
  BY <1>9, NextReadType DEF ReadFails, check_vars, change_vars
<1>10. CASE FileVanished
  BY <1>10 DEF FileVanished, check_vars, read_vars, change_vars, s0
<1>11. ASSUME NEW f \in Listed, WriteFile(f)
       PROVE  FilesTyped'
  BY <1>11 DEF WriteFile, check_vars, s0
<1>12. CASE CountTargets
  BY <1>12 DEF CountTargets, check_vars, change_vars, s0
<1>13. CASE UNCHANGED file_vars
  BY <1>13 DEF file_vars, check_vars, read_vars, change_vars, s0
<1> QED BY <1>1, <1>2, <1>3, <1>4, <1>5, <1>6, <1>7, <1>8, <1>9, <1>10, <1>11,
           <1>12, <1>13
        DEF FilesNext, FilesProgress

-----------------------------------------------------------------------------
\* While a source is hashed, what the manifest under construction says of its files
\* that nobody has touched since; of a single-file source it says nothing.
HashesAreCurrent ==
  /\ unhashed \cap DOMAIN digests = {}
  /\ \A f \in DOMAIN digests \ touched : digests[f] = content[f]
  /\ step = "hash" /\ s0 \in Directories =>
       \A f \in FilesOf[s0] \ (touched \cup unhashed) :
         content[f] # 0 => f \in DOMAIN digests
  /\ step = "hash" /\ s0 \notin Directories =>
       /\ unhashed = {} /\ DOMAIN digests = {}
       /\ \A f \in FilesOf[s0] \ touched : content[f] # 0

\* What a saved manifest says of the files nobody has altered since.
ManifestsAreKept ==
  /\ touched \subseteq altered
  /\ \A s \in SourceKeys : \A m \in manifests[s] :
       /\ \A f \in DOMAIN m \ altered : m[f] = content[f]
       /\ s \notin Directories =>
            DOMAIN m = {} /\ \A f \in FilesOf[s] \ altered : content[f] # 0

LEMMA Disjoint ==
  ASSUME NEW s \in SourceKeys, NEW t \in SourceKeys, s # t,
         NEW f \in FilesOf[s]
  PROVE  f \notin FilesOf[t]
BY SourcesAssumption

LEMMA StepHashes ==
  ASSUME FilesTyped, HashesAreCurrent, [FilesNext]_file_vars
  PROVE  HashesAreCurrent'
<1> USE DEF HashesAreCurrent
<1>1. ASSUME NEW f \in Files, NEW v \in {0} \cup Versions, Edit(f, v)
      PROVE  HashesAreCurrent'
  <2>1. \A g \in Files \ {f} : content'[g] = content[g]
    BY <1>1 DEF Edit, FilesTyped, FilesTypeOK
  <2>2. /\ s0' = s0 /\ FilesOf[s0] \subseteq Files
        /\ DOMAIN digests \subseteq FilesOf[s0]
    BY <1>1, OrderFacts DEF Edit, s0, FilesTyped, FilesTypeOK
  <2> QED BY <1>1, <2>1, <2>2 DEF Edit, check_vars
<1>2. CASE step' # "hash" /\ DOMAIN digests' = {}
  BY <1>2
<1>3. CASE UNCHANGED <<content, step, turn, unhashed, digests, touched>>
  BY <1>3 DEF s0
<1>4. CASE BeginSource /\ step' = "hash"
  <2>1. /\ unhashed' = FilesUnder(s0) /\ UNCHANGED <<turn, digests, content>>
        /\ Exists(s0) /\ step = "checksum" /\ touched' = touched \ FilesOf[s0]
    BY <1>4 DEF BeginSource, LogFailure, NextSource
  <2>2. DOMAIN digests = {} /\ s0' = s0 /\ s0 \in SourceKeys
    BY <2>1, OrderFacts DEF FilesTyped, FilesTypeOK, s0
  <2>3. CASE s0 \in Directories
    BY <2>1, <2>2, <2>3 DEF FilesUnder
  <2>4. CASE s0 \notin Directories
    <3>1. PICK f \in FilesOf[s0] : FilesOf[s0] = {f}
      BY <2>2, <2>4, SourcesAssumption
    <3>2. content[f] # 0
      BY <2>1, <2>4, <3>1 DEF Exists
    <3> QED BY <2>1, <2>2, <2>4, <3>1, <3>2 DEF FilesUnder
  <2> QED BY <2>3, <2>4
<1>5. ASSUME NEW f \in unhashed, HashFile(f)
      PROVE  HashesAreCurrent'
  <2>1. f \in FilesOf[s0] /\ s0' = s0 /\ UNCHANGED content
    BY <1>5 DEF HashFile, FilesTyped, s0
  <2>2. CASE content[f] = 0
    BY <1>5, <2>1, <2>2 DEF HashFile
  <2>3. CASE content[f] # 0
    BY <1>5, <2>1, <2>3 DEF HashFile
  <2> QED BY <2>2, <2>3
<1>6. CASE SaveManifest \/ Verify \/ CheckFails \/ (BeginSource /\ step' # "hash")
  <2>1. NextSource
    BY <1>6 DEF SaveManifest, Verify, CheckFails, BeginSource, LogFailure
  <2> QED BY <1>2, <2>1, NextSourceType DEF FilesTyped, FilesTypeOK
<1>7. ASSUME NEW m \in {"initial", "daily"}, StartRun(m)
      PROVE  HashesAreCurrent'
  BY <1>2, <1>7 DEF StartRun, FilesTyped
<1>8. CASE ReadSource \/ ReadFails
  <2>1. DOMAIN digests' = {} /\ step' # "hash"
    BY <1>8, NextReadType
    DEF ReadSource, ReadFails, check_vars, FilesTyped, FilesTypeOK
  <2> QED BY <1>2, <2>1
<1>9. CASE FileVanished \/ CountTargets \/ \E f \in Listed : WriteFile(f)
  <2>1. DOMAIN digests' = {} /\ step' # "hash"
    BY <1>9 DEF FileVanished, CountTargets, WriteFile, check_vars, FilesTyped
  <2> QED BY <1>2, <2>1
<1>10. CASE UNCHANGED file_vars
  BY <1>3, <1>10 DEF file_vars, check_vars, change_vars
<1> QED BY <1>1, <1>4, <1>5, <1>6, <1>7, <1>8, <1>9, <1>10
        DEF FilesNext, FilesProgress

LEMMA StepManifests ==
  ASSUME FilesTyped, HashesAreCurrent, ManifestsAreKept, [FilesNext]_file_vars
  PROVE  ManifestsAreKept'
<1> USE DEF ManifestsAreKept
<1>1. ASSUME NEW f \in Files, NEW v \in {0} \cup Versions, Edit(f, v)
      PROVE  ManifestsAreKept'
  <2>1. \A g \in Files \ {f} : content'[g] = content[g]
    BY <1>1 DEF Edit, FilesTyped, FilesTypeOK
  <2>2. \A s \in SourceKeys : FilesOf[s] \subseteq Files
    BY OrderFacts
  <2>3. \A s \in SourceKeys : \A m \in manifests[s] : DOMAIN m \subseteq FilesOf[s]
    BY DEF FilesTyped, FilesTypeOK
  <2> QED BY <1>1, <2>1, <2>2, <2>3 DEF Edit
<1>2. CASE UNCHANGED <<content, manifests, altered>> /\ touched' \subseteq touched
  BY <1>2
<1>3. ASSUME NEW m \in {"initial", "daily"}, StartRun(m)
      PROVE  ManifestsAreKept'
  <2>1. UNCHANGED <<content, touched, altered>>
    BY <1>3 DEF StartRun, change_vars
  <2>2. \A s \in SourceKeys : manifests'[s] = manifests[s] \/ manifests'[s] = {}
    BY <1>3 DEF StartRun
  <2> QED BY <2>1, <2>2
<1>4. CASE BeginSource \/ \E f \in unhashed : HashFile(f)
  BY <1>2, <1>4 DEF BeginSource, HashFile
<1>5. CASE SaveManifest
  <2>1. /\ step = "hash" /\ unhashed = {} /\ UNCHANGED <<content, touched>>
        /\ manifests' = [manifests EXCEPT ![s0] = {digests}]
        /\ altered' = (altered \ FilesOf[s0]) \cup (touched \cap FilesOf[s0])
    BY <1>5 DEF SaveManifest
  <2>2. /\ s0 \in SourceKeys /\ DOMAIN manifests = SourceKeys
        /\ DOMAIN digests \subseteq FilesOf[s0]
    BY OrderFacts DEF FilesTyped, FilesTypeOK, s0
  <2>3. touched' \subseteq altered'
    BY <2>1
  <2>4. ASSUME NEW s \in SourceKeys, NEW m \in manifests'[s]
        PROVE  /\ \A f \in DOMAIN m \ altered' : m[f] = content'[f]
               /\ s \notin Directories =>
                    DOMAIN m = {} /\ \A f \in FilesOf[s] \ altered' : content'[f] # 0
    <3>1. CASE s = s0
      <4>1. m = digests
        BY <2>1, <2>2, <2>4, <3>1
      <4> QED BY <2>1, <2>2, <3>1, <4>1 DEF HashesAreCurrent
    <3>2. CASE s # s0
      <4>1. m \in manifests[s] /\ DOMAIN m \subseteq FilesOf[s]
        BY <2>1, <2>2, <2>4, <3>2 DEF FilesTyped, FilesTypeOK
      <4>2. \A f \in FilesOf[s] : f \in altered => f \in altered'
        BY <2>1, <2>2, <3>2, Disjoint
      <4> QED BY <2>1, <4>1, <4>2
    <3> QED BY <3>1, <3>2
  <2> QED BY <2>3, <2>4
<1>6. CASE CheckFails
  <2>1. \A s \in SourceKeys : manifests'[s] = manifests[s] \/ manifests'[s] = {}
    BY <1>6 DEF CheckFails, FilesTyped
  <2>2. UNCHANGED <<content, touched, altered>>
    BY <1>6 DEF CheckFails, change_vars
  <2> QED BY <2>1, <2>2
<1>7. CASE Verify \/ ReadSource \/ ReadFails \/ FileVanished \/ CountTargets
           \/ \E f \in Listed : WriteFile(f)
  BY <1>2, <1>7
  DEF Verify, ReadSource, ReadFails, FileVanished, CountTargets, WriteFile,
      change_vars
<1>8. CASE UNCHANGED file_vars
  BY <1>2, <1>8 DEF file_vars, change_vars
<1> QED BY <1>1, <1>3, <1>4, <1>5, <1>6, <1>7, <1>8 DEF FilesNext, FilesProgress

-----------------------------------------------------------------------------
\* The loop of the checks has no verdict on the sources it has still to come to.
NotYetJudged ==
  step \in {"checksum", "hash"} =>
    \A i \in DOMAIN Order : i >= turn => verdict[Order[i]] = "none"

\* What passed is as its manifest has it, as long as nobody touches it.
PassedAsSaved ==
  run_mode = "daily" =>
    \A s \in SourceKeys : verdict[s] = "passed" =>
      \A m \in manifests[s] : \A f \in DOMAIN m \ touched : m[f] = content[f]

\* A verdict is on the source the loop has come to, which then goes on.
LEMMA VerdictStep ==
  ASSUME FilesTyped, NotYetJudged, step \in {"checksum", "hash"},
         NextSource, NEW kind, verdict' = [verdict EXCEPT ![s0] = kind]
  PROVE  NotYetJudged'
<1>1. /\ Len(Order) \in Nat /\ turn \in 1 .. Len(Order)
      /\ DOMAIN Order = 1 .. Len(Order) /\ DOMAIN verdict = SourceKeys
  BY OrderFacts DEF FilesTyped, FilesTypeOK
<1>2. CASE turn < Len(Order)
  <2>1. turn' = turn + 1
    BY <1>2 DEF NextSource
  <2>2. ASSUME NEW i \in DOMAIN Order, i >= turn + 1
        PROVE  verdict'[Order[i]] = "none"
    <3>1. Order[i] # s0 /\ i >= turn /\ Order[i] \in SourceKeys
      BY <1>1, <2>2, OrderFacts, SourcesAssumption DEF s0
    <3> QED BY <1>1, <3>1 DEF NotYetJudged
  <2> QED BY <2>1, <2>2 DEF NotYetJudged
<1>3. CASE ~(turn < Len(Order))
  BY <1>3 DEF NextSource, NotYetJudged
<1> QED BY <1>2, <1>3

LEMMA StepJudged ==
  ASSUME FilesTyped, NotYetJudged, [FilesNext]_file_vars
  PROVE  NotYetJudged'
<1>1. CASE /\ UNCHANGED <<turn, verdict>>
           /\ step' \in {"checksum", "hash"} => step \in {"checksum", "hash"}
  BY <1>1 DEF NotYetJudged
<1>2. ASSUME NEW m \in {"initial", "daily"}, StartRun(m)
      PROVE  NotYetJudged'
  BY <1>2, OrderFacts DEF StartRun, NotYetJudged
<1>3. CASE BeginSource
  <2>1. CASE LogFailure("failed")
    BY <1>3, <2>1, VerdictStep DEF BeginSource, LogFailure
  <2>2. CASE UNCHANGED <<turn, verdict>>
    BY <1>1, <1>3, <2>2 DEF BeginSource
  <2> QED BY <1>3, <2>1, <2>2 DEF BeginSource
<1>4. CASE SaveManifest \/ Verify \/ CheckFails
  BY <1>4, VerdictStep DEF SaveManifest, Verify, CheckFails, LogFailure
<1>5. CASE ReadSource \/ ReadFails
  <2>1. step' \notin {"checksum", "hash"}
    BY <1>5, NextReadType DEF ReadSource, ReadFails, FilesTyped, FilesTypeOK
  <2> QED BY <2>1 DEF NotYetJudged
<1>6. CASE FileVanished \/ CountTargets \/ \E f \in Listed : WriteFile(f)
  BY <1>6 DEF FileVanished, CountTargets, WriteFile, NotYetJudged
<1>7. CASE \E f \in unhashed : HashFile(f)
  BY <1>1, <1>7 DEF HashFile
<1>8. CASE \E f \in Files, v \in {0} \cup Versions : Edit(f, v)
  BY <1>1, <1>8 DEF Edit, check_vars
<1>9. CASE UNCHANGED file_vars
  BY <1>1, <1>9 DEF file_vars, check_vars
<1> QED BY <1>2, <1>3, <1>4, <1>5, <1>6, <1>7, <1>8, <1>9
        DEF FilesNext, FilesProgress

LEMMA StepPassed ==
  ASSUME FilesTyped, HashesAreCurrent, NotYetJudged, PassedAsSaved,
         [FilesNext]_file_vars
  PROVE  PassedAsSaved'
<1> USE DEF PassedAsSaved
<1>1. CASE UNCHANGED <<content, manifests, run_mode, verdict, touched>>
  BY <1>1
<1>2. ASSUME NEW f \in Files, NEW v \in {0} \cup Versions, Edit(f, v)
      PROVE  PassedAsSaved'
  <2>1. \A g \in Files \ {f} : content'[g] = content[g]
    BY <1>2 DEF Edit, FilesTyped, FilesTypeOK
  <2>2. \A s \in SourceKeys : \A m \in manifests[s] : DOMAIN m \subseteq Files
    BY OrderFacts DEF FilesTyped, FilesTypeOK
  <2> QED BY <1>2, <2>1, <2>2 DEF Edit, check_vars
<1>3. ASSUME NEW m \in {"initial", "daily"}, StartRun(m)
      PROVE  PassedAsSaved'
  BY <1>3 DEF StartRun
<1>4. ASSUME /\ step \in {"checksum", "hash"} /\ UNCHANGED <<content, run_mode>>
             /\ verdict'[s0] # "passed"
             /\ \A s \in SourceKeys \ {s0} :
                  verdict'[s] = verdict[s] /\ manifests'[s] = manifests[s]
             /\ touched \ FilesOf[s0] \subseteq touched'
      PROVE  PassedAsSaved'
  <2> SUFFICES ASSUME run_mode = "daily", NEW s \in SourceKeys, verdict'[s] = "passed",
                      NEW m \in manifests'[s], NEW f \in DOMAIN m \ touched'
               PROVE  m[f] = content[f]
    BY <1>4
  <2>1. s # s0 /\ verdict[s] = "passed" /\ m \in manifests[s]
    BY <1>4
  <2>2. f \in FilesOf[s] /\ s0 \in SourceKeys
    BY <2>1, OrderFacts DEF FilesTyped, FilesTypeOK, s0
  <2>3. f \notin touched
    BY <1>4, <2>1, <2>2, Disjoint
  <2> QED BY <2>1, <2>3
<1>5. step \in {"checksum", "hash"} => verdict[s0] = "none"
  BY OrderFacts DEF NotYetJudged, FilesTyped, FilesTypeOK, s0
<1>6. s0 \in SourceKeys /\ DOMAIN verdict = SourceKeys /\ DOMAIN manifests = SourceKeys
  BY OrderFacts DEF FilesTyped, FilesTypeOK, s0
<1>7. CASE BeginSource
  BY <1>4, <1>5, <1>6, <1>7 DEF BeginSource, LogFailure
<1>8. ASSUME NEW f \in unhashed, HashFile(f)
      PROVE  PassedAsSaved'
  <2>1. f \in FilesOf[s0]
    BY DEF FilesTyped
  <2> QED BY <1>4, <1>5, <1>8, <2>1 DEF HashFile
<1>9. CASE SaveManifest \/ CheckFails
  BY <1>4, <1>6, <1>9 DEF SaveManifest, CheckFails, LogFailure, change_vars
<1>10. CASE Verify
  <2>1. CASE LogFailure("failed")
    BY <1>4, <1>6, <1>10, <2>1 DEF Verify, LogFailure, change_vars
  <2>2. CASE /\ \A m \in manifests[s0] : Matches(m)
             /\ verdict' = [verdict EXCEPT ![s0] = "passed"]
    <3>1. UNCHANGED <<content, manifests, run_mode, touched>>
      BY <1>10 DEF Verify, change_vars
    <3>2. \A m \in manifests[s0] : \A f \in DOMAIN m \ touched : m[f] = content[f]
      BY <2>2 DEF Matches, HashesAreCurrent
    <3> QED BY <1>6, <2>2, <3>1, <3>2
  <2> QED BY <1>10, <2>1, <2>2 DEF Verify
<1>11. CASE ReadSource \/ ReadFails \/ FileVanished \/ CountTargets
  BY <1>1, <1>11 DEF ReadSource, ReadFails, FileVanished, CountTargets, check_vars,
     change_vars
<1>12. CASE \E f \in Listed : WriteFile(f)
  BY <1>1, <1>12 DEF WriteFile, check_vars
<1>13. CASE UNCHANGED file_vars
  BY <1>1, <1>13 DEF file_vars, check_vars, change_vars
<1> QED BY <1>2, <1>3, <1>7, <1>8, <1>9, <1>10, <1>11, <1>12, <1>13
        DEF FilesNext, FilesProgress

LEMMA StepNoFalseAlarm ==
  ASSUME FilesTyped, HashesAreCurrent,
         ManifestsAreKept, NoFalseAlarm, [FilesNext]_file_vars
  PROVE  NoFalseAlarm'
<1> USE DEF NoFalseAlarm
<1>1. CASE /\ UNCHANGED <<manifests, run_mode>> /\ altered \subseteq altered'
           /\ \A s \in SourceKeys : verdict'[s] = "failed" => verdict[s] = "failed"
  BY <1>1 DEF Covered
<1>2. CASE run_mode' = "daily" => \A s \in SourceKeys : verdict'[s] # "failed"
  BY <1>2
<1>3. s0 \in SourceKeys /\ DOMAIN verdict = SourceKeys
  BY OrderFacts DEF FilesTyped, FilesTypeOK, s0
<1>4. ASSUME UNCHANGED <<manifests, run_mode, altered>>, LogFailure("failed"),
             run_mode = "daily" => manifests[s0] = {} \/ Covered(s0) \cap altered # {}
      PROVE  NoFalseAlarm'
  BY <1>3, <1>4 DEF LogFailure, Covered
<1>5. CASE BeginSource
  <2>1. UNCHANGED <<manifests, run_mode, altered>>
    BY <1>5 DEF BeginSource
  <2>2. CASE LogFailure("failed")
    <3> SUFFICES ASSUME run_mode = "daily", manifests[s0] # {}
                 PROVE  Covered(s0) \cap altered # {}
      BY <1>4, <2>1, <2>2
    <3>1. ~Exists(s0)
      BY <1>5, <2>2 DEF BeginSource, LogFailure, NextSource
    <3>2. s0 \notin Directories /\ \A f \in FilesOf[s0] : content[f] = 0
      BY <3>1 DEF Exists
    <3>3. PICK f \in FilesOf[s0] : TRUE
      BY <1>3, <3>2, SourcesAssumption
    <3>4. f \in altered
      BY <1>3, <3>2, <3>3 DEF ManifestsAreKept
    <3> QED BY <3>2, <3>4 DEF Covered
  <2>3. CASE UNCHANGED verdict
    BY <1>1, <2>1, <2>3
  <2> QED BY <1>5, <2>2, <2>3 DEF BeginSource
<1>6. CASE Verify
  <2>1. UNCHANGED <<manifests, run_mode, altered>>
    BY <1>6 DEF Verify, change_vars
  <2>2. CASE \A m \in manifests[s0] : Matches(m)
    <3>1. verdict' = [verdict EXCEPT ![s0] = "passed"]
      BY <1>6, <2>2 DEF Verify
    <3> QED BY <1>1, <1>3, <2>1, <3>1
  <2>3. CASE ~ \A m \in manifests[s0] : Matches(m)
    <3>0. PICK m \in manifests[s0] : ~Matches(m)
      BY <2>3
    <3>1. PICK f \in DOMAIN m : ~(f \in DOMAIN digests /\ digests[f] = m[f])
      BY <3>0 DEF Matches
    <3>2. f \in FilesOf[s0] /\ m[f] # 0
      BY <1>3, <3>1, VersionsAssumption DEF FilesTyped, FilesTypeOK
    <3>3. s0 \in Directories
      BY <1>3, <3>1 DEF ManifestsAreKept
    <3>4. f \in altered
      <4> SUFFICES ASSUME f \notin altered
                   PROVE  FALSE
        OBVIOUS
      <4>1. m[f] = content[f] /\ f \notin touched
        BY <1>3, <3>1 DEF ManifestsAreKept
      <4>2. step = "hash" /\ unhashed = {}
        BY <1>6 DEF Verify
      <4> QED BY <3>1, <3>2, <3>3, <4>1, <4>2 DEF HashesAreCurrent
    <3>5. Covered(s0) \cap altered # {}
      BY <3>1, <3>3, <3>4 DEF Covered
    <3>6. LogFailure("failed")
      BY <1>6, <2>3 DEF Verify
    <3> QED BY <1>4, <2>1, <3>5, <3>6
  <2> QED BY <2>2, <2>3
<1>7. CASE SaveManifest
  <2>1. run_mode' # "daily"
    BY <1>7 DEF SaveManifest
  <2> QED BY <2>1
<1>8. CASE CheckFails
  <2>1. /\ UNCHANGED <<run_mode, altered>>
        /\ verdict' = [verdict EXCEPT ![s0] = "error"]
        /\ run_mode = "daily" => manifests' = [manifests EXCEPT ![s0] = manifests[s0]]
    BY <1>8 DEF CheckFails, LogFailure, change_vars
  <2>2. run_mode = "daily" => \A s \in SourceKeys : manifests'[s] = manifests[s]
    BY <2>1 DEF FilesTyped
  <2> QED BY <1>3, <2>1, <2>2 DEF Covered
<1>9. CASE \E m \in {"initial", "daily"} : StartRun(m)
  BY <1>9 DEF StartRun
<1>10. CASE \E f \in Files, v \in {0} \cup Versions : Edit(f, v)
  BY <1>1, <1>10 DEF Edit, check_vars
<1>11. CASE \E f \in unhashed : HashFile(f)
  BY <1>1, <1>11 DEF HashFile
<1>12. CASE ReadSource \/ ReadFails \/ FileVanished \/ CountTargets
  BY <1>1, <1>12 DEF ReadSource, ReadFails, FileVanished, CountTargets, check_vars,
     change_vars
<1>13. CASE \E f \in Listed : WriteFile(f)
  BY <1>1, <1>13 DEF WriteFile, check_vars
<1>14. CASE UNCHANGED file_vars
  BY <1>1, <1>14 DEF file_vars, check_vars, change_vars
<1> QED BY <1>5, <1>6, <1>7, <1>8, <1>9, <1>10, <1>11, <1>12, <1>13, <1>14
        DEF FilesNext, FilesProgress

-----------------------------------------------------------------------------
\* What has been written is of the files of the frames, as they are unless somebody
\* has changed them since; the count begins when all of them are written.
WritesAreOfFrames ==
  /\ step \in {"idle", "checksum", "hash", "intake"} =>
       \A f \in Files : parquet[f] = 0
  /\ \A f \in Files : parquet[f] # 0 =>
       /\ f \in Listed
       /\ f \notin touched => parquet[f] = content[f]
       /\ f \notin moved => parquet[f] = content[f]
  /\ step = "count" => \A f \in Listed : parquet[f] # 0

LEMMA StepWrites ==
  ASSUME FilesTyped, WritesAreOfFrames, [FilesNext]_file_vars
  PROVE  WritesAreOfFrames'
<1> USE DEF WritesAreOfFrames
<1>1. CASE step' # "count" /\ \A f \in Files : parquet'[f] = 0
  BY <1>1
<1>2. ASSUME step \in {"idle", "checksum", "hash", "intake"},
             UNCHANGED parquet, step' # "count"
      PROVE  WritesAreOfFrames'
  BY <1>2
<1>3. ASSUME NEW f \in Files, NEW v \in {0} \cup Versions, Edit(f, v)
      PROVE  WritesAreOfFrames'
  <2>1. \A g \in Files \ {f} : content'[g] = content[g]
    BY <1>3 DEF Edit, FilesTyped, FilesTypeOK
  <2>2. UNCHANGED <<step, parquet, Listed>>
    BY <1>3 DEF Edit, read_vars, Listed
  <2> QED BY <1>3, <2>1, <2>2 DEF Edit
<1>4. CASE \E m \in {"initial", "daily"} : StartRun(m)
  BY <1>4 DEF StartRun, NoVersion
<1>5. CASE BeginSource \/ SaveManifest \/ Verify \/ CheckFails
  BY <1>2, <1>5, NextSourceType
  DEF BeginSource, SaveManifest, Verify, CheckFails, LogFailure, read_vars,
      FilesTyped, FilesTypeOK
<1>6. CASE \E f \in unhashed : HashFile(f)
  BY <1>2, <1>6 DEF HashFile, read_vars
<1>7. CASE ReadSource \/ ReadFails
  <2>1. step = "intake" /\ step' # "count" /\ UNCHANGED parquet
    BY <1>7, NextReadType DEF ReadSource, ReadFails, FilesTyped, FilesTypeOK
  <2>2. step' = "count" => FALSE
    BY <2>1
  <2> QED BY <1>2, <2>1
<1>8. CASE FileVanished \/ CountTargets
  <2>1. /\ UNCHANGED <<content, parquet, Listed, touched, moved>>
        /\ step' \in {"failed", "done"}
    BY <1>8 DEF FileVanished, CountTargets, read_vars, change_vars, Listed
  <2> QED BY <2>1
<1>9. ASSUME NEW f \in Listed, WriteFile(f)
      PROVE  WritesAreOfFrames'
  <2>1. /\ UNCHANGED <<content, touched, Listed>> /\ moved' = moved \ {f}
        /\ parquet' = [parquet EXCEPT ![f] = content[f]]
        /\ step' = IF \A g \in Listed : parquet'[g] # 0 THEN "count" ELSE "write"
    BY <1>9 DEF WriteFile, Listed
  <2>2. DOMAIN parquet = Files
    BY DEF FilesTyped, FilesTypeOK
  <2> QED BY <2>1, <2>2
<1>10. CASE UNCHANGED file_vars
  BY <1>10 DEF file_vars, read_vars, change_vars, Listed
<1> QED BY <1>3, <1>4, <1>5, <1>6, <1>7, <1>8, <1>9, <1>10
        DEF FilesNext, FilesProgress

LEMMA StepCounts ==
  ASSUME FilesTyped, WritesAreOfFrames, LineageCountsWhatWasWritten,
         [FilesNext]_file_vars
  PROVE  LineageCountsWhatWasWritten'
<1> USE DEF LineageCountsWhatWasWritten
<1>1. CASE step' # "done"
  BY <1>1
<1>2. CASE CountTargets
  <2>1. /\ step = "count" /\ UNCHANGED <<parquet, Listed, moved>>
        /\ counted' = [f \in Files |-> IF f \in Listed THEN content[f] ELSE 0]
    BY <1>2 DEF CountTargets, Listed, change_vars
  <2> QED BY <2>1 DEF WritesAreOfFrames
<1>3. CASE \E f \in Files, v \in {0} \cup Versions : Edit(f, v)
  <2>1. UNCHANGED <<step, parquet, counted, Listed>> /\ moved \subseteq moved'
    BY <1>3 DEF Edit, read_vars, Listed
  <2> QED BY <2>1
<1>4. CASE BeginSource \/ SaveManifest \/ Verify \/ CheckFails
  BY <1>1, <1>4, NextSourceType
  DEF BeginSource, SaveManifest, Verify, CheckFails, LogFailure, FilesTyped,
      FilesTypeOK
<1>5. CASE ReadSource \/ ReadFails
  BY <1>1, <1>5, NextReadType DEF ReadSource, ReadFails, FilesTyped, FilesTypeOK
<1>6. CASE \/ \E m \in {"initial", "daily"} : StartRun(m)
           \/ \E f \in unhashed : HashFile(f)
           \/ FileVanished \/ \E f \in Listed : WriteFile(f)
  BY <1>1, <1>6 DEF StartRun, HashFile, FileVanished, WriteFile
<1>7. CASE UNCHANGED file_vars
  <2>1. UNCHANGED <<step, parquet, counted, Listed, moved>>
    BY <1>7 DEF file_vars, read_vars, change_vars, Listed
  <2> QED BY <2>1
<1> QED BY <1>2, <1>3, <1>4, <1>5, <1>6, <1>7 DEF FilesNext, FilesProgress

-----------------------------------------------------------------------------
FilesInv ==
  /\ FilesTyped
  /\ HashesAreCurrent
  /\ ManifestsAreKept
  /\ NotYetJudged
  /\ PassedAsSaved
  /\ NoFalseAlarm
  /\ WritesAreOfFrames
  /\ LineageCountsWhatWasWritten

LEMMA FilesInvAlways == FilesSpec => []FilesInv
<1>1. FilesInit => FilesInv
  <2> SUFFICES ASSUME FilesInit
               PROVE  FilesInv
    OBVIOUS
  <2>1. FilesTyped
    BY InitFiles
  <2>2. HashesAreCurrent /\ ManifestsAreKept /\ NotYetJudged
    BY <2>1
    DEF FilesInit, HashesAreCurrent, ManifestsAreKept, NotYetJudged, FilesTyped
  <2>3. PassedAsSaved /\ NoFalseAlarm
    BY DEF FilesInit, PassedAsSaved, NoFalseAlarm
  <2>4. WritesAreOfFrames /\ LineageCountsWhatWasWritten
    BY DEF FilesInit, WritesAreOfFrames, LineageCountsWhatWasWritten, NoVersion
  <2> QED BY <2>1, <2>2, <2>3, <2>4 DEF FilesInv
<1>2. FilesInv /\ [FilesNext]_file_vars => FilesInv'
  BY StepFiles, StepHashes, StepManifests, StepJudged, StepPassed, StepNoFalseAlarm,
     StepWrites, StepCounts DEF FilesInv
<1> QED BY <1>1, <1>2, PTL DEF FilesSpec

\* Volume, manifests, run and history keep their types; in particular the manifest
\* under construction names only files of the source the loop has come to.
THEOREM FilesTypeCorrect == FilesSpec => []FilesTypeOK
<1>1. FilesInv => FilesTypeOK
  BY DEF FilesInv, FilesTyped
<1> QED BY <1>1, FilesInvAlways, PTL

\* What a daily run writes of a directory it has verified is as the manifest has it,
\* file by file, unless somebody changed the file after the run had hashed it:
\* hashing and reading are two passes over the volume, manifests may come from any
\* earlier run or have been cut short.
THEOREM PassedFilesAreUnaltered == FilesSpec => []PassedIsUnaltered
<1>1. FilesInv => PassedIsUnaltered
  <2> SUFFICES ASSUME FilesInv, NEW s \in Directories,
                      run_mode = "daily", verdict[s] = "passed",
                      NEW f \in FilesOf[s] \ touched, parquet[f] # 0,
                      NEW m \in manifests[s], f \in DOMAIN m
               PROVE  parquet[f] = m[f]
    BY DEF PassedIsUnaltered, WrittenAsVerified
  <2>1. s \in SourceKeys /\ f \in Files
    BY OrderFacts, SourcesAssumption
  <2>2. m[f] = content[f]
    BY <2>1 DEF FilesInv, PassedAsSaved
  <2>3. parquet[f] = content[f]
    BY <2>1 DEF FilesInv, WritesAreOfFrames
  <2> QED BY <2>2, <2>3
<1> QED BY <1>1, FilesInvAlways, PTL

\* verify_checksums reports a source only if its manifest was lost, its path is
\* missing or a file the manifest covers has changed since it was hashed.
THEOREM NoFalseAlarms == FilesSpec => []NoFalseAlarm
<1>1. FilesInv => NoFalseAlarm
  BY DEF FilesInv
<1> QED BY <1>1, FilesInvAlways, PTL

\* record_target counts what the write read, though both read the files anew, for
\* every file of the frame that nobody changed in between.
THEOREM LineageCounts == FilesSpec => []LineageCountsWhatWasWritten
<1>1. FilesInv => LineageCountsWhatWasWritten
  BY DEF FilesInv
<1> QED BY <1>1, FilesInvAlways, PTL
=============================================================================
