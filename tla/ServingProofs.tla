----------------------------- MODULE ServingProofs -----------------------------
(***************************************************************************)
(* The serving tables: first what the Spark loader leaves in them, then    *)
(* what a reader can be shown while a loader replaces them.  For every set *)
(* of students, users, requests and loaders and every number of            *)
(* publications and loads.                                                 *)
(***************************************************************************)
EXTENDS ServingReads, FiniteSetTheorems, TLAPS

\* The type invariant without the bound on copies, which rests on CopiesAreCounted.
Types ==
  /\ version \in 0 .. MaxVersion
  /\ curated \in [Datasets -> [exists : BOOLEAN, rows : SUBSET Rows]]
  /\ coming \in [Datasets -> SUBSET Rows]
  /\ loads \in 0 .. MaxLoads
  /\ pc \in [Loaders -> Ended \cup Running]
  /\ step \in [Loaders -> Datasets]
  /\ listed \in [Loaders -> [Datasets -> SUBSET Rows]]
  /\ todo \in [Loaders -> SUBSET Rows]
  /\ table \in [Datasets -> [exists : BOOLEAN, copies : [Rows -> Nat]]]
  /\ before \in [Loaders -> [Datasets -> SUBSET Rows]]
  /\ together \in BOOLEAN

OneVersion(rows) == \A r, q \in rows : r.version = q.version

\* Where a loader is between listing a dataset and finishing its table.
Writing == {"drop", "create", "insert"}

\* Processing publishes a dataset whole: what is in place and what is coming, and
\* so what any loader has listed, is of one publication.
OnePublicationListed ==
  /\ \A d \in Datasets : OneVersion(curated[d].rows \cup coming[d])
  /\ \A l \in Loaders, d \in Datasets : OneVersion(listed[l][d])

\* A loader inserts rows of its listing only, and has begun with all of them.
WorkIsListed ==
  \A l \in Loaders : pc[l] \in Writing =>
    /\ listed[l][step[l]] # {}
    /\ todo[l] \subseteq listed[l][step[l]]
    /\ pc[l] # "insert" => todo[l] = listed[l][step[l]]

Alone ==
  ~together =>
    \A l, k \in Loaders : pc[l] \in Running /\ pc[k] \in Running => l = k

\* The table a lone loader is filling holds the rows it has inserted, once each.
FillsItsTable ==
  ~together => \A l \in Loaders : pc[l] \in {"create", "insert"} =>
    \A r \in Rows : table[step[l]].copies[r] =
                      IF r \in listed[l][step[l]] \ todo[l] THEN 1 ELSE 0

TablesAreClean ==
  ~together => \A d \in Datasets :
    /\ \A r \in Rows : table[d].copies[r] \in {0, 1}
    /\ OneVersion(Held(d))

\* What a load that is to end well leaves in the table of one dataset.
Loaded(l, d) == Held(d) = IF listed[l][d] = {} THEN before[l][d] ELSE listed[l][d]

\* A lone loader in its second step has left its first table loaded.
FirstIsLoaded ==
  ~together => \A l \in Loaders :
    pc[l] \in Running /\ step[l] = Second => Loaded(l, First)

IInv ==
  /\ Types
  /\ OnePublicationListed
  /\ WorkIsListed
  /\ Alone
  /\ FillsItsTable
  /\ TablesAreClean
  /\ FirstIsLoaded

-----------------------------------------------------------------------------
LEMMA DatasetsDiffer == First \in Datasets /\ Second \in Datasets /\ First # Second
BY DEF First, Second, Datasets

LEMMA OnlyTwo == \A d \in Datasets : d = First \/ d = Second
BY DEF First, Second, Datasets

LEMMA NoTableType == NoTable \in [exists : BOOLEAN, copies : [Rows -> Nat]]
BY DEF NoTable, NoCopies

LEMMA InitTypes == Init => Types
<1> SUFFICES ASSUME Init
             PROVE  Types
  OBVIOUS
<1> USE DEF Init
<1>1. Missing \in [exists : BOOLEAN, rows : SUBSET Rows]
  BY DEF Missing
<1>2. EmptyTable \in [exists : BOOLEAN, copies : [Rows -> Nat]]
  BY DEF EmptyTable, NoCopies
<1>3. version \in 0 .. MaxVersion /\ loads \in 0 .. MaxLoads
  BY BoundsAssumption
<1> QED BY <1>1, <1>2, <1>3, DatasetsDiffer DEF Types, Ended

LEMMA StepTypes == Types /\ [Next]_vars => Types'
<1> SUFFICES ASSUME Types, [Next]_vars
             PROVE  Types'
  OBVIOUS
<1> USE DEF Types
<1>1. ASSUME NEW d \in Datasets, NEW students \in SUBSET Students,
             Overwrite(d, students)
      PROVE  Types'
  <2>1. version' \in 1 .. MaxVersion
    BY <1>1, BoundsAssumption DEF Overwrite
  <2>2. [student : students, version : {version'}] \in SUBSET Rows
    BY <2>1 DEF Rows
  <2>3. Missing \in [exists : BOOLEAN, rows : SUBSET Rows]
    BY DEF Missing
  <2>4. coming' \in [Datasets -> SUBSET Rows]
    BY <1>1, <2>2 DEF Overwrite
  <2>5. curated' \in [Datasets -> [exists : BOOLEAN, rows : SUBSET Rows]]
    BY <1>1, <2>3 DEF Overwrite
  <2>6. UNCHANGED <<loads, pc, step, listed, todo, before, table, together>>
    BY <1>1 DEF Overwrite, loader_vars
  <2> QED BY <2>1, <2>4, <2>5, <2>6
<1>2. ASSUME NEW d \in Datasets, NEW r \in coming[d], PublishPart(d, r)
      PROVE  Types'
  <2>1. r \in Rows
    BY <1>2
  <2>2. [exists |-> TRUE, rows |-> curated[d].rows \cup {r}]
          \in [exists : BOOLEAN, rows : SUBSET Rows]
    BY <2>1
  <2> QED BY <1>2, <2>2 DEF PublishPart, loader_vars
<1>3. ASSUME NEW d \in Datasets, PublishEmpty(d)
      PROVE  Types'
  <2> DEFINE there == [curated[d] EXCEPT !.exists = TRUE]
  <2>1. there \in [exists : BOOLEAN, rows : SUBSET Rows]
    <3>1. curated[d] \in [exists : BOOLEAN, rows : SUBSET Rows]
      BY <1>3
    <3> QED BY <3>1
  <2>2. curated' = [curated EXCEPT ![d] = there]
    BY <1>3 DEF PublishEmpty
  <2>3. curated' \in [Datasets -> [exists : BOOLEAN, rows : SUBSET Rows]]
    BY <2>1, <2>2
  <2> QED BY <1>3, <2>3 DEF PublishEmpty, loader_vars
<1>4. ASSUME NEW l \in Loaders, Start(l)
      PROVE  Types'
  <2>1. together' \in BOOLEAN
    BY <1>4 DEF Start
  <2>2. loads' \in 0 .. MaxLoads
    BY <1>4, BoundsAssumption DEF Start
  <2>3. listed' \in [Loaders -> [Datasets -> SUBSET Rows]]
    <3>1. [d \in Datasets |-> {}] \in [Datasets -> SUBSET Rows]
      OBVIOUS
    <3> QED BY <1>4, <3>1 DEF Start
  <2>4. UNCHANGED <<version, curated, coming, table, before>>
    BY <1>4 DEF Start, zone_vars
  <2>5. pc' \in [Loaders -> Ended \cup Running]
    BY <1>4 DEF Start, Running
  <2>6. step' \in [Loaders -> Datasets] /\ todo' \in [Loaders -> SUBSET Rows]
    BY <1>4, DatasetsDiffer DEF Start
  <2> QED BY <2>1, <2>2, <2>3, <2>4, <2>5, <2>6
<1>5. ASSUME NEW l \in Loaders, ReadDataset(l)
      PROVE  Types'
  <2>1. curated[step[l]].rows \in SUBSET Rows
    BY <1>5
  <2>2. listed' \in [Loaders -> [Datasets -> SUBSET Rows]]
    BY <1>5, <2>1 DEF ReadDataset
  <2>3. before' \in [Loaders -> [Datasets -> SUBSET Rows]]
    BY <1>5 DEF ReadDataset
  <2>4. pc' \in [Loaders -> Ended \cup Running] /\ step' \in [Loaders -> Datasets]
    <3>1. AfterStep(l) \in {"read", "done"}
      BY DEF AfterStep
    <3>2. \E p \in {"read", "done", "drop"} : pc' = [pc EXCEPT ![l] = p]
      BY <1>5, <3>1 DEF ReadDataset, WritePhase
    <3>3. step' = step \/ step' = [step EXCEPT ![l] = Second]
      BY <1>5 DEF ReadDataset
    <3> QED BY <3>2, <3>3, DatasetsDiffer DEF Running, Ended
  <2> QED BY <1>5, <2>1, <2>2, <2>3, <2>4 DEF ReadDataset, zone_vars
<1>6. ASSUME NEW l \in Loaders, DropTable(l)
      PROVE  Types'
  BY <1>6, NoTableType DEF DropTable, zone_vars, loader_vars, Running
<1>7. ASSUME NEW l \in Loaders, CreateTable(l)
      PROVE  Types'
  <2>1. step[l] \in Datasets
    BY <1>7
  <2> DEFINE created == [table[step[l]] EXCEPT !.exists = TRUE]
  <2>2. table' \in [Datasets -> [exists : BOOLEAN, copies : [Rows -> Nat]]]
    <3>1. created \in [exists : BOOLEAN, copies : [Rows -> Nat]]
      BY <2>1
    <3>2. table' = table \/ table' = [table EXCEPT ![step[l]] = created]
      BY <1>7 DEF CreateTable
    <3> QED BY <3>1, <3>2, <2>1
  <2>3. pc' \in [Loaders -> Ended \cup Running]
    <3>1. \E p \in {"failed", "insert"} : pc' = [pc EXCEPT ![l] = p]
      BY <1>7 DEF CreateTable
    <3> QED BY <3>1 DEF Running, Ended
  <2> QED BY <1>7, <2>2, <2>3 DEF CreateTable, zone_vars, loader_vars
<1>8. ASSUME NEW l \in Loaders, NEW r \in todo[l], InsertPartition(l, r)
      PROVE  Types'
  <2>1. step[l] \in Datasets /\ r \in Rows
    BY <1>8
  <2> DEFINE more == [table[step[l]].copies EXCEPT ![r] = @ + 1]
             filled == [table[step[l]] EXCEPT !.copies = more]
  <2>2. table' \in [Datasets -> [exists : BOOLEAN, copies : [Rows -> Nat]]]
    <3>1. table[step[l]] \in [exists : BOOLEAN, copies : [Rows -> Nat]]
      BY <2>1
    <3>2. more \in [Rows -> Nat]
      BY <3>1, <2>1
    <3>3. filled \in [exists : BOOLEAN, copies : [Rows -> Nat]]
      BY <3>1, <3>2
    <3>4. table' = [table EXCEPT ![step[l]] = filled]
      BY <1>8 DEF InsertPartition
    <3> HIDE DEF filled
    <3> QED BY <3>3, <3>4, <2>1
  <2> QED BY <1>8, <2>2 DEF InsertPartition, zone_vars
<1>9. ASSUME NEW l \in Loaders, FinishTable(l)
      PROVE  Types'
  BY <1>9, DatasetsDiffer DEF FinishTable, AfterStep, zone_vars, Ended, Running
<1>10. ASSUME NEW l \in Loaders, NEW how \in {"failed", "killed"}, Stop(l, how)
       PROVE  Types'
  BY <1>10 DEF Stop, zone_vars, loader_vars, Ended
<1>11. CASE UNCHANGED vars
  BY <1>11 DEF vars, zone_vars, loader_vars
<1> QED
  BY <1>1, <1>2, <1>3, <1>4, <1>5, <1>6, <1>7, <1>8, <1>9, <1>10, <1>11
     DEF Next, Processing, Load

-----------------------------------------------------------------------------
\* What the actions do to the copies of a table, row by row.
LEMMA ProcessingLeavesLoads ==
  Processing => UNCHANGED <<loads, pc, step, listed, todo, before, table, together>>
BY DEF Processing, Overwrite, PublishPart, PublishEmpty, loader_vars

LEMMA DropEffect ==
  ASSUME Types, NEW l \in Loaders, DropTable(l),
         NEW d \in Datasets, NEW r \in Rows
  PROVE  table'[d].copies[r] = IF d = step[l] THEN 0 ELSE table[d].copies[r]
<1>1. NoTable.copies[r] = 0
  BY DEF NoTable, NoCopies
<1> HIDE DEF NoTable
<1>2. table' = [table EXCEPT ![step[l]] = NoTable]
  BY DEF DropTable
<1> QED BY <1>1, <1>2 DEF Types

LEMMA CreateEffect ==
  ASSUME Types, NEW l \in Loaders, CreateTable(l), NEW d \in Datasets
  PROVE  table'[d].copies = table[d].copies
<1> DEFINE created == [table[step[l]] EXCEPT !.exists = TRUE]
<1>1. step[l] \in Datasets /\ table[step[l]] \in [exists : BOOLEAN, copies : [Rows -> Nat]]
  BY DEF Types
<1>2. created.copies = table[step[l]].copies
  BY <1>1
<1>3. table' = table \/ table' = [table EXCEPT ![step[l]] = created]
  BY DEF CreateTable
<1> HIDE DEF created
<1> QED BY <1>1, <1>2, <1>3 DEF Types

LEMMA InsertEffect ==
  ASSUME Types, NEW l \in Loaders, NEW r \in todo[l], InsertPartition(l, r),
         NEW d \in Datasets, NEW q \in Rows
  PROVE  table'[d].copies[q] = IF d = step[l] /\ q = r THEN table[d].copies[q] + 1
                               ELSE table[d].copies[q]
<1> DEFINE more   == [table[step[l]].copies EXCEPT ![r] = @ + 1]
           filled == [table[step[l]] EXCEPT !.copies = more]
<1>1. step[l] \in Datasets /\ r \in Rows
  BY DEF Types
<1>2. table[step[l]] \in [exists : BOOLEAN, copies : [Rows -> Nat]]
  BY <1>1 DEF Types
<1>3. filled.copies = more
  BY <1>2
<1>4. more[q] = IF q = r THEN table[step[l]].copies[q] + 1 ELSE table[step[l]].copies[q]
  BY <1>1, <1>2
<1>5. table' = [table EXCEPT ![step[l]] = filled]
  BY DEF InsertPartition
<1> HIDE DEF filled, more
<1> QED BY <1>1, <1>3, <1>4, <1>5 DEF Types

\* Only these three actions touch a table.
LEMMA TablesKept ==
  ASSUME NEW l \in Loaders,
         \/ Start(l)
         \/ ReadDataset(l)
         \/ FinishTable(l)
         \/ \E how \in {"failed", "killed"} : Stop(l, how)
  PROVE  table' = table
BY DEF Start, ReadDataset, FinishTable, Stop

-----------------------------------------------------------------------------
LEMMA StepListed ==
  Types /\ OnePublicationListed /\ [Next]_vars => OnePublicationListed'
<1> SUFFICES ASSUME Types, OnePublicationListed, [Next]_vars
             PROVE  OnePublicationListed'
  OBVIOUS
<1> USE DEF OnePublicationListed, OneVersion
<1>1. ASSUME NEW d \in Datasets, NEW students \in SUBSET Students,
             Overwrite(d, students)
      PROVE  OnePublicationListed'
  <2>1. curated'[d].rows = {}
    BY <1>1 DEF Overwrite, Types, Missing
  <2>2. coming'[d] = [student : students, version : {version'}]
    BY <1>1 DEF Overwrite, Types
  <2>3. \A r \in coming'[d] : r.version = version'
    BY <2>2
  <2>4. \A c \in Datasets \ {d} : curated'[c] = curated[c] /\ coming'[c] = coming[c]
    BY <1>1 DEF Overwrite, Types
  <2>5. listed' = listed
    BY <1>1 DEF Overwrite, loader_vars
  <2> QED BY <2>1, <2>3, <2>4, <2>5
<1>2. ASSUME NEW d \in Datasets, NEW r \in coming[d], PublishPart(d, r)
      PROVE  OnePublicationListed'
  <2>1. curated'[d].rows \cup coming'[d] \subseteq curated[d].rows \cup coming[d]
    BY <1>2 DEF PublishPart, Types
  <2>2. \A c \in Datasets \ {d} : curated'[c] = curated[c] /\ coming'[c] = coming[c]
    BY <1>2 DEF PublishPart, Types
  <2>3. listed' = listed
    BY <1>2 DEF PublishPart, loader_vars
  <2> QED BY <2>1, <2>2, <2>3
<1>3. ASSUME NEW d \in Datasets, PublishEmpty(d)
      PROVE  OnePublicationListed'
  <2> DEFINE there == [curated[d] EXCEPT !.exists = TRUE]
  <2>1. curated[d] \in [exists : BOOLEAN, rows : SUBSET Rows]
    BY DEF Types
  <2>2. there.rows = curated[d].rows
    BY <2>1
  <2>3. curated' = [curated EXCEPT ![d] = there]
    BY <1>3 DEF PublishEmpty
  <2> HIDE DEF there
  <2>4. \A c \in Datasets : curated'[c].rows = curated[c].rows
    BY <2>2, <2>3 DEF Types
  <2> QED BY <1>3, <2>4 DEF PublishEmpty, loader_vars
<1>4. ASSUME NEW l \in Loaders, Start(l)
      PROVE  OnePublicationListed'
  <2>1. \A k \in Loaders, d \in Datasets : listed'[k][d] \subseteq listed[k][d]
    BY <1>4 DEF Start, Types
  <2> QED BY <1>4, <2>1 DEF Start, zone_vars
<1>5. ASSUME NEW l \in Loaders, ReadDataset(l)
      PROVE  OnePublicationListed'
  <2>1. \A k \in Loaders, d \in Datasets :
          listed'[k][d] \in {listed[k][d], curated[d].rows}
    BY <1>5 DEF ReadDataset, Types
  <2> QED BY <1>5, <2>1 DEF ReadDataset, zone_vars
<1>6. CASE UNCHANGED <<curated, coming, listed>>
  BY <1>6
<1>7. ASSUME NEW l \in Loaders, Load(l)
      PROVE  OnePublicationListed'
  <2>1. ReadDataset(l) \/ UNCHANGED <<curated, coming, listed>>
    BY <1>7 DEF Load, DropTable, CreateTable, FinishTable, InsertPartition,
                zone_vars, loader_vars
  <2> QED BY <1>5, <1>6, <2>1
<1>8. ASSUME NEW l \in Loaders, NEW how \in {"failed", "killed"}, Stop(l, how)
      PROVE  OnePublicationListed'
  BY <1>6, <1>8 DEF Stop, zone_vars, loader_vars
<1>9. CASE UNCHANGED vars
  BY <1>6, <1>9 DEF vars, zone_vars, loader_vars
<1> HIDE DEF OnePublicationListed, OneVersion
<1> QED BY <1>1, <1>2, <1>3, <1>4, <1>7, <1>8, <1>9 DEF Next, Processing

LEMMA StepWork == Types /\ WorkIsListed /\ [Next]_vars => WorkIsListed'
<1> SUFFICES ASSUME Types, WorkIsListed, [Next]_vars
             PROVE  WorkIsListed'
  OBVIOUS
<1> USE DEF Types, WorkIsListed, Writing
<1>1. CASE Processing
  BY <1>1, ProcessingLeavesLoads
<1>2. ASSUME NEW l \in Loaders, Start(l)
      PROVE  WorkIsListed'
  <2>1. pc'[l] = "read"
    BY <1>2 DEF Start
  <2>2. \A k \in Loaders \ {l} : /\ pc'[k] = pc[k]
                                 /\ step'[k] = step[k]
                                 /\ listed'[k] = listed[k]
                                 /\ todo'[k] = todo[k]
    BY <1>2 DEF Start
  <2> QED BY <2>1, <2>2
<1>3. ASSUME NEW l \in Loaders, ReadDataset(l)
      PROVE  WorkIsListed'
  <2>1. \A k \in Loaders \ {l} : /\ pc'[k] = pc[k]
                                 /\ step'[k] = step[k]
                                 /\ listed'[k] = listed[k]
                                 /\ todo'[k] = todo[k]
    BY <1>3 DEF ReadDataset
  <2>2. CASE SkipsEmpty(curated[step[l]].rows)
    <3>1. pc'[l] \notin Writing
      BY <1>3, <2>2 DEF ReadDataset, AfterStep
    <3> QED BY <2>1, <3>1
  <2>3. CASE ~SkipsEmpty(curated[step[l]].rows)
    <3>1. step'[l] = step[l] /\ pc'[l] = "drop"
      BY <1>3, <2>3 DEF ReadDataset, WritePhase
    <3>2. todo'[l] = curated[step[l]].rows
      BY <1>3 DEF ReadDataset
    <3>3. listed'[l][step[l]] = curated[step[l]].rows
      BY <1>3 DEF ReadDataset
    <3>4. curated[step[l]].rows # {}
      BY <2>3 DEF SkipsEmpty
    <3>5. listed'[l][step'[l]] # {} /\ todo'[l] = listed'[l][step'[l]]
      BY <3>1, <3>2, <3>3, <3>4
    <3> QED BY <2>1, <3>5
  <2> QED BY <2>2, <2>3
<1>4. ASSUME NEW l \in Loaders, DropTable(l)
      PROVE  WorkIsListed'
  BY <1>4 DEF DropTable, loader_vars
<1>5. ASSUME NEW l \in Loaders, CreateTable(l)
      PROVE  WorkIsListed'
  BY <1>5 DEF CreateTable, loader_vars
<1>6. ASSUME NEW l \in Loaders, NEW r \in todo[l], InsertPartition(l, r)
      PROVE  WorkIsListed'
  BY <1>6 DEF InsertPartition
<1>7. ASSUME NEW l \in Loaders, FinishTable(l)
      PROVE  WorkIsListed'
  <2>1. pc'[l] \notin Writing
    BY <1>7 DEF FinishTable, AfterStep
  <2> QED BY <1>7, <2>1 DEF FinishTable
<1>8. ASSUME NEW l \in Loaders, NEW how \in {"failed", "killed"}, Stop(l, how)
      PROVE  WorkIsListed'
  BY <1>8 DEF Stop, loader_vars
<1>9. CASE UNCHANGED vars
  BY <1>9 DEF vars, loader_vars
<1> QED BY <1>1, <1>2, <1>3, <1>4, <1>5, <1>6, <1>7, <1>8, <1>9 DEF Next, Load

LEMMA StepAlone == Types /\ Alone /\ [Next]_vars => Alone'
<1> SUFFICES ASSUME Types, Alone, [Next]_vars
             PROVE  Alone'
  OBVIOUS
<1> USE DEF Types, Alone
<1>1. CASE Processing
  BY <1>1, ProcessingLeavesLoads
<1>2. ASSUME NEW l \in Loaders, Start(l)
      PROVE  Alone'
  BY <1>2 DEF Start
<1>3. ASSUME NEW l \in Loaders, Load(l) \/ \E how \in {"failed", "killed"} : Stop(l, how)
      PROVE  Alone'
  <2>1. pc[l] \in Running /\ together' = together
    BY <1>3 DEF Load, ReadDataset, DropTable, CreateTable, InsertPartition,
                FinishTable, Stop, Running
  <2>2. \A k \in Loaders \ {l} : pc'[k] = pc[k]
    BY <1>3 DEF Load, ReadDataset, DropTable, CreateTable, InsertPartition,
                FinishTable, Stop
  <2> QED BY <2>1, <2>2
<1>4. CASE UNCHANGED vars
  BY <1>4 DEF vars
<1> QED BY <1>1, <1>2, <1>3, <1>4 DEF Next

-----------------------------------------------------------------------------
\* While no two loaders have run side by side, a step of one is the step of the
\* only one that runs.
LEMMA LoneStep ==
  ASSUME Types, Alone, ~together', NEW l \in Loaders,
         Load(l) \/ \E how \in {"failed", "killed"} : Stop(l, how)
  PROVE  /\ ~together
         /\ pc[l] \in Running
         /\ \A k \in Loaders \ {l} : pc'[k] = pc[k] /\ pc'[k] \notin Running
<1>1. pc[l] \in Running /\ together' = together
  BY DEF Load, ReadDataset, DropTable, CreateTable, InsertPartition,
         FinishTable, Stop, Running
<1>2. \A k \in Loaders \ {l} : pc'[k] = pc[k]
  BY DEF Types, Load, ReadDataset, DropTable, CreateTable, InsertPartition,
         FinishTable, Stop
<1> QED BY <1>1, <1>2 DEF Alone

LEMMA LoneStart ==
  ASSUME Types, ~together', NEW l \in Loaders, Start(l)
  PROVE  /\ ~together
         /\ pc'[l] = "read" /\ step'[l] = First
         /\ \A k \in Loaders \ {l} : pc'[k] = pc[k] /\ pc'[k] \notin Running
BY DEF Types, Start

LEMMA StepFills ==
  Types /\ WorkIsListed /\ Alone /\ FillsItsTable /\ [Next]_vars => FillsItsTable'
<1> SUFFICES ASSUME Types, WorkIsListed, Alone, FillsItsTable, [Next]_vars,
                    ~together',
                    NEW k \in Loaders, pc'[k] \in {"create", "insert"},
                    NEW q \in Rows
             PROVE  table'[step'[k]].copies[q] =
                      IF q \in listed'[k][step'[k]] \ todo'[k] THEN 1 ELSE 0
  BY DEF FillsItsTable
<1>1. CASE Processing
  BY <1>1, ProcessingLeavesLoads DEF FillsItsTable
<1>2. ASSUME NEW l \in Loaders, Start(l)
      PROVE  FALSE
  BY <1>2, LoneStart DEF Running
<1>3. ASSUME NEW l \in Loaders, ReadDataset(l)
      PROVE  FALSE
  <2>1. k = l
    BY <1>3, LoneStep DEF Load, Running
  <2> QED BY <1>3, <2>1 DEF Types, ReadDataset, AfterStep, WritePhase
<1>4. ASSUME NEW l \in Loaders, DropTable(l), k = l
      PROVE  table'[step[k]].copies[q] = 0 /\ q \notin listed[k][step[k]] \ todo[k]
  BY <1>4, DropEffect DEF Types, WorkIsListed, Writing, DropTable
<1>5. ASSUME NEW l \in Loaders, CreateTable(l), k = l
      PROVE  /\ pc[k] = "create"
             /\ table'[step[k]].copies[q] = table[step[k]].copies[q]
  BY <1>5, CreateEffect DEF Types, CreateTable
<1>6. ASSUME NEW l \in Loaders, NEW r \in todo[l], InsertPartition(l, r), k = l
      PROVE  table'[step[k]].copies[q] =
               IF q \in listed[k][step[k]] \ todo'[k] THEN 1 ELSE 0
  <2>1. pc[k] = "insert" /\ r \in listed[k][step[k]] /\ step[k] \in Datasets
    BY <1>6 DEF Types, WorkIsListed, Writing, InsertPartition
  <2>2. todo'[k] = todo[k] \ {r}
    BY <1>6 DEF Types, InsertPartition
  <2>3. table[step[k]].copies[q] = IF q \in listed[k][step[k]] \ todo[k] THEN 1 ELSE 0
    BY <2>1, LoneStep, <1>6 DEF FillsItsTable, Load
  <2>4. table'[step[k]].copies[q] = IF q = r THEN table[step[k]].copies[q] + 1
                                    ELSE table[step[k]].copies[q]
    BY <1>6, <2>1, InsertEffect
  <2> QED BY <1>6, <2>1, <2>2, <2>3, <2>4
<1>7. ASSUME NEW l \in Loaders, FinishTable(l)
      PROVE  FALSE
  <2>1. k = l
    BY <1>7, LoneStep DEF Load, Running
  <2> QED BY <1>7, <2>1 DEF Types, FinishTable, AfterStep
<1>8. ASSUME NEW l \in Loaders, NEW how \in {"failed", "killed"}, Stop(l, how)
      PROVE  FALSE
  <2>1. k = l
    BY <1>8, LoneStep DEF Running
  <2> QED BY <1>8, <2>1 DEF Types, Stop
<1>9. ASSUME NEW l \in Loaders, Load(l)
      PROVE  table'[step'[k]].copies[q] =
               IF q \in listed'[k][step'[k]] \ todo'[k] THEN 1 ELSE 0
  <2>1. k = l /\ ~together
    BY <1>9, LoneStep DEF Running
  <2>2. CASE DropTable(l)
    BY <1>4, <2>1, <2>2 DEF DropTable, loader_vars
  <2>3. CASE CreateTable(l)
    <3>1. UNCHANGED <<step, listed, todo>>
      BY <2>3 DEF CreateTable, loader_vars
    <3> QED BY <1>5, <2>1, <2>3, <3>1 DEF FillsItsTable
  <2>4. ASSUME NEW r \in todo[l], InsertPartition(l, r)
        PROVE  table'[step'[k]].copies[q] =
                 IF q \in listed'[k][step'[k]] \ todo'[k] THEN 1 ELSE 0
    BY <1>6, <2>1, <2>4 DEF InsertPartition
  <2> QED BY <1>3, <1>7, <1>9, <2>2, <2>3, <2>4 DEF Load
<1>10. CASE UNCHANGED vars
  BY <1>10 DEF vars, loader_vars, FillsItsTable
<1> QED BY <1>1, <1>2, <1>8, <1>9, <1>10 DEF Next

\* A table with the same copies holds the same rows.
LEMMA SameHeld ==
  ASSUME NEW d \in Datasets,
         \A r \in Rows : table'[d].copies[r] = table[d].copies[r]
  PROVE  Held(d)' = Held(d)
BY DEF Held

LEMMA StepClean ==
  IInv /\ FillsItsTable' /\ [Next]_vars => TablesAreClean'
<1> SUFFICES ASSUME IInv, FillsItsTable', [Next]_vars, ~together', NEW d \in Datasets
             PROVE  /\ \A r \in Rows : table'[d].copies[r] \in {0, 1}
                    /\ OneVersion(Held(d)')
  BY DEF TablesAreClean, OneVersion
<1>t. Types /\ Alone
  BY DEF IInv
<1>1. CASE ~together /\ \A r \in Rows : table'[d].copies[r] = table[d].copies[r]
  <2>1. Held(d)' = Held(d)
    BY <1>1, SameHeld
  <2> QED BY <1>1, <2>1 DEF IInv, TablesAreClean
<1>2. CASE Processing
  BY <1>1, <1>2, ProcessingLeavesLoads
<1>3. ASSUME NEW l \in Loaders, Start(l)
      PROVE  ~together /\ table' = table
  BY <1>3, <1>t, LoneStart, TablesKept
<1>4. ASSUME NEW l \in Loaders, NEW how \in {"failed", "killed"}, Stop(l, how)
      PROVE  ~together /\ table' = table
  BY <1>4, <1>t, LoneStep, TablesKept
<1>5. ASSUME NEW l \in Loaders, ReadDataset(l) \/ FinishTable(l)
      PROVE  ~together /\ table' = table
  BY <1>5, <1>t, LoneStep, TablesKept DEF Load
<1>6. ASSUME NEW l \in Loaders, DropTable(l)
      PROVE  /\ \A r \in Rows : table'[d].copies[r] \in {0, 1}
             /\ OneVersion(Held(d)')
  <2>1. ~together
    BY <1>6, <1>t, LoneStep DEF Load
  <2>2. CASE d = step[l]
    <3>1. \A r \in Rows : table'[d].copies[r] = 0
      BY <1>6, <1>t, <2>2, DropEffect
    <3> QED BY <3>1 DEF Held, OneVersion
  <2>3. CASE d # step[l]
    BY <1>1, <1>6, <1>t, <2>1, <2>3, DropEffect
  <2> QED BY <2>2, <2>3
<1>7. ASSUME NEW l \in Loaders, CreateTable(l)
      PROVE  ~together /\ \A r \in Rows : table'[d].copies[r] = table[d].copies[r]
  BY <1>7, <1>t, LoneStep, CreateEffect DEF Load
<1>8. ASSUME NEW l \in Loaders, NEW q \in todo[l], InsertPartition(l, q)
      PROVE  /\ \A r \in Rows : table'[d].copies[r] \in {0, 1}
             /\ OneVersion(Held(d)')
  <2>1. ~together
    BY <1>8, <1>t, LoneStep DEF Load
  <2>2. CASE d = step[l]
    <3>1. pc'[l] = "insert" /\ step' = step /\ listed' = listed
      BY <1>8, <1>t DEF InsertPartition
    <3>2. \A r \in Rows : table'[d].copies[r] =
                            IF r \in listed[l][d] \ todo'[l] THEN 1 ELSE 0
      BY <2>2, <3>1 DEF FillsItsTable
    <3>3. Held(d)' \subseteq listed[l][d]
      BY <3>2 DEF Held
    <3>4. OneVersion(listed[l][d])
      BY DEF IInv, OnePublicationListed
    <3> QED BY <3>2, <3>3, <3>4 DEF OneVersion
  <2>3. CASE d # step[l]
    BY <1>1, <1>8, <1>t, <2>1, <2>3, InsertEffect
  <2> QED BY <2>2, <2>3
<1>9. ASSUME NEW l \in Loaders, Load(l)
      PROVE  /\ \A r \in Rows : table'[d].copies[r] \in {0, 1}
             /\ OneVersion(Held(d)')
  BY <1>1, <1>5, <1>6, <1>7, <1>8, <1>9 DEF Load
<1>10. CASE UNCHANGED vars
  BY <1>1, <1>10 DEF vars
<1> QED BY <1>1, <1>2, <1>3, <1>4, <1>9, <1>10 DEF Next

LEMMA StepFirst == IInv /\ [Next]_vars => FirstIsLoaded'
<1> SUFFICES ASSUME IInv, [Next]_vars, ~together',
                    NEW k \in Loaders, pc'[k] \in Running, step'[k] = Second
             PROVE  Loaded(k, First)'
  BY DEF FirstIsLoaded
<1>t. Types /\ Alone /\ First # Second /\ First \in Datasets
  BY DatasetsDiffer DEF IInv
<1>1. CASE /\ ~together
           /\ pc[k] \in Running /\ step[k] = Second
           /\ \A r \in Rows : table'[First].copies[r] = table[First].copies[r]
           /\ listed'[k][First] = listed[k][First]
           /\ before'[k][First] = before[k][First]
  <2>1. Held(First)' = Held(First)
    BY <1>1, <1>t, SameHeld
  <2> QED BY <1>1, <2>1 DEF IInv, FirstIsLoaded, Loaded
<1>2. CASE Processing
  BY <1>1, <1>2, ProcessingLeavesLoads
<1>3. ASSUME NEW l \in Loaders, Start(l)
      PROVE  FALSE
  BY <1>3, <1>t, LoneStart
<1>4. ASSUME NEW l \in Loaders, Load(l) \/ \E how \in {"failed", "killed"} : Stop(l, how)
      PROVE  k = l /\ ~together /\ pc[k] \in Running
  BY <1>4, <1>t, LoneStep
<1>5. ASSUME NEW how \in {"failed", "killed"}, Stop(k, how)
      PROVE  Loaded(k, First)'
  BY <1>1, <1>4, <1>5, TablesKept DEF Stop, loader_vars
<1>6. CASE ReadDataset(k)
  <2>1. table' = table
    BY <1>6, TablesKept
  <2>2. CASE step[k] = Second
    <3>1. listed'[k][First] = listed[k][First] /\ before'[k][First] = before[k][First]
      BY <1>6, <1>t, <2>2 DEF ReadDataset, Types
    <3> QED BY <1>1, <1>4, <1>6, <2>1, <2>2, <3>1 DEF Load
  <2>3. CASE step[k] = First
    <3>1. curated[First].rows = {}
      BY <1>6, <1>t, <2>3 DEF ReadDataset, Types, SkipsEmpty
    <3>2. listed'[k][First] = {} /\ before'[k][First] = Held(First)
      BY <1>6, <1>t, <2>3, <3>1 DEF ReadDataset, Types, Held
    <3>3. Held(First)' = Held(First)
      BY <1>t, <2>1, SameHeld
    <3> QED BY <3>2, <3>3 DEF Loaded
  <2> QED BY <1>t, <2>2, <2>3, OnlyTwo DEF Types
<1>7. CASE DropTable(k)
  <2>1. UNCHANGED <<step, listed, before>>
    BY <1>7 DEF DropTable, loader_vars
  <2>2. \A r \in Rows : table'[First].copies[r] = table[First].copies[r]
    BY <1>7, <1>t, <2>1, DropEffect
  <2> QED BY <1>1, <1>4, <1>7, <2>1, <2>2 DEF Load
<1>8. CASE CreateTable(k)
  <2>1. UNCHANGED <<step, listed, before>>
    BY <1>8 DEF CreateTable, loader_vars
  <2>2. \A r \in Rows : table'[First].copies[r] = table[First].copies[r]
    BY <1>8, <1>t, CreateEffect
  <2> QED BY <1>1, <1>4, <1>8, <2>1, <2>2 DEF Load
<1>9. ASSUME NEW q \in todo[k], InsertPartition(k, q)
      PROVE  Loaded(k, First)'
  <2>1. UNCHANGED <<step, listed, before>>
    BY <1>9 DEF InsertPartition
  <2>2. \A r \in Rows : table'[First].copies[r] = table[First].copies[r]
    BY <1>9, <1>t, <2>1, InsertEffect
  <2> QED BY <1>1, <1>4, <1>9, <2>1, <2>2 DEF Load
<1>10. CASE FinishTable(k)
  <2>1. table' = table /\ UNCHANGED <<listed, before>>
    BY <1>10 DEF FinishTable
  <2>2. CASE step[k] = Second
    BY <1>1, <1>4, <1>10, <2>1, <2>2 DEF Load
  <2>3. CASE step[k] = First
    <3>1. ~together /\ pc[k] = "insert" /\ todo[k] = {}
      BY <1>4, <1>10 DEF Load, FinishTable
    <3>2. \A r \in Rows : table[First].copies[r] = IF r \in listed[k][First] THEN 1 ELSE 0
      BY <2>3, <3>1 DEF IInv, FillsItsTable
    <3>3. listed[k][First] \subseteq Rows /\ listed[k][First] # {}
      BY <1>t, <2>3, <3>1 DEF IInv, WorkIsListed, Writing, Types
    <3>4. Held(First) = listed[k][First]
      BY <3>2, <3>3 DEF Held
    <3>5. Held(First)' = Held(First)
      BY <1>t, <2>1, SameHeld
    <3> QED BY <2>1, <3>3, <3>4, <3>5 DEF Loaded
  <2> QED BY <1>t, <2>2, <2>3, OnlyTwo DEF Types
<1>11. ASSUME NEW l \in Loaders, Load(l)
       PROVE  Loaded(k, First)'
  <2>1. k = l
    BY <1>4, <1>11
  <2> QED BY <1>6, <1>7, <1>8, <1>9, <1>10, <1>11, <2>1 DEF Load
<1>12. ASSUME NEW l \in Loaders, NEW how \in {"failed", "killed"}, Stop(l, how)
       PROVE  Loaded(k, First)'
  <2>1. k = l
    BY <1>4, <1>12
  <2> QED BY <1>5, <1>12, <2>1
<1>13. CASE UNCHANGED vars
  BY <1>1, <1>13 DEF vars, loader_vars
<1> QED BY <1>2, <1>3, <1>11, <1>12, <1>13 DEF Next

-----------------------------------------------------------------------------
LEMMA InitIInv == Init => IInv
<1> SUFFICES ASSUME Init
             PROVE  IInv
  OBVIOUS
<1> USE DEF Init
<1>1. \A d \in Datasets, r \in Rows : table[d].copies[r] = 0
  BY DEF EmptyTable, NoCopies
<1>2. \A d \in Datasets : Held(d) = {}
  BY <1>1 DEF Held
<1>3. OnePublicationListed
  BY DEF OnePublicationListed, OneVersion, Missing
<1>4. WorkIsListed /\ Alone /\ FillsItsTable /\ FirstIsLoaded
  BY DEF WorkIsListed, Writing, Alone, FillsItsTable, FirstIsLoaded, Running
<1>5. TablesAreClean
  BY <1>1, <1>2 DEF TablesAreClean, OneVersion
<1> QED BY <1>3, <1>4, <1>5, InitTypes DEF IInv

LEMMA StepIInv == IInv /\ [Next]_vars => IInv'
BY StepTypes, StepListed, StepWork, StepAlone, StepFills, StepClean, StepFirst
   DEF IInv

LEMMA IInvAlways == Spec => []IInv
BY InitIInv, StepIInv, PTL DEF Spec

\* While loads run one after the other, a serving table never mixes publications
\* and never holds a row twice, however processing and the loads interleave and
\* wherever loads end.
THEOREM TablesAreOnePublication == Spec => []TableIsOnePublication
<1>1. IInv => TableIsOnePublication
  BY DEF IInv, TablesAreClean, TableIsOnePublication, OneVersion, Held
<1> QED BY <1>1, IInvAlways, PTL

\* While loads run one after the other, exit code 0 means that both tables hold
\* what the load listed.
THEOREM DoneIsLoaded == Spec => DoneMeansLoaded
<1>1. IInv /\ IInv' /\ [Next]_vars =>
        [~together => \A l \in Loaders : pc[l] # "done" /\ pc'[l] = "done" =>
           \A d \in Datasets :
             Held(d) = IF listed'[l][d] = {} THEN before'[l][d] ELSE listed'[l][d]]_vars
  <2> SUFFICES ASSUME IInv, Next, ~together,
                      NEW l \in Loaders, pc[l] # "done", pc'[l] = "done",
                      NEW d \in Datasets
               PROVE  Held(d) = IF listed'[l][d] = {} THEN before'[l][d]
                                ELSE listed'[l][d]
    OBVIOUS
  <2>t. Types /\ First # Second /\ (d = First \/ d = Second)
    BY DatasetsDiffer, OnlyTwo DEF IInv
  <2>1. ReadDataset(l) \/ FinishTable(l)
    <3>1. PICK k \in Loaders :
            Start(k) \/ Load(k) \/ \E how \in {"failed", "killed"} : Stop(k, how)
      BY ProcessingLeavesLoads DEF Next
    <3>2. \A m \in Loaders \ {k} : pc'[m] = pc[m]
      BY <3>1, <2>t DEF Types, Load, Start, ReadDataset, DropTable, CreateTable,
                        InsertPartition, FinishTable, Stop
    <3>3. k = l
      BY <3>2
    <3>4. ~DropTable(l) /\ ~CreateTable(l) /\ ~Start(l)
      BY <2>t DEF Types, DropTable, CreateTable, Start
    <3>5. \A r \in todo[l] : ~InsertPartition(l, r)
      BY DEF InsertPartition
    <3>6. \A how \in {"failed", "killed"} : ~Stop(l, how)
      BY <2>t DEF Types, Stop
    <3> QED BY <3>1, <3>3, <3>4, <3>5, <3>6 DEF Load
  <2>2. step[l] = Second /\ pc[l] \in Running
    <3>1. step[l] \in {First, Second}
      BY <2>t, OnlyTwo DEF Types
    <3>2. CASE ReadDataset(l)
      <4>1. pc'[l] \in {AfterStep(l), WritePhase}
        BY <2>t, <3>2 DEF ReadDataset, Types
      <4> QED BY <4>1, <3>1, <3>2 DEF AfterStep, WritePhase, ReadDataset, Running
    <3>3. CASE FinishTable(l)
      <4>1. pc'[l] = AfterStep(l)
        BY <2>t, <3>3 DEF FinishTable, Types
      <4> QED BY <4>1, <3>1, <3>3 DEF AfterStep, FinishTable, Running
    <3> QED BY <2>1, <3>2, <3>3
  <2>3. Loaded(l, First)
    BY <2>2 DEF IInv, FirstIsLoaded
  <2>4. CASE ReadDataset(l)
    <3>1. curated[Second].rows = {}
      BY <2>t, <2>2, <2>4 DEF ReadDataset, Types, SkipsEmpty, WritePhase
    <3>2. listed'[l][Second] = {} /\ before'[l][Second] = Held(Second)
      BY <2>t, <2>2, <2>4, <3>1, DatasetsDiffer DEF ReadDataset, Types, Held
    <3>3. listed'[l][First] = listed[l][First] /\ before'[l][First] = before[l][First]
      BY <2>t, <2>2, <2>4 DEF ReadDataset, Types
    <3> QED BY <2>t, <2>3, <3>2, <3>3 DEF Loaded
  <2>5. CASE FinishTable(l)
    <3>1. UNCHANGED <<listed, before>> /\ pc[l] = "insert" /\ todo[l] = {}
      BY <2>5 DEF FinishTable
    <3>2. \A r \in Rows : table[Second].copies[r] = IF r \in listed[l][Second] THEN 1 ELSE 0
      BY <2>2, <3>1 DEF IInv, FillsItsTable
    <3>3. listed[l][Second] \subseteq Rows /\ listed[l][Second] # {}
      BY <2>t, <2>2, <3>1, DatasetsDiffer DEF IInv, WorkIsListed, Writing, Types
    <3>4. Held(Second) = listed[l][Second]
      BY <3>2, <3>3 DEF Held
    <3> QED BY <2>t, <2>3, <3>1, <3>3, <3>4 DEF Loaded
  <2> QED BY <2>1, <2>4, <2>5
<1> QED BY <1>1, IInvAlways, PTL DEF Spec, DoneMeansLoaded

\* However many loaders run together: a table is dropped only by a loader that
\* holds every row it listed for it, and has listed some.
THEOREM DropsAreRefilled == Spec => OnlyRefilledTablesAreDropped
<1>1. IInv /\ [Next]_vars =>
        [\A d \in Datasets : table[d].exists /\ ~table'[d].exists =>
           \E l \in Loaders : step[l] = d /\ todo[l] # {} /\ todo[l] = listed[l][d]]_vars
  <2> SUFFICES ASSUME IInv, Next,
                      NEW d \in Datasets, table[d].exists, ~table'[d].exists
               PROVE  \E l \in Loaders :
                        step[l] = d /\ todo[l] # {} /\ todo[l] = listed[l][d]
    OBVIOUS
  <2>t. Types
    BY DEF IInv
  <2>1. PICK l \in Loaders : Load(l)
    BY ProcessingLeavesLoads, TablesKept DEF Next
  <2>2. ASSUME CreateTable(l)
        PROVE  FALSE
    <3> DEFINE created == [table[step[l]] EXCEPT !.exists = TRUE]
    <3>1. step[l] \in Datasets /\ table[step[l]] \in [exists : BOOLEAN, copies : [Rows -> Nat]]
      BY <2>t DEF Types
    <3>2. created.exists
      BY <3>1
    <3>3. table' = table \/ table' = [table EXCEPT ![step[l]] = created]
      BY <2>2 DEF CreateTable
    <3> HIDE DEF created
    <3> QED BY <2>t, <3>1, <3>2, <3>3 DEF Types
  <2>3. ASSUME NEW r \in todo[l], InsertPartition(l, r)
        PROVE  FALSE
    <3> DEFINE more   == [table[step[l]].copies EXCEPT ![r] = @ + 1]
               filled == [table[step[l]] EXCEPT !.copies = more]
    <3>1. step[l] \in Datasets /\ table[step[l]] \in [exists : BOOLEAN, copies : [Rows -> Nat]]
      BY <2>t DEF Types
    <3>2. filled.exists = table[step[l]].exists
      BY <3>1
    <3>3. table' = [table EXCEPT ![step[l]] = filled]
      BY <2>3 DEF InsertPartition
    <3> HIDE DEF filled, more
    <3> QED BY <2>t, <3>1, <3>2, <3>3 DEF Types
  <2>4. DropTable(l)
    BY <2>1, <2>2, <2>3, TablesKept DEF Load
  <2>5. step[l] = d
    BY <2>t, <2>4 DEF DropTable, Types
  <2>6. pc[l] = "drop"
    BY <2>4 DEF DropTable
  <2> QED BY <2>5, <2>6 DEF IInv, WorkIsListed, Writing
<1> QED BY <1>1, IInvAlways, PTL DEF Spec, OnlyRefilledTablesAreDropped

-----------------------------------------------------------------------------
\* The loads that may still insert row r into the table of dataset d.
Inserters(d, r) ==
  {l \in Loaders : /\ pc[l] \in Running
                   /\ \/ step[l] = d /\ (pc[l] = "read" \/ r \in todo[l])
                      \/ step[l] = First /\ d = Second}

\* Each load that was started has put row r into the table of d, may still do so,
\* or never will: loads that run together add up and do no worse.
CopiesAreCounted ==
  \A d \in Datasets, r \in Rows :
    table[d].copies[r] + Cardinality(Inserters(d, r)) <= loads

LEMMA InsertersAreFinite ==
  \A d \in Datasets, r \in Rows :
    IsFiniteSet(Inserters(d, r)) /\ Cardinality(Inserters(d, r)) \in Nat
BY LoadersAssumption, FS_Subset, FS_CardinalityType DEF Inserters

LEMMA InitCounted == Init => CopiesAreCounted
<1> SUFFICES ASSUME Init, NEW d \in Datasets, NEW r \in Rows
             PROVE  table[d].copies[r] + Cardinality(Inserters(d, r)) <= loads
  BY DEF CopiesAreCounted
<1>1. Inserters(d, r) = {}
  BY DEF Init, Inserters, Running
<1>2. table[d].copies[r] = 0 /\ loads = 0
  BY DEF Init, EmptyTable, NoCopies
<1> QED BY <1>1, <1>2, FS_EmptySet

LEMMA StepCounted ==
  Types /\ Types' /\ CopiesAreCounted /\ [Next]_vars => CopiesAreCounted'
<1> SUFFICES ASSUME Types, Types', CopiesAreCounted, [Next]_vars,
                    NEW d \in Datasets, NEW r \in Rows
             PROVE  table'[d].copies[r] + Cardinality(Inserters(d, r)') <= loads'
  BY DEF CopiesAreCounted
<1> DEFINE Some  == Inserters(d, r)
           Some2 == Inserters(d, r)'
<1>a. /\ IsFiniteSet(Some) /\ Cardinality(Some) \in Nat
      /\ table[d].copies[r] + Cardinality(Some) <= loads
  BY InsertersAreFinite DEF CopiesAreCounted
<1>b. IsFiniteSet(Some2) /\ Cardinality(Some2) \in Nat
  BY LoadersAssumption, FS_Subset, FS_CardinalityType DEF Inserters
<1>c. table[d].copies[r] \in Nat /\ table'[d].copies[r] \in Nat /\ loads \in Nat
  BY BoundsAssumption DEF Types
<1>d. First # Second
  BY DatasetsDiffer
<1>1. ASSUME Some2 \subseteq Some, loads' = loads,
             table'[d].copies[r] <= table[d].copies[r]
      PROVE  table'[d].copies[r] + Cardinality(Some2) <= loads'
  <2>1. Cardinality(Some2) <= Cardinality(Some)
    BY <1>1, <1>a, FS_Subset
  <2> QED BY <1>1, <1>a, <1>b, <1>c, <2>1
<1>2. CASE UNCHANGED <<loads, pc, step, todo, table>>
  BY <1>1, <1>2, <1>c DEF Inserters
<1>3. ASSUME NEW l \in Loaders, Start(l)
      PROVE  table'[d].copies[r] + Cardinality(Some2) <= loads'
  <2>1. table' = table /\ loads' = loads + 1 /\ pc[l] \notin Running
    BY <1>3 DEF Start, Ended, Running
  <2>2. Some2 \subseteq Some \cup {l} /\ l \notin Some
    BY <1>3, <2>1 DEF Types, Start, Inserters
  <2>3. IsFiniteSet(Some \cup {l}) /\ Cardinality(Some \cup {l}) = Cardinality(Some) + 1
    BY <1>a, <2>2, FS_AddElement
  <2>4. Cardinality(Some2) <= Cardinality(Some) + 1
    BY <2>2, <2>3, FS_Subset
  <2> QED BY <1>a, <1>b, <1>c, <2>1, <2>4
<1>4. ASSUME NEW l \in Loaders, ReadDataset(l)
      PROVE  table'[d].copies[r] + Cardinality(Some2) <= loads'
  <2>1. Some2 \subseteq Some
    <3>1. \A k \in Loaders \ {l} :
            pc'[k] = pc[k] /\ step'[k] = step[k] /\ todo'[k] = todo[k]
      BY <1>4 DEF Types, ReadDataset
    <3>2. pc[l] = "read" /\ pc[l] \in Running
      BY <1>4 DEF ReadDataset, Running
    <3>3. CASE SkipsEmpty(curated[step[l]].rows)
      <4>1. pc'[l] = AfterStep(l) /\ step'[l] = Second
        BY <1>4, <3>3 DEF Types, ReadDataset
      <4>2. step[l] = First \/ pc'[l] \notin Running
        BY <4>1 DEF AfterStep, Running
      <4> QED BY <1>d, <3>1, <3>2, <4>1, <4>2 DEF Inserters
    <3>4. CASE ~SkipsEmpty(curated[step[l]].rows)
      <4>1. step'[l] = step[l]
        BY <1>4, <3>4 DEF Types, ReadDataset
      <4> QED BY <3>1, <3>2, <4>1 DEF Inserters
    <3> QED BY <3>3, <3>4
  <2> QED BY <1>1, <1>4, <1>c, <2>1 DEF ReadDataset
<1>5. ASSUME NEW l \in Loaders, DropTable(l) \/ CreateTable(l)
      PROVE  table'[d].copies[r] + Cardinality(Some2) <= loads'
  <2>1. table'[d].copies[r] <= table[d].copies[r]
    BY <1>5, <1>c, DropEffect, CreateEffect
  <2>2. UNCHANGED <<loads, step, todo>> /\ pc[l] \in Running /\ pc[l] # "read"
    BY <1>5 DEF DropTable, CreateTable, loader_vars, Running
  <2>3. pc'[l] # "read" /\ \A k \in Loaders \ {l} : pc'[k] = pc[k]
    BY <1>5 DEF Types, DropTable, CreateTable
  <2>4. Some2 \subseteq Some
    BY <2>2, <2>3 DEF Inserters
  <2> QED BY <1>1, <2>1, <2>2, <2>4
<1>6. ASSUME NEW l \in Loaders, NEW q \in todo[l], InsertPartition(l, q)
      PROVE  table'[d].copies[r] + Cardinality(Some2) <= loads'
  <2>1. /\ UNCHANGED <<loads, pc, step>> /\ pc[l] = "insert" /\ pc[l] \in Running
        /\ todo'[l] = todo[l] \ {q}
        /\ \A k \in Loaders \ {l} : todo'[k] = todo[k]
    BY <1>6 DEF Types, InsertPartition, Running
  <2>2. Some2 \subseteq Some
    BY <2>1 DEF Inserters
  <2>3. CASE d = step[l] /\ r = q
    <3>1. l \in Some /\ Some2 \subseteq Some \ {l}
      BY <1>d, <2>1, <2>2, <2>3 DEF Inserters
    <3>2. /\ IsFiniteSet(Some \ {l})
          /\ Cardinality(Some \ {l}) = Cardinality(Some) - 1
      BY <1>a, <3>1, FS_RemoveElement
    <3>3. Cardinality(Some2) <= Cardinality(Some) - 1
      BY <3>1, <3>2, FS_Subset
    <3>4. table'[d].copies[r] = table[d].copies[r] + 1
      BY <1>6, <2>3, InsertEffect
    <3> QED BY <1>a, <1>b, <1>c, <2>1, <3>3, <3>4
  <2>4. CASE ~(d = step[l] /\ r = q)
    <3>1. table'[d].copies[r] = table[d].copies[r]
      BY <1>6, <2>4, InsertEffect
    <3> QED BY <1>1, <1>c, <2>1, <2>2, <3>1
  <2> QED BY <2>3, <2>4
<1>7. ASSUME NEW l \in Loaders, FinishTable(l)
      PROVE  table'[d].copies[r] + Cardinality(Some2) <= loads'
  <2>1. /\ UNCHANGED <<loads, todo, table>> /\ todo[l] = {} /\ pc[l] \in Running
        /\ pc'[l] = AfterStep(l) /\ step'[l] = Second
        /\ \A k \in Loaders \ {l} : pc'[k] = pc[k] /\ step'[k] = step[k]
    BY <1>7 DEF Types, FinishTable, Running
  <2>2. step[l] = First \/ pc'[l] \notin Running
    BY <2>1 DEF AfterStep, Running
  <2>3. Some2 \subseteq Some
    BY <1>d, <2>1, <2>2 DEF Inserters
  <2> QED BY <1>1, <1>c, <2>1, <2>3
<1>8. ASSUME NEW l \in Loaders, NEW how \in {"failed", "killed"}, Stop(l, how)
      PROVE  table'[d].copies[r] + Cardinality(Some2) <= loads'
  <2>1. /\ UNCHANGED <<loads, step, todo, table>> /\ pc'[l] \notin Running
        /\ \A k \in Loaders \ {l} : pc'[k] = pc[k]
    BY <1>8 DEF Types, Stop, loader_vars, Running
  <2>2. Some2 \subseteq Some
    BY <2>1 DEF Inserters
  <2> QED BY <1>1, <1>c, <2>1, <2>2
<1>9. CASE Processing
  BY <1>2, <1>9, ProcessingLeavesLoads
<1>10. CASE UNCHANGED vars
  BY <1>2, <1>10 DEF vars, loader_vars
<1> QED BY <1>3, <1>4, <1>5, <1>6, <1>7, <1>8, <1>9, <1>10 DEF Next, Load

\* Type correctness, with the bound on copies: a row is in a table at most as often
\* as loads were started, even if they run side by side.
THEOREM TypeCorrect == Spec => []TypeOK
<1>1. Types /\ CopiesAreCounted => TypeOK
  <2> SUFFICES ASSUME Types, CopiesAreCounted
               PROVE  table \in [Datasets ->
                                   [exists : BOOLEAN, copies : [Rows -> 0 .. MaxLoads]]]
    BY DEF Types, TypeOK
  <2>1. \A d \in Datasets, r \in Rows : table[d].copies[r] \in 0 .. MaxLoads
    BY InsertersAreFinite, BoundsAssumption DEF Types, CopiesAreCounted
  <2>2. \A d \in Datasets :
          table[d] \in [exists : BOOLEAN, copies : [Rows -> 0 .. MaxLoads]]
    BY <2>1 DEF Types
  <2> QED BY <2>2 DEF Types
<1>2. Init => Types /\ CopiesAreCounted
  BY InitTypes, InitCounted
<1>3. Types /\ CopiesAreCounted /\ [Next]_vars => Types' /\ CopiesAreCounted'
  BY StepTypes, StepCounted
<1> QED BY <1>1, <1>2, <1>3, PTL DEF Spec

-----------------------------------------------------------------------------
\* Requests only read: what the loader and its tables do is SparkLoader's doing.
LEMMA ReadersDoNotWrite == [NextReads]_all_vars => [Next]_vars
<1> SUFFICES ASSUME NextReads
             PROVE  [Next]_vars
  BY DEF all_vars
<1>1. CASE Processing
  BY <1>1 DEF Next
<1>2. ASSUME NEW l \in Loaders, Start(l) \/ Step(l) \/ Break(l)
      PROVE  [Next]_vars
  <2>1. Start(l) \/ Load(l) \/ UNCHANGED vars
               \/ \E how \in {"failed", "killed"} : Stop(l, how)
    BY <1>2 DEF Step, Break, AskToDrop, Drop, LoadOn, Raise, Load
  <2> QED BY <2>1 DEF Next
<1>3. ASSUME NEW r \in Requests, Serve(r) \/ \E q \in Questions : Ask(r, q)
      PROVE  UNCHANGED vars
  BY <1>3 DEF Serve, Query, GiveBack, Ask
<1> QED BY <1>1, <1>2, <1>3 DEF NextReads

LEMMA ImplementsLoader == SpecReads => Spec
<1>1. InitReads => Init
  BY DEF InitReads
<1> QED BY <1>1, ReadersDoNotWrite, PTL DEF SpecReads, Spec

\* Only these actions take or answer requests.
LEMMA LoadersDoNotAsk ==
  NextReads => \/ UNCHANGED reader_vars
               \/ \E r \in Requests : Query(r)
               \/ \E r \in Requests : /\ UNCHANGED <<vars, newest, queued>>
                                      /\ \/ GiveBack(r)
                                         \/ \E q \in Questions : Ask(r, q)
BY DEF NextReads, Step, Break, AskToDrop, Drop, LoadOn, Raise, Serve, GiveBack, Ask

LEMMA InitReadsTypeOK == InitReads => ReadsTypeOK
BY BoundsAssumption DEF InitReads, ReadsTypeOK

LEMMA AboutQuestions ==
  ASSUME ReadsTypeOK, NEW r \in Requests, request[r].at \in {"asking", "reading"}
  PROVE  /\ request[r] \in [at : {"asking", "reading"}, about : Questions]
         /\ request[r].about \in Questions
         /\ request[r].about.table \in Datasets
<1>1. request[r] # Unused
  BY DEF Unused
<1>2. request[r] \in [at : {"asking", "reading"}, about : Questions]
  BY <1>1 DEF ReadsTypeOK
<1> QED BY <1>2 DEF Questions

\* What a query adds to the history of a user's answers.
LEMMA NewestAnswer ==
  ASSUME ReadsTypeOK, Types, NEW r \in Requests, Query(r), NEW q \in Questions
  PROVE  \/ newest'[q] = newest[q]
         \/ \E row \in Held(q.table) : newest'[q] = row.version
<1> DEFINE about == request[r].about
           newer == {row \in Result(about) : row.version > newest[about]}
<1>1. about \in Questions
  BY AboutQuestions DEF Query
<1>2. newer # {} => (CHOOSE row \in newer : TRUE) \in Held(about.table)
  BY DEF Result
<1>3. newest' = [newest EXCEPT ![about] =
                   IF newer = {} THEN newest[about]
                   ELSE (CHOOSE row \in newer : TRUE).version]
  BY DEF Query
<1> HIDE DEF newer, about
<1> QED BY <1>1, <1>2, <1>3 DEF ReadsTypeOK

LEMMA StepReadsTypeOK ==
  ReadsTypeOK /\ Types /\ [NextReads]_all_vars => ReadsTypeOK'
<1> SUFFICES ASSUME ReadsTypeOK, Types, [NextReads]_all_vars
             PROVE  ReadsTypeOK'
  OBVIOUS
<1>1. CASE UNCHANGED all_vars
  BY <1>1 DEF all_vars, vars, reader_vars, ReadsTypeOK
<1> DEFINE Request == {Unused} \cup [at : {"asking", "reading"}, about : Questions]
<1>2. ASSUME NextReads
      PROVE  request' \in [Requests -> Request] /\ newest' \in [Questions -> 0 .. MaxVersion]
  <2>1. CASE UNCHANGED reader_vars
    BY <2>1 DEF reader_vars, ReadsTypeOK
  <2>2. ASSUME NEW r \in Requests, Query(r)
        PROVE  request' \in [Requests -> Request] /\ newest' \in [Questions -> 0 .. MaxVersion]
    <3>1. request[r] \in [at : {"asking", "reading"}, about : Questions]
      BY <2>2, AboutQuestions DEF Query
    <3>2. [request[r] EXCEPT !.at = "reading"] \in Request
      BY <3>1
    <3>3. \E next \in Request : request' = [request EXCEPT ![r] = next]
      BY <2>2, <3>2 DEF Query
    <3>4. request' \in [Requests -> Request]
      BY <3>3 DEF ReadsTypeOK
    <3>5. \A q \in Questions : newest'[q] \in 0 .. MaxVersion
      <4>1. \A q \in Questions : newest[q] \in 0 .. MaxVersion
        BY DEF ReadsTypeOK
      <4>2. \A row \in Rows : row.version \in 0 .. MaxVersion
        BY BoundsAssumption DEF Rows
      <4>3. \A d \in Datasets : Held(d) \subseteq Rows
        BY DEF Held
      <4>4. \A q \in Questions : q.table \in Datasets
        BY DEF Questions
      <4> QED BY <2>2, <4>1, <4>2, <4>3, <4>4, NewestAnswer
    <3>6. \E v : newest' = [newest EXCEPT ![request[r].about] = v]
      BY <2>2 DEF Query
    <3>7. newest' \in [Questions -> 0 .. MaxVersion]
      BY <3>5, <3>6 DEF ReadsTypeOK
    <3> QED BY <3>4, <3>7
  <2>3. ASSUME NEW r \in Requests, UNCHANGED <<vars, newest, queued>>,
               GiveBack(r) \/ \E q \in Questions : Ask(r, q)
        PROVE  request' \in [Requests -> Request] /\ newest' \in [Questions -> 0 .. MaxVersion]
    <3>1. \E next \in Request : request' = [request EXCEPT ![r] = next]
      BY <2>3 DEF GiveBack, Ask
    <3> QED BY <2>3, <3>1 DEF ReadsTypeOK
  <2> QED BY <1>2, <2>1, <2>2, <2>3, LoadersDoNotAsk
<1>3. ASSUME NextReads
      PROVE  queued' \subseteq {l \in Loaders : pc'[l] = "drop"}
  <2> SUFFICES ASSUME NEW k \in queued'
               PROVE  k \in Loaders /\ pc'[k] = "drop"
    OBVIOUS
  <2>q. \A l \in queued : l \in Loaders /\ pc[l] = "drop"
    BY DEF ReadsTypeOK
  <2>1. CASE UNCHANGED <<pc, queued>>
    BY <2>1, <2>q
  <2>2. ASSUME NEW l \in Loaders, AskToDrop(l)
        PROVE  k \in Loaders /\ pc'[k] = "drop"
    BY <2>2, <2>q DEF AskToDrop, vars
  <2>3. ASSUME NEW l \in Loaders, Drop(l)
        PROVE  k \in Loaders /\ pc'[k] = "drop"
    BY <2>3, <2>q DEF Drop, DropTable, Types
  <2>4. ASSUME NEW l \in Loaders, Break(l)
        PROVE  k \in Loaders /\ pc'[k] = "drop"
    BY <2>4, <2>q DEF Break, Stop, Types
  <2>5. ASSUME NEW l \in Loaders, Start(l) \/ LoadOn(l) \/ Raise(l),
               queued' = queued
        PROVE  k \in Loaders /\ pc'[k] = "drop"
    <3>1. pc[l] # "drop"
      BY <2>5 DEF Start, Ended, LoadOn, ReadDataset, CreateTable, InsertPartition,
                  FinishTable, Raise
    <3>2. \A m \in Loaders \ {l} : pc'[m] = pc[m]
      BY <2>5 DEF Types, Start, LoadOn, ReadDataset, CreateTable, InsertPartition,
                  FinishTable, Raise, Stop
    <3> QED BY <2>5, <2>q, <3>1, <3>2
  <2>6. CASE Processing /\ UNCHANGED <<reader_vars, queued>>
    BY <2>1, <2>6, ProcessingLeavesLoads
  <2>7. ASSUME NEW r \in Requests, Serve(r) \/ \E q \in Questions : Ask(r, q)
        PROVE  UNCHANGED <<pc, queued>>
    BY <2>7 DEF Serve, Query, GiveBack, Ask, vars
  <2>8. ASSUME NEW l \in Loaders, Step(l)
        PROVE  k \in Loaders /\ pc'[k] = "drop"
    BY <2>2, <2>3, <2>5, <2>8 DEF Step, LoadOn, Raise
  <2>9. ASSUME NEW l \in Loaders, Start(l), UNCHANGED <<reader_vars, queued>>
        PROVE  k \in Loaders /\ pc'[k] = "drop"
    BY <2>5, <2>9
  <2> QED BY <1>3, <2>1, <2>4, <2>6, <2>7, <2>8, <2>9 DEF NextReads
<1> QED BY <1>1, <1>2, <1>3 DEF ReadsTypeOK

\* Type correctness of the requests, of the lock queue and of what users have seen.
THEOREM ReadsTypeCorrect == SpecReads => []ReadsTypeOK
<1>1. SpecReads => []Types
  BY ImplementsLoader, IInvAlways, PTL DEF IInv
<1> QED BY <1>1, InitReadsTypeOK, StepReadsTypeOK, PTL DEF SpecReads

-----------------------------------------------------------------------------
\* While loads run one after the other, an answer is rows of one publication, each
\* of them once: the request sees a table half full, never a mixture.
THEOREM AnswersAreOfOnePublication == SpecReads => AnswersAreOnePublication
<1>1. IInv /\ ReadsTypeOK /\ [NextReads]_all_vars =>
        [~together => \A r \in Requests : Answered(r) =>
           /\ \A row, other \in Answer(r) : row.version = other.version
           /\ \A row \in Answer(r) : table[request[r].about.table].copies[row] = 1]_all_vars
  <2> SUFFICES ASSUME IInv, ReadsTypeOK, ~together, NEW r \in Requests, Answered(r)
               PROVE  /\ \A row, other \in Answer(r) : row.version = other.version
                      /\ \A row \in Answer(r) : table[request[r].about.table].copies[row] = 1
    OBVIOUS
  <2> DEFINE d == request[r].about.table
  <2>1. d \in Datasets
    BY AboutQuestions DEF Answered
  <2>2. Answer(r) \subseteq Held(d)
    BY DEF Answer, Result
  <2>3. TableIsOnePublication
    BY DEF IInv, TablesAreClean, TableIsOnePublication, OneVersion, Held
  <2> QED BY <2>1, <2>2, <2>3 DEF TableIsOnePublication
<1>2. SpecReads => []IInv
  BY ImplementsLoader, IInvAlways, PTL
<1> QED BY <1>1, <1>2, ReadsTypeCorrect, PTL DEF SpecReads, AnswersAreOnePublication

-----------------------------------------------------------------------------
\* Nothing of dataset d that is in its table, that a loader has listed or that a
\* user has been shown is of a later publication than v.
UpTo(d, v) ==
  /\ \A row \in Held(d) : row.version <= v
  /\ \A l \in Loaders : \A row \in listed[l][d] : row.version <= v
  /\ \A q \in Questions : q.table = d => newest[q] <= v

\* What processing has published, or is publishing, is the latest there is.
LatestIsCurated ==
  \A d \in Datasets :
    /\ UpTo(d, version)
    /\ \A row \in curated[d].rows \cup coming[d] :
         row.version <= version /\ UpTo(d, row.version)

\* The table of a lone loader, and what the loader will put into it, are no older
\* than what users have been shown; the listing is no older than the table.
NothingGoesBack ==
  ~together => \A q \in Questions :
    /\ \A row \in Held(q.table) : row.version >= newest[q]
    /\ \A l \in Loaders : pc[l] \in Writing /\ step[l] = q.table =>
         \A row \in listed[l][q.table] :
           /\ row.version >= newest[q]
           /\ \A held \in Held(q.table) : row.version >= held.version

OrderInv == IInv /\ ReadsTypeOK /\ LatestIsCurated /\ NothingGoesBack

LEMMA VersionsAreNumbers ==
  /\ \A row \in Rows : row.version \in Nat
  /\ \A d \in Datasets : Held(d) \subseteq Rows
  /\ Types => version \in Nat
  /\ Types => \A d \in Datasets : curated[d].rows \cup coming[d] \subseteq Rows
  /\ Types => \A l \in Loaders, d \in Datasets : listed[l][d] \subseteq Rows
  /\ ReadsTypeOK => \A q \in Questions : newest[q] \in Nat
  /\ \A q \in Questions : q.table \in Datasets
<1>1. \A row \in Rows : row.version \in Nat
  BY BoundsAssumption DEF Rows
<1>2. Types => version \in Nat
  BY BoundsAssumption DEF Types
<1>3. ReadsTypeOK => \A q \in Questions : newest[q] \in Nat
  BY BoundsAssumption DEF ReadsTypeOK
<1>4. Types => \A d \in Datasets : curated[d].rows \cup coming[d] \subseteq Rows
  BY DEF Types
<1>5. Types => \A l \in Loaders, d \in Datasets : listed[l][d] \subseteq Rows
  BY DEF Types
<1> QED BY <1>1, <1>2, <1>3, <1>4, <1>5 DEF Held, Questions

LEMMA QueryOrLoader ==
  NextReads => \/ \E r \in Requests : Query(r) /\ UNCHANGED vars
               \/ newest' = newest
BY LoadersDoNotAsk DEF reader_vars, Query

\* What a step of the loaders puts into a table was listed before, and what it
\* lists is curated.
LEMMA HeldWasListed ==
  ASSUME IInv, [Next]_vars, NEW d \in Datasets, NEW row \in Held(d)'
  PROVE  row \in Held(d) \/ \E l \in Loaders : row \in listed[l][d]
<1>t. Types
  BY DEF IInv
<1>r. row \in Rows /\ table'[d].copies[row] > 0
  BY DEF Held
<1>1. CASE table'[d].copies[row] = table[d].copies[row]
  BY <1>1, <1>r DEF Held
<1>2. ASSUME NEW l \in Loaders, DropTable(l)
      PROVE  table'[d].copies[row] = table[d].copies[row]
  BY <1>2, <1>t, <1>r, DropEffect
<1>3. ASSUME NEW l \in Loaders, CreateTable(l)
      PROVE  table'[d].copies[row] = table[d].copies[row]
  BY <1>3, <1>t, CreateEffect
<1>4. ASSUME NEW l \in Loaders, NEW r \in todo[l], InsertPartition(l, r)
      PROVE  row \in Held(d) \/ \E k \in Loaders : row \in listed[k][d]
  <2>1. CASE d = step[l] /\ row = r
    BY <1>4, <2>1 DEF IInv, WorkIsListed, Writing, InsertPartition
  <2>2. CASE ~(d = step[l] /\ row = r)
    BY <1>1, <1>4, <1>t, <1>r, <2>2, InsertEffect
  <2> QED BY <2>1, <2>2
<1>5. ASSUME NEW l \in Loaders,
             \/ Start(l) \/ ReadDataset(l) \/ FinishTable(l)
             \/ \E how \in {"failed", "killed"} : Stop(l, how)
      PROVE  table' = table
  BY <1>5, TablesKept
<1>6. Processing \/ UNCHANGED vars => table' = table
  BY ProcessingLeavesLoads DEF vars
<1> QED BY <1>1, <1>2, <1>3, <1>4, <1>5, <1>6 DEF Next, Load

LEMMA ListedWasCurated ==
  ASSUME Types, [Next]_vars, NEW l \in Loaders, NEW d \in Datasets,
         NEW row \in listed'[l][d]
  PROVE  row \in listed[l][d] \/ row \in curated[d].rows
<1>1. CASE listed' = listed
  BY <1>1
<1>2. ASSUME NEW k \in Loaders, Start(k)
      PROVE  row \in listed[l][d]
  BY <1>2 DEF Start, Types
<1>3. ASSUME NEW k \in Loaders, ReadDataset(k)
      PROVE  row \in listed[l][d] \/ row \in curated[d].rows
  BY <1>3 DEF ReadDataset, Types
<1>4. ASSUME NEW k \in Loaders, ~ReadDataset(k),
             Load(k) \/ \E how \in {"failed", "killed"} : Stop(k, how)
      PROVE  listed' = listed
  BY <1>4 DEF Load, DropTable, CreateTable, InsertPartition, FinishTable, Stop,
              loader_vars
<1>5. Processing \/ UNCHANGED vars => listed' = listed
  BY ProcessingLeavesLoads DEF vars, loader_vars
<1> QED BY <1>1, <1>2, <1>3, <1>4, <1>5 DEF Next

LEMMA VersionIsCounted ==
  Types /\ [Next]_vars => version' = version \/ version' = version + 1
BY DEF Next, Processing, Overwrite, PublishPart, PublishEmpty, Start, Load,
       ReadDataset, DropTable, CreateTable, InsertPartition, FinishTable, Stop,
       vars, zone_vars

\* What is curated is what was, or the next publication.
LEMMA PublishedWasComing ==
  ASSUME Types, [Next]_vars, NEW d \in Datasets,
         NEW row \in curated'[d].rows \cup coming'[d]
  PROVE  row \in curated[d].rows \cup coming[d] \/ row.version = version'
<1>1. CASE UNCHANGED <<curated, coming>>
  BY <1>1
<1>2. ASSUME NEW c \in Datasets, NEW students \in SUBSET Students,
             Overwrite(c, students)
      PROVE  row \in curated[d].rows \cup coming[d] \/ row.version = version'
  <2>1. CASE c = d
    <3>1. curated'[d].rows = {}
      BY <1>2, <2>1 DEF Overwrite, Types, Missing
    <3>2. coming'[d] = [student : students, version : {version'}]
      BY <1>2, <2>1 DEF Overwrite, Types
    <3> QED BY <3>1, <3>2
  <2>2. CASE c # d
    BY <1>2, <2>2 DEF Overwrite, Types
  <2> QED BY <2>1, <2>2
<1>3. ASSUME NEW c \in Datasets, NEW r \in coming[c], PublishPart(c, r)
      PROVE  row \in curated[d].rows \cup coming[d]
  BY <1>3 DEF PublishPart, Types
<1>4. ASSUME NEW c \in Datasets, PublishEmpty(c)
      PROVE  row \in curated[d].rows \cup coming[d]
  <2> DEFINE there == [curated[c] EXCEPT !.exists = TRUE]
  <2>1. curated[c] \in [exists : BOOLEAN, rows : SUBSET Rows]
    BY DEF Types
  <2>2. there.rows = curated[c].rows
    BY <2>1
  <2>3. curated' = [curated EXCEPT ![c] = there] /\ coming' = coming
    BY <1>4 DEF PublishEmpty
  <2> HIDE DEF there
  <2> QED BY <2>2, <2>3 DEF Types
<1>5. ASSUME NEW l \in Loaders,
             Start(l) \/ Load(l) \/ \E how \in {"failed", "killed"} : Stop(l, how)
      PROVE  UNCHANGED <<curated, coming>>
  BY <1>5 DEF Start, Load, ReadDataset, DropTable, CreateTable, InsertPartition,
              FinishTable, Stop, zone_vars
<1>6. CASE UNCHANGED vars
  BY <1>1, <1>6 DEF vars, zone_vars
<1> QED BY <1>1, <1>2, <1>3, <1>4, <1>5, <1>6 DEF Next, Processing

LEMMA StepLatest ==
  OrderInv /\ [NextReads]_all_vars => LatestIsCurated'
<1> SUFFICES ASSUME OrderInv, [NextReads]_all_vars, NEW d \in Datasets
             PROVE  /\ UpTo(d, version)'
                    /\ \A row \in curated'[d].rows \cup coming'[d] :
                         row.version <= version' /\ UpTo(d, row.version)'
  BY DEF LatestIsCurated
<1>t. Types /\ IInv /\ ReadsTypeOK /\ LatestIsCurated /\ [Next]_vars
  BY ReadersDoNotWrite DEF OrderInv, IInv
<1> DEFINE AreUpTo(v) == UpTo(d, v) /\ \A row \in curated[d].rows : row.version <= v
\* Whatever bounds the tables, the listings, the answers and what is curated still
\* bounds them after a step.
<1>1. ASSUME NEW v \in Nat, AreUpTo(v)
      PROVE  UpTo(d, v)'
  <2>1. \A row \in Held(d)' : row.version <= v
    BY <1>1, <1>t, HeldWasListed DEF UpTo
  <2>2. \A l \in Loaders : \A row \in listed'[l][d] : row.version <= v
    BY <1>1, <1>t, ListedWasCurated DEF UpTo
  <2>3. ASSUME NEW q \in Questions, q.table = d
        PROVE  newest'[q] <= v
    <3>1. CASE newest' = newest
      BY <1>1, <2>3, <3>1 DEF UpTo
    <3>2. ASSUME NEW r \in Requests, Query(r)
          PROVE  newest'[q] <= v
      BY <1>1, <1>t, <2>3, <3>2, NewestAnswer DEF UpTo
    <3>3. CASE UNCHANGED all_vars
      BY <3>1, <3>3 DEF all_vars, reader_vars
    <3> QED BY <3>1, <3>2, <3>3, QueryOrLoader
  <2> QED BY <2>1, <2>2, <2>3 DEF UpTo
<1>2. AreUpTo(version) /\ \A row \in curated[d].rows \cup coming[d] : AreUpTo(row.version)
  <2>1. OneVersion(curated[d].rows \cup coming[d])
    BY <1>t DEF IInv, OnePublicationListed
  <2> QED BY <1>t, <2>1, VersionsAreNumbers DEF LatestIsCurated, OneVersion
<1>3. UpTo(d, version)'
  <2>1. CASE version' = version
    BY <1>1, <1>2, <1>t, <2>1, VersionsAreNumbers
  <2>2. CASE version' = version + 1
    <3>1. AreUpTo(version + 1)
      BY <1>2, <1>t, VersionsAreNumbers DEF UpTo, OrderInv
    <3> QED BY <1>1, <1>t, <2>2, <3>1, VersionsAreNumbers
  <2> QED BY <1>t, <2>1, <2>2, VersionIsCounted
<1>4. ASSUME NEW row \in curated'[d].rows \cup coming'[d]
      PROVE  row.version <= version' /\ UpTo(d, row.version)'
  <2>1. CASE row \in curated[d].rows \cup coming[d]
    <3>1. row.version \in Nat /\ row.version <= version /\ version <= version'
      BY <1>t, <2>1, VersionsAreNumbers, VersionIsCounted DEF LatestIsCurated
    <3>2. version' \in Nat /\ version \in Nat
      BY <1>t, VersionsAreNumbers, VersionIsCounted
    <3> QED BY <1>1, <1>2, <2>1, <3>1, <3>2
  <2>2. CASE row.version = version'
    BY <1>3, <1>t, <2>2, VersionsAreNumbers, VersionIsCounted
  <2> QED BY <1>t, <2>1, <2>2, PublishedWasComing
<1> QED BY <1>3, <1>4

LEMMA StepNoBack ==
  OrderInv /\ [NextReads]_all_vars => NothingGoesBack'
<1> SUFFICES ASSUME OrderInv, [NextReads]_all_vars, ~together', NEW q \in Questions
             PROVE  /\ \A row \in Held(q.table)' : row.version >= newest'[q]
                    /\ \A l \in Loaders : pc'[l] \in Writing /\ step'[l] = q.table =>
                         \A row \in listed'[l][q.table] :
                           /\ row.version >= newest'[q]
                           /\ \A held \in Held(q.table)' : row.version >= held.version
  BY DEF NothingGoesBack
<1> DEFINE d == q.table
           Goal == /\ \A row \in Held(d)' : row.version >= newest'[q]
                   /\ \A l \in Loaders : pc'[l] \in Writing /\ step'[l] = d =>
                        \A row \in listed'[l][d] :
                          /\ row.version >= newest'[q]
                          /\ \A held \in Held(d)' : row.version >= held.version
<1>t. /\ Types /\ IInv /\ Alone /\ ReadsTypeOK /\ LatestIsCurated
      /\ [Next]_vars /\ d \in Datasets
  BY ReadersDoNotWrite, VersionsAreNumbers DEF OrderInv, IInv
<1>n. ~together =>
        /\ \A row \in Held(d) : row.version >= newest[q]
        /\ \A l \in Loaders : pc[l] \in Writing /\ step[l] = d =>
             \A row \in listed[l][d] :
               /\ row.version >= newest[q]
               /\ \A held \in Held(d) : row.version >= held.version
  BY DEF OrderInv, NothingGoesBack
<1>v. /\ \A row \in Rows : row.version \in Nat
      /\ Held(d) \subseteq Rows /\ Held(d)' \subseteq Rows
      /\ \A l \in Loaders : listed[l][d] \subseteq Rows
      /\ newest[q] \in Nat
  BY <1>t, VersionsAreNumbers DEF Held
<1>1. ASSUME NEW r \in Requests, Query(r), UNCHANGED vars
      PROVE  Goal
  <2>1. /\ UNCHANGED <<pc, step, listed, table, together>>
        /\ Held(d)' = Held(d)
    BY <1>1 DEF vars, loader_vars, Held
  <2>2. \/ newest'[q] = newest[q]
        \/ \E row \in Held(d) : newest'[q] = row.version
    BY <1>1, <1>t, NewestAnswer
  <2>3. OneVersion(Held(d))
    BY <1>t, <2>1 DEF IInv, TablesAreClean
  <2> QED BY <1>n, <1>v, <2>1, <2>2, <2>3 DEF OneVersion
<1>2. CASE /\ ~together /\ newest' = newest /\ UNCHANGED <<step, listed>>
           /\ \A l \in Loaders : pc'[l] \in Writing => pc[l] \in Writing
           /\ Held(d)' \subseteq Held(d)
  BY <1>2, <1>n
<1>3. CASE Processing /\ newest' = newest
  BY <1>2, <1>3, ProcessingLeavesLoads DEF Held
<1>4. CASE UNCHANGED vars /\ newest' = newest
  BY <1>2, <1>4 DEF vars, loader_vars, Held
<1>5. ASSUME NEW l \in Loaders, Start(l), newest' = newest
      PROVE  Goal
  <2>1. Held(d)' = Held(d)
    BY <1>5, TablesKept DEF Held
  <2>2. \A k \in Loaders : pc'[k] \notin Writing
    BY <1>5, <1>t, LoneStart DEF Writing, Running
  <2> QED BY <1>5, <1>n, <1>t, <2>1, <2>2, LoneStart
<1>6. ASSUME NEW l \in Loaders,
             Load(l) \/ \E how \in {"failed", "killed"} : Stop(l, how)
      PROVE  ~together /\ \A k \in Loaders \ {l} : pc'[k] \notin Writing
  BY <1>6, <1>t, LoneStep DEF Writing, Running
<1>7. ASSUME NEW l \in Loaders, NEW how \in {"failed", "killed"}, Stop(l, how),
             newest' = newest
      PROVE  Goal
  <2>1. UNCHANGED <<step, listed, table>> /\ pc'[l] \notin Writing
    BY <1>7, <1>t DEF Stop, loader_vars, Types, Writing
  <2> QED BY <1>2, <1>6, <1>7, <2>1 DEF Held
<1>8. ASSUME NEW l \in Loaders, FinishTable(l), newest' = newest
      PROVE  Goal
  <2>1. UNCHANGED <<listed, table>> /\ pc'[l] \notin Writing
    BY <1>8, <1>t DEF FinishTable, AfterStep, Types, Writing
  <2>2. Held(d)' = Held(d)
    BY <2>1 DEF Held
  <2> QED BY <1>6, <1>8, <1>n, <2>1, <2>2 DEF Load
<1>9. ASSUME NEW l \in Loaders, ReadDataset(l), newest' = newest
      PROVE  Goal
  <2>1. ~together /\ Held(d)' = Held(d)
    BY <1>6, <1>9, TablesKept DEF Load, Held
  <2>2. ASSUME pc'[l] \in Writing, step'[l] = d, NEW row \in listed'[l][d]
        PROVE  /\ row.version >= newest[q]
               /\ \A held \in Held(d) : row.version >= held.version
    <3>1. step[l] = d
      <4>1. pc'[l] \in {"read", "done"} \/ step' = step
        BY <1>9, <1>t DEF ReadDataset, AfterStep, Types
      <4> QED BY <2>2, <4>1 DEF Writing
    <3>2. row \in curated[d].rows
      BY <1>9, <1>t, <2>2, <3>1 DEF ReadDataset, Types
    <3>3. UpTo(d, row.version) /\ row.version \in Nat
      BY <1>t, <3>2, VersionsAreNumbers DEF LatestIsCurated
    <3> QED BY <1>v, <3>3 DEF UpTo
  <2> QED BY <1>6, <1>9, <1>n, <2>1, <2>2 DEF Load
<1>10. ASSUME NEW l \in Loaders, DropTable(l) \/ CreateTable(l), newest' = newest
       PROVE  Goal
  <2>1. UNCHANGED <<step, listed>> /\ pc[l] \in Writing
    BY <1>10 DEF DropTable, CreateTable, loader_vars, Writing
  <2>2. \A r \in Rows : table'[d].copies[r] \in {0, table[d].copies[r]}
    BY <1>10, <1>t, DropEffect, CreateEffect
  <2>3. Held(d)' \subseteq Held(d)
    BY <2>2 DEF Held
  <2> QED BY <1>2, <1>6, <1>10, <2>1, <2>3 DEF Load
<1>11. ASSUME NEW l \in Loaders, NEW r \in todo[l], InsertPartition(l, r),
              newest' = newest
       PROVE  Goal
  <2>1. /\ UNCHANGED <<step, listed>> /\ pc[l] \in Writing
        /\ r \in listed[l][step[l]] /\ r \in Rows
    BY <1>11, <1>t DEF InsertPartition, Writing, IInv, WorkIsListed, Types
  <2>2. ~together /\ \A k \in Loaders \ {l} : pc'[k] \notin Writing
    BY <1>6, <1>11 DEF Load
  <2>3. Held(d)' \subseteq Held(d) \cup (IF d = step[l] THEN {r} ELSE {})
    <3>1. \A s \in Rows : (d = step[l] /\ s = r) \/ table'[d].copies[s] = table[d].copies[s]
      BY <1>11, <1>t, InsertEffect
    <3> QED BY <3>1 DEF Held
  <2>4. CASE d # step[l]
    BY <1>11, <1>n, <2>1, <2>2, <2>3, <2>4
  <2>5. CASE d = step[l]
    <3>1. OneVersion(listed[l][d])
      BY <1>t DEF IInv, OnePublicationListed
    <3>2. r.version \in Nat
      BY <1>v, <2>1
    <3> QED BY <1>11, <1>n, <2>1, <2>2, <2>3, <2>5, <3>1, <3>2 DEF OneVersion
  <2> QED BY <2>4, <2>5
<1>12. ASSUME NEW l \in Loaders, Load(l), newest' = newest
       PROVE  Goal
  BY <1>8, <1>9, <1>10, <1>11, <1>12 DEF Load
<1>13. CASE newest' = newest
  BY <1>3, <1>4, <1>5, <1>7, <1>12, <1>13, <1>t DEF Next
<1>14. (\E r \in Requests : Query(r) /\ UNCHANGED vars) \/ newest' = newest
  BY QueryOrLoader DEF all_vars, reader_vars
<1> QED BY <1>1, <1>13, <1>14

LEMMA OrderInvAlways == SpecReads => []OrderInv
<1>1. InitReads => LatestIsCurated /\ NothingGoesBack
  <2> SUFFICES ASSUME InitReads
               PROVE  LatestIsCurated /\ NothingGoesBack
    OBVIOUS
  <2>1. \A d \in Datasets : Held(d) = {}
    BY DEF InitReads, Init, EmptyTable, NoCopies, Held
  <2>2. \A l \in Loaders : pc[l] \notin Writing /\ \A d \in Datasets : listed[l][d] = {}
    BY DEF InitReads, Init, Writing
  <2>3. \A d \in Datasets : curated[d].rows = {} /\ coming[d] = {}
    BY DEF InitReads, Init, Missing
  <2>4. version = 0 /\ \A q \in Questions : newest[q] = 0
    BY DEF InitReads, Init
  <2> QED BY <2>1, <2>2, <2>3, <2>4, VersionsAreNumbers
          DEF LatestIsCurated, NothingGoesBack, UpTo
<1>2. SpecReads => [](IInv /\ ReadsTypeOK)
  BY ImplementsLoader, IInvAlways, ReadsTypeCorrect, PTL
<1>3. OrderInv /\ [NextReads]_all_vars /\ (IInv /\ ReadsTypeOK)' => OrderInv'
  BY StepLatest, StepNoBack DEF OrderInv
<1>4. InitReads /\ IInv /\ ReadsTypeOK => OrderInv
  BY <1>1 DEF OrderInv
<1> QED BY <1>2, <1>3, <1>4, PTL DEF SpecReads

\* While loads run one after the other, a user who has seen one publication is not
\* shown an older one: not after a failed load, not from a table half full, and
\* not from a listing that processing has overtaken.
THEOREM AnswersDoNotGoBack == SpecReads => AnswersNeverGoBack
<1>1. OrderInv /\ [NextReads]_all_vars =>
        [~together => \A r \in Requests : Answered(r) =>
           \A row \in Answer(r) : row.version >= newest[request[r].about]]_all_vars
  <2> SUFFICES ASSUME OrderInv, ~together, NEW r \in Requests, Answered(r),
                      NEW row \in Answer(r)
               PROVE  row.version >= newest[request[r].about]
    OBVIOUS
  <2>1. request[r].about \in Questions
    BY AboutQuestions DEF Answered, OrderInv
  <2>2. row \in Held(request[r].about.table)
    BY DEF Answer, Result
  <2> QED BY <2>1, <2>2 DEF OrderInv, NothingGoesBack
<1> QED BY <1>1, OrderInvAlways, PTL DEF SpecReads, AnswersNeverGoBack
=============================================================================
