------------------------- MODULE UpsertLoaderProofs -------------------------
(***************************************************************************)
(* The PyArrow loader implements the atomic table of ServingTable, and its *)
(* row cap holds, for every set of keys, scores, batch size and cap.       *)
(***************************************************************************)
EXTENDS UpsertLoader, FiniteSetTheorems, TLAPS

\* The type invariant with the two facts a commit rests on: what the transaction
\* sees, and that the rows it has written stayed under the cap.
WrittenUnderCap ==
  pc = "batches" => Cardinality(KeysOf(dataset) \ unread) <= MaxRows

\* Before the transaction begins nothing has been read.
NothingRead == pc = "connected" => unread = KeysOf(dataset)

IInv == TypeOK /\ PartialLoad /\ WrittenUnderCap /\ NothingRead

-----------------------------------------------------------------------------
LEMMA PartitionType ==
  ASSUME NEW rows \in Tables, NEW d
  PROVE  Partition(rows, d) \in Tables
BY DEF Partition, Tables

LEMMA UpsertType ==
  ASSUME NEW contents \in Tables, dataset \in Tables, NEW batch
  PROVE  Upsert(contents, batch) \in Tables
BY DEF Upsert, Tables

LEMMA EmptyType == Empty \in Tables
BY DEF Empty, Tables

LEMMA InitTypeOK == Init => TypeOK
BY EmptyType, SizesAssumption DEF Init, TypeOK, Ended, Running

LEMMA StepTypeOK == TypeOK /\ [Next]_vars => TypeOK'
<1> SUFFICES ASSUME TypeOK, [Next]_vars
             PROVE  TypeOK'
  OBVIOUS
<1> USE DEF TypeOK, Ended, Running
<1>1. CASE \E m \in {"initial", "daily"}, d \in Dates \cup {NoDate},
              rows \in Tables, has \in BOOLEAN : Start(m, d, rows, has)
  <2>1. PICK m \in {"initial", "daily"}, d \in Dates \cup {NoDate},
              rows \in Tables, has \in BOOLEAN : Start(m, d, rows, has)
    BY <1>1
  <2>2. dataset' \in Tables
    BY <2>1, PartitionType DEF Start
  <2>3. loads' \in 0 .. MaxLoads
    BY <2>1, SizesAssumption DEF Start
  <2>4. unread' = KeysOf(dataset')
    BY <2>1 DEF Start
  <2> QED BY <2>1, <2>2, <2>3, <2>4 DEF Start, KeysOf
<1>2. CASE BeginTransaction
  BY <1>2, EmptyType DEF BeginTransaction, KeysOf
<1>3. ASSUME NEW batch \in SUBSET unread, WriteBatch(batch)
      PROVE  TypeOK'
  <2>1. work' \in Tables
    BY <1>3, UpsertType DEF WriteBatch
  <2> QED BY <1>3, <2>1 DEF WriteBatch, KeysOf
<1>4. CASE Commit
  BY <1>4 DEF Commit, KeysOf
<1>5. CASE Refuse
  BY <1>5 DEF Refuse, Rollback, KeysOf
<1>6. CASE Fault
  BY <1>6, SizesAssumption DEF Fault, Rollback, KeysOf
<1>7. CASE UNCHANGED vars
  BY <1>7 DEF vars, KeysOf
<1> QED BY <1>1, <1>2, <1>3, <1>4, <1>5, <1>6, <1>7 DEF Next, Progress

\* Type correctness: whatever the batches, dates and failures, the loader's state
\* keeps its types and the unread rows are rows of the dataset.
THEOREM TypeCorrect == Spec => []TypeOK
BY InitTypeOK, StepTypeOK, PTL DEF Spec

-----------------------------------------------------------------------------
LEMMA InitIInv == Init => IInv
BY InitTypeOK DEF Init, IInv, PartialLoad, WrittenUnderCap, NothingRead

LEMMA StepIInv == IInv /\ [Next]_vars => IInv'
<1> SUFFICES ASSUME IInv, [Next]_vars
             PROVE  IInv'
  OBVIOUS
<1>t. TypeOK /\ TypeOK'
  BY StepTypeOK DEF IInv
<1>1. CASE \E m \in {"initial", "daily"}, d \in Dates \cup {NoDate},
              rows \in Tables, has \in BOOLEAN : Start(m, d, rows, has)
  BY <1>1, <1>t DEF IInv, Start, PartialLoad, WrittenUnderCap, NothingRead
<1>2. CASE BeginTransaction
  <2>1. KeysOf(dataset)' \ unread' = {}
    BY <1>2 DEF IInv, NothingRead, BeginTransaction, KeysOf
  <2>2. WrittenUnderCap'
    BY <2>1, FS_EmptySet, SizesAssumption DEF WrittenUnderCap
  <2>3. PartialLoad'
    BY <1>2, <2>1 DEF BeginTransaction, PartialLoad, Empty, KeysOf
  <2> QED BY <1>2, <1>t, <2>2, <2>3 DEF IInv, BeginTransaction, NothingRead
<1>3. ASSUME NEW batch \in SUBSET unread, WriteBatch(batch)
      PROVE  IInv'
  <2>1. KeysOf(dataset)' = KeysOf(dataset)
    BY <1>3 DEF WriteBatch, KeysOf
  <2>2. WrittenUnderCap'
    BY <1>3, <2>1 DEF WriteBatch, UnderCap, ReadSoFar, WrittenUnderCap
  <2>3. PartialLoad'
    <3>1. SUFFICES ASSUME NEW k \in Keys
          PROVE  work'[k] = IF k \in KeysOf(dataset) \ unread' THEN dataset[k]
                            ELSE IF mode = "initial" THEN NoScore ELSE table[k]
      BY <1>3, <2>1 DEF WriteBatch, PartialLoad
    <3>2. batch \subseteq KeysOf(dataset)
      BY <1>t DEF TypeOK
    <3>3. work'[k] = IF k \in batch THEN dataset[k] ELSE work[k]
      BY <1>3 DEF WriteBatch, Upsert
    <3>4. unread' = unread \ batch
      BY <1>3 DEF WriteBatch
    <3> QED BY <1>3, <3>2, <3>3, <3>4 DEF IInv, PartialLoad, WriteBatch
  <2> QED BY <1>3, <1>t, <2>2, <2>3 DEF IInv, WriteBatch, NothingRead
<1>4. CASE Commit
  BY <1>4, <1>t DEF IInv, Commit, PartialLoad, WrittenUnderCap, NothingRead
<1>5. CASE Refuse
  BY <1>5, <1>t DEF IInv, Refuse, Rollback, PartialLoad, WrittenUnderCap, NothingRead
<1>6. CASE Fault
  BY <1>6, <1>t DEF IInv, Fault, Rollback, PartialLoad, WrittenUnderCap, NothingRead
<1>7. CASE UNCHANGED vars
  BY <1>7, <1>t DEF IInv, vars, PartialLoad, WrittenUnderCap, NothingRead, KeysOf
<1> QED BY <1>1, <1>2, <1>3, <1>4, <1>5, <1>6, <1>7 DEF Next, Progress

LEMMA IInvAlways == Spec => []IInv
BY InitIInv, StepIInv, PTL DEF Spec

\* The batches: at every point the transaction sees the rows written so far over
\* what it began with, however many rows a batch holds.
THEOREM PartialLoadHolds == Spec => []PartialLoad
BY IInvAlways, PTL DEF IInv

\* max_rows: a dataset above the cap is never committed, not even in part.
THEOREM CapIsKept == Spec => CapHolds
<1>1. IInv /\ [Next]_vars
        => [table' # table => Cardinality(KeysOf(dataset)) <= MaxRows]_vars
  <2> SUFFICES ASSUME IInv, Next, table' # table
               PROVE  Cardinality(KeysOf(dataset)) <= MaxRows
    BY DEF vars
  <2>1. Commit
    BY DEF Next, Progress, Start, BeginTransaction, WriteBatch, Refuse, Fault,
           Rollback
  <2>2. KeysOf(dataset) \ unread = KeysOf(dataset)
    BY <2>1 DEF Commit
  <2> QED BY <2>1, <2>2 DEF Commit, IInv, WrittenUnderCap
<1> QED BY <1>1, IInvAlways, PTL DEF Spec, CapHolds

-----------------------------------------------------------------------------
LEMMA InitPromise == Init => Promise!Init
BY DEF Init, Promise!Init, Promise!Empty, Empty, Running

LEMMA StepPromise == IInv /\ [Next]_vars => [Promise!Next]_Promise!vars
<1> SUFFICES ASSUME IInv, [Next]_vars
             PROVE  Promise!Next \/ UNCHANGED Promise!vars
  OBVIOUS
<1> USE DEF Running, Promise!vars
<1>1. CASE \E m \in {"initial", "daily"}, d \in Dates \cup {NoDate},
              rows \in Tables, has \in BOOLEAN : Start(m, d, rows, has)
  <2>1. PICK m \in {"initial", "daily"}, d \in Dates \cup {NoDate},
              rows \in Tables, has \in BOOLEAN : Start(m, d, rows, has)
    BY <1>1
  <2>2. Partition(rows, d) \in Promise!Tables
    BY PartitionType DEF Tables, Promise!Tables
  <2>3. Promise!Begin(m, Partition(rows, d))
    BY <2>1 DEF Start, Promise!Begin, Ended
  <2> QED BY <2>2, <2>3 DEF Promise!Next
<1>2. CASE BeginTransaction
  BY <1>2 DEF BeginTransaction
<1>3. ASSUME NEW batch \in SUBSET unread, WriteBatch(batch)
      PROVE  UNCHANGED Promise!vars
  BY <1>3 DEF WriteBatch
<1>4. CASE Commit
  <2>1. work = Promise!Loaded(table, mode, dataset)
    <3>1. \A k \in Keys : work[k] = Promise!Loaded(table, mode, dataset)[k]
      <4> TAKE k \in Keys
      <4>1. work[k] = IF dataset[k] # NoScore THEN dataset[k]
                      ELSE IF mode = "initial" THEN NoScore ELSE table[k]
        BY <1>4 DEF Commit, IInv, PartialLoad, KeysOf
      <4>2. CASE mode = "initial"
        BY <4>1, <4>2 DEF Promise!Loaded
      <4>3. CASE mode # "initial"
        BY <4>1, <4>3 DEF Promise!Loaded, Promise!Upserted
      <4> QED BY <4>2, <4>3
    <3>2. work \in Tables /\ dataset \in Tables /\ table \in Tables
      BY DEF IInv, TypeOK
    <3>3. Promise!Loaded(table, mode, dataset) \in Tables
      BY <3>2 DEF Promise!Loaded, Promise!Upserted, Tables
    <3> QED BY <3>1, <3>2, <3>3 DEF Tables
  <2>2. Promise!Commit
    BY <1>4, <2>1 DEF Commit, Promise!Commit
  <2> QED BY <2>2 DEF Promise!Next
<1>5. CASE Refuse
  BY <1>5 DEF Refuse, Rollback, Promise!Abort, Promise!Next
<1>6. CASE Fault
  BY <1>6 DEF Fault, Rollback, Promise!Abort, Promise!Next
<1>7. CASE UNCHANGED vars
  BY <1>7 DEF vars
<1> QED BY <1>1, <1>2, <1>3, <1>4, <1>5, <1>6, <1>7 DEF Next, Progress

\* The loader implements the atomic table its README promises: a load commits the
\* refresh or the upsert of its whole dataset, or leaves the table as it was.
THEOREM LoaderImplementsServingTable == Spec => ImplementsServingTable
BY InitPromise, StepPromise, IInvAlways, PTL
   DEF Spec, Promise!Spec, ImplementsServingTable

=============================================================================
