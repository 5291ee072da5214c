---------------------------- MODULE ServingReads ----------------------------
(***************************************************************************)
(* The recommendation API reading the tables that SparkLoader replaces.    *)
(*   microservices/serving/recommendation_api/src/                         *)
(*       services/recommendation_service.py                                *)
(*       services/database.py  get_connection                              *)
(*       routes/recommendations.py                                         *)
(*                                                                         *)
(* A request makes one SELECT.  The statement sees the partitions that are *)
(* committed when it runs; psycopg2 keeps its transaction, and so a shared *)
(* lock on the table, until the connection goes back to the pool (ApiPool  *)
(* has the pool).  PostgreSQL is external: DROP TABLE waits for those      *)
(* locks, and later requests for the table queue behind a waiting DROP.    *)
(* A member of Students is the key of a row here, of which a user has      *)
(* several.                                                                *)
(***************************************************************************)
EXTENDS SparkLoader

CONSTANTS
  Requests,   \* requests the API serves at a time
  Users,      \* users that ask
  UserOf      \* the user a row is about

ASSUME UsersAssumption == UserOf \in [Students -> Users]

VARIABLES
  request,  \* where each request is, and the table and the user it is about
  queued,   \* loaders whose DROP waits for its lock
  newest    \* history: table and user -> the newest publication answered

reader_vars == <<request, newest>>
all_vars    == <<vars, reader_vars, queued>>

Questions == [table : Datasets, user : Users]
Unused    == [at |-> "idle"]

InitReads ==
  /\ Init
  /\ request = [r \in Requests |-> Unused]
  /\ queued = {}
  /\ newest = [q \in Questions |-> 0]

-----------------------------------------------------------------------------
Ask(r, q) ==
  /\ request[r] = Unused
  /\ request' = [request EXCEPT ![r] = [at |-> "asking", about |-> q]]
  /\ UNCHANGED <<vars, newest, queued>>

\* WHERE user_id = %s
Result(q) == {row \in Held(q.table) : UserOf[row.student] = q.user}

Blocked(d) == \E l \in queued : step[l] = d

\* cur.execute and fetchall; without the table the statement raises, and putconn
\* rolls back a transaction that holds no lock on it.
Query(r) ==
  LET q == request[r].about IN
  /\ request[r].at = "asking"
  /\ ~Blocked(q.table)
  /\ IF table[q.table].exists
     THEN request' = [request EXCEPT ![r].at = "reading"]
     ELSE request' = [request EXCEPT ![r] = Unused]
  /\ newest' = [newest EXCEPT ![q] = LET newer == {row \in Result(q) : row.version > @}
                                     IN  IF newer = {} THEN @
                                         ELSE (CHOOSE row \in newer : TRUE).version]
  /\ UNCHANGED <<vars, queued>>

\* Seeded bug in GiveBack, for the mutation tests.
KeepsTransaction(r) ==
  /\ request[r].at = "reading"
  /\ UNCHANGED all_vars

\* finally: pool.putconn(conn), which rolls back.
GiveBack(r) ==
  /\ request[r].at = "reading"
  /\ request' = [request EXCEPT ![r] = Unused]
  /\ UNCHANGED <<vars, newest, queued>>

-----------------------------------------------------------------------------
Readers(d) ==
  {r \in Requests : request[r].at = "reading" /\ request[r].about.table = d}

\* DROP TABLE asks for its lock, and is granted it when the readers have gone.
AskToDrop(l) ==
  /\ pc[l] = "drop"
  /\ l \notin queued
  /\ queued' = queued \cup {l}
  /\ UNCHANGED <<vars, reader_vars>>

Drop(l) ==
  /\ l \in queued
  /\ Readers(step[l]) = {}
  /\ DropTable(l)
  /\ queued' = queued \ {l}
  /\ UNCHANGED reader_vars

\* The loader's other steps take no lock that conflicts with a SELECT.
LoadOn(l) ==
  /\ \/ ReadDataset(l)
     \/ CreateTable(l)
     \/ \E row \in todo[l] : InsertPartition(l, row)
     \/ FinishTable(l)
  /\ UNCHANGED <<reader_vars, queued>>

\* A load that cannot go on raises: its dataset, one of its files or its table
\* has gone.
Raise(l) ==
  /\ \/ pc[l] = "read" /\ ~curated[step[l]].exists
     \/ pc[l] = "insert" /\ (\/ ~table[step[l]].exists
                             \/ ~(todo[l] \subseteq curated[step[l]].rows))
  /\ Stop(l, "failed")
  /\ UNCHANGED <<reader_vars, queued>>

\* The container fails or is killed; PostgreSQL drops its lock request.
Break(l) ==
  /\ \E how \in {"failed", "killed"} : Stop(l, how)
  /\ queued' = queued \ {l}
  /\ UNCHANGED reader_vars

Step(l) == AskToDrop(l) \/ Drop(l) \/ LoadOn(l) \/ Raise(l)
Serve(r) == Query(r) \/ GiveBack(r)

NextReads ==
  \/ Processing /\ UNCHANGED <<reader_vars, queued>>
  \/ \E l \in Loaders : Start(l) /\ UNCHANGED <<reader_vars, queued>>
  \/ \E l \in Loaders : Step(l) \/ Break(l)
  \/ \E r \in Requests : Serve(r) \/ \E q \in Questions : Ask(r, q)

SpecReads == InitReads /\ [][NextReads]_all_vars

\* Loaders and requests go on by themselves: both are processes of their own, and
\* a SELECT that holds its lock ends.
FairSpecReads ==
  /\ SpecReads
  /\ \A l \in Loaders : WF_all_vars(Step(l))
  /\ \A r \in Requests : WF_all_vars(Serve(r))

-----------------------------------------------------------------------------
\* Type correctness of the requests and of the lock queue.
ReadsTypeOK ==
  /\ request \in [Requests ->
                    {Unused} \cup [at : {"asking", "reading"}, about : Questions]]
  /\ queued \subseteq {l \in Loaders : pc[l] = "drop"}
  /\ newest \in [Questions -> 0 .. MaxVersion]

Answered(r) == request[r].at = "asking" /\ request'[r].at = "reading"
Answer(r)   == Result(request[r].about)

\* As long as no two loaders have run side by side: an answer never mixes
\* publications and names no row twice, even if it is read from a table that is
\* being filled or that a load has left half full.
AnswersAreOnePublication ==
  [][~together => \A r \in Requests : Answered(r) =>
       /\ \A row, other \in Answer(r) : row.version = other.version
       /\ \A row \in Answer(r) : table[request[r].about.table].copies[row] = 1]_all_vars

\* As long as no two loaders have run side by side: whatever loads fail or are
\* repeated, a user who has seen one publication is never shown an older one.
AnswersNeverGoBack ==
  [][~together => \A r \in Requests : Answered(r) =>
       \A row \in Answer(r) : row.version >= newest[request[r].about]]_all_vars

\* Requests do not keep a load from ending, however many come: its DROP waits only
\* for transactions that are open already.
LoadsEnd == \A l \in Loaders : pc[l] \in Running ~> pc[l] \in Ended

\* Loads do not keep a request from being answered.
RequestsAreAnswered == \A r \in Requests : request[r] # Unused ~> request[r] = Unused

\* PostgreSQL's lock queue starves neither the loader's DROP, behind open
\* transactions, nor the queries, behind the DROP.
NeitherSideWaitsForEver == LoadsEnd /\ RequestsAreAnswered
=============================================================================
