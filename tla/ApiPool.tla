------------------------------- MODULE ApiPool -------------------------------
(***************************************************************************)
(* The database connections of the recommendation API.                     *)
(*   microservices/serving/recommendation_api/src/                         *)
(*       services/database.py               get_pool, get_connection       *)
(*       services/recommendation_service.py get_recommendations, ...       *)
(*       routes/recommendations.py          health_check                   *)
(*                                                                         *)
(* The routes are plain functions, so FastAPI runs each request on a       *)
(* thread of its worker pool; all of them share one psycopg2               *)
(* SimpleConnectionPool, made by the first request and guarded by no lock. *)
(*                                                                         *)
(* psycopg2 is external.  Its pool keeps a list of idle connections, _used *)
(* (key -> connection) and _rused (connection -> key).  A step is what a   *)
(* thread does between two points where CPython 3.11 may switch threads: a *)
(* call returns, or the database is waited for.  PostgreSQL is external:   *)
(* a restart breaks every connection, and a SELECT leaves its transaction, *)
(* with the lock on the table it read, open until a rollback.              *)
(***************************************************************************)
EXTENDS Naturals, FiniteSets

CONSTANTS
  Threads,       \* threads that serve requests
  Conns,         \* connections, enough for every request to make one
  Pools,         \* pools, enough for every thread to make one
  NoPool,        \* _pool = None
  NoConn,        \* a thread that holds no connection
  MinConn,       \* minconn
  MaxConn,       \* maxconn
  MaxRequests,   \* bound: requests explored
  MaxRestarts    \* bound: restarts of PostgreSQL

ASSUME NoneAssumption == NoPool \notin Pools /\ NoConn \notin Conns
ASSUME SizesAssumption ==
  /\ IsFiniteSet(Threads) /\ IsFiniteSet(Conns)
  /\ MinConn \in Nat \ {0} /\ MaxConn \in Nat
  /\ MaxRequests \in Nat /\ MaxRestarts \in Nat

VARIABLES
  up,        \* whether PostgreSQL answers
  restarts,  \* how often it has stopped
  requests,  \* requests served so far
  server,    \* state of a connection: open, dead (PostgreSQL has gone) or closed
  reading,   \* connections with an open transaction
  pool,      \* the global _pool
  idle,      \* pool._pool
  used,      \* threads whose key is in pool._used
  keyed,     \* connections in pool._rused
  lost,      \* connections left in pool._used by a request that is over
  pc,        \* where a thread is
  mine,      \* the `pool` of get_connection
  conn       \* the `conn` of get_connection

\* History variable: whether two requests have ever been served at once.
VARIABLE together

env_vars    == <<up, restarts, requests, together>>
pool_vars   == <<pool, idle, used, keyed, lost>>
thread_vars == <<pc, mine, conn>>
vars        == <<env_vars, server, reading, pool_vars, thread_vars>>

Places  == {"free", "get_pool", "create", "created", "getconn", "popped",
            "connect", "query", "put", "giveback", "discard", "unuse"}
WithPool == Places \ {"free", "get_pool", "create", "created"}
Holding == {"popped", "query", "put", "giveback", "discard"}

Init ==
  /\ up = TRUE /\ restarts = 0 /\ requests = 0
  /\ server = [c \in Conns |-> "closed"]
  /\ reading = {}
  /\ pool = NoPool
  /\ idle  = [p \in Pools |-> {}]
  /\ used  = [p \in Pools |-> {}]
  /\ keyed = [p \in Pools |-> {}]
  /\ lost  = [p \in Pools |-> {}]
  /\ pc   = [t \in Threads |-> "free"]
  /\ mine = [t \in Threads |-> NoPool]
  /\ conn = [t \in Threads |-> NoConn]
  /\ together = FALSE

\* An object that nothing refers to is freed: a pool then drops its connections,
\* and a connection is closed.
Live(p) == p = pool \/ \E t \in Threads : mine[t] = p
Referenced(c) ==
  \/ \E p \in Pools : Live(p) /\ c \in idle[p] \cup lost[p]
  \/ \E t \in Threads : conn[t] = c
Fresh == {c \in Conns : ~Referenced(c)}
NewConns(n) == CHOOSE cs \in SUBSET Fresh : Cardinality(cs) = n
NewPool == CHOOSE p \in Pools : ~Live(p)

\* Bounds: Pools and Conns have a new pool and n new connections left.
PoolsLeft    == NewPool \in Pools /\ ~Live(NewPool)
ConnsLeft(n) == NewConns(n) \subseteq Fresh

UsedCount(p) == Cardinality(used[p]) + Cardinality(lost[p])

GoTo(t, place) == pc' = [pc EXCEPT ![t] = place]

\* The request is answered, with a result or with the exception's 500 or 503.
Answer(t) ==
  /\ GoTo(t, "free")
  /\ mine' = [mine EXCEPT ![t] = NoPool]
  /\ conn' = [conn EXCEPT ![t] = NoConn]

-----------------------------------------------------------------------------
\* get_pool
Request(t) ==
  /\ pc[t] = "free"
  /\ requests < MaxRequests
  /\ requests' = requests + 1
  /\ GoTo(t, "get_pool")
  /\ together' = (together \/ \E u \in Threads : pc[u] # "free")
  /\ UNCHANGED <<up, restarts, server, reading, pool_vars, mine, conn>>

GetPool(t) ==
  /\ pc[t] = "get_pool"
  /\ IF pool = NoPool
     THEN GoTo(t, "create") /\ UNCHANGED mine
     ELSE GoTo(t, "getconn") /\ mine' = [mine EXCEPT ![t] = pool]
  /\ UNCHANGED <<env_vars, server, reading, pool_vars, conn>>

\* SimpleConnectionPool(...) connects minconn times, which takes a while.
CreatePool(t) ==
  /\ pc[t] = "create"
  /\ up
  /\ PoolsLeft /\ ConnsLeft(MinConn)
  /\ LET p == NewPool  cs == NewConns(MinConn) IN
       /\ server' = [c \in Conns |-> IF c \in cs THEN "open" ELSE server[c]]
       /\ reading' = reading \ cs
       /\ idle'  = [idle EXCEPT ![p] = cs]
       /\ used'  = [used EXCEPT ![p] = {}]
       /\ keyed' = [keyed EXCEPT ![p] = {}]
       /\ lost'  = [lost EXCEPT ![p] = {}]
       /\ pool'  = p
  /\ GoTo(t, "created")
  /\ UNCHANGED <<env_vars, mine, conn>>

\* return _pool: the pool another thread has put there since, perhaps.
ReturnPool(t) ==
  /\ pc[t] = "created"
  /\ mine' = [mine EXCEPT ![t] = pool]
  /\ GoTo(t, "getconn")
  /\ UNCHANGED <<env_vars, server, reading, pool_vars, conn>>

-----------------------------------------------------------------------------
\* Seeded bug in PopIdle, for the mutation tests.
PeeksIdle(t, c) ==
  /\ pc[t] = "getconn"
  /\ c \in idle[mine[t]]
  /\ conn' = [conn EXCEPT ![t] = c]
  /\ GoTo(t, "popped")
  /\ UNCHANGED <<env_vars, server, reading, pool_vars, mine>>

\* pool.getconn()
PopIdle(t, c) ==
  /\ pc[t] = "getconn"
  /\ c \in idle[mine[t]]
  /\ idle' = [idle EXCEPT ![mine[t]] = @ \ {c}]
  /\ conn' = [conn EXCEPT ![t] = c]
  /\ GoTo(t, "popped")
  /\ UNCHANGED <<env_vars, server, reading, pool, used, keyed, lost, mine>>

Register(t, c) ==
  /\ used' = [used EXCEPT ![mine[t]] = @ \cup {t}]
  /\ keyed' = [keyed EXCEPT ![mine[t]] = @ \cup {c}]
  /\ GoTo(t, "query")

RegisterIdle(t) ==
  /\ pc[t] = "popped"
  /\ Register(t, conn[t])
  /\ UNCHANGED <<env_vars, server, reading, pool, idle, lost, mine, conn>>

AllUsed(p) == UsedCount(p) = MaxConn

\* Seeded bug in Refuse, for the mutation tests.
WaitsForSlot(t) ==
  /\ pc[t] = "getconn"
  /\ idle[mine[t]] = {}
  /\ AllUsed(mine[t])
  /\ UNCHANGED vars

\* len(self._used) == self.maxconn: PoolError.
Refuse(t) ==
  /\ pc[t] = "getconn"
  /\ idle[mine[t]] = {}
  /\ AllUsed(mine[t])
  /\ Answer(t)
  /\ UNCHANGED <<env_vars, server, reading, pool_vars>>

MayConnect(t) ==
  /\ pc[t] = "getconn"
  /\ idle[mine[t]] = {}
  /\ ~AllUsed(mine[t])
  /\ GoTo(t, "connect")
  /\ UNCHANGED <<env_vars, server, reading, pool_vars, mine, conn>>

Connect(t) ==
  /\ pc[t] = "connect"
  /\ up
  /\ ConnsLeft(1)
  /\ \E c \in NewConns(1) :
       /\ server' = [server EXCEPT ![c] = "open"]
       /\ conn' = [conn EXCEPT ![t] = c]
       /\ reading' = reading \ {c}
       /\ Register(t, c)
  /\ UNCHANGED <<env_vars, pool, idle, lost, mine>>

\* PostgreSQL is down: OperationalError.
CannotConnect(t) ==
  /\ pc[t] \in {"create", "connect"}
  /\ ~up
  /\ Answer(t)
  /\ UNCHANGED <<env_vars, server, reading, pool_vars>>

-----------------------------------------------------------------------------
\* The body of `with get_connection()`: the SELECT and its fetch.
QueryOk(t) ==
  /\ pc[t] = "query"
  /\ server[conn[t]] = "open"
  /\ reading' = reading \cup {conn[t]}
  /\ GoTo(t, "put")
  /\ UNCHANGED <<env_vars, server, pool_vars, mine, conn>>

\* Seeded bug in QueryFails, for the mutation tests.
PutsOnlyOnSuccess(t) ==
  /\ pc[t] = "query"
  /\ server[conn[t]] = "dead"
  /\ server' = [server EXCEPT ![conn[t]] = "closed"]
  /\ used' = [used EXCEPT ![mine[t]] = @ \ {t}]
  /\ lost' = [lost EXCEPT ![mine[t]] = @ \cup {conn[t]}]
  /\ Answer(t)
  /\ UNCHANGED <<env_vars, reading, pool, idle, keyed>>

\* The connection is dead; the statement raises and psycopg2 closes it.
QueryFails(t) ==
  /\ pc[t] = "query"
  /\ server[conn[t]] = "dead"
  /\ server' = [server EXCEPT ![conn[t]] = "closed"]
  /\ GoTo(t, "put")
  /\ UNCHANGED <<env_vars, reading, pool_vars, mine, conn>>

-----------------------------------------------------------------------------
\* finally: pool.putconn(conn)
Lose(t) ==
  /\ used' = [used EXCEPT ![mine[t]] = @ \ {t}]
  /\ lost' = [lost EXCEPT ![mine[t]] = @ \cup {conn[t]}]
  /\ Answer(t)

\* No entry in _rused: PoolError, and the key stays in _used.
PutUnkeyed(t) ==
  /\ pc[t] = "put"
  /\ conn[t] \notin keyed[mine[t]]
  /\ Lose(t)
  /\ UNCHANGED <<env_vars, server, reading, pool, idle, keyed>>

PutConn(t) ==
  /\ pc[t] = "put"
  /\ conn[t] \in keyed[mine[t]]
  /\ GoTo(t, IF Cardinality(idle[mine[t]]) < MinConn THEN "giveback" ELSE "discard")
  /\ UNCHANGED <<env_vars, server, reading, pool_vars, mine, conn>>

\* rollback, then the connection is idle again; a closed one is not kept.
GiveBack(t) ==
  /\ pc[t] = "giveback"
  /\ server[conn[t]] # "dead"
  /\ reading' = reading \ {conn[t]}
  /\ idle' = IF server[conn[t]] = "closed" THEN idle
             ELSE [idle EXCEPT ![mine[t]] = @ \cup {conn[t]}]
  /\ GoTo(t, "unuse")
  /\ UNCHANGED <<env_vars, server, pool, used, keyed, lost, mine, conn>>

\* PostgreSQL has gone since the query: rollback raises, and the key stays.
RollbackFails(t) ==
  /\ pc[t] = "giveback"
  /\ server[conn[t]] = "dead"
  /\ Lose(t)
  /\ UNCHANGED <<env_vars, server, reading, pool, idle, keyed>>

\* More than minconn idle connections: close.
Discard(t) ==
  /\ pc[t] = "discard"
  /\ server' = [server EXCEPT ![conn[t]] = "closed"]
  /\ reading' = reading \ {conn[t]}
  /\ GoTo(t, "unuse")
  /\ UNCHANGED <<env_vars, pool_vars, mine, conn>>

\* del self._used[key]; del self._rused[id(conn)], a KeyError when it has gone.
Unuse(t) ==
  /\ pc[t] = "unuse"
  /\ used' = [used EXCEPT ![mine[t]] = @ \ {t}]
  /\ keyed' = [keyed EXCEPT ![mine[t]] = @ \ {conn[t]}]
  /\ Answer(t)
  /\ UNCHANGED <<env_vars, server, reading, pool, idle, lost>>

-----------------------------------------------------------------------------
DbStops ==
  /\ up
  /\ restarts < MaxRestarts
  /\ up' = FALSE
  /\ restarts' = restarts + 1
  /\ server' = [c \in Conns |-> IF server[c] = "open" THEN "dead" ELSE server[c]]
  /\ reading' = {}
  /\ UNCHANGED <<requests, together, pool_vars, thread_vars>>

DbStarts ==
  /\ ~up
  /\ up' = TRUE
  /\ UNCHANGED <<restarts, requests, together, server, reading, pool_vars,
                 thread_vars>>

\* What a thread does once it serves a request.
Serve(t) ==
  \/ GetPool(t) \/ CreatePool(t) \/ ReturnPool(t)
  \/ \E c \in Conns : PopIdle(t, c)
  \/ RegisterIdle(t) \/ Refuse(t) \/ MayConnect(t) \/ Connect(t) \/ CannotConnect(t)
  \/ QueryOk(t) \/ QueryFails(t)
  \/ PutUnkeyed(t) \/ PutConn(t) \/ GiveBack(t) \/ RollbackFails(t)
  \/ Discard(t) \/ Unuse(t)

Next ==
  \/ \E t \in Threads : Request(t) \/ Serve(t)
  \/ DbStops
  \/ DbStarts

Spec == Init /\ [][Next]_vars

\* The operating system runs every thread, and no connection attempt or query
\* waits for ever.
FairSpec == Spec /\ \A t \in Threads : WF_vars(Serve(t))

-----------------------------------------------------------------------------
\* Type correctness of the pool and its threads.
TypeOK ==
  /\ up \in BOOLEAN
  /\ restarts \in 0 .. MaxRestarts
  /\ requests \in 0 .. MaxRequests
  /\ server \in [Conns -> {"open", "dead", "closed"}]
  /\ reading \subseteq Conns
  /\ pool \in Pools \cup {NoPool}
  /\ idle \in [Pools -> SUBSET Conns]
  /\ used \in [Pools -> SUBSET Threads]
  /\ keyed \in [Pools -> SUBSET Conns]
  /\ lost \in [Pools -> SUBSET Conns]
  /\ pc \in [Threads -> Places]
  /\ mine \in [Threads -> Pools \cup {NoPool}]
  /\ conn \in [Threads -> Conns \cup {NoConn}]
  /\ together \in BOOLEAN
  /\ \A t \in Threads : pc[t] \in WithPool => mine[t] \in Pools
  /\ \A t \in Threads : pc[t] \in Holding \cup {"unuse"} => conn[t] \in Conns

\* However the threads interleave in the unlocked pool, two requests never run
\* their statements on one connection, and none runs on an idle one.
NoSharedConnection ==
  \A t \in Threads : pc[t] \in Holding =>
    /\ \A u \in Threads \ {t} : pc[u] \in Holding => conn[u] # conn[t]
    /\ \A p \in Pools : Live(p) => conn[t] \notin idle[p]

\* After a restart of PostgreSQL the pool heals: a connection that has failed a
\* request is never given to another one.
FailedIsNotReused ==
  \A p \in Pools : Live(p) => \A c \in idle[p] : server[c] \in {"open", "dead"}

\* An idle connection holds no lock on a served table, so that the loader can drop
\* it, whichever thread gave the connection back.
IdleHoldsNoLock == \A p \in Pools : Live(p) => idle[p] \cap reading = {}

\* Whatever a request did or met, and whichever thread puts its connection back in
\* the middle of another's getconn: what lies idle in a pool is fit for the next
\* request, not broken by the last and without a transaction of its own.
IdleIsClean == FailedIsNotReused /\ IdleHoldsNoLock

\* As long as no two requests have been served at once: once a request is answered
\* its slot is free and it holds no lock; only the rollback of a connection that
\* PostgreSQL broke loses a slot.
SlotsComeBack ==
  ~together /\ (\A t \in Threads : pc[t] = "free") =>
    \A p \in Pools : Live(p) =>
      /\ used[p] = {}
      /\ \A c \in lost[p] : server[c] = "dead"
      /\ (idle[p] \cup lost[p]) \cap reading = {}

\* Time and again no request is under way: with all connections in use a request
\* fails and never waits, and however its query and its rollback end, it is over
\* once its connection is given back.
EveryRequestIsAnswered == []<>(\A t \in Threads : pc[t] = "free")
=============================================================================
