---------------------------- MODULE ApiPoolProofs ----------------------------
(***************************************************************************)
(* What the unlocked connection pool keeps, for every number of threads,   *)
(* connections, pools, requests and restarts of PostgreSQL.                *)
(***************************************************************************)
EXTENDS ApiPool, TLAPS

\* Once a pool has been made there is one.
PoolStays == \A t \in Threads : pc[t] = "created" => pool \in Pools

\* The idle lists of two pools that are in use have no connection in common.
IdleListsAreApart ==
  \A p, q \in Pools : Live(p) /\ Live(q) /\ p # q => idle[p] \cap idle[q] = {}

\* Only an open connection has an open transaction.
ReadingIsOpen == \A c \in reading : server[c] = "open"

IInv ==
  /\ TypeOK
  /\ PoolStays
  /\ NoSharedConnection
  /\ IdleListsAreApart
  /\ FailedIsNotReused
  /\ IdleHoldsNoLock
  /\ ReadingIsOpen

\* Where a thread has its key in _used and its connection in _rused.
Registered == {"query", "put", "giveback", "discard", "unuse"}

\* One request at a time: the pool's books are those of the request under way, and
\* what a failed rollback has left in them is dead and apart from all else.
OneRequest == \A t, u \in Threads : pc[t] # "free" /\ pc[u] # "free" => t = u
UsedByHolders ==
  \A p \in Pools : Live(p) => \A t \in used[p] : pc[t] \in Registered /\ mine[t] = p
LostAreDead ==
  \A p \in Pools : Live(p) => \A c \in lost[p] : server[c] = "dead"
LostAreApart ==
  \A p \in Pools : Live(p) =>
    /\ \A t \in Threads : pc[t] \in Holding => conn[t] \notin lost[p]
    /\ \A q \in Pools : Live(q) => idle[q] \cap lost[p] = {}
HoldersHaveKeys == \A t \in Threads : pc[t] \in Registered => conn[t] \in keyed[mine[t]]

Books == OneRequest /\ UsedByHolders /\ LostAreDead /\ LostAreApart /\ HoldersHaveKeys
BooksAreRight == ~together => Books

-----------------------------------------------------------------------------
LEMMA InitTypeOK == Init => TypeOK
<1> SUFFICES ASSUME Init
             PROVE  TypeOK
  OBVIOUS
<1> USE DEF Init
<1>1. restarts \in 0 .. MaxRestarts /\ requests \in 0 .. MaxRequests
  BY SizesAssumption
<1> QED BY <1>1 DEF TypeOK, Places, WithPool, Holding

LEMMA AnswerType ==
  ASSUME TypeOK, NEW t \in Threads, Answer(t)
  PROVE  /\ pc' \in [Threads -> Places]
         /\ mine' \in [Threads -> Pools \cup {NoPool}]
         /\ conn' \in [Threads -> Conns \cup {NoConn}]
         /\ \A u \in Threads : pc'[u] \in WithPool => mine'[u] \in Pools
         /\ \A u \in Threads : pc'[u] \in Holding \cup {"unuse"} => conn'[u] \in Conns
<1>1. /\ pc' = [pc EXCEPT ![t] = "free"]
      /\ mine' = [mine EXCEPT ![t] = NoPool]
      /\ conn' = [conn EXCEPT ![t] = NoConn]
  BY DEF Answer, GoTo
<1>2. /\ pc' \in [Threads -> Places]
      /\ mine' \in [Threads -> Pools \cup {NoPool}]
      /\ conn' \in [Threads -> Conns \cup {NoConn}]
  BY <1>1 DEF TypeOK, Places
<1>3. pc'[t] = "free"
  BY <1>1 DEF TypeOK
<1>4. \A u \in Threads \ {t} : pc'[u] = pc[u] /\ mine'[u] = mine[u] /\ conn'[u] = conn[u]
  BY <1>1 DEF TypeOK
<1> QED BY <1>2, <1>3, <1>4 DEF TypeOK, WithPool, Holding

\* A step of one thread that ends no request.
LEMMA StepOnType ==
  ASSUME TypeOK, NEW t \in Threads, NEW place \in Places, GoTo(t, place),
         \/ mine' = mine
         \/ \E p \in Pools \cup {NoPool} : mine' = [mine EXCEPT ![t] = p],
         \/ conn' = conn
         \/ \E c \in Conns : conn' = [conn EXCEPT ![t] = c],
         place \in WithPool => mine'[t] \in Pools,
         place \in Holding \cup {"unuse"} => conn'[t] \in Conns
  PROVE  /\ pc' \in [Threads -> Places]
         /\ mine' \in [Threads -> Pools \cup {NoPool}]
         /\ conn' \in [Threads -> Conns \cup {NoConn}]
         /\ \A u \in Threads : pc'[u] \in WithPool => mine'[u] \in Pools
         /\ \A u \in Threads : pc'[u] \in Holding \cup {"unuse"} => conn'[u] \in Conns
<1>1. pc' = [pc EXCEPT ![t] = place]
  BY DEF GoTo
<1>2. /\ pc' \in [Threads -> Places]
      /\ mine' \in [Threads -> Pools \cup {NoPool}]
      /\ conn' \in [Threads -> Conns \cup {NoConn}]
  BY <1>1 DEF TypeOK
<1>3. pc'[t] = place
  BY <1>1 DEF TypeOK
<1>4. \A u \in Threads \ {t} : pc'[u] = pc[u] /\ mine'[u] = mine[u] /\ conn'[u] = conn[u]
  BY <1>1 DEF TypeOK
<1> QED BY <1>2, <1>3, <1>4 DEF TypeOK

LEMMA StepTypeOK == TypeOK /\ PoolStays /\ [Next]_vars => TypeOK'
<1> SUFFICES ASSUME TypeOK, PoolStays, [Next]_vars
             PROVE  TypeOK'
  OBVIOUS
<1> USE DEF env_vars, pool_vars, thread_vars
<1> DEFINE ThreadsOK ==
             /\ pc' \in [Threads -> Places]
             /\ mine' \in [Threads -> Pools \cup {NoPool}]
             /\ conn' \in [Threads -> Conns \cup {NoConn}]
             /\ \A u \in Threads : pc'[u] \in WithPool => mine'[u] \in Pools
             /\ \A u \in Threads : pc'[u] \in Holding \cup {"unuse"} => conn'[u] \in Conns
           EnvOK ==
             /\ up' \in BOOLEAN /\ together' \in BOOLEAN
             /\ restarts' \in 0 .. MaxRestarts /\ requests' \in 0 .. MaxRequests
           PoolOK ==
             /\ server' \in [Conns -> {"open", "dead", "closed"}]
             /\ reading' \subseteq Conns
             /\ pool' \in Pools \cup {NoPool}
             /\ idle' \in [Pools -> SUBSET Conns]
             /\ used' \in [Pools -> SUBSET Threads]
             /\ keyed' \in [Pools -> SUBSET Conns]
             /\ lost' \in [Pools -> SUBSET Conns]
<1>a. ThreadsOK /\ EnvOK /\ PoolOK => TypeOK'
  BY DEF TypeOK
<1>b. UNCHANGED env_vars => EnvOK
  BY DEF TypeOK
<1>c. UNCHANGED <<server, reading, pool_vars>> => PoolOK
  BY DEF TypeOK
<1>p. /\ \A u \in Threads : pc[u] \in WithPool => mine[u] \in Pools
      /\ \A u \in Threads : pc[u] \in Holding \cup {"unuse"} => conn[u] \in Conns
  BY DEF TypeOK
<1>1. ASSUME NEW t \in Threads, Request(t)
      PROVE  TypeOK'
  <2>1. EnvOK
    BY <1>1, SizesAssumption DEF Request, TypeOK
  <2>2. ThreadsOK
    BY <1>1, StepOnType DEF Request, Places, WithPool, Holding
  <2>3. PoolOK
    BY <1>1, <1>c DEF Request
  <2> QED BY <1>a, <2>1, <2>2, <2>3
<1>2. ASSUME NEW t \in Threads, GetPool(t)
      PROVE  TypeOK'
  <2>1. ThreadsOK
    <3>1. CASE pool = NoPool
      BY <1>2, <3>1, StepOnType DEF GetPool, Places, WithPool, Holding
    <3>2. CASE pool # NoPool
      <4>1. pool \in Pools /\ mine' = [mine EXCEPT ![t] = pool] /\ GoTo(t, "getconn")
        BY <1>2, <3>2 DEF GetPool, TypeOK
      <4>2. mine'[t] = pool /\ conn' = conn
        BY <1>2, <4>1 DEF GetPool, TypeOK
      <4> QED BY <4>1, <4>2, StepOnType DEF Places, Holding
    <3> QED BY <3>1, <3>2
  <2> QED BY <1>2, <1>a, <1>b, <1>c, <2>1 DEF GetPool
<1>3. ASSUME NEW t \in Threads, CreatePool(t)
      PROVE  TypeOK'
  <2>1. ThreadsOK
    BY <1>3, StepOnType DEF CreatePool, Places, WithPool, Holding
  <2> DEFINE p == NewPool
             cs == NewConns(MinConn)
  <2>2. p \in Pools /\ cs \subseteq Conns
    BY <1>3 DEF CreatePool, PoolsLeft, ConnsLeft, Fresh
  <2>3. /\ server' = [c \in Conns |-> IF c \in cs THEN "open" ELSE server[c]]
        /\ reading' = reading \ cs
        /\ idle'  = [idle EXCEPT ![p] = cs]
        /\ used'  = [used EXCEPT ![p] = {}]
        /\ keyed' = [keyed EXCEPT ![p] = {}]
        /\ lost'  = [lost EXCEPT ![p] = {}]
        /\ pool'  = p
    BY <1>3 DEF CreatePool
  <2> HIDE DEF p, cs
  <2>4. PoolOK
    BY <2>2, <2>3 DEF TypeOK
  <2>5. UNCHANGED env_vars
    BY <1>3 DEF CreatePool
  <2> QED BY <1>a, <1>b, <2>1, <2>4, <2>5
<1>4. ASSUME NEW t \in Threads, ReturnPool(t)
      PROVE  TypeOK'
  <2>1. pool \in Pools /\ mine' = [mine EXCEPT ![t] = pool] /\ conn' = conn
    BY <1>4 DEF ReturnPool, PoolStays
  <2>2. mine'[t] = pool
    BY <2>1 DEF TypeOK
  <2>3. ThreadsOK
    BY <1>4, <2>1, <2>2, StepOnType DEF ReturnPool, Places, Holding
  <2> QED BY <1>4, <1>a, <1>b, <1>c, <2>3 DEF ReturnPool
<1>5. ASSUME NEW t \in Threads, NEW c \in Conns, PopIdle(t, c)
      PROVE  TypeOK'
  <2>1. mine[t] \in Pools /\ conn'[t] = c
    BY <1>5, <1>p DEF PopIdle, TypeOK, WithPool, Places
  <2>2. ThreadsOK
    BY <1>5, <2>1, StepOnType DEF PopIdle, Places
  <2>3. PoolOK
    BY <1>5 DEF PopIdle, TypeOK
  <2> QED BY <1>5, <1>a, <1>b, <2>2, <2>3 DEF PopIdle
<1>6. ASSUME NEW t \in Threads, RegisterIdle(t)
      PROVE  TypeOK'
  <2>1. mine[t] \in Pools /\ conn[t] \in Conns
    BY <1>6, <1>p DEF RegisterIdle, WithPool, Places, Holding
  <2>2. ThreadsOK
    BY <1>6, <2>1, StepOnType DEF RegisterIdle, Register, Places
  <2>3. PoolOK
    BY <1>6, <2>1 DEF RegisterIdle, Register, TypeOK
  <2> QED BY <1>6, <1>a, <1>b, <2>2, <2>3 DEF RegisterIdle
<1>7. ASSUME NEW t \in Threads, Refuse(t) \/ CannotConnect(t)
      PROVE  TypeOK'
  BY <1>7, <1>a, <1>b, <1>c, AnswerType DEF Refuse, CannotConnect
<1>8. ASSUME NEW t \in Threads, MayConnect(t) \/ PutConn(t)
      PROVE  TypeOK'
  <2>1. mine[t] \in Pools /\ (PutConn(t) => conn[t] \in Conns)
    BY <1>8, <1>p DEF MayConnect, PutConn, WithPool, Places, Holding
  <2>2. ThreadsOK
    BY <1>8, <2>1, StepOnType DEF MayConnect, PutConn, Places, Holding
  <2> QED BY <1>8, <1>a, <1>b, <1>c, <2>2 DEF MayConnect, PutConn
<1>9. ASSUME NEW t \in Threads, Connect(t)
      PROVE  TypeOK'
  <2>1. PICK c \in NewConns(1) :
          /\ server' = [server EXCEPT ![c] = "open"]
          /\ conn' = [conn EXCEPT ![t] = c]
          /\ reading' = reading \ {c}
          /\ Register(t, c)
    BY <1>9 DEF Connect
  <2>2. c \in Conns /\ mine[t] \in Pools /\ conn'[t] = c
    BY <1>9, <1>p, <2>1 DEF Connect, ConnsLeft, Fresh, TypeOK, WithPool, Places
  <2>3. ThreadsOK
    BY <1>9, <2>1, <2>2, StepOnType DEF Connect, Register, Places
  <2>4. PoolOK
    BY <1>9, <2>1, <2>2 DEF Connect, Register, TypeOK
  <2> QED BY <1>9, <1>a, <1>b, <2>3, <2>4 DEF Connect
<1>10. ASSUME NEW t \in Threads, QueryOk(t) \/ QueryFails(t) \/ Discard(t) \/ GiveBack(t)
       PROVE  TypeOK'
  <2>1. mine[t] \in Pools /\ conn[t] \in Conns
    BY <1>10, <1>p DEF QueryOk, QueryFails, Discard, GiveBack, WithPool, Places, Holding
  <2>2. ThreadsOK
    BY <1>10, <2>1, StepOnType DEF QueryOk, QueryFails, Discard, GiveBack, Places
  <2>3. PoolOK
    <3>1. CASE QueryOk(t) \/ QueryFails(t) \/ Discard(t)
      BY <2>1, <3>1 DEF QueryOk, QueryFails, Discard, TypeOK
    <3>2. CASE GiveBack(t)
      BY <2>1, <3>2 DEF GiveBack, TypeOK
    <3> QED BY <1>10, <3>1, <3>2
  <2> QED BY <1>10, <1>a, <1>b, <2>2, <2>3 DEF QueryOk, QueryFails, Discard, GiveBack
<1>11. ASSUME NEW t \in Threads, PutUnkeyed(t) \/ RollbackFails(t) \/ Unuse(t)
       PROVE  TypeOK'
  <2>1. mine[t] \in Pools /\ conn[t] \in Conns
    BY <1>11, <1>p DEF PutUnkeyed, RollbackFails, Unuse, WithPool, Places, Holding
  <2>2. ThreadsOK
    BY <1>11, AnswerType DEF PutUnkeyed, RollbackFails, Unuse, Lose
  <2>3. PoolOK
    BY <1>11, <2>1 DEF PutUnkeyed, RollbackFails, Unuse, Lose, TypeOK
  <2> QED BY <1>11, <1>a, <1>b, <2>2, <2>3 DEF PutUnkeyed, RollbackFails, Unuse
<1>12. CASE DbStops
  <2>1. EnvOK
    <3>1. restarts' \in 0 .. MaxRestarts
      BY <1>12, SizesAssumption DEF DbStops, TypeOK
    <3>2. up' = FALSE /\ UNCHANGED <<requests, together>>
      BY <1>12 DEF DbStops
    <3> QED BY <3>1, <3>2 DEF TypeOK
  <2>3. server' \in [Conns -> {"open", "dead", "closed"}]
    BY <1>12 DEF DbStops, TypeOK
  <2>4. PoolOK
    BY <1>12, <2>3 DEF DbStops, TypeOK
  <2>2. ThreadsOK
    BY <1>12 DEF DbStops, TypeOK
  <2> QED BY <1>a, <2>1, <2>2, <2>4
<1>13. CASE DbStarts \/ UNCHANGED vars
  BY <1>13 DEF DbStarts, vars, TypeOK
<1>14. ASSUME NEW t \in Threads, Serve(t)
       PROVE  TypeOK'
  BY <1>2, <1>3, <1>4, <1>5, <1>6, <1>7, <1>8, <1>9, <1>10, <1>11, <1>14 DEF Serve
<1> QED BY <1>1, <1>12, <1>13, <1>14 DEF Next

LEMMA StepPoolStays == TypeOK /\ PoolStays /\ [Next]_vars => PoolStays'
<1> SUFFICES ASSUME TypeOK, PoolStays, [Next]_vars,
                    NEW u \in Threads, pc'[u] = "created"
             PROVE  pool' \in Pools
  BY DEF PoolStays
<1>1. ASSUME NEW t \in Threads, CreatePool(t)
      PROVE  pool' \in Pools
  BY <1>1 DEF CreatePool, PoolsLeft
<1>2. ASSUME NEW t \in Threads, Request(t) \/ Serve(t), ~CreatePool(t)
      PROVE  pool' = pool
  BY <1>2 DEF Request, Serve, GetPool, ReturnPool, PopIdle, RegisterIdle, Refuse,
              MayConnect, Connect, CannotConnect, QueryOk, QueryFails, PutUnkeyed,
              PutConn, GiveBack, RollbackFails, Discard, Unuse, pool_vars
<1>3. ASSUME NEW t \in Threads, Request(t) \/ Serve(t), ~CreatePool(t)
      PROVE  pc[u] = "created"
  <2>1. \E place \in Places \ {"created"} : pc' = [pc EXCEPT ![t] = place]
    BY <1>3 DEF Request, Serve, GetPool, ReturnPool, PopIdle, RegisterIdle, Register,
                Refuse, MayConnect, Connect, CannotConnect, QueryOk, QueryFails,
                PutUnkeyed, PutConn, GiveBack, RollbackFails, Discard, Unuse, Lose,
                Answer, GoTo, Places
  <2> QED BY <2>1 DEF TypeOK
<1>4. CASE DbStops \/ DbStarts \/ UNCHANGED vars
  BY <1>4 DEF DbStops, DbStarts, vars, pool_vars, thread_vars, PoolStays
<1> QED BY <1>1, <1>2, <1>3, <1>4 DEF Next, PoolStays

-----------------------------------------------------------------------------
\* What the four invariants of the connections rest on: a pool that is in use was
\* in use before.
LEMMA LiveOnlyShrinks ==
  ASSUME TypeOK, TypeOK', pool' = pool,
         \A t \in Threads : mine'[t] \in {mine[t], NoPool, pool},
         NEW p \in Pools, Live(p)'
  PROVE  Live(p)
BY NoneAssumption DEF Live

Safe == NoSharedConnection /\ IdleListsAreApart /\ FailedIsNotReused
          /\ IdleHoldsNoLock /\ ReadingIsOpen

\* A step that hands out no connection and takes none back keeps them.
LEMMA QuietStep ==
  ASSUME TypeOK, TypeOK', Safe, pool' = pool,
         \A t \in Threads : mine'[t] \in {mine[t], NoPool, pool},
         \A p \in Pools : Live(p) => idle'[p] = idle[p],
         \A t \in Threads : pc'[t] \in Holding =>
           pc[t] \in Holding /\ conn'[t] = conn[t],
         \A p \in Pools : Live(p) => \A c \in idle[p] :
           server[c] \in {"open", "dead"} /\ c \notin reading =>
             server'[c] \in {"open", "dead"} /\ c \notin reading',
         ReadingIsOpen'
  PROVE  Safe'
<1>1. \A p \in Pools : Live(p)' => Live(p) /\ idle'[p] = idle[p]
  BY LiveOnlyShrinks
<1>2. NoSharedConnection'
  BY <1>1 DEF Safe, NoSharedConnection
<1>3. IdleListsAreApart'
  BY <1>1 DEF Safe, IdleListsAreApart
<1>4. FailedIsNotReused' /\ IdleHoldsNoLock'
  BY <1>1 DEF Safe, FailedIsNotReused, IdleHoldsNoLock
<1> QED BY <1>2, <1>3, <1>4 DEF Safe

LEMMA StepSafe ==
  TypeOK /\ TypeOK' /\ PoolStays /\ Safe /\ [Next]_vars => Safe'
<1> SUFFICES ASSUME TypeOK, TypeOK', PoolStays, Safe, [Next]_vars
             PROVE  Safe'
  OBVIOUS
<1> USE DEF env_vars, pool_vars, thread_vars
<1>h. \A t \in Threads : pc[t] \in Holding =>
        /\ conn[t] \in Conns
        /\ mine[t] \in Pools /\ Live(mine[t])
        /\ \A p \in Pools : Live(p) => conn[t] \notin idle[p]
  BY DEF TypeOK, Safe, NoSharedConnection, Live, Holding, WithPool, Places
<1>1. ASSUME NEW t \in Threads,
             \/ Request(t) \/ GetPool(t) \/ ReturnPool(t) \/ Refuse(t)
             \/ MayConnect(t) \/ CannotConnect(t) \/ PutUnkeyed(t) \/ RollbackFails(t)
             \/ Unuse(t)
      PROVE  Safe'
  <2>1. UNCHANGED <<server, reading, pool, idle>>
    BY <1>1 DEF Request, GetPool, ReturnPool, Refuse, MayConnect, CannotConnect,
                PutUnkeyed, RollbackFails, Unuse
  <2>2. \A u \in Threads \ {t} : pc'[u] = pc[u] /\ mine'[u] = mine[u] /\ conn'[u] = conn[u]
    BY <1>1 DEF Request, GetPool, ReturnPool, Refuse, MayConnect, CannotConnect,
                PutUnkeyed, RollbackFails, Unuse, Lose, Answer, GoTo, TypeOK
  <2>3. pc'[t] \notin Holding /\ mine'[t] \in {mine[t], NoPool, pool}
    <3>1. \E place \in Places \ Holding : pc' = [pc EXCEPT ![t] = place]
      BY <1>1 DEF Request, GetPool, ReturnPool, Refuse, MayConnect, CannotConnect,
                  PutUnkeyed, RollbackFails, Unuse, Lose, Answer, GoTo, Places, Holding
    <3>2. \/ mine' = mine
          \/ \E p \in {NoPool, pool} : mine' = [mine EXCEPT ![t] = p]
      BY <1>1 DEF Request, GetPool, ReturnPool, Refuse, MayConnect, CannotConnect,
                  PutUnkeyed, RollbackFails, Unuse, Lose, Answer
    <3> QED BY <3>1, <3>2 DEF TypeOK
  <2>4. ReadingIsOpen'
    BY <2>1 DEF Safe, ReadingIsOpen
  <2> QED BY <2>1, <2>2, <2>3, <2>4, QuietStep
<1>2. ASSUME NEW t \in Threads, RegisterIdle(t) \/ PutConn(t)
      PROVE  Safe'
  <2>1. UNCHANGED <<server, reading, pool, idle, mine, conn>>
    BY <1>2 DEF RegisterIdle, PutConn
  <2>2. pc[t] \in Holding /\ \A u \in Threads \ {t} : pc'[u] = pc[u]
    BY <1>2 DEF RegisterIdle, Register, PutConn, GoTo, TypeOK, Holding
  <2>3. ReadingIsOpen'
    BY <2>1 DEF Safe, ReadingIsOpen
  <2> QED BY <2>1, <2>2, <2>3, QuietStep
<1>3. ASSUME NEW t \in Threads, QueryOk(t) \/ QueryFails(t) \/ Discard(t)
      PROVE  Safe'
  <2>1. UNCHANGED <<pool, idle, mine, conn>> /\ pc[t] \in Holding
    BY <1>3 DEF QueryOk, QueryFails, Discard, Holding
  <2>2. \A u \in Threads \ {t} : pc'[u] = pc[u]
    BY <1>3 DEF QueryOk, QueryFails, Discard, GoTo, TypeOK
  <2>3. \A c \in Conns \ {conn[t]} : server'[c] = server[c] /\ (c \in reading' => c \in reading)
    BY <1>3 DEF QueryOk, QueryFails, Discard, TypeOK
  <2>4. \A p \in Pools : Live(p) => \A c \in idle[p] : c \in Conns \ {conn[t]}
    BY <1>h, <2>1 DEF TypeOK
  <2>5. ReadingIsOpen'
    <3>1. conn[t] \in reading' => server'[conn[t]] = "open"
      BY <1>3, <1>h, <2>1 DEF QueryOk, QueryFails, Discard, Safe, ReadingIsOpen
    <3>2. \A c \in reading' \ {conn[t]} : server'[c] = "open"
      BY <2>3 DEF Safe, ReadingIsOpen, TypeOK
    <3> QED BY <3>1, <3>2 DEF ReadingIsOpen
  <2> QED BY <2>1, <2>2, <2>3, <2>4, <2>5, QuietStep
<1>4. CASE DbStops \/ DbStarts \/ UNCHANGED vars
  <2>1. UNCHANGED <<pool, idle, mine, conn, pc>>
    BY <1>4 DEF DbStops, DbStarts, vars
  <2>2. \A c \in Conns : server'[c] \in {server[c], "dead"} /\ (c \in reading' => c \in reading)
    BY <1>4 DEF DbStops, DbStarts, vars, TypeOK
  <2>3. ReadingIsOpen'
    BY <1>4 DEF DbStops, DbStarts, vars, Safe, ReadingIsOpen
  <2>4. \A p \in Pools : idle[p] \subseteq Conns
    BY DEF TypeOK
  <2> QED BY <2>1, <2>2, <2>3, <2>4, QuietStep
<1>5. ASSUME NEW t \in Threads, NEW c \in Conns, PopIdle(t, c)
      PROVE  Safe'
  <2>1. /\ UNCHANGED <<pool, mine, server, reading>>
        /\ c \in idle[mine[t]] /\ mine[t] \in Pools /\ Live(mine[t])
    BY <1>5 DEF PopIdle, TypeOK, Live, WithPool, Places
  <2>2. \A p \in Pools : idle'[p] = IF p = mine[t] THEN idle[p] \ {c} ELSE idle[p]
    BY <1>5 DEF PopIdle, TypeOK
  <2>3. /\ conn'[t] = c
        /\ \A u \in Threads \ {t} : conn'[u] = conn[u] /\ pc'[u] = pc[u]
    BY <1>5 DEF PopIdle, GoTo, TypeOK
  <2>4. \A p \in Pools : Live(p)' => Live(p)
    BY <2>1 DEF Live
  <2>5. \A p \in Pools : Live(p) => c \notin idle'[p]
    BY <2>1, <2>2 DEF Safe, IdleListsAreApart
  <2>6. NoSharedConnection'
    <3> SUFFICES ASSUME NEW u \in Threads, pc'[u] \in Holding
                 PROVE  /\ \A v \in Threads \ {u} : pc'[v] \in Holding => conn'[v] # conn'[u]
                        /\ \A p \in Pools : Live(p)' => conn'[u] \notin idle'[p]
      BY DEF NoSharedConnection
    <3>1. \A v \in Threads \ {t} : pc'[v] \in Holding => conn'[v] # c
      BY <1>h, <2>1, <2>3
    <3>2. CASE u = t
      BY <2>3, <2>4, <2>5, <3>1, <3>2
    <3>3. CASE u # t
      <4>1. \A v \in Threads \ {u} : pc'[v] \in Holding => conn'[v] # conn'[u]
        BY <2>3, <3>1, <3>3 DEF Safe, NoSharedConnection
      <4>2. \A p \in Pools : Live(p)' => conn'[u] \notin idle'[p]
        BY <1>h, <2>2, <2>3, <2>4, <3>3
      <4> QED BY <4>1, <4>2
    <3> QED BY <3>2, <3>3
  <2>7. IdleListsAreApart'
    BY <2>2, <2>4 DEF Safe, IdleListsAreApart
  <2>8. FailedIsNotReused' /\ IdleHoldsNoLock' /\ ReadingIsOpen'
    BY <2>1, <2>2, <2>4 DEF Safe, FailedIsNotReused, IdleHoldsNoLock, ReadingIsOpen
  <2> QED BY <2>6, <2>7, <2>8 DEF Safe
<1>6. ASSUME NEW t \in Threads, GiveBack(t)
      PROVE  Safe'
  <2>1. UNCHANGED <<pool, mine, conn, server>> /\ pc[t] \in Holding
    BY <1>6 DEF GiveBack, Holding
  <2>2. reading' = reading \ {conn[t]}
    BY <1>6 DEF GiveBack
  <2>3. /\ pc'[t] = "unuse"
        /\ \A u \in Threads \ {t} : pc'[u] = pc[u]
    BY <1>6 DEF GiveBack, GoTo, TypeOK
  <2>4. \A p \in Pools : Live(p)' => Live(p)
    BY <2>1 DEF Live
  <2>5. \A p \in Pools : \/ idle'[p] = idle[p]
                        \/ /\ p = mine[t] /\ idle'[p] = idle[p] \cup {conn[t]}
                           /\ server[conn[t]] = "open"
    BY <1>6, <1>h, <2>1 DEF GiveBack, TypeOK
  <2>6. \A u \in Threads \ {t} : pc[u] \in Holding => conn[u] # conn[t]
    BY <2>1 DEF Safe, NoSharedConnection
  <2>7. NoSharedConnection'
    <3> SUFFICES ASSUME NEW u \in Threads, pc'[u] \in Holding
                 PROVE  /\ \A v \in Threads \ {u} : pc'[v] \in Holding => conn'[v] # conn'[u]
                        /\ \A p \in Pools : Live(p)' => conn'[u] \notin idle'[p]
      BY DEF NoSharedConnection
    <3>1. u # t /\ pc[u] \in Holding /\ conn'[u] = conn[u]
      BY <2>1, <2>3 DEF Holding
    <3>2. \A v \in Threads \ {u} : pc'[v] \in Holding => conn'[v] # conn'[u]
      BY <2>1, <2>3, <3>1 DEF Holding, Safe, NoSharedConnection
    <3>3. \A p \in Pools : Live(p)' => conn[u] \notin idle'[p]
      BY <1>h, <2>4, <2>5, <2>6, <3>1
    <3> QED BY <3>1, <3>2, <3>3
  <2>8. IdleListsAreApart'
    <3>1. \A p \in Pools : Live(p) => conn[t] \notin idle[p]
      BY <1>h, <2>1
    <3> QED BY <2>4, <2>5, <3>1 DEF Safe, IdleListsAreApart
  <2>9. FailedIsNotReused' /\ IdleHoldsNoLock' /\ ReadingIsOpen'
    BY <2>1, <2>2, <2>4, <2>5 DEF Safe, FailedIsNotReused, IdleHoldsNoLock, ReadingIsOpen
  <2> QED BY <2>7, <2>8, <2>9 DEF Safe
<1>7. ASSUME NEW t \in Threads, Connect(t)
      PROVE  Safe'
  <2>1. PICK c \in NewConns(1) :
          /\ server' = [server EXCEPT ![c] = "open"]
          /\ conn' = [conn EXCEPT ![t] = c]
          /\ reading' = reading \ {c}
          /\ Register(t, c)
    BY <1>7 DEF Connect
  <2>2. c \in Conns /\ ~Referenced(c) /\ UNCHANGED <<pool, idle, mine>>
    BY <1>7, <2>1 DEF Connect, ConnsLeft, Fresh
  <2>3. /\ conn'[t] = c
        /\ \A u \in Threads \ {t} : conn'[u] = conn[u] /\ pc'[u] = pc[u]
    BY <2>1 DEF Register, GoTo, TypeOK
  <2>4. \A p \in Pools : Live(p)' => Live(p)
    BY <2>2 DEF Live
  <2>5. /\ \A p \in Pools : Live(p) => c \notin idle[p]
        /\ \A u \in Threads : conn[u] # c
    BY <2>2 DEF Referenced
  <2>6. NoSharedConnection'
    BY <2>2, <2>3, <2>4, <2>5 DEF Safe, NoSharedConnection
  <2>7. \A b \in Conns \ {c} : server'[b] = server[b]
    BY <2>1, <2>2 DEF TypeOK
  <2>8. \A p \in Pools : Live(p) => idle[p] \subseteq Conns \ {c}
    BY <2>5 DEF TypeOK
  <2>9. FailedIsNotReused' /\ IdleHoldsNoLock'
    BY <2>1, <2>2, <2>4, <2>7, <2>8 DEF Safe, FailedIsNotReused, IdleHoldsNoLock
  <2>10. ReadingIsOpen' /\ IdleListsAreApart'
    BY <2>1, <2>2, <2>4, <2>7 DEF Safe, ReadingIsOpen, IdleListsAreApart, TypeOK
  <2> QED BY <2>6, <2>9, <2>10 DEF Safe
<1>8. ASSUME NEW t \in Threads, CreatePool(t)
      PROVE  Safe'
  <2> DEFINE p == NewPool
             cs == NewConns(MinConn)
  <2>1. /\ p \in Pools /\ ~Live(p)
        /\ \A c \in cs : c \in Conns /\ ~Referenced(c)
    BY <1>8 DEF CreatePool, PoolsLeft, ConnsLeft, Fresh
  <2>2. /\ server' = [c \in Conns |-> IF c \in cs THEN "open" ELSE server[c]]
        /\ reading' = reading \ cs
        /\ idle'  = [idle EXCEPT ![p] = cs]
        /\ pool'  = p
        /\ GoTo(t, "created")
        /\ UNCHANGED <<mine, conn>>
    BY <1>8 DEF CreatePool
  <2> HIDE DEF p, cs
  <2>3. \A q \in Pools : Live(q)' => q = p \/ (Live(q) /\ q # p)
    BY <2>1, <2>2 DEF Live
  <2>4. idle'[p] = cs /\ \A q \in Pools \ {p} : idle'[q] = idle[q]
    BY <2>1, <2>2 DEF TypeOK
  <2>5. \A c \in cs : /\ \A q \in Pools : Live(q) => c \notin idle[q]
                     /\ \A u \in Threads : conn[u] # c
    BY <2>1 DEF Referenced
  <2>6. \A u \in Threads : pc'[u] \in Holding => pc[u] \in Holding
    BY <2>2 DEF GoTo, TypeOK, Holding
  <2>7. NoSharedConnection'
    BY <2>2, <2>3, <2>4, <2>5, <2>6 DEF Safe, NoSharedConnection
  <2>8. IdleListsAreApart'
    BY <2>3, <2>4, <2>5 DEF Safe, IdleListsAreApart
  <2>9. \A q \in Pools : Live(q)' => idle'[q] \subseteq Conns
    BY DEF TypeOK
  <2>10. FailedIsNotReused'
    BY <2>2, <2>3, <2>4, <2>9 DEF Safe, FailedIsNotReused
  <2>11. IdleHoldsNoLock' /\ ReadingIsOpen'
    BY <2>2, <2>3, <2>4 DEF Safe, IdleHoldsNoLock, ReadingIsOpen, TypeOK
  <2> QED BY <2>7, <2>8, <2>10, <2>11 DEF Safe
<1>9. ASSUME NEW t \in Threads, Serve(t)
      PROVE  Safe'
  BY <1>1, <1>2, <1>3, <1>5, <1>6, <1>7, <1>8, <1>9 DEF Serve
<1> QED BY <1>1, <1>4, <1>9 DEF Next

LEMMA IInvAlways == Spec => []IInv
<1>1. Init => IInv
  <2> SUFFICES ASSUME Init
               PROVE  IInv
    OBVIOUS
  <2> USE DEF Init
  <2>1. \A p \in Pools : idle[p] = {}
    OBVIOUS
  <2>2. \A t \in Threads : pc[t] = "free"
    OBVIOUS
  <2>3. NoSharedConnection /\ PoolStays
    BY <2>2 DEF NoSharedConnection, PoolStays, Holding
  <2>4. IdleListsAreApart /\ FailedIsNotReused /\ IdleHoldsNoLock /\ ReadingIsOpen
    BY <2>1 DEF IdleListsAreApart, FailedIsNotReused, IdleHoldsNoLock, ReadingIsOpen
  <2> QED BY <2>3, <2>4, InitTypeOK DEF IInv
<1>2. IInv /\ [Next]_vars => IInv'
  BY StepTypeOK, StepPoolStays, StepSafe DEF IInv, Safe
<1> QED BY <1>1, <1>2, PTL DEF Spec

-----------------------------------------------------------------------------
\* The books, as long as requests come one at a time.
LEMMA StepBooks ==
  IInv /\ IInv' /\ BooksAreRight /\ [Next]_vars => BooksAreRight'
<1> SUFFICES ASSUME IInv, IInv', BooksAreRight, [Next]_vars, ~together'
             PROVE  Books'
  BY DEF BooksAreRight
<1> USE DEF env_vars, pool_vars, thread_vars
<1>t. TypeOK /\ TypeOK'
  BY DEF IInv
<1>b. Books
  <2>1. together => together'
    BY DEF Next, Request, Serve, GetPool, CreatePool, ReturnPool, PopIdle, RegisterIdle,
           Refuse, MayConnect, Connect, CannotConnect, QueryOk, QueryFails, PutUnkeyed,
           PutConn, GiveBack, RollbackFails, Discard, Unuse, DbStops, DbStarts, vars
  <2> QED BY <2>1 DEF BooksAreRight
<1>h. \A t \in Threads : pc[t] \in Holding \cup {"unuse"} =>
        conn[t] \in Conns /\ mine[t] \in Pools /\ Live(mine[t])
  BY <1>t DEF TypeOK, Live, Holding, WithPool, Places
<1>1. ASSUME NEW t \in Threads, Request(t)
      PROVE  Books'
  <2>1. /\ \A u \in Threads : pc[u] = "free"
        /\ \A u \in Threads \ {t} : pc'[u] = "free"
        /\ pc'[t] = "get_pool"
        /\ UNCHANGED <<server, reading, pool_vars, mine, conn>>
    BY <1>1, <1>t DEF Request, GoTo, TypeOK
  <2>2. OneRequest' /\ HoldersHaveKeys'
    BY <2>1 DEF OneRequest, HoldersHaveKeys, Registered
  <2>3. UsedByHolders' /\ LostAreDead' /\ LostAreApart'
    BY <1>b, <1>t, <2>1 DEF TypeOK, Books, UsedByHolders, LostAreDead, LostAreApart, Live,
                        Registered, Holding
  <2> QED BY <2>2, <2>3 DEF Books
<1>2. CASE DbStops \/ DbStarts \/ UNCHANGED vars
  <2>1. UNCHANGED <<pool_vars, thread_vars>>
    BY <1>2 DEF DbStops, DbStarts, vars
  <2>2. \A c \in Conns : server[c] = "dead" => server'[c] = "dead"
    BY <1>2, <1>t DEF DbStops, DbStarts, vars, TypeOK
  <2>3. LostAreDead'
    BY <1>b, <1>t, <2>1, <2>2 DEF Books, LostAreDead, Live, TypeOK
  <2>4. OneRequest' /\ UsedByHolders' /\ LostAreApart' /\ HoldersHaveKeys'
    BY <1>b, <2>1 DEF Books, OneRequest, UsedByHolders, LostAreApart, HoldersHaveKeys, Live
  <2> QED BY <2>3, <2>4 DEF Books
<1>3. ASSUME NEW t \in Threads, Serve(t)
      PROVE  Books'
  <2>1. /\ pc[t] # "free"
        /\ \A u \in Threads \ {t} : pc[u] = "free" /\ pc'[u] = "free"
    <3>1. pc[t] # "free"
      BY <1>3 DEF Serve, GetPool, CreatePool, ReturnPool, PopIdle, RegisterIdle, Refuse,
                  MayConnect, Connect, CannotConnect, QueryOk, QueryFails, PutUnkeyed,
                  PutConn, GiveBack, RollbackFails, Discard, Unuse
    <3>2. \E place \in Places : pc' = [pc EXCEPT ![t] = place]
      BY <1>3 DEF Serve, GetPool, CreatePool, ReturnPool, PopIdle, RegisterIdle, Refuse,
                  MayConnect, Connect, CannotConnect, QueryOk, QueryFails, PutUnkeyed,
                  PutConn, GiveBack, RollbackFails, Discard, Unuse, Register, Lose,
                  Answer, GoTo, Places
    <3>3. \A u \in Threads \ {t} : pc'[u] = pc[u]
      BY <1>t, <3>2 DEF TypeOK
    <3> QED BY <1>b, <3>1, <3>3 DEF Books, OneRequest
  <2>2. OneRequest'
    BY <2>1 DEF OneRequest
  <2>u. \A p \in Pools : Live(p) /\ used[p] # {} =>
          used[p] = {t} /\ pc[t] \in Registered /\ mine[t] = p
    <3>1. \A p \in Pools : used[p] \subseteq Threads
      BY <1>t DEF TypeOK
    <3> QED BY <1>b, <2>1, <3>1 DEF Books, UsedByHolders, Registered
  \* It is enough to look at the serving thread.
  <2>s. ASSUME UsedByHolders', LostAreDead',
               \A p, q \in Pools : Live(p)' /\ Live(q)' => idle'[q] \cap lost'[p] = {},
               pc'[t] \in Holding => \A p \in Pools : Live(p)' => conn'[t] \notin lost'[p],
               pc'[t] \in Registered => conn'[t] \in keyed'[mine'[t]]
        PROVE  Books'
    <3>1. LostAreApart'
      BY <2>1, <2>s DEF LostAreApart, Holding
    <3>2. HoldersHaveKeys'
      BY <2>1, <2>s DEF HoldersHaveKeys, Registered
    <3> QED BY <2>2, <2>s, <3>1, <3>2 DEF Books
  <2>3. ASSUME GetPool(t) \/ ReturnPool(t) \/ Refuse(t) \/ MayConnect(t) \/ CannotConnect(t)
        PROVE  Books'
    <3>1. /\ UNCHANGED <<server, pool_vars>>
          /\ pc[t] \notin Registered
      BY <2>3 DEF GetPool, ReturnPool, Refuse, MayConnect, CannotConnect, Registered
    <3>2. pc'[t] \notin Registered \cup Holding
      BY <1>t, <2>3 DEF GetPool, ReturnPool, Refuse, MayConnect, CannotConnect, Answer, GoTo,
                  TypeOK, Registered, Holding
    <3>3. \A u \in Threads : mine'[u] \in {mine[u], NoPool, pool}
      BY <1>t, <2>3 DEF GetPool, ReturnPool, Refuse, MayConnect, CannotConnect, Answer,
                        TypeOK
    <3>4. \A p \in Pools : Live(p)' => Live(p)
      BY <1>t, <3>1, <3>3, LiveOnlyShrinks
    <3>5. UsedByHolders'
      BY <2>u, <3>1, <3>4 DEF UsedByHolders
    <3>6. LostAreDead'
      BY <1>b, <3>1, <3>4 DEF Books, LostAreDead
    <3>7. \A p, q \in Pools : Live(p)' /\ Live(q)' => idle'[q] \cap lost'[p] = {}
      BY <1>b, <3>1, <3>4 DEF Books, LostAreApart
    <3> QED BY <2>s, <3>2, <3>5, <3>6, <3>7
  <2>4. ASSUME CreatePool(t)
        PROVE  Books'
    <3> DEFINE n == NewPool
               cs == NewConns(MinConn)
    <3>1. /\ n \in Pools /\ ~Live(n)
          /\ \A c \in cs : c \in Conns /\ ~Referenced(c)
      BY <2>4 DEF CreatePool, PoolsLeft, ConnsLeft, Fresh
    <3>2. /\ server' = [c \in Conns |-> IF c \in cs THEN "open" ELSE server[c]]
          /\ idle' = [idle EXCEPT ![n] = cs]
          /\ used' = [used EXCEPT ![n] = {}]
          /\ lost' = [lost EXCEPT ![n] = {}]
          /\ pool' = n
          /\ UNCHANGED <<mine, conn>>
          /\ pc[t] = "create" /\ GoTo(t, "created")
      BY <2>4 DEF CreatePool
    <3> HIDE DEF n, cs
    <3>3. \A q \in Pools : Live(q)' => q = n \/ (Live(q) /\ q # n)
      BY <3>1, <3>2 DEF Live
    <3>4. /\ idle'[n] = cs /\ used'[n] = {} /\ lost'[n] = {}
          /\ \A q \in Pools \ {n} : idle'[q] = idle[q] /\ used'[q] = used[q] /\ lost'[q] = lost[q]
      BY <1>t, <3>1, <3>2 DEF TypeOK
    <3>5. \A q \in Pools : Live(q) => lost[q] \cap cs = {} /\ lost[q] \subseteq Conns
      BY <1>t, <3>1 DEF Referenced, TypeOK
    <3>6. pc'[t] = "created"
      BY <1>t, <3>2 DEF GoTo, TypeOK
    <3>7. UsedByHolders'
      BY <2>u, <3>2, <3>3, <3>4 DEF UsedByHolders, Registered
    <3>8. LostAreDead'
      BY <1>b, <3>2, <3>3, <3>4, <3>5 DEF Books, LostAreDead
    <3>9. \A p, q \in Pools : Live(p)' /\ Live(q)' => idle'[q] \cap lost'[p] = {}
      BY <1>b, <3>3, <3>4, <3>5 DEF Books, LostAreApart
    <3> QED BY <2>s, <3>6, <3>7, <3>8, <3>9 DEF Registered, Holding
  <2>5. ASSUME NEW c \in Conns, PopIdle(t, c)
        PROVE  Books'
    <3>1. /\ UNCHANGED <<pool, mine, server, used, keyed, lost>>
          /\ c \in idle[mine[t]] /\ pc[t] = "getconn"
          /\ pc'[t] = "popped" /\ conn'[t] = c
      BY <1>t, <2>5 DEF PopIdle, GoTo, TypeOK
    <3>2. mine[t] \in Pools /\ Live(mine[t])
      BY <1>t, <3>1 DEF TypeOK, WithPool, Places, Live
    <3>3. \A p \in Pools : idle'[p] \subseteq idle[p] /\ (Live(p)' => Live(p))
      BY <1>t, <2>5, <3>1 DEF PopIdle, TypeOK, Live
    <3>4. UsedByHolders'
      BY <2>u, <3>1, <3>3 DEF UsedByHolders, Registered
    <3>5. LostAreDead'
      BY <1>b, <3>1, <3>3 DEF Books, LostAreDead
    <3>6. \A p, q \in Pools : Live(p)' /\ Live(q)' => idle'[q] \cap lost'[p] = {}
      BY <1>b, <3>1, <3>3 DEF Books, LostAreApart
    <3>7. \A p \in Pools : Live(p)' => c \notin lost'[p]
      BY <1>b, <3>1, <3>2, <3>3 DEF Books, LostAreApart
    <3> QED BY <2>s, <3>1, <3>4, <3>5, <3>6, <3>7 DEF Registered
  <2>6. ASSUME RegisterIdle(t)
        PROVE  Books'
    <3>1. /\ UNCHANGED <<pool, mine, conn, server, idle, lost>>
          /\ pc[t] = "popped" /\ pc'[t] = "query"
      BY <1>t, <2>6 DEF RegisterIdle, Register, GoTo, TypeOK
    <3>2. \A p \in Pools : Live(p)' => Live(p)
      BY <3>1 DEF Live
    <3>3. mine[t] \in Pools /\ conn[t] \in Conns
      BY <1>h, <3>1 DEF Holding
    <3>4. /\ \A p \in Pools : used'[p] = IF p = mine[t] THEN used[p] \cup {t} ELSE used[p]
          /\ conn[t] \in keyed'[mine[t]]
      BY <1>t, <2>6, <3>3 DEF RegisterIdle, Register, TypeOK
    <3>5. UsedByHolders'
      <4>1. \A p \in Pools : Live(p)' => used[p] = {}
        BY <2>u, <3>1, <3>2 DEF Registered
      <4>2. ASSUME NEW p \in Pools, Live(p)', NEW u \in used'[p]
            PROVE  u = t /\ p = mine[t]
        <5>1. used[p] = {}
          BY <4>1, <4>2
        <5>2. used'[p] = IF p = mine[t] THEN used[p] \cup {t} ELSE used[p]
          BY <3>4
        <5> QED BY <5>1, <5>2
      <4>3. pc'[t] \in Registered /\ mine'[t] = mine[t]
        BY <3>1 DEF Registered
      <4> QED BY <4>2, <4>3 DEF UsedByHolders
    <3>6. LostAreDead'
      BY <1>b, <3>1, <3>2 DEF Books, LostAreDead
    <3>7. \A p, q \in Pools : Live(p)' /\ Live(q)' => idle'[q] \cap lost'[p] = {}
      BY <1>b, <3>1, <3>2 DEF Books, LostAreApart
    <3>8. \A p \in Pools : Live(p)' => conn[t] \notin lost'[p]
      BY <1>b, <3>1, <3>2 DEF Books, LostAreApart, Holding
    <3> QED BY <2>s, <3>1, <3>4, <3>5, <3>6, <3>7, <3>8
  <2>7. ASSUME Connect(t)
        PROVE  Books'
    <3>1. PICK c \in NewConns(1) :
            /\ server' = [server EXCEPT ![c] = "open"]
            /\ conn' = [conn EXCEPT ![t] = c]
            /\ Register(t, c)
      BY <2>7 DEF Connect
    <3>2. /\ c \in Conns /\ ~Referenced(c)
          /\ UNCHANGED <<pool, idle, mine, lost>> /\ pc[t] = "connect"
      BY <2>7, <3>1 DEF Connect, ConnsLeft, Fresh
    <3>3. mine[t] \in Pools /\ conn'[t] = c /\ pc'[t] = "query"
      BY <1>t, <3>1, <3>2 DEF TypeOK, WithPool, Places, Register, GoTo
    <3>4. \A p \in Pools : Live(p)' => Live(p)
      BY <3>2 DEF Live
    <3>5. \A p \in Pools : Live(p) => c \notin lost[p] /\ lost[p] \subseteq Conns
      BY <1>t, <3>2 DEF Referenced, TypeOK
    <3>6. /\ \A p \in Pools : used'[p] = IF p = mine[t] THEN used[p] \cup {t} ELSE used[p]
          /\ c \in keyed'[mine[t]]
      BY <1>t, <3>1, <3>3 DEF Register, TypeOK
    <3>7. UsedByHolders'
      <4>1. \A p \in Pools : Live(p)' => used[p] = {}
        BY <2>u, <3>2, <3>4 DEF Registered
      <4>2. ASSUME NEW p \in Pools, Live(p)', NEW u \in used'[p]
            PROVE  u = t /\ p = mine[t]
        <5>1. used[p] = {}
          BY <4>1, <4>2
        <5>2. used'[p] = IF p = mine[t] THEN used[p] \cup {t} ELSE used[p]
          BY <3>6
        <5> QED BY <5>1, <5>2
      <4>3. pc'[t] \in Registered /\ mine'[t] = mine[t]
        BY <3>2, <3>3 DEF Registered
      <4> QED BY <4>2, <4>3 DEF UsedByHolders
    <3>8. LostAreDead'
      <4>1. \A b \in Conns \ {c} : server'[b] = server[b]
        BY <1>t, <3>1 DEF TypeOK
      <4> QED BY <1>b, <3>2, <3>4, <3>5, <4>1 DEF Books, LostAreDead
    <3>9. \A p, q \in Pools : Live(p)' /\ Live(q)' => idle'[q] \cap lost'[p] = {}
      BY <1>b, <3>2, <3>4 DEF Books, LostAreApart
    <3> QED BY <2>s, <3>2, <3>3, <3>4, <3>5, <3>6, <3>7, <3>8, <3>9
  <2>8. ASSUME QueryOk(t) \/ QueryFails(t) \/ PutConn(t) \/ Discard(t)
        PROVE  Books'
    <3>1. /\ UNCHANGED <<pool_vars, mine, conn>>
          /\ pc[t] \in Holding \cap Registered
      BY <2>8 DEF QueryOk, QueryFails, PutConn, Discard, Holding, Registered
    <3>2. pc'[t] \in Registered
      BY <1>t, <2>8 DEF QueryOk, QueryFails, PutConn, Discard, GoTo, TypeOK, Registered
    <3>3. \A p \in Pools : Live(p)' => Live(p)
      BY <3>1 DEF Live
    <3>4. \A c \in Conns \ {conn[t]} : server'[c] = server[c]
      BY <1>t, <2>8 DEF QueryOk, QueryFails, PutConn, Discard, TypeOK
    <3>5. \A p \in Pools : Live(p) => conn[t] \notin lost[p] /\ lost[p] \subseteq Conns
      BY <1>b, <1>t, <3>1 DEF Books, LostAreApart, TypeOK
    <3>6. UsedByHolders'
      BY <2>u, <3>1, <3>2, <3>3 DEF UsedByHolders
    <3>7. LostAreDead'
      BY <1>b, <3>1, <3>3, <3>4, <3>5 DEF Books, LostAreDead
    <3>8. \A p, q \in Pools : Live(p)' /\ Live(q)' => idle'[q] \cap lost'[p] = {}
      BY <1>b, <3>1, <3>3 DEF Books, LostAreApart
    <3>9. conn[t] \in keyed[mine[t]]
      BY <1>b, <3>1 DEF Books, HoldersHaveKeys
    <3> QED BY <2>s, <3>1, <3>3, <3>5, <3>6, <3>7, <3>8, <3>9
  <2>9. ASSUME GiveBack(t)
        PROVE  Books'
    <3>1. /\ UNCHANGED <<pool, used, keyed, lost, mine, conn, server>>
          /\ pc[t] = "giveback" /\ pc'[t] = "unuse"
      BY <1>t, <2>9 DEF GiveBack, GoTo, TypeOK
    <3>2. \A p \in Pools : Live(p)' => Live(p)
      BY <3>1 DEF Live
    <3>3. \A p \in Pools : idle'[p] \subseteq idle[p] \cup {conn[t]}
      BY <1>t, <2>9 DEF GiveBack, TypeOK
    <3>4. \A p \in Pools : Live(p) => conn[t] \notin lost[p]
      BY <1>b, <3>1 DEF Books, LostAreApart, Holding
    <3>5. UsedByHolders'
      BY <2>u, <3>1, <3>2 DEF UsedByHolders, Registered
    <3>6. LostAreDead'
      BY <1>b, <3>1, <3>2 DEF Books, LostAreDead
    <3>7. \A p, q \in Pools : Live(p)' /\ Live(q)' => idle'[q] \cap lost'[p] = {}
      BY <1>b, <3>1, <3>2, <3>3, <3>4 DEF Books, LostAreApart
    <3>8. conn[t] \in keyed[mine[t]]
      BY <1>b, <3>1 DEF Books, HoldersHaveKeys, Registered
    <3> QED BY <2>s, <3>1, <3>5, <3>6, <3>7, <3>8 DEF Holding
  <2>10. ~PutUnkeyed(t)
    BY <1>b DEF PutUnkeyed, Books, HoldersHaveKeys, Registered
  <2>11. ASSUME RollbackFails(t) \/ Unuse(t)
         PROVE  Books'
    <3>1. /\ UNCHANGED <<pool, idle, server>>
          /\ pc[t] \in Holding \cup {"unuse"} /\ Answer(t)
          /\ used' = [used EXCEPT ![mine[t]] = @ \ {t}]
      BY <2>11 DEF RollbackFails, Unuse, Lose, Holding
    <3>2. pc'[t] = "free" /\ \A u \in Threads : mine'[u] \in {mine[u], NoPool, pool}
      BY <1>t, <3>1 DEF Answer, GoTo, TypeOK
    <3>3. \A p \in Pools : Live(p)' => Live(p)
      BY <1>t, <3>1, <3>2, LiveOnlyShrinks
    <3>4. \A p \in Pools : lost'[p] = lost[p] \/ (RollbackFails(t) /\ lost'[p] = lost[p] \cup {conn[t]})
      BY <1>t, <2>11 DEF RollbackFails, Unuse, Lose, TypeOK
    <3>5. RollbackFails(t) => /\ server[conn[t]] = "dead"
                              /\ \A p \in Pools : Live(p) => conn[t] \notin idle[p]
      BY DEF RollbackFails, IInv, NoSharedConnection, Holding
    <3>6. UsedByHolders'
      <4>1. \A p \in Pools : Live(p) => used'[p] = {}
        BY <1>h, <1>t, <2>u, <3>1 DEF TypeOK
      <4> QED BY <3>3, <4>1 DEF UsedByHolders
    <3>7. LostAreDead'
      BY <1>b, <3>1, <3>3, <3>4, <3>5 DEF Books, LostAreDead
    <3>8. \A p, q \in Pools : Live(p)' /\ Live(q)' => idle'[q] \cap lost'[p] = {}
      BY <1>b, <3>1, <3>3, <3>4, <3>5 DEF Books, LostAreApart
    <3> QED BY <2>s, <3>2, <3>6, <3>7, <3>8 DEF Registered, Holding
  <2> QED BY <1>3, <2>3, <2>4, <2>5, <2>6, <2>7, <2>8, <2>9, <2>10, <2>11 DEF Serve
<1> QED BY <1>1, <1>2, <1>3 DEF Next

LEMMA BooksAlways == Spec => []BooksAreRight
<1>1. Init => BooksAreRight
  <2> SUFFICES ASSUME Init
               PROVE  Books
    BY DEF BooksAreRight
  <2>1. /\ \A p \in Pools : used[p] = {} /\ lost[p] = {}
        /\ \A t \in Threads : pc[t] = "free"
    BY DEF Init
  <2> QED BY <2>1 DEF Books, OneRequest, UsedByHolders, LostAreDead, LostAreApart,
                      HoldersHaveKeys, Registered, Holding
<1>2. IInv /\ IInv' /\ BooksAreRight /\ [Next]_vars => BooksAreRight'
  BY StepBooks
<1> QED BY <1>1, <1>2, IInvAlways, PTL DEF Spec

-----------------------------------------------------------------------------
\* Type correctness of the pool and its threads.
THEOREM TypeCorrect == Spec => []TypeOK
BY IInvAlways, PTL DEF IInv

\* Without any lock, and however threads are switched while they pop, register,
\* query and give back: no connection serves two requests, or is idle as well.
THEOREM ConnectionsAreNotShared == Spec => []NoSharedConnection
BY IInvAlways, PTL DEF IInv

\* A connection on which a statement failed is in no idle list, and no idle one
\* holds the lock that the loader's DROP waits for.
THEOREM IdleConnectionsAreClean == Spec => []IdleIsClean
BY IInvAlways, PTL DEF IInv, IdleIsClean

\* Requests that come one at a time leave no slot taken and no lock held, whatever
\* PostgreSQL does meanwhile, but for the slots of rollbacks that failed.
THEOREM SlotsAreFreed == Spec => []SlotsComeBack
<1>1. IInv /\ BooksAreRight => SlotsComeBack
  <2> SUFFICES ASSUME IInv, Books, \A t \in Threads : pc[t] = "free",
                      NEW p \in Pools, Live(p)
               PROVE  /\ used[p] = {}
                      /\ \A c \in lost[p] : server[c] = "dead"
                      /\ (idle[p] \cup lost[p]) \cap reading = {}
    BY DEF BooksAreRight, SlotsComeBack
  <2>1. used[p] = {}
    BY DEF Books, UsedByHolders, Registered, IInv, TypeOK
  <2>2. \A c \in lost[p] : server[c] = "dead"
    BY DEF Books, LostAreDead
  <2>3. (idle[p] \cup lost[p]) \cap reading = {}
    BY <2>2 DEF IInv, IdleHoldsNoLock, ReadingIsOpen
  <2> QED BY <2>1, <2>2, <2>3
<1> QED BY <1>1, IInvAlways, BooksAlways, PTL
=============================================================================
