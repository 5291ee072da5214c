CONSTANTS
  Threads = {t1, t2, t3}
  Conns = {c1, c2, c3, c4, c5, c6}
  Pools = {p1, p2, p3}
  NoPool = NoPool
  NoConn = NoConn
  MinConn = 1
  MaxConn = 2
  MaxRequests = 3
  MaxRestarts = 1
SPECIFICATION FairSpec
CHECK_DEADLOCK FALSE
INVARIANTS
  NoSharedConnection
  IdleIsClean
  SlotsComeBack
PROPERTIES
  EveryRequestIsAnswered
