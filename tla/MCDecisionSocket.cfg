SPECIFICATION FairSpec
CONSTANTS
  Requests = {r1, r2, r3}
  Conns = {c1, c2}
  PoolSize = 1
  EngineMayDie = TRUE
  NoConn = NoConn
  NoRequest = NoRequest
INVARIANTS
  TypeOK
  OwnVerdict
  PoolIsClean
PROPERTIES
  RequestFinishes
  HandlerEnds
