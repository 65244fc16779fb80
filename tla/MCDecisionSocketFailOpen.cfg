SPECIFICATION Spec
CONSTANTS
  Requests = {r1, r2}
  Conns = {c1, c2}
  PoolSize = 1
  EngineMayDie = FALSE
  NoConn = NoConn
  NoRequest = NoRequest
INVARIANTS
  FailsOpenOnlyOnTimeout
