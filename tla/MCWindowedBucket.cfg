SPECIFICATION WFairSpec
CONSTANTS
  IPs = {ip1}
  Callers = {c1, c2}
  BucketSize = 2
  BucketTTL = 3
  MaxAttempts = 2
  MaxOrphans = 1
  MaxLosses = 1
  NoIP = NoIP
INVARIANTS
  TypeOK
  BucketConserved
  TokensHandedOutOnce
  RateLimited
PROPERTIES
  ImplementsQuota
  IdleBucketExpires
  DecrementReturns
