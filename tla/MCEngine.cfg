SPECIFICATION FairSpec
CONSTANTS
  IPs = {ip1}
  Handlers = {h1, h2}
  BucketSize = 1
  BucketTTL = 1
  MaxAttempts = 2
  MaxOrphans = 1
  NoIP = NoIP
  Scores = {70, 90}
  BlockThreshold = 85
  ThrottleThreshold = 60
  MaxPending = 2
INVARIANTS
  TypeOK
  OnlyEvidenceBlocks
  PassesWithinBucket
  DoubleMirrors
  PardonHolds
PROPERTIES
  EvaluateReturns
