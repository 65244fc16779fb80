SPECIFICATION WSpec
CONSTANTS
  IPs = {ip1}
  Callers = {c1}
  BucketSize = 2
  BucketTTL = 2
  MaxAttempts = 1
  MaxOrphans = 0
  MaxLosses = 0
  NoIP = NoIP
PROPERTIES
  RefusedOnlyAtLimit
