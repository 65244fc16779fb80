SPECIFICATION Spec
CONSTANTS
  Addrs <- MCAddrs
  TTLs <- MCTTLs
  LittleEndian = TRUE
  Width = 5
  BootEpoch = 5
  MaxEntries = 2
  MaxStarts = 3
  MaxTime = 3
INVARIANTS
  TypeOK
  ListMatchesRequests
  StoredIsEnforced
CHECK_DEADLOCK FALSE
