SPECIFICATION Spec
CONSTANTS
  Addrs <- MCAddrs
  TTLs <- MCTTLs
  LittleEndian = TRUE
  Width = 5
  BootEpoch = 0
  MaxEntries = 2
  MaxStarts = 1
  MaxTime = 3
INVARIANTS
  BlockedIsDropped
CHECK_DEADLOCK FALSE
