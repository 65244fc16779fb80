SPECIFICATION Spec
CONSTANTS
  Addrs <- MCPalindromes
  TTLs <- MCTTLs
  LittleEndian = TRUE
  Width = 5
  BootEpoch = 5
  MaxEntries = 2
  MaxStarts = 1
  MaxTime = 3
INVARIANTS
  ExpiredPasses
CHECK_DEADLOCK FALSE
