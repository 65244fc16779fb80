SPECIFICATION Spec
CONSTANTS
  Addrs <- MCPalindromes
  TTLs <- MCTTLs
  LittleEndian = TRUE
  Width = 5
  BootEpoch = 0
  MaxEntries = 2
  MaxStarts = 2
  MaxTime = 3
INVARIANTS
  BlockedIsDropped
CHECK_DEADLOCK FALSE
