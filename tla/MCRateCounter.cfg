SPECIFICATION Spec
CONSTANTS
  Workers = {w1, w2}
  Windows <- MCWindows
  MaxRequests = 3
  MaxEvictions = 1
SYMMETRY Symmetry
INVARIANTS
  TypeOK
  NeverOvercounts
  BurstIsSeen
