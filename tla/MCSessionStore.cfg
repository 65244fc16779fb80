SPECIFICATION Spec
CONSTANTS
  Requests = {r1, r2, r3}
  IPs <- MCIPs
  MaxSeqLen = 2
  Outputs = {100}
  BlockThreshold = 85
  NoIP = NoIP
SYMMETRY RequestSymmetry
INVARIANTS
  TypeOK
  SequenceInOrder
  ScoreIncludesOwn
  BlockNeedsBothModels
