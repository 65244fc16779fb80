SPECIFICATION Spec
CONSTANTS
  Requests = {r1, r2}
  Envs <- MCEnvs
  Unset = Unset
  Junk = Junk
  Blank = Blank
  Width = 6
  Second = 4
  DefaultTTL = 6
  ConnDeadline = 1
  Grace = 3
  MaxStops = 2
INVARIANTS
  TypeOK
  GraceKept
  AnsweredIsPublished
  WindowIsPositive
PROPERTIES
  ShutdownEnds
  RecoversForGood
