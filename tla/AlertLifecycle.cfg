SPECIFICATION MCSpec
CONSTANTS
  Rule = {r1}
  Console = {c1, c2}
  Editor = {e1}
  Alert = {a1, a2}
  None = None
  MaxFaults = 1
  Replica = {c1, c2}
  Node = {n1}
  DayLen = 2
  Retention = 1
  Forward = 0
  Start = 3
  LastTick = 5
  MaxFailures = 1
  NoRoutes = None
SYMMETRY Symmetry
INVARIANTS
  OneOpenPerRule
  EmailedAtMostOnce
  ClaimIsBacked
  SamplesKept
  NoFalseStorm
