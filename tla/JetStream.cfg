SPECIFICATION Spec
CONSTANTS
  Parts = {"reads", "retries", "walk", "replay"}
  View = {"monitoring"}
  VProc = {p1, p2}
  NoView = None
  MaxWrites = 2
  Incarnation = {1, 2}
  MaxSeq = 2
  QProc = {p1, p2}
  Named <- MCNamed
  MaxDLQListLimit = 1
  Limits = {1, 2}
  Subjectless = {2}
  MaxExpiries = 1
  MaxNav = 4
  Walker = {w1, w2}
  MaxCached = 2
  MaxReplay = 5
  Selected = {2, 3}
INVARIANTS
  StaleViewExplained
  RetryDelivers
  RetryAllComplete
  NavFindsPrev
  DryRunCovers
PROPERTY
  ViewsConverge
