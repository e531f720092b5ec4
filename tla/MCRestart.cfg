SPECIFICATION Spec
CONSTANTS
  a = a
  b = b
  m = m
  t = t
  w1 = w1
  w2 = w2
  None = None
  Jobs = {a, b, m, t}
  JoinEdges <- Joins
  OrEdges <- Ors
  Requests = {w1, w2}
  MaxEvents = 2
SYMMETRY Symmetry
INVARIANTS
  OneBuildPerEvent
  StartedFromSuccess
  GroupRuns
  RestartRuns
CHECK_DEADLOCK FALSE
