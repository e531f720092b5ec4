SPECIFICATION FairSpec
CONSTANTS
  a = a
  b = b
  c = c
  u = u
  s = s
  Builds <- TwoBuilds
  Roots = {a}
  Down <- PairDown
  Users = {}
  Stoppers = {s}
  MaxFails = 0
INVARIANTS
  StopReachesReporters
PROPERTIES
  SuccessTriggers
CHECK_DEADLOCK FALSE
