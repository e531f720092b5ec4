SPECIFICATION Spec
CONSTANTS
  a = a
  b = b
  c = c
  u = u
  s = s
  Builds <- TwoBuilds
  Roots = {a, b}
  Down <- TwoDown
  Users = {}
  Stoppers = {}
  MaxFails = 0
INVARIANTS
  MetaComplete
CHECK_DEADLOCK FALSE
