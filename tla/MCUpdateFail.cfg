SPECIFICATION Spec
CONSTANTS
  a = a
  b = b
  c = c
  u = u
  s = s
  Builds <- ThreeBuilds
  Roots = {a, b}
  Down <- MeetDown
  Users = {}
  Stoppers = {}
  MaxFails = 1
INVARIANTS
  TypeOK
  OnlySuccessTriggers
PROPERTIES
  EndedStaysEnded
CHECK_DEADLOCK FALSE
