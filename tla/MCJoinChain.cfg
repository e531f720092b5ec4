SPECIFICATION Spec
CONSTANTS
  a = a
  b = b
  c = c
  d = d
  e = e
  f = f
  v = v
  r1 = r1
  r2 = r2
  NoRequest = NoRequest
  Jobs <- ChainJobs
  JoinEdges <- ChainJoins
  OrEdges <- ChainOrs
  Virtual = {v}
  Disabled = {}
  Outcomes = {"SUCCESS", "FAILURE", "ABORTED"}
  Requests = {r1, r2}
  LockReliable = TRUE
SYMMETRY Symmetry
INVARIANTS
  OneBuildPerJob
  StartedOnce
  JoinParentsSucceeded
  FailedJoinCleaned
PROPERTIES
  StartedNeverRemoved
  EventKept
CHECK_DEADLOCK FALSE
