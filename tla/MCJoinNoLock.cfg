SPECIFICATION FairSpec
CONSTANTS
  a = a
  b = b
  c = c
  d = d
  e = e
  f = f
  v = v
  r1 = r1
  r2 = r2
  NoRequest = NoRequest
  Jobs <- LateJobs
  JoinEdges <- LateJoins
  OrEdges <- LateOrs
  Virtual = {d}
  Disabled = {}
  Outcomes = {"SUCCESS", "FAILURE", "ABORTED"}
  Requests = {r1, r2}
  LockReliable = FALSE
INVARIANTS
  JoinNotEarly
PROPERTIES
  JoinEventuallyStarts
CHECK_DEADLOCK FALSE
