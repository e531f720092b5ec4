SPECIFICATION Spec
CONSTANTS
  a = a
  b = b
  c = c
  d = d
  e = e
  f = f
  v = v
  r1 = r1
  r2 = r2
  NoRequest = NoRequest
  Jobs <- MixedJobs
  JoinEdges <- MixedJoins
  OrEdges <- MixedOrs
  Virtual = {}
  Disabled = {}
  Outcomes = {"SUCCESS", "FAILURE", "ABORTED"}
  Requests = {r1, r2}
  LockReliable = TRUE
PROPERTIES
  StartedNeverRemoved
CHECK_DEADLOCK FALSE
