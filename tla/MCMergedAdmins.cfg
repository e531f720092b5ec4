SPECIFICATION Spec
CONSTANTS
  u = u
  v = v
  r1 = r1
  r2 = r2
  Users = {u, v}
  SdAdmins = {v}
  Reqs = {r1}
  Ops = {"merged"}
  MaxChanges = 0
  MaxFails = 0
INVARIANT StarterLeads
CHECK_DEADLOCK FALSE
