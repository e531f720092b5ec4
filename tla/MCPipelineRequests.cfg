SPECIFICATION Spec
CONSTANTS
  u = u
  v = v
  r1 = r1
  r2 = r2
  Users = {u, v}
  SdAdmins = {v}
  Reqs = {r1, r2}
  Ops <- AllOps
  MaxChanges = 1
  MaxFails = 1
SYMMETRY Symmetry
INVARIANTS
  AdminsAgree
  StartsJustified
  HalfMadeTold
PROPERTIES
  RefusedIsOut
CHECK_DEADLOCK FALSE
