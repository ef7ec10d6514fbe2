SPECIFICATION Spec
CONSTANTS
  Users = {u1, u2}
  Founders = {u1, u2}
  RoleCodes = {"ADMIN"}
  Requests = {r1, r2}
INVARIANTS
  AdminRemains
CHECK_DEADLOCK FALSE
