SPECIFICATION AccountsSpec
CONSTANTS
  Users = {u1}
  MaxLogins = 1
  Pairs = {p1, p2, p3}
  NoPair = NoPair
  Requests = {r1, r2}
  Logins = {r1, r2, r3}
  MaxAttempts = 3
  Window = 2
  MaxDeaths = 1
  Everyone = {u1, u2}
  RoleCodes = {"ADMIN", "PROCESSOR"}
  Notices = {1, 2, 3}
  MaxTime = 2
INVARIANTS
  AccountsTypeOK
  ThrottleHolds
  AdministrationIsOrderly
PROPERTIES
  ImplementsFamilies
  LockoutEnds
  NoLostUpdate
CHECK_DEADLOCK FALSE
