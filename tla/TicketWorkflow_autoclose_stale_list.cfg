SPECIFICATION Spec
CONSTANTS
  TicksPerSecond = 1
  Tickets = {1}
  req = req
  proc = proc
  admin = admin
  NoUser = NoUser
  Users <- SmallTeam
  Roles <- SmallTeamRoles
  Policies <- OnePolicy
  Window = 1
  Jobs = {j1}
  MaxTime = 3
  MaxCycle = 2
  MaxPauses = 0
  MaxCrashes = 0
  WarningPercent = 50
  EscalationPercent = 125
PROPERTY ClosesOnlyExpired
CHECK_DEADLOCK FALSE
