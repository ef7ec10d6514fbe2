SPECIFICATION Spec
CONSTANTS
  TicksPerSecond = 2
  Tickets = {1}
  req = req
  proc = proc
  admin = admin
  NoUser = NoUser
  Users <- SmallTeam
  Roles <- SmallTeamRoles
  Policies <- OnePolicy
  Window = 1
  Jobs = {}
  MaxTime = 8
  MaxCycle = 1
  MaxPauses = 2
  MaxCrashes = 0
  WarningPercent = 50
  EscalationPercent = 125
INVARIANTS
  PauseLedger
  VerdictIsHonest
  VerdictMatchesMetrics
PROPERTIES
  ThresholdsOnlyGrow
CHECK_DEADLOCK FALSE
