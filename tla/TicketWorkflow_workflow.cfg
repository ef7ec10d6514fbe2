SPECIFICATION Spec
CONSTANTS
  TicksPerSecond = 1
  Tickets = {1}
  req = req
  proc = proc
  admin = admin
  NoUser = NoUser
  Users <- FullTeam
  Roles <- FullTeamRoles
  Policies <- PolicyChange
  Window = 1
  Jobs = {}
  MaxTime = 4
  MaxCycle = 3
  MaxPauses = 1
  MaxCrashes = 0
  WarningPercent = 50
  EscalationPercent = 125
INVARIANTS
  TypeOK
  AssignedPastTriage
  SlaFollowsTicket
  CyclesAddUp
  ResponseClock
PROPERTIES
  HistoryIsKept
  ImplementsLifecycle
  VerdictsOnlyWorsen
CHECK_DEADLOCK FALSE
