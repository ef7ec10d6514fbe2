SPECIFICATION FairWorkerSpec
CONSTANTS
  TicksPerSecond = 1
  Tickets = {1}
  req = req
  proc = proc
  admin = admin
  NoUser = NoUser
  Users <- SmallTeam
  Roles <- SmallTeamRoles
  Policies <- OnePolicy
  Window = 1
  Jobs = {}
  MaxTime = 3
  MaxCycle = 1
  MaxPauses = 1
  MaxCrashes = 0
  Workers = {w1}
  WarningPercent = 50
  EscalationPercent = 125
  Priority = 2
  MaxKills = 1
CONSTRAINT PausesOrDeaths
INVARIANTS
  WorkerTypeOK
  EventsStayTrue
PROPERTY OverdueIsReported
