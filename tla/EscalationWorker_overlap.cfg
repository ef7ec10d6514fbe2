SPECIFICATION WorkerSpec
CONSTANTS
  TicksPerSecond = 1
  Tickets = {1}
  req = req
  proc = proc
  admin = admin
  NoUser = NoUser
  Users <- SmallTeam
  Roles <- SmallTeamRoles
  Policies <- OnePolicy
  Window = 1
  Jobs = {}
  MaxTime = 2
  MaxCycle = 1
  MaxPauses = 0
  MaxCrashes = 0
  Workers = {w1, w2}
  WarningPercent = 50
  EscalationPercent = 100
  Priority = 2
  MaxKills = 1
INVARIANTS
  InsertsAreExclusive
  EventsNested
  NoCircularWait
PROPERTY EventsAreFinal
