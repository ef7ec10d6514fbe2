SPECIFICATION ReportsSpec
CONSTANTS
  TicksPerSecond = 1
  Tickets = {1, 2, 3, 4}
  req = req
  proc = proc
  s1 = s1
  s2 = s2
  NoUser = NoUser
  Users <- Team
  Roles <- TeamRoles
  Policies <- OnePolicy
  Window = 1
  Jobs = {}
  MaxTime = 4
  MaxCycle = 3
  MaxPauses = 1
  MaxCrashes = 0
  Viewers = {proc}
  Scenario <- Scenarios
  DemoRequester = req
  DemoProcessor = proc
  Seeders = {s1, s2}
  MaxKills = 1
  SimulatedKinds <- NineKinds
  MaxSimulated = 5
CONSTRAINT Small
INVARIANTS
  OverviewFits
  DemoDataIsCoherent
  RatesAreSound
PROPERTIES
  WorkIsKept
CHECK_DEADLOCK FALSE
