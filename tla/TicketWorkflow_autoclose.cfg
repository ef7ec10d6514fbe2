SPECIFICATION FairSpec
CONSTANTS
  TicksPerSecond = 1
  Tickets = {1, 2}
  req = req
  proc = proc
  admin = admin
  NoUser = NoUser
  Users <- SmallTeam
  Roles <- SmallTeamRoles
  Policies <- OnePolicy
  Window = 1
  Jobs = {j1, j2}
  MaxTime = 2
  MaxCycle = 2
  MaxPauses = 0
  MaxCrashes = 1
  WarningPercent = 50
  EscalationPercent = 125
CONSTRAINT TheSecondIsPlain
INVARIANT AutoClosedOnExpiry
PROPERTIES
  TerminalIsFinal
  ExpiredGetsClosed
