SPECIFICATION SmallSpec
CONSTANTS
  Keys = {k1, k2}
  NoKey = NoKey
  Requests = {r1, r2, r3}
  MaxDeaths = 1
  MaxLost = 1
  p1 = p1
  p2 = p2
  a = a
  Requester = req
  Processors = {p1, p2}
  Admin = adm
  System = job
  Nobody = nobody
  Viewers = {req, adm, p1}
  Writers = {r1, r2}
  MaxTime = 1
  MaxChanges = 5
  Contents = {a, b}
  NoContent = none
  EditWindow = 0
  MaxComments = 2
  MaxEdits = 1
  Words = {a}
  Ids = {1, 2}
  Codes = {a, b}
  Levels = {1, 2}
CONSTRAINT Small
INVARIANTS
  SidesTypeOK
  RowsHaveFiles
  NothingLeftOver
  JournalMatchesTicket
  CommentsAreAccounted
  ScopesAgree
PROPERTIES
  EveryoneIsTold
  CatalogueIsSound
CHECK_DEADLOCK FALSE
