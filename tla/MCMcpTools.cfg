SPECIFICATION ToolsSpec
CONSTANTS
  w1 = w1
  w2 = w2
  i1 = i1
  i2 = i2
  r1 = r1
  r2 = r2
  n = n
  m = m
  ok = ok
  gone = gone
  odd = odd
  b1 = b1
  b2 = b2
  Writers <- MCWriters
  Nobody = Nobody
  Ids <- MCIds
  NoId = NoId
  NoRow = NoRow
  Routes <- MCRoutes
  Names = {n, m}
  Statuses = {ok, gone, odd}
  ValidStatuses = {ok, gone}
  Bodies = {b1, b2}
  Definitions <- MCDefinitions
  Tables <- MCTables
  MaxRequests <- MCTwoAndOne
  Fields <- MCFields
  Edits <- MCEdits
  Bulks <- MCBulks
  NoCall = NoCall
INVARIANTS
  MutexReleased
  AnnouncedIsDone
  SelectedIsExample
  OneActive
PROPERTIES
  NoSecondRow
  NoLostExample
  VersionIsTable
  RestoreIsExact
  DeletedStaysDeleted
CHECK_DEADLOCK FALSE
