SPECIFICATION FairSpec
CONSTANTS
  r1 = r1
  r2 = r2
  s1 = s1
  s2 = s2
  Endpoints <- MCOneEndpoint
  Nobody = Nobody
  Requests <- MCOne
  Configs <- MCRecordedOf
  Modes <- MCProxied
  MaxChanges = 0
PROPERTIES
  OldRecordsGo
CHECK_DEADLOCK FALSE
