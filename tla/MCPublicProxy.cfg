SPECIFICATION FairSpec
CONSTANTS
  r1 = r1
  r2 = r2
  s1 = s1
  s2 = s2
  Endpoints <- MCEndpoints
  Nobody = Nobody
  Requests <- MCRequests
  Configs <- MCConfigsOf
  Modes <- MCAllModes
  MaxChanges = 1
INVARIANTS
  ShadowsForTargets
  RecordHeardFirst
  EventsAreStored
  NoTargetForgotten
  SteadyRouteServed
PROPERTIES
  RequestsAnswered
CHECK_DEADLOCK FALSE
