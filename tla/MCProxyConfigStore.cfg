SPECIFICATION GateFairSpec
CONSTANTS
  w1 = w1
  w2 = w2
  r1 = r1
  present = present
  initial = initial
  blanked = blanked
  gapped = gapped
  dense = dense
  bad = bad
  Writers <- MCWriters
  Nobody = Nobody
  FieldCount = 2
  Raw <- MCRaw
  Values <- MCValues
  Invalid = Invalid
  NormalForm <- MCNormalForm
  Meaning <- MCMeaning
  Keep = Keep
  Default = initial
  MaxUpdates <- MCOneEach
  Whole <- MCWhole
  Readers <- MCReaders
  Requests <- MCRequests
  Admits <- MCAdmits
  Order <- MCOrder
  Served = Served
INVARIANTS
  AnnouncedIsStored
  ReadIsRegular
  VerdictStands
PROPERTIES
  OnlyAsked
  UpdatesEnd
CHECK_DEADLOCK FALSE
