SPECIFICATION FairSpec
CONSTANTS
  c1 = c1
  c2 = c2
  b1 = b1
  b2 = b2
  Clients <- MCClients
  Broadcasters <- MCBroadcasters
  Recovered <- MCRecovered
  Buffer = 1
  MaxBroadcasts = 2
INVARIANTS
  ChannelLifecycle
  NoLeakedClient
  NoSilentLoss
PROPERTIES
  BroadcastEnds
  EvictedHandlerEnds
CHECK_DEADLOCK FALSE
