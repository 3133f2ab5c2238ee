SPECIFICATION Spec
CONSTANTS
  c1 = c1
  c2 = c2
  b1 = b1
  b2 = b2
  Clients <- MCClients
  Broadcasters <- MCBroadcasters
  Recovered <- MCRecovered
  Buffer = 1
  MaxBroadcasts = 2
INVARIANT EverySubscriberServed
CHECK_DEADLOCK FALSE
