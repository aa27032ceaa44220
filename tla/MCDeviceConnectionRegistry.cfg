SPECIFICATION FairSpec
CONSTANTS
  Devices = {d1, d2}
  Stripes = {z}
  StripeOf <- MCStripeOf
  Conns = {c1, c2}
  Requests = {r1}
  Transitions = {t1}
  Free = Free
  MaxHandshakes = 1
  MaxConnections = 2
  MaxPerDevice = 1
  MaxOperations = 1
  MaxOperationsPerDevice = 1
  MaxEpoch = 2
INVARIANTS NothingStale PlacesAndLocks
PROPERTIES WaitsEnd
