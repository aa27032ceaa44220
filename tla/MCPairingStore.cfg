SPECIFICATION Spec
CONSTANTS
  Sessions = {s1, s2}
  Clients = {k1}
  NoClient = NoClient
  Capabilities = {p1, p2}
  SessionTTL = 2
  PendingTTL = 1
  MismatchLimit = 1
  MaxLag = 1
  MaxClock = 3
  MaxBoot = 2
  MaxEpoch = 2
INVARIANTS TablesAgree ActiveOnlyIfConfirmedInTime
PROPERTIES RowsMoveForward
CONSTRAINT OneReason
SYMMETRY Symmetry
