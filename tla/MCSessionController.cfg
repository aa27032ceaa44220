SPECIFICATION MCSpec
CONSTANTS
  Devices = {d1}
  QueueSize = 1
  MaxReconnect = 1
  MaxSeq = 2
  Messages = {m1, m2}
  Result = Result
  NoMessage = NoMessage
INVARIANTS NoGhostPending
PROPERTIES ForgottenOnlyIfStored ConfirmedByEvent
