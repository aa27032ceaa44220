SPECIFICATION FairSpec
CONSTANTS
  Devices = {d1}
  QueueSize = 1
  MaxReconnect = 1
  MaxSeq = 3
INVARIANTS NoIntegrityFailure NoMissedEvent SubscriptionsAgree
PROPERTIES CatchesUp
