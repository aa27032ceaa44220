SPECIFICATION KeptSpec
CONSTANTS
  Absent = Absent
  MaxSeq = 3
  sync = sync
  none = none
  Attempts = {a1, a2}
  Grants = {sync, none}
  CanSync = {sync}
  Addresses = {x1, x2}
  NoAttempt = NoAttempt
  NoAddress = NoAddress
  MaxEpoch = 2
  MaxLosses = 1
  MaxMoves = 1
  Runs = {r1, r2, r3}
  NoId = NoId
  MaxFaults = 1
  MaxDeaths = 1
INVARIANTS AcknowledgedSurvives HoldsOwnGrants LoneRunSucceeds
PROPERTIES PublishedStays ImplementsRegister
CONSTRAINT TwoAtOnce
SYMMETRY MCSymmetry
