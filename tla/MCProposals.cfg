SPECIFICATION ProposalsSpec
CONSTANTS
  Askers = {a1, a2}
  Categories = {k1}
  Views = {v1, v2}
  Nobody = Nobody
  Cooldown = 2
  Flight = 1
  Day = 3
  DailyLimit = 1
  DismissPause = 1
  MaxNow = 3
  MaxDisturbances = 2
  Messages = {m1, m2}
  Threshold = 2
  Callers = {c1}
  NoMessage = NoMessage
  Followed <- MCFollowed
  MaxActions = 3
  MaxVersion = 4
  MaxInventory = 2
  MaxJournal = 2
INVARIANTS LeaseIsExclusive WithinDailyLimit UsedOnEvidence CompletedHasResult
SYMMETRY MCSymmetry
CHECK_DEADLOCK FALSE
