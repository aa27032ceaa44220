SPECIFICATION NightSpec
CONSTANTS
  Askers = {a1, a2}
  Categories = {k1}
  Views = {v1, v2, v3}
  Nobody = Nobody
  Cooldown = 3
  Flight = 1
  Day = 4
  DailyLimit = 1
  DismissPause = 2
  MaxNow = 7
  MaxDisturbances = 2
INVARIANT DailyLimitKept
SYMMETRY MCSymmetry
CHECK_DEADLOCK FALSE
