SPECIFICATION MaterialsSpec
CONSTANTS
  i1 = i1
  i2 = i2
  Items = {i1, i2}
  Snapshots <- MCSnapshots
  PhoneRoot = PhoneRoot
  PcRoots = {r1, r2}
  Refreshers = {f1, f2, f3}
  NoRoot = NoRoot
  NoPayload = NoPayload
  MaxTaken = 3
  MaxTries = 2
  MaxRefresh = 2
  Images = {g1, g2}
  NoBatch = NoBatch
  MaxImageRevision = 2
  MaxBatches = 2
  MaxConsent = 2
  Assets = {a1}
  ToolThreads = {t1, t2}
  MaxRevision = 2
  MaxCalls = 4
  MaxRequests = 2
  ExportClients = {c1}
  Keys = {k1, k2}
  Packs = {p1, p2}
  NoKey = NoKey
  MaxExportRoot = 2
  MaxPending = 1
INVARIANTS TextsFollowCatalog PackIsRead JournalMatchesFolder
PROPERTIES OverwritesOnlySeen EditsSurvive
SYMMETRY MCSymmetry
CHECK_DEADLOCK FALSE
