SPECIFICATION FairSpec
CONSTANTS
  Files = {f1, f2}
  NoJournal = NoJournal
  NoPreview = NoPreview
  MaxVersion = 2
  MaxRoot = 2
INVARIANTS Reversible
PROPERTIES NothingLost OperationsEnd
