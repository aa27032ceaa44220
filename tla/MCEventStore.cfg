SPECIFICATION FairSpec
CONSTANTS
  Conversations = {c1}
  ClientIds = {i1, i2}
  Bodies = {b1, b2}
  Causes = {k1}
  Unknown = Unknown
  Workers = {w1, w2}
  NoWorker = NoWorker
  NoCall = NoCall
  MaxSeq = 2
INVARIANTS LogOnDisk AnswersHold
PROPERTIES ImplementsLog CallsReturn
