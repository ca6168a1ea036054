CONSTANTS
  Nil = nil
  Thread = {t1, t2}
  Name = {x, y}
  Value = {1, 2}
  MaxTransactions = 3
  MaxRequests = 2
SPECIFICATION FairSpec
INVARIANT
  TypeOK
  SnapshotIsCurrent
  WaitersAreCurrent
PROPERTY
  ImplementsAtomicTransactions
  StarvesOnlyByConflicts
