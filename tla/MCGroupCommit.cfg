\* Three callers, rotations and one failing fsync.
\* The bounds end every behaviour, so it may stop.
SPECIFICATION FairSpec
CONSTANTS
  t1 = t1
  t2 = t2
  t3 = t3
  Threads = {t1, t2, t3}
  NoThread = NoThread
  MaxSegmentSize = 1
  max_batch_size = 2
  MaxWrites = 2
  MaxSegments = 2
  MaxBatches = 2
  MaxFaults = 1
INVARIANTS
  TypeOK
  OneFsync
  SyncedBatchOnDisk
PROPERTIES
  EveryCallReturns
CHECK_DEADLOCK FALSE
