\* Two batches commit before a member of the first one wakes up.
\* The bounds end every behaviour, so it may stop.
SPECIFICATION Spec
CONSTANTS
  t1 = t1
  t2 = t2
  t3 = t3
  Threads = {t1, t2, t3}
  NoThread = NoThread
  MaxSegmentSize = 2
  max_batch_size = 2
  MaxWrites = 4
  MaxSegments = 2
  MaxBatches = 3
  MaxFaults = 1
SYMMETRY ThreadSymmetry
INVARIANTS
  OkMeansBatchSynced
CHECK_DEADLOCK FALSE
