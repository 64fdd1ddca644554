\* The committer's file is older than a record of its batch.
\* The bounds end every behaviour, so it may stop.
SPECIFICATION Spec
CONSTANTS
  t1 = t1
  t2 = t2
  Threads = {t1, t2}
  NoThread = NoThread
  MaxSegmentSize = 1
  max_batch_size = 2
  MaxWrites = 2
  MaxSegments = 2
  MaxBatches = 3
  MaxFaults = 0
SYMMETRY ThreadSymmetry
INVARIANTS
  OkMeansDurable
CHECK_DEADLOCK FALSE
