\* A pop reads outside the lock while compaction replaces segment 1.
\* The bounds end every behaviour, so it may stop.
SPECIFICATION Spec
CONSTANTS
  c1 = c1
  c2 = c2
  Consumers = {c1, c2}
  NoConsumer = NoConsumer
  Priorities = {0}
  CacheCapacity = 0
  MAX_RETRIES = 3
  MaxSegmentSize = 2
  TTLs = {9}
  MaxPushes = 2
  MaxSegments = 4
  MaxTime = 0
  MaxCrashes = 0
  MaxCompactions = 1
  MaxFaults = 0
SYMMETRY ConsumerSymmetry
INVARIANTS
  RightPayload
CHECK_DEADLOCK FALSE
