\* A kill during compaction, and another one during the open() after it.
\* The bounds end every behaviour, so it may stop.
SPECIFICATION Spec
CONSTANTS
  c1 = c1
  Consumers = {c1}
  NoConsumer = NoConsumer
  Priorities = {0}
  CacheCapacity = 0
  MAX_RETRIES = 3
  MaxSegmentSize = 2
  TTLs = {9}
  MaxPushes = 2
  MaxSegments = 4
  MaxTime = 0
  MaxCrashes = 2
  MaxCompactions = 1
  MaxFaults = 0
INVARIANTS
  NoTaskLost
CHECK_DEADLOCK FALSE
