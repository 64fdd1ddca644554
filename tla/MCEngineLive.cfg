\* The expiration thread, a client, a compaction and a kill, with a clock and a
\* failing call: liveness, and what may not be lost on the way.
\* The bounds end every behaviour, so it may stop.
SPECIFICATION LiveSpec
CONSTANTS
  c1 = c1
  Consumers = {c1}
  NoConsumer = NoConsumer
  Priorities = {0}
  CacheCapacity = 0
  MAX_RETRIES = 2
  MaxSegmentSize = 2
  TTLs = {1}
  MaxPushes = 1
  MaxSegments = 7
  MaxTime = 1
  MaxCrashes = 1
  MaxCompactions = 1
  MaxFaults = 1
INVARIANTS
  NoTaskLost
  RetriesBounded
PROPERTIES
  ExpiredLeaseEnds
CHECK_DEADLOCK FALSE
