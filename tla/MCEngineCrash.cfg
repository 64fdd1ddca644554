\* Two kills, torn writes included, without compaction.
\* The bounds end every behaviour, so it may stop.
SPECIFICATION Spec
CONSTANTS
  c1 = c1
  c2 = c2
  Consumers = {c1, c2}
  NoConsumer = NoConsumer
  Priorities = {0, 64}
  CacheCapacity = 0
  MAX_RETRIES = 3
  MaxSegmentSize = 4
  TTLs = {9}
  MaxPushes = 2
  MaxSegments = 2
  MaxTime = 0
  MaxCrashes = 2
  MaxCompactions = 0
  MaxFaults = 0
SYMMETRY ConsumerSymmetry
INVARIANTS
  NoTaskLost
  PayloadReachable
  RightPayload
  ReadyInLogOrder
  IdsUnique
  LogIsGapless
CHECK_DEADLOCK FALSE
