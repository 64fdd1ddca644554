\* Clients against compaction, a kill at any step and the recovery from it.
\* The clock stands still: no lease runs out.
\* The bounds end every behaviour, so it may stop.
SPECIFICATION Spec
CONSTANTS
  c1 = c1
  c2 = c2
  Consumers = {c1, c2}
  NoConsumer = NoConsumer
  Priorities = {0}
  CacheCapacity = 1
  MAX_RETRIES = 2
  MaxSegmentSize = 2
  TTLs = {9}
  MaxPushes = 2
  MaxSegments = 3
  MaxTime = 0
  MaxCrashes = 1
  MaxCompactions = 1
  MaxFaults = 1
SYMMETRY ConsumerSymmetry
INVARIANTS
  TypeOK
  NoTaskLost
  TerminalIsFinal
  OnePlace
  RestartIsTransparent
PROPERTIES
  ImplementsTaskQueue
CHECK_DEADLOCK FALSE
