\* An ack between the expiration thread's scan and its second locking.
\* The bounds end every behaviour, so it may stop.
SPECIFICATION Spec
CONSTANTS
  c1 = c1
  c2 = c2
  Consumers = {c1, c2}
  NoConsumer = NoConsumer
  Priorities = {0}
  CacheCapacity = 0
  MAX_RETRIES = 3
  MaxSegmentSize = 2
  TTLs = {1}
  MaxPushes = 1
  MaxSegments = 4
  MaxTime = 1
  MaxCrashes = 0
  MaxCompactions = 0
  MaxFaults = 0
SYMMETRY ConsumerSymmetry
INVARIANTS
  TerminalIsFinal
CHECK_DEADLOCK FALSE
