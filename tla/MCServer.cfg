SPECIFICATION MCSpec
CONSTANTS
  q1 = q1
  q2 = q2
  r1 = r1
  r2 = r2
  r3 = r3
  Queues = {q1, q2}
  Requests = {r1, r2, r3}
  Offered <- OfferedCalls
  MaxStored = 1
  MaxFaults = 1
INVARIANTS
  TypeOK
  OneEnginePerQueue
  SleepsOnlyIfOvertaken
  AnsweredIsFlushed
  WorkersStopped
PROPERTIES
  SleeperIsServed
  ShutdownEnds
