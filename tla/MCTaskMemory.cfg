\* Priorities on both sides of a word boundary and at both ends, and enough pushes
\* for the FIFO of the cache to reach its bound.
SPECIFICATION MemorySpec
CONSTANTS
  Priorities = {0, 63, 64, 255}
  MaxPushes = 5
  CacheCapacity = 2
INVARIANTS
  TypeOK
  BitmapExact
  LenCounts
  BucketsSorted
  CacheBounded
PROPERTIES
  ImplementsFifo
  ImplementsFifoCache
