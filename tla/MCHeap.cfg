SPECIFICATION Spec
CONSTANTS
  MinChunk = 2
  Overhead = 1
  TopFoot = 4
  SmallLimit = 5
  Granularity = 8
  AddrSpace = 256
  HeapStart = 8
  HeapSize = 33
  GuardLimit = 4
  StackAddrs = {44}
  TrimThreshold = 9
  Requests = {1, 3, 5, 120}
  Alignments <- NoNumbers
  TrimPads = {0}
  Limits <- NoNumbers
  Batches <- NoBatches
  MaxBatch = 0
  MaxBlocks = 4
  MaxDrift = 0
INVARIANTS TypeOK NoAbort Tiled BoundaryTags Coalesced FreeListsExact UsageIsUordblks
PROPERTIES SystemIsLastResort FailureChangesNothing
