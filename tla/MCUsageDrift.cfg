SPECIFICATION Spec
CONSTANTS
  MinChunk = 2
  Overhead = 1
  TopFoot = 3
  SmallLimit = 5
  Granularity = 8
  AddrSpace = 256
  HeapStart = 8
  HeapSize = 24
  GuardLimit = 4
  StackAddrs = {44}
  TrimThreshold = 9
  Requests = {1, 4}
  Alignments <- NoNumbers
  TrimPads = {0}
  Limits <- NoNumbers
  Batches <- NoBatches
  MaxBatch = 2
  MaxBlocks = 5
  MaxDrift = 0
INVARIANTS UsageIsUordblks
