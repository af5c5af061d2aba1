SPECIFICATION MmapSpec
CONSTANTS
  MinChunk = 2
  Overhead = 1
  TopFoot = 3
  SmallLimit = 5
  Granularity = 4
  AddrSpace = 256
  HeapStart = 8
  HeapSize = 29
  GuardLimit = 4
  StackAddrs = {44}
  TrimThreshold = 9
  Requests = {4}
  Alignments = {4}
  TrimPads = {0}
  Limits <- NoNumbers
  Batches <- MCBatches
  MaxBatch = 2
  MaxBlocks = 4
  MaxDrift = 0
  PageSize = 4
  GranuleBytes = 16
  TlsSize = 4
  Lengths = {4}
  MaxMapped = 2
CHECK_DEADLOCK FALSE
INVARIANTS HeapConsistent BlocksExact MappingsHeld
PROPERTIES UsableSizesKept ImplementsAbsHeap MapCallsExact
