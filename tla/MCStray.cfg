SPECIFICATION StraySpec
CONSTANTS
  MinChunk = 2
  Overhead = 1
  TopFoot = 3
  SmallLimit = 5
  Granularity = 4
  AddrSpace = 256
  HeapStart = 8
  HeapSize = 24
  GuardLimit = 4
  StackAddrs = {44}
  TrimThreshold = 9
  Requests = {1, 4}
  Alignments = {}
  TrimPads = {}
  Limits <- NoNumbers
  Batches <- NoBatches
  MaxBatch = 2
  MaxBlocks = 4
  MaxDrift = 0
  PageSize = 4
  GranuleBytes = 16
  TlsSize = 1
  Lengths = {4}
  MaxMapped = 1
CHECK_DEADLOCK FALSE
PROPERTIES UnmapsPagesOnly
