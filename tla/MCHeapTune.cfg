SPECIFICATION Spec
CONSTANTS
  MinChunk = 2
  Overhead = 1
  TopFoot = 3
  SmallLimit = 5
  Granularity = 8
  AddrSpace = 256
  HeapStart = 11
  HeapSize = 30
  GuardLimit = 4
  StackAddrs = {44, 28}
  TrimThreshold = 9
  Requests = {1, 6}
  Alignments <- NoNumbers
  TrimPads = {0, 4}
  Limits = {5, 24, 255}
  Batches <- NoBatches
  MaxBatch = 0
  MaxBlocks = 3
  MaxDrift = 0
INVARIANTS FootprintExact
PROPERTIES BreakMovesBySbrk FootprintLimited TrimLeavesPad
