SPECIFICATION Spec
CONSTANTS
  Chunks = {c1, c2, c3, c4}
  Nil = Nil
  MinChunk = 2
  SmallLimit = 8
  TreeShift = 3
  NTreeBins = 4
  WordBits = 5
  Sizes = {5, 8, 9, 11, 27, 28}
  Requests = {2, 3, 9}
  DvSizes = {0, 2, 10}
  ChunkSizes = {2, 5, 8, 9, 10, 11, 18, 19, 27, 28}
SYMMETRY Symmetry
INVARIANTS TypeOK NoCorruption TriesOrdered EveryChunkFound
PROPERTIES ImplementsLists
