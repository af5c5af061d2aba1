SPECIFICATION Spec
CONSTANTS
  AddrSpace = 64
  GuardLimit = 6
  Layouts <- MCLayouts
  StackAddrs <- MCStackAddrs
  Increments <- MCIncrements
INVARIANTS TypeOK BreakInHeap GiveBack
PROPERTIES ExactMove GuardAtMove
