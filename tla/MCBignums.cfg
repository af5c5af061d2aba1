SPECIFICATION Spec
CONSTANTS
  WordBits = 5
  Kmax = 1
  PoolWords = 14
  P5Low = 1
  Junk = 31
  Ints = {31}
  Numerals <- MCNumerals
  Powers = {3, 6}
  Shifts = {1, 10}
  MaxHeld = 3
  MaxOps = 5
  MaxValue = 33000
  MaxBigints = 16
CHECK_DEADLOCK FALSE
INVARIANTS PoolExact Canonical
PROPERTIES ImplementsNumbers
