SPECIFICATION Spec
CONSTANTS
  P = 9
  Bias = 12
  LimbDigits = 2
  ShiftBits = 6
  DefaultPrec = 3
  LeastFixed <- MCLeastFixed
  NlArgMax = 5
  IntBits = 6
  CharBits = 4
  MaxBits = 9
  LongMax = 15
  Unset = Unset
  Nul = Nul
  Calls <- MCCalls
INVARIANTS SnprintfExact FpNearlyExact StrtolExact
