SPECIFICATION Spec
CONSTANTS
  Figures <- MCFigures
  ExpLen = 3
  ExpCap = 40
  P = 5
  Bias = 22
  Five = 3
  W = 7
  DT = 5
  MinTen <- MCMinTen
  MaxTen = 8
  ExactTen = 13
  DblDig = 1
  TenPmax = 3
  LowTens = 2
  n_bigtens = 3
  WordDigits = 2
  DigLim = 6
  Sure = 8
  Inputs <- Least5
INVARIANTS CorrectlyRounded
