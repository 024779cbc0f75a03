SPECIFICATION MCSpec
CONSTANTS
  MaxNode = 32
  CellBits = 3
  noheader = FALSE
  iostyle = 0
  eofcell = 1
  opt_no_litprt = TRUE
  MaxLen = 2
  Fuel = 60
  MaxTurns = 66
  OptTrees <- MCOptTrees
INVARIANTS
  RunnerKeepsMeaning
