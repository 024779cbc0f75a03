SPECIFICATION MCSpec
CONSTANTS
  MaxNode = 32
  CellBits = 3
  noheader = FALSE
  iostyle = 0
  eofcell = 1
  opt_no_litprt = FALSE
  MaxLen = 4
  Fuel = 60
  MaxTurns = 66
  OptTrees <- MCOptTrees
INVARIANTS
  ProfileCovers
  ListSound
  RunnerKeepsMeaning
  NothingLeftToRun
  RunnerEnds
