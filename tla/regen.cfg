SPECIFICATION MCSpec
CONSTANTS
  MaxNode = 7
  CellBits = 2
  noheader = TRUE
  iostyle = 0
  eofcell = 1
  opt_regen_mov = 1
  ShortMin <- MinusOne
  ShortMax = 0
  MaxLen = 4
  Fuel = 30
  Tapes <- MCTapes
  Stdin <- MCStdin
  RegenTrees <- MCRegenTrees
INVARIANTS
  OffsetsRemoved
  RegenKeepsMeaning
  PointerAccounted
