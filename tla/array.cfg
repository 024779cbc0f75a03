SPECIFICATION MCSpec
CONSTANTS
  MaxNode = 12
  CellBits = 2
  CharBit = 2
  opt_level = 1
  merge_mov = TRUE
  do_mask = TRUE
  iostyle = 0
  eofcell = 3
  noheader = FALSE
  IntBits = 4
  BigBits = 6
  LongBits = 4
  Machines <- AllMachines
  Fuel = 300
  MaxTurns = 40
INVARIANTS
  JumpsLand
  ReadsAndWritesAsTree
PROPERTIES
  EndsAsTree
