SPECIFICATION MCSpec
CONSTANTS
  MaxNode = 24
  CellBits = 2
  noheader = FALSE
  iostyle = 0
  eofcell = 1
  opt_enable_rle = TRUE
  opt_no_endif = FALSE
  rle_input = FALSE
  debug_mode = FALSE
  special_eof = FALSE
  Chars = {">", "<", "+", "-", "[", "]", ".", ","}
  MaxFiles = 1
  IntMax = 20
  MaxSrc = 12
  TapeSize = 64
  Dialects <- AllDialects
  AllUpTo = 4
  Fuel = 80
INVARIANTS
  LoopsAccounted
  StackIsOpenLoops
  LoadedWellFormed
  LoadKeepsMeaning
