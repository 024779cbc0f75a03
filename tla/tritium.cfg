SPECIFICATION TritiumSpec
CONSTANTS
  MaxNode = 24
  CellBits = 2
  noheader = FALSE
  iostyle = 0
  eofcell = 2
  opt_enable_rle = TRUE
  opt_no_endif = FALSE
  rle_input = FALSE
  debug_mode = FALSE
  special_eof = FALSE
  IntMax = 20
  Chars = {">", "-", "[", "]", ".", ","}
  MaxSrc = 4
  MaxFiles = 2
  TapeSize = 64
  Fuel = 40
  MaxTurns = 60
  Stdins <- SmallStdins
  Strings <- NoStrings
PROPERTIES
  KeepsPromise
  AnswersAtLast
