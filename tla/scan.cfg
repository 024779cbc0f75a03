SPECIFICATION MCSpec
CONSTANTS
  MaxNode = 18
  CellBits = 2
  noheader = FALSE
  iostyle = 0
  eofcell = 4
  MaxLen = 5
  Fuel = 20
  Tapes <- MCTapes
  Stdin <- MCStdin
  StartTrees <- MCStartTrees
INVARIANTS
  TypeOK
  LinksSound
  PairedOffsets
  ListWhole
  NothingLeftToPush
  MeaningKept
PROPERTIES
  Terminates
