SPECIFICATION MCSpec
CONSTANTS
  ByteBits = 3
  IntBits = 6
  RingSize = 8
  BigTape = 64
  TapeLen = 40
  RangeEnd = 20
  MINALLOC = 4
  MAXOFF = 1
  Lowest = 3
  MostEofs = 3
  MaxRun = 3
  MaxMove = 2
  Margin = 2
  CharBits = 4
  Digit = 4
  Printing = {0, 1, 7, 8, 9, 15}
  Steps = 25
  MaxCells = 20
  MaxTurns = 2
  MaxPieces = 2
  Turns = 20
INVARIANTS ExtrasKeepMeaning CountsAreCommands OutputDecodes
