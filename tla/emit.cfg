SPECIFICATION MCSpec
CONSTANTS
  MaxNode = 12
  noheader = FALSE
  CharBits = 3
  IntBits = 5
  Machines <- AllMachines
  MaxLen = 6
  MaxTurns = 30
  Fuel = 60
INVARIANTS
  InStep
  CodeKeepsMeaning
