SPECIFICATION MCSpec
CONSTANTS
  MaxNode = 40
  Settings <- AllSettings
INVARIANTS
  TreeWhole
  MeaningKept
  KnownTrue
  RunsInArray
  EndsSoon
