SPECIFICATION MCSpec
CONSTANTS
  ByteBits = 3
  IntBits = 4
  WideBits = 5
  IntMax = 7
  StrLimit = 3
  QueueSize = 13
  QueueSlack = 3
  MaddSize = 4
  TapeLen = 12
  TapeSize = 32
  Fuel = 150
  Deep = 3
  CharCode <- Codes
INVARIANTS
  TokensKeepMeaning
  SpecialsKeepMeaning
  BackendBalanced
