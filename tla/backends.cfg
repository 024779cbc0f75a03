SPECIFICATION MCSpec
CONSTANTS
  ByteBits = 3
  IntBits = 5
  WideBits = 6
  HugeBits = 10
  IntMax = 15
  StrLimit = 3
  QueueSize = 13
  QueueSlack = 3
  MaddSize = 4
  TapeSize = 32
  Fuel = 400
  MaxRun = 2
  MaxWhile = 6
  MaxJump = 90
  MaxDepth = 2
  MaxInstr = 14
  NewLine = 2
  Names = {"php", "perl", "neko", "b", "csh", "f95", "tsql", "ps1", "nickle", "awk", "bc",
           "tcl", "rb", "cgmp", "sh", "ksh88", "cmd", "go", "cs", "d", "slang", "vala", "perl6",
           "swift", "ada", "cobol", "gas", "gas_local", "py", "bn", "tomm", "dc", "bas",
           "bas_goto", "whitespace", "ksh", "crun", "pas", "julia", "lua", "java", "asmjs",
           "nav", "elf", "rc", "oldsh"}
  Flawed = {"ps1", "tomm", "java", "lua", "julia", "rc", "oldsh"}
  CharCode <- Codes
INVARIANTS
  
  NothingUnknown
  StringsPrinted
