SPECIFICATION Spec
CONSTANTS
  PageUnits = 3
  RES_START = 12
  RES_END = 18
  AddressLimit = 36
  E820MAX = 3
  ExtPages = 3
  WordMask = 7
  LowEnd = 2
  HighStart = 4
  HighEnd = 6
  Boards <- SomeBoards
  Modes = {"bios", "probe"}
  Memories <- Answering
  EndOfProgram = 8
  ProbeLimit = 31
  ProbeStep = 6
  GapSteps = 2
  Tables <- AllTables
\* mem_size() returns.
CHECK_DEADLOCK FALSE

INVARIANTS
  TypeOK
  MapExact
  MapInOrder
