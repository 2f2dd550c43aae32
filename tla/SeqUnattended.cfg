CONSTANTS
  PageLines = 2
  WindowPages = 14
  NumWindows = 4
  Low = 2
  ImageLen = 3
  HighBoot = 8
  HighBig = 10
  BigMemory = 12
  UsbFloor = 1
  PassCap = 2
  LoadAddrs = {2, 4, 10}
  Phases = 2
  LastTest = 3
  Faults = {TRUE}
  Modes = {"bios"}
  Machines <- AllMachines
  UserOps = {}
  LimitPages = {}
  TestInputs <- NoTests
  MaxOps = 0
  Records <- AllRecords
  Pointers <- SomePointers

SPECIFICATION RelocFairSpec

INVARIANTS
  RightMemory

PROPERTIES
  CopySound
  KeepsPromise
  EveryTestRecurs
