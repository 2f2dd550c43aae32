CONSTANTS
  PageLines = 2
  WindowPages = 14
  NumWindows = 4
  Low = 2
  ImageLen = 3
  HighBoot = 8
  HighBig = 10
  BigMemory = 12
  UsbFloor = 1
  PassCap = 2
  LoadAddrs = {4}
  Phases = 2
  LastTest = 2
  Faults = {TRUE}
  Modes = {"bios"}
  Machines <- GapMachine
  UserOps = {"default", "select", "lower", "upper", "all", "refused", "restart"}
  LimitPages = {0, 2, 6, 20}
  TestInputs <- TestMenu
  MaxOps = 1

SPECIFICATION FairSpec

INVARIANTS
  CountsTrue

PROPERTIES
  Coverage
