CONSTANTS
  PageLines = 2
  WindowPages = 14
  NumWindows = 4
  Low = 2
  ImageLen = 3
  HighBoot = 8
  HighBig = 10
  BigMemory = 12
  UsbFloor = 1
  PassCap = 2
  LoadAddrs = {4}
  Phases = 1
  LastTest = 2
  Faults = {}
  Modes = {"bios"}
  Machines <- BigMachine
  UserOps = {"default"}
  LimitPages = {6, 20}
  TestInputs <- MenuTests
  MaxOps = 2

SPECIFICATION Spec

INVARIANTS
  CodeUntouched
