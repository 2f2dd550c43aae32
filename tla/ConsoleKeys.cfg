CONSTANTS
  Rows = 3
  Cols = 2
  PopRows = 2
  PopCols = 1
  Texts <- TwoTexts
  Keys <- AllKeys
  Chars <- AllChars
  Typists = {"keyboard", "serial"}
  Options <- SomeOptions
  TTYs = {0, 1, 2, 3}
  Bauds = {300, 9600, 115200}
  MaxText = 3
  NumberLines = 0
  NumberKeys = {"x", "f", "m", "k", "bs"}
  MaxInput = 1
  WordBits = 10
  Shifts <- SmallShifts
  ResultShifts = {0, 3}

SPECIFICATION Spec
CHECK_DEADLOCK FALSE

INVARIANTS
  TypeOK
  ScreensAgree
  LockAsAsked
  EntriesTrue

PROPERTIES
  WaitsEnd
