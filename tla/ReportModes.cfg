SPECIFICATION FairSpec
CONSTANTS
  WordSize = 1
  PageSize = 4
  LINE_SCROLL = 3
  LastLine = 4
  BADRAM_MAXPATNS = 2
  PatternsPerLine = 1
  LastTest = 1
  NoPatternTests = {0}
  DataErrors <- SomeData
  AddressErrors <- SomeAddress
  EccErrors <- SomeEcc
  ParityErrors = {3}
  UserModes = {"summary", "addresses", "patterns", "none", "dmi"}
  UserOps = {"select", "lock", "restart"}
  MenuInWait = FALSE
  MaxDepth = 3
  MaxReports = 3
  MaxOps = 2

INVARIANTS
  TypeOK
  SummaryTrue
  LinePlaced

PROPERTIES
  LinesTellOnce
  ReportEnds
