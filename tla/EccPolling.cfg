CONSTANTS
  Boards <- AllBoards
  MaxErrors = 3
  MaxRestarts = 1

SPECIFICATION Spec

INVARIANTS
  TypeOK
  ReportsTrue
  PollWarranted

PROPERTIES
  UnseenKept
  Attended
