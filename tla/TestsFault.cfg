CONSTANTS
  Bits = 8
  ByteBits = 4
  AddrWords = 256
  SPINSZ = 64
  MOD_SZ = 5
  AlignWords = 32
  BankWords = 32
  BlockWords = 16
  ShiftWords = 8
  Inverted = {2, 5, 7}
  USB_WAR = 12
  MulX = 11
  MulY = 13
  SEED_X = 77
  SEED_Y = 142
  Seeds <- SomeSeeds
  Repeats = 2
  Iter <- FullIter
  Passes = {0, 1}
  Maps <- AllMaps
  Faults <- SomeFaults
  MaxTicks = 200

SPECIFICATION Spec

INVARIANTS
  TypeOK
  ErrorsTrue
  FaultFound
  TicksPredicted

PROPERTIES
  WritesAllowed
  TestEnds
