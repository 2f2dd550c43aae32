SPECIFICATION Spec
CONSTANTS
  Width = 5
  BADRAM_MAXPATNS = 3
  Faults <- SixWords

INVARIANTS
  CostsTrue
  NoSpurious
  CapturedUnlessSlipped
