SPECIFICATION Spec
CONSTANTS
  Width = 7
  BADRAM_MAXPATNS = 3
  Faults <- SixWords
INVARIANT AllCaptured
