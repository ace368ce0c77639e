SPECIFICATION Spec
CONSTANTS
  MaxRuns = 2
  MinChain = 2
  Window = 3
  RunBound = 4
  FileBound = 5
  Faults <- Troubled
INVARIANT CountedRight
INVARIANT RangesDisjoint
INVARIANT NoBuriedPart
INVARIANT VideoComplete
CHECK_DEADLOCK FALSE
