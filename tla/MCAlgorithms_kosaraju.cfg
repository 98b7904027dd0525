CONSTANTS
  Sizes = {3}
  Weights = {1}
  Admissible <- Small
  Traversable <- Walkable
  Weighable <- SmallOrDiamond
  MaxRoots = 1
SPECIFICATION TSpec
INVARIANT KosarajuIsExact
CHECK_DEADLOCK FALSE
