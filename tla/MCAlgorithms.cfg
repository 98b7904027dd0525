CONSTANTS
  Sizes = {0, 1, 2, 3, 4}
  Weights <- SomeWeights
  Admissible <- Small
  Traversable <- Walkable
  Weighable <- SmallOrDiamond
  MaxRoots = 2
SPECIFICATION TSpec
INVARIANTS SortsRespectEdges ComponentsExact SeparatorsExact MatchingsAndColorings
  PathsEnumerated CyclesBroken WeightsOptimal ViewsExact TraversalCovers TraversalOrdered
PROPERTY TraversalEnds
CHECK_DEADLOCK FALSE
