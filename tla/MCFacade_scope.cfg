CONSTANTS
  DenseNodes = FALSE
  DenseEdges = FALSE
  Maintained = FALSE
  NodeVals = {1, 2, 3}
  EdgeVals = {11, 12}
  EdgeIds = {p, q}
  MaxNodes = 3
  MaxEdges = 2
  Others <- SmallOthers
  p = p
  q = q
SYMMETRY Names
SPECIFICATION FacadeSpec
INVARIANT ScopeIndicesLive
