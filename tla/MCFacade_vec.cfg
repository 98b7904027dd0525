CONSTANTS
  DenseNodes = TRUE
  DenseEdges = TRUE
  Maintained = TRUE
  NodeVals = {a, b, c}
  EdgeVals = {0}
  EdgeIds = {p, q, r}
  MaxNodes = 3
  MaxEdges = 3
  Others <- SmallOthers
  a = a
  b = b
  c = c
  p = p
  q = q
  r = r
SYMMETRY NamesAndPayloads
SPECIFICATION FacadeSpec
INVARIANTS Consistent LiveUntilReverse
PROPERTY RefinesMultigraph
