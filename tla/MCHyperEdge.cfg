CONSTANTS
  NodeVals = {a, b, c}
  EdgeVals = {p, q, r}
  MaxNodes = 3
  MaxEdges = 3
  a = a
  b = b
  c = c
  p = p
  q = q
  r = r
SYMMETRY Payloads
SPECIFICATION Spec
INVARIANTS Consistent
PROPERTY ExactCallsRefine
