CONSTANTS
  Sentinel = 99
  DenseNodes = TRUE
  DenseEdges = TRUE
  NodeVals = {a, b, c}
  EdgeVals = {p, q, r}
  MaxNodes = 3
  MaxEdges = 3
  ScalarNodeMaxAvgDegree = 1
  MaxAsked = 2
  a = a
  b = b
  c = c
  p = p
  q = q
  r = r
SYMMETRY Payloads
SPECIFICATION BSpec
INVARIANTS ThreadedOnceWhenIdle IncidentOnceWhenIdle SweepsMeetAll PositionsNeverCollide RewriteSeesOrigin
PROPERTY BatchRefinesMultigraph
