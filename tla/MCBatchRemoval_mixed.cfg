CONSTANTS
  Sentinel = 99
  DenseNodes = TRUE
  DenseEdges = FALSE
  NodeVals = {a, b, c}
  EdgeVals = {11, 12}
  MaxNodes = 3
  MaxEdges = 3
  ScalarNodeMaxAvgDegree = 16
  MaxAsked = 3
  a = a
  b = b
  c = c
SYMMETRY NodePayloads
SPECIFICATION BSpec
INVARIANTS ThreadedOnceWhenIdle
PROPERTY BatchRefinesMultigraph
