CONSTANTS
  DenseNodes = FALSE
  DenseEdges = FALSE
  Maintained = FALSE
  NodeVals = {1, 2, 3}
  EdgeVals = {11, 12}
  EdgeIds = {p, q, r}
  MaxNodes = 3
  MaxEdges = 3
  Others <- SmallOthers
  p = p
  q = q
  r = r
SYMMETRY Names
VIEW WhatCallsSee
SPECIFICATION FacadeSpec
PROPERTIES CallsRefine StableUnlessReversed ReverseLosesOnlyClashes
