CONSTANTS
  s = s
  a = a
  b = b
  c = c
  d = d
  e = e
  f = f
  t = t
  Node = {s, a, b, c, d, e, f, t}
  Source = s
  Sink = t
  MaxCapacity = 2
  Networks <- SmallNetworks
SPECIFICATION Spec
INVARIANT FlowWithinCapacity
