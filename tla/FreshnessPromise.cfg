SPECIFICATION Spec
CONSTANTS
  None = None
  AnySemantics = AnySemantics
  k1 = k1
  k2 = k2
  c1 = c1
  c2 = c2
  c3 = c3
  w1 = w1
  x1 = x1
  i1 = i1
  i2 = i2
  q1 = q1
  Keys = {k1, k2}
  ClaimIds = {c1, c2}
  Targets = {c1, c2}
  Writers = {w1}
  Compilers = {x1}
  ProjectionIds = {i1, i2}
  RequestIds = {q1}
  Requests <- MCAnyTime
  Modes = {"coverage", "scan"}
  Kinds = {"SUPERSEDES", "CONTRADICTS"}
  Times = {1}
  Validities <- MCEnded
  EventKinds = {"ARCHIVED", "RESTORED"}
  MaxExtraRefs = 0
  MaxFrontier = 11
  MaxOtherRows = 2
SYMMETRY MCSymmetry
INVARIANTS
  FreshMeansCurrent
PROPERTIES
  ImplementsFence
CHECK_DEADLOCK FALSE
