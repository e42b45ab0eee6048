SPECIFICATION Spec
CONSTANTS
  None = None
  AnySemantics = AnySemantics
  k1 = k1
  k2 = k2
  c1 = c1
  c2 = c2
  c3 = c3
  w1 = w1
  x1 = x1
  i1 = i1
  i2 = i2
  q1 = q1
  Keys = {k1, k2}
  ClaimIds = {c1, c2, c3}
  Targets = {c1, c2, c3}
  Writers = {w1}
  Compilers = {x1}
  ProjectionIds = {i1}
  RequestIds = {q1}
  Requests <- MCOneKeyOrAll
  Modes = {"coverage", "exact", "scan", "plain"}
  Kinds = {"SUPERSEDES", "CONTRADICTS"}
  Times = {1}
  Validities <- MCAlways
  EventKinds = {"USED", "CONSOLIDATED", "ARCHIVED"}
  MaxExtraRefs = 0
  MaxFrontier = 30
  MaxOtherRows = 1
SYMMETRY MCSymmetry
INVARIANTS
  ContextTypeOK
  FreshMeansCurrent
  StaleOnlyWhenTouched
CHECK_DEADLOCK FALSE
