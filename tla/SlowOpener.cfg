SPECIFICATION SchemaSpec
CONSTANTS
  None = None
  o1 = o1
  o2 = o2
  m1 = m1
  m2 = m2
  i1 = i1
  i2 = i2
  Openers = {o1, o2}
  Entries = {}
  ProjectionIds = {i1}
  MaxFrontier = 0
  MaxFailures = 0
SYMMETRY MCSymmetry
INVARIANTS
  OnlyDeclaredInvalidated
CHECK_DEADLOCK FALSE
