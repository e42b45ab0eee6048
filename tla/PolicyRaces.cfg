SPECIFICATION PoliciesSpec
CONSTANTS
  None = None
  p1 = p1
  p2 = p2
  s1 = s1
  s2 = s2
  h1 = h1
  h2 = h2
  r1 = r1
  r2 = r2
  PolicyIds = {p1, p2}
  Contents = {s1, s2}
  Hosts = {h1, h2}
  RequestIds = {r1, r2}
SYMMETRY MCSymmetry
INVARIANTS
  PoliciesTypeOK
  InputsAreGoverned
  RefusedOnlyWhenRebound
PROPERTIES
  BindingsAreFinal
CHECK_DEADLOCK FALSE
