SPECIFICATION EpistemicSpec
CONSTANTS
  None = None
  k1 = k1
  k2 = k2
  c1 = c1
  c2 = c2
  c3 = c3
  c4 = c4
  w1 = w1
  w2 = w2
  Keys = {k1, k2}
  ClaimIds = {c1, c2, c3, c4}
  Writers = {w1, w2}
  Kinds = {"SUPERSEDES", "CONTRADICTS"}
  MaxFrontier = 100
  MaxExtraRefs = 0
  Times = {1, 2}
  Validities <- MCAlways
SYMMETRY MCSymmetry
INVARIANTS
  EpistemicTypeOK
  HeadsMatchHistory
PROPERTIES
  RefinesRegister
CHECK_DEADLOCK FALSE
