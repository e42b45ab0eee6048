SPECIFICATION EpistemicSpec
CONSTANTS
  None = None
  k1 = k1
  k2 = k2
  c1 = c1
  c2 = c2
  c3 = c3
  c4 = c4
  w1 = w1
  w2 = w2
  Keys = {k1}
  ClaimIds = {c1, c2, c3}
  Writers = {w1}
  Kinds = {"CORRECTS", "CONTRADICTS"}
  MaxFrontier = 100
  MaxExtraRefs = 1
  Times = {1, 2}
  Validities <- MCValidities
SYMMETRY MCClaimSymmetry
INVARIANTS
  AsKnownAtIsPrefix
  ReplayAnswersQueries
  CompetingStayOffLineage
  AnswersRestOnKnowledge
PROPERTIES
  PastAnswersStable
CHECK_DEADLOCK FALSE
