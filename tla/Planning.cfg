SPECIFICATION PlanningSpec
CONSTANTS
  None = None
  c1 = c1
  c2 = c2
  c3 = c3
  w1 = w1
  x1 = x1
  Keys <- MCKeys
  SubjectTerms <- MCSubjectTerms
  PredicateTerms <- MCPredicateTerms
  ValueTerms <- MCValueTerms
  Position <- MCPosition
  Clients = {x1}
  Requests <- MCRequests
  DerivedId = "d1"
  Limits = {1, 3}
  ClaimIds = {c1, c2, c3}
  Targets = {c1, c2, c3}
  Writers = {w1}
  Kinds = {"SUPERSEDES", "CONTRADICTS"}
  Times = {1}
  Validities <- MCEnded
  EventKinds = {"ARCHIVED"}
  MaxExtraRefs = 0
  MaxFrontier = 15
SYMMETRY MCSymmetry
INVARIANTS
  PlanningTypeOK
  ResolvedIsUnique
  DerivedAsksItsSource
  LimitNeverDecides
  PlansHoldUntilTouched
CHECK_DEADLOCK FALSE
