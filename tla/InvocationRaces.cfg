SPECIFICATION FairNeedsSpec
CONSTANTS
  None = None
  v1 = v1
  v2 = v2
  h1 = h1
  h2 = h2
  a1 = a1
  a2 = a2
  p1 = p1
  p2 = p2
  q1 = q1
  q2 = q2
  q3 = q3
  o1 = o1
  o2 = o2
  yes = yes
  no = no
  InvocationIds = {v1, v2}
  ArtifactIds = {a1}
  Hosts = {h1, h2}
  Coordinators = {o1}
  ProjectionIds = {p1}
  Requests = {q1, q2}
  Answers = {yes, no}
  Tokens = {1}
  Latencies = {}
  Times = {1, 2}
  ClockSteps = TRUE
  LongLocks = TRUE
INVARIANTS
  RuntimeTypeOK
  OutcomesMatchArtifacts
  DecisionsFollowNeeds
PROPERTIES
  InvocationsStartCurrent
  AcceptancesAreCurrent
  InvocationsEnd
CHECK_DEADLOCK FALSE
