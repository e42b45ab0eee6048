SPECIFICATION NeedsSpec
CONSTANTS
  None = None
  v1 = v1
  v2 = v2
  h1 = h1
  h2 = h2
  a1 = a1
  a2 = a2
  p1 = p1
  p2 = p2
  q1 = q1
  q2 = q2
  q3 = q3
  o1 = o1
  o2 = o2
  yes = yes
  no = no
  InvocationIds = {v1, v2}
  ArtifactIds = {a1, a2}
  Hosts = {h1}
  Coordinators = {o1, o2}
  ProjectionIds = {p1, p2}
  Requests = {q1, q2, q3}
  Answers = {yes}
  Tokens = {1, 2}
  Latencies = {1}
  Times = {1}
  ClockSteps = FALSE
  LongLocks = FALSE
SYMMETRY MCSymmetry
INVARIANTS
  NeedsTypeOK
  NeedsDecidedOnce
  ChainsNeverAmplify
CHECK_DEADLOCK FALSE
