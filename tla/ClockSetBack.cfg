SPECIFICATION CognitiveSpec
CONSTANTS
  None = None
  v1 = v1
  h1 = h1
  a1 = a1
  p1 = p1
  q1 = q1
  yes = yes
  InvocationIds = {v1}
  ArtifactIds = {a1}
  Hosts = {h1}
  ProjectionIds = {p1}
  Requests = {q1}
  Answers = {yes}
  Times = {1, 2}
  ClockSteps = TRUE
  LongLocks = FALSE
PROPERTIES
  FailuresAreRecorded
CHECK_DEADLOCK FALSE
