SPECIFICATION LifecycleSpec
CONSTANTS
  None = None
  m1 = m1
  m2 = m2
  Targets = {m1, m2}
  EventKinds = {"SEEN", "USED", "CONSOLIDATED", "ARCHIVED", "RESTORED", "TOMBSTONED", "DELETED"}
  MaxFrontier = 9
SYMMETRY MCSymmetry
INVARIANTS
  MemoryTypeOK
  LifecycleMatchesEvents
  RebuildChangesNothing
  ForgottenStaysForgotten
  ArchivedOncePerRestore
CHECK_DEADLOCK FALSE
