SPECIFICATION FairSchemaSpec
CONSTANTS
  None = None
  o1 = o1
  o2 = o2
  m1 = m1
  m2 = m2
  i1 = i1
  i2 = i2
  Openers = {o1, o2}
  Entries = {m1}
  ProjectionIds = {i1}
  MaxFrontier = 3
  MaxFailures = 2
INVARIANTS
  SchemaTypeOK
  CreatedOnceAndFirst
  DeclaredLineageFenced
PROPERTIES
  MigrationCompletes
CHECK_DEADLOCK FALSE
