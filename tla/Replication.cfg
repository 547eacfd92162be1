SPECIFICATION Spec
CONSTANTS
  Tables = {"a", "b"}
  Databases = {"MySQL", "PostgreSQL"}
  Kinds <- MCKinds
  Before <- MCBefore
  MySqlKinds = {"write", "create", "alter", "rotate"}
  PostgresKinds = {"write", "alter", "unsupported"}
  InstanceLock = TRUE
  AnyCrash = FALSE
  MaxLog = 5
  MaxFaults = 2
INVARIANTS ConsistentCut NoDdlSkipped
PROPERTIES Follows CatchesUp
CHECK_DEADLOCK FALSE
