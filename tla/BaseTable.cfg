SPECIFICATION Spec
CONSTANTS
  None = None
  Null = Null
  Batches <- MCBatches
  Targets <- MCTargets
  Indices <- MCIndices
  MaxOffset = 2
  MaxFaults = 2
  CrashWhileIndexing = FALSE
  KeyUpdates = FALSE
INVARIANTS RowsExact LookupsExact DurableOffset ForwardsTheChange
CHECK_DEADLOCK FALSE
