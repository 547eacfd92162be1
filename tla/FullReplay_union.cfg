SPECIFICATION Spec
CONSTANTS
  Parents = {a, b, c}
  Local = {a}
  SameDomain = FALSE
  BATCH_SIZE = 1
  Unbuilt = Unbuilt
  MaxWrites = 2
INVARIANTS TargetExact ReplayCompletes
SYMMETRY ParentSymmetry
CHECK_DEADLOCK FALSE
