SPECIFICATION FairSpec
CONSTANTS
  Parents = {p}
  Local = {}
  SameDomain = TRUE
  BATCH_SIZE = 2
  Unbuilt = Unbuilt
  MaxWrites = 5
PROPERTIES BuildsView
CHECK_DEADLOCK FALSE
