SPECIFICATION FairSpec
CONSTANTS
  N = 3
  Ordered = TRUE
  Readers = {r1}
  NodeOf <- OwnNode
  Filtered = {r1}
  Requests <- PointAndRange
  Hole = Hole
  MaxAsked = 1
  MaxWrites = 1
  MaxEvictions = 1
INVARIANTS ReaderCurrent
PROPERTIES RequestsAnswered
CHECK_DEADLOCK FALSE
