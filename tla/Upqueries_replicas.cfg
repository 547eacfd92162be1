SPECIFICATION FairSpec
CONSTANTS
  N = 1
  Ordered = FALSE
  Readers = {r1, r2}
  NodeOf <- OneNode
  Filtered <- TheNode
  Requests <- Points
  Hole = Hole
  MaxAsked = 1
  MaxWrites = 2
  MaxEvictions = 2
INVARIANTS WaitingConsistent ReaderCurrent HoleBackfilledOnce
PROPERTIES RequestsAnswered MonotonicReads
CHECK_DEADLOCK FALSE
