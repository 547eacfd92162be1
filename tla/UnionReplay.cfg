SPECIFICATION FairSpec
CONSTANTS
  Keys = {k1, k2}
  Parents = {p1, p2}
  Local = {p1}
  First = p1
  Hole = Hole
  MaxWrites = 1
  MaxEvictions = 1
INVARIANTS ViewCurrent
PROPERTIES ReplaysReleased
CHECK_DEADLOCK FALSE
