\* two users post
SPECIFICATION Spec
CONSTANTS
  p1 = p1
  p2 = p2
  p3 = p3
  Nobody = Nobody
  Procs = {p1, p2, p3}
  Mixes <- PostMix
  Old <- OldTwo
  LastOld = 2
  MaxId = 4
  MaxChanges = 3
  Windows = {"cleared", "stat", "half", "stale", "order", "unmarked", "empty", "death"}
INVARIANTS OriginSorted
\* ids are bounded
CHECK_DEADLOCK FALSE
