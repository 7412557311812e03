\* Power loss before the id counter was flushed, then a recovery.
CONSTANTS
  p1 = p1
  p2 = p2
  p3 = p3
  f1 = f1
  f2 = f2
  f3 = f3
  f4 = f4
  NoPost = NoPost
  NoProc = NoProc
  Procs = {p1, p2}
  Posts = {f1, f2, f3}
  Old <- OldTwo
  Ops <- OneWriter
  Bins = {"D"}
  MaxId = 4
  MaxTrash = 3
  Crash = TRUE
SPECIFICATION Spec
INVARIANT IdsSorted
CHECK_DEADLOCK FALSE
