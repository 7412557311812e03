\* The index changes one entry at a time.
CONSTANTS
  p1 = p1
  p2 = p2
  p3 = p3
  f1 = f1
  f2 = f2
  f3 = f3
  f4 = f4
  NoPost = NoPost
  NoProc = NoProc
  Procs = {p1, p2}
  Posts = {f1, f2}
  Old <- OldOne
  Ops <- OneWriter
  Bins = {"D"}
  MaxId = 3
  MaxTrash = 2
  Crash = FALSE
SPECIFICATION Spec
PROPERTY OneEntryAtATime
CHECK_DEADLOCK FALSE
