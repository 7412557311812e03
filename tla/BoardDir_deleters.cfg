\* Two users delete, one recovers, one flags; deaths in the middle and power losses.
CONSTANTS
  p1 = p1
  p2 = p2
  p3 = p3
  f1 = f1
  f2 = f2
  f3 = f3
  f4 = f4
  NoPost = NoPost
  NoProc = NoProc
  Procs = {p1, p2}
  Posts = {f1, f2}
  Old <- OldTwo
  Ops <- TwoDeleters
  Bins = {"D"}
  MaxId = 3
  MaxTrash = 1
  Crash = TRUE
SPECIFICATION Spec
INVARIANT LocatedIsTarget
CHECK_DEADLOCK FALSE
