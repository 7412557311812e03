\* A deletion is prepared while another user posts.
CONSTANTS
  p1 = p1
  p2 = p2
  p3 = p3
  f1 = f1
  f2 = f2
  f3 = f3
  f4 = f4
  NoPost = NoPost
  NoProc = NoProc
  Procs = {p1, p2}
  Posts = {f1, f2, f3}
  Old <- OldTwo
  Ops <- DeleterAndPoster
  Bins = {"D"}
  MaxId = 4
  MaxTrash = 3
  Crash = FALSE
SPECIFICATION Spec
INVARIANT PreparedDataCurrent
CHECK_DEADLOCK FALSE
