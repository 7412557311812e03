\* a user posts while a manager deletes
SPECIFICATION Spec
CONSTANTS
  p1 = p1
  p2 = p2
  p3 = p3
  Nobody = Nobody
  Procs = {p1, p2, p3}
  Mixes <- ManagerAndPoster
  Old = 2
INVARIANTS NothingLost
\* everybody has done what he wanted
CHECK_DEADLOCK FALSE
