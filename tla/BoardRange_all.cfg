\* each of the three mixes
SPECIFICATION Spec
CONSTANTS
  p1 = p1
  p2 = p2
  p3 = p3
  Nobody = Nobody
  Procs = {p1, p2, p3}
  Mixes <- SafeMixes
  Old = 3
INVARIANTS TypeOK NothingLost FlagMeansDigest
PROPERTIES MarkedStay
\* everybody has done what he wanted
CHECK_DEADLOCK FALSE
