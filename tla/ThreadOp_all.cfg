\* three processes at one board, all windows excepted
SPECIFICATION FairSpec
CONSTANTS
  p1 = p1
  p2 = p2
  p3 = p3
  Nobody = Nobody
  Procs = {p1, p2, p3}
  Mixes <- SafeMixes
  Dirs <- SomeDirs
  MaxId = 6
  Windows = {"asked", "unlocked", "moved", "reply", "recover"}
INVARIANTS WholeThread GroupOfParent NothingLost
PROPERTIES WalkEnds
\* everybody may be done
CHECK_DEADLOCK FALSE
