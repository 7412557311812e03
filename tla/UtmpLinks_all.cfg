\* four slots; sessions come and go in every order
SPECIFICATION Spec
CONSTANTS
  N = 4
  Users <- ThreeUsers
  Hash <- TwoChains
  Pids <- OnePid
  Garbage <- Anything
INVARIANTS RingTwoWay TableConsistent
PROPERTIES ImplementsTable
