\* telnet sessions of two users; web visitors of one and a session of the other
SPECIFICATION Spec
CONSTANTS
  t1 = t1
  t2 = t2
  t3 = t3
  w1 = w1
  w2 = w2
  w3 = w3
  k1 = k1
  k2 = k2
  N = 2
  Users <- TwoUsers
  Hash <- OneChain
  Pids <- TelnetPids
  Garbage <- NotFirst
  Telnet = {t1, t2, t3}
  Web = {w2, w3}
  Kickers = {k1, k2}
  Choosers = {k2}
  UserOf <- OneAndTwo
  Target <- BothUsers
  Casts <- TwoCasts
  MaxKick = 2
  Faults = TRUE
INVARIANTS TypeOK OwnSlot OwnWebSlot ChainsPartition RingSorted
\* everybody has left
CHECK_DEADLOCK FALSE
