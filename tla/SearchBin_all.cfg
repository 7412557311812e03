\* every table of up to 5 entries over the ids 1..4, every key from 0 to 5
SPECIFICATION FairSearch
CONSTANTS
  MaxLen = 5
  MaxKey = 4
  Tables <- SomeTables
  Keys <- SomeKeys
INVARIANTS SearchTypeOK ResultIsHitOrGap FailureMeansAbsent
PROPERTIES Terminates
\* the function returns
CHECK_DEADLOCK FALSE
