\* the comment on the value kept for errors
SPECIFICATION SearchSpec
CONSTANTS
  MaxLen = 3
  MaxKey = 3
  Tables <- SomeTables
  Keys <- SomeKeys
INVARIANTS MinusOneReserved
CHECK_DEADLOCK FALSE
