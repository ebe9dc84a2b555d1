SPECIFICATION StartsSpec
CONSTANTS
  Proc <- MCProc
  Files <- MCFiles
  Typ = {"t"}
  Number = {"m1", "m2"}
  MaxConsumers = 2
INVARIANTS
  RunsOnce InOrder MigratedIsComplete  DueIsHandled
CHECK_DEADLOCK FALSE
