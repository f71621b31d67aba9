SPECIFICATION Spec
CONSTANTS
  FiscalCodes = {"a", "b", "c"}
  CodeLength = 2
  Files <- MCFiles
  BatchSize = 2
  MaxBlobAttempts = 2
  MaxDequeueCount = 2
  MaxFaults = 2
INVARIANTS
  NobodyIsSentTwiceForNothing
PROPERTIES
  EveryoneIsTried
CHECK_DEADLOCK FALSE
