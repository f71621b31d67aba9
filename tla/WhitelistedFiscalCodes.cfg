SPECIFICATION WhitelistSpec
CONSTANTS
  a = a
  b = b
  c = c
  d = d
  q1 = q1
  q2 = q2
  q3 = q3
  Invalid = Invalid
  FiscalCodes = {a, b, c, d}
  Files <- MCFiles
  BatchSize = 3
  BulkChunkSize = 2
  MaxEnqueueAttempts = 3
  MaxBulkRetryAttempts = 2
  MaxBlobAttempts = 2
  MaxDequeueCount = 2
  Messages = {q1, q2, q3}
  MaxFaults = 2
INVARIANTS
  EveryCodeIsAccounted
PROPERTIES
  FileIsInserted
CHECK_DEADLOCK FALSE
