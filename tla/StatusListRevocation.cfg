SPECIFICATION FairSpec
CONSTANTS
  w1 = w1
  w2 = w2
  w3 = w3
  l1 = l1
  r1 = r1
  r2 = r2
  NoStatus = NoStatus
  WalletInstances = {w1, w2, w3}
  StatusLists = {l1}
  PageCount = 2
  PageBitsSize = 4
  WordBits = 2
  StatusOf <- MCStatusOf
  Leases = {r1, r2}
  LeaseOf <- MCLeaseOf
  Invocations = {v1, v2}
  MaxRepeats = 1
INVARIANTS
  EveryRevocationAccounted
PROPERTIES
  BitsOnlySetForRevoked
  RevocationsReachThePages
CHECK_DEADLOCK FALSE
