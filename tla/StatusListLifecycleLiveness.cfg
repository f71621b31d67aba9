SPECIFICATION FairSpec
CONSTANTS
  StatusLists = {l1, l2}
  CapacityBits = 3
  BlockSize = 2
  Managers = {m1, m2}
  Pages = {p1}
  StalePageSize = 1
  ProvisionBatchSize = 2
  Targets <- OneTarget
  MinimumRemainingTotalCapacity = 1
PROPERTIES
  DriftHeals
  InitializingIsCompleted
  TargetIsReached
