SPECIFICATION Spec
CONSTANTS
  StatusLists = {l1, l2}
  CapacityBits = 3
  BlockSize = 2
  Managers = {m1, m2}
  Pages = {p1, p2}
  StalePageSize = 2
  ProvisionBatchSize = 2
  Targets <- TwoTargets
  MinimumRemainingTotalCapacity = 2
SYMMETRY SafetySymmetry
INVARIANTS
  TypeOK
  OpenedIsReady
  RoutedWasOpened
  RoutingMatchesCatalog
  TargetIsMet
PROPERTIES
  ImplementsContainers
