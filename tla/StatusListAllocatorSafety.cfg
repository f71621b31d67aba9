SPECIFICATION Spec
CONSTANTS
  h1 = h1
  h2 = h2
  r1 = r1
  r2 = r2
  r3 = r3
  r4 = r4
  StatusLists = {l1, l2}
  CapacityBits = 5
  BlockSize = 2
  Hosts <- TwoHosts
  Requests <- FourRequests
  HostOf <- TwoAndTwo
  MaxRetries = 1
  NoBlock = NoBlock
  NoBinding = NoBinding
  NoList = NoList
SYMMETRY SafetySymmetry
INVARIANTS
  TypeOK
  UniqueBindings
  EveryIndexAccounted
  WaitersHaveAnOwner
  SealedHasNoRoom
PROPERTIES
  ExhaustionIsReal
  ImplementsPromise
  ImplementsContainers
