SPECIFICATION FairSpec
CONSTANTS
  h1 = h1
  h2 = h2
  r1 = r1
  r2 = r2
  r3 = r3
  r4 = r4
  StatusLists = {l1}
  CapacityBits = 5
  BlockSize = 2
  Hosts <- TwoHosts
  Requests <- FourRequests
  HostOf <- ThreeAndOne
  MaxRetries = 1
  NoBlock = NoBlock
  NoBinding = NoBinding
  NoList = NoList
PROPERTIES
  EveryRequestAnswered
