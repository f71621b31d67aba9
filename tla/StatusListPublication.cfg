SPECIFICATION FairSpec
CONSTANTS
  StatusLists = {l1}
  PageCount = 2
  PageBits = 1
  Hosts = {h1, h2}
  Managers = {m1}
  Messages = {q1, q2}
  MaxDequeueCount = 2
  MaxFaults = 1
  NoList = NoList
INVARIANTS
  ServedBitsAreSet
PROPERTIES
  TakesBackOnlyWhenOvertaken
  RevocationsAreServed
