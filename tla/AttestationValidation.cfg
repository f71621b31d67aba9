SPECIFICATION Spec
CONSTANTS
  s1 = s1
  s2 = s2
  j1 = "j1"
  j2 = "j2"
  Serials = {s1, s2}
  Containing <- MCContaining
  BundleIdentifiers <- MCBundleIdentifiers
  Jwks = {"j1", "j2"}
  MaxChain = 3
  Records <- MCRecords
  IosDefects <- MCIosDefects
  ResponseDefects <- MCResponseDefects
  MaxSignCount = 1
  KeysToAttest <- MCKeysToAttest
  MaxKeys = 2
INVARIANTS
  VerdictIsDeserved
  AttestedKeysAreBound
PROPERTIES
  AppendingKeepsTheKey
  VerdictChangesForAReason
CHECK_DEADLOCK FALSE
