CONSTANTS
  Commands = {c1, c2}
  MaxVersion = 2
SYMMETRY Symmetry
SPECIFICATION Spec
INVARIANT PublishedKeysHold
CHECK_DEADLOCK FALSE
