SPECIFICATION CoreRunSpec
CONSTANTS
  Commands = {k1, k2}
  Nobody = Nobody
INVARIANT NoDuplicateCores
CHECK_DEADLOCK FALSE
