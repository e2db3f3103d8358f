SPECIFICATION Spec
CONSTANTS
  k1 = k1
  k2 = k2
  k3 = k3
  Key <- MCKey
  Value = {v1}
  None = None
  Freed = Freed
  HashValue <- MCHashValue
  MAP_INITIAL_CAPACITY = 2
CHECK_DEADLOCK FALSE
INVARIANT WellFormed
PROPERTIES ImplementsDictionary CallsReturn
