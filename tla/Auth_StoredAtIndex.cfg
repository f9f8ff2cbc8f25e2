CONSTANTS
  Workers = {w1, w2}
  Askers = {l1, l2, l3}
  dbIndex = 1
  none = none
SPECIFICATION Spec
INVARIANT StoredAtIndex
CHECK_DEADLOCK FALSE
