CONSTANTS
  Workers = {w1, w2, w3}
  Askers = {l1, l2}
  dbIndex = 1
  none = none
SPECIFICATION FairSpec
INVARIANTS
  TypeOK
  OneAtATime
  OwnInfo
  ConnectOnce
PROPERTIES
  QueriesEnd
CHECK_DEADLOCK FALSE
