CONSTANTS
  Clients = {loop, worker}
  loop = loop
  cacheMem = 1
  Capacity = 2
  HeapBlocks = {3}
  ElemSize = 2
  Sizes = {2}
  NULL = NULL
SPECIFICATION SmallSpec
INVARIANT NoSharing
CHECK_DEADLOCK FALSE
