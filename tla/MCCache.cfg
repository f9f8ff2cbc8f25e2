CONSTANTS
  Clients = {c1, c2}
  cacheMem = 1
  Capacity = 3
  HeapBlocks <- MCHeapBlocks
  ElemSize = 2
  Sizes <- MCSizes
  NULL = NULL
SPECIFICATION Spec
INVARIANTS
  TypeOK
  FreeListIntact
  NoSharing
  RequestFits
  HeapAccounted
PROPERTY ImplementsPool
