CONSTANTS
  Addresses = {a1, a2}
  Listeners = {"tcp", "web"}
  kind <- MCKind
  Requests = {r1, r2}
  Bodies = {117, 65525, 65528}
  COMMAND_HEAD = 8
  ElemSize = 1024
SPECIFICATION SendFairSpec
INVARIANTS
  SendTypeOK
  BlocksAccounted
  EndedOnce
  RequestsReturned
  HeaderTells
PROPERTIES
  ClosedIsDestroyed
  FramedForPeer
CHECK_DEADLOCK FALSE
