CONSTANTS
  Addresses = {a1, a2}
  Listeners = {"tcp"}
  kind <- MCKind
  Requests = {r1, r2}
  Bodies = {92, 117}
  COMMAND_HEAD = 8
  ElemSize = 1024
SPECIFICATION SendSpec
INVARIANT PackageKept
CHECK_DEADLOCK FALSE
