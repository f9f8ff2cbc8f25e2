CONSTANTS
  Addresses = {a1, a2, a3, a4}
  Stypes = {1, 2}
  GuestIds = {1}
  MaxTag = 2
  Clients = FALSE
  Commands = {"eGuestLoginReq"}
  MaxPending = 2
  NULL = NULL
SPECIFICATION FairSpec
INVARIANTS
  RouteIsOpen
  OneConnection
PROPERTIES
  Reconnects
CHECK_DEADLOCK FALSE
