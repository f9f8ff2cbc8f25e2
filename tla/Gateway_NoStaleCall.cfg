CONSTANTS
  Addresses = {a1, a2, a3}
  Stypes = {1}
  GuestIds = {1}
  MaxTag = 2
  Clients = TRUE
  Commands = {"eGuestLoginReq"}
  MaxPending = 2
  NULL = NULL
SPECIFICATION Spec
INVARIANTS
  NoStaleCall
CHECK_DEADLOCK FALSE
