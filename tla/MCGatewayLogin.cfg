CONSTANTS
  Addresses = {a1, a2, a3}
  Stypes = {1}
  GuestIds = {1}
  MaxTag = 2
  Clients = TRUE
  Commands = {"eGuestLoginReq", "eLoginReq", "other"}
  MaxPending = 2
  NULL = NULL
SPECIFICATION Spec
INVARIANTS
  TypeOK
  TagsUnique
  TempForgotten
  SingleLogin
  NeverTwo
  StaleWays
PROPERTIES
  AnswerReachesAsker
CHECK_DEADLOCK FALSE
SYMMETRY Blocks
VIEW Future
