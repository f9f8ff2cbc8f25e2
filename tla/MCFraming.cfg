CONSTANTS
  Streams <- AnyStream
  RECVBUF = 5
  MinCommand = 2
  HttpSize = 7
  TcpSizes = {3, 4, 5, 6, 8}
  MaxFrames = 3
  Web = TRUE
SPECIFICATION FairSpec
INVARIANTS
  TypeOK
  InBounds
  RoomOffered
  LongPkgForOneFrame
PROPERTIES
  ImplementsStream
  AllParsed
CHECK_DEADLOCK FALSE
