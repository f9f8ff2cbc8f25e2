CONSTANTS
  Streams <- AnyStream
  RECVBUF = 5
  MinCommand = 2
  HttpSize = 7
  TcpSizes = {4, 6}
  MaxFrames = 2
  Web = FALSE
SPECIFICATION FairSpec
PROPERTY ParserReturns
CHECK_DEADLOCK FALSE
