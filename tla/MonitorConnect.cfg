CONSTANTS
  Sock = {dataSub}
  Bound = {}
  NoSock = NoSock
  StopPolled = FALSE
  Hwm = 2
  MaxEvents = 2
SPECIFICATION FairSpec
PROPERTY Exits
CHECK_DEADLOCK FALSE
