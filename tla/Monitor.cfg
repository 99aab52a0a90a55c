CONSTANTS
  Sock = {dataPub, dataSub, proxySub}
  Bound = {dataPub}
  NoSock = NoSock
  StopPolled = TRUE
  Hwm = 2
  MaxEvents = 2
SPECIFICATION FairSpec
INVARIANTS TypeOK SendsAlone StoppedIsLast ReadsWhatIsThere
PROPERTIES Exits
