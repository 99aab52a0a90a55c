CONSTANTS
  Child = {c1}
  Pipe = {a}
  Endpoint = {x}
  Inproc = {}
  SingleConnect = TRUE
  Reads = FALSE
  EarlyLinger = FALSE
  MaxFound = 0
  MaxMailbox = 1
  None = None
SPECIFICATION FairSpec
PROPERTIES LateLingerEnds
CHECK_DEADLOCK FALSE
