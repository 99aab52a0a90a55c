CONSTANTS
  Child = {c1}
  Pipe = {a}
  Endpoint = {x, i}
  Inproc = {i}
  SingleConnect = TRUE
  Reads = TRUE
  EarlyLinger = FALSE
  MaxFound = 1
  MaxMailbox = 1
  None = None
SPECIFICATION FairSpec
INVARIANTS NothingLeft
PROPERTIES CloseEnds EndsUnlessKept PipesReleased
CHECK_DEADLOCK FALSE
