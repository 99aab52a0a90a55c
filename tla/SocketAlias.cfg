CONSTANTS
  Child = {c1, c2}
  Pipe = {a}
  Endpoint = {x, y}
  Inproc = {}
  SingleConnect = TRUE
  Reads = TRUE
  EarlyLinger = TRUE
  MaxFound = 0
  MaxMailbox = 2
  None = None
SPECIFICATION Spec
PROPERTIES CutsItsOwn
