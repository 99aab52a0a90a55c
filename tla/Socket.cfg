CONSTANTS
  Child = {c1, c2}
  Pipe = {a, b}
  Endpoint = {x}
  Inproc = {}
  SingleConnect = FALSE
  Reads = TRUE
  EarlyLinger = TRUE
  MaxFound = 0
  MaxMailbox = 2
  None = None
SPECIFICATION Spec
INVARIANTS TypeOK NothingLeft NoUseAfterFree NoneForgotten InHandshake
SYMMETRY Symmetric
