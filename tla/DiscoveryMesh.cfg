CONSTANTS
  p1 = p1  p2 = p2  p3 = p3
  Peer = {p1, p2, p3}
  Endpoint = {p1, p2, p3}
  NoEndpoint = NoEndpoint
  Port <- OwnPort
  LongLived = {p1, p3}
  ImmediateExit = {}
  Linger = {p1, p2, p3}
  MaxCrashes = 0
  MaxProxyRestarts = 0
  MaxBacklog = 0
  MaxUnread = 2
SYMMETRY Symmetric
SPECIFICATION Spec
INVARIANTS TypeOK DirectConnections NoGhosts
CHECK_DEADLOCK FALSE
