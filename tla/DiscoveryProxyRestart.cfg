CONSTANTS
  p1 = p1  p2 = p2  p3 = p3
  Peer = {p1, p2}
  Endpoint = {p1, p2}
  NoEndpoint = NoEndpoint
  Port <- OwnPort
  LongLived = {p1, p2}
  ImmediateExit = {}
  Linger = {p1, p2}
  MaxCrashes = 0
  MaxProxyRestarts = 1
  MaxBacklog = 1
  MaxUnread = 2
SPECIFICATION Spec
INVARIANTS DirectConnections
CHECK_DEADLOCK FALSE
