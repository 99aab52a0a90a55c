CONSTANTS
  p1 = p1  p2 = p2  p3 = p3
  Peer = {p1, p2}
  Endpoint = {p1, p2}
  NoEndpoint = NoEndpoint
  Port <- OwnPort
  LongLived = {}
  ImmediateExit = {p1}
  Linger = {p2}
  MaxCrashes = 1
  MaxProxyRestarts = 1
  MaxBacklog = 1
  MaxUnread = 1
SPECIFICATION FairSpec
INVARIANTS PeersConnected Honest
PROPERTIES KeepsMembership MeshForms DepartureCompletes GhostsVanish ChatterEnds
CHECK_DEADLOCK FALSE
