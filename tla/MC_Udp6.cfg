CONSTANTS
  s1 = s1
  s2 = s2
  a1 = a1
  p1 = p1
  p2 = p2
  AnyAddr = AnyAddr
  OtherFamily = OtherFamily
  None = None
  Sockets <- MCSockets
  LocalAddrs <- MCLocalAddrs
  PeerAddrs <- MCPeerAddrs
  Routable <- MCRoutable
  RouteSource = a1
  Ports = {1}
  Ephemeral = {9}
  PeerPorts = {7}
  TxAvailable = 2
  TxSizes = {1, 3}
  RxSizes = {1, 2}
  BufSizes = {1, 2}
  DefaultRcvBuf = 2
  OnlyFirstBind = TRUE
SPECIFICATION Spec
CONSTRAINT EndPointBound
SYMMETRY Symmetry
VIEW StateView
INVARIANT TypeOK
INVARIANT RxAvailableMatchesQueue
INVARIANT EndpointOwnership
INVARIANT DeliveredToBoundPort
