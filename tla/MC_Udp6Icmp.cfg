CONSTANTS
  s1 = s1
  s2 = s2
  a1 = a1
  p1 = p1
  AnyAddr = AnyAddr
  OtherFamily = OtherFamily
  None = None
  Sockets <- MCSockets
  LocalAddrs <- MCLocalAddrs
  PeerAddrs <- MCPeerAddrs
  Routable <- MCPeerAddrs
  RouteSource = a1
  Ports = {1}
  Ephemeral = {9}
  PeerPorts = {7}
  TxAvailable = 1
  TxSizes = {1}
  RxSizes = {1}
  BufSizes = {1}
  DefaultRcvBuf = 1
  OnlyFirstBind = TRUE
SPECIFICATION IcmpSpec
CONSTRAINT EndPointBound
SYMMETRY Symmetry
VIEW StateView
\* Nothing runs after DoDispose: the simulation is over.
CHECK_DEADLOCK FALSE
INVARIANT IcmpTypeOK
INVARIANT TeardownNullsHandles
