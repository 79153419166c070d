CONSTANTS
  e1 = e1  e2 = e2  g1 = g1  g2 = g2  ll = ll
  an = an  ar = ar  ah = ah  sn = sn  mdns = mdns  None = None
  Ends <- MCEnds
  Peer <- MCPeer
  Addrs <- MCAddrs
  LinkLocal = {ll}
  AllNodes = an
  AllRouters = ar
  AllHosts = ah
  Solicited = {sn}
  LinkScope <- MCRecognised
  IntoTunnel <- MCIntoTunnel
  HopLimits = {0, 1, 64}
SPECIFICATION Spec
PROPERTY LoopedPacketExpires
