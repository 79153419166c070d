--------------------------- MODULE MC_TunnelDecap ---------------------------
(* Two tunnel ends whose routes for the global destination lead into each *)
(* other's tunnel: a routing loop through the tunnels.                     *)
EXTENDS TunnelDecap

CONSTANTS e1, e2,   \* tunnel ends
          g1, g2,   \* global unicast addresses
          ll,       \* a link-local unicast address, fe80::1
          an, ar, ah, \* ff02::1, ff02::2, ff02::3
          sn,       \* a solicited-node group, ff02::1:ff00:1
          mdns      \* another link-local multicast group, ff02::fb

MCEnds == {e1, e2}
MCPeer == [n \in MCEnds |-> IF n = e1 THEN e2 ELSE e1]
MCAddrs == {g1, g2, ll, an, ar, ah, sn, mdns}
\* The groups the code's predicates recognise, and every link-local-scope
\* address.
MCRecognised == {ll, an, ar, ah, sn}
MCLinkScope == {ll, an, ar, ah, sn, mdns}
\* e1 routes g1 into its tunnel, e2 routes g1 back: the loop.  g2 and the
\* multicast groups leave through other interfaces.
MCIntoTunnel == {<<e1, g1>>, <<e2, g1>>, <<e1, mdns>>}
=============================================================================
