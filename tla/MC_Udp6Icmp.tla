------------------------------ MODULE MC_Udp6Icmp ------------------------------
(* Model-checking instance of Udp6Icmp: two sockets, one local address,   *)
(* one routable peer, one explicit and one ephemeral port, one packet size *)
(* on each side.                                                          *)
EXTENDS Udp6Icmp, TLC, FiniteSets

CONSTANTS s1, s2, a1, p1

MaxEndPoints == 3

MCSockets == {s1, s2}
MCLocalAddrs == {a1}
MCPeerAddrs == {p1}

MaxPendingIcmp == 1

EndPointBound ==
  /\ Len(eps) <= MaxEndPoints
  /\ Cardinality(icmpPending) <= MaxPendingIcmp

\* m_errno is never read by the model's actions.
StateView == <<eps, endPoint, shutdownSend, shutdownRecv, connected,
               defaultPeer, queue, rxAvailable, rcvBufSize, out, icmpVars>>

Symmetry == Permutations(MCSockets)
=============================================================================
