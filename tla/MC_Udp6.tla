------------------------------- MODULE MC_Udp6 -------------------------------
(* Model-checking instance of Udp6: two sockets, one local address, one    *)
(* routable and one unroutable peer, one explicit and one ephemeral port,  *)
(* packet sizes on both sides of the datagram ceiling and of the buffer.   *)
EXTENDS Udp6, TLC

CONSTANTS s1, s2, a1, p1, p2

\* Endpoints beyond this many are not explored (only repeated binds of one
\* socket, outside the first-bind contract, allocate more than one each).
MaxEndPoints == 3

MCSockets == {s1, s2}
MCLocalAddrs == {a1}
MCPeerAddrs == {p1, p2}
MCRoutable == {p1}

EndPointBound == Len(eps) <= MaxEndPoints

\* m_errno is never read by the model's actions, so states that differ
\* only in it behave alike (no invariant mentions it).
StateView == <<eps, endPoint, shutdownSend, shutdownRecv, connected,
               defaultPeer, queue, rxAvailable, rcvBufSize, out>>

Symmetry == Permutations(MCSockets)
=============================================================================
