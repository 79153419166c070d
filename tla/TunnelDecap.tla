----------------------------- MODULE TunnelDecap -----------------------------
(***************************************************************************)
(* Decapsulation at the ends of IPv6-in-IPv6 tunnels:                     *)
(* Ipv6TunnelL4Protocol::Receive strips the outer header, drops the inner  *)
(* packet if its addresses are link-local, tags it with hop limit          *)
(* GetHopLimit()-1 in a uint8_t SocketIpTtlTag, routes it with the static  *)
(* routing's RouteOutput and hands it to Ipv6L3Protocol::Send.             *)
(*                                                                         *)
(* When the route leads into a tunnel device, the device encapsulates the  *)
(* packet and Ipv6TunnelL4Protocol::SendMessage sends it to the tunnel's   *)
(* remote end, where Receive runs again.  Ipv6L3Protocol::Send builds the  *)
(* inner header with the tag's hop limit and, for a locally sent packet,   *)
(* does not check it; the outer path only decrements the outer header.     *)
(* Those two collaborators are not among the sources and are taken as      *)
(* they behave in ns-3.13.                                                 *)
(*                                                                         *)
(* One encapsulated packet is followed at a time.                          *)
(***************************************************************************)
EXTENDS Naturals

CONSTANTS
  Ends,          \* nodes running Ipv6TunnelL4Protocol
  Peer,          \* Peer[n]: the remote end of the tunnel n's routes lead into
  Addrs,         \* inner source and destination addresses
  LinkLocal,     \* addresses with IsLinkLocal (fe80::/64)
  AllNodes,      \* ff02::1, IsAllNodesMulticast
  AllRouters,    \* ff02::2, IsAllRoutersMulticast
  AllHosts,      \* ff02::3, IsAllHostsMulticast
  Solicited,     \* ff02::1:ffXX:XXXX, IsSolicitedMulticast
  LinkScope,     \* every address of link-local scope, multicast included
  IntoTunnel,    \* pairs <<n, d>>: RouteOutput at n for d picks the tunnel
  HopLimits,     \* hop limits of the inner headers that arrive
  None

ASSUME Peer \in [Ends -> Ends] /\ IntoTunnel \subseteq Ends \X Addrs
ASSUME LinkLocal \cup {AllNodes, AllRouters, AllHosts} \cup Solicited \subseteq LinkScope
ASSUME HopLimits \subseteq 0..255

VARIABLES
  pkt,   \* the encapsulated packet about to be received, or None
  out    \* the inner packet Receive re-sent in this step, or None

vars == <<pkt, out>>

-----------------------------------------------------------------------------
\* The loop-prevention test of Receive: inner packets it drops.
LoopPreventionDrop(p) ==
  \/ p.src \in LinkLocal
  \/ p.dst \in LinkLocal
  \/ p.dst = AllNodes
  \/ p.dst = AllRouters
  \/ p.dst = AllHosts
  \/ p.dst \in Solicited

\* tag.SetTtl (innerHeader.GetHopLimit() - 1): uint8_t arithmetic.
TagHopLimit(h) == (h + 255) % 256

\* SendMessage of the tunnel device n leads into: the packet, encapsulated,
\* is sent to the remote end, which receives the inner header as built.
SendMessage(n, p) == [p EXCEPT !.at = Peer[n]]

-----------------------------------------------------------------------------
Init ==
  /\ pkt = None
  /\ out = None

\* An encapsulated packet reaches a tunnel end from outside the loop.
Arrive(n, s, d, h) ==
  /\ pkt = None
  /\ pkt' = [at |-> n, src |-> s, dst |-> d, hop |-> h]
  /\ out' = None

\* Ipv6TunnelL4Protocol::Receive at pkt.at.
Receive ==
  LET n == pkt.at
      q == [pkt EXCEPT !.hop = TagHopLimit(pkt.hop)]
  IN  /\ pkt # None
      /\ IF LoopPreventionDrop(pkt)
           THEN pkt' = None /\ out' = None
           ELSE /\ out' = [src |-> q.src, dst |-> q.dst, hop |-> q.hop,
                           inHop |-> pkt.hop]
                /\ pkt' = IF <<n, q.dst>> \in IntoTunnel
                            THEN SendMessage(n, q) ELSE None

Next ==
  \/ \E n \in Ends, s, d \in Addrs, h \in HopLimits : Arrive(n, s, d, h)
  \/ Receive

\* A packet sent to a tunnel end is received there: the simulator runs the
\* scheduled receive event.
Fairness == WF_vars(Receive)

Spec == Init /\ [][Next]_vars /\ Fairness

-----------------------------------------------------------------------------
\* Decapsulation never re-sends a packet of link-local scope: its inner
\* source is not link-local and its destination is neither link-local nor
\* a link-local multicast group (spec: a tunnel packet whose inner
\* destination is a link-local multicast address yields zero forwarded
\* packets).
LinkScopeNotForwarded ==
  out # None => out.src \notin LinkLocal /\ out.dst \notin LinkScope

\* A packet caught in a loop of tunnels eventually leaves it: each
\* decapsulation lowers the hop limit it tags (the "Prevent infinite
\* loop" step of Receive), so the packet eventually expires or is
\* routed out of the tunnels.
LoopedPacketExpires == pkt # None ~> pkt = None
=============================================================================
