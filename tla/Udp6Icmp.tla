------------------------------- MODULE Udp6Icmp -------------------------------
(***************************************************************************)
(* ICMP error delivery and teardown of the UDP-over-IPv6 transport, on top *)
(* of the socket model of Udp6.                                            *)
(*                                                                         *)
(* Udp6L4Protocol::ReceiveIcmp reads the ports of the datagram an ICMP     *)
(* error quotes, picks one endpoint with the demux's SimpleLookup and      *)
(* calls its ForwardIcmp, which schedules DoForwardIcmp for the next       *)
(* event: the socket's ForwardIcmp runs later, after other events.         *)
(*                                                                         *)
(* Udp6L4Protocol::DoDispose deletes the demux; its destructor deletes     *)
(* every endpoint, and each endpoint's destructor runs its destroy         *)
(* callback, Udp6SocketImpl::Destroy of the socket that bound it, which    *)
(* nulls m_endPoint and m_udp.  DoDispose runs from Simulator::Destroy,    *)
(* after which no scheduled event runs: nothing happens after it.          *)
(*                                                                         *)
(* An ICMP error quotes a datagram a local socket sent, or one none sent   *)
(* (a stale or forged error).  sentLog and icmpTo are history: the        *)
(* datagrams sent so far, and which socket the last ICMP notification     *)
(* reached about whose datagram.                                          *)
(***************************************************************************)
EXTENDS Udp6

VARIABLES
  disposed,     \* Udp6L4Protocol::DoDispose has run
  udp,          \* udp[s]: the socket's m_udp is not null
  icmpPending,  \* scheduled DoForwardIcmp events: [ep, about]
  sentLog,      \* [src, sport, sock] of datagrams sent so far
  icmpTo        \* the last socket ForwardIcmp reached: [sock, about]

icmpVars == <<disposed, udp, icmpPending, sentLog, icmpTo>>
allVars == <<vars, icmpVars>>

-----------------------------------------------------------------------------
(* Ipv6EndPointDemux::SimpleLookup (from the specification): the single   *)
(* most specific endpoint for a local address and port, preferring an     *)
(* endpoint bound to the address over a wildcard one and, among equals,   *)
(* the first in the list; 0 if none.                                      *)
SimpleLookup(e, addr, port) ==
  LET exact == SelectInSeq(e, LAMBDA ep : ep.localPort = port /\ ep.localAddr = addr)
  IN  IF exact # 0 THEN exact
      ELSE SelectInSeq(e, LAMBDA ep : ep.localPort = port /\ ep.localAddr = AnyAddr)

\* Mutant: Destroy leaves m_endPoint as it was.
SocketDestroyKeepsHandle(ss) ==
  /\ endPoint' = endPoint
  /\ udp' = [s \in Sockets |-> udp[s] /\ s \notin ss]

\* Udp6SocketImpl::Destroy, run for every socket whose endpoint is deleted.
SocketDestroy(ss) ==
  /\ endPoint' = [s \in Sockets |-> IF s \in ss THEN 0 ELSE endPoint[s]]
  /\ udp' = [s \in Sockets |-> udp[s] /\ s \notin ss]

\* ~Ipv6EndPoint of the endpoints at indices E: the destroy callback of
\* each, set by FinishBind, is Udp6SocketImpl::Destroy of its owner.
EndPointDestroy(E) == SocketDestroy({eps[i].owner : i \in E})

\* Ipv6EndPoint::ForwardIcmp of endpoint i: its icmp callback is set (by
\* FinishBind), so DoForwardIcmp is scheduled with ScheduleNow.
EndPointForwardIcmp(i, about) ==
  icmpPending' = icmpPending \cup {[ep |-> i, about |-> about]}

\* Udp6SocketImpl::ForwardIcmp of socket s: the application's icmp
\* callback, if any, is called; the notification has reached s.
SocketForwardIcmp(s, about) == icmpTo' = [sock |-> s, about |-> about]

-----------------------------------------------------------------------------
IcmpInit ==
  /\ Init
  /\ disposed = FALSE
  /\ udp = [s \in Sockets |-> TRUE]   \* set by CreateSocket through SetUdp
  /\ icmpPending = {}
  /\ sentLog = {}
  /\ icmpTo = None

\* A step of a socket call or of a datagram arriving, as in Udp6; the
\* source address and port of the datagram it sends, if any, join the
\* history with its sender (what an ICMP error quotes of it).
SocketStep ==
  /\ Next
  /\ sentLog' = IF out' # None
                 THEN sentLog \cup {[src |-> out'.src, sport |-> out'.sport,
                                     sock |-> out'.sock]}
                 ELSE sentLog
  /\ UNCHANGED <<disposed, udp, icmpPending, icmpTo>>

\* Mutant: the event is scheduled without checking that an endpoint was
\* found.
ReceiveIcmpNoCheck(src, sport, about) ==
  LET i == SimpleLookup(eps, src, sport)
  IN  /\ EndPointForwardIcmp(i, about)
      /\ out' = None
      /\ UNCHANGED <<eps, endPoint, shutdownSend, shutdownRecv, connected,
                     defaultPeer, errno, queue, rxAvailable, rcvBufSize>>
      /\ UNCHANGED <<disposed, udp, sentLog, icmpTo>>

\* Udp6L4Protocol::ReceiveIcmp for an ICMP error quoting a datagram from
\* src, sport, sent by socket about (None for one no local socket sent):
\* the quoted source address and port select the endpoint, whose
\* ForwardIcmp schedules DoForwardIcmp; no endpoint, no event.
ReceiveIcmp(src, sport, about) ==
  LET i == SimpleLookup(eps, src, sport)
  IN  /\ IF i # 0 THEN EndPointForwardIcmp(i, about) ELSE UNCHANGED icmpPending
      /\ out' = None
      /\ UNCHANGED <<eps, endPoint, shutdownSend, shutdownRecv, connected,
                     defaultPeer, errno, queue, rxAvailable, rcvBufSize>>
      /\ UNCHANGED <<disposed, udp, sentLog, icmpTo>>

\* Ipv6EndPoint::DoForwardIcmp, the scheduled event: the endpoint's icmp
\* callback, the owner's Udp6SocketImpl::ForwardIcmp.
DoForwardIcmp(ev) ==
  /\ icmpPending' = icmpPending \ {ev}
  /\ SocketForwardIcmp(eps[ev.ep].owner, ev.about)
  /\ out' = None
  /\ UNCHANGED <<eps, endPoint, shutdownSend, shutdownRecv, connected,
                 defaultPeer, errno, queue, rxAvailable, rcvBufSize>>
  /\ UNCHANGED <<disposed, udp, sentLog>>

\* Udp6L4Protocol::DoDispose: m_sockets cleared, the demux deleted with
\* every endpoint, each endpoint's destroy callback run, m_node nulled.
\* Scheduled DoForwardIcmp events stay in the queue but never run.
Dispose ==
  /\ disposed' = TRUE
  /\ EndPointDestroy(1 .. Len(eps))
  /\ eps' = << >>
  /\ out' = None
  /\ icmpPending' = {}
  /\ UNCHANGED <<shutdownSend, shutdownRecv, connected, defaultPeer, errno,
                 queue, rxAvailable, rcvBufSize, sentLog, icmpTo>>

IcmpNext ==
  /\ ~disposed
  /\ \/ SocketStep
     \/ \E d \in sentLog : ReceiveIcmp(d.src, d.sport, d.sock)
     \/ \E a \in LocalAddrs, p \in Ports \cup Ephemeral : ReceiveIcmp(a, p, None)
     \/ \E ev \in icmpPending : DoForwardIcmp(ev)
     \/ Dispose

IcmpSpec == IcmpInit /\ [][IcmpNext]_allVars

-----------------------------------------------------------------------------
IcmpTypeOK ==
  /\ TypeOK
  /\ disposed \in BOOLEAN
  /\ udp \in [Sockets -> BOOLEAN]
  /\ icmpPending \subseteq [ep : 1 .. Len(eps), about : Sockets \cup {None}]
  /\ sentLog \subseteq [src : LocalAddrs, sport : Ports \cup Ephemeral, sock : Sockets]
  /\ icmpTo \in [sock : Sockets, about : Sockets \cup {None}] \cup {None}

\* Teardown leaves no socket holding an endpoint: once DoDispose has
\* deleted the demux, every socket's m_endPoint is null (the socket
\* destructor asserts it, and an endpoint must never be read after its
\* destroy notification).  Each endpoint's destroy callback must reach the
\* socket that bound it, so that Udp6SocketImpl::Destroy nulls its handle.
TeardownNullsHandles ==
  disposed => \A s \in Sockets : endPoint[s] = 0

\* An ICMP error about a datagram reaches the socket that sent it: the
\* endpoint SimpleLookup picks for the quoted source address and port
\* belongs to the sender.
IcmpToSender ==
  icmpTo # None /\ icmpTo.about # None => icmpTo.sock = icmpTo.about
=============================================================================
