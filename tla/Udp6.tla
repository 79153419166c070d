-------------------------------- MODULE Udp6 --------------------------------
(***************************************************************************)
(* The UDP-over-IPv6 transport of one node: Udp6L4Protocol, the endpoint  *)
(* demultiplexer it owns (Ipv6EndPointDemux), the endpoints                *)
(* (Ipv6EndPoint) and the datagram sockets (Udp6SocketImpl) bound to them. *)
(*                                                                         *)
(* Endpoints are kept in allocation order, the order in which the demux   *)
(* list holds them.  An endpoint's "owner" is the socket whose callbacks   *)
(* FinishBind registered on it: the socket that ForwardUp delivers to.     *)
(* The code never calls Ipv6EndPoint::SetPeer, so every endpoint keeps the *)
(* wildcard peer and the peer half of the 4-tuple match is always true.    *)
(* The code never deallocates an endpoint while the protocol runs: an      *)
(* endpoint's callbacks hold a reference to its socket, so the socket      *)
(* destructor, the only DeAllocate caller, runs only at teardown.          *)
(*                                                                         *)
(* Ipv6EndPointDemux is not among the sources; its Allocate and Lookup     *)
(* operators follow the specification.                                     *)
(***************************************************************************)
EXTENDS Naturals, Sequences, SequencesExt, FiniteSets

CONSTANTS
  Sockets,        \* sockets created by Udp6L4Protocol::CreateSocket
  LocalAddrs,     \* the node's own IPv6 addresses
  PeerAddrs,      \* remote IPv6 addresses
  Routable,       \* remote addresses RouteOutput finds a route to
  RouteSource,    \* the source address of those routes
  AnyAddr,        \* Ipv6Address::GetAny ()
  OtherFamily,    \* an Address that is not an Inet6SocketAddress
  Ports,          \* local ports an application binds to explicitly
  Ephemeral,      \* the demux's ephemeral port range
  PeerPorts,      \* remote ports
  TxAvailable,    \* MAX_IPV6_UDP_DATAGRAM_SIZE (GetTxAvailable)
  TxSizes,        \* sizes of packets applications send
  RxSizes,        \* sizes of datagrams arriving from the network
  BufSizes,       \* values given to SetRcvBufSize
  DefaultRcvBuf,  \* the RcvBufSize attribute's value at creation
  None,           \* a null pointer / absent value
  OnlyFirstBind   \* caller contract: Bind only on a socket with no endpoint

ASSUME Routable \subseteq PeerAddrs /\ RouteSource \in LocalAddrs
ASSUME Ports \cap Ephemeral = {} /\ 0 \notin Ports \cup Ephemeral
ASSUME DefaultRcvBuf \in BufSizes /\ OnlyFirstBind \in BOOLEAN

VARIABLES
  eps,          \* the demux's endpoints: [localAddr, localPort, owner]
  endPoint,     \* m_endPoint: index into eps, 0 for null
  shutdownSend, \* m_shutdownSend
  shutdownRecv, \* m_shutdownRecv
  connected,    \* m_connected
  defaultPeer,  \* m_defaultAddress, m_defaultPort (None before Connect)
  errno,        \* m_errno
  queue,        \* m_deliveryQueue: [size, toPort] per packet
  rxAvailable,  \* m_rxAvailable
  rcvBufSize,   \* m_rcvBufSize
  out           \* the datagram handed to Ipv6L3Protocol::Send in this step

sockVars == <<endPoint, shutdownSend, shutdownRecv, connected, defaultPeer,
              errno, queue, rxAvailable, rcvBufSize>>
vars == <<eps, sockVars, out>>

EndPointRec == [localAddr : LocalAddrs \cup {AnyAddr},
                localPort : Ports \cup Ephemeral, owner : Sockets]
Datagram == [sock : Sockets, src : LocalAddrs, dst : PeerAddrs,
             sport : Ports \cup Ephemeral, dport : PeerPorts, size : TxSizes]
QueueEntry == [size : RxSizes, toPort : Ports \cup Ephemeral]

\* Ipv6EndPoint (addr, port): the local binding; the peer starts as the
\* wildcard with port 0 and is never set (left out, it always matches).
\* owner is the socket whose FinishBind sets the three callbacks.
NewEndPoint(a, p, s) == [localAddr |-> a, localPort |-> p, owner |-> s]

-----------------------------------------------------------------------------
(* Ipv6EndPointDemux (from the specification)                              *)

\* Ports of the ephemeral range that no endpoint uses.
FreeEphemeral(e) == {p \in Ephemeral : \A i \in 1 .. Len(e) : e[i].localPort # p}

\* An endpoint with exactly this local binding and the wildcard peer exists.
BindingTaken(e, a, p) ==
  \E i \in 1 .. Len(e) : e[i].localAddr = a /\ e[i].localPort = p

\* The endpoints Allocate (addr, port) may create: none when the binding
\* is taken; for port 0, one per free ephemeral port (none if exhausted).
Allocations(e, a, p, s) ==
  IF p = 0
    THEN {NewEndPoint(a, q, s) : q \in FreeEphemeral(e)}
    ELSE IF BindingTaken(e, a, p) THEN {}
         ELSE {NewEndPoint(a, p, s)}

\* Mutant: Lookup matches on the address alone.
MatchesAnyPort(ep, dst, dport) ==
  ep.localAddr \in {AnyAddr, dst}

\* Lookup's match: local address wildcard or the destination, local port
\* the destination port (the peer half always matches, see above).
Matches(ep, dst, dport) ==
  ep.localPort = dport /\ ep.localAddr \in {AnyAddr, dst}

\* Lookup: the indices of all matching endpoints, in list order.
Lookup(e, dst, dport) ==
  SelectSeq([i \in 1 .. Len(e) |-> i], LAMBDA i : Matches(e[i], dst, dport))

-----------------------------------------------------------------------------
(* Helpers of Udp6SocketImpl                                               *)

SumSizes(q) == FoldLeft(LAMBDA acc, x : acc + x.size, 0, q)

\* Udp6L4Protocol::Send: the UDP header carries the two ports and the
\* datagram goes to Ipv6L3Protocol::Send from saddr to daddr.
UdpDatagram(s, saddr, daddr, sport, dport, size) ==
  [sock |-> s, src |-> saddr, dst |-> daddr, sport |-> sport, dport |-> dport,
   size |-> size]

\* Mutant: the datagram always leaves from the endpoint's local address,
\* the wildcard included, without asking the routing protocol.
SendAfterBindFromEndpointAddr(s, size, dest, dport, e, ep) ==
  LET err == CASE shutdownSend[s]       -> "SHUTDOWN"
               [] size > TxAvailable     -> "MSGSIZE"
               [] OTHER                  -> "NOTERROR"
  IN  /\ eps' = e
      /\ endPoint' = [endPoint EXCEPT ![s] = ep]
      /\ errno' = IF err = "NOTERROR" THEN errno ELSE [errno EXCEPT ![s] = err]
      /\ out' = IF err = "NOTERROR"
                  THEN UdpDatagram(s, e[ep].localAddr, dest, e[ep].localPort, dport, size)
                  ELSE None

\* The rest of DoSendTo (dest, port) once socket s has endpoint ep of list
\* e: the shutdown and size checks, then the source-address choice.
SendAfterBind(s, size, dest, dport, e, ep) ==
  LET src == IF e[ep].localAddr # AnyAddr THEN e[ep].localAddr ELSE RouteSource
      err == CASE shutdownSend[s]                        -> "SHUTDOWN"
               [] size > TxAvailable                      -> "MSGSIZE"
               [] e[ep].localAddr = AnyAddr /\ dest \notin Routable -> "NOROUTETOHOST"
               [] OTHER                                   -> "NOTERROR"
  IN  /\ eps' = e
      /\ endPoint' = [endPoint EXCEPT ![s] = ep]
      /\ errno' = IF err = "NOTERROR" THEN errno ELSE [errno EXCEPT ![s] = err]
      /\ out' = IF err = "NOTERROR"
                  THEN UdpDatagram(s, src, dest, e[ep].localPort, dport, size)
                  ELSE None

\* DoSendTo (p, dest, port): bind lazily with Bind () if there is no
\* endpoint; a failed Bind returns -1 with m_endPoint still null.
DoSendTo(s, size, dest, dport) ==
  /\ UNCHANGED <<shutdownSend, shutdownRecv, connected, defaultPeer,
                 queue, rxAvailable, rcvBufSize>>
  /\ IF endPoint[s] # 0
       THEN SendAfterBind(s, size, dest, dport, eps, endPoint[s])
       ELSE \/ /\ Allocations(eps, AnyAddr, 0, s) = {}
               /\ UNCHANGED <<eps, endPoint, errno>> /\ out' = None
            \/ \E new \in Allocations(eps, AnyAddr, 0, s) :
                 SendAfterBind(s, size, dest, dport, Append(eps, new), Len(eps) + 1)

\* m_endPoint = Allocate (...); FinishBind (): a failed allocation leaves
\* m_endPoint null (whatever it held before) and FinishBind returns -1.
AllocateAndFinish(s, a, p) ==
  \/ /\ Allocations(eps, a, p, s) = {}
     /\ endPoint' = [endPoint EXCEPT ![s] = 0]
     /\ UNCHANGED eps
  \/ \E new \in Allocations(eps, a, p, s) :
       /\ eps' = Append(eps, new)
       /\ endPoint' = [endPoint EXCEPT ![s] = Len(eps) + 1]

\* Udp6SocketImpl::ForwardUp on socket s, over the (queue, rxAvailable)
\* pair st: dropped after ShutdownRecv or when the buffer would overflow.
ForwardUp(st, s, pkt) ==
  IF shutdownRecv[s] \/ st.rx[s] + pkt.size > rcvBufSize[s] THEN st
  ELSE [q  |-> [st.q EXCEPT ![s] = Append(@, pkt)],
        rx |-> [st.rx EXCEPT ![s] = @ + pkt.size]]

\* Ipv6EndPoint::ForwardUp of endpoint i: its rx callback, set by
\* FinishBind, is its owner's ForwardUp.
EndPointForwardUp(st, i, pkt) == ForwardUp(st, eps[i].owner, pkt)

-----------------------------------------------------------------------------
Init ==
  /\ eps = << >>
  /\ endPoint = [s \in Sockets |-> 0]
  /\ shutdownSend = [s \in Sockets |-> FALSE]
  /\ shutdownRecv = [s \in Sockets |-> FALSE]
  /\ connected = [s \in Sockets |-> FALSE]
  /\ defaultPeer = [s \in Sockets |-> None]
  /\ errno = [s \in Sockets |-> "NOTERROR"]
  /\ queue = [s \in Sockets |-> << >>]
  /\ rxAvailable = [s \in Sockets |-> 0]
  /\ rcvBufSize = [s \in Sockets |-> DefaultRcvBuf]
  /\ out = None

\* Bind (): an ephemeral port on the wildcard address.
BindAny(s) ==
  /\ OnlyFirstBind => endPoint[s] = 0
  /\ AllocateAndFinish(s, AnyAddr, 0)
  /\ out' = None
  /\ UNCHANGED <<shutdownSend, shutdownRecv, connected, defaultPeer, errno,
                 queue, rxAvailable, rcvBufSize>>

\* Bind (address): ERROR_INVAL for another family; otherwise the Allocate
\* overload chosen by which of address and port are wildcards.
Bind(s, a, p) ==
  /\ OnlyFirstBind => endPoint[s] = 0
  /\ IF a = OtherFamily
       THEN errno' = [errno EXCEPT ![s] = "INVAL"] /\ UNCHANGED <<eps, endPoint>>
       ELSE AllocateAndFinish(s, a, p) /\ UNCHANGED errno
  /\ out' = None
  /\ UNCHANGED <<shutdownSend, shutdownRecv, connected, defaultPeer,
                 queue, rxAvailable, rcvBufSize>>

\* Mutant: BindToNetDevice binds again even when an endpoint exists.
BindToNetDeviceRebind(s) ==
  /\ AllocateAndFinish(s, AnyAddr, 0)
  /\ out' = None
  /\ UNCHANGED <<shutdownSend, shutdownRecv, connected, defaultPeer, errno,
                 queue, rxAvailable, rcvBufSize>>

\* BindToNetDevice: binds with Bind () first if there is no endpoint (the
\* device itself is not modelled: Lookup does not consult it).
BindToNetDevice(s) ==
  /\ IF endPoint[s] = 0 THEN AllocateAndFinish(s, AnyAddr, 0)
                        ELSE UNCHANGED <<eps, endPoint>>
  /\ out' = None
  /\ UNCHANGED <<shutdownSend, shutdownRecv, connected, defaultPeer, errno,
                 queue, rxAvailable, rcvBufSize>>

ShutdownSend(s) ==
  /\ shutdownSend' = [shutdownSend EXCEPT ![s] = TRUE]
  /\ out' = None
  /\ UNCHANGED <<eps, endPoint, shutdownRecv, connected, defaultPeer, errno,
                 queue, rxAvailable, rcvBufSize>>

ShutdownRecv(s) ==
  /\ shutdownRecv' = [shutdownRecv EXCEPT ![s] = TRUE]
  /\ out' = None
  /\ UNCHANGED <<eps, endPoint, shutdownSend, connected, defaultPeer, errno,
                 queue, rxAvailable, rcvBufSize>>

\* Close: ERROR_BADF when both directions are already shut down.
Close(s) ==
  /\ IF shutdownSend[s] /\ shutdownRecv[s]
       THEN /\ errno' = [errno EXCEPT ![s] = "BADF"]
            /\ UNCHANGED <<shutdownSend, shutdownRecv>>
       ELSE /\ shutdownSend' = [shutdownSend EXCEPT ![s] = TRUE]
            /\ shutdownRecv' = [shutdownRecv EXCEPT ![s] = TRUE]
            /\ UNCHANGED errno
  /\ out' = None
  /\ UNCHANGED <<eps, endPoint, connected, defaultPeer, queue, rxAvailable,
                 rcvBufSize>>

\* Connect: records the default peer; no endpoint is touched.
Connect(s, a, p) ==
  /\ defaultPeer' = [defaultPeer EXCEPT ![s] = [addr |-> a, port |-> p]]
  /\ connected' = [connected EXCEPT ![s] = TRUE]
  /\ out' = None
  /\ UNCHANGED <<eps, endPoint, shutdownSend, shutdownRecv, errno, queue,
                 rxAvailable, rcvBufSize>>

Listen(s) ==
  /\ errno' = [errno EXCEPT ![s] = "OPNOTSUPP"]
  /\ out' = None
  /\ UNCHANGED <<eps, endPoint, shutdownSend, shutdownRecv, connected,
                 defaultPeer, queue, rxAvailable, rcvBufSize>>

\* Send: ERROR_NOTCONN unless connected, else DoSend to the default peer.
Send(s, size) ==
  IF ~connected[s]
    THEN /\ errno' = [errno EXCEPT ![s] = "NOTCONN"]
         /\ out' = None
         /\ UNCHANGED <<eps, endPoint, shutdownSend, shutdownRecv, connected,
                        defaultPeer, queue, rxAvailable, rcvBufSize>>
    ELSE DoSendTo(s, size, defaultPeer[s].addr, defaultPeer[s].port)

\* SendTo (p, flags, address): DoSendTo to the given address.
SendTo(s, size, a, p) == DoSendTo(s, size, a, p)

\* Mutant: m_rxAvailable is decremented even when the front packet is
\* too large to be returned.
RecvAlwaysDecrement(s, maxSize) ==
  /\ IF queue[s] = << >>
       THEN errno' = [errno EXCEPT ![s] = "AGAIN"] /\ UNCHANGED <<queue, rxAvailable>>
       ELSE /\ rxAvailable' = [rxAvailable EXCEPT ![s] = @ - Head(queue[s]).size]
            /\ IF Head(queue[s]).size <= maxSize
                 THEN queue' = [queue EXCEPT ![s] = Tail(@)]
                 ELSE UNCHANGED queue
            /\ UNCHANGED errno
  /\ out' = None
  /\ UNCHANGED <<eps, endPoint, shutdownSend, shutdownRecv, connected,
                 defaultPeer, rcvBufSize>>

\* Recv / RecvFrom: ERROR_AGAIN on an empty queue; the front packet is
\* dequeued only if it fits maxSize, otherwise nothing changes.
Recv(s, maxSize) ==
  /\ IF queue[s] = << >>
       THEN errno' = [errno EXCEPT ![s] = "AGAIN"] /\ UNCHANGED <<queue, rxAvailable>>
       ELSE /\ IF Head(queue[s]).size <= maxSize
                 THEN /\ queue' = [queue EXCEPT ![s] = Tail(@)]
                      /\ rxAvailable' = [rxAvailable EXCEPT ![s] = @ - Head(queue[s]).size]
                 ELSE UNCHANGED <<queue, rxAvailable>>
            /\ UNCHANGED errno
  /\ out' = None
  /\ UNCHANGED <<eps, endPoint, shutdownSend, shutdownRecv, connected,
                 defaultPeer, rcvBufSize>>

SetRcvBufSize(s, n) ==
  /\ rcvBufSize' = [rcvBufSize EXCEPT ![s] = n]
  /\ out' = None
  /\ UNCHANGED <<eps, endPoint, shutdownSend, shutdownRecv, connected,
                 defaultPeer, errno, queue, rxAvailable>>

\* Udp6L4Protocol::Receive: a datagram from src:sport to dst:dport.  A bad
\* checksum or no matching endpoint drops it; otherwise each matching
\* endpoint, in list order, forwards a copy to its owner's ForwardUp.
Receive(src, sport, dst, dport, size, checksumOk) ==
  LET pkt  == [size |-> size, toPort |-> dport]
      st0  == [q |-> queue, rx |-> rxAvailable]
      st1  == FoldLeft(LAMBDA st, i : EndPointForwardUp(st, i, pkt), st0,
                       Lookup(eps, dst, dport))
  IN  /\ IF checksumOk
           THEN queue' = st1.q /\ rxAvailable' = st1.rx
           ELSE UNCHANGED <<queue, rxAvailable>>
      /\ out' = None
      /\ UNCHANGED <<eps, endPoint, shutdownSend, shutdownRecv, connected,
                     defaultPeer, errno, rcvBufSize>>

Next ==
  \/ \E s \in Sockets :
       \/ BindAny(s)
       \/ \E a \in LocalAddrs \cup {AnyAddr, OtherFamily}, p \in Ports \cup {0} : Bind(s, a, p)
       \/ BindToNetDevice(s)
       \/ ShutdownSend(s) \/ ShutdownRecv(s) \/ Close(s) \/ Listen(s)
       \/ \E a \in PeerAddrs, p \in PeerPorts : Connect(s, a, p)
       \/ \E size \in TxSizes : Send(s, size)
       \/ \E size \in TxSizes, a \in PeerAddrs, p \in PeerPorts : SendTo(s, size, a, p)
       \/ \E m \in RxSizes : Recv(s, m)
       \/ \E n \in BufSizes : SetRcvBufSize(s, n)
  \/ \E src \in PeerAddrs, sport \in PeerPorts, dst \in LocalAddrs,
        dport \in Ports \cup Ephemeral, size \in RxSizes, ok \in BOOLEAN :
       Receive(src, sport, dst, dport, size, ok)

Spec == Init /\ [][Next]_vars

-----------------------------------------------------------------------------
(* Properties                                                              *)

TypeOK ==
  /\ eps \in Seq(EndPointRec)
  /\ endPoint \in [Sockets -> 0 .. Len(eps)]
  /\ shutdownSend \in [Sockets -> BOOLEAN]
  /\ shutdownRecv \in [Sockets -> BOOLEAN]
  /\ connected \in [Sockets -> BOOLEAN]
  /\ defaultPeer \in [Sockets -> [addr : PeerAddrs, port : PeerPorts] \cup {None}]
  /\ queue \in [Sockets -> Seq(QueueEntry)]
  /\ rxAvailable \in [Sockets -> Nat]
  /\ rcvBufSize \in [Sockets -> BufSizes]
  /\ out \in Datagram \cup {None}

\* m_rxAvailable, kept apart from the queue by ForwardUp and Recv, always
\* equals the bytes actually queued.
RxAvailableMatchesQueue ==
  \A s \in Sockets : rxAvailable[s] = SumSizes(queue[s])

\* Endpoint ownership: a socket's m_endPoint is an endpoint whose callbacks
\* lead back to that socket, and every endpoint in the demux is the
\* m_endPoint of the socket its callbacks deliver to (none is orphaned).
EndpointOwnership ==
  /\ \A s \in Sockets : endPoint[s] # 0 => eps[endPoint[s]].owner = s
  /\ \A i \in 1 .. Len(eps) : endPoint[eps[i].owner] = i

\* Every packet in a socket's queue was addressed to the port the socket
\* is bound to now.
DeliveredToBoundPort ==
  \A s \in Sockets : \A k \in 1 .. Len(queue[s]) :
    endPoint[s] # 0 /\ queue[s][k].toPort = eps[endPoint[s]].localPort

\* The spec: a connected socket sends every datagram to its default peer.
ConnectedSendsToPeer ==
  [][out' # None /\ connected[out'.sock] =>
       /\ out'.dst = defaultPeer[out'.sock].addr
       /\ out'.dport = defaultPeer[out'.sock].port]_vars

\* The spec: a send that fails because no route leads to the destination
\* has no partial side effect: the step in which a socket's m_errno
\* becomes ERROR_NOROUTETOHOST leaves the demux and every socket's
\* endpoint handle as they were (the lazy Bind () of DoSendTo included).
NoRouteNoSideEffect ==
  [][\A s \in Sockets :
       errno'[s] = "NOROUTETOHOST" /\ errno[s] # "NOROUTETOHOST" =>
         UNCHANGED <<eps, endPoint>>]_vars

\* The spec: the bytes queued on a socket never exceed its configured
\* receive-buffer size.
QueueWithinRcvBuf ==
  \A s \in Sockets : rxAvailable[s] <= rcvBufSize[s]

=============================================================================
