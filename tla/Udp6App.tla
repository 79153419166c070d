------------------------------- MODULE Udp6App -------------------------------
(***************************************************************************)
(* The two applications over the datagram socket: Udp6Client sends        *)
(* sequence-numbered datagrams of growing size to one peer, Udp6Server     *)
(* counts what its socket delivers.  Between them the network may deliver  *)
(* datagrams in any order or lose them.                                    *)
(*                                                                         *)
(* The client's socket is bound and connected by StartApplication and     *)
(* never shut down, so of the checks in Udp6SocketImpl::DoSendTo only the *)
(* size check and the route lookup can fail a Send.  The server's socket  *)
(* is bound once and never shut down, so its ForwardUp only applies the   *)
(* receive-buffer check and then notifies the receive callback, which     *)
(* HandleRead drains with RecvFrom(maxSize = 2^32-1) in the same step.     *)
(*                                                                         *)
(* Sizes are uint32_t in the code; they are kept modulo SizeModulus, a    *)
(* scaled 2^32 chosen above TxAvailable so that the order of the ceiling, *)
(* the header size and the wrap-around is the code's.                      *)
(*                                                                         *)
(* Application::Start and Application::Stop schedule StartApplication and *)
(* StopApplication once each (Stop only when a stop time is set); they     *)
(* are the environment here.                                               *)
(***************************************************************************)
EXTENDS Naturals, FiniteSets

CONSTANTS
  Count,          \* m_count, attribute MaxPackets
  PacketSize,     \* m_size, attribute PacketSize
  Incremental,    \* m_incrementalSize, attribute IncrementalSize
  HeaderSize,     \* 8+4, the SeqTsHeader
  TxAvailable,    \* MAX_IPV6_UDP_DATAGRAM_SIZE, Udp6SocketImpl::GetTxAvailable
  SizeModulus,    \* 2^32 for uint32_t, scaled
  ServerRcvBuf    \* the server socket's m_rcvBufSize

ASSUME HeaderSize <= PacketSize /\ PacketSize <= TxAvailable
ASSUME TxAvailable < SizeModulus /\ Incremental < SizeModulus

Sizes == 0..(SizeModulus - 1)
Datagram == [seq : Nat, size : Sizes]

VARIABLES
  cSocket,      \* Udp6Client: m_socket != 0
  cEvent,       \* Udp6Client: m_sendEvent is pending
  sent,         \* Udp6Client: m_sent
  realSize,     \* Udp6Client: m_realSize
  cStarted,     \* StartApplication of the client has run
  cStopSet,     \* the client application has a stop time
  cStopped,     \* StopApplication of the client has run
  net,          \* datagrams in flight from the client to the server
  sSocket,      \* Udp6Server: m_socket != 0
  sCallback,    \* the server socket's receive callback is HandleRead
  sQueue,       \* the server socket's m_deliveryQueue, as a set
  sRx,          \* the server socket's m_rxAvailable
  received,     \* Udp6Server: m_received
  seen,         \* sequence numbers given to m_lossCounter.NotifyReceived
  routable      \* RouteOutput at the client finds a route to m_peerAddress

clientVars == <<cSocket, cEvent, sent, realSize, cStarted, cStopSet, cStopped>>
serverVars == <<sSocket, sCallback, sQueue, sRx, received, seen>>
vars == <<clientVars, net, serverVars, routable>>

-----------------------------------------------------------------------------
(* uint32_t arithmetic, scaled. *)
Plus(a, b) == (a + b) % SizeModulus
Minus(a, b) == (a - b + SizeModulus) % SizeModulus

\* The packet Udp6Client::Send builds: Create<Packet>(m_realSize-(8+4)),
\* then AddHeader (seqTs).  Its size is the uint32_t sum of the two.
ClientPacket(seq) ==
  [seq |-> seq, size |-> Plus(Minus(realSize, HeaderSize), HeaderSize)]

\* Send on the client's connected socket: Udp6SocketImpl::Send, DoSend and
\* DoSendTo succeed when the packet fits the datagram ceiling and a route
\* to the peer exists (m_shutdownSend stays false for the client).
SocketSendOk(p) == p.size <= TxAvailable /\ routable

\* HandleRead: RecvFrom in a loop until the queue is empty; each packet of
\* non-zero size is handed to the loss counter and counted.
HandleRead(q) ==
  LET counted == {p \in q : p.size > 0}
  IN  /\ received' = received + Cardinality(counted)
      /\ seen' = seen \cup {p.seq : p \in counted}
      /\ sQueue' = {}
      /\ sRx' = 0

-----------------------------------------------------------------------------
\* The Udp6Client constructor: m_sent, m_socket and m_sendEvent are reset;
\* m_realSize is not initialised there and holds anything.
ClientInit ==
  /\ cSocket = FALSE /\ cEvent = FALSE /\ sent = 0
  /\ realSize \in Sizes

\* The Udp6Server constructor: m_received = 0 and an empty loss counter;
\* no socket yet, so no callback, queue or buffered bytes.
ServerInit ==
  /\ sSocket = FALSE /\ sCallback = FALSE
  /\ sQueue = {} /\ sRx = 0
  /\ received = 0 /\ seen = {}

\* Neither application has started; a stop time may or may not be set.
Init ==
  /\ ClientInit /\ ServerInit
  /\ cStarted = FALSE /\ cStopSet \in BOOLEAN /\ cStopped = FALSE
  /\ net = {}
  /\ routable \in BOOLEAN   \* static routes: fixed for the whole run

\* Udp6Client::StartApplication: create, Bind () and Connect the socket
\* and set m_realSize the first time; schedule Send now.
ClientStart ==
  /\ ~cStarted
  /\ cStarted' = TRUE
  /\ IF ~cSocket THEN cSocket' = TRUE /\ realSize' = PacketSize
                 ELSE UNCHANGED <<cSocket, realSize>>
  /\ cEvent' = TRUE
  /\ UNCHANGED <<sent, cStopSet, cStopped, net, serverVars, routable>>

\* Udp6Client::StopApplication: cancel the pending Send.
ClientStop ==
  /\ cStopSet /\ ~cStopped
  /\ cStopped' = TRUE
  /\ cEvent' = FALSE
  /\ UNCHANGED <<cSocket, sent, realSize, cStarted, cStopSet, net, serverVars, routable>>

\* Mutant: m_realSize grows only after a successful send.
ClientSendGrowOnSuccess ==
  LET p  == ClientPacket(sent)
      ok == SocketSendOk(p)
      n  == IF ok THEN sent + 1 ELSE sent
  IN  /\ cEvent
      /\ net' = IF ok THEN net \cup {p} ELSE net
      /\ sent' = n
      /\ realSize' = IF ok THEN Plus(realSize, Incremental) ELSE realSize
      /\ cEvent' = (n < Count)
      /\ UNCHANGED <<cSocket, cStarted, cStopSet, cStopped, serverVars, routable>>

\* Mutant: the sequence number is taken after m_sent is incremented.
ClientSendSeqAfterIncrement ==
  LET ok == SocketSendOk(ClientPacket(sent))
      n  == IF ok THEN sent + 1 ELSE sent
  IN  /\ cEvent
      /\ net' = IF ok THEN net \cup {ClientPacket(n)} ELSE net
      /\ sent' = n
      /\ realSize' = Plus(realSize, Incremental)
      /\ cEvent' = (n < Count)
      /\ UNCHANGED <<cSocket, cStarted, cStopSet, cStopped, serverVars, routable>>

\* Udp6Client::Send, the scheduled event: send the packet with sequence
\* number m_sent, count it if the socket accepted it, grow m_realSize and
\* reschedule while m_sent < m_count.
ClientSend ==
  LET p  == ClientPacket(sent)
      ok == SocketSendOk(p)
      n  == IF ok THEN sent + 1 ELSE sent
  IN  /\ cEvent
      /\ net' = IF ok THEN net \cup {p} ELSE net
      /\ sent' = n
      /\ realSize' = Plus(realSize, Incremental)
      /\ cEvent' = (n < Count)
      /\ UNCHANGED <<cSocket, cStarted, cStopSet, cStopped, serverVars, routable>>

\* The network loses a datagram.
Lose(p) ==
  /\ net' = net \ {p}
  /\ UNCHANGED <<clientVars, serverVars, routable>>

\* The datagram reaches the server socket's ForwardUp (the server's
\* endpoint is bound to the client's destination port; a datagram sent
\* before the server bound is dropped by Udp6L4Protocol::Receive).  It is
\* queued if it fits the buffer, and NotifyDataRecv runs HandleRead when
\* the callback is set.
Deliver(p) ==
  /\ net' = net \ {p}
  /\ IF sSocket /\ sRx + p.size <= ServerRcvBuf
       THEN IF sCallback
              THEN HandleRead(sQueue \cup {p})
              ELSE /\ sQueue' = sQueue \cup {p} /\ sRx' = sRx + p.size
                   /\ UNCHANGED <<received, seen>>
       ELSE UNCHANGED <<sQueue, sRx, received, seen>>
  /\ UNCHANGED <<clientVars, sSocket, sCallback, routable>>

\* Udp6Server::StartApplication: create and Bind (any, m_port) the socket
\* the first time, then set the receive callback.
ServerStart ==
  /\ ~sCallback /\ ~sSocket
  /\ sSocket' = TRUE /\ sCallback' = TRUE
  /\ UNCHANGED <<clientVars, net, sQueue, sRx, received, seen, routable>>

\* Udp6Server::StopApplication: clear the receive callback.
ServerStop ==
  /\ sCallback
  /\ sCallback' = FALSE
  /\ UNCHANGED <<clientVars, net, sSocket, sQueue, sRx, received, seen, routable>>

Next ==
  \/ ClientStart \/ ClientStop \/ ClientSend
  \/ \E p \in net : Lose(p) \/ Deliver(p)
  \/ ServerStart \/ ServerStop

\* The simulator runs every scheduled event that is not cancelled:
\* StartApplication, the pending Send and, if a stop time is set,
\* StopApplication.
Fairness ==
  /\ WF_vars(ClientStart)
  /\ WF_vars(ClientSend)
  /\ WF_vars(ClientStop)

Spec == Init /\ [][Next]_vars /\ Fairness

-----------------------------------------------------------------------------
\* The pair implements SeqChannel: every step of the client, the network
\* and the server is a step of the abstract channel or leaves m_sent, the
\* numbers given to the loss counter and m_received alone.  So Send hands
\* out sequence numbers one at a time and at most MaxPackets of them,
\* although a failed send reuses its number; and HandleRead counts each
\* datagram once and only numbers the client used, although the network
\* reorders and loses them.
Abstract == INSTANCE SeqChannel WITH sent <- sent, seen <- seen, received <- received
RefinesSeqChannel == Abstract!Spec

\* The payload the client builds, m_realSize-(8+4), never wraps below
\* zero: a Send is pending only with m_realSize at least the header size,
\* as the PacketSize attribute's minimum of 12 bytes intends.
PayloadNotWrapped == cEvent => realSize >= HeaderSize

\* When a route to the peer exists, the client eventually stops scheduling
\* Send: the pending event is eventually gone for good.  A failed send does
\* not advance m_sent, but m_realSize keeps growing through failures until
\* a size fits the datagram ceiling again, so m_sent reaches m_count.
\* Without a route every Send fails and Send reschedules itself forever;
\* only a StopApplication scheduled after StartApplication ends it (one
\* scheduled before it cancels nothing).
ClientEventuallyIdle == routable => <>[](~cEvent)
=============================================================================
