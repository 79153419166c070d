# TLA+ models of the ns-3.13 UDP6 transport and PMIPv6 tunnel pool

This directory holds TLA+ models of the parts of `src/ns-3.13` that this
repository adds or changes:

- the UDP-over-IPv6 transport: `Udp6L4Protocol`, `Udp6SocketImpl`,
  `Ipv6EndPoint` and the endpoint demultiplexer;
- the PMIPv6 IPv6-in-IPv6 tunnel protocol `Ipv6TunnelL4Protocol`;
- the `Udp6Client` and `Udp6Server` applications over it.

It also holds the TLC configurations that check these models.
`PROJECT.json` links every definition to the source lines it translates.
It also lists the runs, the mutants, the findings and the hazards.

## 1. The system

| Part | Source | State | Operations |
|---|---|---|---|
| Tunnel pool | `pmip6/model/ipv6-tunnel-l4-protocol.cc` | `m_tunnelList`: TunnelNetDevices, each with remote, local and refcount | AddTunnel, RemoveTunnel, ModifyTunnel, GetTunnelDevice, Receive (decapsulation), SendMessage, DoDispose |
| Udp6L4Protocol | `internet/model/udp6-l4-protocol.cc` | the demux (`m_endPoints`), the sockets (`m_sockets`) | Allocate (5 forms), DeAllocate, Receive, ReceiveIcmp, Send, CreateSocket, DoDispose |
| Ipv6EndPointDemux | not in the repository (spec.md §4.2) | the list of endpoints, the ephemeral cursor | Allocate, Lookup, SimpleLookup, DeAllocate |
| Ipv6EndPoint | `internet/model/ipv6-end-point.cc` | local and peer address and port, rx/icmp/destroy callbacks | ForwardUp, ForwardIcmp (scheduled), destructor |
| Udp6SocketImpl | `internet/model/udp6-socket-impl.cc` | `m_endPoint`, `m_errno`, the shutdown flags, `m_connected`, the default peer, `m_deliveryQueue`, `m_rxAvailable`, `m_rcvBufSize` | Bind, BindToNetDevice, Connect, Listen, Shutdown*, Close, Send, SendTo, Recv, RecvFrom, ForwardUp, ForwardIcmp, SetRcvBufSize, Destroy |
| Udp6Client / Udp6Server | `applications/model/udp6-client.cc`, `udp6-server.cc` | `m_sent`, `m_count`, `m_realSize`, the send event; the server's received count | Send (periodic), HandleRead |
| Factory and helpers | `udp6-socket-factory-impl.cc`, `udp6-client-server-helper.*` | none | pass-through and configuration |

How the parts interact:

- A socket's Bind asks the protocol, and through it the demux, for an endpoint.
- `FinishBind` registers the socket's `ForwardUp`, `ForwardIcmp` and `Destroy`
  on that endpoint.
- On receive, `Udp6L4Protocol::Receive` checks the checksum. It looks up every
  endpoint matching the destination and forwards a copy of the datagram to each
  one, in list order.
- Each endpoint hands its copy to its socket's `ForwardUp`. That call enforces
  the receive-buffer limit and queues the datagram.
- On send, `DoSendTo` binds lazily, checks shutdown, size and route, and passes
  the datagram to `Udp6L4Protocol::Send`.
- The tunnel pool is driven by the PMIPv6 binding code, which holds tunnels and
  is not in this repository. Each holder adds, re-points and removes its
  tunnel. Devices are shared by reference count and reused once free
  (remote = zero address).

## 2. Modules

### `Tunnel.tla` (with `MC_Tunnel.tla`)

The state is `tunnelList`, a sequence of `[remote, local, refCount]` records,
one per TunnelNetDevice in creation order. The environment is modelled too:

- `held[h]` is the remote holder `h` has a tunnel to;
- `given[h]` is the index AddTunnel or ModifyTunnel returned to it. It stands
  for the interface index.

| Model | Code |
|---|---|
| `GetTunnelDevice` | the first device with the given remote (`:279-292`) |
| `AddTunnelList`, `AddTunnelIndex` | AddTunnel's three cases: found → ++refcount; free → reuse; else create (`:192-234`) |
| `RemoveTunnelList` | decrement, and reset the remote to zero at 0 (`:236-251`) |
| `ModifyTunnelList`, `ModifyTunnelIndex` | the split path (refcount > 1: Remove, then Add) or the in-place re-point (`:253-277`) |

The actions are `AddTunnel(h, r, l)`, `RemoveTunnel(h)` and
`ModifyTunnel(h, nr, l)`:

- An action's guards are the NS_ASSERTs: the device exists, its refCount > 0,
  and `nr # r`.
- A holder adds only when it holds nothing, so the environment is well formed.

The caller contract `ModifyToUnusedOnly` is a CONSTANT. With it, ModifyTunnel
re-points an unshared device only onto a remote without a device.

### `Udp6.tla` (with `MC_Udp6.tla`)

| Model | Code |
|---|---|
| `eps` | the demux's list of endpoints `[localAddr, localPort, owner]`, in allocation order |
| `FreeEphemeral`, `BindingTaken`, `Allocations`, `Matches`, `Lookup` | the demux, following spec.md §4.2 (spec_modelled) |
| `NewEndPoint` | the `Ipv6EndPoint (addr, port)` constructor; the peer half stays the wildcard and is left out; `owner` is the socket whose FinishBind sets the callbacks |
| `AllocateAndFinish` | FinishBind plus the Allocate overload: failure leaves `m_endPoint` null |
| `BindAny`, `Bind`, `BindToNetDevice` | the three bind entry points |
| `DoSendTo`, `SendAfterBind`, `UdpDatagram` | lazy bind; the SHUTDOWN, MSGSIZE and no-route errors in code order; source address choice; `Udp6L4Protocol::Send`. `out` is the datagram handed to IPv6 in the step |
| `Send`, `SendTo` | Send checks `m_connected`; SendTo does not (`:505`) |
| `Recv` | covers Recv and RecvFrom: AGAIN on an empty queue; a front packet larger than maxSize stays queued |
| `ForwardUp`, `EndPointForwardUp`, `Receive` | checksum, lookup, fan-out fold, then per socket the shutdown and buffer checks |
| `ShutdownSend`, `ShutdownRecv`, `Close`, `Connect`, `Listen`, `SetRcvBufSize` | one action each |

Two pieces of data are abstracted:

- Packet payloads are abstracted to `[size, toPort]`.
- `m_errno` is kept as an error code, but no action reads it.

The caller contract `OnlyFirstBind` is a CONSTANT. With it, a socket is bound
explicitly at most once, as `Udp6Server` and `Udp6Client` do.

### `TunnelPool.tla`: the abstract pool

This module states what the pool promises its callers, without the device
list. `held[h]` is the remote holder `h` has a tunnel to, and `iface[h]` is
the index it was given. The promises are:

- holders of one remote share an index;
- different remotes never share one;
- a new remote gets an index no holder uses;
- re-pointing the only reference keeps its index.

`MC_Tunnel.tla` instantiates it with `iface <- given`. It checks
`RefinesTunnelPool == Abstract!Spec` as a PROPERTY, under the
`ModifyToUnusedOnly` contract.

### `TunnelDecap.tla` (with `MC_TunnelDecap.tla`)

`Ipv6TunnelL4Protocol::Receive` at a tunnel end, for one encapsulated packet
at a time. The state is `pkt`, the packet about to be received, and `out`,
the inner packet re-sent in the step.

| Model | Code |
|---|---|
| `LoopPreventionDrop` | the six-way address test (`:158-167`) |
| `TagHopLimit` | `tag.SetTtl (innerHeader.GetHopLimit() - 1)` in uint8 (`:169-172`) |
| `SendMessage` | the tunnel device's send to its remote end (`:132-142`) |
| `Receive` | the whole handler: drop, or tag, route and send (`:144-190`) |

Two collaborators are not in the repository and are modelled as they behave
in ns-3.13:

- `IntoTunnel` stands for the static route; it says which destinations lead
  back into the tunnel.
- `Ipv6L3Protocol::Send` uses the tag's hop limit and does not check it.

### `Udp6Icmp.tla` (with `MC_Udp6Icmp.tla`)

This module EXTENDS `Udp6` with ICMP delivery and teardown. `SocketStep`
runs any `Udp6` step and records the source address, port and sender of each
datagram sent (`sentLog`).

| Model | Code |
|---|---|
| `SimpleLookup` | the demux's most specific match (spec_modelled) |
| `ReceiveIcmp` | `Udp6L4Protocol::ReceiveIcmp`. It finds the endpoint from the quoted source address and port, or does nothing if there is none |
| `EndPointForwardIcmp` | `Ipv6EndPoint::ForwardIcmp`: schedules `DoForwardIcmp` with ScheduleNow |
| `DoForwardIcmp`, `SocketForwardIcmp` | the scheduled event, which runs later, after any other steps; it calls the owner's `Udp6SocketImpl::ForwardIcmp` |
| `Dispose` | `Udp6L4Protocol::DoDispose`. It deletes the demux; each endpoint's destructor (`EndPointDestroy`, `~Ipv6EndPoint`) calls its socket's `Destroy` (`SocketDestroy`), which nulls `m_endPoint` and `m_udp` |
| `IcmpInit` | sockets from `CreateSocket`, which sets `m_udp` |

An ICMP error may quote a datagram a local socket sent, or one none sent (a
stale or forged error). DoDispose runs from `Simulator::Destroy`, and no
event runs after it, so pending ICMP events are dropped.

### `Udp6App.tla`

This module models the two applications over one socket each, with a network
that may reorder and lose datagrams between them.

| Model | Code |
|---|---|
| `ClientInit`, `ServerInit` | the two constructors; the client's `m_realSize` is not initialised there and starts anywhere |
| `ClientStart` | `StartApplication`: create, bind and connect the socket once, `m_realSize = m_size`, schedule `Send` |
| `ClientStop` | `StopApplication`: cancel the event |
| `ClientSend`, `ClientPacket`, `Plus`, `Minus` | `Send`: the payload is `m_realSize-(8+4)` plus the header, in uint32. A successful send counts; the size grows in every case; Send reschedules while `m_sent < m_count` |
| `SocketSendOk` | the size check and the RouteOutput lookup of `DoSendTo` (`:320-484`), the only checks that can fail on the client's wildcard-bound socket. `routable` is RouteOutput's answer for the peer, chosen in Init |
| `Deliver` | the server socket's `ForwardUp`: the buffer check, then queueing, or `HandleRead` when the callback is set |
| `HandleRead` | drain with RecvFrom; count packets of non-zero size |
| `ServerStart`, `ServerStop` | set and clear the receive callback |

uint32 is scaled to `SizeModulus = 8`, which is above the datagram ceiling
`TxAvailable = 4`. That keeps the code's order of the ceiling, the header
size and the wrap.

### `SeqChannel.tla`: what the application pair promises

This module states the pair's contract without sockets, sizes or the network.
`sent` counts the sequence numbers the client has handed out, `seen` is the
set the server has taken in, and `received` is the server's count. `Send`
hands out the next number while `sent < Count`. `Take(S)` takes in a
non-empty set of outstanding numbers at once, because one `HandleRead`
drains several queued datagrams, and adds `|S|` to the count. Loss, a failed
send and a datagram queued after StopApplication (never drained, since
StartApplication runs once) are stutters.

`Udp6App.tla` maps `m_sent`, the numbers given to the loss counter and
`m_received` onto these variables. It checks
`RefinesSeqChannel == Abstract!Spec` as a PROPERTY.

## 3. Runs

| Run | cfg | Expect | What it shows |
|---|---|---|---|
| tunnel_pool | `MC_Tunnel.cfg` | pass (351 states) | `RefCountMatchesHolders`: each device's refCount equals the number of holders given it. `HolderRouted`: every holder's index names a device leading to its remote. `ReuseBeforeCreate`: the list grows only when no device is free. |
| tunnel_modify_dup | `MC_TunnelModifyDup.cfg` | violation | Without the contract, an in-place ModifyTunnel duplicates a live remote (`UniqueLiveRemote`) |
| udp_socket | `MC_Udp6.cfg` | pass (~247k states) | `RxAvailableMatchesQueue`: `m_rxAvailable` equals the bytes queued. `EndpointOwnership`: each endpoint belongs to exactly one socket's handle. `DeliveredToBoundPort`: queued datagrams were addressed to a port the socket holds. |
| udp_rebind | `MC_Udp6Rebind.cfg` | violation | A second Bind orphans the first endpoint, which still delivers (`EndpointOwnership`) |
| udp_connected_sendto | `MC_Udp6ConnectedSendTo.cfg` | violation | SendTo on a connected socket sends to the given address, not the peer (`ConnectedSendsToPeer`, spec §4.4) |
| tunnel_pool (refinement) | `MC_Tunnel.cfg` | pass | `RefinesTunnelPool`: every pool step, seen through the indices given, is a step of `TunnelPool` |
| app_client_server | `Udp6App.cfg` | pass (625 states) | `RefinesSeqChannel`: the pair implements `SeqChannel`. Send hands out sequence numbers one at a time and at most MaxPackets of them, and a failed send reuses its number. The server counts each number once, and only numbers already handed out, through loss and reordering. `ClientEventuallyIdle`: when RouteOutput finds a route to the peer, the client eventually stops scheduling Send. Whether a route exists is chosen in Init; without one, every Send fails and Send reschedules forever |
| app_payload_wrap | `Udp6AppPayloadWrap.cfg` | violation | `m_realSize` grows through failed sends until uint32 wraps below the 12-byte header, and the payload size underflows |
| decap_hop_wrap | `MC_TunnelDecapHopWrap.cfg` | violation | under weak fairness of Receive, a looping packet never expires (`LoopedPacketExpires`). TLC finds a lasso: hop limit 0 is tagged 255, and the packet goes round 256 decapsulations forever |
| decap_linklocal_mcast | `MC_TunnelDecapLinkMcast.cfg` | violation | ff02::fb, a link-local multicast group outside the test, is re-sent (`LinkScopeNotForwarded`, spec §8). With link scope equal to the set the drop test recognises the property would hold by construction, so it is checked only here |
| udp_icmp_teardown | `MC_Udp6Icmp.cfg` | pass (~282k states) | `TeardownNullsHandles`: after DoDispose no socket holds an endpoint, because each endpoint's destroy callback reaches the socket that bound it. The run keeps the `OnlyFirstBind` contract, so it has no endpoints orphaned by a re-bind; with re-binds the state space is beyond the time budget. `IcmpTypeOK` also checks that every scheduled ICMP event refers to a live endpoint |
| udp_noroute_binds | `MC_Udp6NoRoute.cfg` | violation | a SendTo from an unbound socket to an unroutable peer binds it to an ephemeral port and then fails with NOROUTETOHOST; spec §4.4 promises no partial side effects (`NoRouteNoSideEffect`). The cfg has no VIEW, because the property reads `m_errno` |

Three disagreements are not kept as runs. Two come down to a single line,
and the third is about something the spec does not say:

- **`Udp6App` with Count = 0.** `RefinesSeqChannel` fails at the first Send,
  which is no `SeqChannel` step because `sent < Count` is false.
  `StartApplication` schedules Send whatever `m_count` is (`:125`), although
  the attribute calls it the maximum number of packets.
- **`QueueWithinRcvBuf` in `Udp6`.** It fails as soon as `SetRcvBufSize`
  lowers the size below the bytes already queued, because the setter only
  assigns (`:681`). spec.md §3 bounds the queue by the buffer size.

- **`IcmpToSender` in `Udp6Icmp`.** It states that an ICMP error about a
  datagram reaches the socket that sent it. TLC violates it in five steps:
  1. s1 binds a1:1.
  2. s2 binds the wildcard on port 1.
  3. s2 sends from a1.
  4. ReceiveIcmp's SimpleLookup picks s1's more specific endpoint.
  5. The error about s2's datagram reaches s1.

Each property of a pass run has a mutant in `PROJECT.json`, a plausible bug in
the definition it guards. TLC finds each mutant violating its property:

- a created device appended one past the end;
- ModifyTunnel returning the old index;
- the split path not removing the old reference;
- the free reset dropped on Remove;
- the source taken from the wildcard endpoint address;
- `m_rxAvailable` decremented on a refused Recv;
- BindToNetDevice re-binding;
- lookup ignoring the port;
- GetTunnelDevice not looking at the last device;
- the sequence number read after the increment;
- `m_realSize` growing only on success;
- ReceiveIcmp scheduling without an endpoint;
- Destroy leaving `m_endPoint` set.

## 4. Bounds and why they are enough

**Tunnel.** There are 3 remotes, 4 holders, 2 local addresses and at most 5
devices.

- Four holders on three remotes give shared devices (refcount 2 and 3), the
  split and in-place Modify paths, and free devices that are reused while
  others are live.
- The device bound (`DeviceBound`) caps only how far the list may grow.
  Under the contract a device is created only when none is free, so the
  list stays short.
- Holders and remotes are symmetric model values.

**Udp6.** There are 2 sockets, one local address and two peers, one of them
routable. There is 1 explicit port and 1 ephemeral port.

- Tx sizes {1, 3} straddle TxAvailable = 2, so the MSGSIZE error occurs.
- Rx sizes {1, 2} and buffer sizes {1, 2} give both drops at the buffer limit
  and two-packet queues.
- Allocation fails when the single ephemeral port is taken, so failed binds
  occur.
- At most 3 endpoints exist (`EndPointBound`). That is enough for two sockets
  to share a port through wildcard and specific addresses, which gives the
  fan-out case.
- Sockets are symmetric.

The VIEW leaves out `m_errno`, which no action reads. This shrinks the
state space without merging states that behave differently. `out` stays in the view, so that invariants on the emitted
datagram are checked.

**Udp6App.** The client has Count = 3, PacketSize = 2, Incremental = 3 and
header 2, with TxAvailable = 4 and a server buffer of 4.

- The sizes 2, 5, 0, 3, ... (mod 8) give successful sends, sends failing
  with MSGSIZE, and the wrap, all within three counted sends.
- Whether a stop time is set, and whether the peer is routable, are chosen
  in Init. Static routing gives one answer for the whole run.
- The violation cfg changes only the property checked.

**TunnelDecap** (violation runs only). There are two ends, each routing g1 into the other's tunnel,
and hop limits {0, 1, 64}. Every address class of the loop-prevention test
has one representative, and ff02::fb stands for the rest of link-local
multicast. With hop limits 0 and 1, the wrap is reached in one or two
decapsulations, and the lasso that never expires in 256.

**Udp6Icmp.** The socket bounds are those of Udp6, with one size each. At
most 3 endpoints exist and at most one ICMP event is pending at a time
(`MaxPendingIcmp`). Two endpoints are enough for the wildcard-versus-specific
misassociation; the third lets both sockets bind and one send lazily. The
run keeps the `OnlyFirstBind` contract, because with re-binds the state
space does not finish within the time budget.

## 5. Fairness

`Udp6App` assumes weak fairness of `ClientStart`, `ClientSend` and
`ClientStop`. These are events scheduled with `Simulator::Schedule`, and the
simulator runs every event that is not cancelled.

Nothing else in `Udp6App` is assumed fair:

- the network may lose every datagram;
- the server's callback may stay cleared.

`ClientEventuallyIdle` is stated only for runs where a route to the peer
exists; without a route the client sends forever unless a stop time ends
it. With a route, it holds in the model only because `m_realSize` wraps.
Once it passes the datagram ceiling, sends fail until the uint32 sum comes
back below the ceiling, about 2^32/m_incrementalSize attempts later.

Runs whose system really stops set CHECK_DEADLOCK FALSE:

- `Udp6App`: the simulation ends when no event is left;
- `Udp6Icmp`: nothing runs after DoDispose.

`TunnelDecap` assumes weak fairness of `Receive`. An encapsulated packet
handed to a tunnel end is received there, because the simulator runs the
receive event the link schedules. `TunnelDecap` and the other modules can
always take a step.

## 6. Not modelled, and the plan

The components and their status are in `PROJECT.json`. Still open:

1. **Error codes**: `m_errno` after a failed FinishBind (`:145`) is stale.
   Checking this needs the return value of each call as state. spec.md does
   not say which code a failed bind leaves, so no run states it.
2. **`Udp6App` over the `Udp6` socket model.** `Udp6App` takes the socket's
   checks from `Udp6` in the two operators `SocketSendOk` and `Deliver`; it
   does not instantiate the module. Composing them would need sequence
   numbers in the `Udp6` datagrams and queue entries. It would also split
   `StartApplication`'s Bind and Connect into separate steps. The state
   space of both together is beyond the runs' time budget.

Not modelled, and why:

- **The socket destructor and `DeAllocate`.** FinishBind gives the endpoint
  callbacks holding a `Ptr` to the socket, so a bound socket is never
  destroyed before DoDispose. `DeAllocate` is reached only from that
  destructor.
- **`Ipv6TunnelL4Protocol::DoDispose`.** It only clears the list.
- **The `Address` overload of `DoSendTo`** (`:283-301`). It substitutes the
  default peer on a connected socket, but no caller reaches it: Send and
  SendTo both call the `Ipv6Address` overload.
- **The factory and the helpers.** They have no behaviour.
- **The socket option setters** (TTL, multicast, MTU discovery). They only
  tag packets.
- **The empty multicast join and leave.**
- **Object aggregation** (`NotifyNewAggregate`).
- **`PacketLossCounter`.** It is not among the repository's sources. The
  server's loss counter is the set `seen` of numbers handed to it.
