------------------------------- MODULE Tunnel -------------------------------
(***************************************************************************)
(* The tunnel-device pool of Ipv6TunnelL4Protocol (pmip6 model):           *)
(* m_tunnelList, a list of TunnelNetDevices, each carrying a remote        *)
(* address, a local address and a reference count.  A device whose        *)
(* remote address is the zero address (Ipv6Address::GetZero) is free and  *)
(* is reused before a new device is created.  Devices are never removed    *)
(* from the list, so the position of a device is its stable identity; it  *)
(* stands for the interface index that AddTunnel and ModifyTunnel return.  *)
(*                                                                         *)
(* The callers (the PMIPv6 binding code that holds tunnels) are not part   *)
(* of this module's source: they are the environment, a set of Holders    *)
(* each holding at most one tunnel reference and remembering the index it  *)
(* was given.                                                              *)
(***************************************************************************)
EXTENDS Naturals, Sequences, SequencesExt, FiniteSets

CONSTANTS
  Remotes,            \* remote (peer) addresses a tunnel can lead to
  Locals,             \* local addresses a tunnel can be set up from
  Holders,            \* callers that hold a tunnel reference
  Zero,               \* Ipv6Address::GetZero (), the "free" remote address
  None,               \* a holder that holds no tunnel
  ModifyToUnusedOnly  \* caller contract: see ModifyTunnel below

ASSUME Zero \notin Remotes /\ None \notin Remotes \cup {Zero}
ASSUME ModifyToUnusedOnly \in BOOLEAN

VARIABLES
  tunnelList,   \* m_tunnelList: sequence of devices
  held,         \* held[h]: remote address holder h holds a tunnel to, or None
  given         \* given[h]: the interface index h was returned, 0 if none

vars == <<tunnelList, held, given>>

Device == [remote : Remotes \cup {Zero}, local : Locals, refCount : Nat]

-----------------------------------------------------------------------------
(* The pool operations, as operators on a list, so that ModifyTunnel can   *)
(* compose RemoveTunnel and AddTunnel the way the code does.               *)

\* Mutant: the search stops before the last device of the list.
GetTunnelDeviceSkipLast(tl, r) ==
  SelectInSeq(SubSeq(tl, 1, Len(tl) - 1), LAMBDA d : d.remote = r)

\* GetTunnelDevice: the first device whose remote address is r, 0 if none.
GetTunnelDevice(tl, r) == SelectInSeq(tl, LAMBDA d : d.remote = r)

\* AddTunnel: an existing device for r gains a reference; otherwise the
\* first free device is taken over; otherwise a new device is appended.
AddTunnelList(tl, r, l) ==
  LET found == GetTunnelDevice(tl, r)
      free  == GetTunnelDevice(tl, Zero)
  IN  CASE found # 0 -> [tl EXCEPT ![found].refCount = @ + 1]
        [] free # 0  -> [tl EXCEPT ![free] = [remote   |-> r,
                                              local    |-> l,
                                              refCount |-> @.refCount + 1]]
        [] OTHER     -> Append(tl, [remote |-> r, local |-> l, refCount |-> 1])

\* Mutant: the index of a new device is read one past the interface added.
AddTunnelIndexPastEnd(tl, r) ==
  LET found == GetTunnelDevice(tl, r)
      free  == GetTunnelDevice(tl, Zero)
  IN  CASE found # 0 -> found
        [] free # 0  -> free
        [] OTHER     -> Len(tl) + 2

\* The interface index AddTunnel returns: that of the device it used.
AddTunnelIndex(tl, r) ==
  LET found == GetTunnelDevice(tl, r)
      free  == GetTunnelDevice(tl, Zero)
  IN  CASE found # 0 -> found
        [] free # 0  -> free
        [] OTHER     -> Len(tl) + 1

\* Mutant: the device is not marked free when its last reference goes.
RemoveTunnelListNoReset(tl, r) ==
  LET i == GetTunnelDevice(tl, r)
  IN  IF i = 0 THEN tl ELSE [tl EXCEPT ![i].refCount = @ - 1]

\* RemoveTunnel: drop one reference; at zero the device is marked free.
RemoveTunnelList(tl, r) ==
  LET i == GetTunnelDevice(tl, r)
  IN  IF i = 0 THEN tl
      ELSE [tl EXCEPT ![i].refCount = @ - 1,
                      ![i].remote   = IF tl[i].refCount - 1 = 0 THEN Zero ELSE @]

\* Mutant: the split path adds the new tunnel but never removes the old one.
ModifyTunnelListNoRemove(tl, r, nr, l) ==
  LET i == GetTunnelDevice(tl, r)
  IN  IF tl[i].refCount > 1
        THEN AddTunnelList(tl, nr, l)
        ELSE [tl EXCEPT ![i].remote = nr]

\* ModifyTunnel: a shared device is split (RemoveTunnel, then AddTunnel for
\* the new remote); an unshared one is re-pointed in place.
ModifyTunnelList(tl, r, nr, l) ==
  LET i == GetTunnelDevice(tl, r)
  IN  IF tl[i].refCount > 1
        THEN AddTunnelList(RemoveTunnelList(tl, r), nr, l)
        ELSE [tl EXCEPT ![i].remote = nr]

\* Mutant: the split path returns the index of the old, shared device.
ModifyTunnelIndexOld(tl, r, nr) ==
  GetTunnelDevice(tl, r)

ModifyTunnelIndex(tl, r, nr) ==
  LET i == GetTunnelDevice(tl, r)
  IN  IF tl[i].refCount > 1
        THEN AddTunnelIndex(RemoveTunnelList(tl, r), nr)
        ELSE i

-----------------------------------------------------------------------------
Init ==
  /\ tunnelList = << >>
  /\ held = [h \in Holders |-> None]
  /\ given = [h \in Holders |-> 0]

\* A holder without a tunnel calls AddTunnel (remote, local).
AddTunnel(h, r, l) ==
  /\ held[h] = None
  /\ tunnelList' = AddTunnelList(tunnelList, r, l)
  /\ held' = [held EXCEPT ![h] = r]
  /\ given' = [given EXCEPT ![h] = AddTunnelIndex(tunnelList, r)]

\* A holder releases its tunnel with RemoveTunnel (remote).
RemoveTunnel(h) ==
  /\ held[h] # None
  /\ tunnelList' = RemoveTunnelList(tunnelList, held[h])
  /\ held' = [held EXCEPT ![h] = None]
  /\ given' = [given EXCEPT ![h] = 0]

\* A holder moves its tunnel to a new remote with ModifyTunnel (remote,
\* newRemote, local).  The guard on i is the code's two NS_ASSERTs.  Under
\* ModifyToUnusedOnly the caller never re-points an unshared tunnel onto a
\* remote that already has a tunnel.
ModifyTunnel(h, nr, l) ==
  LET r == held[h]
      i == GetTunnelDevice(tunnelList, r)
  IN  /\ r # None
      /\ nr # r
      /\ i # 0 /\ tunnelList[i].refCount > 0
      /\ ModifyToUnusedOnly =>
           tunnelList[i].refCount > 1 \/ GetTunnelDevice(tunnelList, nr) = 0
      /\ tunnelList' = ModifyTunnelList(tunnelList, r, nr, l)
      /\ held' = [held EXCEPT ![h] = nr]
      /\ given' = [given EXCEPT ![h] = ModifyTunnelIndex(tunnelList, r, nr)]

Next ==
  \E h \in Holders :
    \/ \E r \in Remotes, l \in Locals : AddTunnel(h, r, l)
    \/ RemoveTunnel(h)
    \/ \E nr \in Remotes, l \in Locals : ModifyTunnel(h, nr, l)

Spec == Init /\ [][Next]_vars

-----------------------------------------------------------------------------
(* Properties                                                              *)

\* Type: every device is well formed, every index handed out names a device.
TypeOK ==
  /\ tunnelList \in Seq(Device)
  /\ held \in [Holders -> Remotes \cup {None}]
  /\ given \in [Holders -> 0 .. Len(tunnelList)]

\* The reference count AddTunnel/RemoveTunnel/ModifyTunnel keep on a device
\* equals the number of holders that were handed that device's index: no
\* reference is lost or counted twice across splits, reuses and removals.
RefCountMatchesHolders ==
  \A i \in 1 .. Len(tunnelList) :
    tunnelList[i].refCount = Cardinality({h \in Holders : given[h] = i})

\* Every holder's tunnel is still the device it was given, that device still
\* leads to the holder's remote, and GetTunnelDevice finds exactly it, so a
\* later RemoveTunnel or ModifyTunnel by the holder acts on its own device.
HolderRouted ==
  \A h \in Holders : held[h] # None =>
    /\ given[h] # 0
    /\ tunnelList[given[h]].remote = held[h]
    /\ GetTunnelDevice(tunnelList, held[h]) = given[h]

\* No interface churn: devices are never removed, and AddTunnel creates a
\* new device only when every existing device is in use (a device whose
\* last reference went is reused first).
ReuseBeforeCreate ==
  [][ /\ Len(tunnelList') >= Len(tunnelList)
      /\ Len(tunnelList') > Len(tunnelList) =>
           \A i \in 1 .. Len(tunnelList) : tunnelList[i].refCount > 0
    ]_vars

\* The spec's pool invariant: at most one device leads to any remote
\* address while it is in use.
UniqueLiveRemote ==
  \A i, j \in 1 .. Len(tunnelList) :
    i # j /\ tunnelList[i].remote = tunnelList[j].remote
      => tunnelList[i].remote = Zero

=============================================================================
