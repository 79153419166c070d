----------------------------- MODULE TunnelPool -----------------------------
(***************************************************************************)
(* What the tunnel pool of Ipv6TunnelL4Protocol promises its callers,      *)
(* without the device list: every holder of a tunnel is given an           *)
(* interface index; holders of tunnels to the same remote share one index, *)
(* holders of tunnels to different remotes never do.  A new remote gets an *)
(* index no current holder uses; re-pointing the only reference to a       *)
(* tunnel keeps its index (spec: ModifyTunnel on a reference count of 1    *)
(* preserves the interface index).                                        *)
(***************************************************************************)
EXTENDS Naturals

CONSTANTS Holders, Remotes, Indices, None

VARIABLES
  held,   \* held[h]: the remote holder h has a tunnel to, or None
  iface   \* iface[h]: the interface index h was given, 0 if none

vars == <<held, iface>>

\* The indices held for remote r, and all indices in use.
IndicesOf(r) == {iface[g] : g \in {g \in Holders : held[g] = r}}
InUse(except) == {iface[g] : g \in {g \in Holders \ except : held[g] # None}}

\* The indices a holder may be given for r when it leaves its old index
\* to others: the one r already has, else any index nobody else uses.
JoinOrFresh(h, r) ==
  IF IndicesOf(r) # {} THEN IndicesOf(r) ELSE Indices \ InUse({h})

Init ==
  /\ held = [h \in Holders |-> None]
  /\ iface = [h \in Holders |-> 0]

Add(h, r) ==
  /\ held[h] = None
  /\ held' = [held EXCEPT ![h] = r]
  /\ \E i \in JoinOrFresh(h, r) : iface' = [iface EXCEPT ![h] = i]

Remove(h) ==
  /\ held[h] # None
  /\ held' = [held EXCEPT ![h] = None]
  /\ iface' = [iface EXCEPT ![h] = 0]

\* Re-pointing h's tunnel to nr: the only holder of an index keeps it for
\* a remote nobody holds; otherwise h joins nr's index or takes a fresh one.
Modify(h, nr) ==
  LET sharers == {g \in Holders \ {h} : held[g] = held[h]}
  IN  /\ held[h] \notin {None, nr}
      /\ held' = [held EXCEPT ![h] = nr]
      /\ \E i \in IF sharers = {} /\ IndicesOf(nr) = {}
                    THEN {iface[h]} ELSE JoinOrFresh(h, nr) :
           iface' = [iface EXCEPT ![h] = i]

Next ==
  \E h \in Holders :
    \/ \E r \in Remotes : Add(h, r) \/ Modify(h, r)
    \/ Remove(h)

Spec == Init /\ [][Next]_vars
=============================================================================
