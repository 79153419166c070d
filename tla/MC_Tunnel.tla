------------------------------ MODULE MC_Tunnel ------------------------------
(* Model-checking instance of Tunnel: a few holders and remotes, one local  *)
(* address, and a bound on the device list for mutants that grow it.        *)
EXTENDS Tunnel, TLC

CONSTANTS r1, r2, r3, h1, h2, h3, h4, l1, l2

\* Devices beyond this many are not explored (a correct pool never needs
\* more devices than there are holders).
MaxDevices == 5

MCRemotes == {r1, r2, r3}
MCHolders == {h1, h2, h3, h4}
MCLocals == {l1, l2}

DeviceBound == Len(tunnelList) <= MaxDevices

\* The pool implements its abstract specification: holders are the
\* holders, the interface index a holder was given is its iface.
Abstract == INSTANCE TunnelPool WITH iface <- given, Indices <- 1..MaxDevices

Symmetry == Permutations(MCRemotes) \cup Permutations(MCHolders)
\* Every step of AddTunnel, RemoveTunnel and ModifyTunnel, seen through
\* the indices the holders were given, is a step the abstract pool allows:
\* holders of one remote share an index, different remotes never do, a
\* new remote gets an index no holder uses, and re-pointing an unshared
\* tunnel keeps its index.
RefinesTunnelPool == Abstract!Spec
=============================================================================
