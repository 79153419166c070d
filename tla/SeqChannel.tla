----------------------------- MODULE SeqChannel -----------------------------
(***************************************************************************)
(* What the Udp6Client/Udp6Server pair promises, without sockets, sizes or *)
(* the network: the client hands out sequence numbers 0, 1, 2, ... one at *)
(* a time and at most Count of them (MaxPackets); the server takes in any *)
(* set of numbers already handed out and not taken before, and its count  *)
(* grows by exactly the size of that set.  Numbers may be taken in any    *)
(* order or never (loss), which this specification sees as stuttering.    *)
(***************************************************************************)
EXTENDS Naturals, FiniteSets

CONSTANT Count

VARIABLES
  sent,      \* how many sequence numbers the client has handed out
  seen,      \* the numbers the server has taken in
  received   \* the server's count of taken numbers

vars == <<sent, seen, received>>

Init == sent = 0 /\ seen = {} /\ received = 0

\* The client hands out the next number.
Send ==
  /\ sent < Count
  /\ sent' = sent + 1
  /\ UNCHANGED <<seen, received>>

\* The server takes in a non-empty set of outstanding numbers at once.
Take(S) ==
  /\ S # {}
  /\ S \cap seen = {}
  /\ seen' = seen \cup S
  /\ received' = received + Cardinality(S)
  /\ UNCHANGED sent

Next == Send \/ \E S \in SUBSET (0..(sent - 1)) : Take(S)

Spec == Init /\ [][Next]_vars
=============================================================================
