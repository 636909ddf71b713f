----------------------------- MODULE MCTschQueue -----------------------------
(* TschQueueProperties for TLC: the packets are interchangeable, and so    *)
(* are the unicast neighbours.                                             *)
EXTENDS TschQueueProperties, TLC

Symmetry == Permutations(Packet) \cup Permutations(Nbr)
=============================================================================
