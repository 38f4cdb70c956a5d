--------------------------- MODULE MCLinkedQueue ---------------------------
(***************************************************************************)
(* An instance of LinkedQueue for TLC, with all addresses alike.           *)
(***************************************************************************)
EXTENDS LinkedQueue, TLC

Symmetry == Permutations(Nodes) \cup Permutations(Fds)
=============================================================================
