---------------------------- MODULE MCThreadPool ----------------------------
(***************************************************************************)
(* Instances of ThreadPool for TLC.  Workers are interchangeable, and so   *)
(* are descriptors: the symmetry is used by the runs without liveness.     *)
(***************************************************************************)
EXTENDS ThreadPool, TLC

Symmetry == Permutations(Threads) \cup Permutations(Fds)
=============================================================================
