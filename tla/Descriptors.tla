---------------------------- MODULE Descriptors ----------------------------
(***************************************************************************)
(* What the kernel keeps for a process about its open files: a table from  *)
(* descriptors, numbers from 0, to what they refer to.                     *)
(***************************************************************************)
EXTENDS Integers, FiniteSetsExt

Closed == "closed"

FreeIn(t) == {f \in DOMAIN t : t[f] = Closed}
LowestFree(t) == Min(FreeIn(t))
Holding(t, object) == {f \in DOMAIN t : t[f] = object}

\* open, dup and pipe take the lowest free descriptor; pipe does so twice.
Open(t, object) == [t EXCEPT ![LowestFree(t)] = object]
Dup(t, f) == Open(t, t[f])
Dup2(t, f, g) == [t EXCEPT ![g] = t[f]]
Close(t, f) == [t EXCEPT ![f] = Closed]
=============================================================================
