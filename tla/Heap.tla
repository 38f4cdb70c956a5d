-------------------------------- MODULE Heap --------------------------------
(***************************************************************************)
(* What the allocators of HW4Wet promise: a pointer that was handed out    *)
(* and not released owns at least the bytes that were asked for, shares    *)
(* none of them with another pointer, and keeps them whatever is called    *)
(* for other pointers.  A call that fails changes nothing.                 *)
(***************************************************************************)
EXTENDS Integers, FiniteSets

VARIABLES
    area,   \* the bytes of each pointer handed out
    asked   \* how many bytes the caller asked for

heapVars == <<area, asked>>

HeapInit == area = << >> /\ asked = << >>

Untouched(pointers) == \A q \in pointers : area'[q] = area[q] /\ asked'[q] = asked[q]

\* p gets enough bytes, and nobody else's.
Owns(p) ==
    /\ Cardinality(area'[p]) >= asked'[p]
    /\ \A q \in DOMAIN area' \ {p} : area'[q] \cap area'[p] = {}

\* malloc and calloc
Allocate ==
    \E p \in DOMAIN area' \ DOMAIN area :
       /\ DOMAIN area' = DOMAIN area \cup {p}
       /\ Untouched(DOMAIN area) /\ Owns(p)

\* free
Release ==
    \E p \in DOMAIN area :
       /\ DOMAIN area' = DOMAIN area \ {p}
       /\ Untouched(DOMAIN area')

\* realloc, in place or elsewhere
Resize ==
    \E p \in DOMAIN area, q \in DOMAIN area' :
       /\ q \notin DOMAIN area \ {p}
       /\ DOMAIN area' = (DOMAIN area \ {p}) \cup {q}
       /\ Untouched(DOMAIN area \ {p}) /\ Owns(q)

HeapSpec == HeapInit /\ [][Allocate \/ Release \/ Resize]_heapVars
=============================================================================
