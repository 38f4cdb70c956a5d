------------------------------- MODULE Lists -------------------------------
(***************************************************************************)
(* Walking a list and erasing elements of it, adding up over a set of      *)
(* numbers, as recursive functions, for proofs; functions with one value   *)
(* more or one less.                                                       *)
(***************************************************************************)
EXTENDS Integers, Sequences

\* The elements of s at the positions in P, in their order: what a walk over s leaves
\* that erases all others.
Sublist(s, P) ==
    LET f[n \in 0..Len(s)] ==
            IF n = 0 THEN << >> ELSE IF n \in P THEN Append(f[n - 1], s[n]) ELSE f[n - 1]
    IN  f[Len(s)]

\* The sum of f[x] over the x in S, numbers up to N.
SumOver(f, S, N) ==
    LET sum[n \in 0..(N + 1)] ==
            IF n = 0 THEN 0 ELSE sum[n - 1] + (IF n - 1 \in S THEN f[n - 1] ELSE 0)
    IN  sum[N + 1]

\* The function f with the value v at p, which may be new to it; and without p.
With(f, p, v) == [x \in DOMAIN f \cup {p} |-> IF x = p THEN v ELSE f[x]]
Drop(f, p) == [x \in DOMAIN f \ {p} |-> f[x]]
=============================================================================
