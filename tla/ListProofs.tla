---------------------------- MODULE ListProofs ----------------------------
(***************************************************************************)
(* What the proofs of several components need: smallest elements of sets   *)
(* of numbers, an induction principle, what inserting into a list and     *)
(* erasing from it do to its positions, and sums.                          *)
(***************************************************************************)
EXTENDS Lists, SequencesExt, SequenceTheorems, WellFoundedInduction, TLAPS

\* The least-number principle: a set of natural numbers that is not empty has a
\* smallest element.
LEMMA LeastNumber ==
    ASSUME NEW T \in SUBSET Nat, T # {}
    PROVE  \E x \in T : \A y \in T : x <= y
<1> DEFINE R == {ss \in Nat \X Nat : ss[1] < ss[2]}
<1>1. IsWellFoundedOn(R, Nat)
  BY NatLessThanWellFounded DEF OpToRel
<1> HIDE DEF R
<1>2. \E x \in T : \A y \in T : ~ (<<y, x>> \in R)
  BY <1>1, WFMin
<1>3. \A x, y \in Nat : <<y, x>> \notin R => x <= y
  BY DEF R
<1> QED
  BY <1>2, <1>3

\* Min chooses it.
LEMMA MinIsLeast ==
    ASSUME NEW T \in SUBSET Nat, T # {}
    PROVE  Min(T) \in T /\ \A y \in T : Min(T) <= y
  BY LeastNumber DEF Min

\* An element that is not above any other is the minimum.
LEMMA MinUnique ==
    ASSUME NEW T \in SUBSET Int, NEW x \in T, \A y \in T : x <= y
    PROVE  Min(T) = x
<1>1. Min(T) \in T /\ \A y \in T : Min(T) <= y
  BY DEF Min
<1>2. Min(T) \in Int /\ x \in Int /\ Min(T) <= x /\ x <= Min(T)
  BY <1>1
<1> QED
  BY <1>2

\* The minimum of two numbers.
LEMMA MinOfTwo ==
    ASSUME NEW a \in Int, NEW b \in Int
    PROVE  Min({a, b}) = IF a <= b THEN a ELSE b
<1>1. CASE a <= b
  BY <1>1, MinUnique
<1>2. CASE ~(a <= b)
  BY <1>2, MinUnique
<1> QED
  BY <1>1, <1>2

\* Induction up to N, over a set of numbers instead of a predicate.
LEMMA InductionUpTo ==
    ASSUME NEW N \in Nat, NEW T, 0 \in T, \A n \in 0..N : n < N /\ n \in T => n + 1 \in T
    PROVE  \A n \in 0..N : n \in T
<1> DEFINE Bad == {n \in 0..N : n \notin T}
<1>1. SUFFICES ASSUME Bad # {} PROVE FALSE
  OBVIOUS
<1>2. Bad \in SUBSET Nat
  OBVIOUS
<1>3. PICK m \in Bad : \A n \in Bad : m <= n
  BY <1>1, <1>2, LeastNumber
<1>4. m \in 0..N /\ m \notin T /\ m # 0
  BY <1>3
<1>5. m - 1 \in 0..N /\ m - 1 < N /\ (m - 1) + 1 = m
  BY <1>4
<1>6. m - 1 \in T
  <2>1. ~(m <= m - 1)
    BY <1>4
  <2>2. m - 1 \notin Bad
    BY <1>3, <2>1
  <2> QED
    BY <1>5, <2>2
<1> QED
  BY <1>4, <1>5, <1>6

\* Inserting an element at position i moves those from there on by one.
LEMMA InsertAtIs ==
    ASSUME NEW S, NEW s \in Seq(S), NEW e \in S, NEW i \in 1..(Len(s) + 1)
    PROVE  /\ InsertAt(s, i, e) \in Seq(S) /\ Len(InsertAt(s, i, e)) = Len(s) + 1
           /\ \A j \in 1..(Len(s) + 1) :
                 InsertAt(s, i, e)[j] = IF j < i THEN s[j] ELSE IF j = i THEN e ELSE s[j - 1]
<1> DEFINE a == SubSeq(s, 1, i - 1)
           c == SubSeq(s, i, Len(s))
<1>1. Len(s) \in Nat /\ i \in Nat /\ i >= 1 /\ i <= Len(s) + 1
  BY LenProperties
<1>2. \A j \in 1..Len(s) : s[j] \in S
  BY ElementOfSeq
<1>3. /\ a \in Seq(S) /\ Len(a) = i - 1 /\ \A j \in 1..(i - 1) : a[j] = s[j]
  <2>1. /\ 1 \in Int /\ i - 1 \in Int /\ \A j \in 1..(i - 1) : s[j] \in S
    BY <1>1, <1>2
  <2>2. /\ a \in Seq(S) /\ Len(a) = (IF 1 <= i - 1 THEN (i - 1) - 1 + 1 ELSE 0)
        /\ \A j \in 1..((i - 1) - 1 + 1) : a[j] = s[1 + j - 1]
    BY <2>1, SubSeqProperties
  <2> QED
    BY <1>1, <2>2
<1>4. /\ c \in Seq(S) /\ Len(c) = Len(s) - i + 1
      /\ \A j \in 1..(Len(s) - i + 1) : c[j] = s[i + j - 1]
  <2>1. /\ i \in Int /\ Len(s) \in Int /\ \A j \in i..Len(s) : s[j] \in S
    BY <1>1, <1>2
  <2>2. /\ c \in Seq(S) /\ Len(c) = (IF i <= Len(s) THEN Len(s) - i + 1 ELSE 0)
        /\ \A j \in 1..(Len(s) - i + 1) : c[j] = s[i + j - 1]
    BY <2>1, SubSeqProperties
  <2> QED
    BY <1>1, <2>2
<1> HIDE DEF a, c
<1> DEFINE b == a \o <<e>>
<1>5. /\ b \in Seq(S) /\ Len(b) = i
      /\ \A j \in 1..i : b[j] = IF j < i THEN a[j] ELSE e
  <2>1. <<e>> \in Seq(S) /\ Len(<<e>>) = 1 /\ <<e>>[1] = e
    OBVIOUS
  <2>2. /\ b \in Seq(S) /\ Len(b) = Len(a) + Len(<<e>>)
        /\ \A j \in 1..(Len(a) + Len(<<e>>)) :
              b[j] = IF j <= Len(a) THEN a[j] ELSE <<e>>[j - Len(a)]
    BY <1>3, <2>1, ConcatProperties
  <2> HIDE DEF b
  <2>3. /\ \A j \in 1..i : (j <= Len(a) <=> j < i) /\ (~(j < i) => j - Len(a) = 1)
        /\ Len(a) + Len(<<e>>) = i
    BY <1>1, <1>3, <2>1
  <2> QED
    BY <1>1, <2>1, <2>2, <2>3
<1> HIDE DEF b
<1>6. /\ b \o c \in Seq(S) /\ Len(b \o c) = i + (Len(s) - i + 1)
      /\ \A j \in 1..(i + (Len(s) - i + 1)) : (b \o c)[j] = IF j <= i THEN b[j] ELSE c[j - i]
  <2>1. /\ b \o c \in Seq(S) /\ Len(b \o c) = Len(b) + Len(c)
        /\ \A j \in 1..(Len(b) + Len(c)) :
              (b \o c)[j] = IF j <= Len(b) THEN b[j] ELSE c[j - Len(b)]
    BY <1>4, <1>5, ConcatProperties
  <2> QED
    BY <1>4, <1>5, <2>1
<1>7. InsertAt(s, i, e) = b \o c
  BY DEF InsertAt, a, b, c
<1>8. ASSUME NEW j \in 1..(Len(s) + 1)
      PROVE  (b \o c)[j] = IF j < i THEN s[j] ELSE IF j = i THEN e ELSE s[j - 1]
  <2>1. CASE j < i
    <3>1. j \in 1..(i - 1) /\ j \in 1..i /\ j <= i
      BY <1>1, <2>1
    <3> QED
      BY <1>1, <1>3, <1>5, <1>6, <2>1, <3>1
  <2>2. CASE j = i
    BY <1>1, <1>5, <1>6, <2>2
  <2>3. CASE j > i
    <3>1. j - i \in 1..(Len(s) - i + 1) /\ i + (j - i) - 1 = j - 1
      BY <1>1, <2>3
    <3>2. c[j - i] = s[j - 1]
      BY <1>4, <3>1
    <3>3. j \in 1..(i + (Len(s) - i + 1)) /\ ~(j <= i) /\ ~(j < i) /\ j # i
      BY <1>1, <2>3
    <3> QED
      BY <1>6, <3>2, <3>3
  <2>4. j < i \/ j = i \/ j > i
    BY <1>1
  <2> QED
    BY <2>1, <2>2, <2>3, <2>4
<1> QED
  BY <1>1, <1>6, <1>7, <1>8

\* What is left of s are its elements at the positions in P, in their order: g tells for
\* each position of the rest where it was.
LEMMA SublistIs ==
    ASSUME NEW S, NEW s \in Seq(S), NEW P
    PROVE  /\ Sublist(s, P) \in Seq(S)
           /\ \E g \in [1..Len(Sublist(s, P)) -> 1..Len(s)] :
                 /\ \A i \in 1..Len(Sublist(s, P)) : g[i] \in P /\ Sublist(s, P)[i] = s[g[i]]
                 /\ \A i, k \in 1..Len(Sublist(s, P)) : i < k => g[i] < g[k]
                 /\ \A p \in 1..Len(s) : p \in P => \E i \in 1..Len(Sublist(s, P)) : g[i] = p
<1> DEFINE N == Len(s)
           Made(F, n) == F = [m \in 0..n |-> IF m = 0 THEN << >>
                                             ELSE IF m \in P THEN Append(F[m - 1], s[m])
                                             ELSE F[m - 1]]
           Enumerates(t, n) ==
               \E g \in [1..Len(t) -> 1..n] :
                  /\ \A i \in 1..Len(t) : g[i] \in P /\ t[i] = s[g[i]]
                  /\ \A i, k \in 1..Len(t) : i < k => g[i] < g[k]
                  /\ \A p \in 1..n : p \in P => \E i \in 1..Len(t) : g[i] = p
<1>1. N \in Nat /\ \A i \in 1..N : s[i] \in S
  BY LenProperties, ElementOfSeq
<1>2. \A n \in 0..N : \E F : Made(F, n)
  <2> DEFINE T == {n \in 0..N : \E F : Made(F, n)}
  <2>1. 0 \in T
    <3>1. Made([m \in 0..0 |-> << >>], 0)
      OBVIOUS
    <3> HIDE DEF Made
    <3>2. \E F : Made(F, 0)
      BY <3>1
    <3>3. 0 \in 0..N
      BY <1>1
    <3> QED
      BY <3>2, <3>3
  <2>2. ASSUME NEW n \in 0..N, n < N, n \in T PROVE n + 1 \in T
    <3>1. PICK F : Made(F, n)
      BY <2>2
    <3> DEFINE G == [m \in 0..(n + 1) |-> IF m = n + 1
                                          THEN IF m \in P THEN Append(F[n], s[m]) ELSE F[n]
                                          ELSE F[m]]
    <3>2. ASSUME NEW m \in 0..(n + 1)
          PROVE  G[m] = IF m = 0 THEN << >> ELSE IF m \in P THEN Append(G[m - 1], s[m]) ELSE G[m - 1]
      <4>1. CASE m = n + 1
        <5>1. m # 0 /\ m - 1 = n /\ n \in 0..(n + 1) /\ n # n + 1
          BY <1>1, <4>1
        <5>2. G[m - 1] = F[n]
          BY <5>1
        <5> QED
          BY <4>1, <5>1, <5>2
      <4>2. CASE m # n + 1
        <5>1. m \in 0..n
          BY <1>1, <4>2
        <5>2. G[m] = F[m]
          BY <4>2
        <5>3. F[m] = IF m = 0 THEN << >> ELSE IF m \in P THEN Append(F[m - 1], s[m]) ELSE F[m - 1]
          BY <3>1, <5>1
        <5>4. m # 0 => G[m - 1] = F[m - 1]
          BY <5>1
        <5> HIDE DEF G
        <5> QED
          BY <5>2, <5>3, <5>4
      <4> QED
        BY <4>1, <4>2
    <3>3. G = [m \in 0..(n + 1) |-> G[m]]
      OBVIOUS
    <3> HIDE DEF G
    <3>4. Made(G, n + 1)
      BY <3>2, <3>3
    <3>5. n + 1 \in 0..N
      BY <1>1, <2>2
    <3> QED
      BY <3>4, <3>5
  <2> HIDE DEF T
  <2>3. \A n \in 0..N : n \in T
    BY <1>1, <2>1, <2>2, InductionUpTo
  <2> QED
    BY <2>3 DEF T
<1>3. PICK f : Made(f, N) /\ Sublist(s, P) = f[N]
  <2> DEFINE f == CHOOSE f : Made(f, N)
  <2> HIDE DEF Made
  <2>0. N \in 0..N
    BY <1>1
  <2>1. \E F : Made(F, N)
    BY <1>2, <2>0
  <2> USE DEF Made
  <2>2. Made(f, N)
    BY <2>1
  <2>3. Sublist(s, P) = f[N]
    BY DEF Sublist
  <2> HIDE DEF f
  <2> QED
    BY <2>2, <2>3
<1>4. /\ f[0] = << >>
      /\ \A n \in 0..N : n < N => f[n + 1] = IF n + 1 \in P THEN Append(f[n], s[n + 1]) ELSE f[n]
  <2>1. \A m \in 0..N : f[m] = IF m = 0 THEN << >> ELSE IF m \in P THEN Append(f[m - 1], s[m]) ELSE f[m - 1]
    BY <1>3
  <2>2. \A n \in 0..N : n < N => n + 1 \in 0..N /\ n + 1 # 0 /\ (n + 1) - 1 = n
    BY <1>1
  <2>3. 0 \in 0..N
    BY <1>1
  <2> HIDE DEF Made
  <2> QED
    BY <2>1, <2>2, <2>3
<1> HIDE DEF Made
<1>5. \A n \in 0..N : f[n] \in Seq(S) /\ Enumerates(f[n], n)
  <2> DEFINE T == {n \in 0..N : f[n] \in Seq(S) /\ Enumerates(f[n], n)}
  <2>1. 0 \in T
    <3>1. << >> \in Seq(S) /\ Len(<< >>) = 0
      BY EmptySeq
    <3>2. Enumerates(<< >>, 0)
      <4> DEFINE g == [i \in 1..0 |-> 0]
                 e == << >>
      <4>1. 1..0 = {} /\ Len(e) = 0
        OBVIOUS
      <4>2. g \in [1..Len(e) -> 1..0]
        BY <4>1
      <4>3. /\ \A i \in 1..Len(e) : g[i] \in P /\ e[i] = s[g[i]]
            /\ \A i, k \in 1..Len(e) : i < k => g[i] < g[k]
            /\ \A p \in 1..0 : p \in P => \E i \in 1..Len(e) : g[i] = p
        BY <4>1
      <4> HIDE DEF g, e
      <4>4. Enumerates(e, 0)
        BY <4>2, <4>3
      <4> QED
        BY <4>4 DEF e
    <3>3. 0 \in 0..N
      BY <1>1
    <3> HIDE DEF Enumerates
    <3> QED
      BY <1>4, <3>1, <3>2, <3>3
  <2>2. ASSUME NEW n \in 0..N, n < N, n \in T PROVE n + 1 \in T
    <3>1. n + 1 \in 1..N /\ n + 1 \in 0..N /\ n \in Nat /\ s[n + 1] \in S
      BY <1>1, <2>2
    <3> DEFINE t == f[n]
               u == f[n + 1]
    <3>2. t \in Seq(S) /\ Len(t) \in Nat
      BY <2>2, LenProperties
    <3>3. PICK g \in [1..Len(t) -> 1..n] :
              /\ \A i \in 1..Len(t) : g[i] \in P /\ t[i] = s[g[i]]
              /\ \A i, k \in 1..Len(t) : i < k => g[i] < g[k]
              /\ \A p \in 1..n : p \in P => \E i \in 1..Len(t) : g[i] = p
      BY <2>2
    <3> HIDE DEF t, u
    <3>4. \A i \in 1..Len(t) : g[i] \in 1..n /\ g[i] \in 1..(n + 1) /\ g[i] < n + 1
      BY <3>1, <3>3
    <3>5. \A p \in 1..(n + 1) : p \in 1..n \/ p = n + 1
      BY <3>1
    <3>6. CASE n + 1 \in P
      <4>1. u = Append(t, s[n + 1])
        BY <1>4, <2>2, <3>6 DEF t, u
      <4>2. /\ u \in Seq(S) /\ Len(u) = Len(t) + 1 /\ u[Len(t) + 1] = s[n + 1]
            /\ \A i \in 1..Len(t) : u[i] = t[i]
        BY <3>1, <3>2, <4>1, AppendProperties
      <4> DEFINE h == [i \in 1..Len(u) |-> IF i = Len(u) THEN n + 1 ELSE g[i]]
      <4>3. \A i \in 1..Len(u) : i = Len(u) \/ i \in 1..Len(t)
        BY <3>2, <4>2
      <4>4. \A i \in 1..Len(t) : i \in 1..Len(u) /\ i # Len(u)
        BY <3>2, <4>2
      <4>5. Len(u) \in 1..Len(u)
        BY <3>2, <4>2
      <4>6. (\A i \in 1..Len(t) : h[i] = g[i]) /\ h[Len(u)] = n + 1 /\ DOMAIN h = 1..Len(u)
        BY <4>4, <4>5
      <4>7. h \in [1..Len(u) -> 1..(n + 1)]
        BY <3>1, <3>4, <4>3
      <4> HIDE DEF h
      <4>8. \A i \in 1..Len(u) : h[i] \in P /\ u[i] = s[h[i]]
        BY <3>3, <3>6, <4>2, <4>3, <4>6
      <4>9. \A i, k \in 1..Len(u) : i < k => h[i] < h[k]
        <5>1. \A i, k \in 1..Len(u) : i < k => i \in 1..Len(t)
          BY <3>2, <4>2
        <5> QED
          BY <3>3, <3>4, <4>3, <4>6, <5>1
      <4>10. \A p \in 1..(n + 1) : p \in P => \E i \in 1..Len(u) : h[i] = p
        BY <3>3, <3>5, <4>4, <4>5, <4>6
      <4>11. Enumerates(u, n + 1)
        BY <4>7, <4>8, <4>9, <4>10
      <4> QED
        BY <3>1, <4>2, <4>11 DEF u
    <3>7. CASE n + 1 \notin P
      <4>1. u = t
        BY <1>4, <2>2, <3>7 DEF t, u
      <4>2. g \in [1..Len(t) -> 1..(n + 1)]
        BY <3>4
      <4>3. \A p \in 1..(n + 1) : p \in P => \E i \in 1..Len(t) : g[i] = p
        BY <3>3, <3>5, <3>7
      <4>4. Enumerates(t, n + 1)
        BY <3>3, <4>2, <4>3
      <4> HIDE DEF Enumerates
      <4> QED
        BY <3>1, <3>2, <4>1, <4>4 DEF u
    <3> QED
      BY <3>6, <3>7
  <2> HIDE DEF T
  <2>3. \A n \in 0..N : n \in T
    BY <1>1, <2>1, <2>2, InductionUpTo
  <2> QED
    BY <2>3 DEF T
<1> HIDE DEF Enumerates
<1>6. N \in 0..N
  BY <1>1
<1>7. Sublist(s, P) \in Seq(S) /\ Enumerates(Sublist(s, P), N)
  BY <1>3, <1>5, <1>6, Zenon
<1> QED
  BY <1>7, Zenon DEF Enumerates

\* Removing the element at position i moves those behind it forward by one.
LEMMA RemoveAtIs ==
    ASSUME NEW S, NEW s \in Seq(S), NEW i \in 1..Len(s)
    PROVE  /\ RemoveAt(s, i) \in Seq(S) /\ Len(RemoveAt(s, i)) = Len(s) - 1
           /\ \A j \in 1..(Len(s) - 1) : RemoveAt(s, i)[j] = IF j < i THEN s[j] ELSE s[j + 1]
<1> DEFINE a == SubSeq(s, 1, i - 1)
           c == SubSeq(s, i + 1, Len(s))
<1>1. Len(s) \in Nat /\ i \in Nat /\ i >= 1 /\ i <= Len(s)
  BY LenProperties
<1>2. \A j \in 1..Len(s) : s[j] \in S
  BY ElementOfSeq
<1>3. /\ a \in Seq(S) /\ Len(a) = i - 1 /\ \A j \in 1..(i - 1) : a[j] = s[j]
  <2>1. /\ 1 \in Int /\ i - 1 \in Int /\ \A j \in 1..(i - 1) : s[j] \in S
    BY <1>1, <1>2
  <2>2. /\ a \in Seq(S) /\ Len(a) = (IF 1 <= i - 1 THEN (i - 1) - 1 + 1 ELSE 0)
        /\ \A j \in 1..((i - 1) - 1 + 1) : a[j] = s[1 + j - 1]
    BY <2>1, SubSeqProperties
  <2> QED
    BY <1>1, <2>2
<1>4. /\ c \in Seq(S) /\ Len(c) = Len(s) - i
      /\ \A j \in 1..(Len(s) - i) : c[j] = s[i + j]
  <2>1. /\ i + 1 \in Int /\ Len(s) \in Int /\ \A j \in (i + 1)..Len(s) : s[j] \in S
    BY <1>1, <1>2
  <2>2. /\ c \in Seq(S) /\ Len(c) = (IF i + 1 <= Len(s) THEN Len(s) - (i + 1) + 1 ELSE 0)
        /\ \A j \in 1..(Len(s) - (i + 1) + 1) : c[j] = s[(i + 1) + j - 1]
    BY <2>1, SubSeqProperties
  <2> QED
    BY <1>1, <2>2
<1> HIDE DEF a, c
<1>5. /\ a \o c \in Seq(S) /\ Len(a \o c) = Len(a) + Len(c)
      /\ \A j \in 1..(Len(a) + Len(c)) : (a \o c)[j] = IF j <= Len(a) THEN a[j] ELSE c[j - Len(a)]
  BY <1>3, <1>4, ConcatProperties
<1>6. RemoveAt(s, i) = a \o c
  BY DEF RemoveAt, a, c
<1>7. Len(a) + Len(c) = Len(s) - 1
  BY <1>1, <1>3, <1>4
<1>8. ASSUME NEW j \in 1..(Len(s) - 1)
      PROVE  (a \o c)[j] = IF j < i THEN s[j] ELSE s[j + 1]
  <2>1. CASE j < i
    <3>1. j \in 1..(i - 1) /\ j <= Len(a)
      BY <1>1, <1>3, <2>1
    <3> QED
      BY <1>3, <1>5, <1>7, <2>1, <3>1
  <2>2. CASE ~(j < i)
    <3>1. /\ j - Len(a) \in 1..(Len(s) - i) /\ ~(j <= Len(a))
          /\ i + (j - Len(a)) = j + 1
      BY <1>1, <1>3, <2>2
    <3>2. c[j - Len(a)] = s[j + 1]
      BY <1>4, <3>1
    <3> QED
      BY <1>5, <1>7, <2>2, <3>1, <3>2
  <2> QED
    BY <2>1, <2>2
<1> QED
  BY <1>5, <1>6, <1>7, <1>8

\* s holds each element of T once, in the order of their keys.
Ordered(s, T, key) ==
    /\ \A i \in 1..Len(s) : s[i] \in T
    /\ \A t \in T : \E i \in 1..Len(s) : s[i] = t
    /\ \A i, j \in 1..Len(s) : i < j => s[i] # s[j] /\ key[s[i]] <= key[s[j]]

\* Inserting an element behind the first k.
LEMMA InsertBehind ==
    ASSUME NEW S, NEW s \in Seq(S), NEW e \in S, NEW k \in 0..Len(s)
    PROVE  /\ InsertAt(s, k + 1, e) \in Seq(S) /\ Len(InsertAt(s, k + 1, e)) = Len(s) + 1
           /\ \A j \in 1..(Len(s) + 1) :
                 /\ j < k + 1 => InsertAt(s, k + 1, e)[j] = s[j]
                 /\ j = k + 1 => InsertAt(s, k + 1, e)[j] = e
                 /\ j > k + 1 => InsertAt(s, k + 1, e)[j] = s[j - 1]
<1> DEFINE p == k + 1
<1>1. p \in 1..(Len(s) + 1) /\ k \in Int
  BY LenProperties
<1> HIDE DEF p
<1>2. InsertAt(s, p, e) \in Seq(S) /\ Len(InsertAt(s, p, e)) = Len(s) + 1
  BY <1>1, InsertAtIs
<1>3. \A j \in 1..(Len(s) + 1) :
         InsertAt(s, p, e)[j] = IF j < p THEN s[j] ELSE IF j = p THEN e ELSE s[j - 1]
  BY <1>1, InsertAtIs
<1>4. \A j \in 1..(Len(s) + 1) :
         /\ j < p => InsertAt(s, p, e)[j] = s[j]
         /\ j = p => InsertAt(s, p, e)[j] = e
         /\ j > p => InsertAt(s, p, e)[j] = s[j - 1]
  BY <1>1, <1>3
<1> QED
  BY <1>2, <1>4 DEF p

\* Inserting a new element between those with smaller and those with larger keys.
LEMMA InsertOrdered ==
    ASSUME NEW S, NEW s \in Seq(S), NEW T, NEW key, Ordered(s, T, key),
           NEW e \in S, e \notin T, NEW key2, \A t \in T : key2[t] = key[t],
           NEW k \in 0..Len(s), \A j \in 1..k : key2[s[j]] <= key2[e],
           \A j \in (k + 1)..Len(s) : key2[e] <= key2[s[j]]
    PROVE  /\ InsertAt(s, k + 1, e) \in Seq(S) /\ Len(InsertAt(s, k + 1, e)) = Len(s) + 1
           /\ Ordered(InsertAt(s, k + 1, e), T \cup {e}, key2)
<1> DEFINE r == InsertAt(s, k + 1, e)
           L == Len(s)
<1>1. L \in Nat
  BY LenProperties
<1>2. k + 1 \in 1..(L + 1)
  BY <1>1
<1>3. /\ r \in Seq(S) /\ Len(r) = L + 1
      /\ \A j \in 1..(L + 1) : /\ j < k + 1 => r[j] = s[j]
                               /\ j = k + 1 => r[j] = e
                               /\ j > k + 1 => r[j] = s[j - 1]
  BY InsertBehind
<1> HIDE DEF r, L
<1>4. /\ \A j \in 1..L : s[j] \in T
      /\ \A t \in T : \E j \in 1..L : s[j] = t
      /\ \A i, j \in 1..L : i < j => s[i] # s[j] /\ key2[s[i]] <= key2[s[j]]
  BY DEF Ordered, L
<1>5. ASSUME NEW j \in 1..(L + 1)
      PROVE  \/ j \in 1..k /\ j \in 1..L /\ r[j] = s[j]
             \/ j = k + 1 /\ r[j] = e
             \/ j - 1 \in (k + 1)..L /\ j - 1 \in 1..L /\ r[j] = s[j - 1]
  <2>1. CASE j < k + 1
    <3>1. j \in 1..k /\ j \in 1..L
      BY <1>1, <1>2, <2>1
    <3> QED
      BY <1>3, <2>1, <3>1
  <2>2. CASE j = k + 1
    BY <1>3, <2>2
  <2>3. CASE j > k + 1
    <3>1. j - 1 \in (k + 1)..L /\ j - 1 \in 1..L
      BY <1>1, <1>2, <2>3
    <3> QED
      BY <1>3, <2>3, <3>1
  <2> QED
    BY <2>1, <2>2, <2>3
<1>6. \A j \in 1..(L + 1) : r[j] \in T \cup {e}
  BY <1>4, <1>5
<1>7. ASSUME NEW t \in T \cup {e} PROVE \E j \in 1..(L + 1) : r[j] = t
  <2>1. CASE t = e
    <3>1. k + 1 \in 1..(L + 1) /\ r[k + 1] = e
      BY <1>2, <1>3
    <3> QED
      BY <2>1, <3>1
  <2>2. CASE t \in T
    <3>1. PICK j \in 1..L : s[j] = t
      BY <1>4, <2>2
    <3>2. CASE j < k + 1
      <4>1. j \in 1..(L + 1)
        BY <1>1
      <4> QED
        BY <1>3, <3>1, <3>2, <4>1
    <3>3. CASE ~(j < k + 1)
      <4>1. j + 1 \in 1..(L + 1) /\ j + 1 > k + 1 /\ (j + 1) - 1 = j
        BY <1>1, <3>3
      <4>2. r[j + 1] = s[j]
        BY <1>3, <4>1
      <4> QED
        BY <3>1, <4>1, <4>2
    <3> QED
      BY <3>2, <3>3
  <2> QED
    BY <2>1, <2>2
<1>8. ASSUME NEW i \in 1..(L + 1), NEW j \in 1..(L + 1), i < j
      PROVE  r[i] # r[j] /\ key2[r[i]] <= key2[r[j]]
  <2>0. k \in Nat
    BY <1>1 DEF L
  <2>1. CASE i \in 1..k /\ i \in 1..L /\ r[i] = s[i]
    <3>1. CASE j \in 1..k /\ j \in 1..L /\ r[j] = s[j]
      BY <1>4, <1>8, <2>1, <3>1
    <3>2. CASE j = k + 1 /\ r[j] = e
      BY <1>4, <2>1, <3>2
    <3>3. CASE j - 1 \in (k + 1)..L /\ j - 1 \in 1..L /\ r[j] = s[j - 1]
      <4>1. i < j - 1
        BY <2>0, <2>1, <3>3
      <4> QED
        BY <1>4, <2>1, <3>3, <4>1
    <3> QED
      BY <1>5, <3>1, <3>2, <3>3
  <2>2. CASE i = k + 1 /\ r[i] = e
    <3>1. j - 1 \in (k + 1)..L /\ j - 1 \in 1..L /\ r[j] = s[j - 1]
      <4>1. ~(j \in 1..k) /\ j # k + 1
        BY <1>8, <2>0, <2>2
      <4> QED
        BY <1>5, <4>1
    <3> QED
      BY <1>4, <2>2, <3>1 DEF L
  <2>3. CASE i - 1 \in (k + 1)..L /\ i - 1 \in 1..L /\ r[i] = s[i - 1]
    <3>1. ~(j \in 1..k) /\ j # k + 1
      BY <1>8, <2>0, <2>3
    <3>2. j - 1 \in 1..L /\ r[j] = s[j - 1]
      BY <1>5, <3>1
    <3>3. i - 1 < j - 1
      BY <1>8
    <3> QED
      BY <1>4, <2>3, <3>2, <3>3
  <2> QED
    BY <1>5, <2>1, <2>2, <2>3
<1>9. Ordered(r, T \cup {e}, key2)
  BY <1>3, <1>6, <1>7, <1>8 DEF Ordered
<1> QED
  BY <1>3, <1>9 DEF r, L

\* Where an element of a list is.
LEMMA PositionIs ==
    ASSUME NEW S, NEW s \in Seq(S), NEW T, NEW key, Ordered(s, T, key), NEW e \in T
    PROVE  LET I == {i \in 1..Len(s) : s[i] = e} IN
           /\ I # {} /\ Min(I) \in 1..Len(s) /\ s[Min(I)] = e
           /\ \A j \in 1..Len(s) : s[j] = e => j = Min(I)
<1> DEFINE I == {i \in 1..Len(s) : s[i] = e}
<1>2. PICK q \in 1..Len(s) : s[q] = e
  BY DEF Ordered
<1>3. I \in SUBSET Nat /\ I # {}
  BY <1>2
<1>4. Min(I) \in I
  BY <1>3, MinIsLeast
<1>5. \A i, j \in 1..Len(s) : s[i] = e /\ s[j] = e => i = j
  <2>1. Len(s) \in Nat
    BY LenProperties
  <2>2. \A i, j \in 1..Len(s) : i < j => s[i] # s[j]
    BY DEF Ordered
  <2>3. \A i, j \in 1..Len(s) : i < j \/ i = j \/ j < i
    BY <2>1
  <2> QED
    BY <2>2, <2>3
<1> QED
  BY <1>3, <1>4, <1>5

\* Removing it leaves the others in their order.
LEMMA RemoveOrdered ==
    ASSUME NEW S, NEW s \in Seq(S), NEW T, NEW key, Ordered(s, T, key), NEW e
    PROVE  /\ RemoveFirst(s, e) \in Seq(S)
           /\ Ordered(RemoveFirst(s, e), T \ {e}, key)
<1> DEFINE p == SelectInSeq(s, LAMBDA v : v = e)
           r == RemoveFirst(s, e)
           L == Len(s)
<1>1. CASE e \notin T
  <2>1. ~\E i \in 1..Len(s) : s[i] = e
    BY <1>1 DEF Ordered
  <2>2. r = s
    BY <2>1 DEF RemoveFirst
  <2>3. T \ {e} = T
    BY <1>1
  <2> QED
    BY <2>2, <2>3
<1>2. CASE e \in T
  <2>1. p \in 1..L /\ s[p] = e /\ \A j \in 1..L : s[j] = e => j = p
    <3> DEFINE I == {i \in 1..Len(s) : s[i] = e}
    <3>1. /\ I # {} /\ Min(I) \in 1..Len(s) /\ s[Min(I)] = e
          /\ \A j \in 1..Len(s) : s[j] = e => j = Min(I)
      BY <1>2, PositionIs
    <3>2. p = IF I # {} THEN Min(I) ELSE 0
      BY DEF SelectInSeq
    <3> HIDE DEF p, I
    <3> QED
      BY <3>1, <3>2
  <2>2. r = RemoveAt(s, p)
    BY <2>1 DEF RemoveFirst
  <2> HIDE DEF p, r
  <2>3. /\ r \in Seq(S) /\ Len(r) = L - 1 /\ L \in Nat
        /\ \A j \in 1..(L - 1) : r[j] = IF j < p THEN s[j] ELSE s[j + 1]
    BY <2>1, <2>2, RemoveAtIs, LenProperties
  <2>4. /\ \A j \in 1..L : s[j] \in T
        /\ \A t \in T : \E j \in 1..L : s[j] = t
        /\ \A i, j \in 1..L : i < j => s[i] # s[j] /\ key[s[i]] <= key[s[j]]
    BY DEF Ordered
  <2> HIDE DEF L
  <2>5. ASSUME NEW j \in 1..(L - 1)
        PROVE  \E i \in 1..L : /\ r[j] = s[i] /\ i # p
                               /\ (j < p => i = j) /\ (~(j < p) => i = j + 1)
    <3>1. CASE j < p
      <4>1. j \in 1..L /\ j # p
        BY <2>1, <2>3, <3>1
      <4> QED
        BY <2>3, <3>1, <4>1
    <3>2. CASE ~(j < p)
      <4>1. j + 1 \in 1..L /\ j + 1 # p
        BY <2>1, <2>3, <3>2
      <4> QED
        BY <2>3, <3>2, <4>1
    <3> QED
      BY <3>1, <3>2
  <2>6. \A j \in 1..(L - 1) : r[j] \in T \ {e}
    BY <2>1, <2>4, <2>5
  <2>7. ASSUME NEW t \in T \ {e} PROVE \E j \in 1..(L - 1) : r[j] = t
    <3>1. PICK j \in 1..L : s[j] = t
      BY <2>4
    <3>2. j # p
      BY <2>1, <3>1
    <3>3. CASE j < p
      <4>1. j \in 1..(L - 1)
        BY <2>1, <2>3, <3>3
      <4> QED
        BY <2>3, <3>1, <3>3, <4>1
    <3>4. CASE ~(j < p)
      <4>1. j - 1 \in 1..(L - 1) /\ ~(j - 1 < p) /\ (j - 1) + 1 = j
        BY <2>1, <2>3, <3>2, <3>4
      <4>2. r[j - 1] = s[j]
        BY <2>3, <4>1
      <4> QED
        BY <3>1, <4>1, <4>2
    <3> QED
      BY <3>3, <3>4
  <2>8. ASSUME NEW i \in 1..(L - 1), NEW j \in 1..(L - 1), i < j
        PROVE  r[i] # r[j] /\ key[r[i]] <= key[r[j]]
    <3>1. PICK a \in 1..L : r[i] = s[a] /\ (i < p => a = i) /\ (~(i < p) => a = i + 1)
      BY <2>5
    <3>2. PICK b \in 1..L : r[j] = s[b] /\ (j < p => b = j) /\ (~(j < p) => b = j + 1)
      BY <2>5
    <3>3. a < b
      BY <2>1, <2>3, <2>8, <3>1, <3>2
    <3> QED
      BY <2>4, <3>1, <3>2, <3>3
  <2>9. Ordered(r, T \ {e}, key)
    BY <2>3, <2>6, <2>7, <2>8 DEF Ordered
  <2> QED
    BY <2>3, <2>9 DEF r
<1> QED
  BY <1>1, <1>2

\* The recursion behind SumOver, in steps.
LEMMA SumOverSteps ==
    ASSUME NEW f, NEW S, NEW N \in Nat
    PROVE  \E sum : /\ SumOver(f, S, N) = sum[N + 1] /\ sum[0] = 0
                    /\ \A n \in 0..N : sum[n + 1] = sum[n] + (IF n \in S THEN f[n] ELSE 0)
<1> DEFINE Made(F, n) == F = [m \in 0..n |-> IF m = 0 THEN 0
                                             ELSE F[m - 1] + (IF m - 1 \in S THEN f[m - 1] ELSE 0)]
<1>1. \A n \in 0..(N + 1) : \E F : Made(F, n)
  <2> DEFINE T == {n \in 0..(N + 1) : \E F : Made(F, n)}
  <2>1. 0 \in T
    <3>1. Made([m \in 0..0 |-> 0], 0)
      OBVIOUS
    <3> HIDE DEF Made
    <3>2. \E F : Made(F, 0)
      BY <3>1
    <3> QED
      BY <3>2
  <2>2. ASSUME NEW n \in 0..(N + 1), n < N + 1, n \in T PROVE n + 1 \in T
    <3>1. PICK F : Made(F, n)
      BY <2>2
    <3> DEFINE G == [m \in 0..(n + 1) |-> IF m = n + 1 THEN F[n] + (IF n \in S THEN f[n] ELSE 0)
                                          ELSE F[m]]
    <3>2. ASSUME NEW m \in 0..(n + 1)
          PROVE  G[m] = IF m = 0 THEN 0 ELSE G[m - 1] + (IF m - 1 \in S THEN f[m - 1] ELSE 0)
      <4>1. CASE m = n + 1
        <5>1. m # 0 /\ m - 1 = n /\ n \in 0..(n + 1) /\ n # n + 1
          BY <4>1
        <5>2. G[m - 1] = F[n]
          BY <5>1
        <5> QED
          BY <4>1, <5>1, <5>2
      <4>2. CASE m # n + 1
        <5>1. m \in 0..n
          BY <4>2
        <5>2. G[m] = F[m]
          BY <4>2
        <5>3. F[m] = IF m = 0 THEN 0 ELSE F[m - 1] + (IF m - 1 \in S THEN f[m - 1] ELSE 0)
          BY <3>1, <5>1
        <5>4. m # 0 => G[m - 1] = F[m - 1]
          BY <5>1
        <5> HIDE DEF G
        <5> QED
          BY <5>2, <5>3, <5>4
      <4> QED
        BY <4>1, <4>2
    <3>3. G = [m \in 0..(n + 1) |-> G[m]]
      OBVIOUS
    <3> HIDE DEF G
    <3>4. Made(G, n + 1)
      BY <3>2, <3>3
    <3>5. n + 1 \in 0..(N + 1)
      BY <2>2
    <3> QED
      BY <3>4, <3>5
  <2> HIDE DEF T
  <2>3. N + 1 \in Nat
    OBVIOUS
  <2>4. \A n \in 0..(N + 1) : n \in T
    BY <2>1, <2>2, <2>3, InductionUpTo
  <2> QED
    BY <2>4 DEF T
<1>2. PICK sum : Made(sum, N + 1) /\ SumOver(f, S, N) = sum[N + 1]
  <2> DEFINE sum == CHOOSE sum : Made(sum, N + 1)
  <2> HIDE DEF Made
  <2>1. \E F : Made(F, N + 1)
    BY <1>1
  <2> USE DEF Made
  <2>2. Made(sum, N + 1)
    BY <2>1
  <2>3. SumOver(f, S, N) = sum[N + 1]
    BY DEF SumOver
  <2> HIDE DEF sum
  <2> QED
    BY <2>2, <2>3
<1>3. \A m \in 0..(N + 1) : sum[m] = IF m = 0 THEN 0 ELSE sum[m - 1] + (IF m - 1 \in S THEN f[m - 1] ELSE 0)
  BY <1>2
<1> HIDE DEF Made
<1>4. sum[0] = 0
  BY <1>3
<1>5. ASSUME NEW n \in 0..N PROVE sum[n + 1] = sum[n] + (IF n \in S THEN f[n] ELSE 0)
  <2>1. n + 1 \in 0..(N + 1) /\ n + 1 # 0 /\ (n + 1) - 1 = n
    OBVIOUS
  <2> QED
    BY <1>3, <2>1
<1> QED
  BY <1>2, <1>4, <1>5

\* The sum of natural numbers is one, and depends only on what f is on S.
LEMMA SumOverIs ==
    ASSUME NEW f, NEW g, NEW S, NEW N \in Nat,
           \A x \in S : x \in 0..N => f[x] \in Nat /\ g[x] = f[x]
    PROVE  SumOver(f, S, N) \in Nat /\ SumOver(g, S, N) = SumOver(f, S, N)
<1>1. PICK a : /\ SumOver(f, S, N) = a[N + 1] /\ a[0] = 0
               /\ \A n \in 0..N : a[n + 1] = a[n] + (IF n \in S THEN f[n] ELSE 0)
  BY SumOverSteps
<1>2. PICK b : /\ SumOver(g, S, N) = b[N + 1] /\ b[0] = 0
               /\ \A n \in 0..N : b[n + 1] = b[n] + (IF n \in S THEN g[n] ELSE 0)
  BY SumOverSteps
<1> DEFINE T == {n \in 0..(N + 1) : a[n] \in Nat /\ b[n] = a[n]}
<1>3. 0 \in T
  BY <1>1, <1>2
<1>4. ASSUME NEW n \in 0..(N + 1), n < N + 1, n \in T PROVE n + 1 \in T
  <2>1. n \in 0..N /\ n + 1 \in 0..(N + 1) /\ a[n] \in Nat /\ b[n] = a[n]
    BY <1>4
  <2>2. a[n + 1] = a[n] + (IF n \in S THEN f[n] ELSE 0) /\ b[n + 1] = b[n] + (IF n \in S THEN g[n] ELSE 0)
    BY <1>1, <1>2, <2>1
  <2>3. n \in S => f[n] \in Nat /\ g[n] = f[n]
    BY <2>1
  <2> QED
    BY <2>1, <2>2, <2>3
<1> HIDE DEF T
<1>5. N + 1 \in Nat
  OBVIOUS
<1>6. \A n \in 0..(N + 1) : n \in T
  BY <1>3, <1>4, <1>5, InductionUpTo
<1>7. N + 1 \in T
  BY <1>6
<1> QED
  BY <1>1, <1>2, <1>7 DEF T

\* One more number adds its value.
LEMMA SumOverAdd ==
    ASSUME NEW f, NEW S, NEW N \in Nat, NEW x \in 0..N, x \notin S,
           \A y \in S \cup {x} : y \in 0..N => f[y] \in Nat
    PROVE  SumOver(f, S \cup {x}, N) = SumOver(f, S, N) + f[x]
<1> DEFINE R == S \cup {x}
<1>1. PICK a : /\ SumOver(f, S, N) = a[N + 1] /\ a[0] = 0
               /\ \A n \in 0..N : a[n + 1] = a[n] + (IF n \in S THEN f[n] ELSE 0)
  BY SumOverSteps
<1>2. PICK b : /\ SumOver(f, R, N) = b[N + 1] /\ b[0] = 0
               /\ \A n \in 0..N : b[n + 1] = b[n] + (IF n \in R THEN f[n] ELSE 0)
  BY SumOverSteps
<1>3. \A y : y \in R <=> y \in S \/ y = x
  OBVIOUS
<1> HIDE DEF R
<1> DEFINE T == {n \in 0..(N + 1) : a[n] \in Nat /\ b[n] = a[n] + (IF x < n THEN f[x] ELSE 0)}
<1>4. 0 \in T
  BY <1>1, <1>2
<1>5. ASSUME NEW n \in 0..(N + 1), n < N + 1, n \in T PROVE n + 1 \in T
  <2>1. n \in 0..N /\ n + 1 \in 0..(N + 1) /\ a[n] \in Nat /\ b[n] = a[n] + (IF x < n THEN f[x] ELSE 0)
    BY <1>5
  <2>2. a[n + 1] = a[n] + (IF n \in S THEN f[n] ELSE 0) /\ b[n + 1] = b[n] + (IF n \in R THEN f[n] ELSE 0)
    BY <1>1, <1>2, <2>1
  <2>3. (n \in S => f[n] \in Nat) /\ f[x] \in Nat
    BY <2>1, <1>3
  <2>4. CASE n = x
    <3>1. n \in R /\ n \notin S /\ x < n + 1 /\ ~(x < n)
      BY <1>3, <2>4
    <3> QED
      BY <2>1, <2>2, <2>3, <2>4, <3>1
  <2>5. CASE n # x
    <3>1. (n \in R <=> n \in S) /\ (x < n + 1 <=> x < n)
      BY <1>3, <2>1, <2>5
    <3> QED
      BY <2>1, <2>2, <2>3, <3>1
  <2> QED
    BY <2>4, <2>5
<1> HIDE DEF T
<1>6. N + 1 \in Nat
  OBVIOUS
<1>7. \A n \in 0..(N + 1) : n \in T
  BY <1>4, <1>5, <1>6, InductionUpTo
<1>8. N + 1 \in T /\ x < N + 1
  BY <1>7
<1> QED
  BY <1>1, <1>2, <1>8 DEF T, R

\* The sum over two disjoint sets is the sum over each.
LEMMA SumOverUnion ==
    ASSUME NEW f, NEW S, NEW R, NEW N \in Nat, S \cap R = {},
           \A y \in S \cup R : y \in 0..N => f[y] \in Nat
    PROVE  SumOver(f, S \cup R, N) = SumOver(f, S, N) + SumOver(f, R, N)
<1> DEFINE U == S \cup R
<1>1. PICK a : /\ SumOver(f, S, N) = a[N + 1] /\ a[0] = 0
               /\ \A n \in 0..N : a[n + 1] = a[n] + (IF n \in S THEN f[n] ELSE 0)
  BY SumOverSteps
<1>2. PICK b : /\ SumOver(f, R, N) = b[N + 1] /\ b[0] = 0
               /\ \A n \in 0..N : b[n + 1] = b[n] + (IF n \in R THEN f[n] ELSE 0)
  BY SumOverSteps
<1>3. PICK c : /\ SumOver(f, U, N) = c[N + 1] /\ c[0] = 0
               /\ \A n \in 0..N : c[n + 1] = c[n] + (IF n \in U THEN f[n] ELSE 0)
  BY SumOverSteps
<1>4. \A y : (y \in U <=> y \in S \/ y \in R) /\ ~(y \in S /\ y \in R)
  OBVIOUS
<1>5. \A y \in U : y \in 0..N => f[y] \in Nat
  OBVIOUS
<1> HIDE DEF U
<1> DEFINE T == {n \in 0..(N + 1) : a[n] \in Nat /\ b[n] \in Nat /\ c[n] = a[n] + b[n]}
<1>6. 0 \in T
  BY <1>1, <1>2, <1>3
<1>7. ASSUME NEW n \in 0..(N + 1), n < N + 1, n \in T PROVE n + 1 \in T
  <2>1. /\ n \in 0..N /\ n + 1 \in 0..(N + 1)
        /\ a[n] \in Nat /\ b[n] \in Nat /\ c[n] = a[n] + b[n]
    BY <1>7
  <2>2. /\ a[n + 1] = a[n] + (IF n \in S THEN f[n] ELSE 0)
        /\ b[n + 1] = b[n] + (IF n \in R THEN f[n] ELSE 0)
        /\ c[n + 1] = c[n] + (IF n \in U THEN f[n] ELSE 0)
    BY <1>1, <1>2, <1>3, <2>1
  <2>3. n \in U => f[n] \in Nat
    BY <1>5, <2>1
  <2> QED
    BY <1>4, <2>1, <2>2, <2>3
<1> HIDE DEF T
<1>8. N + 1 \in Nat
  OBVIOUS
<1>9. \A n \in 0..(N + 1) : n \in T
  BY <1>6, <1>7, <1>8, InductionUpTo
<1>10. N + 1 \in T
  BY <1>9
<1> QED
  BY <1>1, <1>2, <1>3, <1>10 DEF T, U

\* Nothing adds up to nothing.
LEMMA SumOverNone ==
    ASSUME NEW f, NEW N \in Nat
    PROVE  SumOver(f, {}, N) = 0
<1>1. PICK a : /\ SumOver(f, {}, N) = a[N + 1] /\ a[0] = 0
               /\ \A n \in 0..N : a[n + 1] = a[n] + (IF n \in {} THEN f[n] ELSE 0)
  BY SumOverSteps
<1> DEFINE T == {n \in 0..(N + 1) : a[n] = 0}
<1>2. 0 \in T
  BY <1>1
<1>3. ASSUME NEW n \in 0..(N + 1), n < N + 1, n \in T PROVE n + 1 \in T
  <2>1. n \in 0..N /\ n + 1 \in 0..(N + 1) /\ a[n] = 0
    BY <1>3
  <2>2. a[n + 1] = a[n] + 0
    BY <1>1, <2>1
  <2> QED
    BY <2>1, <2>2
<1> HIDE DEF T
<1>4. N + 1 \in Nat
  OBVIOUS
<1>5. \A n \in 0..(N + 1) : n \in T
  BY <1>2, <1>3, <1>4, InductionUpTo
<1>6. N + 1 \in T
  BY <1>5
<1> QED
  BY <1>1, <1>6 DEF T

\* The sum over S depends on the values at S alone.
LEMMA SumOverSame ==
    ASSUME NEW f, NEW g, NEW S, NEW N \in Nat, \A x \in S : x \in 0..N => g[x] = f[x]
    PROVE  SumOver(g, S, N) = SumOver(f, S, N)
<1>1. PICK a : /\ SumOver(f, S, N) = a[N + 1] /\ a[0] = 0
               /\ \A n \in 0..N : a[n + 1] = a[n] + (IF n \in S THEN f[n] ELSE 0)
  BY SumOverSteps
<1>2. PICK b : /\ SumOver(g, S, N) = b[N + 1] /\ b[0] = 0
               /\ \A n \in 0..N : b[n + 1] = b[n] + (IF n \in S THEN g[n] ELSE 0)
  BY SumOverSteps
<1> DEFINE T == {n \in 0..(N + 1) : b[n] = a[n]}
<1>3. 0 \in T
  BY <1>1, <1>2
<1>4. ASSUME NEW n \in 0..(N + 1), n < N + 1, n \in T PROVE n + 1 \in T
  <2>1. n \in 0..N /\ n + 1 \in 0..(N + 1) /\ b[n] = a[n]
    BY <1>4
  <2>2. (IF n \in S THEN f[n] ELSE 0) = (IF n \in S THEN g[n] ELSE 0)
    BY <2>1
  <2>3. a[n + 1] = b[n + 1]
    BY <1>1, <1>2, <2>1, <2>2
  <2> QED
    BY <2>1, <2>3
<1> HIDE DEF T
<1>5. \A n \in 0..(N + 1) : n \in T
  BY <1>3, <1>4, InductionUpTo
<1> QED
  BY <1>1, <1>2, <1>5 DEF T
=============================================================================
