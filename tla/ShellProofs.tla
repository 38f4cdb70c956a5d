---------------------------- MODULE ShellProofs ----------------------------
(***************************************************************************)
(* Proofs about Shell, for every set of commands and every bound on job    *)
(* ids: the job list stays sorted, no child is lost, a job keeps its id    *)
(* and its stopped mark tells the truth.                                   *)
(***************************************************************************)
EXTENDS Shell, ListProofs, TLAPS

Entries == [job_id : Nat, cmd : Cmds, is_stopped : BOOLEAN]

\* What JobListInv and EveryChildTracked say of a list l and its max_job_id m.
WellFormed(l, m) ==
    /\ \A i, k \in 1..Len(l) : i < k => l[i].job_id < l[k].job_id
    /\ m = LastId(l)
    /\ \A i \in 1..Len(l) : l[i].job_id > 0
    /\ \A i, k \in 1..Len(l) : l[i].cmd = l[k].cmd => i = k

\* The entries of a list.
In(l) == {l[i] : i \in 1..Len(l)}

\* The list l with the entry at i marked as stopped, or not; and that entry.
MarkedAs(l, i, s) == [l EXCEPT ![i].is_stopped = s]
MarkedEntry(l, i, s) == [job_id |-> l[i].job_id, cmd |-> l[i].cmd, is_stopped |-> s]

----------------------------------------------------------------------------
\* Entries are records with an id, a Command and a mark.
LEMMA EntryFacts ==
    ASSUME NEW e \in Entries
    PROVE  e.job_id \in Nat /\ e.cmd \in Cmds /\ e.is_stopped \in BOOLEAN
  BY DEF Entries

\* The elements of a list of entries are entries.
LEMMA InFacts ==
    ASSUME NEW l \in Seq(Entries)
    PROVE  /\ Len(l) \in Nat /\ In(l) \subseteq Entries
           /\ \A i \in 1..Len(l) : /\ l[i] \in In(l) /\ l[i] \in Entries
                                   /\ l[i].job_id \in Nat /\ l[i].cmd \in Cmds
           /\ \A e \in In(l) : \E i \in 1..Len(l) : e = l[i]
<1>1. Len(l) \in Nat /\ \A i \in 1..Len(l) : l[i] \in Entries
  BY LenProperties, ElementOfSeq
<1> QED
  BY <1>1, EntryFacts DEF In

\* The last id of a list: 0 of the empty one, else that of its last entry.
LEMMA LastIdIs ==
    ASSUME NEW l \in Seq(Entries)
    PROVE  /\ LastId(l) \in Nat
           /\ Len(l) = 0 => LastId(l) = 0
           /\ Len(l) > 0 => LastId(l) = l[Len(l)].job_id
<1>1. Len(l) \in Nat
  BY InFacts
<1>2. (Len(l) = 0) = (l = << >>)
  BY EmptySeq
<1>3. Len(l) > 0 => Len(l) \in 1..Len(l) /\ l[Len(l)].job_id \in Nat
  BY <1>1, InFacts
<1> QED
  BY <1>1, <1>2, <1>3 DEF LastId, Last

\* No id is above max_job_id, and two jobs with the same id, or the same Command, are one.
LEMMA WellFormedFacts ==
    ASSUME NEW l \in Seq(Entries), NEW m, WellFormed(l, m)
    PROVE  /\ m \in Nat
           /\ \A i \in 1..Len(l) : l[i].job_id <= m
           /\ \A e \in In(l) : e.job_id <= m /\ e.job_id > 0
           /\ \A e, f \in In(l) : e.job_id = f.job_id \/ e.cmd = f.cmd => e = f
<1>1. /\ Len(l) \in Nat
      /\ \A i \in 1..Len(l) : l[i].job_id \in Nat
      /\ \A e \in In(l) : \E i \in 1..Len(l) : e = l[i]
  BY InFacts
<1>2. /\ m = LastId(l) /\ m \in Nat
      /\ Len(l) > 0 => m = l[Len(l)].job_id
  BY LastIdIs DEF WellFormed
<1>3. ASSUME NEW i \in 1..Len(l) PROVE l[i].job_id <= m
  <2>1. Len(l) > 0 /\ Len(l) \in 1..Len(l) /\ (i < Len(l) \/ i = Len(l))
    BY <1>1
  <2>2. i < Len(l) => l[i].job_id < l[Len(l)].job_id
    BY <2>1 DEF WellFormed
  <2> QED
    BY <1>1, <1>2, <2>1, <2>2
<1>4. ASSUME NEW i \in 1..Len(l), NEW k \in 1..Len(l),
             l[i].job_id = l[k].job_id \/ l[i].cmd = l[k].cmd
      PROVE  i = k
  <2>1. i < k \/ i = k \/ k < i
    BY <1>1
  <2>2. /\ i < k => l[i].job_id < l[k].job_id
        /\ k < i => l[k].job_id < l[i].job_id
        /\ l[i].cmd = l[k].cmd => i = k
    BY DEF WellFormed
  <2>3. l[i].job_id \in Nat /\ l[k].job_id \in Nat
    BY <1>1
  <2> QED
    BY <1>4, <2>1, <2>2, <2>3
<1>5. \A e \in In(l) : e.job_id > 0
  BY <1>1 DEF WellFormed
<1>6. \A e, f \in In(l) : e.job_id = f.job_id \/ e.cmd = f.cmd => e = f
  <2> TAKE e \in In(l), f \in In(l)
  <2>1. PICK i \in 1..Len(l) : e = l[i]
    BY <1>1
  <2>2. PICK k \in 1..Len(l) : f = l[k]
    BY <1>1
  <2> QED
    BY <1>4, <2>1, <2>2
<1> QED
  BY <1>1, <1>2, <1>3, <1>5, <1>6

\* Erasing jobs keeps the list well formed, with max_job_id set back when the last job
\* was among them; what is left are the entries at the positions in P.
LEMMA ErasedList ==
    ASSUME NEW l \in Seq(Entries), NEW m, WellFormed(l, m), NEW P, NEW t, NEW j,
           t = Sublist(l, P), j.max = m
    PROVE  /\ t \in Seq(Entries) /\ WellFormed(t, MaxAfterErase(j, t))
           /\ MaxAfterErase(j, t) <= m
           /\ \A e \in In(t) : \E p \in 1..Len(l) : p \in P /\ e = l[p]
           /\ \A p \in 1..Len(l) : p \in P => l[p] \in In(t)
<1>1. /\ t \in Seq(Entries)
      /\ \E g \in [1..Len(t) -> 1..Len(l)] :
                 /\ \A i \in 1..Len(t) : g[i] \in P /\ t[i] = l[g[i]]
                 /\ \A i, k \in 1..Len(t) : i < k => g[i] < g[k]
                 /\ \A p \in 1..Len(l) : p \in P => \E i \in 1..Len(t) : g[i] = p
  BY SublistIs
<1>2. PICK g \in [1..Len(t) -> 1..Len(l)] :
                 /\ \A i \in 1..Len(t) : g[i] \in P /\ t[i] = l[g[i]]
                 /\ \A i, k \in 1..Len(t) : i < k => g[i] < g[k]
                 /\ \A p \in 1..Len(l) : p \in P => \E i \in 1..Len(t) : g[i] = p
  BY <1>1
<1>3. \A i \in 1..Len(t) : g[i] \in 1..Len(l)
  BY <1>2
<1>4. /\ m \in Nat /\ \A i \in 1..Len(l) : l[i].job_id <= m /\ l[i].job_id \in Nat
      /\ Len(l) \in Nat /\ Len(t) \in Nat
      /\ \A i \in 1..Len(t) : t[i].job_id \in Nat
  BY <1>1, WellFormedFacts, InFacts
<1>5. /\ \A i \in 1..Len(t) : t[i].job_id <= m
      /\ \A i, k \in 1..Len(t) : i < k => t[i].job_id < t[k].job_id
      /\ \A i \in 1..Len(t) : t[i].job_id > 0
      /\ \A i, k \in 1..Len(t) : t[i].cmd = t[k].cmd => g[i] = g[k]
  <2>1. /\ \A i, k \in 1..Len(l) : i < k => l[i].job_id < l[k].job_id
        /\ \A i \in 1..Len(l) : l[i].job_id > 0
        /\ \A i, k \in 1..Len(l) : l[i].cmd = l[k].cmd => i = k
    BY DEF WellFormed
  <2>2. \A i \in 1..Len(t) : t[i].job_id <= m /\ t[i].job_id > 0
    BY <1>2, <1>3, <1>4, <2>1
  <2>3. ASSUME NEW i \in 1..Len(t), NEW k \in 1..Len(t), i < k
        PROVE  t[i].job_id < t[k].job_id
    <3>1. g[i] \in 1..Len(l) /\ g[k] \in 1..Len(l) /\ t[i] = l[g[i]] /\ t[k] = l[g[k]]
      BY <1>2, <1>3
    <3>2. g[i] < g[k]
      BY <1>2, <2>3
    <3> QED
      BY <2>1, <3>1, <3>2
  <2>4. \A i, k \in 1..Len(t) : t[i].cmd = t[k].cmd => g[i] = g[k]
    BY <1>2, <1>3, <2>1
  <2> QED
    BY <2>2, <2>3, <2>4
<1>6. \A i, k \in 1..Len(t) : g[i] = g[k] => i = k
  <2>1. \A i, k \in 1..Len(t) : i < k \/ i = k \/ k < i
    BY <1>4
  <2>2. \A i, k \in 1..Len(t) : g[i] < g[k] => g[i] # g[k]
    BY <1>3, <1>4
  <2> QED
    BY <1>2, <2>1, <2>2
<1>7. /\ LastId(t) \in Nat
      /\ Len(t) = 0 => LastId(t) = 0
      /\ Len(t) > 0 => LastId(t) = t[Len(t)].job_id
  BY <1>1, LastIdIs
<1>8. LastId(t) <= m /\ MaxAfterErase(j, t) = LastId(t)
  <2>1. CASE Len(t) = 0
    BY <1>4, <1>7, <2>1 DEF MaxAfterErase
  <2>2. CASE Len(t) > 0
    <3>1. Len(t) \in 1..Len(t) /\ LastId(t) = t[Len(t)].job_id
      BY <1>4, <1>7, <2>2
    <3>2. \A i \in 1..Len(t) : i = Len(t) \/ i < Len(t)
      BY <1>4
    <3>3. \A i \in 1..Len(t) : t[i].job_id <= t[Len(t)].job_id
      BY <1>4, <1>5, <3>1, <3>2
    <3>4. ASSUME NEW i \in 1..Len(t), t[i].job_id = m PROVE m = LastId(t)
      <4>1. t[i].job_id <= t[Len(t)].job_id /\ t[Len(t)].job_id <= m
        BY <1>5, <3>1, <3>3
      <4> QED
        BY <1>4, <1>7, <3>1, <3>4, <4>1
    <3> QED
      BY <1>5, <3>1, <3>4 DEF MaxAfterErase
  <2> QED
    BY <1>4, <2>1, <2>2
<1>9. WellFormed(t, MaxAfterErase(j, t))
  BY <1>5, <1>6, <1>8 DEF WellFormed
<1>10. \A e \in In(t) : \E p \in 1..Len(l) : p \in P /\ e = l[p]
  BY <1>2, <1>3 DEF In
<1>11. \A p \in 1..Len(l) : p \in P => l[p] \in In(t)
  <2>1. \A i \in 1..Len(t) : t[i] \in In(t)
    BY DEF In
  <2> QED
    BY <1>2, <2>1
<1>12. MaxAfterErase(j, t) <= m
  BY <1>8
<1> QED
  BY <1>1, <1>9, <1>10, <1>11, <1>12

\* addJob, or addJobWithId of the highest id: at the end.
LEMMA AppendedList ==
    ASSUME NEW l \in Seq(Entries), NEW m, WellFormed(l, m), NEW e \in Entries,
           e.job_id > m, \A f \in In(l) : f.cmd # e.cmd
    PROVE  /\ Append(l, e) \in Seq(Entries) /\ WellFormed(Append(l, e), e.job_id)
           /\ In(Append(l, e)) = In(l) \cup {e}
<1> DEFINE t == Append(l, e)
<1>1. /\ t \in Seq(Entries) /\ Len(t) = Len(l) + 1
      /\ \A i \in 1..Len(l) : t[i] = l[i]
      /\ t[Len(l) + 1] = e
  BY AppendProperties
<1> HIDE DEF t
<1>2. /\ m \in Nat /\ Len(l) \in Nat /\ e.job_id \in Nat
      /\ \A i \in 1..Len(l) : l[i].job_id <= m /\ l[i].job_id \in Nat /\ l[i] \in In(l)
  BY WellFormedFacts, InFacts, EntryFacts
<1>3. \A i \in 1..Len(t) : (i \in 1..Len(l) /\ i < Len(l) + 1) \/ i = Len(l) + 1
  BY <1>1, <1>2
<1>4. Len(l) + 1 \in 1..Len(t) /\ \A i \in 1..Len(l) : i \in 1..Len(t)
  BY <1>1, <1>2
<1>5. \A i, k \in 1..Len(t) : i < k => i \in 1..Len(l)
  BY <1>1, <1>2
<1>6. ASSUME NEW i \in 1..Len(t), NEW k \in 1..Len(t), i < k
      PROVE  t[i].job_id < t[k].job_id
  <2>1. i \in 1..Len(l) /\ t[i] = l[i]
    BY <1>1, <1>5, <1>6
  <2>2. CASE k \in 1..Len(l)
    BY <1>1, <1>6, <2>1, <2>2 DEF WellFormed
  <2>3. CASE k = Len(l) + 1
    BY <1>1, <1>2, <2>1, <2>3
  <2> QED
    BY <1>3, <2>2, <2>3
<1>7. \A i \in 1..Len(t) : t[i].job_id > 0
  BY <1>1, <1>2, <1>3 DEF WellFormed
<1>8. \A i, k \in 1..Len(t) : t[i].cmd = t[k].cmd => i = k
  BY <1>1, <1>2, <1>3 DEF WellFormed
<1>9. LastId(t) = e.job_id
  BY <1>1, <1>2, LastIdIs
<1>10. In(t) = In(l) \cup {e}
  BY <1>1, <1>3, <1>4 DEF In
<1> QED
  BY <1>1, <1>6, <1>7, <1>8, <1>9, <1>10 DEF WellFormed, t

\* addJobWithId of another id: before the first job with a higher one, which exists.
LEMMA InsertedList ==
    ASSUME NEW l \in Seq(Entries), NEW m, WellFormed(l, m), NEW e \in Entries,
           e.job_id <= m, e.job_id > 0, \A f \in In(l) : f.cmd # e.cmd /\ f.job_id # e.job_id
    PROVE  /\ PlaceOf(l, e.job_id) # 0
           /\ InsertAt(l, PlaceOf(l, e.job_id), e) \in Seq(Entries)
           /\ WellFormed(InsertAt(l, PlaceOf(l, e.job_id), e), m)
           /\ In(InsertAt(l, PlaceOf(l, e.job_id), e)) = In(l) \cup {e}
<1> DEFINE I == {i \in 1..Len(l) : l[i].job_id > e.job_id}
           N == Len(l)
<1>1. /\ m \in Nat /\ N \in Nat /\ e.job_id \in Nat
      /\ \A i \in 1..N : /\ l[i].job_id <= m /\ l[i].job_id \in Nat /\ l[i] \in In(l)
                         /\ l[i].job_id # e.job_id /\ l[i].cmd # e.cmd
  BY WellFormedFacts, InFacts, EntryFacts
<1>2. N > 0 /\ N \in 1..N /\ l[N].job_id = m
  <2>1. N = 0 => m = 0
    BY LastIdIs DEF WellFormed
  <2>2. N > 0
    BY <1>1, <2>1
  <2> QED
    BY <1>1, <2>2, LastIdIs DEF WellFormed
<1>3. N \in I
  <2>1. l[N].job_id # e.job_id
    BY <1>1, <1>2
  <2> QED
    BY <1>1, <1>2, <2>1
<1>4. PlaceOf(l, e.job_id) = Min(I)
  BY <1>3 DEF PlaceOf, SelectInSeq
<1>5. I \in SUBSET Nat /\ I # {}
  BY <1>3
<1>6. Min(I) \in I /\ \A y \in I : Min(I) <= y
  BY <1>5, MinIsLeast
<1>7. PICK p : p = PlaceOf(l, e.job_id)
  OBVIOUS
<1>8. p \in 1..N /\ l[p].job_id > e.job_id /\ \A y \in I : p <= y
  BY <1>4, <1>6, <1>7
<1>9. \A i \in 1..N : i < p => l[i].job_id < e.job_id
  <2> TAKE i \in 1..N
  <2>1. i < p => i \notin I
    BY <1>1, <1>8
  <2> QED
    BY <1>1, <2>1
<1>10. \A i \in 1..N : p <= i => e.job_id < l[i].job_id
  <2> TAKE i \in 1..N
  <2>1. p <= i => p = i \/ p < i
    BY <1>1, <1>8
  <2>2. p < i => l[p].job_id < l[i].job_id
    BY <1>8 DEF WellFormed
  <2> HIDE DEF I
  <2> QED
    BY <1>1, <1>8, <2>1, <2>2
<1> DEFINE t == InsertAt(l, p, e)
<1>11. /\ t \in Seq(Entries) /\ Len(t) = N + 1
       /\ \A j \in 1..(N + 1) : t[j] = IF j < p THEN l[j] ELSE IF j = p THEN e ELSE l[j - 1]
  BY <1>8, InsertAtIs
<1> HIDE DEF t, I, N
<1>12. \A j \in 1..(N + 1) : \/ (j \in 1..N /\ j < p)
                             \/ j = p
                             \/ (j > p /\ j - 1 \in 1..N /\ p <= j - 1)
  BY <1>1, <1>8
<1>13. \A i \in 1..N : /\ i < p => i \in 1..(N + 1)
                       /\ p <= i => i + 1 \in 1..(N + 1) /\ ~(i + 1 < p) /\ i + 1 # p /\ (i + 1) - 1 = i
  BY <1>1, <1>8
<1>14. p \in 1..(N + 1) /\ ~(p < p)
  BY <1>1, <1>8
<1>15. \A i, k \in 1..N : i < k => l[i].job_id < l[k].job_id
  BY DEF WellFormed, N
<1>places. \A j \in 1..(N + 1) : \/ (j \in 1..N /\ j < p /\ t[j] = l[j])
                            \/ (j = p /\ t[j] = e)
                            \/ (j > p /\ j - 1 \in 1..N /\ p <= j - 1 /\ t[j] = l[j - 1])
  <2> TAKE j \in 1..(N + 1)
  <2>1. CASE j < p
    BY <1>11, <1>12, <2>1, <1>1, <1>8
  <2>2. CASE j = p
    BY <1>11, <1>14, <2>2
  <2>3. CASE j > p
    <3>1. ~(j < p) /\ j # p /\ j - 1 \in 1..N /\ p <= j - 1
      BY <1>1, <1>8, <2>3
    <3> QED
      BY <1>11, <2>3, <3>1
  <2> QED
    BY <1>1, <1>8, <2>1, <2>2, <2>3
<1>16. ASSUME NEW i \in 1..(N + 1), NEW k \in 1..(N + 1), i < k
       PROVE  t[i].job_id < t[k].job_id
  <2>1. CASE k < p
    <3>1. i < p /\ i \in 1..N /\ k \in 1..N
      BY <1>1, <1>8, <1>16, <2>1
    <3> QED
      BY <1>11, <1>15, <1>16, <2>1, <3>1
  <2>2. CASE k = p
    <3>1. i < p /\ i \in 1..N
      BY <1>1, <1>8, <1>16, <2>2
    <3> QED
      BY <1>9, <1>11, <1>14, <2>2, <3>1
  <2>3. CASE k > p
    <3>1. k - 1 \in 1..N /\ p <= k - 1 /\ t[k] = l[k - 1]
      BY <1>1, <1>8, <1>11, <2>3
    <3>2. CASE i < p
      <4>1. i \in 1..N /\ i < k - 1 /\ t[i] = l[i]
        BY <1>1, <1>8, <1>11, <3>1, <3>2
      <4> QED
        BY <1>15, <3>1, <4>1
    <3>3. CASE i = p
      BY <1>10, <1>11, <1>14, <3>1, <3>3
    <3>4. CASE i > p
      <4>1. i - 1 \in 1..N /\ i - 1 < k - 1 /\ t[i] = l[i - 1]
        BY <1>1, <1>8, <1>11, <1>16, <3>4
      <4> QED
        BY <1>15, <3>1, <4>1
    <3>5. i < p \/ i = p \/ i > p
      BY <1>1, <1>8
    <3> QED
      BY <3>2, <3>3, <3>4, <3>5
  <2>4. k < p \/ k = p \/ k > p
    BY <1>1, <1>8
  <2> QED
    BY <2>1, <2>2, <2>3, <2>4
<1>17. In(t) = In(l) \cup {e}
  <2>1. \A j \in 1..(N + 1) : t[j] = e \/ \E i \in 1..N : t[j] = l[i]
    BY <1>places
  <2>2. \A i \in 1..N : \E j \in 1..(N + 1) : t[j] = l[i]
    <3> TAKE i \in 1..N
    <3>1. CASE i < p
      BY <1>11, <1>13, <3>1
    <3>2. CASE p <= i
      <4>1. i + 1 \in 1..(N + 1) /\ t[i + 1] = l[i]
        BY <1>11, <1>13, <3>2
      <4> QED
        BY <4>1
    <3> QED
      BY <1>1, <1>8, <3>1, <3>2
  <2>3. t[p] = e
    BY <1>11, <1>14
  <2>4. In(t) = {t[j] : j \in 1..(N + 1)} /\ In(l) = {l[i] : i \in 1..N}
    BY <1>11 DEF In, N
  <2> QED
    BY <1>14, <2>1, <2>2, <2>3, <2>4
<1>18. \A i \in 1..(N + 1) : t[i].job_id > 0
  <2>1. \A i \in 1..N : l[i].job_id > 0
    BY DEF WellFormed, N
  <2> QED
    BY <1>places, <2>1
<1>19. ASSUME NEW i \in 1..(N + 1), NEW k \in 1..(N + 1), t[i].cmd = t[k].cmd
       PROVE  i = k
  <2>1. \A a, b \in 1..N : l[a].cmd = l[b].cmd => a = b
    BY DEF WellFormed, N
  <2>2. \A a \in 1..N : l[a].cmd # e.cmd
    BY <1>1
  <2>4. i = p \/ k = p => i = k
    BY <1>19, <2>2, <1>places, <1>14
  <2>5. CASE i # p /\ k # p
    <3>1. PICK a \in 1..N : t[i] = l[a] /\ ((i < p /\ a = i) \/ (i > p /\ a = i - 1 /\ p <= a))
      BY <1>places, <2>5
    <3>2. PICK b \in 1..N : t[k] = l[b] /\ ((k < p /\ b = k) \/ (k > p /\ b = k - 1 /\ p <= b))
      BY <1>places, <2>5
    <3>3. a = b
      BY <1>19, <2>1, <3>1, <3>2
    <3> QED
      BY <1>1, <1>8, <3>1, <3>2, <3>3
  <2> QED
    BY <2>4, <2>5
<1>20. m = LastId(t)
  <2>1. N + 1 \in 1..(N + 1) /\ ~(N + 1 < p) /\ N + 1 # p /\ (N + 1) - 1 = N
    BY <1>1, <1>8
  <2>2. t[N + 1] = l[N]
    BY <1>11, <2>1
  <2>3. Len(t) > 0
    BY <1>1, <1>11
  <2> QED
    BY <1>2, <1>11, <2>2, <2>3, LastIdIs
<1>21. WellFormed(t, m)
  BY <1>11, <1>16, <1>18, <1>19, <1>20 DEF WellFormed
<1>22. p # 0
  BY <1>1, <1>8
<1> QED
  BY <1>7, <1>11, <1>17, <1>21, <1>22 DEF t

\* Changing the stopped mark of a job changes nothing else in the list.
LEMMA MarkedList ==
    ASSUME NEW l \in Seq(Entries), NEW m, WellFormed(l, m), NEW i \in 1..Len(l),
           NEW s \in BOOLEAN, NEW t, t = MarkedAs(l, i, s)
    PROVE  /\ t \in Seq(Entries) /\ WellFormed(t, m)
           /\ \A f \in In(t) : f = MarkedEntry(l, i, s) \/ (f \in In(l) /\ f.cmd # l[i].cmd)
           /\ \A f \in In(l) : f.cmd # l[i].cmd => f \in In(t)
           /\ MarkedEntry(l, i, s) \in In(t)
<1> DEFINE x == [job_id |-> l[i].job_id, cmd |-> l[i].cmd, is_stopped |-> s]
<1>1. Len(l) \in Nat /\ \A k \in 1..Len(l) : l[k] \in Entries
  BY InFacts
<1>2. [l[i] EXCEPT !.is_stopped = s] = x /\ x \in Entries
  BY <1>1 DEF Entries
<1>3. t = [l EXCEPT ![i] = x]
  BY <1>2 DEF MarkedAs
<1> HIDE DEF x
<1>4. t \in Seq(Entries) /\ Len(t) = Len(l) /\ \A k \in 1..Len(l) : t[k] = IF k = i THEN x ELSE l[k]
  <2>1. l \in [1..Len(l) -> Entries]
    BY LenProperties
  <2>2. t \in [1..Len(l) -> Entries] /\ \A k \in 1..Len(l) : t[k] = IF k = i THEN x ELSE l[k]
    BY <1>2, <1>3, <2>1
  <2>3. t \in Seq(Entries)
    BY <1>1, <2>2, SeqDef
  <2>4. Len(t) = Len(l)
    BY <1>1, <2>2, <2>3, LenProperties
  <2> QED
    BY <2>2, <2>3, <2>4
<1>5. x.job_id = l[i].job_id /\ x.cmd = l[i].cmd
  BY DEF x
<1>6. \A k \in 1..Len(l) : t[k].job_id = l[k].job_id /\ t[k].cmd = l[k].cmd
  BY <1>4, <1>5
<1>7. LastId(t) = LastId(l)
  <2>1. Len(l) > 0 => Len(l) \in 1..Len(l)
    BY <1>1
  <2>2. /\ Len(l) = 0 => LastId(l) = 0 /\ LastId(t) = 0
        /\ Len(l) > 0 => LastId(l) = l[Len(l)].job_id /\ LastId(t) = t[Len(l)].job_id
    BY <1>4, LastIdIs
  <2> QED
    BY <1>1, <1>6, <2>1, <2>2
<1>8. WellFormed(t, m)
  BY <1>4, <1>6, <1>7 DEF WellFormed
<1>9. \A k \in 1..Len(l) : k # i => l[k].cmd # l[i].cmd
  BY DEF WellFormed
<1> QED
  BY <1>4, <1>5, <1>8, <1>9 DEF In, x, MarkedEntry

----------------------------------------------------------------------------
Live == {"running", "stopped", "zombie"}
States == Live \cup {"none", "reaped"}
StartPcs == {"fork", "setpid", "wait", "add"}
FgPcs == {"fgcont", "fgwait", "fgadd"}
InPcs == StartPcs \cup FgPcs
Pcs == {"prompt", "exec", "after", "done", "fgtake"} \cup InPcs

\* The jobs that are listed.
Entered == In(jobs_list)

Types ==
    /\ jobs_list \in Seq(Entries)
    /\ max_job_id \in 0..MaxJobId
    /\ current_cmd \in Cmds \cup {NoCmd} /\ waited \in Cmds \cup {NoCmd}
    /\ foreground \in [Cmds -> BOOLEAN] /\ pid_set \in [Cmds -> BOOLEAN]
    /\ deleted \subseteq Cmds
    /\ proc \in [Cmds -> States]
    /\ cur_job \in [job_id : 0..MaxJobId, cmd : Cmds \cup {NoCmd}, is_stopped : BOOLEAN]
    /\ unmarked \subseteq Cmds /\ is_background \in BOOLEAN
    /\ pc \in Pcs
    /\ given \in [Cmds -> 0..MaxJobId]

Shaped == pc # "done" => WellFormed(jobs_list, max_job_id)

Tracked ==
    pc # "done" =>
       /\ \A c \in Cmds : proc[c] \in Live =>
                             (pc \in InPcs /\ c = waited) \/ \E e \in Entered : e.cmd = c
       /\ pc \in InPcs => \A e \in Entered : e.cmd # waited
       /\ \A e \in Entered : e.cmd \notin deleted /\ proc[e.cmd] \in Live

Kept == \A e \in Entered : given[e.cmd] = e.job_id

Marked ==
    \A e \in Entered : e.cmd \notin unmarked /\ proc[e.cmd] # "zombie" =>
                          (e.is_stopped <=> proc[e.cmd] = "stopped")

\* The command the main loop looks after, at each of its places.
InHandInv ==
    /\ pc \in InPcs => waited \in Cmds /\ current_cmd = waited
    /\ pc \in StartPcs => max_job_id < MaxJobId
    /\ pc \in {"fork", "setpid"} => ~pid_set[waited]
    /\ pc = "fork" => proc[waited] = "none" /\ waited \notin deleted
    /\ pc \in {"setpid", "wait", "add", "fgadd"} => proc[waited] \in Live
    /\ pc \in {"fgcont", "fgwait"} => proc[waited] \in Live \cup {"reaped"}
    /\ (pc = "fgadd" \/ (pc = "add" /\ ~is_background)) =>
          waited \in unmarked \/ proc[waited] \in {"stopped", "zombie"}
    /\ (pc \in {"setpid", "add"} /\ is_background) =>
          waited \in unmarked \/ proc[waited] # "stopped"
    /\ pc = "wait" => ~is_background
    /\ (pc \in StartPcs /\ is_background) => ~foreground[waited]

\* The job fg is about: listed until fg takes it, unless the alarm handler has reaped it.
FgInv ==
    /\ pc \in {"fgtake"} \cup FgPcs =>
          cur_job.cmd \in Cmds /\ cur_job.job_id > 0 /\ given[cur_job.cmd] = cur_job.job_id
    /\ pc \in FgPcs => waited = cur_job.cmd /\ \A e \in Entered : e.job_id # cur_job.job_id
    /\ pc = "fgtake" => \/ cur_job \in Entered
                        \/ /\ proc[cur_job.cmd] = "reaped"
                           /\ \A e \in Entered : e.job_id # cur_job.job_id

DeletedInv == pc # "done" => \A c \in deleted : proc[c] = "reaped"

\* When a handler may find the current command in the foreground: a listed one only if it
\* is marked as stopped.
ForegroundInv ==
    /\ (pc \in {"prompt", "exec", "fgtake"} /\ current_cmd # NoCmd) => ~foreground[current_cmd]
    /\ \A e \in Entered : e.cmd = current_cmd /\ foreground[current_cmd] => e.is_stopped

\* The inductive invariant.
ShellInv ==
    /\ Types /\ Shaped /\ Tracked /\ Kept /\ Marked
    /\ InHandInv /\ FgInv /\ DeletedInv /\ ForegroundInv

----------------------------------------------------------------------------
\* What the types say of the listed jobs.
LEMMA EnteredFacts ==
    ASSUME Types
    PROVE  /\ \A e \in Entered : e \in Entries /\ e.cmd \in Cmds /\ e.job_id \in Nat /\ e.is_stopped \in BOOLEAN
           /\ \A i \in 1..Len(jobs_list) : jobs_list[i] \in Entered
           /\ \A c : c \in Listed <=> \E e \in Entered : e.cmd = c
<1>1. jobs_list \in Seq(Entries)
  BY DEF Types
<1>2. Entered \subseteq Entries
  BY <1>1, InFacts DEF Entered
<1>3. \A e \in Entered : e \in Entries /\ e.cmd \in Cmds /\ e.job_id \in Nat /\ e.is_stopped \in BOOLEAN
  BY <1>2, EntryFacts
<1>4. \A i \in 1..Len(jobs_list) : jobs_list[i] \in Entered
  BY DEF Entered, In
<1>5. \A c : c \in Listed <=> \E e \in Entered : e.cmd = c
  BY DEF Entered, In, Listed
<1> QED
  BY <1>3, <1>4, <1>5

\* What a well-formed list says of the listed jobs.
LEMMA ShapedFacts ==
    ASSUME Types, Shaped, pc # "done"
    PROVE  /\ \A e \in Entered : e.job_id <= max_job_id /\ e.job_id > 0
           /\ \A e, f \in Entered : e.job_id = f.job_id \/ e.cmd = f.cmd => e = f
<1>1. jobs_list \in Seq(Entries) /\ WellFormed(jobs_list, max_job_id)
  BY DEF Types, Shaped
<1> QED
  BY <1>1, WellFormedFacts DEF Entered

\* removeFinishedJobs leaves the jobs that have not ended.
LEMMA FinishedErased ==
    ASSUME Types, Shaped, pc # "done", NEW j, j = removeFinishedJobs(Jobs)
    PROVE  /\ j.list \in Seq(Entries) /\ WellFormed(j.list, j.max)
           /\ j.max \in 0..max_job_id
           /\ \A e : e \in In(j.list) <=> e \in Entered /\ proc[e.cmd] # "zombie"
<1> DEFINE P == {i \in 1..Len(jobs_list) : proc[jobs_list[i].cmd] # "zombie"}
<1>1. jobs_list \in Seq(Entries) /\ WellFormed(jobs_list, max_job_id) /\ max_job_id \in Nat
  BY MaxJobIdAssumption DEF Types, Shaped
<1>2. Jobs.list = jobs_list /\ Jobs.max = max_job_id
  BY DEF Jobs
<1>3. PICK t : t = Sublist(jobs_list, P)
  OBVIOUS
<1>4. j.list = t /\ j.max = MaxAfterErase(Jobs, t)
  BY <1>2, <1>3 DEF removeFinishedJobs
<1>5. /\ t \in Seq(Entries) /\ WellFormed(t, MaxAfterErase(Jobs, t))
      /\ MaxAfterErase(Jobs, t) <= max_job_id
      /\ \A e \in In(t) : \E p \in 1..Len(jobs_list) : p \in P /\ e = jobs_list[p]
      /\ \A p \in 1..Len(jobs_list) : p \in P => jobs_list[p] \in In(t)
  <2> HIDE DEF P
  <2> QED
    BY <1>1, <1>2, <1>3, ErasedList, SMTT(30)
<1>6. MaxAfterErase(Jobs, t) \in Nat
  BY <1>5, WellFormedFacts
<1>7. \A e \in In(t) : e \in Entered /\ proc[e.cmd] # "zombie"
  BY <1>5 DEF Entered, In
<1>8. \A e \in Entered : proc[e.cmd] # "zombie" => e \in In(t)
  <2>1. \A e \in Entered : \E p \in 1..Len(jobs_list) : e = jobs_list[p]
    BY DEF Entered, In
  <2> QED
    BY <1>5, <2>1
<1>9. j.max \in 0..max_job_id
  BY <1>1, <1>4, <1>5, <1>6
<1> QED
  BY <1>4, <1>5, <1>7, <1>8, <1>9

\* The processes after some of them may have been killed.
SomeKilled(p) ==
    /\ p \in [Cmds -> States]
    /\ \A c \in Cmds : p[c] = proc[c] \/ (proc[c] \in {"running", "stopped"} /\ p[c] = "zombie")

\* ... and reaps the others and deletes their Commands.
LEMMA ReapAndIs ==
    ASSUME Types, NEW p \in [Cmds -> States], ReapAnd(p)
    PROVE  /\ proc' \in [Cmds -> States] /\ deleted' \subseteq Cmds
           /\ \A c \in Cmds : \/ /\ proc[c] = "zombie" /\ proc'[c] = "reaped" /\ c \in deleted'
                                 /\ \E e \in Entered : e.cmd = c
                              \/ /\ ~(proc[c] = "zombie" /\ \E e \in Entered : e.cmd = c)
                                 /\ proc'[c] = p[c] /\ (c \in deleted' <=> c \in deleted)
<1>1. deleted \subseteq Cmds
  BY DEF Types
<1>2. \A c \in Cmds : c \in Finished <=> proc[c] = "zombie" /\ \E e \in Entered : e.cmd = c
  BY EnteredFacts DEF Finished
<1>3. Finished \subseteq Cmds
  BY EnteredFacts DEF Finished
<1>4. /\ proc' = [c \in Cmds |-> IF c \in Finished THEN "reaped" ELSE p[c]]
      /\ deleted' = deleted \cup Finished
  BY DEF ReapAnd
<1> QED
  BY <1>1, <1>2, <1>3, <1>4 DEF States

\* The same when nobody is killed at the same time.
LEMMA ReapIs ==
    ASSUME Types, Reap
    PROVE  /\ proc' \in [Cmds -> States] /\ deleted' \subseteq Cmds
           /\ \A c \in Cmds : \/ /\ proc[c] = "zombie" /\ proc'[c] = "reaped" /\ c \in deleted'
                                 /\ \E e \in Entered : e.cmd = c
                              \/ /\ ~(proc[c] = "zombie" /\ \E e \in Entered : e.cmd = c)
                                 /\ proc'[c] = proc[c] /\ (c \in deleted' <=> c \in deleted)
<1>1. proc \in [Cmds -> States] /\ ReapAnd(proc)
  BY DEF Types, Reap
<1> QED
  BY <1>1, ReapAndIs

\* What a signal does: nothing to a process that is not there or has ended.
LEMMA SignalIs ==
    ASSUME Types, NEW S, NEW sig \in Signals
    PROVE  /\ Signal(S, sig) \in [Cmds -> States]
           /\ \A c \in Cmds :
                 \/ (c \notin S \/ proc[c] \notin {"running", "stopped"}) /\ Signal(S, sig)[c] = proc[c]
                 \/ /\ c \in S /\ proc[c] \in {"running", "stopped"}
                    /\ Signal(S, sig)[c] \in Live
                    /\ sig = "SIGKILL" => Signal(S, sig)[c] = "zombie"
                    /\ sig = "SIGSTOP" => Signal(S, sig)[c] = "stopped"
                    /\ sig = "SIGCONT" => Signal(S, sig)[c] = "running"
                    /\ sig = "SIGCHLD" => Signal(S, sig)[c] = proc[c]
  BY DEF Types, Signal, Signals, States, Live

----------------------------------------------------------------------------
\* fork: the child runs.
LEMMA ForkKeeps ==
    ASSUME ShellInv, ForkChild
    PROVE  ShellInv'
<1>1. /\ Types /\ Shaped /\ Tracked /\ Kept /\ Marked
      /\ InHandInv /\ FgInv /\ DeletedInv /\ ForegroundInv
  BY DEF ShellInv
<1>2. /\ pc = "fork" /\ pc' = "setpid"
      /\ proc' = [proc EXCEPT ![waited] = "running"]
      /\ jobs_list' = jobs_list /\ max_job_id' = max_job_id /\ deleted' = deleted
      /\ given' = given
      /\ current_cmd' = current_cmd /\ foreground' = foreground /\ pid_set' = pid_set
      /\ waited' = waited /\ is_background' = is_background /\ cur_job' = cur_job
      /\ unmarked' = unmarked
  BY DEF ForkChild, Goto, shellVars, listVars
<1>3. \A e \in Entered : e.cmd \in Cmds /\ e.job_id \in Nat
  BY <1>1, EnteredFacts
<1>4. Entered' = Entered
  BY <1>2 DEF Entered
<1>10. Types'
  BY <1>1, <1>2 DEF Types, Pcs, InPcs, StartPcs, States, Live
<1>11. Shaped'
  BY <1>1, <1>2 DEF Shaped
<1>12. Tracked'
  BY <1>1, <1>2, <1>4 DEF Tracked, InPcs, StartPcs
<1>13. Kept'
  BY <1>1, <1>2, <1>4 DEF Kept
<1>14. Marked'
  BY <1>1, <1>2, <1>4 DEF Marked, InHandInv
<1>15. InHandInv'
  BY <1>1, <1>2 DEF InHandInv, Types, InPcs, StartPcs, Live
<1>16. FgInv'
  BY <1>1, <1>2 DEF FgInv, FgPcs
<1>17. DeletedInv'
  BY <1>1, <1>2 DEF DeletedInv, InHandInv
<1>18. ForegroundInv'
  BY <1>1, <1>2, <1>4 DEF ForegroundInv, InHandInv
<1> QED
  BY <1>10, <1>11, <1>12, <1>13, <1>14, <1>15, <1>16, <1>17, <1>18 DEF ShellInv

\* SetPid: from now on a handler finds the process.
LEMMA SetPidKeeps ==
    ASSUME ShellInv, SetPid
    PROVE  ShellInv'
<1>1. /\ Types /\ Shaped /\ Tracked /\ Kept /\ Marked
      /\ InHandInv /\ FgInv /\ DeletedInv /\ ForegroundInv
  BY DEF ShellInv
<1>2. /\ pc = "setpid" /\ pc' = (IF is_background THEN "add" ELSE "wait")
      /\ pid_set' = [pid_set EXCEPT ![waited] = TRUE]
      /\ jobs_list' = jobs_list /\ max_job_id' = max_job_id /\ deleted' = deleted
      /\ given' = given
      /\ current_cmd' = current_cmd /\ foreground' = foreground /\ waited' = waited
      /\ is_background' = is_background /\ cur_job' = cur_job
      /\ unmarked' = unmarked /\ proc' = proc
  BY DEF SetPid, Goto, listVars
<1>3. \A e \in Entered : e.cmd \in Cmds /\ e.job_id \in Nat
  BY <1>1, EnteredFacts
<1>4. Entered' = Entered
  BY <1>2 DEF Entered
<1>10. Types'
  BY <1>1, <1>2 DEF Types, Pcs, InPcs, StartPcs
<1>11. Shaped'
  BY <1>1, <1>2 DEF Shaped
<1>12. Tracked'
  BY <1>1, <1>2, <1>4 DEF Tracked, InPcs, StartPcs
<1>13. Kept'
  BY <1>1, <1>2, <1>4 DEF Kept
<1>14. Marked'
  BY <1>1, <1>2, <1>4 DEF Marked
<1>15. InHandInv'
  BY <1>1, <1>2 DEF InHandInv, InPcs, StartPcs
<1>16. FgInv'
  BY <1>1, <1>2 DEF FgInv, FgPcs
<1>17. DeletedInv'
  BY <1>1, <1>2 DEF DeletedInv
<1>18. ForegroundInv'
  BY <1>1, <1>2, <1>4 DEF ForegroundInv, InHandInv, StartPcs
<1> QED
  BY <1>10, <1>11, <1>12, <1>13, <1>14, <1>15, <1>16, <1>17, <1>18 DEF ShellInv

\* waitpid has reaped the command in the foreground.
LEMMA WaitEndedKeeps ==
    ASSUME ShellInv, WaitEnded
    PROVE  ShellInv'
<1>1. /\ Types /\ Shaped /\ Tracked /\ Kept /\ Marked
      /\ InHandInv /\ FgInv /\ DeletedInv /\ ForegroundInv
  BY DEF ShellInv
<1>2. /\ pc \in {"wait", "fgwait"} /\ pc' = "after" /\ proc[waited] = "zombie"
      /\ proc' = [proc EXCEPT ![waited] = "reaped"]
      /\ jobs_list' = jobs_list /\ max_job_id' = max_job_id /\ deleted' = deleted
      /\ given' = given
      /\ current_cmd' = current_cmd /\ foreground' = foreground /\ pid_set' = pid_set
      /\ waited' = waited /\ is_background' = is_background /\ cur_job' = cur_job
      /\ unmarked' = unmarked
  BY DEF WaitEnded, Goto, shellVars, listVars
<1>3. \A e \in Entered : e.cmd \in Cmds /\ e.job_id \in Nat
  BY <1>1, EnteredFacts
<1>4. Entered' = Entered
  BY <1>2 DEF Entered
<1>10. Types'
  BY <1>1, <1>2 DEF Types, Pcs, States
<1>11. Shaped'
  BY <1>1, <1>2 DEF Shaped
<1>12. Tracked'
  BY <1>1, <1>2, <1>4 DEF Tracked, Types, InPcs, StartPcs, FgPcs, Live
<1>13. Kept'
  BY <1>1, <1>2, <1>4 DEF Kept
<1>14. Marked'
  BY <1>1, <1>2, <1>4 DEF Marked, Tracked, InPcs, StartPcs, FgPcs
<1>15. InHandInv'
  BY <1>1, <1>2 DEF InHandInv, InPcs, StartPcs, FgPcs
<1>16. FgInv'
  BY <1>1, <1>2 DEF FgInv, FgPcs
<1>17. DeletedInv'
  BY <1>1, <1>2 DEF DeletedInv
<1>18. ForegroundInv'
  BY <1>1, <1>2, <1>4 DEF ForegroundInv
<1> QED
  BY <1>10, <1>11, <1>12, <1>13, <1>14, <1>15, <1>16, <1>17, <1>18 DEF ShellInv

\* waitpid has seen the command in the foreground stop.
LEMMA WaitStoppedKeeps ==
    ASSUME ShellInv, WaitStopped
    PROVE  ShellInv'
<1>1. /\ Types /\ Shaped /\ Tracked /\ Kept /\ Marked
      /\ InHandInv /\ FgInv /\ DeletedInv /\ ForegroundInv
  BY DEF ShellInv
<1>2. /\ pc \in {"wait", "fgwait"} /\ proc[waited] = "stopped"
      /\ pc' = (IF pc = "wait" THEN "add" ELSE "fgadd")
      /\ jobs_list' = jobs_list /\ max_job_id' = max_job_id /\ deleted' = deleted
      /\ given' = given
      /\ current_cmd' = current_cmd /\ foreground' = foreground /\ pid_set' = pid_set
      /\ waited' = waited /\ is_background' = is_background /\ cur_job' = cur_job
      /\ unmarked' = unmarked \ {waited} /\ proc' = proc
  BY DEF WaitStopped, Goto, shellVars, listVars
<1>3. \A e \in Entered : e.cmd \in Cmds /\ e.job_id \in Nat
  BY <1>1, EnteredFacts
<1>4. Entered' = Entered
  BY <1>2 DEF Entered
<1>10. Types'
  BY <1>1, <1>2 DEF Types, Pcs, InPcs, StartPcs, FgPcs
<1>11. Shaped'
  BY <1>1, <1>2 DEF Shaped
<1>12. Tracked'
  BY <1>1, <1>2, <1>4 DEF Tracked, InPcs, StartPcs, FgPcs
<1>13. Kept'
  BY <1>1, <1>2, <1>4 DEF Kept
<1>14. Marked'
  BY <1>1, <1>2, <1>4 DEF Marked, Tracked, InPcs, StartPcs, FgPcs
<1>15. InHandInv'
  BY <1>1, <1>2 DEF InHandInv, InPcs, StartPcs, FgPcs
<1>16. FgInv'
  BY <1>1, <1>2, <1>4 DEF FgInv, FgPcs
<1>17. DeletedInv'
  BY <1>1, <1>2 DEF DeletedInv
<1>18. ForegroundInv'
  BY <1>1, <1>2, <1>4 DEF ForegroundInv, InHandInv
<1> QED
  BY <1>10, <1>11, <1>12, <1>13, <1>14, <1>15, <1>16, <1>17, <1>18 DEF ShellInv

\* The current command, if any, is no longer in the foreground.
LEMMA AfterKeeps ==
    ASSUME ShellInv, After
    PROVE  ShellInv'
<1>1. /\ Types /\ Shaped /\ Tracked /\ Kept /\ Marked
      /\ InHandInv /\ FgInv /\ DeletedInv /\ ForegroundInv
  BY DEF ShellInv
<1>2. /\ pc = "after" /\ pc' = "prompt"
      /\ foreground' = IF current_cmd = NoCmd THEN foreground
                       ELSE [foreground EXCEPT ![current_cmd] = FALSE]
      /\ jobs_list' = jobs_list /\ max_job_id' = max_job_id /\ deleted' = deleted
      /\ given' = given
      /\ current_cmd' = current_cmd /\ pid_set' = pid_set /\ waited' = waited
      /\ is_background' = is_background /\ cur_job' = cur_job
      /\ unmarked' = unmarked /\ proc' = proc
  BY DEF After, Goto, listVars
<1>3. \A e \in Entered : e.cmd \in Cmds /\ e.job_id \in Nat
  BY <1>1, EnteredFacts
<1>4. Entered' = Entered
  BY <1>2 DEF Entered
<1>10. Types'
  BY <1>1, <1>2 DEF Types, Pcs
<1>11. Shaped'
  BY <1>1, <1>2 DEF Shaped
<1>12. Tracked'
  BY <1>1, <1>2, <1>4 DEF Tracked, InPcs, StartPcs, FgPcs
<1>13. Kept'
  BY <1>1, <1>2, <1>4 DEF Kept
<1>14. Marked'
  BY <1>1, <1>2, <1>4 DEF Marked
<1>15. InHandInv'
  BY <1>1, <1>2 DEF InHandInv, InPcs, StartPcs, FgPcs
<1>16. FgInv'
  BY <1>1, <1>2 DEF FgInv, FgPcs
<1>17. DeletedInv'
  BY <1>1, <1>2 DEF DeletedInv
<1>18. ForegroundInv'
  BY <1>1, <1>2, <1>4 DEF ForegroundInv, Types
<1> QED
  BY <1>10, <1>11, <1>12, <1>13, <1>14, <1>15, <1>16, <1>17, <1>18 DEF ShellInv

\* fg wakes the job it has taken.
LEMMA FgContinueKeeps ==
    ASSUME ShellInv, FgContinue
    PROVE  ShellInv'
<1>1. /\ Types /\ Shaped /\ Tracked /\ Kept /\ Marked
      /\ InHandInv /\ FgInv /\ DeletedInv /\ ForegroundInv
  BY DEF ShellInv
<1>2. /\ pc = "fgcont" /\ pc' = "fgwait" /\ proc[waited] # "reaped"
      /\ proc' = Signal({waited}, "SIGCONT")
      /\ jobs_list' = jobs_list /\ max_job_id' = max_job_id /\ deleted' = deleted
      /\ given' = given
      /\ current_cmd' = current_cmd /\ foreground' = foreground /\ pid_set' = pid_set
      /\ waited' = waited /\ is_background' = is_background /\ cur_job' = cur_job
      /\ unmarked' = unmarked
  BY DEF FgContinue, Goto, shellVars, listVars
<1>3. \A e \in Entered : e.cmd \in Cmds /\ e.job_id \in Nat
  BY <1>1, EnteredFacts
<1>4. Entered' = Entered
  BY <1>2 DEF Entered
<1>5. /\ proc' \in [Cmds -> States]
      /\ \A c \in Cmds : \/ proc'[c] = proc[c] /\ (c # waited \/ proc[c] \notin {"running", "stopped"})
                         \/ c = waited /\ proc[c] \in {"running", "stopped"} /\ proc'[c] = "running"
  <2>1. "SIGCONT" \in Signals
    BY DEF Signals
  <2> QED
    BY <1>1, <1>2, <2>1, SignalIs
<1>6. \A e \in Entered : proc'[e.cmd] = proc[e.cmd]
  <2>1. \A e \in Entered : e.cmd # waited
    BY <1>1, <1>2 DEF Tracked, InPcs, FgPcs
  <2> QED
    BY <1>3, <1>5, <2>1
<1>10. Types'
  BY <1>1, <1>2, <1>5 DEF Types, Pcs, InPcs, FgPcs
<1>11. Shaped'
  BY <1>1, <1>2 DEF Shaped
<1>12. Tracked'
  BY <1>1, <1>2, <1>3, <1>4, <1>5 DEF Tracked, InPcs, FgPcs
<1>13. Kept'
  BY <1>1, <1>2, <1>4 DEF Kept
<1>14. Marked'
  BY <1>1, <1>2, <1>4, <1>6 DEF Marked
<1>15. InHandInv'
  BY <1>1, <1>2, <1>5 DEF InHandInv, InPcs, StartPcs, FgPcs, Live
<1>16. FgInv'
  BY <1>1, <1>2, <1>4 DEF FgInv, FgPcs
<1>17. DeletedInv'
  BY <1>1, <1>2, <1>5 DEF DeletedInv, Types
<1>18. ForegroundInv'
  BY <1>1, <1>2, <1>4, <1>5 DEF ForegroundInv, InHandInv, InPcs, FgPcs
<1> QED
  BY <1>10, <1>11, <1>12, <1>13, <1>14, <1>15, <1>16, <1>17, <1>18 DEF ShellInv

\* fg finds that its process has been waited for.
LEMMA FgGoneKeeps ==
    ASSUME ShellInv, FgGone
    PROVE  ShellInv'
<1>1. /\ Types /\ Shaped /\ Tracked /\ Kept /\ Marked
      /\ InHandInv /\ FgInv /\ DeletedInv /\ ForegroundInv
  BY DEF ShellInv
<1>2. /\ pc \in {"fgcont", "fgwait"} /\ pc' = "after" /\ proc[waited] = "reaped"
      /\ jobs_list' = jobs_list /\ max_job_id' = max_job_id /\ deleted' = deleted
      /\ given' = given
      /\ current_cmd' = current_cmd /\ foreground' = foreground /\ pid_set' = pid_set
      /\ waited' = waited /\ is_background' = is_background /\ cur_job' = cur_job
      /\ unmarked' = unmarked /\ proc' = proc
  BY DEF FgGone, Goto, shellVars, listVars
<1>3. \A e \in Entered : e.cmd \in Cmds /\ e.job_id \in Nat
  BY <1>1, EnteredFacts
<1>4. Entered' = Entered
  BY <1>2 DEF Entered
<1>10. Types'
  BY <1>1, <1>2 DEF Types, Pcs
<1>11. Shaped'
  BY <1>1, <1>2 DEF Shaped
<1>12. Tracked'
  BY <1>1, <1>2, <1>4 DEF Tracked, Live
<1>13. Kept'
  BY <1>1, <1>2, <1>4 DEF Kept
<1>14. Marked'
  BY <1>1, <1>2, <1>4 DEF Marked
<1>15. InHandInv'
  BY <1>1, <1>2 DEF InHandInv, InPcs, StartPcs, FgPcs
<1>16. FgInv'
  BY <1>1, <1>2 DEF FgInv, FgPcs
<1>17. DeletedInv'
  BY <1>1, <1>2 DEF DeletedInv
<1>18. ForegroundInv'
  BY <1>1, <1>2, <1>4 DEF ForegroundInv
<1> QED
  BY <1>10, <1>11, <1>12, <1>13, <1>14, <1>15, <1>16, <1>17, <1>18 DEF ShellInv

\* A process ends.
LEMMA EndsKeeps ==
    ASSUME ShellInv, NEW d \in Cmds, ProcessEnds(d)
    PROVE  ShellInv'
<1>1. /\ Types /\ Shaped /\ Tracked /\ Kept /\ Marked
      /\ InHandInv /\ FgInv /\ DeletedInv /\ ForegroundInv
  BY DEF ShellInv
<1>2. /\ pc # "done" /\ pc' = pc /\ proc[d] \in {"running", "stopped"}
      /\ proc' = [proc EXCEPT ![d] = "zombie"]
      /\ jobs_list' = jobs_list /\ max_job_id' = max_job_id /\ deleted' = deleted
      /\ given' = given
      /\ current_cmd' = current_cmd /\ foreground' = foreground /\ pid_set' = pid_set
      /\ waited' = waited /\ is_background' = is_background /\ cur_job' = cur_job
      /\ unmarked' = unmarked
  BY DEF ProcessEnds, Goto, shellVars, listVars
<1>3. \A e \in Entered : e.cmd \in Cmds /\ e.job_id \in Nat
  BY <1>1, EnteredFacts
<1>4. Entered' = Entered
  BY <1>2 DEF Entered
<1>10. Types'
  BY <1>1, <1>2 DEF Types, States, Live
<1>11. Shaped'
  BY <1>1, <1>2 DEF Shaped
<1>12. Tracked'
  BY <1>1, <1>2, <1>4 DEF Tracked, Live
<1>13. Kept'
  BY <1>1, <1>2, <1>4 DEF Kept
<1>14. Marked'
  BY <1>1, <1>2, <1>4 DEF Marked
<1>15. InHandInv'
  BY <1>1, <1>2 DEF InHandInv, Live
<1>16. FgInv'
  BY <1>1, <1>2, <1>4 DEF FgInv
<1>17. DeletedInv'
  BY <1>1, <1>2 DEF DeletedInv
<1>18. ForegroundInv'
  BY <1>1, <1>2, <1>4 DEF ForegroundInv
<1> QED
  BY <1>10, <1>11, <1>12, <1>13, <1>14, <1>15, <1>16, <1>17, <1>18 DEF ShellInv

\* A process stops or continues without the shell.
LEMMA TurnsKeeps ==
    ASSUME ShellInv, NEW d \in Cmds, ProcessStops(d) \/ ProcessContinues(d)
    PROVE  ShellInv'
<1>1. /\ Types /\ Shaped /\ Tracked /\ Kept /\ Marked
      /\ InHandInv /\ FgInv /\ DeletedInv /\ ForegroundInv
  BY DEF ShellInv
<1>2. /\ pc # "done" /\ pc' = pc /\ proc[d] \in {"running", "stopped"}
      /\ unmarked' = unmarked \cup {d}
      /\ jobs_list' = jobs_list /\ max_job_id' = max_job_id /\ deleted' = deleted
      /\ given' = given
      /\ current_cmd' = current_cmd /\ foreground' = foreground /\ pid_set' = pid_set
      /\ waited' = waited /\ is_background' = is_background /\ cur_job' = cur_job
  BY DEF ProcessStops, ProcessContinues, shellVars, listVars
<1>3. PICK t \in {"running", "stopped"} : proc' = [proc EXCEPT ![d] = t]
  BY DEF ProcessStops, ProcessContinues
<1>4. Entered' = Entered /\ \A e \in Entered : e.cmd \in Cmds
  BY <1>1, <1>2, EnteredFacts DEF Entered
<1>5. \A c \in Cmds : /\ proc'[c] = IF c = d THEN t ELSE proc[c]
                      /\ proc'[c] \in Live <=> proc[c] \in Live
  BY <1>1, <1>2, <1>3 DEF Types, Live
<1>10. Types'
  BY <1>1, <1>2, <1>3 DEF Types, States, Live
<1>11. Shaped' /\ Kept'
  BY <1>1, <1>2, <1>4 DEF Shaped, Kept
<1>12. Tracked'
  BY <1>1, <1>2, <1>4, <1>5 DEF Tracked
<1>13. Marked'
  BY <1>1, <1>2, <1>4, <1>5 DEF Marked
<1>14. InHandInv'
  <2>1. pc \in InPcs => waited \in Cmds
    BY <1>1 DEF InHandInv
  <2>2. /\ pc \in InPcs /\ waited # d =>
              proc'[waited] = proc[waited] /\ (waited \in unmarked' <=> waited \in unmarked)
        /\ pc \in InPcs /\ waited = d => waited \in unmarked' /\ proc'[waited] \in Live
    BY <1>2, <1>5, <2>1 DEF Live
  <2> QED
    BY <1>1, <1>2, <2>1, <2>2 DEF InHandInv, InPcs, StartPcs, FgPcs
<1>15. FgInv'
  BY <1>1, <1>2, <1>4, <1>5 DEF FgInv
<1>16. DeletedInv'
  BY <1>1, <1>2, <1>5 DEF DeletedInv, Types
<1>17. ForegroundInv'
  BY <1>1, <1>2, <1>4 DEF ForegroundInv
<1> QED
  BY <1>10, <1>11, <1>12, <1>13, <1>14, <1>15, <1>16, <1>17 DEF ShellInv

\* fg finds a job.
LEMMA FgKeeps ==
    ASSUME ShellInv, NEW i \in 1..Len(jobs_list), Fg(i)
    PROVE  ShellInv'
<1>1. /\ Types /\ Shaped /\ Tracked /\ Kept /\ Marked
      /\ InHandInv /\ FgInv /\ DeletedInv /\ ForegroundInv
  BY DEF ShellInv
<1>2. /\ pc = "exec" /\ pc' = "fgtake" /\ cur_job' = jobs_list[i]
      /\ jobs_list' = jobs_list /\ max_job_id' = max_job_id /\ deleted' = deleted
      /\ given' = given
      /\ current_cmd' = current_cmd /\ foreground' = foreground /\ pid_set' = pid_set
      /\ waited' = waited /\ is_background' = is_background
      /\ unmarked' = unmarked /\ proc' = proc
  BY DEF Fg, Goto, listVars
<1>3. \A e \in Entered : e.cmd \in Cmds /\ e.job_id \in Nat
  BY <1>1, EnteredFacts
<1>4. Entered' = Entered
  BY <1>2 DEF Entered
<1>5. /\ cur_job' \in Entered /\ cur_job'.cmd \in Cmds
      /\ cur_job' \in [job_id : 0..MaxJobId, cmd : Cmds \cup {NoCmd}, is_stopped : BOOLEAN]
      /\ cur_job'.job_id > 0
  <2>1. PICK e \in Entered : cur_job' = e /\ e = jobs_list[i]
    BY <1>1, <1>2, EnteredFacts
  <2>2. e \in Entries /\ e.cmd \in Cmds /\ e.job_id \in Nat /\ e.job_id <= max_job_id /\ e.job_id > 0
    BY <1>1, <1>2, EnteredFacts, ShapedFacts
  <2>3. max_job_id \in 0..MaxJobId /\ MaxJobId \in Nat
    BY <1>1, MaxJobIdAssumption DEF Types
  <2>4. e \in [job_id : 0..MaxJobId, cmd : Cmds \cup {NoCmd}, is_stopped : BOOLEAN]
    BY <2>2, <2>3 DEF Entries
  <2> QED
    BY <2>1, <2>2, <2>4
<1>10. Types'
  BY <1>1, <1>2, <1>5 DEF Types, Pcs
<1>11. Shaped'
  BY <1>1, <1>2 DEF Shaped
<1>12. Tracked'
  BY <1>1, <1>2, <1>4 DEF Tracked, InPcs, StartPcs, FgPcs
<1>13. Kept'
  BY <1>1, <1>2, <1>4 DEF Kept
<1>14. Marked'
  BY <1>1, <1>2, <1>4 DEF Marked
<1>15. InHandInv'
  BY <1>1, <1>2 DEF InHandInv, InPcs, StartPcs, FgPcs
<1>16. FgInv'
  BY <1>1, <1>2, <1>4, <1>5 DEF FgInv, Kept, FgPcs
<1>17. DeletedInv'
  BY <1>1, <1>2 DEF DeletedInv
<1>18. ForegroundInv'
  BY <1>1, <1>2, <1>4 DEF ForegroundInv
<1> QED
  BY <1>10, <1>11, <1>12, <1>13, <1>14, <1>15, <1>16, <1>17, <1>18 DEF ShellInv

\* A Command that nobody refers to becomes current.
LEMMA StartKeeps ==
    ASSUME ShellInv, NEW c \in Cmds, NEW b \in BOOLEAN, StartExternal(c, b)
    PROVE  ShellInv'
<1>1. /\ Types /\ Shaped /\ Tracked /\ Kept /\ Marked
      /\ InHandInv /\ FgInv /\ DeletedInv /\ ForegroundInv
  BY DEF ShellInv
<1>2. /\ pc = "exec" /\ pc' = "fork" /\ max_job_id < MaxJobId
      /\ proc[c] \in {"none", "reaped"} /\ c \notin Listed /\ c # current_cmd
      /\ foreground' = [foreground EXCEPT ![c] = ~b] /\ pid_set' = [pid_set EXCEPT ![c] = FALSE]
      /\ deleted' = deleted \ {c} /\ proc' = [proc EXCEPT ![c] = "none"]
      /\ current_cmd' = c /\ waited' = c /\ is_background' = b /\ given' = [given EXCEPT ![c] = 0]
      /\ jobs_list' = jobs_list /\ max_job_id' = max_job_id /\ cur_job' = cur_job
      /\ unmarked' = unmarked \ {c}
  BY DEF StartExternal, Goto, Give
<1>3. \A e \in Entered : e.cmd \in Cmds /\ e.job_id \in Nat
  BY <1>1, EnteredFacts
<1>4. Entered' = Entered
  BY <1>2 DEF Entered
<1>5. \A e \in Entered : e.cmd # c
  BY <1>1, <1>2, EnteredFacts
<1>10. Types'
  BY <1>1, <1>2, MaxJobIdAssumption DEF Types, Pcs, InPcs, StartPcs, States
<1>11. Shaped'
  BY <1>1, <1>2 DEF Shaped
<1>12. Tracked'
  BY <1>1, <1>2, <1>4, <1>5 DEF Tracked, InPcs, StartPcs, FgPcs
<1>13. Kept'
  BY <1>1, <1>2, <1>4, <1>5 DEF Kept
<1>14. Marked'
  BY <1>1, <1>2, <1>4, <1>5 DEF Marked
<1>15. InHandInv'
  BY <1>1, <1>2 DEF InHandInv, Types
<1>16. FgInv'
  BY <1>1, <1>2 DEF FgInv, FgPcs
<1>17. DeletedInv'
  BY <1>1, <1>2 DEF DeletedInv
<1>18. ForegroundInv'
  BY <1>1, <1>2, <1>4, <1>5 DEF ForegroundInv
<1> QED
  BY <1>10, <1>11, <1>12, <1>13, <1>14, <1>15, <1>16, <1>17, <1>18 DEF ShellInv

\* removeFinishedJobs, called by itself: before a command, by jobs, and, before it kills, by
\* the alarm handler wherever the main loop is.
LEMMA ReapKeeps ==
    ASSUME ShellInv, SetJobs(removeFinishedJobs(Jobs)),
           NEW p, SomeKilled(p), ReapAnd(p),
           UNCHANGED <<shellVars, given, unmarked>>, pc # "done",
           \/ pc' = pc
           \/ pc = "prompt" /\ pc' = "exec"
           \/ pc = "exec" /\ pc' = "after"
    PROVE  ShellInv'
<1>1. /\ Types /\ Shaped /\ Tracked /\ Kept /\ Marked
      /\ InHandInv /\ FgInv /\ DeletedInv /\ ForegroundInv
  BY DEF ShellInv
<1>2. /\ SetJobs(removeFinishedJobs(Jobs)) /\ pc # "done" /\ pc' # "done"
      /\ pc' = pc \/ (pc = "prompt" /\ pc' = "exec") \/ (pc = "exec" /\ pc' = "after")
      /\ current_cmd' = current_cmd /\ foreground' = foreground /\ pid_set' = pid_set
      /\ waited' = waited /\ is_background' = is_background /\ cur_job' = cur_job
      /\ unmarked' = unmarked /\ given' = given
  BY DEF shellVars
<1>3. \A e \in Entered : e.cmd \in Cmds /\ e.job_id \in Nat
  BY <1>1, EnteredFacts
<1>5. /\ jobs_list' \in Seq(Entries) /\ WellFormed(jobs_list', max_job_id')
      /\ max_job_id' \in 0..max_job_id
      /\ \A e : e \in Entered' <=> e \in Entered /\ proc[e.cmd] # "zombie"
  BY <1>1, <1>2, FinishedErased DEF SetJobs, Entered
<1>6. /\ proc' \in [Cmds -> States] /\ deleted' \subseteq Cmds
      /\ \A c \in Cmds : \/ /\ proc[c] = "zombie" /\ proc'[c] = "reaped" /\ c \in deleted'
                            /\ \E e \in Entered : e.cmd = c
                         \/ /\ ~(proc[c] = "zombie" /\ \E e \in Entered : e.cmd = c)
                            /\ proc'[c] = p[c] /\ (c \in deleted' <=> c \in deleted)
  BY <1>1, ReapAndIs DEF SomeKilled
<1>20. \A c \in Cmds : \/ p[c] = proc[c]
                       \/ proc[c] \in {"running", "stopped"} /\ p[c] = "zombie"
  BY DEF SomeKilled
<1>7. pc \in InPcs => waited \in Cmds /\ proc'[waited] = p[waited]
                       /\ (waited \in deleted' <=> waited \in deleted)
  <2>1. pc \in InPcs => waited \in Cmds /\ \A e \in Entered : e.cmd # waited
    BY <1>1, <1>2 DEF Tracked, InHandInv
  <2> QED
    BY <1>6, <2>1
<1>8. \A e \in Entered' : /\ e \in Entered /\ e.cmd \in Cmds /\ e.job_id \in Nat
                         /\ proc'[e.cmd] = p[e.cmd] /\ (e.cmd \in deleted' <=> e.cmd \in deleted)
  BY <1>3, <1>5, <1>6
<1>9. \A e, f \in Entered : e.job_id = f.job_id \/ e.cmd = f.cmd => e = f
  BY <1>1, <1>2, ShapedFacts
<1>4. (pc' \in InPcs => pc' = pc) /\ (pc \in InPcs => pc' = pc)
  BY <1>2 DEF InPcs, StartPcs, FgPcs
<1>10. Types'
  BY <1>1, <1>2, <1>5, <1>6, MaxJobIdAssumption DEF Types, Pcs
<1>11. Shaped'
  BY <1>1, <1>2, <1>5 DEF Shaped
<1>12. Tracked'
  <2>1. ASSUME NEW c \in Cmds, proc'[c] \in Live
        PROVE  (pc' \in InPcs /\ c = waited') \/ \E e \in Entered' : e.cmd = c
    <3>1. proc[c] \in Live /\ ~(proc[c] = "zombie" /\ \E e \in Entered : e.cmd = c)
      BY <1>6, <1>20, <2>1 DEF Live
    <3>2. (pc \in InPcs /\ c = waited) \/ \E e \in Entered : e.cmd = c
      BY <1>1, <1>2, <2>1, <3>1 DEF Tracked
    <3>3. ASSUME NEW e \in Entered, e.cmd = c PROVE e \in Entered'
      BY <1>5, <3>1, <3>3
    <3> QED
      BY <1>2, <1>4, <3>2, <3>3
  <2>2. pc' \in InPcs => \A e \in Entered' : e.cmd # waited'
    BY <1>1, <1>2, <1>4, <1>8 DEF Tracked
  <2>3. \A e \in Entered' : e.cmd \notin deleted' /\ proc'[e.cmd] \in Live
    BY <1>1, <1>2, <1>8, <1>20 DEF Tracked, Live
  <2> QED
    BY <2>1, <2>2, <2>3 DEF Tracked
<1>13. Kept'
  BY <1>1, <1>2, <1>8 DEF Kept
<1>14. Marked'
  BY <1>1, <1>2, <1>8, <1>20 DEF Marked
<1>15. InHandInv'
  <2>1. pc' \in InPcs => /\ pc' = pc /\ waited' = waited
                         /\ (waited' \in deleted' <=> waited \in deleted)
                         /\ \/ proc'[waited'] = proc[waited]
                            \/ proc[waited] \in {"running", "stopped"} /\ proc'[waited'] = "zombie"
    BY <1>2, <1>4, <1>7, <1>20
  <2>2. max_job_id < MaxJobId => max_job_id' < MaxJobId
    BY <1>1, <1>5, MaxJobIdAssumption DEF Types
  <2> QED
    BY <1>1, <1>2, <2>1, <2>2 DEF InHandInv, InPcs, StartPcs, FgPcs, Live
<1>16. FgInv'
  BY <1>1, <1>2, <1>5, <1>6, <1>9, <1>20 DEF FgInv, FgPcs
<1>17. DeletedInv'
  BY <1>1, <1>2, <1>6, <1>20 DEF DeletedInv
<1>18. ForegroundInv'
  BY <1>1, <1>2, <1>8 DEF ForegroundInv
<1> QED
  BY <1>10, <1>11, <1>12, <1>13, <1>14, <1>15, <1>16, <1>17, <1>18 DEF ShellInv

\* A command is listed with the next id, after finished jobs have been removed.
LEMMA AddJobKeeps ==
    ASSUME ShellInv, AddJob
    PROVE  ShellInv'
<1>1. /\ Types /\ Shaped /\ Tracked /\ Kept /\ Marked
      /\ InHandInv /\ FgInv /\ DeletedInv /\ ForegroundInv
  BY DEF ShellInv
<1>2. /\ pc = "add" /\ pc' = "after"
      /\ Reap /\ SetJobs(addJob(removeFinishedJobs(Jobs), waited, ~is_background))
      /\ Give(waited, addJob(removeFinishedJobs(Jobs), waited, ~is_background).max)
      /\ current_cmd' = current_cmd /\ foreground' = foreground /\ pid_set' = pid_set
      /\ waited' = waited /\ is_background' = is_background /\ cur_job' = cur_job
      /\ unmarked' = unmarked
  BY DEF AddJob, Goto, shellVars
<1>3. \A e \in Entered : e.cmd \in Cmds /\ e.job_id \in Nat
  BY <1>1, EnteredFacts
<1>5. PICK j : j = removeFinishedJobs(Jobs)
  OBVIOUS
<1>6. /\ j.list \in Seq(Entries) /\ WellFormed(j.list, j.max) /\ j.max \in 0..max_job_id
      /\ \A e : e \in In(j.list) <=> e \in Entered /\ proc[e.cmd] # "zombie"
  BY <1>1, <1>2, <1>5, FinishedErased
<1>7. /\ proc' \in [Cmds -> States] /\ deleted' \subseteq Cmds
      /\ \A c \in Cmds : \/ /\ proc[c] = "zombie" /\ proc'[c] = "reaped" /\ c \in deleted'
                            /\ \E e \in Entered : e.cmd = c
                         \/ /\ ~(proc[c] = "zombie" /\ \E e \in Entered : e.cmd = c)
                            /\ proc'[c] = proc[c] /\ (c \in deleted' <=> c \in deleted)
  BY <1>1, <1>2, ReapIs
<1>8. /\ waited \in Cmds /\ current_cmd = waited /\ proc[waited] \in Live /\ proc'[waited] = proc[waited]
      /\ waited \notin deleted' /\ \A e \in Entered : e.cmd # waited
  <2>1. waited \in Cmds /\ current_cmd = waited /\ proc[waited] \in Live /\ \A e \in Entered : e.cmd # waited
    BY <1>1, <1>2 DEF Tracked, InHandInv, InPcs, StartPcs, FgPcs
  <2>2. waited \notin deleted
    BY <1>1, <1>2, <2>1 DEF DeletedInv, Live
  <2> QED
    BY <1>7, <2>1, <2>2
<1> DEFINE x == [job_id |-> j.max + 1, cmd |-> waited, is_stopped |-> ~is_background]
<1>20. /\ x \in Entries /\ x.job_id = j.max + 1 /\ x.cmd = waited /\ x.is_stopped = ~is_background
       /\ j.max \in Nat /\ j.max + 1 \in 0..MaxJobId /\ x.job_id > j.max
  <2>1. is_background \in BOOLEAN /\ max_job_id \in 0..MaxJobId /\ max_job_id < MaxJobId
    BY <1>1, <1>2 DEF Types, InHandInv, StartPcs
  <2>2. j.max \in Nat /\ j.max + 1 \in 0..MaxJobId /\ j.max + 1 > j.max /\ j.max + 1 \in Nat
    BY <1>6, <2>1, MaxJobIdAssumption
  <2> QED
    BY <1>8, <2>1, <2>2 DEF Entries
<1>21. /\ jobs_list' = Append(j.list, x) /\ max_job_id' = j.max + 1
       /\ given' = [given EXCEPT ![waited] = j.max + 1]
  BY <1>2, <1>5 DEF SetJobs, addJob, Give
<1> HIDE DEF x
<1>22. \A f \in In(j.list) : f.cmd # x.cmd
  BY <1>6, <1>8, <1>20
<1>23. /\ Append(j.list, x) \in Seq(Entries) /\ WellFormed(Append(j.list, x), x.job_id)
       /\ In(Append(j.list, x)) = In(j.list) \cup {x}
  BY <1>6, <1>20, <1>22, AppendedList
<1>9. /\ jobs_list' \in Seq(Entries) /\ WellFormed(jobs_list', max_job_id') /\ max_job_id' \in 0..MaxJobId
      /\ Entered' = In(j.list) \cup {x}
      /\ x.cmd = waited /\ x.is_stopped = ~is_background
      /\ x.job_id \in 0..MaxJobId /\ given' = [given EXCEPT ![waited] = x.job_id]
  BY <1>20, <1>21, <1>23 DEF Entered
<1>30. \A e \in Entered' : \/ /\ e \in Entered /\ e.cmd # waited /\ proc'[e.cmd] = proc[e.cmd]
                             /\ e.cmd \in Cmds /\ (e.cmd \in deleted' <=> e.cmd \in deleted)
                          \/ e = x
  BY <1>3, <1>6, <1>7, <1>8, <1>9
<1>31. \A e \in Entered : proc[e.cmd] # "zombie" => e \in Entered'
  BY <1>6, <1>9
<1>32. x \in Entered'
  BY <1>9
<1>10. Types'
  BY <1>1, <1>2, <1>7, <1>9 DEF Types, Pcs
<1>11. Shaped'
  BY <1>1, <1>2, <1>9 DEF Shaped
<1>12. Tracked'
  <2>1. ASSUME NEW c \in Cmds, proc'[c] \in Live
        PROVE  \E e \in Entered' : e.cmd = c
    <3>1. proc'[c] = proc[c] /\ ~(proc[c] = "zombie" /\ \E e \in Entered : e.cmd = c)
      BY <1>7, <2>1 DEF Live
    <3>2. c = waited \/ \E e \in Entered : e.cmd = c
      BY <1>1, <1>2, <2>1, <3>1 DEF Tracked
    <3>3. ASSUME NEW e \in Entered, e.cmd = c PROVE e \in Entered'
      BY <1>31, <3>1, <3>3
    <3> QED
      BY <1>9, <1>32, <3>2, <3>3
  <2>2. pc' \notin InPcs
    BY <1>2 DEF InPcs, StartPcs, FgPcs
  <2>3. \A e \in Entered' : e.cmd \notin deleted' /\ proc'[e.cmd] \in Live
    BY <1>1, <1>2, <1>8, <1>9, <1>30 DEF Tracked
  <2> QED
    BY <2>1, <2>2, <2>3 DEF Tracked
<1>13. Kept'
  BY <1>1, <1>2, <1>8, <1>9, <1>30 DEF Kept, Types
<1>14. Marked'
  BY <1>1, <1>2, <1>8, <1>9, <1>30 DEF Marked, InHandInv, ForegroundInv
<1>15. InHandInv'
  BY <1>1, <1>2 DEF InHandInv, InPcs, StartPcs
<1>16. FgInv'
  BY <1>1, <1>2 DEF FgInv, FgPcs
<1>17. DeletedInv'
  BY <1>1, <1>2, <1>7 DEF DeletedInv
<1>18. ForegroundInv'
  BY <1>1, <1>2, <1>8, <1>9, <1>30 DEF ForegroundInv, InHandInv, StartPcs
<1> QED
  BY <1>10, <1>11, <1>12, <1>13, <1>14, <1>15, <1>16, <1>17, <1>18 DEF ShellInv

\* The job fg has taken and that was stopped again is listed under its old id.
LEMMA FgAddKeeps ==
    ASSUME ShellInv, FgAdd
    PROVE  ShellInv'
<1>1. /\ Types /\ Shaped /\ Tracked /\ Kept /\ Marked
      /\ InHandInv /\ FgInv /\ DeletedInv /\ ForegroundInv
  BY DEF ShellInv
<1>2. /\ pc = "fgadd" /\ pc' = "after"
      /\ Reap /\ SetJobs(addJobWithId(removeFinishedJobs(Jobs), waited, cur_job.job_id, TRUE))
      /\ current_cmd' = current_cmd /\ foreground' = foreground /\ pid_set' = pid_set
      /\ waited' = waited /\ is_background' = is_background /\ cur_job' = cur_job
      /\ unmarked' = unmarked /\ given' = given
  BY DEF FgAdd, Goto, shellVars
<1>3. \A e \in Entered : e.cmd \in Cmds /\ e.job_id \in Nat
  BY <1>1, EnteredFacts
<1>5. PICK j : j = removeFinishedJobs(Jobs)
  OBVIOUS
<1>6. /\ j.list \in Seq(Entries) /\ WellFormed(j.list, j.max) /\ j.max \in 0..max_job_id
      /\ \A e : e \in In(j.list) <=> e \in Entered /\ proc[e.cmd] # "zombie"
  BY <1>1, <1>2, <1>5, FinishedErased
<1>7. /\ proc' \in [Cmds -> States] /\ deleted' \subseteq Cmds
      /\ \A c \in Cmds : \/ /\ proc[c] = "zombie" /\ proc'[c] = "reaped" /\ c \in deleted'
                            /\ \E e \in Entered : e.cmd = c
                         \/ /\ ~(proc[c] = "zombie" /\ \E e \in Entered : e.cmd = c)
                            /\ proc'[c] = proc[c] /\ (c \in deleted' <=> c \in deleted)
  BY <1>1, <1>2, ReapIs
<1>8. /\ waited \in Cmds /\ current_cmd = waited /\ proc[waited] \in Live /\ proc'[waited] = proc[waited]
      /\ waited \notin deleted' /\ \A e \in Entered : e.cmd # waited
  <2>1. waited \in Cmds /\ current_cmd = waited /\ proc[waited] \in Live /\ \A e \in Entered : e.cmd # waited
    BY <1>1, <1>2 DEF Tracked, InHandInv, InPcs, StartPcs, FgPcs
  <2>2. waited \notin deleted
    BY <1>1, <1>2, <2>1 DEF DeletedInv, Live
  <2> QED
    BY <1>7, <2>1, <2>2
<1> DEFINE x == [job_id |-> cur_job.job_id, cmd |-> waited, is_stopped |-> TRUE]
<1>20. /\ x \in Entries /\ x.job_id = cur_job.job_id /\ x.cmd = waited /\ x.is_stopped = TRUE
       /\ cur_job.job_id \in 0..MaxJobId /\ cur_job.job_id > 0 /\ j.max \in Nat /\ j.max \in 0..MaxJobId
  <2>1. cur_job.job_id \in 0..MaxJobId /\ cur_job.job_id > 0 /\ max_job_id \in 0..MaxJobId
    BY <1>1, <1>2 DEF Types, FgInv, FgPcs
  <2>2. j.max \in Nat /\ j.max \in 0..MaxJobId /\ cur_job.job_id \in Nat
    BY <1>6, <2>1, MaxJobIdAssumption
  <2> QED
    BY <1>8, <2>1, <2>2 DEF Entries
<1>21. /\ j.max < x.job_id => jobs_list' = Append(j.list, x) /\ max_job_id' = x.job_id
       /\ ~(j.max < x.job_id) =>
             /\ max_job_id' = j.max
             /\ jobs_list' = IF PlaceOf(j.list, x.job_id) = 0 THEN j.list
                             ELSE InsertAt(j.list, PlaceOf(j.list, x.job_id), x)
  BY <1>2, <1>5, <1>20 DEF SetJobs, addJobWithId
<1> HIDE DEF x
<1>22. \A f \in In(j.list) : f.cmd # x.cmd /\ f.job_id # x.job_id
  <2>1. \A e \in Entered : e.job_id # cur_job.job_id
    BY <1>1, <1>2 DEF FgInv, FgPcs
  <2> QED
    BY <1>6, <1>8, <1>20, <2>1
<1>23. /\ jobs_list' \in Seq(Entries) /\ WellFormed(jobs_list', max_job_id')
       /\ In(jobs_list') = In(j.list) \cup {x} /\ max_job_id' \in 0..MaxJobId
  <2>1. CASE j.max < x.job_id
    <3>1. x.job_id > j.max
      BY <1>20, <2>1
    <3>2. /\ Append(j.list, x) \in Seq(Entries) /\ WellFormed(Append(j.list, x), x.job_id)
          /\ In(Append(j.list, x)) = In(j.list) \cup {x}
      BY <1>6, <1>20, <1>22, <3>1, AppendedList
    <3> QED
      BY <1>20, <1>21, <2>1, <3>2
  <2>2. CASE ~(j.max < x.job_id)
    <3>1. x.job_id <= j.max /\ x.job_id > 0
      BY <1>20, <2>2
    <3>2. /\ PlaceOf(j.list, x.job_id) # 0
          /\ InsertAt(j.list, PlaceOf(j.list, x.job_id), x) \in Seq(Entries)
          /\ WellFormed(InsertAt(j.list, PlaceOf(j.list, x.job_id), x), j.max)
          /\ In(InsertAt(j.list, PlaceOf(j.list, x.job_id), x)) = In(j.list) \cup {x}
      BY <1>6, <1>20, <1>22, <3>1, InsertedList
    <3> QED
      BY <1>20, <1>21, <2>2, <3>2
  <2> QED
    BY <2>1, <2>2
<1>9. /\ jobs_list' \in Seq(Entries) /\ WellFormed(jobs_list', max_job_id') /\ max_job_id' \in 0..MaxJobId
      /\ Entered' = In(j.list) \cup {x}
      /\ x.cmd = waited /\ x.is_stopped = TRUE /\ x.job_id = cur_job.job_id
  BY <1>20, <1>23 DEF Entered
<1>30. \A e \in Entered' : \/ /\ e \in Entered /\ e.cmd # waited /\ proc'[e.cmd] = proc[e.cmd]
                             /\ e.cmd \in Cmds /\ (e.cmd \in deleted' <=> e.cmd \in deleted)
                          \/ e = x
  BY <1>3, <1>6, <1>7, <1>8, <1>9
<1>31. \A e \in Entered : proc[e.cmd] # "zombie" => e \in Entered'
  BY <1>6, <1>9
<1>32. x \in Entered'
  BY <1>9
<1>10. Types'
  BY <1>1, <1>2, <1>7, <1>9 DEF Types, Pcs
<1>11. Shaped'
  BY <1>1, <1>2, <1>9 DEF Shaped
<1>12. Tracked'
  <2>1. ASSUME NEW c \in Cmds, proc'[c] \in Live
        PROVE  \E e \in Entered' : e.cmd = c
    <3>1. proc'[c] = proc[c] /\ ~(proc[c] = "zombie" /\ \E e \in Entered : e.cmd = c)
      BY <1>7, <2>1 DEF Live
    <3>2. c = waited \/ \E e \in Entered : e.cmd = c
      BY <1>1, <1>2, <2>1, <3>1 DEF Tracked
    <3>3. ASSUME NEW e \in Entered, e.cmd = c PROVE e \in Entered'
      BY <1>31, <3>1, <3>3
    <3> QED
      BY <1>9, <1>32, <3>2, <3>3
  <2>2. pc' \notin InPcs
    BY <1>2 DEF InPcs, StartPcs, FgPcs
  <2>3. \A e \in Entered' : e.cmd \notin deleted' /\ proc'[e.cmd] \in Live
    BY <1>1, <1>2, <1>8, <1>9, <1>30 DEF Tracked
  <2> QED
    BY <2>1, <2>2, <2>3 DEF Tracked
<1>13. Kept'
  BY <1>1, <1>2, <1>9, <1>30 DEF Kept, FgInv, FgPcs
<1>14. Marked'
  BY <1>1, <1>2, <1>8, <1>9, <1>30 DEF Marked, InHandInv
<1>15. InHandInv'
  BY <1>1, <1>2 DEF InHandInv, InPcs, StartPcs, FgPcs
<1>16. FgInv'
  BY <1>1, <1>2 DEF FgInv, FgPcs
<1>17. DeletedInv'
  BY <1>1, <1>2, <1>7 DEF DeletedInv
<1>18. ForegroundInv'
  BY <1>1, <1>2, <1>9, <1>30 DEF ForegroundInv
<1> QED
  BY <1>10, <1>11, <1>12, <1>13, <1>14, <1>15, <1>16, <1>17, <1>18 DEF ShellInv

\* fg takes the job with its id out of the list.
LEMMA JobErased ==
    ASSUME Types, Shaped, pc # "done", NEW id, NEW j, j = removeJobById(Jobs, id)
    PROVE  /\ j.list \in Seq(Entries) /\ WellFormed(j.list, j.max)
           /\ j.max \in 0..max_job_id
           /\ \A e : e \in In(j.list) <=> e \in Entered /\ e.job_id # id
<1> DEFINE P == {i \in 1..Len(jobs_list) : jobs_list[i].job_id # id}
<1>1. jobs_list \in Seq(Entries) /\ WellFormed(jobs_list, max_job_id) /\ max_job_id \in Nat
  BY MaxJobIdAssumption DEF Types, Shaped
<1>2. Jobs.list = jobs_list /\ Jobs.max = max_job_id
  BY DEF Jobs
<1>3. PICK t : t = Sublist(jobs_list, P)
  OBVIOUS
<1>4. j.list = t /\ j.max = MaxAfterErase(Jobs, t)
  BY <1>2, <1>3 DEF removeJobById
<1>5. /\ t \in Seq(Entries) /\ WellFormed(t, MaxAfterErase(Jobs, t))
      /\ MaxAfterErase(Jobs, t) <= max_job_id
      /\ \A e \in In(t) : \E p \in 1..Len(jobs_list) : p \in P /\ e = jobs_list[p]
      /\ \A p \in 1..Len(jobs_list) : p \in P => jobs_list[p] \in In(t)
  <2> HIDE DEF P
  <2> QED
    BY <1>1, <1>2, <1>3, ErasedList
<1>6. MaxAfterErase(Jobs, t) \in Nat
  BY <1>5, WellFormedFacts
<1>7. \A e \in In(t) : e \in Entered /\ e.job_id # id
  BY <1>5 DEF Entered, In
<1>8. \A e \in Entered : e.job_id # id => e \in In(t)
  <2>1. \A e \in Entered : \E p \in 1..Len(jobs_list) : e = jobs_list[p]
    BY DEF Entered, In
  <2> QED
    BY <1>5, <2>1
<1>9. j.max \in 0..max_job_id
  BY <1>1, <1>4, <1>5, <1>6
<1> QED
  BY <1>4, <1>5, <1>7, <1>8, <1>9

\* fg takes the job out of the list, or what the alarm handler has left of it.
LEMMA FgTakeKeeps ==
    ASSUME ShellInv, FgTake
    PROVE  ShellInv'
<1>1. /\ Types /\ Shaped /\ Tracked /\ Kept /\ Marked
      /\ InHandInv /\ FgInv /\ DeletedInv /\ ForegroundInv
  BY DEF ShellInv
<1>2. /\ pc = "fgtake" /\ pc' = (IF cur_job.is_stopped THEN "fgcont" ELSE "fgwait")
      /\ SetJobs(removeJobById(Jobs, cur_job.job_id))
      /\ foreground' = [foreground EXCEPT ![cur_job.cmd] = TRUE]
      /\ current_cmd' = cur_job.cmd /\ waited' = cur_job.cmd
      /\ pid_set' = pid_set /\ is_background' = is_background /\ cur_job' = cur_job
      /\ deleted' = deleted /\ given' = given
      /\ proc' = proc /\ unmarked' = unmarked
  BY DEF FgTake, Goto
<1>3. \A e \in Entered : e.cmd \in Cmds /\ e.job_id \in Nat
  BY <1>1, EnteredFacts
<1>4. cur_job.cmd \in Cmds /\ cur_job.job_id > 0 /\ cur_job.job_id \in Nat /\ cur_job.is_stopped \in BOOLEAN
  BY <1>1, <1>2, MaxJobIdAssumption DEF Types, FgInv
<1>5. /\ jobs_list' \in Seq(Entries) /\ WellFormed(jobs_list', max_job_id')
      /\ max_job_id' \in 0..max_job_id
      /\ \A e : e \in Entered' <=> e \in Entered /\ e.job_id # cur_job.job_id
  BY <1>1, <1>2, JobErased DEF SetJobs, Entered
<1>6. cur_job \in Entered \/ (proc[cur_job.cmd] = "reaped" /\ \A e \in Entered : e.job_id # cur_job.job_id)
  BY <1>1, <1>2 DEF FgInv
<1>7. \A e, f \in Entered : e.job_id = f.job_id \/ e.cmd = f.cmd => e = f
  BY <1>1, <1>2, ShapedFacts
<1>8. /\ \A e \in Entered : e.cmd \notin deleted /\ proc[e.cmd] \in Live
      /\ \A c \in Cmds : proc[c] \in Live => \E e \in Entered : e.cmd = c
  BY <1>1, <1>2 DEF Tracked, InPcs, StartPcs, FgPcs
<1>9. \A e \in Entered' : e \in Entered /\ e.cmd # cur_job.cmd
  <2>1. \A e \in Entered : proc[e.cmd] # "reaped"
    BY <1>8 DEF Live
  <2> QED
    BY <1>5, <1>6, <1>7, <2>1
<1>20. proc[cur_job.cmd] \in Live \cup {"reaped"}
  BY <1>6, <1>8
<1>10. Types'
  BY <1>1, <1>2, <1>4, <1>5, MaxJobIdAssumption DEF Types, Pcs, InPcs, FgPcs
<1>11. Shaped'
  BY <1>1, <1>2, <1>5 DEF Shaped
<1>12. Tracked'
  <2>1. ASSUME NEW c \in Cmds, proc'[c] \in Live
        PROVE  c = waited' \/ \E e \in Entered' : e.cmd = c
    <3>1. PICK e \in Entered : e.cmd = c
      BY <1>2, <1>8, <2>1
    <3>2. e.job_id # cur_job.job_id => e \in Entered'
      BY <1>5
    <3>3. e.job_id = cur_job.job_id => e = cur_job
      BY <1>6, <1>7
    <3> QED
      BY <1>2, <3>1, <3>2, <3>3
  <2>2. pc' \in InPcs
    BY <1>2, <1>4 DEF InPcs, StartPcs, FgPcs
  <2>3. \A e \in Entered' : e.cmd # waited' /\ e.cmd \notin deleted' /\ proc'[e.cmd] \in Live
    BY <1>2, <1>8, <1>9
  <2> QED
    BY <2>1, <2>2, <2>3 DEF Tracked
<1>13. Kept'
  BY <1>1, <1>2, <1>5 DEF Kept
<1>14. Marked'
  BY <1>1, <1>2, <1>5 DEF Marked
<1>15. InHandInv'
  BY <1>1, <1>2, <1>4, <1>20 DEF InHandInv, StartPcs
<1>16. FgInv'
  BY <1>1, <1>2, <1>5 DEF FgInv
<1>17. DeletedInv'
  BY <1>1, <1>2 DEF DeletedInv
<1>18. ForegroundInv'
  BY <1>1, <1>2, <1>6, <1>9 DEF ForegroundInv, Marked
<1> QED
  BY <1>10, <1>11, <1>12, <1>13, <1>14, <1>15, <1>16, <1>17, <1>18 DEF ShellInv

\* bg wakes a stopped job and clears its mark.
LEMMA BgKeeps ==
    ASSUME ShellInv, NEW i \in 1..Len(jobs_list), Bg(i)
    PROVE  ShellInv'
<1>1. /\ Types /\ Shaped /\ Tracked /\ Kept /\ Marked
      /\ InHandInv /\ FgInv /\ DeletedInv /\ ForegroundInv
  BY DEF ShellInv
<1>2. /\ pc = "exec" /\ pc' = "after" /\ jobs_list[i].is_stopped
      /\ proc' = Signal({jobs_list[i].cmd}, "SIGCONT")
      /\ jobs_list' = [jobs_list EXCEPT ![i].is_stopped = FALSE]
      /\ max_job_id' = max_job_id /\ deleted' = deleted /\ given' = given
      /\ unmarked' = unmarked \ {jobs_list[i].cmd}
      /\ current_cmd' = current_cmd /\ foreground' = foreground /\ pid_set' = pid_set
      /\ waited' = waited /\ is_background' = is_background /\ cur_job' = cur_job
  BY DEF Bg, Goto, shellVars
<1>3. \A e \in Entered : e.cmd \in Cmds /\ e.job_id \in Nat
  BY <1>1, EnteredFacts
<1>4. jobs_list \in Seq(Entries) /\ WellFormed(jobs_list, max_job_id)
  BY <1>1, <1>2 DEF Types, Shaped
<1> DEFINE d == jobs_list[i].cmd
<1>5. /\ jobs_list[i] \in Entered /\ d \in Cmds /\ proc[d] \in Live
      /\ jobs_list[i].is_stopped \in BOOLEAN /\ given[d] = jobs_list[i].job_id
  <2>1. jobs_list[i] \in Entered /\ d \in Cmds /\ jobs_list[i].is_stopped \in BOOLEAN
    BY <1>1, EnteredFacts
  <2> QED
    BY <1>1, <1>2, <2>1 DEF Tracked, Kept
<1> DEFINE s == FALSE
           x == MarkedEntry(jobs_list, i, s)
<1>6. s \in BOOLEAN /\ jobs_list' = MarkedAs(jobs_list, i, s)
  BY <1>2 DEF MarkedAs
<1> HIDE DEF s, x
<1>7. /\ jobs_list' \in Seq(Entries) /\ WellFormed(jobs_list', max_job_id')
      /\ \A f \in Entered' : f = x \/ (f \in Entered /\ f.cmd # d)
      /\ \A f \in Entered : f.cmd # d => f \in Entered'
      /\ x \in Entered'
  <2>1. /\ jobs_list' \in Seq(Entries) /\ WellFormed(jobs_list', max_job_id)
        /\ \A f \in In(jobs_list') : f = x \/ (f \in In(jobs_list) /\ f.cmd # d)
        /\ \A f \in In(jobs_list) : f.cmd # d => f \in In(jobs_list')
        /\ x \in In(jobs_list')
    BY <1>4, <1>6, MarkedList DEF x
  <2> QED
    BY <1>2, <2>1 DEF Entered
<1>8. x.job_id = jobs_list[i].job_id /\ x.cmd = d /\ jobs_list[i].cmd = d
  BY DEF s, x, MarkedEntry
<1>9. /\ proc' \in [Cmds -> States]
      /\ \A c \in Cmds : \/ proc'[c] = proc[c] /\ (c # d \/ proc[c] \notin {"running", "stopped"})
                         \/ /\ c = d /\ proc[c] \in {"running", "stopped"} /\ proc'[c] \in Live
                            /\ proc'[c] = "running"
  <2>1. "SIGCONT" \in Signals
    BY DEF Signals
  <2> QED
    BY <1>1, <1>2, <2>1, SignalIs
<1> HIDE DEF d
<1>20. \A c \in Cmds : proc'[c] \in Live <=> proc[c] \in Live
  BY <1>9 DEF Live
<1>21. pc' \notin InPcs /\ pc \notin InPcs
  BY <1>2 DEF InPcs, StartPcs, FgPcs
<1>22. x.is_stopped = FALSE
  BY DEF s, x, MarkedEntry
<1>10. Types'
  BY <1>1, <1>2, <1>7, <1>9 DEF Types, Pcs
<1>11. Shaped'
  BY <1>1, <1>2, <1>7 DEF Shaped
<1>12. Tracked'
  <2>1. ASSUME NEW c \in Cmds, proc'[c] \in Live
        PROVE  \E e \in Entered' : e.cmd = c
    <3>1. PICK e \in Entered : e.cmd = c
      BY <1>1, <1>2, <1>20, <1>21, <2>1 DEF Tracked
    <3> QED
      BY <1>7, <1>8, <3>1
  <2>2. \A e \in Entered' : e.cmd \notin deleted' /\ proc'[e.cmd] \in Live
    <3>1. \A e \in Entered : e.cmd \notin deleted /\ proc[e.cmd] \in Live
      BY <1>1, <1>2 DEF Tracked
    <3>2. \A e \in Entered' : \E f \in Entered : f.cmd = e.cmd
      BY <1>5, <1>7, <1>8
    <3> QED
      BY <1>2, <1>3, <1>20, <3>1, <3>2
  <2> QED
    BY <1>21, <2>1, <2>2 DEF Tracked
<1>13. Kept'
  BY <1>1, <1>2, <1>5, <1>7, <1>8 DEF Kept
<1>14. Marked'
  <2> SUFFICES ASSUME NEW e \in Entered', e.cmd \notin unmarked', proc'[e.cmd] # "zombie"
               PROVE  e.is_stopped <=> proc'[e.cmd] = "stopped"
    BY <1>2 DEF Marked
  <2>1. CASE e = x
    <3>1. proc[d] \in {"running", "stopped"}
      BY <1>5, <1>8, <1>9, <2>1 DEF Live
    <3> QED
      BY <1>5, <1>8, <1>9, <1>22, <2>1, <3>1
  <2>2. CASE e \in Entered /\ e.cmd # d
    <3>1. e.cmd \in Cmds /\ proc'[e.cmd] = proc[e.cmd]
      BY <1>3, <1>9, <2>2
    <3> QED
      BY <1>1, <1>2, <2>2, <3>1 DEF Marked, d
  <2> QED
    BY <1>7, <2>1, <2>2
<1>15. InHandInv'
  BY <1>1, <1>2, <1>21 DEF InHandInv, InPcs
<1>16. FgInv'
  BY <1>1, <1>2 DEF FgInv, FgPcs
<1>17. DeletedInv'
  BY <1>1, <1>2, <1>9 DEF DeletedInv, Types
<1>18. ForegroundInv'
  <2>1. \A e \in Entered' : e.cmd \in Cmds /\ e.cmd # NoCmd
    BY <1>3, <1>5, <1>7, <1>8, NoCmdAssumption
  <2> QED
    BY <1>1, <1>2, <2>1 DEF ForegroundInv
<1> QED
  BY <1>10, <1>11, <1>12, <1>13, <1>14, <1>15, <1>16, <1>17, <1>18 DEF ShellInv

\* kill sends a signal to a job and marks it accordingly.
LEMMA KillKeeps ==
    ASSUME ShellInv, NEW i \in 1..Len(jobs_list), NEW sig \in Signals, KillJob(i, sig)
    PROVE  ShellInv'
<1>1. /\ Types /\ Shaped /\ Tracked /\ Kept /\ Marked
      /\ InHandInv /\ FgInv /\ DeletedInv /\ ForegroundInv
  BY DEF ShellInv
<1>2. /\ pc = "exec" /\ pc' = "after"
      /\ proc' = Signal({jobs_list[i].cmd}, sig)
      /\ jobs_list' = [jobs_list EXCEPT ![i].is_stopped = MarkAfter(sig, jobs_list[i].is_stopped)]
      /\ max_job_id' = max_job_id /\ deleted' = deleted /\ given' = given
      /\ sig \in {"SIGSTOP", "SIGCONT"} => unmarked' = unmarked \ {jobs_list[i].cmd}
      /\ sig \notin {"SIGSTOP", "SIGCONT"} => unmarked' = unmarked \cup Toggled
      /\ current_cmd' = current_cmd /\ foreground' = foreground /\ pid_set' = pid_set
      /\ waited' = waited /\ is_background' = is_background /\ cur_job' = cur_job
  BY DEF KillJob, Goto, shellVars
<1>3. \A e \in Entered : e.cmd \in Cmds /\ e.job_id \in Nat
  BY <1>1, EnteredFacts
<1>4. jobs_list \in Seq(Entries) /\ WellFormed(jobs_list, max_job_id)
  BY <1>1, <1>2 DEF Types, Shaped
<1> DEFINE d == jobs_list[i].cmd
<1>5. /\ jobs_list[i] \in Entered /\ d \in Cmds /\ proc[d] \in Live
      /\ jobs_list[i].is_stopped \in BOOLEAN /\ given[d] = jobs_list[i].job_id
  <2>1. jobs_list[i] \in Entered /\ d \in Cmds /\ jobs_list[i].is_stopped \in BOOLEAN
    BY <1>1, EnteredFacts
  <2> QED
    BY <1>1, <1>2, <2>1 DEF Tracked, Kept
<1> DEFINE s == MarkAfter(sig, jobs_list[i].is_stopped)
           x == MarkedEntry(jobs_list, i, s)
<1>23. \/ sig \in {"SIGKILL", "SIGTSTP", "SIGCHLD"} /\ s = jobs_list[i].is_stopped
       \/ sig = "SIGSTOP" /\ s = TRUE
       \/ sig = "SIGCONT" /\ s = FALSE
  BY DEF MarkAfter, Signals
<1>6. s \in BOOLEAN /\ jobs_list' = MarkedAs(jobs_list, i, s)
  BY <1>2, <1>5 DEF MarkAfter, Signals, MarkedAs
<1> HIDE DEF s
<1> HIDE DEF x
<1>7. /\ jobs_list' \in Seq(Entries) /\ WellFormed(jobs_list', max_job_id')
      /\ \A f \in Entered' : f = x \/ (f \in Entered /\ f.cmd # d)
      /\ \A f \in Entered : f.cmd # d => f \in Entered'
      /\ x \in Entered'
  <2>1. /\ jobs_list' \in Seq(Entries) /\ WellFormed(jobs_list', max_job_id)
        /\ \A f \in In(jobs_list') : f = x \/ (f \in In(jobs_list) /\ f.cmd # d)
        /\ \A f \in In(jobs_list) : f.cmd # d => f \in In(jobs_list')
        /\ x \in In(jobs_list')
    BY <1>4, <1>6, MarkedList DEF x
  <2> QED
    BY <1>2, <2>1 DEF Entered
<1>8. x.job_id = jobs_list[i].job_id /\ x.cmd = d /\ jobs_list[i].cmd = d
  BY DEF x, MarkedEntry
<1>9. /\ proc' \in [Cmds -> States]
      /\ \A c \in Cmds : \/ proc'[c] = proc[c] /\ (c # d \/ proc[c] \notin {"running", "stopped"})
                         \/ /\ c = d /\ proc[c] \in {"running", "stopped"} /\ proc'[c] \in Live
                            /\ sig = "SIGKILL" => proc'[c] = "zombie"
                            /\ sig = "SIGSTOP" => proc'[c] = "stopped"
                            /\ sig = "SIGCONT" => proc'[c] = "running"
  BY <1>1, <1>2, SignalIs
<1> HIDE DEF d
<1>20. \A c \in Cmds : proc'[c] \in Live <=> proc[c] \in Live
  BY <1>9 DEF Live
<1>21. pc' \notin InPcs /\ pc \notin InPcs
  BY <1>2 DEF InPcs, StartPcs, FgPcs
<1>22. x.is_stopped = s
  BY DEF x, MarkedEntry
<1>24. unmarked' \subseteq Cmds /\ \A c \in Cmds : c # d /\ c \notin unmarked' => c \notin unmarked
  BY <1>1, <1>2 DEF Types, Toggled, d
<1>10. Types'
  BY <1>1, <1>2, <1>7, <1>9, <1>24 DEF Types, Pcs
<1>11. Shaped'
  BY <1>1, <1>2, <1>7 DEF Shaped
<1>12. Tracked'
  <2>1. ASSUME NEW c \in Cmds, proc'[c] \in Live
        PROVE  \E e \in Entered' : e.cmd = c
    <3>1. PICK e \in Entered : e.cmd = c
      BY <1>1, <1>2, <1>20, <1>21, <2>1 DEF Tracked
    <3> QED
      BY <1>7, <1>8, <3>1
  <2>2. \A e \in Entered' : e.cmd \notin deleted' /\ proc'[e.cmd] \in Live
    <3>1. \A e \in Entered : e.cmd \notin deleted /\ proc[e.cmd] \in Live
      BY <1>1, <1>2 DEF Tracked
    <3>2. \A e \in Entered' : \E f \in Entered : f.cmd = e.cmd
      BY <1>5, <1>7, <1>8
    <3> QED
      BY <1>2, <1>3, <1>20, <3>1, <3>2
  <2> QED
    BY <1>21, <2>1, <2>2 DEF Tracked
<1>13. Kept'
  BY <1>1, <1>2, <1>5, <1>7, <1>8 DEF Kept
<1>14. Marked'
  <2> SUFFICES ASSUME NEW e \in Entered', e.cmd \notin unmarked', proc'[e.cmd] # "zombie"
               PROVE  e.is_stopped <=> proc'[e.cmd] = "stopped"
    BY <1>2 DEF Marked
  <2>1. CASE e = x
    <3>1. proc[d] \in {"running", "stopped"}
      BY <1>5, <1>8, <1>9, <2>1 DEF Live
    <3>2. CASE sig \in {"SIGSTOP", "SIGCONT"}
      BY <1>5, <1>8, <1>9, <1>22, <1>23, <2>1, <3>1, <3>2
    <3>3. CASE sig \notin {"SIGSTOP", "SIGCONT"}
      <4>1. d \notin Toggled /\ d \notin unmarked /\ s = jobs_list[i].is_stopped
        BY <1>2, <1>8, <1>23, <2>1, <3>3
      <4>2. proc'[d] \in {"running", "stopped"}
        BY <1>5, <1>8, <1>9, <2>1, <3>1 DEF Live
      <4>3. proc'[d] = proc[d]
        BY <1>5, <3>1, <4>1, <4>2 DEF Toggled
      <4> QED
        BY <1>1, <1>5, <1>8, <1>22, <2>1, <3>1, <4>1, <4>3 DEF Marked
    <3> QED
      BY <3>2, <3>3
  <2>2. CASE e \in Entered /\ e.cmd # d
    <3>1. e.cmd \in Cmds /\ proc'[e.cmd] = proc[e.cmd]
      BY <1>3, <1>9, <2>2
    <3> QED
      BY <1>1, <1>24, <2>2, <3>1 DEF Marked
  <2> QED
    BY <1>7, <2>1, <2>2
<1>15. InHandInv'
  BY <1>1, <1>2, <1>21 DEF InHandInv, InPcs
<1>16. FgInv'
  BY <1>1, <1>2 DEF FgInv, FgPcs
<1>17. DeletedInv'
  BY <1>1, <1>2, <1>9 DEF DeletedInv, Types
<1>18. ForegroundInv'
  <2>1. \A e \in Entered' : e.cmd \in Cmds /\ e.cmd # NoCmd
    BY <1>3, <1>5, <1>7, <1>8, NoCmdAssumption
  <2> QED
    BY <1>1, <1>2, <2>1 DEF ForegroundInv
<1> QED
  BY <1>10, <1>11, <1>12, <1>13, <1>14, <1>15, <1>16, <1>17, <1>18 DEF ShellInv

\* quit leaves no job.
LEMMA QuitKeeps ==
    ASSUME ShellInv, NEW kill \in BOOLEAN, Quit(kill)
    PROVE  ShellInv'
<1>1. Types /\ \A e \in Entered : e.cmd \in Cmds
  BY EnteredFacts DEF ShellInv
<1>2. /\ pc' = "done" /\ jobs_list' = << >> /\ deleted' = deleted \cup Listed
      /\ proc' = proc \/ proc' = Signal(Listed, "SIGKILL")
      /\ max_job_id' = max_job_id /\ given' = given /\ unmarked' = unmarked
      /\ current_cmd' = current_cmd /\ foreground' = foreground /\ pid_set' = pid_set
      /\ waited' = waited /\ is_background' = is_background /\ cur_job' = cur_job
  BY DEF Quit, Goto, killAllJobs, clearJobsList, shellVars
<1>3. Entered' = {} /\ jobs_list' \in Seq(Entries)
  BY <1>2 DEF Entered, In
<1>4. proc' \in [Cmds -> States]
  <2>1. "SIGKILL" \in Signals
    BY DEF Signals
  <2> QED
    BY <1>1, <1>2, <2>1, SignalIs DEF Types
<1>5. deleted' \subseteq Cmds
  <2>1. Listed \subseteq Cmds
    BY <1>1, EnteredFacts
  <2> QED
    BY <1>1, <1>2, <2>1 DEF Types
<1>6. Types'
  BY <1>1, <1>2, <1>4, <1>5 DEF Types, Pcs
<1>7. Shaped' /\ Tracked' /\ Kept' /\ Marked' /\ DeletedInv'
  BY <1>2, <1>3 DEF Shaped, Tracked, Kept, Marked, DeletedInv
<1>8. InHandInv' /\ FgInv' /\ ForegroundInv'
  BY <1>2, <1>3 DEF InHandInv, FgInv, ForegroundInv, InPcs, StartPcs, FgPcs
<1> QED
  BY <1>6, <1>7, <1>8 DEF ShellInv

\* Ctrl-C and Ctrl-Z: a process that is signalled ends, or it stops and either the handler
\* did not know its pid or it is the current command, in the foreground.
LEMMA HandlerKeeps ==
    ASSUME ShellInv, NEW sig \in {"SIGKILL", "SIGSTOP"}, Handler(sig)
    PROVE  ShellInv'
<1>1. /\ Types /\ Shaped /\ Tracked /\ Kept /\ Marked
      /\ InHandInv /\ FgInv /\ DeletedInv /\ ForegroundInv
  BY DEF ShellInv
<1>2. /\ pc' = pc /\ current_cmd' = current_cmd /\ pid_set' = pid_set /\ waited' = waited
      /\ is_background' = is_background /\ cur_job' = cur_job
      /\ jobs_list' = jobs_list /\ max_job_id' = max_job_id /\ deleted' = deleted /\ given' = given
  BY DEF Handler, listVars
<1>3. (\A e \in Entered : e.cmd \in Cmds /\ e.job_id \in Nat) /\ Entered' = Entered
  BY <1>1, <1>2, EnteredFacts DEF Entered
<1>4. /\ pc # "done" /\ current_cmd \in Cmds /\ (current_cmd \in deleted \/ foreground[current_cmd])
      /\ foreground' \in [Cmds -> BOOLEAN]
      /\ \A c \in Cmds : ~foreground[c] => ~foreground'[c]
  <2>1. /\ pc # "done" /\ current_cmd \in Cmds
        /\ (current_cmd \in deleted \/ foreground[current_cmd])
        /\ foreground' = foreground \/ foreground' = [foreground EXCEPT ![current_cmd] = FALSE]
        /\ foreground \in [Cmds -> BOOLEAN]
    BY <1>1 DEF Handler, Types
  <2> QED
    BY <2>1
<1>5. PICK S \in Targets : proc' = Signal(S, sig)
  BY DEF Handler
<1>6. /\ proc' \in [Cmds -> States]
      /\ \A c \in Cmds :
            \/ (c \notin S \/ proc[c] \notin {"running", "stopped"}) /\ proc'[c] = proc[c]
            \/ c \in S /\ proc[c] \in {"running", "stopped"} /\ proc'[c] \in {"stopped", "zombie"}
  <2>1. sig \in Signals
    BY DEF Signals
  <2> QED
    BY <1>1, <1>5, <2>1, SignalIs
<1>7. /\ PidKnown => S = {current_cmd} /\ unmarked' = unmarked /\ foreground[current_cmd]
      /\ ~PidKnown => unmarked' = unmarked \cup Toggled
  BY <1>4, <1>5 DEF Handler, Targets, PidKnown
<1>8. \A c \in Cmds : \/ proc'[c] = proc[c] \/ proc'[c] = "zombie" \/ c \in unmarked'
                      \/ c = current_cmd /\ foreground[current_cmd] /\ proc'[c] = "stopped"
  BY <1>6, <1>7 DEF Toggled
<1>9. unmarked \subseteq unmarked' /\ unmarked' \subseteq Cmds
  BY <1>1, <1>7 DEF Types, Toggled
<1>10. \A c \in Cmds : /\ proc'[c] \in Live <=> proc[c] \in Live
                       /\ proc[c] \in {"none", "reaped"} => proc'[c] = proc[c]
                       /\ proc[c] \in {"stopped", "zombie"} => proc'[c] \in {"stopped", "zombie"}
                       /\ proc[c] = "zombie" => proc'[c] = "zombie"
  BY <1>6 DEF Live
<1>11. Types'
  BY <1>1, <1>2, <1>4, <1>6, <1>9 DEF Types
<1>12. Shaped' /\ Kept' /\ DeletedInv'
  BY <1>1, <1>2, <1>3, <1>10 DEF Shaped, Kept, DeletedInv, Types
<1>13. Tracked'
  BY <1>1, <1>2, <1>3, <1>10 DEF Tracked
<1>14. Marked'
  <2> SUFFICES ASSUME NEW e \in Entered, e.cmd \notin unmarked', proc'[e.cmd] # "zombie"
               PROVE  e.is_stopped <=> proc'[e.cmd] = "stopped"
    BY <1>3 DEF Marked
  <2>1. CASE proc'[e.cmd] = proc[e.cmd]
    BY <1>1, <1>9, <2>1 DEF Marked
  <2>2. CASE e.cmd = current_cmd /\ foreground[current_cmd] /\ proc'[e.cmd] = "stopped"
    <3>1. e.is_stopped
      BY <1>1, <2>2 DEF ForegroundInv
    <3> QED
      BY <2>2, <3>1
  <2> QED
    BY <1>3, <1>8, <2>1, <2>2
<1>15. InHandInv'
  <2>1. pc \in InPcs => waited \in Cmds /\ waited = current_cmd
    BY <1>1 DEF InHandInv
  <2>2. pc \in {"fgcont", "fgwait"} => proc'[waited] \in Live \cup {"reaped"}
    BY <1>1, <1>10, <2>1 DEF InHandInv, InPcs, FgPcs
  <2>3. (pc = "fgadd" \/ (pc = "add" /\ ~is_background)) =>
           waited \in unmarked' \/ proc'[waited] \in {"stopped", "zombie"}
    BY <1>1, <1>9, <1>10, <2>1 DEF InHandInv, InPcs, StartPcs, FgPcs
  <2>4. (pc \in {"setpid", "add"} /\ is_background) =>
           waited \in unmarked' \/ proc'[waited] # "stopped"
    <3> SUFFICES ASSUME pc \in {"setpid", "add"}, is_background
                 PROVE  waited \in unmarked' \/ proc'[waited] # "stopped"
      OBVIOUS
    <3>1. /\ waited \in Cmds /\ ~foreground[waited] /\ waited = current_cmd
          /\ waited \in unmarked \/ proc[waited] # "stopped"
      BY <1>1, <2>1 DEF InHandInv, InPcs, StartPcs
    <3> QED
      BY <1>8, <1>9, <3>1
  <2>5. /\ pc \in InPcs => waited \in Cmds /\ current_cmd = waited
        /\ pc \in StartPcs => max_job_id < MaxJobId
        /\ pc \in {"fork", "setpid"} => ~pid_set[waited]
        /\ pc = "fork" => proc'[waited] = "none" /\ waited \notin deleted
        /\ pc \in {"setpid", "wait", "add", "fgadd"} => proc'[waited] \in Live
        /\ pc = "wait" => ~is_background
        /\ (pc \in StartPcs /\ is_background) => ~foreground'[waited]
    BY <1>1, <1>4, <1>10, <2>1 DEF InHandInv, InPcs, StartPcs, FgPcs
  <2> QED
    BY <1>2, <2>2, <2>3, <2>4, <2>5 DEF InHandInv
<1>16. FgInv'
  BY <1>1, <1>2, <1>3, <1>10 DEF FgInv
<1>17. ForegroundInv'
  BY <1>1, <1>2, <1>3, <1>4 DEF ForegroundInv
<1> QED
  BY <1>11, <1>12, <1>13, <1>14, <1>15, <1>16, <1>17 DEF ShellInv

----------------------------------------------------------------------------
\* The shell starts without jobs.
LEMMA InitHolds ==
    ASSUME Init
    PROVE  ShellInv
<1>1. Entered = {} /\ jobs_list \in Seq(Entries)
  BY DEF Init, Entered, In
<1>2. LastId(jobs_list) = 0 /\ Len(jobs_list) = 0
  BY DEF Init, LastId
<1>3. Types
  <2>1. cur_job \in [job_id : 0..MaxJobId, cmd : Cmds \cup {NoCmd}, is_stopped : BOOLEAN]
    BY MaxJobIdAssumption DEF Init
  <2>2. /\ foreground \in [Cmds -> BOOLEAN] /\ pid_set \in [Cmds -> BOOLEAN]
        /\ unmarked \subseteq Cmds /\ is_background \in BOOLEAN
    BY DEF Init
  <2>3. proc \in [Cmds -> States] /\ deleted \subseteq Cmds /\ pc \in Pcs
    BY DEF Init, States, Pcs
  <2>4. /\ max_job_id \in 0..MaxJobId /\ given \in [Cmds -> 0..MaxJobId]
        /\ current_cmd \in Cmds \cup {NoCmd} /\ waited \in Cmds \cup {NoCmd}
    BY MaxJobIdAssumption DEF Init
  <2> QED
    BY <1>1, <2>1, <2>2, <2>3, <2>4 DEF Types
<1>4. Shaped
  BY <1>2 DEF Init, Shaped, WellFormed
<1>5. Tracked /\ Kept /\ Marked /\ DeletedInv
  BY <1>1 DEF Init, Tracked, Kept, Marked, DeletedInv, Live, InPcs, StartPcs, FgPcs
<1>6. InHandInv /\ FgInv /\ ForegroundInv
  BY <1>1 DEF Init, InHandInv, FgInv, ForegroundInv, InPcs, StartPcs, FgPcs
<1> QED
  BY <1>3, <1>4, <1>5, <1>6 DEF ShellInv

\* Doing nothing keeps the invariant.
LEMMA StutterKeeps ==
    ASSUME ShellInv, UNCHANGED vars
    PROVE  ShellInv'
<1>1. /\ pc' = pc /\ current_cmd' = current_cmd /\ pid_set' = pid_set /\ waited' = waited
      /\ is_background' = is_background /\ cur_job' = cur_job /\ unmarked' = unmarked
      /\ jobs_list' = jobs_list /\ max_job_id' = max_job_id /\ deleted' = deleted /\ given' = given
      /\ proc' = proc /\ foreground' = foreground
  BY DEF vars
<1>2. Entered' = Entered
  BY <1>1 DEF Entered
<1>3. Types' /\ Shaped' /\ Tracked' /\ Kept' /\ Marked' /\ DeletedInv'
  BY <1>1, <1>2 DEF ShellInv, Types, Shaped, Tracked, Kept, Marked, DeletedInv
<1>4. InHandInv' /\ FgInv' /\ ForegroundInv'
  BY <1>1, <1>2 DEF ShellInv, InHandInv, FgInv, ForegroundInv
<1> QED
  BY <1>3, <1>4 DEF ShellInv

\* Every step keeps the invariant: one case per command, handler or process.
LEMMA NextKeeps ==
    ASSUME ShellInv, [Next]_vars
    PROVE  ShellInv'
<1>0. SomeKilled(proc)
  BY DEF ShellInv, Types, SomeKilled
<1>1. CASE ReadCommand
  BY <1>0, <1>1, ReapKeeps DEF ReadCommand, Goto, Reap
<1>2. CASE ForkChild \/ SetPid \/ WaitEnded \/ WaitStopped \/ After
  BY <1>2, ForkKeeps, SetPidKeeps, WaitEndedKeeps, WaitStoppedKeeps, AfterKeeps
<1>3. CASE AddJob \/ FgAdd
  BY <1>3, AddJobKeeps, FgAddKeeps
<1>4. CASE FgTake \/ FgContinue \/ FgGone
  BY <1>4, FgTakeKeeps, FgContinueKeeps, FgGoneKeeps
<1>5. CASE OtherBuiltIn
  <2>1. CASE SetJobs(removeFinishedJobs(Jobs)) /\ Reap
    BY <1>0, <1>5, <2>1, ReapKeeps DEF OtherBuiltIn, Goto, Reap
  <2>2. CASE UNCHANGED <<jobs_list, max_job_id, proc, deleted>>
    <3>1. /\ pc = "exec" /\ pc' = "after" /\ current_cmd' = current_cmd /\ pid_set' = pid_set
          /\ waited' = waited /\ is_background' = is_background /\ cur_job' = cur_job
          /\ unmarked' = unmarked /\ jobs_list' = jobs_list /\ max_job_id' = max_job_id
          /\ deleted' = deleted /\ given' = given /\ proc' = proc /\ foreground' = foreground
      BY <1>5, <2>2 DEF OtherBuiltIn, Goto, shellVars
    <3>2. Entered' = Entered
      BY <3>1 DEF Entered
    <3>3. Types' /\ Shaped' /\ Kept' /\ Marked' /\ DeletedInv'
      BY <3>1, <3>2 DEF ShellInv, Types, Shaped, Kept, Marked, DeletedInv, Pcs
    <3>4. Tracked'
      BY <3>1, <3>2 DEF ShellInv, Tracked, InPcs, StartPcs, FgPcs
    <3>5. InHandInv' /\ FgInv' /\ ForegroundInv'
      BY <3>1, <3>2 DEF ShellInv, InHandInv, FgInv, ForegroundInv, InPcs, StartPcs, FgPcs
    <3> QED
      BY <3>3, <3>4, <3>5 DEF ShellInv
  <2> QED
    BY <1>5, <2>1, <2>2 DEF OtherBuiltIn
<1>6. CASE \E c \in Cmds, b \in BOOLEAN : StartExternal(c, b)
  BY <1>6, StartKeeps
<1>7. CASE \E i \in 1..Len(jobs_list) :
              Fg(i) \/ Bg(i) \/ \E sig \in Signals : KillJob(i, sig)
  BY <1>7, FgKeeps, BgKeeps, KillKeeps
<1>8. CASE \E kill \in BOOLEAN : Quit(kill)
  BY <1>8, QuitKeeps
<1>9. CASE ctrlCHandler \/ ctrlZHandler
  BY <1>9, HandlerKeeps DEF ctrlCHandler, ctrlZHandler
<1>10. CASE alarmHandler
  <2>1. PICK S \in {{}} \cup {{c} : c \in Cmds} : ReapAnd(Signal(S, "SIGKILL"))
    BY <1>10 DEF alarmHandler
  <2>2. SomeKilled(Signal(S, "SIGKILL"))
    <3>1. "SIGKILL" \in Signals /\ Types
      BY DEF Signals, ShellInv
    <3> QED
      BY <3>1, SignalIs DEF SomeKilled
  <2> QED
    BY <1>10, <2>1, <2>2, ReapKeeps DEF alarmHandler
<1>11. CASE \E c \in Cmds : ProcessEnds(c) \/ ProcessStops(c) \/ ProcessContinues(c)
  BY <1>11, EndsKeeps, TurnsKeeps
<1>12. CASE UNCHANGED vars
  BY <1>12, StutterKeeps
<1> QED
  BY <1>1, <1>2, <1>3, <1>4, <1>5, <1>6, <1>7, <1>8, <1>9, <1>10, <1>11, <1>12 DEF Next, Command

\* ShellInv is an invariant of the shell.
THEOREM ShellInvariant == Spec => []ShellInv
<1>1. Init => ShellInv
  BY InitHolds
<1>2. ShellInv /\ [Next]_vars => ShellInv'
  BY NextKeeps
<1> QED
  BY <1>1, <1>2, PTL DEF Spec

\* The list is sorted by job id without repetition and max_job_id is its last id, whatever
\* fg takes and brings back, and whenever the alarm handler removes jobs (Commands.cpp:566-656).
THEOREM JobListCorrect == Spec => []JobListInv
<1>1. ShellInv => JobListInv
  <2> SUFFICES ASSUME ShellInv PROVE JobListInv
    OBVIOUS
  <2>1. Types /\ Shaped
    BY DEF ShellInv
  <2>2. TypeOK
    BY <2>1 DEF Types, TypeOK, Entries, States, Live
  <2>3. JobsSorted
    BY <2>1 DEF Shaped, WellFormed, JobsSorted, IsSorted
  <2> QED
    BY <2>2, <2>3 DEF JobListInv
<1> QED
  BY <1>1, ShellInvariant, PTL

\* Every process that has not been reaped is a listed job or the command in hand, and no
\* listed job is deleted or reaped: no child is lost, in whatever order the main loop, the
\* handlers and the processes take their steps (Commands.cpp:566-656).
THEOREM ChildrenTracked == Spec => []EveryChildTracked
<1>1. ShellInv => EveryChildTracked
  <2> SUFFICES ASSUME ShellInv, pc # "done" PROVE EveryChildTracked
    BY DEF EveryChildTracked
  <2>1. Types /\ Shaped /\ Tracked
    BY DEF ShellInv
  <2>2. \A c : c \in Listed <=> \E e \in Entered : e.cmd = c
    BY <2>1, EnteredFacts
  <2>3. \A c : c \in InHand <=> pc \in InPcs /\ c = waited
    BY DEF InHand, InPcs, StartPcs, FgPcs
  <2>4. \A c \in Cmds : proc[c] \in {"running", "stopped", "zombie"} => (c \in Listed \/ c \in InHand)
    BY <2>1, <2>2, <2>3 DEF Tracked, Live
  <2>5. Listed \cap InHand = {}
    BY <2>1, <2>2, <2>3 DEF Tracked
  <2>6. \A i, k \in 1..Len(jobs_list) : jobs_list[i].cmd = jobs_list[k].cmd => i = k
    BY <2>1 DEF Shaped, WellFormed
  <2>7. \A c \in Listed : c \notin deleted /\ proc[c] \notin {"none", "reaped"}
    BY <2>1, <2>2 DEF Tracked, Live
  <2> QED
    BY <2>4, <2>5, <2>6, <2>7 DEF EveryChildTracked
<1> QED
  BY <1>1, ShellInvariant, PTL

\* A job keeps the id it was first listed under (Commands.cpp:575-595).
THEOREM IdsKept == Spec => []JobIdKept
<1>1. ShellInv => JobIdKept
  BY EnteredFacts DEF ShellInv, Kept, JobIdKept
<1> QED
  BY <1>1, ShellInvariant, PTL

\* The stopped mark tells which of the jobs that have not ended are stopped, except of a
\* job that stopped or continued while it was listed without the shell's doing, or through
\* kill with another signal, or a handler without a pid (Commands.cpp:228-238).
THEOREM MarksTrue == Spec => []StoppedMark
<1>1. ShellInv => StoppedMark
  BY EnteredFacts DEF ShellInv, Marked, StoppedMark
<1> QED
  BY <1>1, ShellInvariant, PTL
=============================================================================
