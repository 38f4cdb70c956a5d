--------------------------- MODULE WeightsProofs ---------------------------
(***************************************************************************)
(* Proofs about the weights of processes: the process tree has no cycle,   *)
(* so that both walks over it do what they should.                         *)
(***************************************************************************)
EXTENDS Weights, ListProofs, FiniteSetTheorems, TLAPS

\* Up from a task one comes to init, and down from it to a task without children; the
\* parent of a task that lives has not exited.
NoCycle ==
    \A S \in SUBSET Pids : (\A t \in S : t # InitPid /\ parent[t] \in S) => S = {}
LeafBelow ==
    \A S \in SUBSET Pids : S # {} => \E t \in S : \A c \in S : c \notin Children(t)
Parents ==
    /\ Alive(InitPid) /\ parent[InitPid] = InitPid
    /\ \A c \in Pids : state[parent[c]] # "none"
    /\ \A c \in Pids : Live(c) => Alive(parent[c])

\* An undisturbed walk has seen all ancestors but those of the task it has come to.
Walk ==
    walker # 0 /\ ~disturbed =>
       /\ task \in AncestorsOf(walker)
       /\ \A a \in AncestorsOf(walker) : a \in AncestorsOf(task) \/ weight[a] <= max
       /\ max \in Int /\ max >= weight[walker]
       /\ max = weight[walker] \/ (max_pid \in AncestorsOf(walker) /\ weight[max_pid] = max)

TreeInv == TypeOK /\ disturbed \in BOOLEAN /\ Parents /\ NoCycle /\ LeafBelow /\ Walk

\* The ancestors depend on the parents f alone.
Above(f, p) ==
    {a \in Pids : \A S \in SUBSET Pids :
                     p \in S /\ (\A t \in S \ {InitPid} : f[t] \in S) => a \in S}

----------------------------------------------------------------------------
\* init is its only ancestor; the ancestors of another task are those of its parent, and it.
LEMMA AncestorsAre ==
    ASSUME parent \in [Pids -> Pids], NEW p \in Pids
    PROVE  /\ AncestorsOf(p) \subseteq Pids /\ p \in AncestorsOf(p)
           /\ p = InitPid => AncestorsOf(p) = {p}
           /\ p # InitPid => AncestorsOf(p) = {p} \cup AncestorsOf(parent[p])
           /\ \A a \in AncestorsOf(p) : a # InitPid => parent[a] \in AncestorsOf(p)
<1> DEFINE Closed(S) == \A t \in S \ {InitPid} : parent[t] \in S
<1>1. \A q, a : a \in AncestorsOf(q) <=> a \in Pids /\ \A S \in SUBSET Pids : q \in S /\ Closed(S) => a \in S
  BY DEF AncestorsOf
<1>2. \A a \in AncestorsOf(p) : a # InitPid => parent[a] \in AncestorsOf(p)
  <2> SUFFICES ASSUME NEW a \in AncestorsOf(p), a # InitPid PROVE parent[a] \in AncestorsOf(p)
    OBVIOUS
  <2>1. a \in Pids /\ parent[a] \in Pids
    BY <1>1
  <2>2. ASSUME NEW S \in SUBSET Pids, p \in S, Closed(S) PROVE parent[a] \in S
    BY <1>1, <2>2
  <2> HIDE DEF Closed
  <2> QED
    BY <1>1, <2>1, <2>2
<1>3. p \in AncestorsOf(p) /\ AncestorsOf(p) \subseteq Pids
  BY <1>1
<1>4. ASSUME p = InitPid PROVE AncestorsOf(p) = {p}
  <2>1. {p} \in SUBSET Pids /\ Closed({p})
    BY <1>4
  <2> HIDE DEF Closed
  <2> QED
    BY <1>1, <1>3, <2>1
<1>5. ASSUME p # InitPid PROVE AncestorsOf(p) = {p} \cup AncestorsOf(parent[p])
  <2> DEFINE q == parent[p]
             A == AncestorsOf(q)
  <2>1. q \in Pids /\ A \subseteq Pids /\ q \in A
    BY <1>1
  <2>2. Closed({p} \cup A)
    <3>1. \A a \in A : a # InitPid => parent[a] \in A
      <4> SUFFICES ASSUME NEW a \in A, a # InitPid PROVE parent[a] \in A
        OBVIOUS
      <4>1. a \in Pids /\ parent[a] \in Pids
        BY <1>1
      <4>2. ASSUME NEW S \in SUBSET Pids, q \in S, Closed(S) PROVE parent[a] \in S
        BY <1>1, <4>2
      <4> HIDE DEF Closed
      <4> QED
        BY <1>1, <4>1, <4>2
    <3> QED
      BY <2>1, <3>1
  <2>3. \A S \in SUBSET Pids : p \in S /\ Closed(S) => q \in S
    BY <1>5
  <2> HIDE DEF Closed
  <2>4. AncestorsOf(p) \subseteq {p} \cup A
    <3>1. {p} \cup A \in SUBSET Pids /\ p \in {p} \cup A
      BY <2>1
    <3> QED
      BY <1>1, <2>2, <3>1
  <2>5. A \subseteq AncestorsOf(p)
    BY <1>1, <2>3
  <2> QED
    BY <1>3, <2>4, <2>5
<1> QED
  BY <1>2, <1>3, <1>4, <1>5

LEMMA AboveIs ==
    ASSUME NEW p
    PROVE  AncestorsOf(p) = Above(parent, p)
  BY DEF AncestorsOf, Above

\* A walk that is not under way, or that is disturbed, has nothing to keep.
LEMMA WalkDisturbed ==
    ASSUME walker' = walker, disturbed' = (walker # 0)
    PROVE  Walk'
  BY DEF Walk

\* What every step finds.
LEMMA TypesAre ==
    ASSUME TreeInv
    PROVE  /\ state \in [Pids -> {"none", "alive", "zombie", "gone"}] /\ parent \in [Pids -> Pids]
           /\ weight \in [Pids -> {v \in Values : v >= 0} \cup {0}]
           /\ \A p \in Pids : weight[p] \in Nat
           /\ InitPid \in Pids /\ 0 \notin Pids /\ walker \in Pids \cup {0} /\ task \in Pids
<1>1. \A v \in {v \in Values : v >= 0} \cup {0} : v \in Nat
  BY WeightsAssumption
<1>2. /\ state \in [Pids -> {"none", "alive", "zombie", "gone"}] /\ parent \in [Pids -> Pids]
      /\ weight \in [Pids -> {v \in Values : v >= 0} \cup {0}]
      /\ walker \in Pids \cup {0} /\ task \in Pids
  BY DEF TreeInv, TypeOK
<1>3. InitPid \in Pids /\ 0 \notin Pids
  BY WeightsAssumption DEF InitPid, Pids
<1>4. \A p \in Pids : weight[p] \in Nat
  BY <1>1, <1>2
<1> QED
  BY <1>2, <1>3, <1>4

LEMMA ForkKeeps ==
    ASSUME TreeInv, NEW p \in Pids, NEW c \in Pids, Fork(p, c)
    PROVE  TreeInv'
<1>1. /\ Alive(p) /\ state[c] = "none" /\ state' = [state EXCEPT ![c] = "alive"]
      /\ parent' = [parent EXCEPT ![c] = p] /\ weight' = [weight EXCEPT ![c] = weight[p]]
      /\ disturbed' = (walker # 0) /\ UNCHANGED walkVars
  BY DEF Fork
<1>2. /\ state \in [Pids -> {"none", "alive", "zombie", "gone"}] /\ parent \in [Pids -> Pids]
      /\ weight \in [Pids -> {v \in Values : v >= 0} \cup {0}] /\ InitPid \in Pids
  BY TypesAre
<1>3. /\ state'[c] = "alive" /\ \A x \in Pids : x # c => state'[x] = state[x]
      /\ parent'[c] = p /\ \A x \in Pids : x # c => parent'[x] = parent[x]
      /\ p # c /\ state[p] = "alive" /\ c # InitPid
      /\ \A x \in Pids : parent[x] # c /\ parent[x] \in Pids
  BY <1>1, <1>2 DEF TreeInv, Parents, Alive
<1>4. TypeOK' /\ disturbed' \in BOOLEAN
  BY <1>1, <1>2 DEF TreeInv, TypeOK, walkVars
<1>5. Walk'
  BY <1>1, WalkDisturbed DEF walkVars
<1>6. Parents'
  BY <1>3, <1>2 DEF TreeInv, Parents, Alive, Live
<1>7. NoCycle'
  <2> SUFFICES ASSUME NEW S \in SUBSET Pids, \A t \in S : t # InitPid /\ parent'[t] \in S,
                      S # {}
               PROVE  FALSE
    BY DEF NoCycle
  <2> DEFINE R == S \ {c}
  <2>1. \A t \in R : t # InitPid /\ parent[t] \in R
    BY <1>3
  <2>2. R \in SUBSET Pids
    OBVIOUS
  <2>3. R = {}
    BY <2>1, <2>2 DEF TreeInv, NoCycle
  <2>4. c \in S /\ p \in S
    BY <1>3, <2>3
  <2> QED
    BY <1>3, <2>3, <2>4
<1>8. LeafBelow'
  <2> SUFFICES ASSUME NEW S \in SUBSET Pids, S # {}
               PROVE  \E t \in S : \A x \in S : x \notin Children(t)'
    BY DEF LeafBelow
  <2>1. \A t : c \notin Children(c)' /\ \A x \in S : x \notin Children(c)'
    BY <1>3 DEF Children
  <2>2. CASE c \in S
    BY <2>1, <2>2
  <2>3. CASE c \notin S
    <3>1. PICK t \in S : \A x \in S : x \notin Children(t)
      BY DEF TreeInv, LeafBelow
    <3>2. \A x \in S : x \notin Children(t)'
      BY <1>3, <2>3, <3>1 DEF Children
    <3> QED
      BY <3>2
  <2> QED
    BY <2>2, <2>3
<1> QED
  BY <1>4, <1>5, <1>6, <1>7, <1>8 DEF TreeInv

LEMMA ExitKeeps ==
    ASSUME TreeInv, NEW p \in Pids, Exit(p)
    PROVE  TreeInv'
<1>1. /\ Alive(p) /\ p # InitPid /\ state' = [state EXCEPT ![p] = "zombie"]
      /\ parent' = [c \in Pids |-> IF c \in Children(p) THEN InitPid ELSE parent[c]]
      /\ disturbed' = (walker # 0) /\ weight' = weight /\ UNCHANGED walkVars
  BY DEF Exit
<1>2. /\ state \in [Pids -> {"none", "alive", "zombie", "gone"}] /\ parent \in [Pids -> Pids]
      /\ weight \in [Pids -> {v \in Values : v >= 0} \cup {0}] /\ InitPid \in Pids
  BY TypesAre
<1>3. /\ state'[p] = "zombie" /\ \A x \in Pids : x # p => state'[x] = state[x]
      /\ \A x \in Pids : x \in Children(p) => parent'[x] = InitPid
      /\ \A x \in Pids : x \notin Children(p) => parent'[x] = parent[x]
      /\ state[p] = "alive" /\ \A x \in Pids : parent[x] \in Pids
  BY <1>1, <1>2 DEF Alive
<1>4. TypeOK' /\ disturbed' \in BOOLEAN
  BY <1>1, <1>2 DEF TreeInv, TypeOK, walkVars
<1>5. Walk'
  BY <1>1, WalkDisturbed DEF walkVars
<1>6. Parents'
  <2>1. Alive(InitPid)' /\ (parent[InitPid] = InitPid)'
    BY <1>1, <1>2, <1>3 DEF TreeInv, Parents, Alive
  <2>2. \A c \in Pids : state'[parent'[c]] # "none"
    BY <1>2, <1>3, <2>1 DEF TreeInv, Parents, Alive
  <2>3. ASSUME NEW c \in Pids, Live(c)' PROVE Alive(parent[c])'
    <3>1. Live(c)
      BY <1>3, <2>3 DEF Live
    <3>2. CASE c \in Children(p)
      BY <1>3, <2>1, <3>2
    <3>3. CASE c \notin Children(p)
      <4>1. state[parent[c]] = "alive" /\ parent'[c] = parent[c]
        BY <1>3, <3>1, <3>3 DEF TreeInv, Parents, Alive
      <4>2. CASE c = InitPid /\ parent[c] = p
        BY <1>1, <4>2 DEF TreeInv, Parents
      <4>3. CASE parent[c] # p
        BY <1>2, <1>3, <4>1, <4>3 DEF Alive
      <4>4. CASE c # InitPid /\ parent[c] = p
        BY <3>1, <3>3, <4>4 DEF Children, Live
      <4> QED
        BY <4>2, <4>3, <4>4
    <3> QED
      BY <3>2, <3>3
  <2> QED
    BY <2>1, <2>2, <2>3 DEF Parents
<1>7. NoCycle'
  <2> SUFFICES ASSUME NEW S \in SUBSET Pids, \A t \in S : t # InitPid /\ parent'[t] \in S
               PROVE  S = {}
    BY DEF NoCycle
  <2>1. \A t \in S : t # InitPid /\ parent[t] \in S
    BY <1>3
  <2> QED
    BY <2>1 DEF TreeInv, NoCycle
<1>8. LeafBelow'
  <2> SUFFICES ASSUME NEW S \in SUBSET Pids, S # {}
               PROVE  \E t \in S : \A x \in S : x \notin Children(t)'
    BY DEF LeafBelow
  <2> DEFINE R == S \ {InitPid}
  <2>1. CASE R = {}
    BY <2>1 DEF Children
  <2>2. CASE R # {}
    <3>1. PICK t \in R : \A x \in R : x \notin Children(t)
      BY <2>2 DEF TreeInv, LeafBelow
    <3>2. \A x \in S : x \notin Children(t)'
      BY <1>3, <3>1 DEF Children
    <3> QED
      BY <3>1, <3>2
  <2> QED
    BY <2>1, <2>2
<1> QED
  BY <1>4, <1>5, <1>6, <1>7, <1>8 DEF TreeInv

\* Steps that leave the tree alone, but for a task that is waited for, or a weight.
LEMMA TreeSame ==
    ASSUME TreeInv, parent' = parent, state' \in [Pids -> {"none", "alive", "zombie", "gone"}],
           \A c \in Pids : \/ state'[c] = state[c]
                           \/ state[c] = "zombie" /\ state'[c] = "gone"
    PROVE  Parents' /\ NoCycle' /\ LeafBelow'
<1>1. InitPid \in Pids /\ parent \in [Pids -> Pids]
  BY TypesAre
<1>2. Parents'
  BY <1>1 DEF TreeInv, Parents, Alive, Live
<1>3. NoCycle'
  BY DEF TreeInv, NoCycle
<1>4. LeafBelow'
  <2>1. \A t : Children(t)' \subseteq Children(t)
    BY DEF Children
  <2> QED
    BY <2>1 DEF TreeInv, LeafBelow
<1> QED
  BY <1>2, <1>3, <1>4

LEMMA WaitKeeps ==
    ASSUME TreeInv, NEW p \in Pids, NEW c \in Pids, Wait(p, c)
    PROVE  TreeInv'
<1>1. /\ state[c] = "zombie" /\ state' = [state EXCEPT ![c] = "gone"]
      /\ disturbed' = (walker # 0) /\ parent' = parent /\ weight' = weight /\ UNCHANGED walkVars
  BY DEF Wait
<1>2. state \in [Pids -> {"none", "alive", "zombie", "gone"}]
  BY TypesAre
<1>3. /\ state' \in [Pids -> {"none", "alive", "zombie", "gone"}]
      /\ \A x \in Pids : \/ state'[x] = state[x]
                         \/ state[x] = "zombie" /\ state'[x] = "gone"
  BY <1>1, <1>2
<1>4. Parents' /\ NoCycle' /\ LeafBelow'
  BY <1>1, <1>3, TreeSame
<1>5. TypeOK' /\ disturbed' \in BOOLEAN
  BY <1>1, <1>3 DEF TreeInv, TypeOK, walkVars
<1>6. Walk'
  BY <1>1, WalkDisturbed DEF walkVars
<1> QED
  BY <1>4, <1>5, <1>6 DEF TreeInv

LEMMA SetWeightKeeps ==
    ASSUME TreeInv, NEW p \in Pids, NEW v \in Values, sys_set_weight(p, v)
    PROVE  TreeInv'
<1>1. /\ v >= 0 /\ weight' = [weight EXCEPT ![p] = v]
      /\ disturbed' = (walker # 0) /\ parent' = parent /\ state' = state /\ UNCHANGED walkVars
  BY DEF sys_set_weight, ValidWeight
<1>2. /\ state \in [Pids -> {"none", "alive", "zombie", "gone"}]
      /\ weight \in [Pids -> {x \in Values : x >= 0} \cup {0}]
  BY TypesAre
<1>3. Parents' /\ NoCycle' /\ LeafBelow'
  BY <1>1, <1>2, TreeSame
<1>4. weight' \in [Pids -> {x \in Values : x >= 0} \cup {0}]
  BY <1>1, <1>2
<1>5. TypeOK' /\ disturbed' \in BOOLEAN
  BY <1>1, <1>4 DEF TreeInv, TypeOK, walkVars
<1>6. Walk'
  BY <1>1, WalkDisturbed DEF walkVars
<1> QED
  BY <1>3, <1>5, <1>6 DEF TreeInv

LEMMA EnterKeeps ==
    ASSUME TreeInv, NEW p \in Pids, EnterHeaviest(p)
    PROVE  TreeInv'
<1>1. /\ walker' = p /\ task' = p /\ max' = weight[p] /\ max_pid' \in Pids \cup {0}
      /\ disturbed' = FALSE /\ result' = 0 /\ state' = state /\ parent' = parent /\ weight' = weight
  BY DEF EnterHeaviest, treeVars
<1>2. /\ state \in [Pids -> {"none", "alive", "zombie", "gone"}] /\ parent \in [Pids -> Pids]
      /\ \A x \in Pids : weight[x] \in Nat
  BY TypesAre
<1>3. Parents' /\ NoCycle' /\ LeafBelow'
  BY <1>1, <1>2, TreeSame
<1>4. TypeOK' /\ disturbed' \in BOOLEAN
  BY <1>1 DEF TreeInv, TypeOK
<1>5. Walk'
  <2>1. p \in Above(parent, p)
    BY <1>2, AncestorsAre, AboveIs
  <2>2. AncestorsOf(walker)' = Above(parent, p) /\ AncestorsOf(task)' = Above(parent, p)
    BY <1>1 DEF AncestorsOf, Above
  <2>3. max' \in Int /\ max' >= weight'[walker'] /\ max' = weight'[walker']
    BY <1>1, <1>2
  <2> QED
    BY <1>1, <2>1, <2>2, <2>3 DEF Walk
<1> QED
  BY <1>3, <1>4, <1>5 DEF TreeInv

LEMMA WalkUpKeeps ==
    ASSUME TreeInv, WalkUp
    PROVE  TreeInv'
<1>1. /\ walker # 0 /\ state' = state /\ parent' = parent /\ weight' = weight
  BY DEF WalkUp, treeVars
<1>2. /\ state \in [Pids -> {"none", "alive", "zombie", "gone"}] /\ parent \in [Pids -> Pids]
      /\ \A x \in Pids : weight[x] \in Nat
      /\ walker \in Pids /\ task \in Pids
  BY <1>1, TypesAre
<1>3. Parents' /\ NoCycle' /\ LeafBelow'
  BY <1>1, <1>2, TreeSame
<1>4. CASE task = InitPid
  <2>1. walker' = 0 /\ max_pid' = 0 /\ result' \in {task, max_pid} /\ disturbed' = FALSE /\ task' = task
    BY <1>4 DEF WalkUp
  <2>2. TypeOK' /\ disturbed' \in BOOLEAN
    BY <1>1, <1>2, <2>1 DEF TreeInv, TypeOK
  <2>3. Walk'
    BY <2>1 DEF Walk
  <2> QED
    BY <1>3, <2>2, <2>3 DEF TreeInv
<1>5. CASE task # InitPid
  <2>1. /\ max' = IF max < weight[task] THEN weight[task] ELSE max
        /\ max_pid' = IF max < weight[task] THEN task ELSE max_pid
        /\ task' = parent[task] /\ walker' = walker /\ result' = result /\ disturbed' = disturbed
    BY <1>5 DEF WalkUp, Heavier, NextTask
  <2>2. TypeOK' /\ disturbed' \in BOOLEAN
    BY <1>1, <1>2, <2>1 DEF TreeInv, TypeOK
  <2>3. Walk'
    <3> SUFFICES ASSUME ~disturbed PROVE Walk'
      BY <2>1 DEF Walk
    <3> DEFINE A == Above(parent, walker)
               B == Above(parent, task)
               C == Above(parent, parent[task])
    <3>1. AncestorsOf(walker)' = A /\ AncestorsOf(task)' = C
      BY <1>1, <2>1 DEF AncestorsOf, Above
    <3>2. B = {task} \cup C /\ \A a \in A : a \in Pids /\ (a # InitPid => parent[a] \in A)
      BY <1>2, <1>5, AncestorsAre, AboveIs
    <3>3. /\ task \in A
          /\ \A a \in A : a \in B \/ weight[a] <= max
          /\ max \in Int /\ max >= weight[walker]
          /\ max = weight[walker] \/ (max_pid \in A /\ weight[max_pid] = max)
      BY <1>1, AboveIs DEF TreeInv, Walk
    <3> HIDE DEF A, B, C
    <3>4. task' \in A
      BY <1>5, <2>1, <3>2, <3>3
    <3>5. max' \in Int /\ max' >= max /\ max' >= weight[task]
      BY <1>2, <2>1, <3>3
    <3>6. max' >= weight'[walker']
      BY <1>1, <1>2, <2>1, <3>3, <3>5
    <3>7. \A a \in A : a \in C \/ weight'[a] <= max'
      <4> SUFFICES ASSUME NEW a \in A, a \notin C PROVE weight[a] <= max'
        BY <1>1
      <4>1. a = task \/ weight[a] <= max
        BY <3>2, <3>3
      <4>2. weight[a] \in Nat
        BY <1>2, <3>2
      <4> QED
        BY <3>3, <3>5, <4>1, <4>2
    <3>8. max' = weight'[walker'] \/ (max_pid' \in A /\ weight'[max_pid'] = max')
      BY <1>1, <2>1, <3>3
    <3> QED
      BY <3>1, <3>4, <3>5, <3>6, <3>7, <3>8 DEF Walk
  <2> QED
    BY <1>3, <2>2, <2>3 DEF TreeInv
<1> QED
  BY <1>4, <1>5

LEMMA TreeStart == Init => TreeInv
<1> SUFFICES ASSUME Init PROVE TreeInv
  OBVIOUS
<1>1. InitPid \in Pids /\ 0 \notin Pids
  BY WeightsAssumption DEF InitPid, Pids
<1>2. /\ \A p \in Pids : state[p] = IF p = InitPid THEN "alive" ELSE "none"
      /\ \A p \in Pids : parent[p] = InitPid
      /\ walker = 0 /\ disturbed = FALSE
  BY DEF Init
<1>3. TypeOK
  BY <1>1 DEF Init, TypeOK
<1>4. Parents
  BY <1>1, <1>2 DEF Parents, Alive, Live
<1>5. NoCycle
  BY <1>2 DEF NoCycle
<1>6. LeafBelow
  BY <1>2 DEF LeafBelow, Children
<1> QED
  BY <1>2, <1>3, <1>4, <1>5, <1>6 DEF TreeInv, Walk

\* The tree of processes has no cycle, whatever is forked, exits and is waited for, and an
\* undisturbed walk knows a heaviest of the tasks it has left behind.
THEOREM TreeInvariant == Spec => []TreeInv
<1>1. TreeInv /\ [Next]_vars => TreeInv'
  <2>1. CASE Next
    BY <2>1, ForkKeeps, WaitKeeps, ExitKeeps, SetWeightKeeps, EnterKeeps, WalkUpKeeps DEF Next
  <2>2. CASE UNCHANGED vars
    BY <2>2 DEF vars, TreeInv, TypeOK, Parents, Alive, Live, NoCycle, LeafBelow, Children, Walk, AncestorsOf
  <2> QED
    BY <2>1, <2>2
<1> QED
  BY <1>1, TreeStart, PTL DEF Spec

\* A call of get_heaviest_ancestor that nothing disturbs, and whose caller has a heavier
\* ancestor, returns a heaviest one (hw2.c:44-60).
THEOREM HeaviestFound == Spec => HeaviestIfHeavier
<1> DEFINE A == Finishes /\ (\E a \in AncestorsOf(walker) : weight[a] > weight[walker])
                   => Heaviest(walker, result')
<1>1. TreeInv /\ [Next]_vars => [A]_vars
  <2> SUFFICES ASSUME TreeInv, Next, walker # 0, walker' = 0, ~disturbed,
                      NEW b \in AncestorsOf(walker), weight[b] > weight[walker]
               PROVE  Heaviest(walker, result')
    BY DEF Finishes, A
  <2>1. /\ parent \in [Pids -> Pids] /\ \A x \in Pids : weight[x] \in Nat
        /\ walker \in Pids /\ task \in Pids
    BY TypesAre
  <2>2. WalkUp
    BY DEF Next, Fork, Wait, Exit, sys_set_weight, EnterHeaviest, walkVars
  <2>3. task = InitPid /\ result' = IF max < weight[task] THEN task ELSE max_pid
    BY <2>2 DEF WalkUp, Heavier
  <2>4. /\ task \in AncestorsOf(walker)
        /\ \A a \in AncestorsOf(walker) : a \in AncestorsOf(task) \/ weight[a] <= max
        /\ max \in Int /\ max >= weight[walker]
        /\ max = weight[walker] \/ (max_pid \in AncestorsOf(walker) /\ weight[max_pid] = max)
    BY DEF TreeInv, Walk
  <2>5. AncestorsOf(task) = {task} /\ \A a \in AncestorsOf(walker) : a \in Pids
    BY <2>1, <2>3, AncestorsAre
  <2>6. \A a \in AncestorsOf(walker) : weight[a] \in Nat /\ (a = task \/ weight[a] <= max)
    BY <2>1, <2>4, <2>5
  <2>7. weight[walker] \in Nat /\ weight[task] \in Nat
    BY <2>1
  <2>8. CASE max < weight[task]
    <3>1. result' = task /\ \A a \in AncestorsOf(walker) : weight[a] <= weight[task]
      BY <2>3, <2>4, <2>6, <2>7, <2>8
    <3> QED
      BY <2>4, <3>1 DEF Heaviest
  <2>9. CASE ~(max < weight[task])
    <3>1. result' = max_pid /\ \A a \in AncestorsOf(walker) : weight[a] <= max
      BY <2>3, <2>4, <2>6, <2>7, <2>9
    <3>2. max # weight[walker]
      BY <2>4, <2>6, <2>7, <3>1
    <3> QED
      BY <2>4, <3>1, <3>2 DEF Heaviest
  <2> QED
    BY <2>8, <2>9
<1>2. []TreeInv /\ [][Next]_vars => [][A]_vars
  BY <1>1, PTL
<1> QED
  BY <1>2, TreeInvariant, PTL DEF Spec, HeaviestIfHeavier

----------------------------------------------------------------------------
\* What get_children_sum adds up: t, and the tasks below it that live.
Tree(t) == {t} \cup {x \in Pids : Live(x) /\ t \in AncestorsOf(x)}

LEMMA AncestorsChain ==
    ASSUME parent \in [Pids -> Pids], NEW x \in Pids, NEW y \in AncestorsOf(x)
    PROVE  AncestorsOf(y) \subseteq AncestorsOf(x)
<1> DEFINE A == AncestorsOf(x)
<1>1. A \in SUBSET Pids /\ y \in A /\ \A t \in A \ {InitPid} : parent[t] \in A
  BY AncestorsAre
<1> HIDE DEF A
<1>2. \A a \in AncestorsOf(y) : a \in A
  BY <1>1 DEF AncestorsOf
<1> QED
  BY <1>2 DEF A

\* No task is above its parent.
LEMMA NoLoop ==
    ASSUME TreeInv, NEW c \in Pids, c # InitPid
    PROVE  c \notin AncestorsOf(parent[c])
<1> SUFFICES ASSUME c \in AncestorsOf(parent[c]) PROVE FALSE
  OBVIOUS
<1>1. parent \in [Pids -> Pids]
  BY TypesAre
<1> DEFINE S == {x \in Pids : c \in AncestorsOf(x)}
<1>2. ASSUME NEW x \in S PROVE x # InitPid /\ parent[x] \in S
  <2>1. x \in Pids /\ c \in AncestorsOf(x) /\ parent[x] \in Pids
    BY <1>1
  <2>2. x # InitPid
    BY <1>1, <2>1, AncestorsAre
  <2>3. AncestorsOf(x) = {x} \cup AncestorsOf(parent[x])
    BY <1>1, <2>1, <2>2, AncestorsAre
  <2>4. c \in AncestorsOf(parent[x])
    BY <2>1, <2>3
  <2> QED
    BY <2>1, <2>2, <2>4
<1>3. c \in S
  BY <1>1, AncestorsAre
<1>4. S \in SUBSET Pids
  OBVIOUS
<1> QED
  BY <1>2, <1>3, <1>4 DEF TreeInv, NoCycle

\* Whoever lives below t is t's child or lives below one.
LEMMA BelowAChild ==
    ASSUME TreeInv, NEW t \in Pids, NEW x \in Pids, x # t, Live(x), t \in AncestorsOf(x)
    PROVE  \E c \in Children(t) : c \in AncestorsOf(x)
<1> SUFFICES ASSUME \A c \in Children(t) : c \notin AncestorsOf(x) PROVE FALSE
  OBVIOUS
<1>1. parent \in [Pids -> Pids]
  BY TypesAre
<1> DEFINE Missed(y) == y # t /\ Live(y) /\ t \in AncestorsOf(y) /\ \A c \in Children(t) : c \notin AncestorsOf(y)
           S == {y \in Pids : Missed(y)}
<1>2. ASSUME NEW y \in S PROVE y # InitPid /\ parent[y] \in S
  <2>1. y \in Pids /\ Missed(y) /\ parent[y] \in Pids
    BY <1>1
  <2>2. y # InitPid
    BY <1>1, <2>1, AncestorsAre
  <2>3. AncestorsOf(y) = {y} \cup AncestorsOf(parent[y]) /\ y \in AncestorsOf(y)
    BY <1>1, <2>1, <2>2, AncestorsAre
  <2>4. parent[y] # t
    BY <2>1, <2>2, <2>3 DEF Children, Live
  <2>5. Live(parent[y])
    BY <2>1 DEF TreeInv, Parents, Alive, Live
  <2>6. Missed(parent[y])
    BY <2>1, <2>3, <2>4, <2>5
  <2> QED
    BY <2>1, <2>2, <2>6
<1>3. x \in S /\ S \in SUBSET Pids
  OBVIOUS
<1> QED
  BY <1>2, <1>3 DEF TreeInv, NoCycle

\* The trees below two children of t are apart.
LEMMA ChildrenApart ==
    ASSUME TreeInv, NEW t \in Pids, NEW c \in Children(t), NEW d \in Children(t), c # d, NEW x \in Pids
    PROVE  ~(c \in AncestorsOf(x) /\ d \in AncestorsOf(x))
<1>1. parent \in [Pids -> Pids]
  BY TypesAre
<1>2. c \in Pids /\ d \in Pids /\ c # InitPid /\ d # InitPid /\ parent[c] = t /\ parent[d] = t
  BY DEF Children
<1>3. c \notin AncestorsOf(t) /\ d \notin AncestorsOf(t)
  BY <1>2, NoLoop
<1>4. AncestorsOf(c) = {c} \cup AncestorsOf(t) /\ AncestorsOf(d) = {d} \cup AncestorsOf(t)
  BY <1>1, <1>2, AncestorsAre
<1> DEFINE S == {y \in Pids : c \in AncestorsOf(y) /\ d \in AncestorsOf(y)}
<1>5. ASSUME NEW y \in S PROVE y # InitPid /\ parent[y] \in S
  <2>1. y \in Pids /\ c \in AncestorsOf(y) /\ d \in AncestorsOf(y) /\ parent[y] \in Pids
    BY <1>1
  <2>2. y # InitPid
    BY <1>1, <1>2, <2>1, AncestorsAre
  <2>3. AncestorsOf(y) = {y} \cup AncestorsOf(parent[y])
    BY <1>1, <2>1, <2>2, AncestorsAre
  <2>4. y # c /\ y # d
    BY <1>3, <1>4, <2>1
  <2> QED
    BY <2>1, <2>2, <2>3, <2>4
<1>6. S \in SUBSET Pids
  OBVIOUS
<1> QED
  BY <1>5, <1>6 DEF TreeInv, NoCycle

\* The tree of t is t and the trees of its children, which are apart.
LEMMA TreeIs ==
    ASSUME TreeInv, NEW t \in Pids
    PROVE  /\ Tree(t) \subseteq Pids /\ t \in Tree(t) /\ Children(t) \subseteq Pids
           /\ \A c \in Children(t) : t \notin Tree(c)
           /\ \A c, d \in Children(t) : c # d => Tree(c) \cap Tree(d) = {}
           /\ \A x : x \in Tree(t) <=> x = t \/ \E c \in Children(t) : x \in Tree(c)
<1>1. parent \in [Pids -> Pids]
  BY TypesAre
<1>2. Tree(t) \subseteq Pids /\ t \in Tree(t) /\ Children(t) \subseteq Pids
  BY DEF Tree, Children
<1>3. ASSUME NEW c \in Children(t)
      PROVE  /\ c \in Pids /\ c # InitPid /\ parent[c] = t
             /\ \A x : x \in Tree(c) <=> x \in Pids /\ Live(x) /\ c \in AncestorsOf(x)
  <2>1. c \in Pids /\ Live(c) /\ c # InitPid /\ parent[c] = t
    BY DEF Children, Live
  <2>2. c \in AncestorsOf(c)
    BY <1>1, <2>1, AncestorsAre
  <2> QED
    BY <2>1, <2>2 DEF Tree
<1>4. ASSUME NEW c \in Children(t) PROVE t \notin Tree(c)
  BY <1>3, NoLoop
<1>5. ASSUME NEW c \in Children(t), NEW d \in Children(t), c # d PROVE Tree(c) \cap Tree(d) = {}
  BY <1>3, <1>5, ChildrenApart
<1>6. ASSUME NEW x \in Tree(t), x # t PROVE \E c \in Children(t) : x \in Tree(c)
  <2>1. x \in Pids /\ Live(x) /\ t \in AncestorsOf(x)
    BY <1>6 DEF Tree
  <2>2. PICK c \in Children(t) : c \in AncestorsOf(x)
    BY <1>6, <2>1, BelowAChild
  <2> QED
    BY <1>3, <2>1, <2>2
<1>7. ASSUME NEW c \in Children(t), NEW x \in Tree(c) PROVE x \in Tree(t)
  <2>1. x \in Pids /\ Live(x) /\ c \in AncestorsOf(x) /\ parent[c] = t /\ c # InitPid
    BY <1>3
  <2>2. t \in AncestorsOf(x)
    BY <1>1, <2>1, AncestorsAre
  <2> QED
    BY <2>1, <2>2 DEF Tree
<1> QED
  BY <1>2, <1>4, <1>5, <1>6, <1>7

\* Numbers that differ by a multiple of 2^32 are the same int.
LEMMA WrapAdds ==
    ASSUME NEW x \in Int, NEW y \in Int
    PROVE  Wrap(x) \in Int /\ Wrap(Wrap(x) + y) = Wrap(x + y)
<1> DEFINE M == 2 * HALF
<1>1. M \in Int /\ M > 0 /\ HALF \in Int
  BY WeightsAssumption
<1>2. \A a \in Int : Wrap(a) = ((a + HALF) % M) - HALF
  BY DEF Wrap
<1> HIDE DEF M
<1>3. ASSUME NEW a \in Int PROVE \E q \in Int : a % M \in 0..(M - 1) /\ a = M * q + (a % M)
  BY <1>1
<1>4. ASSUME NEW a \in Int, NEW b \in Int, NEW k \in Int, a = b + M * k PROVE a % M = b % M
  <2>1. PICK p \in Int : a % M \in 0..(M - 1) /\ a = M * p + (a % M)
    BY <1>3
  <2>2. PICK q \in Int : b % M \in 0..(M - 1) /\ b = M * q + (b % M)
    BY <1>3
  <2> DEFINE r == a % M
             s == b % M
             d == p - (q + k)
  <2>3. r \in Int /\ s \in Int /\ 0 <= r /\ r < M /\ 0 <= s /\ s < M /\ d \in Int
    BY <1>1, <2>1, <2>2
  <2>4. M * p + r = (M * q + s) + M * k
    BY <1>4, <2>1, <2>2
  <2>5. M * d = M * p - (M * q + M * k)
    BY <1>1
  <2>6. M * p \in Int /\ M * q \in Int /\ M * k \in Int /\ M * d \in Int
    BY <1>1, <2>3
  <2> HIDE DEF r, s, d
  <2>7. M * d = s - r
    BY <2>3, <2>4, <2>5, <2>6
  <2>8. d >= 1 => M * d >= M
    BY <1>1, <2>3
  <2>9. d <= -1 => M * d <= -M
    BY <1>1, <2>3
  <2>10. d = 0
    BY <1>1, <2>3, <2>6, <2>7, <2>8, <2>9
  <2>11. r = s
    BY <1>1, <2>3, <2>7, <2>10
  <2> QED
    BY <2>11 DEF r, s
<1>5. PICK q \in Int : (x + HALF) % M \in 0..(M - 1) /\ x + HALF = M * q + ((x + HALF) % M)
  BY <1>1, <1>3
<1> DEFINE w == Wrap(x)
           h == (x + HALF) % M
<1>6. h \in Int /\ x + HALF = M * q + h /\ w = h - HALF /\ M * q \in Int
  <2>1. h \in Int /\ M * q \in Int
    BY <1>1, <1>5
  <2> QED
    BY <1>2, <1>5, <2>1
<1> HIDE DEF w, h
<1>7. w \in Int /\ (x + y) + HALF = ((w + y) + HALF) + M * q
  BY <1>1, <1>6
<1> DEFINE a == (x + y) + HALF
           b == (w + y) + HALF
<1>8. a \in Int /\ b \in Int /\ a = b + M * q
  BY <1>1, <1>7
<1> HIDE DEF a, b
<1>9. a % M = b % M
  BY <1>4, <1>8
<1>10. Wrap(w + y) = (b % M) - HALF /\ Wrap(x + y) = (a % M) - HALF
  BY <1>2, <1>7 DEF a, b
<1> QED
  BY <1>7, <1>9, <1>10 DEF w

\* The sum over the tree of every task; it satisfies the recursion of
\* calculate_sum_of_children.
Total(t) == SumOver(weight, Tree(t), MaxPid)
Totals == [t \in Pids |-> Wrap(Total(t))]
Adds(F) == F = [t \in Pids |-> Wrap(weight[t] + SumOver(F, Children(t), MaxPid))]

LEMMA TotalIs ==
    ASSUME TreeInv, NEW S \in SUBSET Pids
    PROVE  SumOver(weight, S, MaxPid) \in Nat
<1>1. \A x \in S : x \in 0..MaxPid => weight[x] \in Nat /\ weight[x] = weight[x]
  BY TypesAre
<1> QED
  BY <1>1, SumOverIs, WeightsAssumption

LEMMA TotalsAdd ==
    ASSUME TreeInv, NEW t \in Pids
    PROVE  Totals[t] = Wrap(weight[t] + SumOver(Totals, Children(t), MaxPid))
<1> DEFINE K == Children(t)
           U(n) == {x \in Pids : \E c \in K : c < n /\ x \in Tree(c)}
           Sum(S) == SumOver(weight, S, MaxPid)
<1>1. MaxPid \in Nat /\ Pids = 1..MaxPid
  BY WeightsAssumption DEF Pids
<1>2. /\ Tree(t) \subseteq Pids /\ t \in Tree(t) /\ K \subseteq Pids
      /\ \A c \in K : t \notin Tree(c)
      /\ \A c, d \in K : c # d => Tree(c) \cap Tree(d) = {}
      /\ \A x : x \in Tree(t) <=> x = t \/ \E c \in K : x \in Tree(c)
  BY TreeIs
<1>3. \A x \in Pids : weight[x] \in Nat /\ Tree(x) \subseteq Pids
  BY TypesAre, TreeIs
<1>4. \A S \in SUBSET Pids : Sum(S) \in Nat
  BY TotalIs
<1>5. \A c \in Pids : Totals[c] = Wrap(Sum(Tree(c)))
  BY DEF Totals, Total
<1>6. ASSUME NEW S \in SUBSET Pids, NEW R \in SUBSET Pids, S \cap R = {}
      PROVE  Sum(S \cup R) = Sum(S) + Sum(R)
  <2>1. \A y \in S \cup R : y \in 0..MaxPid => weight[y] \in Nat
    BY <1>3
  <2>2. MaxPid \in Nat
    BY <1>1
  <2>3. SumOver(weight, S \cup R, MaxPid) = SumOver(weight, S, MaxPid) + SumOver(weight, R, MaxPid)
    BY <1>6, <2>1, <2>2, SumOverUnion
  <2> QED
    BY <2>3
<1>7. PICK a : /\ SumOver(Totals, K, MaxPid) = a[MaxPid + 1] /\ a[0] = 0
               /\ \A n \in 0..MaxPid : a[n + 1] = a[n] + (IF n \in K THEN Totals[n] ELSE 0)
  BY <1>1, SumOverSteps
<1> HIDE DEF K, Sum
<1> DEFINE T == {n \in 0..(MaxPid + 1) : a[n] \in Int /\ \A y \in Int : Wrap(a[n] + y) = Wrap(Sum(U(n)) + y)}
<1>8. 0 \in T
  <2>1. U(0) = {}
    BY <1>1, <1>2
  <2>2. Sum({}) = 0
    BY <1>1, SumOverNone DEF Sum
  <2>3. Sum(U(0)) = a[0]
    BY <1>7, <2>1, <2>2
  <2>4. 0 \in 0..(MaxPid + 1) /\ a[0] \in Int
    BY <1>1, <1>7
  <2> HIDE DEF U
  <2> QED
    BY <2>3, <2>4
<1>9. ASSUME NEW n \in 0..(MaxPid + 1), n < MaxPid + 1, n \in T PROVE n + 1 \in T
  <2>1. /\ n \in 0..MaxPid /\ n + 1 \in 0..(MaxPid + 1) /\ a[n] \in Int
        /\ \A y \in Int : Wrap(a[n] + y) = Wrap(Sum(U(n)) + y)
    BY <1>1, <1>9
  <2>2. U(n) \in SUBSET Pids /\ U(n + 1) \in SUBSET Pids
    OBVIOUS
  <2>3. \A c \in K : c \in Int
    BY <1>1, <1>2
  <2>4. CASE n \notin K
    <3>1. \A c \in K : c < n + 1 <=> c < n
      BY <2>1, <2>3, <2>4
    <3>2. U(n + 1) = U(n)
      BY <3>1
    <3>3. a[n + 1] = a[n]
      BY <1>7, <2>1, <2>4
    <3> HIDE DEF U
    <3> QED
      BY <2>1, <3>2, <3>3
  <2>5. CASE n \in K
    <3> DEFINE V == U(n)
               R == Tree(n)
    <3>1. R \in SUBSET Pids /\ V \in SUBSET Pids
      BY <1>2, <1>3, <2>2, <2>5
    <3>2. V \cap R = {}
      <4>1. \A c \in K : c < n => Tree(c) \cap R = {}
        BY <1>2, <2>1, <2>3, <2>5
      <4> QED
        BY <4>1
    <3>3. U(n + 1) = V \cup R
      <4>1. \A c \in K : c < n + 1 <=> c < n \/ c = n
        BY <2>1, <2>3
      <4> QED
        BY <2>5, <3>1, <4>1
    <3>4. n \in Pids /\ a[n + 1] = a[n] + Totals[n] /\ Totals[n] = Wrap(Sum(R))
      BY <1>2, <1>5, <1>7, <2>1, <2>5
    <3>5. Sum(U(n + 1)) = Sum(V) + Sum(R)
      BY <1>6, <3>1, <3>2, <3>3
    <3>6. Sum(V) \in Nat /\ Sum(R) \in Nat
      BY <1>4, <3>1
    <3>7. \A y \in Int : Wrap(a[n] + y) = Wrap(Sum(V) + y)
      BY <2>1
    <3> DEFINE s == Sum(V)
               r == Sum(R)
    <3>8. s \in Int /\ r \in Int /\ Wrap(r) \in Int /\ a[n + 1] = a[n] + Wrap(r)
      BY <3>4, <3>6, WrapAdds
    <3> HIDE DEF V, R, U, s, r
    <3>9. ASSUME NEW y \in Int PROVE Wrap(a[n + 1] + y) = Wrap((s + r) + y)
      <4>1. Wrap(a[n + 1] + y) = Wrap(a[n] + (Wrap(r) + y))
        BY <2>1, <3>8
      <4>2. Wrap(a[n] + (Wrap(r) + y)) = Wrap(s + (Wrap(r) + y))
        BY <3>7, <3>8 DEF s
      <4>3. Wrap(s + (Wrap(r) + y)) = Wrap(Wrap(r) + (s + y))
        BY <3>8
      <4>4. Wrap(Wrap(r) + (s + y)) = Wrap(r + (s + y))
        BY <3>8, WrapAdds
      <4>5. r + (s + y) = (s + r) + y
        BY <3>8
      <4> QED
        BY <4>1, <4>2, <4>3, <4>4, <4>5
    <3>10. Sum(U(n + 1)) = s + r /\ a[n + 1] \in Int
      BY <2>1, <3>5, <3>8 DEF s, r
    <3> QED
      BY <2>1, <3>9, <3>10
  <2> QED
    BY <2>4, <2>5
<1> HIDE DEF T
<1>10. \A n \in 0..(MaxPid + 1) : n \in T
  BY <1>1, <1>8, <1>9, InductionUpTo
<1> DEFINE W == U(MaxPid + 1)
<1>11. W \in SUBSET Pids /\ t \notin W /\ Tree(t) = W \cup {t}
  <2>1. \A c \in K : c < MaxPid + 1 /\ Tree(c) \subseteq Pids
    BY <1>1, <1>2, <1>3
  <2>2. \A x : x \in W <=> \E c \in K : x \in Tree(c)
    BY <2>1
  <2> HIDE DEF W
  <2> QED
    BY <1>2, <2>1, <2>2
<1>12. a[MaxPid + 1] \in Int /\ \A y \in Int : Wrap(a[MaxPid + 1] + y) = Wrap(Sum(W) + y)
  BY <1>1, <1>10 DEF T
<1> HIDE DEF W, U
<1>13. Sum(Tree(t)) = Sum(W) + weight[t]
  <2>1. \A y \in W \cup {t} : y \in 0..MaxPid => weight[y] \in Nat
    BY <1>3, <1>11
  <2>2. t \in 0..MaxPid
    BY <1>1
  <2> QED
    BY <1>1, <1>11, <2>1, <2>2, SumOverAdd DEF Sum
<1>14. Sum(W) \in Nat /\ weight[t] \in Nat
  BY <1>3, <1>4, <1>11
<1>15. Wrap(a[MaxPid + 1] + weight[t]) = Wrap(Sum(Tree(t)))
  BY <1>12, <1>13, <1>14
<1>16. a[MaxPid + 1] + weight[t] = weight[t] + a[MaxPid + 1]
  BY <1>12, <1>14
<1> QED
  BY <1>5, <1>7, <1>15, <1>16 DEF K

\* It is the only function that does: two of them agree from the leaves up.
LEMMA SumsAreTotals ==
    ASSUME TreeInv
    PROVE  (CHOOSE F : Adds(F)) = Totals
<1>1. Adds(Totals)
  <2>1. \A t \in Pids : Totals[t] = Wrap(weight[t] + SumOver(Totals, Children(t), MaxPid))
    BY TotalsAdd
  <2>2. Totals = [t \in Pids |-> Totals[t]]
    BY DEF Totals
  <2> QED
    BY <2>1, <2>2 DEF Adds
<1>2. ASSUME NEW F, Adds(F) PROVE F = Totals
  <2>1. /\ F = [t \in Pids |-> F[t]] /\ Totals = [t \in Pids |-> Totals[t]]
        /\ \A t \in Pids : F[t] = Wrap(weight[t] + SumOver(F, Children(t), MaxPid))
        /\ \A t \in Pids : Totals[t] = Wrap(weight[t] + SumOver(Totals, Children(t), MaxPid))
    BY <1>1, <1>2 DEF Adds
  <2> DEFINE S == {t \in Pids : F[t] # Totals[t]}
  <2>2. S = {}
    <3> SUFFICES ASSUME S # {} PROVE FALSE
      OBVIOUS
    <3>1. PICK t \in S : \A c \in S : c \notin Children(t)
      BY DEF TreeInv, LeafBelow
    <3>2. \A c \in Children(t) : F[c] = Totals[c]
      BY <3>1 DEF Children
    <3>3. SumOver(F, Children(t), MaxPid) = SumOver(Totals, Children(t), MaxPid)
      BY <3>2, SumOverSame, WeightsAssumption
    <3> QED
      BY <2>1, <3>1, <3>3
  <2> QED
    BY <2>1, <2>2
<1> QED
  BY <1>1, <1>2

\* The children's sum, whatever has been forked, has exited or has been waited for.
LEMMA SumIsRight == TreeInv => ChildrenSum
<1> SUFFICES ASSUME TreeInv, NEW p \in Pids, Alive(p), Children(p) # {}
             PROVE  Wrap(sys_get_children_sum(p)) = Wrap(SumOver(weight, Descendants(p), MaxPid))
  BY DEF ChildrenSum
<1>1. calculate_sum_of_children(p) = Totals[p]
  <2>1. calculate_sum_of_children(p) = (CHOOSE F : Adds(F))[p]
    BY DEF calculate_sum_of_children, Adds
  <2> QED
    BY <2>1, SumsAreTotals
<1>2. sys_get_children_sum(p) = Wrap(Total(p)) - weight[p]
  BY <1>1 DEF sys_get_children_sum, Totals
<1> DEFINE D == Descendants(p)
           d == SumOver(weight, D, MaxPid)
<1>3. D \in SUBSET Pids /\ p \notin D /\ Tree(p) = D \cup {p}
  BY DEF Descendants, Tree
<1>4. weight[p] \in Nat /\ d \in Nat
  BY <1>3, TypesAre, TotalIs
<1>5. Total(p) = d + weight[p]
  <2>1. \A y \in D \cup {p} : y \in 0..MaxPid => weight[y] \in Nat
    BY <1>3, TypesAre
  <2>2. p \in 0..MaxPid /\ MaxPid \in Nat
    BY WeightsAssumption DEF Pids
  <2> HIDE DEF D
  <2> QED
    BY <1>3, <2>1, <2>2, SumOverAdd DEF Total
<1> HIDE DEF d
<1> DEFINE w == Wrap(Total(p))
           v == Total(p)
           m == -weight[p]
<1>6. v \in Int /\ m \in Int /\ v + m = d
  BY <1>4, <1>5
<1>7. w \in Int /\ Wrap(w + m) = Wrap(v + m)
  BY <1>6, WrapAdds
<1>8. w - weight[p] = w + m
  BY <1>4, <1>7
<1> QED
  BY <1>2, <1>6, <1>7, <1>8 DEF d

\* In the arithmetic of int, get_children_sum is the sum of the weights of all descendants
\* that have not been waited for, and no weight is ever negative (hw2.c:12-41).
THEOREM WeightsCorrect == Spec => []WeightsInv
<1>1. TreeInv => WeightsInv
  BY SumIsRight DEF WeightsInv, TreeInv
<1> QED
  BY <1>1, TreeInvariant, PTL
=============================================================================
