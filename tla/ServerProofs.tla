---------------------------- MODULE ServerProofs ----------------------------
(***************************************************************************)
(* Proofs about the parts of the web server that the threads of its pool   *)
(* use: the waiting queue (LinkedQueue), the robust I/O package (Rio) and  *)
(* the handling of a request (Request).  They share no state; each has its *)
(* own specification and invariant.                                        *)
(***************************************************************************)
EXTENDS LinkedQueue, Rio, Request, ListProofs, FiniteSetTheorems, SequenceTheorems, TLAPS

(***************************************************************************)
(* LinkedQueue, for any heap.  The pointers are compared with the recorded *)
(* order of the nodes, position by position; the walk of random_drop is    *)
(* followed step by step, so no induction over the length of the list is   *)
(* needed.                                                                 *)
(***************************************************************************)
\* Different positions hold different nodes, the dummies included.
LEMMA AtInjective ==
    ASSUME TypeOK, WellLinked
    PROVE  /\ Len(order) \in Nat
           /\ \A i \in 0..(Len(order) + 1) : At(i) \in AllNodes
           /\ \A i, j \in 0..(Len(order) + 1) : At(i) = At(j) => i = j
           /\ \A i \in 1..Len(order) : At(i) = order[i] /\ order[i] \in Nodes
<1>1. Len(order) \in Nat /\ \A i \in 1..Len(order) : order[i] \in Nodes
  BY DEF TypeOK
<1>2. \A i \in 0..(Len(order) + 1) :
         \/ i = 0 /\ At(i) = HeadNode
         \/ i = Len(order) + 1 /\ i # 0 /\ At(i) = EndNode
         \/ i \in 1..Len(order) /\ At(i) = order[i]
  BY <1>1 DEF At
<1>3. \A i \in 1..Len(order) : At(i) = order[i]
  BY <1>1 DEF At
<1> QED
  BY <1>1, <1>2, <1>3, NodesAssumption DEF AllNodes, WellLinked

\* Removing the k-th element leaves a sequence of the others, one shorter.
LEMMA WithoutType ==
    ASSUME NEW S, NEW q \in Seq(S), NEW k \in 1..Len(q)
    PROVE  /\ Without(q, k) \in Seq(S)
           /\ Len(Without(q, k)) = Len(q) - 1
           /\ \A j \in 1..(Len(q) - 1) :
                 Without(q, k)[j] = IF j < k THEN q[j] ELSE q[j + 1]
<1>1. Len(q) \in Nat /\ Len(q) - 1 \in Nat
  OBVIOUS
<1>2. \A j \in 1..(Len(q) - 1) : (IF j < k THEN q[j] ELSE q[j + 1]) \in S
  OBVIOUS
<1>3. Without(q, k) \in [1..(Len(q) - 1) -> S]
  BY <1>2 DEF Without
<1> QED
  BY <1>1, <1>3 DEF Without

\* The step takes the k-th node, and no other, out of the order.
Removes(k) ==
    /\ order' \in Seq(Nodes) /\ Len(order') = Len(order) - 1
    /\ \A j \in 1..(Len(order) - 1) :
          order'[j] = IF j < k THEN order[j] ELSE order[j + 1]

\* Unlinking the k-th node leaves a well-linked list of the others.
LEMMA UnlinkKeepsLinks ==
    ASSUME TypeOK, WellLinked, NEW k \in 1..Len(order), Unlink(order[k]),
           Removes(k), waiting_queue_size' = waiting_queue_size - 1
    PROVE  WellLinked'
<1> DEFINE L == Len(order)
<1>1. /\ order' \in Seq(Nodes) /\ Len(order') = L - 1 /\ L \in Nat
      /\ \A j \in 1..(L - 1) : order'[j] = IF j < k THEN order[j] ELSE order[j + 1]
  BY AtInjective DEF TypeOK, Removes
<1>2. \A i \in 0..L : At(i)' = IF i < k THEN At(i) ELSE At(i + 1)
  <2> SUFFICES ASSUME NEW i \in 0..L PROVE At(i)' = IF i < k THEN At(i) ELSE At(i + 1)
    OBVIOUS
  <2>1. CASE i < k
    BY <1>1, <2>1 DEF At
  <2>2. CASE ~(i < k)
    <3>1. i \in 1..L /\ i + 1 # 0 /\ (i + 1 = L + 1 <=> i = L) /\ (i # L => i \in 1..(L - 1))
      <4>1. L \in Nat /\ k \in 1..L /\ i \in 0..L
        BY <1>1
      <4> HIDE DEF L
      <4> QED
        BY <2>2, <4>1
    <3>2. Len(order') + 1 = L
      BY <1>1
    <3> QED
      BY <1>1, <2>2, <3>1, <3>2 DEF At
  <2> QED
    BY <2>1, <2>2
<1>3. next[order[k]] = At(k + 1) /\ prev[order[k]] = At(k - 1)
  <2>1. k \in 0..L /\ k - 1 \in 0..L /\ k - 1 + 1 = k /\ At(k) = order[k]
    BY <1>1, AtInjective
  <2> QED
    BY <2>1 DEF WellLinked
<1>4. /\ prev' = [prev EXCEPT ![At(k + 1)] = At(k - 1)]
      /\ next' = [next EXCEPT ![At(k - 1)] = At(k + 1)]
  BY <1>3 DEF Unlink
<1>5. \A i \in 0..(L - 1) : next'[At(i)'] = At(i + 1)'
  <2> SUFFICES ASSUME NEW i \in 0..(L - 1) PROVE next'[At(i)'] = At(i + 1)'
    OBVIOUS
  <2>1. CASE i < k - 1
    <3>1. At(i)' = At(i) /\ At(i + 1)' = At(i + 1) /\ At(i) # At(k - 1)
      BY <1>1, <1>2, <2>1, AtInjective, SMTT(30)
    <3>2. next'[At(i)] = next[At(i)] /\ next[At(i)] = At(i + 1)
      BY <3>1, <1>1, <1>4, <2>1, AtInjective DEF WellLinked, TypeOK
    <3> QED
      BY <3>1, <3>2
  <2>2. CASE i = k - 1
    <3>1. At(i)' = At(k - 1) /\ At(i + 1)' = At(k + 1) /\ At(k - 1) \in AllNodes
      <4>1. i \in 0..L /\ i + 1 \in 0..L /\ i + 1 = k /\ k - 1 \in 0..(L + 1)
        BY <1>1, <2>2
      <4> QED
        BY <4>1, <1>2, <2>2, AtInjective
    <3> QED
      BY <3>1, <1>4 DEF TypeOK
  <2>3. CASE i > k - 1
    <3>1. At(i)' = At(i + 1) /\ At(i + 1)' = At(i + 2) /\ At(i + 1) # At(k - 1)
      BY <1>1, <1>2, <2>3, AtInjective
    <3>2. next'[At(i + 1)] = next[At(i + 1)] /\ next[At(i + 1)] = At(i + 2)
      <4>1. i + 1 \in 0..L /\ i + 1 + 1 = i + 2
        BY <1>1
      <4> QED
        BY <4>1, <3>1, <1>1, <1>4, AtInjective DEF WellLinked, TypeOK
    <3> QED
      BY <3>1, <3>2
  <2> QED
    BY <1>1, <2>1, <2>2, <2>3
<1>6. \A i \in 0..(L - 1) : prev'[At(i + 1)'] = At(i)'
  <2> SUFFICES ASSUME NEW i \in 0..(L - 1) PROVE prev'[At(i + 1)'] = At(i)'
    OBVIOUS
  <2>1. CASE i < k - 1
    <3>1. At(i)' = At(i) /\ At(i + 1)' = At(i + 1) /\ At(i + 1) # At(k + 1)
      BY <1>1, <1>2, <2>1, AtInjective
    <3>2. prev'[At(i + 1)] = prev[At(i + 1)] /\ prev[At(i + 1)] = At(i)
      BY <3>1, <1>1, <1>4, <2>1, AtInjective DEF WellLinked, TypeOK
    <3> QED
      BY <3>1, <3>2
  <2>2. CASE i = k - 1
    <3>1. At(i)' = At(k - 1) /\ At(i + 1)' = At(k + 1) /\ At(k + 1) \in AllNodes
      <4>1. i \in 0..L /\ i + 1 \in 0..L /\ i + 1 = k /\ k + 1 \in 0..(L + 1)
        BY <1>1, <2>2
      <4> QED
        BY <4>1, <1>2, <2>2, AtInjective
    <3> QED
      BY <3>1, <1>4 DEF TypeOK
  <2>3. CASE i > k - 1
    <3>1. At(i)' = At(i + 1) /\ At(i + 1)' = At(i + 2) /\ At(i + 2) # At(k + 1)
      BY <1>1, <1>2, <2>3, AtInjective
    <3>2. prev'[At(i + 2)] = prev[At(i + 2)] /\ prev[At(i + 2)] = At(i + 1)
      <4>1. i + 1 \in 0..L /\ i + 1 + 1 = i + 2
        BY <1>1
      <4> QED
        BY <4>1, <3>1, <1>1, <1>4, AtInjective DEF WellLinked, TypeOK
    <3> QED
      BY <3>1, <3>2
  <2> QED
    BY <1>1, <2>1, <2>2, <2>3
<1>7. \A i, j \in 1..(L - 1) : order'[i] = order'[j] => i = j
  <2> DEFINE Old(j) == IF j < k THEN j ELSE j + 1
  <2>1. \A j \in 1..(L - 1) : Old(j) \in 1..L /\ order'[j] = order[Old(j)]
    BY <1>1
  <2>2. \A i, j \in 1..(L - 1) : Old(i) = Old(j) => i = j
    BY <1>1
  <2>3. \A i, j \in 1..L : order[i] = order[j] => i = j
    BY DEF WellLinked
  <2> HIDE DEF Old
  <2> QED
    BY <2>1, <2>2, <2>3
<1> QED
  BY <1>1, <1>5, <1>6, <1>7 DEF WellLinked

\* Linking a node that is not in the list puts it behind all the others.
LEMMA LinkKeepsLinks ==
    ASSUME TypeOK, WellLinked, NEW n \in Nodes,
           \A i \in 1..Len(order) : order[i] # n,
           LinkLast(n), order' = Append(order, n),
           waiting_queue_size' = waiting_queue_size + 1
    PROVE  WellLinked'
<1>0. PICK L \in Nat : L = Len(order)
  BY AtInjective
<1>1. /\ L \in Nat /\ Len(order') = L + 1
      /\ \A j \in 1..L : order'[j] = order[j]
      /\ order'[L + 1] = n
  BY <1>0 DEF TypeOK
<1>2. /\ \A i \in 0..L : At(i)' = At(i)
      /\ At(L + 1)' = n /\ At(L + 2)' = EndNode /\ At(L + 1) = EndNode
  <2>1. \A i \in 0..L : At(i)' = At(i)
    BY <1>0, <1>1 DEF At
  <2>2. L + 1 # 0 /\ L + 2 # 0 /\ L + 1 # L + 2 /\ Len(order') + 1 = L + 2
    BY <1>1
  <2> QED
    BY <1>0, <1>1, <2>1, <2>2 DEF At
<1>3. prev[EndNode] = At(L)
  BY <1>0, <1>1, <1>2 DEF WellLinked
<1>4. \A i \in 0..L : At(i) # n /\ At(i) # EndNode /\ At(i) \in AllNodes
  BY <1>0, <1>1, <1>2, AtInjective, NodesAssumption DEF At
<1>5. /\ prev' = [prev EXCEPT ![EndNode] = n, ![n] = At(L)]
      /\ next' = [next EXCEPT ![n] = EndNode, ![At(L)] = n]
  BY <1>3 DEF LinkLast
<1>6. n \in AllNodes /\ EndNode \in AllNodes /\ n # EndNode
  BY NodesAssumption DEF AllNodes
<1>7. \A i \in 0..(L + 1) : next'[At(i)'] = At(i + 1)'
  <2> SUFFICES ASSUME NEW i \in 0..(L + 1) PROVE next'[At(i)'] = At(i + 1)'
    OBVIOUS
  <2>1. CASE i < L
    <3>1. At(i)' = At(i) /\ At(i + 1)' = At(i + 1) /\ At(i) # At(L)
      BY <1>0, <1>1, <1>2, <2>1, AtInjective
    <3> QED
      BY <3>1, <1>0, <1>1, <1>4, <1>5, <2>1 DEF WellLinked, TypeOK
  <2>2. CASE i = L
    <3>1. At(i)' = At(L) /\ At(i + 1)' = n /\ At(L) \in AllNodes
      BY <2>2, <1>1, <1>2, <1>4
    <3> QED
      BY <3>1, <1>4, <1>5 DEF TypeOK
  <2>3. CASE i = L + 1
    <3>1. At(i)' = n /\ At(i + 1)' = EndNode /\ n # At(L)
      <4>1. i + 1 = L + 2 /\ L \in 0..L
        BY <2>3, <1>1
      <4> QED
        BY <4>1, <2>3, <1>2, <1>4
    <3> QED
      BY <3>1, <1>5, <1>6 DEF TypeOK
  <2> QED
    BY <1>1, <2>1, <2>2, <2>3
<1>8. \A i \in 0..(L + 1) : prev'[At(i + 1)'] = At(i)'
  <2> SUFFICES ASSUME NEW i \in 0..(L + 1) PROVE prev'[At(i + 1)'] = At(i)'
    OBVIOUS
  <2>1. CASE i < L
    <3>1. At(i)' = At(i) /\ At(i + 1)' = At(i + 1) /\ i + 1 \in 0..L
      BY <1>1, <1>2, <2>1
    <3> QED
      BY <3>1, <1>0, <1>1, <1>4, <1>5, <2>1 DEF WellLinked, TypeOK
  <2>2. CASE i = L
    <3>1. At(i)' = At(L) /\ At(i + 1)' = n
      BY <2>2, <1>1, <1>2
    <3> QED
      BY <3>1, <1>5, <1>6 DEF TypeOK
  <2>3. CASE i = L + 1
    <3>1. At(i)' = n /\ At(i + 1)' = EndNode
      <4>1. i + 1 = L + 2
        BY <2>3, <1>1
      <4> QED
        BY <4>1, <2>3, <1>2
    <3> QED
      BY <3>1, <1>5, <1>6 DEF TypeOK
  <2> QED
    BY <1>1, <2>1, <2>2, <2>3
<1>9. \A i, j \in 1..(L + 1) : order'[i] = order'[j] => i = j
  BY <1>0, <1>1 DEF WellLinked
<1> QED
  BY <1>0, <1>1, <1>7, <1>8, <1>9 DEF WellLinked

----------------------------------------------------------------------------
\* While random_drop walks, the cursor is at exactly one position of the list.
LEMMA CursorPosition ==
    ASSUME ListInv, ~Idle
    PROVE  /\ CursorIndex \in 1..Len(order) /\ order[CursorIndex] = cursor
           /\ CursorIndex + left <= Len(order)
<1>1. PICK i \in 1..Len(order) : order[i] = cursor /\ i + left <= Len(order)
  BY DEF ListInv, WalkInside
<1>2. CursorIndex = i
  BY <1>1 DEF CursorIndex, ListInv, WellLinked
<1> QED
  BY <1>1, <1>2

\* The oldest node is the successor of the dummy head.
LEMMA FirstNode ==
    ASSUME ListInv, waiting_queue_size > 0
    PROVE  1 \in 1..Len(order) /\ next[HeadNode] = order[1]
<1>1. Len(order) \in Nat /\ Len(order) > 0 /\ 0 \in 0..Len(order)
  BY DEF ListInv, WellLinked, TypeOK
<1>2. next[At(0)] = At(0 + 1) /\ At(0) = HeadNode /\ At(0 + 1) = order[1]
  BY <1>1 DEF At, ListInv, WellLinked
<1> QED
  BY <1>1, <1>2

\* dequeue keeps the invariant and takes the oldest descriptor (queue.c:59-70).
LEMMA DequeueStep ==
    ASSUME ListInv, Dequeue
    PROVE  ListInv'
<1>1. 1 \in 1..Len(order) /\ next[HeadNode] = order[1]
  BY FirstNode DEF Dequeue
<1>2. Removes(1)
  <2>1. /\ Tail(order) \in Seq(Nodes) /\ Len(Tail(order)) = Len(order) - 1
        /\ \A j \in 1..(Len(order) - 1) : Tail(order)[j] = order[j + 1]
    BY <1>1 DEF ListInv, TypeOK
  <2> QED
    BY <2>1, <1>1 DEF Dequeue, Removes
<1>3. WellLinked'
  BY <1>1, <1>2, UnlinkKeepsLinks DEF Dequeue, ListInv
<1>4. /\ order' \in Seq(Nodes) /\ Len(order') = Len(order) - 1
      /\ \A j \in 1..(Len(order) - 1) : order'[j] = order[j + 1]
  BY <1>1, <1>2 DEF Removes
<1>5. order[1] \in Nodes /\ order[1] \in allocated /\ order[1] \in AllNodes
  BY <1>1 DEF ListInv, NoDanglingNode, TypeOK, AllNodes
<1>6. next[order[1]] \in AllNodes /\ prev[order[1]] \in AllNodes
  <2>1. /\ At(1) = order[1] /\ 1 \in 0..Len(order) /\ 0 \in 0..Len(order)
        /\ 1 + 1 \in 0..(Len(order) + 1) /\ 0 \in 0..(Len(order) + 1)
    BY <1>1, AtInjective DEF ListInv
  <2>2. next[At(1)] = At(1 + 1) /\ prev[At(0 + 1)] = At(0)
    BY <2>1 DEF ListInv, WellLinked
  <2> QED
    BY <2>1, <2>2, AtInjective DEF ListInv
<1>7. TypeOK'
  BY <1>1, <1>3, <1>4, <1>5, <1>6 DEF Dequeue, Unlink, ListInv, TypeOK
<1>8. NoDanglingNode'
  <2>1. \A j \in 1..(Len(order) - 1) : j + 1 \in 1..Len(order) /\ order[j + 1] # order[1]
    BY <1>1 DEF ListInv, WellLinked
  <2> QED
    BY <1>1, <1>4, <2>1 DEF Dequeue, ListInv, NoDanglingNode
<1>9. WalkInside'
  BY DEF Dequeue, Idle, WalkInside
<1> QED
  BY <1>3, <1>7, <1>8, <1>9 DEF ListInv

\* The end of random_drop keeps the invariant and takes out exactly the node the
\* walk has reached (queue.c:77-82).
LEMMA DropCursorStep ==
    ASSUME ListInv, DropCursor
    PROVE  ListInv'
<1>1. PICK k \in 1..Len(order) :
         k = CursorIndex /\ order[k] = cursor /\ order' = Without(order, k)
  BY CursorPosition DEF DropCursor
<1>2. WellLinked'
  <2>1. Removes(k)
    BY <1>1, WithoutType DEF Removes, ListInv, TypeOK
  <2> QED
    BY <1>1, <2>1, UnlinkKeepsLinks DEF DropCursor, ListInv
<1>3. /\ order' \in Seq(Nodes) /\ Len(order') = Len(order) - 1
      /\ \A j \in 1..(Len(order) - 1) :
            order'[j] = IF j < k THEN order[j] ELSE order[j + 1]
  BY <1>1, WithoutType DEF ListInv, TypeOK
<1>4. cursor \in Nodes /\ cursor \in allocated /\ cursor \notin held
      /\ cursor \in AllNodes
  BY <1>1 DEF ListInv, NoDanglingNode, TypeOK, AllNodes
<1>5. next[cursor] \in AllNodes /\ prev[cursor] \in AllNodes
  <2>1. /\ At(k) = cursor /\ k \in 0..Len(order) /\ k - 1 \in 0..Len(order)
        /\ k + 1 \in 0..(Len(order) + 1) /\ k - 1 \in 0..(Len(order) + 1)
        /\ (k - 1) + 1 = k
    BY <1>1, AtInjective DEF ListInv
  <2>2. next[At(k)] = At(k + 1) /\ prev[At((k - 1) + 1)] = At(k - 1)
    BY <2>1 DEF ListInv, WellLinked
  <2> QED
    BY <2>1, <2>2, AtInjective DEF ListInv
<1>6. TypeOK'
  BY <1>2, <1>3, <1>4, <1>5, <1>1 DEF DropCursor, Unlink, ListInv, TypeOK, WellLinked
<1>7. NoDanglingNode'
  <2>1. ASSUME NEW j \in 1..(Len(order) - 1)
        PROVE  \E i \in 1..Len(order) : i # k /\ order'[j] = order[i]
    <3>1. Len(order) \in Nat /\ j \in 1..Len(order) /\ j + 1 \in 1..Len(order) /\ k \in Nat
      BY <1>1, LenProperties DEF ListInv, TypeOK
    <3>2. CASE j < k
      <4>1. j # k /\ order'[j] = order[j]
        BY <1>3, <3>1, <3>2
      <4> QED
        BY <3>1, <4>1
    <3>3. CASE ~(j < k)
      <4>1. j + 1 # k /\ order'[j] = order[j + 1]
        BY <1>3, <3>1, <3>3
      <4> QED
        BY <3>1, <4>1
    <3> QED
      BY <3>2, <3>3
  <2>2. \A i \in 1..Len(order) : i # k => order[i] # cursor
    BY <1>1 DEF ListInv, WellLinked
  <2> QED
    BY <1>3, <2>1, <2>2 DEF DropCursor, ListInv, NoDanglingNode
<1>8. WalkInside'
  BY DEF DropCursor, Idle, WalkInside
<1> QED
  BY <1>2, <1>6, <1>7, <1>8 DEF ListInv

\* enqueue keeps the invariant and puts the descriptor last (queue.c:46-57).
LEMMA EnqueueStep ==
    ASSUME ListInv, NEW f \in Fds, Enqueue(f)
    PROVE  ListInv'
<1>1. PICK n \in Nodes \ allocated :
         /\ allocated' = allocated \cup {n}
         /\ fd' = [fd EXCEPT ![n] = f]
         /\ LinkLast(n)
         /\ order' = Append(order, n)
  BY DEF Enqueue
<1>2. \A i \in 1..Len(order) : order[i] # n
  BY <1>1 DEF ListInv, NoDanglingNode
<1>3. WellLinked'
  BY <1>1, <1>2, LinkKeepsLinks DEF Enqueue, ListInv
<1>4. /\ order' \in Seq(Nodes) /\ Len(order') = Len(order) + 1
      /\ \A j \in 1..Len(order) : order'[j] = order[j]
      /\ order'[Len(order) + 1] = n
  BY <1>1 DEF ListInv, TypeOK
<1>5. n \in AllNodes /\ EndNode \in AllNodes /\ prev[EndNode] \in AllNodes
  <2>1. /\ Len(order) \in 0..Len(order) /\ Len(order) \in 0..(Len(order) + 1)
        /\ At(Len(order) + 1) = EndNode
    BY AtInjective DEF ListInv, At
  <2>2. prev[At(Len(order) + 1)] = At(Len(order))
    BY <2>1 DEF ListInv, WellLinked
  <2> QED
    BY <2>1, <2>2, AtInjective DEF ListInv, AllNodes
<1>6. TypeOK'
  BY <1>1, <1>4, <1>5 DEF Enqueue, LinkLast, ListInv, TypeOK
<1>7. NoDanglingNode'
  <2>1. n \notin held
    BY <1>1 DEF ListInv, TypeOK
  <2> QED
    BY <1>1, <1>4, <2>1 DEF Enqueue, ListInv, NoDanglingNode, TypeOK
<1>8. WalkInside'
  BY DEF Enqueue, Idle, WalkInside
<1> QED
  BY <1>3, <1>6, <1>7, <1>8 DEF ListInv

\* The steps that change no pointer.
LEMMA QuietStep ==
    ASSUME ListInv,
           \/ \E n \in Nodes : FreeNode(n)
           \/ \E i \in 0..(Cardinality(Nodes) - 1) : RandomDrop(i)
           \/ WalkStep
           \/ UNCHANGED queueVars
    PROVE  ListInv' /\ Contents' = Contents /\ returned' = returned
<1>1. UNCHANGED <<order, next, prev, waiting_queue_size, fd, returned>>
  BY DEF FreeNode, RandomDrop, WalkStep, queueVars
<1>2. WellLinked' /\ Contents' = Contents
  BY <1>1 DEF ListInv, WellLinked, At, Contents
<1>3. ASSUME NEW n \in Nodes, FreeNode(n) PROVE ListInv'
  <2>1. TypeOK' /\ NoDanglingNode'
    BY <1>3 DEF FreeNode, ListInv, TypeOK, NoDanglingNode
  <2>2. WalkInside'
    BY <1>3 DEF FreeNode, WalkInside, Idle
  <2> QED
    BY <1>2, <2>1, <2>2 DEF ListInv
<1>4. ASSUME NEW i \in 0..(Cardinality(Nodes) - 1), RandomDrop(i) PROVE ListInv'
  <2>1. i \in Nat /\ waiting_queue_size > 0 /\ waiting_queue_size = Len(order)
    BY <1>4 DEF RandomDrop, ListInv, TypeOK, WellLinked
  <2>2. 1 \in 1..Len(order) /\ cursor' = order[1] /\ order[1] \in Nodes
    BY <1>4, <2>1, FirstNode DEF RandomDrop, First, ListInv, TypeOK
  <2>3. TypeOK' /\ NoDanglingNode'
    BY <1>4, <2>1, <2>2 DEF RandomDrop, ListInv, TypeOK, NoDanglingNode
  <2>4. WalkInside'
    BY <1>4, <2>1, <2>2 DEF RandomDrop, WalkInside, ListInv, TypeOK
  <2> QED
    BY <1>2, <2>3, <2>4 DEF ListInv
<1>5. CASE WalkStep
  <2>1. PICK k \in 1..Len(order) : order[k] = cursor /\ k + left <= Len(order)
    BY <1>5, CursorPosition DEF WalkStep
  <2>2. /\ k + 1 \in 1..Len(order) /\ k \in 0..Len(order) /\ left - 1 \in Nat
        /\ At(k) = order[k] /\ At(k + 1) = order[k + 1] /\ order[k + 1] \in Nodes
    BY <1>5, <2>1, AtInjective DEF WalkStep, ListInv, TypeOK
  <2>3. next[cursor] = order[k + 1]
    BY <2>1, <2>2 DEF ListInv, WellLinked
  <2>4. TypeOK' /\ NoDanglingNode'
    BY <1>5, <2>2, <2>3 DEF WalkStep, ListInv, TypeOK, NoDanglingNode
  <2>5. WalkInside'
    BY <1>5, <2>1, <2>2, <2>3 DEF WalkStep, WalkInside, ListInv, TypeOK
  <2> QED
    BY <1>1, <1>2, <2>4, <2>5 DEF ListInv
<1>6. CASE UNCHANGED queueVars
  BY <1>2, <1>6 DEF queueVars, ListInv, TypeOK, NoDanglingNode, WalkInside, Idle
<1> QED
  BY <1>1, <1>2, <1>3, <1>4, <1>5, <1>6

\* createQueue makes a well-linked empty list (queue.c:21-37).
LEMMA InitListInv == QueueInit => ListInv
<1> SUFFICES ASSUME QueueInit PROVE ListInv
  OBVIOUS
<1>1. order = << >> /\ Len(order) = 0 /\ order \in Seq(Nodes)
  BY DEF QueueInit
<1>2. TypeOK
  BY <1>1 DEF QueueInit, TypeOK, AllNodes
<1>3. At(0) = HeadNode /\ At(0 + 1) = EndNode
  BY <1>1 DEF At
<1>4. WellLinked
  BY <1>1, <1>3, NodesAssumption DEF QueueInit, WellLinked, AllNodes
<1> QED
  BY <1>1, <1>2, <1>4 DEF QueueInit, ListInv, NoDanglingNode, WalkInside, Idle

\* In every reachable state the pointers, the counter and the heap agree, and
\* the walk of random_drop stays inside the list (queue.c:21-83).
THEOREM ListInvariant == QueueSpec => []ListInv
<1>1. ListInv /\ [QueueNext]_queueVars => ListInv'
  BY EnqueueStep, DequeueStep, DropCursorStep, QuietStep DEF QueueNext
<1> QED
  BY <1>1, InitListInv, PTL DEF QueueSpec

----------------------------------------------------------------------------
\* The list implements a first-in first-out queue (queue.c:46-83).
THEOREM ListImplementsFifo == QueueSpec => ImplementsFifo
<1>1. QueueInit => Fifo!FifoInit
  <2> SUFFICES ASSUME QueueInit PROVE Fifo!FifoInit
    OBVIOUS
  <2>1. Contents = << >>
    BY DEF QueueInit, Contents
  <2> QED
    BY <2>1 DEF QueueInit, Fifo!FifoInit
<1>2. ListInv /\ [QueueNext]_queueVars => [Fifo!FifoNext]_Fifo!fifoVars
  <2> SUFFICES ASSUME ListInv, [QueueNext]_queueVars
               PROVE  Fifo!FifoNext \/ UNCHANGED Fifo!fifoVars
    OBVIOUS
  <2>0. Len(order) \in Nat /\ \A i \in 1..Len(order) : order[i] \in Nodes
    BY DEF ListInv, TypeOK
  <2>1. /\ Contents \in Seq(Fds \cup {NoFd}) /\ Len(Contents) = Len(order)
        /\ \A i \in 1..Len(order) : Contents[i] = fd[order[i]]
    <3>1. Contents \in [1..Len(order) -> Fds \cup {NoFd}]
      BY <2>0 DEF Contents, ListInv, TypeOK, AllNodes
    <3> QED
      BY <3>1, <2>0 DEF Contents
  <2>2. ASSUME NEW f \in Fds, Enqueue(f) PROVE Fifo!FifoNext
    <3>1. PICK n \in Nodes \ allocated :
             fd' = [fd EXCEPT ![n] = f] /\ order' = Append(order, n)
      BY <2>2 DEF Enqueue
    <3>2. /\ Len(order') = Len(order) + 1 /\ order'[Len(order) + 1] = n
          /\ \A i \in 1..Len(order) : order'[i] = order[i] /\ order[i] # n
      BY <2>0, <3>1 DEF ListInv, NoDanglingNode, TypeOK
    <3>3. /\ \A i \in 1..Len(order) : fd'[order'[i]] = fd[order[i]]
          /\ fd'[order'[Len(order) + 1]] = f
      BY <2>0, <3>1, <3>2 DEF ListInv, TypeOK, AllNodes
    <3>4. Contents' = Append(Contents, f)
      BY <2>0, <2>1, <3>2, <3>3 DEF Contents
    <3> QED
      BY <2>2, <3>4 DEF Enqueue, Fifo!FifoNext, Fifo!Put
  <2>3. CASE Dequeue
    <3>1. 1 \in 1..Len(order) /\ next[HeadNode] = order[1]
      BY <2>3, FirstNode DEF Dequeue
    <3>2. /\ Len(order') = Len(order) - 1 /\ fd' = fd
          /\ \A i \in 1..(Len(order) - 1) : order'[i] = order[i + 1]
      BY <2>3, <2>0, <3>1 DEF Dequeue, ListInv, TypeOK
    <3>3. Contents # << >> /\ Head(Contents) = fd[order[1]]
      BY <2>1, <3>1
    <3>4. Contents' = Tail(Contents)
      BY <2>0, <2>1, <3>1, <3>2 DEF Contents
    <3> QED
      BY <2>3, <3>1, <3>3, <3>4 DEF Dequeue, Fifo!FifoNext, Fifo!Get
  <2>4. CASE DropCursor
    <3>1. PICK k \in 1..Len(order) :
             order[k] = cursor /\ order' = Without(order, k)
      BY <2>4, CursorPosition DEF DropCursor
    <3>2. /\ Len(order') = Len(order) - 1 /\ fd' = fd
          /\ \A j \in 1..(Len(order) - 1) :
                order'[j] = IF j < k THEN order[j] ELSE order[j + 1]
      BY <2>4, <3>1, WithoutType DEF DropCursor, ListInv, TypeOK
    <3>3. Contents' = [j \in 1..(Len(Contents) - 1) |->
                          IF j < k THEN Contents[j] ELSE Contents[j + 1]]
      BY <2>0, <2>1, <3>2 DEF Contents
    <3>4. k \in 1..Len(Contents) /\ returned' = Contents[k]
      BY <2>1, <2>4, <3>1 DEF DropCursor
    <3> QED
      BY <3>3, <3>4 DEF Fifo!FifoNext, Fifo!Drop
  <2>5. CASE \/ \E n \in Nodes : FreeNode(n)
             \/ \E i \in 0..(Cardinality(Nodes) - 1) : RandomDrop(i)
             \/ WalkStep
             \/ UNCHANGED queueVars
    BY <2>5, QuietStep DEF Fifo!fifoVars
  <2> QED
    BY <2>2, <2>3, <2>4, <2>5 DEF QueueNext
<1> QED
  BY <1>1, <1>2, ListInvariant, PTL DEF QueueSpec, ImplementsFifo, Fifo!FifoSpec

----------------------------------------------------------------------------
(***************************************************************************)
(* Proofs about the robust I/O package, for every size of its buffer, of   *)
(* the callers' buffers and of the streams: the internal buffer holds the  *)
(* next bytes of the stream, and the package implements the byte stream.   *)
(***************************************************************************)
TypeInv ==
    /\ in \in Seq(Bytes) /\ closed \in BOOLEAN /\ kpos \in 0..Len(in)
    /\ buffered \in BOOLEAN
    /\ rio_cnt \in -1..RIO_BUFSIZE /\ rio_bufptr \in Nat \ {0}
    /\ rio_buf \in [1..RIO_BUFSIZE -> Bytes \cup {Unset}]
    /\ op \in {"none", "line", "readnb", "readn", "writen"} /\ size \in Nat
    /\ data \in Seq(Bytes) /\ nleft \in 0..Len(data)
    /\ taken \in Nat /\ usrbuf \in Seq(Bytes) /\ block \in Seq(Bytes) /\ ret \in Int
    /\ out \in Seq(Bytes) /\ alive \in BOOLEAN

\* What the call under way has established: which descriptor it reads, how far it is,
\* that a line has no newline yet and that a message is written from its start.
CallInv ==
    /\ op = "none" => data = << >>
    /\ op # "none" => alive
    /\ op \in {"line", "readnb"} => buffered
    /\ op = "readn" => ~buffered
    /\ ~buffered => rio_cnt = 0
    /\ op = "line" => /\ size \in LineSizes /\ Len(data) + 1 <= size
                      /\ \A i \in 1..Len(data) : data[i] # Newline
    /\ op \in {"readnb", "readn"} => size \in BlockSizes /\ Len(data) <= size
    /\ op = "writen" =>
          /\ data \in Messages /\ size = Len(data) /\ Len(out) >= Len(data) - nleft
          /\ \A i \in 1..(Len(data) - nleft) :
                out[Len(out) - (Len(data) - nleft) + i] = data[i]

RioInv == TypeInv /\ CallInv /\ BufferHoldsNext

\* The numbers of the invariant: a position that is still to be consumed is one of the
\* stream, as far as the kernel has handed it over.
LEMMA Bounds ==
    ASSUME RioInv
    PROVE  /\ Len(in) \in Nat /\ Len(data) \in Nat /\ Len(out) \in Nat
           /\ RIO_BUFSIZE \in Nat \ {0} /\ rio_cnt \in Int /\ kpos \in Nat /\ kpos <= Len(in)
           /\ taken \in Nat /\ Consumed \in Nat
           /\ op # "writen" => Consumed = taken + Len(data)
           /\ op \in {"none", "writen"} => Consumed = taken
           /\ alive => Consumed <= kpos /\ Consumed + rio_cnt <= kpos
           /\ alive /\ rio_cnt <= 0 => Consumed = kpos
           /\ alive /\ rio_cnt > 0 => Consumed + rio_cnt = kpos
<1>1. /\ Len(in) \in Nat /\ Len(data) \in Nat /\ Len(out) \in Nat /\ Len(<< >>) = 0
      /\ taken \in Nat
  BY LenProperties, EmptySeq DEF RioInv, TypeInv
<1>2. /\ RIO_BUFSIZE \in Nat \ {0} /\ rio_cnt \in Int /\ kpos \in Nat /\ kpos <= Len(in)
  BY <1>1, SizesAssumption DEF RioInv, TypeInv
<1>3. /\ Consumed \in Nat
      /\ op # "writen" => Consumed = taken + Len(data)
      /\ op \in {"none", "writen"} => Consumed = taken
  BY <1>1 DEF Consumed, RioInv, CallInv
<1>4. alive => Consumed + (IF rio_cnt > 0 THEN rio_cnt ELSE 0) = kpos
  BY DEF RioInv, BufferHoldsNext
<1> HIDE DEF Consumed
<1> QED
  BY <1>1, <1>2, <1>3, <1>4

\* Initially nothing was sent, read or written.
LEMMA RioInit == Init => RioInv
<1> SUFFICES ASSUME Init PROVE RioInv
  OBVIOUS
<1> USE DEF Init, rio_readinitb
<1>1. TypeInv
  <2>1. /\ << >> \in Seq(Bytes) /\ Len(<< >>) = 0
    BY EmptySeq
  <2>2. /\ kpos \in 0..0 /\ rio_cnt \in -1..RIO_BUFSIZE /\ rio_bufptr \in Nat \ {0}
        /\ size \in Nat /\ nleft \in 0..0 /\ taken \in Nat /\ ret \in Int
    BY SizesAssumption
  <2>3. rio_buf \in [1..RIO_BUFSIZE -> Bytes \cup {Unset}]
    OBVIOUS
  <2> QED
    BY <2>1, <2>2, <2>3 DEF TypeInv
<1>2. CallInv
  BY DEF CallInv
<1>3. BufferHoldsNext
  BY SizesAssumption DEF BufferHoldsNext, Consumed
<1> QED
  BY <1>1, <1>2, <1>3 DEF RioInv

\* The steps of the client keep the invariant: it only adds to the stream.
LEMMA ClientSteps ==
    ASSUME RioInv, (\E b \in Bytes : Send(b)) \/ Close
    PROVE  RioInv'
<1> USE DEF RioInv
<1>1. /\ UNCHANGED <<kpos, buffered, rio, op, size, data, nleft, results, out>>
      /\ in' \in Seq(Bytes) /\ Len(in') >= Len(in)
      /\ \A i \in 1..Len(in) : in'[i] = in[i]
      /\ closed' \in BOOLEAN
  <2>1. CASE Close
    BY <2>1, Bounds DEF Close, TypeInv
  <2>2. ASSUME NEW b \in Bytes, Send(b)
        PROVE  /\ in' = Append(in, b) /\ closed' = closed
               /\ UNCHANGED <<kpos, buffered, rio, op, size, data, nleft, results, out>>
    BY <2>2 DEF Send
  <2>3. ASSUME NEW b \in Bytes
        PROVE  /\ Append(in, b) \in Seq(Bytes) /\ Len(Append(in, b)) >= Len(in)
               /\ \A i \in 1..Len(in) : Append(in, b)[i] = in[i]
    BY AppendProperties, Bounds DEF TypeInv
  <2>4. closed \in BOOLEAN
    BY DEF TypeInv
  <2> QED
    BY <2>1, <2>2, <2>3, <2>4
<1>2. TypeInv'
  BY <1>1 DEF TypeInv, rio, results
<1>3. CallInv'
  BY <1>1 DEF CallInv, rio, results
<1>4. BufferHoldsNext'
  <2>1. UNCHANGED <<Consumed, kpos, rio_cnt, rio_bufptr, rio_buf, op, data, taken, alive>>
    BY <1>1 DEF Consumed, rio, results
  <2>2. alive => \A i \in 1..rio_cnt : Consumed + i \in 1..Len(in)
    BY Bounds
  <2>3. op \in {"line", "readnb", "readn"} => \A i \in 1..Len(data) : taken + i \in 1..Len(in)
    BY Bounds DEF CallInv
  <2> QED
    BY <1>1, <2>1, <2>2, <2>3 DEF BufferHoldsNext
<1> QED
  BY <1>2, <1>3, <1>4

\* The bytes read by the call under way are those of the stream.
DataFromStream ==
    op \in {"line", "readnb", "readn"} => \A i \in 1..Len(data) : data[i] = in[taken + i]

\* A step that leaves the buffer alone and consumes nothing, or ends the process.
LEMMA BufferKept ==
    ASSUME RioInv, UNCHANGED <<in, kpos, rio_bufptr, rio_buf>>, DataFromStream',
           rio_cnt' = rio_cnt \/ (rio_cnt' \in {-1, 0} /\ rio_cnt <= 0),
           alive' => alive /\ Consumed' = Consumed
    PROVE  BufferHoldsNext'
<1> USE DEF RioInv
<1>1. rio_cnt' \in -1..RIO_BUFSIZE
  BY Bounds DEF BufferHoldsNext
<1>2. CASE rio_cnt' = rio_cnt
  BY <1>2 DEF BufferHoldsNext, DataFromStream
<1>3. CASE rio_cnt' \in {-1, 0} /\ rio_cnt <= 0
  <2>1. ~(rio_cnt' > 0) /\ 1..rio_cnt' = {}
    BY <1>3
  <2>2. alive' => Consumed' + 0 = kpos'
    BY <1>3, Bounds
  <2> QED
    BY <1>1, <2>1, <2>2 DEF BufferHoldsNext, DataFromStream
<1> QED
  BY <1>2, <1>3

\* A step that consumes k bytes of the buffer.
LEMMA BufferConsumed ==
    ASSUME RioInv, UNCHANGED <<in, kpos, alive>>, DataFromStream', alive,
           NEW k \in 1..rio_cnt, Consume(k), Consumed' = Consumed + k
    PROVE  BufferHoldsNext'
<1> USE DEF RioInv
<1>1. /\ rio_cnt' = rio_cnt - k /\ rio_bufptr' = rio_bufptr + k /\ rio_buf' = rio_buf
      /\ rio_cnt \in Int /\ k \in Nat /\ k >= 1 /\ k <= rio_cnt
      /\ rio_bufptr \in 1..RIO_BUFSIZE /\ rio_bufptr + rio_cnt - 1 <= RIO_BUFSIZE
      /\ rio_cnt <= RIO_BUFSIZE /\ RIO_BUFSIZE \in Nat /\ Consumed \in Nat
  BY Bounds DEF Consume, BufferHoldsNext
<1>2. rio_cnt' \in -1..RIO_BUFSIZE
  BY <1>1
<1>3. rio_cnt' > 0 => /\ rio_bufptr' \in 1..RIO_BUFSIZE
                      /\ rio_bufptr' + rio_cnt' - 1 <= RIO_BUFSIZE
  BY <1>1
<1>4. Consumed' + (IF rio_cnt' > 0 THEN rio_cnt' ELSE 0) = kpos'
  BY <1>1, Bounds
<1>5. ASSUME NEW i \in 1..rio_cnt' PROVE rio_buf'[rio_bufptr' + i - 1] = in'[Consumed' + i]
  <2>1. k + i \in 1..rio_cnt
    BY <1>1
  <2>2. rio_buf[rio_bufptr + (k + i) - 1] = in[Consumed + (k + i)]
    BY <2>1 DEF BufferHoldsNext
  <2>3. rio_bufptr' + i - 1 = rio_bufptr + (k + i) - 1 /\ Consumed' + i = Consumed + (k + i)
    BY <1>1
  <2> QED
    BY <1>1, <2>2, <2>3
<1> QED
  BY <1>2, <1>3, <1>4, <1>5 DEF BufferHoldsNext, DataFromStream

\* A call starts with nothing read.
LEMMA CallSteps ==
    ASSUME RioInv, Calls
    PROVE  RioInv'
<1> USE DEF RioInv
<1>1. ASSUME NEW o, NEW n, NEW b, Call(o, n, b)
      PROVE  /\ alive /\ op = "none" /\ op' = o /\ size' = n /\ data' = b /\ nleft' = Len(b)
             /\ UNCHANGED <<in, closed, kpos, buffered, rio_cnt, rio_bufptr, rio_buf,
                            taken, usrbuf, block, ret, out, alive>>
  BY <1>1 DEF Call, client, rio, results
<1>2. << >> \in Seq(Bytes) /\ Len(<< >>) = 0
  BY EmptySeq
<1>3. ASSUME NEW o \in {"line", "readnb", "readn"}, NEW n \in Nat, Call(o, n, << >>),
             o \in {"line", "readnb"} => buffered, o = "readn" => ~buffered,
             o = "line" => n \in LineSizes /\ n >= 1,
             o \in {"readnb", "readn"} => n \in BlockSizes
      PROVE  RioInv'
  <2>1. /\ alive /\ op = "none" /\ op' = o /\ size' = n /\ data' = << >> /\ nleft' = 0
        /\ UNCHANGED <<in, closed, kpos, buffered, rio_cnt, rio_bufptr, rio_buf,
                       taken, usrbuf, block, ret, out, alive>>
    BY <1>1, <1>2, <1>3
  <2>2. TypeInv'
    BY <1>2, <1>3, <2>1 DEF TypeInv
  <2>3. CallInv'
    BY <1>2, <1>3, <2>1 DEF CallInv
  <2>4. DataFromStream' /\ Consumed' = Consumed
    BY <1>2, <1>3, <2>1, Bounds DEF DataFromStream, Consumed, CallInv
  <2>5. BufferHoldsNext'
    <3>1. /\ UNCHANGED <<in, kpos, rio_bufptr, rio_buf>> /\ rio_cnt' = rio_cnt
          /\ alive' => alive /\ Consumed' = Consumed
      BY <2>1, <2>4
    <3> QED
      BY <2>4, <3>1, BufferKept
  <2> QED
    BY <2>2, <2>3, <2>5
<1>4. ASSUME NEW m \in LineSizes, CallLine(m) PROVE RioInv'
  BY <1>3, <1>4, SizesAssumption DEF CallLine
<1>5. ASSUME NEW n \in BlockSizes, CallReadnb(n) \/ CallReadn(n) PROVE RioInv'
  BY <1>3, <1>5, SizesAssumption DEF CallReadnb, CallReadn
<1>6. ASSUME NEW message \in Messages, CallWriten(message) PROVE RioInv'
  <2>1. /\ alive /\ op = "none" /\ op' = "writen" /\ size' = Len(message)
        /\ data' = message /\ nleft' = Len(message)
        /\ UNCHANGED <<in, closed, kpos, buffered, rio_cnt, rio_bufptr, rio_buf,
                       taken, usrbuf, block, ret, out, alive>>
    BY <1>1, <1>6 DEF CallWriten
  <2>2. message \in Seq(Bytes) /\ Len(message) \in Nat
    BY BytesAssumption, LenProperties
  <2>3. TypeInv'
    BY <2>1, <2>2 DEF TypeInv
  <2>4. CallInv'
    <3>1. Len(data') - nleft' = 0
      BY <2>1, <2>2
    <3> QED
      BY <2>1, <2>2, <3>1, Bounds DEF CallInv
  <2>5. DataFromStream' /\ Consumed' = Consumed
    BY <2>1, Bounds DEF DataFromStream, Consumed
  <2>6. BufferHoldsNext'
    <3>1. /\ UNCHANGED <<in, kpos, rio_bufptr, rio_buf>> /\ rio_cnt' = rio_cnt
          /\ alive' => alive /\ Consumed' = Consumed
      BY <2>1, <2>5
    <3> QED
      BY <2>5, <3>1, BufferKept
  <2> QED
    BY <2>3, <2>4, <2>6
<1> QED
  BY <1>4, <1>5, <1>6 DEF Calls

\* While a call wants more bytes it is alive and reads through the rio_t.
LEMMA WantsFacts ==
    ASSUME RioInv, Wants
    PROVE  /\ op \in {"line", "readnb"} /\ alive /\ buffered
           /\ op = "line" => Len(data) + 1 < size
           /\ op = "readnb" => Len(data) < size
  BY DEF RioInv, CallInv, Wants

\* Refilling the buffer: read gave some bytes, was interrupted, failed, or found the end.
LEMMA RefillSteps ==
    ASSUME RioInv, ReadSome \/ ReadInterrupted \/ ReadFails
    PROVE  RioInv'
<1> USE DEF RioInv
<1>0. /\ Wants /\ rio_cnt <= 0 /\ op \in {"line", "readnb"} /\ alive /\ buffered
      /\ Consumed = kpos
  BY WantsFacts, Bounds DEF ReadSome, ReadInterrupted, ReadFails, Refilling
<1>1. ASSUME ReadSome PROVE RioInv'
  <2>1. PICK k \in 1..Min({RIO_BUFSIZE, Len(in) - kpos}) : Fill(k) /\ kpos' = kpos + k
    BY <1>1 DEF ReadSome
  <2>2. /\ k \in Nat /\ k >= 1 /\ k <= RIO_BUFSIZE /\ k <= Len(in) - kpos
    <3>1. RIO_BUFSIZE \in Int /\ Len(in) - kpos \in Int
      BY Bounds
    <3> QED
      BY <3>1, MinOfTwo
  <2>3. UNCHANGED <<in, closed, buffered, op, size, data, nleft, taken, usrbuf, block, ret,
                    out, alive>>
    BY <1>1 DEF ReadSome, Continue, client, results
  <2>4. /\ rio_cnt' = k /\ rio_bufptr' = 1
        /\ rio_buf' = [i \in 1..RIO_BUFSIZE |-> IF i <= k THEN in[kpos + i] ELSE rio_buf[i]]
    BY <2>1 DEF Fill
  <2>5. rio_buf' \in [1..RIO_BUFSIZE -> Bytes \cup {Unset}]
    <3>1. ASSUME NEW i \in 1..RIO_BUFSIZE
          PROVE  (IF i <= k THEN in[kpos + i] ELSE rio_buf[i]) \in Bytes \cup {Unset}
      <4>1. CASE i <= k
        <5>1. kpos + i \in 1..Len(in)
          BY <2>2, <4>1, Bounds
        <5> QED
          BY <4>1, <5>1, ElementOfSeq DEF TypeInv
      <4>2. CASE ~(i <= k)
        BY <4>2 DEF TypeInv
      <4> QED
        BY <4>1, <4>2
    <3> QED
      BY <2>4, <3>1
  <2>6. TypeInv'
    BY <2>1, <2>2, <2>3, <2>4, <2>5, Bounds DEF TypeInv
  <2>7. CallInv'
    BY <1>0, <2>3, <2>4 DEF CallInv
  <2>8. BufferHoldsNext'
    <3>1. Consumed' = kpos
      BY <1>0, <2>3 DEF Consumed
    <3>2. rio_cnt' \in -1..RIO_BUFSIZE /\ rio_bufptr' \in 1..RIO_BUFSIZE
             /\ rio_bufptr' + rio_cnt' - 1 <= RIO_BUFSIZE
      BY <2>2, <2>4, Bounds
    <3>3. Consumed' + (IF rio_cnt' > 0 THEN rio_cnt' ELSE 0) = kpos'
      BY <2>1, <2>2, <2>4, <3>1, Bounds
    <3>4. ASSUME NEW i \in 1..rio_cnt' PROVE rio_buf'[rio_bufptr' + i - 1] = in'[Consumed' + i]
      <4>1. i \in 1..RIO_BUFSIZE /\ i <= k /\ rio_bufptr' + i - 1 = i
        BY <2>2, <2>4, Bounds
      <4> QED
        BY <2>3, <2>4, <3>1, <4>1
    <3>5. DataFromStream'
      BY <2>3 DEF DataFromStream, BufferHoldsNext
    <3> QED
      BY <3>2, <3>3, <3>4, <3>5 DEF BufferHoldsNext, DataFromStream
  <2> QED
    BY <2>6, <2>7, <2>8
<1>2. ASSUME ReadInterrupted PROVE RioInv'
  <2>1. /\ rio_cnt' = -1
        /\ UNCHANGED <<in, closed, kpos, buffered, rio_bufptr, rio_buf, op, size, data, nleft,
                       taken, usrbuf, block, ret, out, alive>>
    BY <1>2 DEF ReadInterrupted, Continue, client, results
  <2>2. TypeInv' /\ CallInv'
    BY <1>0, <2>1, Bounds DEF TypeInv, CallInv
  <2>3. DataFromStream' /\ Consumed' = Consumed
    BY <2>1 DEF DataFromStream, Consumed, BufferHoldsNext
  <2>4. BufferHoldsNext'
    BY <1>0, <2>1, <2>3, BufferKept
  <2> QED
    BY <2>2, <2>4
<1>3. ASSUME ReadFails PROVE RioInv'
  <2>1. /\ rio_cnt' = -1 /\ alive' = FALSE /\ ret' = -1
        /\ op' = "none" /\ size' = 0 /\ data' = << >> /\ nleft' = 0
        /\ UNCHANGED <<in, closed, kpos, buffered, rio_bufptr, rio_buf,
                       taken, usrbuf, block, out>>
    BY <1>3 DEF ReadFails, unix_error, Done, client
  <2>2. << >> \in Seq(Bytes) /\ Len(<< >>) = 0
    BY EmptySeq
  <2>3. TypeInv'
    <3>1. /\ rio_cnt' \in -1..RIO_BUFSIZE /\ ret' \in Int
          /\ size' \in Nat /\ nleft' \in 0..Len(data') /\ data' \in Seq(Bytes)
      BY <2>1, <2>2, Bounds
    <3>2. alive' \in BOOLEAN
      BY <2>1
    <3> QED
      BY <2>1, <3>1, <3>2 DEF TypeInv
  <2>4. CallInv'
    BY <1>0, <2>1 DEF CallInv
  <2>5. DataFromStream'
    BY <2>1 DEF DataFromStream
  <2>6. BufferHoldsNext'
    BY <1>0, <2>1, <2>5, BufferKept
  <2> QED
    BY <2>3, <2>4, <2>6
<1> QED
  BY <1>1, <1>2, <1>3

\* A reading call returns what it has read, and takes nothing more.
LEMMA ReturnSteps ==
    ASSUME RioInv, ReadEnds \/ FillsBuffer \/ ReturnDirectly
    PROVE  RioInv'
<1> USE DEF RioInv
<1>1. /\ op \in {"line", "readnb", "readn"} /\ alive
      /\ ReadEnds => rio_cnt <= 0 /\ buffered /\ rio_cnt' = 0
      /\ ~ReadEnds => rio_cnt' = rio_cnt
  BY WantsFacts DEF ReadEnds, FillsBuffer, ReturnDirectly, Refilling, CallInv, rio
<1>2. /\ op' = "none" /\ size' = 0 /\ data' = << >> /\ nleft' = 0
      /\ UNCHANGED <<in, closed, kpos, buffered, rio_bufptr, rio_buf, out, alive>>
  BY DEF ReadEnds, EndOfStream, FillsBuffer, ReturnDirectly, ReturnLine, ReturnBlock, Done,
         client, rio
<1>3. /\ taken' = taken + Len(data) /\ usrbuf' \in {usrbuf, data} /\ block' \in {block, data}
      /\ ret' \in {0, Len(data), Len(data) + 1, size}
  BY DEF ReadEnds, EndOfStream, FillsBuffer, ReturnDirectly, ReturnLine, ReturnBlock
<1>4. << >> \in Seq(Bytes) /\ Len(<< >>) = 0
  BY EmptySeq
<1>5. TypeInv'
  <2>1. taken' \in Nat /\ ret' \in Int
    BY <1>3, Bounds DEF TypeInv
  <2>2. rio_cnt' \in -1..RIO_BUFSIZE
    BY <1>1, Bounds DEF TypeInv
  <2> QED
    BY <1>2, <1>3, <1>4, <2>1, <2>2 DEF TypeInv
<1>6. CallInv'
  BY <1>1, <1>2 DEF CallInv
<1>7. DataFromStream' /\ Consumed' = Consumed
  BY <1>1, <1>2, <1>3, <1>4, Bounds DEF DataFromStream, Consumed
<1>8. BufferHoldsNext'
  BY <1>1, <1>2, <1>7, BufferKept
<1> QED
  BY <1>5, <1>6, <1>8

\* Copying out of the buffer: the bytes are the next ones of the stream.
LEMMA CopySteps ==
    ASSUME RioInv, CopyByte \/ CopyBlock
    PROVE  RioInv'
<1> USE DEF RioInv
<1>0. /\ Wants /\ rio_cnt > 0 /\ op \in {"line", "readnb"} /\ alive /\ buffered
      /\ op = "line" => Len(data) + 1 < size
      /\ op = "readnb" => Len(data) < size
      /\ Consumed = taken + Len(data) /\ Consumed + rio_cnt = kpos
  BY WantsFacts, Bounds DEF CopyByte, CopyBlock, Copying
<1>1. /\ rio_bufptr \in 1..RIO_BUFSIZE /\ rio_bufptr + rio_cnt - 1 <= RIO_BUFSIZE
      /\ \A i \in 1..rio_cnt : rio_buf[rio_bufptr + i - 1] = in[Consumed + i]
      /\ \A i \in 1..Len(data) : data[i] = in[taken + i]
  BY <1>0 DEF BufferHoldsNext
<1>2. \A i \in 1..rio_cnt : Consumed + i \in 1..Len(in) /\ in[Consumed + i] \in Bytes
  <2>1. \A i \in 1..rio_cnt : Consumed + i \in 1..Len(in)
    <3>1. /\ Consumed \in Nat /\ rio_cnt \in Int /\ Len(in) \in Nat
          /\ Consumed + rio_cnt <= Len(in)
      BY <1>0, Bounds
    <3> QED
      BY <3>1
  <2> QED
    BY <2>1, ElementOfSeq DEF TypeInv
<1>3. ASSUME CopyByte PROVE RioInv'
  <2> DEFINE b == rio_buf[rio_bufptr]
             line == Append(data, b)
  <2>1. b = in[Consumed + 1] /\ b \in Bytes
    <3>1. 1 \in 1..rio_cnt /\ rio_bufptr + 1 - 1 = rio_bufptr
      BY <1>0, <1>1, Bounds
    <3> QED
      BY <1>1, <1>2, <3>1
  <2>2. /\ line \in Seq(Bytes) /\ Len(line) = Len(data) + 1
        /\ \A i \in 1..Len(data) : line[i] = data[i]
        /\ line[Len(data) + 1] = b
    BY <2>1, AppendProperties DEF TypeInv
  <2>3. /\ Consume(1) /\ op = "line"
        /\ UNCHANGED <<in, closed, kpos, buffered, out, rio_buf, alive, block>>
        /\ rio_bufptr' = rio_bufptr + 1 /\ rio_cnt' = rio_cnt - 1
    BY <1>3 DEF CopyByte, Consume, ReturnLine, Continue, client, results
  <2>4. CASE b = Newline
    <3>1. /\ taken' = taken + Len(line) /\ usrbuf' = line /\ ret' = Len(line)
          /\ op' = "none" /\ size' = 0 /\ data' = << >> /\ nleft' = 0
      BY <1>3, <2>4 DEF CopyByte, ReturnLine, Done
    <3>2. << >> \in Seq(Bytes) /\ Len(<< >>) = 0
      BY EmptySeq
    <3>3. TypeInv'
      <4>1. /\ taken' \in Nat /\ ret' \in Int /\ nleft' \in 0..Len(data') /\ data' \in Seq(Bytes)
            /\ rio_bufptr' \in Nat \ {0} /\ rio_cnt' \in -1..RIO_BUFSIZE /\ usrbuf' \in Seq(Bytes)
        BY <1>0, <2>2, <2>3, <3>1, <3>2, Bounds, SMTT(30) DEF TypeInv
      <4> QED
        BY <2>3, <3>1, <4>1 DEF TypeInv
    <3>4. CallInv'
      BY <1>0, <2>3, <3>1 DEF CallInv
    <3>5. DataFromStream' /\ Consumed' = Consumed + 1
      BY <1>0, <2>2, <3>1, <3>2, Bounds DEF DataFromStream, Consumed
    <3>6. BufferHoldsNext'
      <4>1. 1 \in 1..rio_cnt
        BY <1>0, Bounds
      <4> QED
        BY <1>0, <2>3, <3>5, <4>1, BufferConsumed
    <3> QED
      BY <3>3, <3>4, <3>6
  <2>5. CASE b # Newline
    <3>1. data' = line /\ UNCHANGED <<op, size, taken, usrbuf, ret, nleft>>
      BY <1>3, <2>5 DEF CopyByte, Continue, results
    <3> HIDE DEF line, b
    <3>2. TypeInv'
      <4>1. nleft' \in 0..Len(data') /\ data' \in Seq(Bytes)
        BY <2>2, <3>1, Bounds DEF TypeInv
      <4>2. rio_bufptr' \in Nat \ {0} /\ rio_cnt' \in -1..RIO_BUFSIZE
        BY <1>0, <2>3, Bounds DEF TypeInv
      <4> QED
        BY <2>3, <3>1, <4>1, <4>2 DEF TypeInv
    <3>3. CallInv'
      <4>1. Len(data') + 1 <= size'
        BY <1>0, <2>2, <2>3, <3>1, Bounds DEF TypeInv
      <4>2. \A i \in 1..Len(data') : data'[i] # Newline
        <5>1. \A i \in 1..Len(data') : i \in 1..Len(data) \/ i = Len(data) + 1
          BY <2>2, <3>1, Bounds
        <5>2. \A i \in 1..Len(data) : data[i] # Newline
          BY <2>3 DEF CallInv
        <5> QED
          BY <2>2, <2>5, <3>1, <5>1, <5>2
      <4> QED
        BY <1>0, <2>3, <3>1, <4>1, <4>2 DEF CallInv
    <3>4. Consumed' = Consumed + 1
      BY <1>0, <2>2, <2>3, <3>1, Bounds, SMTT(30) DEF Consumed
    <3>5. DataFromStream'
      <4>1. \A i \in 1..Len(data') : i \in 1..Len(data) \/ i = Len(data) + 1
        BY <2>2, <3>1, Bounds
      <4>2. line[Len(data) + 1] = in[taken + (Len(data) + 1)]
        <5>1. Consumed + 1 = taken + (Len(data) + 1)
          BY <1>0, Bounds
        <5> QED
          BY <2>1, <2>2, <5>1
      <4>3. \A i \in 1..Len(data') : data'[i] = in[taken + i]
        BY <1>1, <2>2, <3>1, <4>1, <4>2
      <4> QED
        BY <2>3, <3>1, <4>3 DEF DataFromStream
    <3>6. BufferHoldsNext'
      <4>1. 1 \in 1..rio_cnt
        BY <1>0, Bounds
      <4> QED
        BY <1>0, <2>3, <3>4, <3>5, <4>1, BufferConsumed
    <3> QED
      BY <3>2, <3>3, <3>6
  <2> QED
    BY <2>4, <2>5
<1>4. ASSUME CopyBlock PROVE RioInv'
  <2> DEFINE k == CopyCount(size - Len(data))
             piece == SubSeq(rio_buf, rio_bufptr, rio_bufptr + k - 1)
  <2>1. k \in 1..rio_cnt /\ k <= size - Len(data) /\ op = "readnb"
    <3>1. size - Len(data) \in Int /\ rio_cnt \in Int /\ size - Len(data) > 0 /\ op = "readnb"
      BY <1>0, <1>4, Bounds DEF TypeInv, CopyBlock
    <3> QED
      BY <1>0, <3>1, MinOfTwo DEF CopyCount
  <2>2. /\ Consume(k) /\ data' = data \o piece
        /\ UNCHANGED <<op, size, taken, usrbuf, block, ret, alive, in, closed, kpos, buffered,
                       nleft, out>>
        /\ rio_bufptr' = rio_bufptr + k /\ rio_cnt' = rio_cnt - k /\ rio_buf' = rio_buf
    BY <1>4 DEF CopyBlock, Consume, Continue, client, results
  <2> HIDE DEF k
  <2>3. \A j \in rio_bufptr..(rio_bufptr + k - 1) : rio_buf[j] \in Bytes
    <3> SUFFICES ASSUME NEW j \in rio_bufptr..(rio_bufptr + k - 1) PROVE rio_buf[j] \in Bytes
      OBVIOUS
    <3>1. (j - rio_bufptr + 1) \in 1..rio_cnt /\ rio_bufptr + (j - rio_bufptr + 1) - 1 = j
      BY <1>0, <1>1, <2>1, Bounds
    <3> QED
      BY <1>1, <1>2, <3>1
  <2>4. /\ piece \in Seq(Bytes) /\ Len(piece) = k
        /\ \A i \in 1..k : piece[i] = rio_buf[rio_bufptr + i - 1]
    <3>1. /\ rio_bufptr \in Int /\ rio_bufptr + k - 1 \in Int /\ k \in Nat /\ k >= 1
          /\ rio_bufptr <= rio_bufptr + k - 1
          /\ (rio_bufptr + k - 1) - rio_bufptr + 1 = k
      BY <1>1, <2>1, Bounds
    <3> QED
      BY <2>3, <3>1, SubSeqProperties
  <2> HIDE DEF piece
  <2>5. /\ data' \in Seq(Bytes) /\ Len(data') = Len(data) + k
        /\ \A i \in 1..(Len(data) + k) :
              data'[i] = IF i <= Len(data) THEN data[i] ELSE piece[i - Len(data)]
    <3>1. data \in Seq(Bytes)
      BY DEF TypeInv
    <3>2. /\ data \o piece \in Seq(Bytes) /\ Len(data \o piece) = Len(data) + Len(piece)
          /\ \A i \in 1..(Len(data) + Len(piece)) :
                (data \o piece)[i]
                   = IF i <= Len(data) THEN data[i] ELSE piece[i - Len(data)]
      BY <2>4, <3>1, ConcatProperties
    <3>3. data' = data \o piece /\ Len(piece) = k
      BY <2>2, <2>4
    <3> HIDE DEF k
    <3> QED
      BY <3>2, <3>3
  <2>6. TypeInv'
    <3>1. /\ nleft' \in 0..Len(data') /\ rio_bufptr' \in Nat \ {0}
          /\ rio_cnt' \in -1..RIO_BUFSIZE
      BY <1>0, <2>1, <2>2, <2>5, Bounds, SMTT(30) DEF TypeInv
    <3> QED
      BY <2>2, <2>5, <3>1 DEF TypeInv
  <2>7. CallInv'
    <3>1. Len(data') <= size'
      BY <2>1, <2>2, <2>5, Bounds DEF TypeInv
    <3> QED
      BY <1>0, <2>1, <2>2, <3>1 DEF CallInv
  <2>8. Consumed' = Consumed + k
    BY <1>0, <2>1, <2>2, <2>5, Bounds, SMTT(30) DEF Consumed
  <2>9. DataFromStream'
    <3>1. ASSUME NEW i \in 1..Len(data') PROVE data'[i] = in'[taken' + i]
      <4>1. CASE i <= Len(data)
        <5>1. i \in 1..Len(data) /\ i \in 1..(Len(data) + k)
          BY <2>5, <4>1, Bounds
        <5>2. data'[i] = data[i]
          BY <2>5, <4>1, <5>1
        <5>3. data[i] = in[taken + i]
          BY <1>1, <5>1
        <5> QED
          BY <2>2, <5>2, <5>3
      <4>2. CASE ~(i <= Len(data))
        <5>1. /\ i - Len(data) \in 1..k /\ i - Len(data) \in 1..rio_cnt
              /\ i \in 1..(Len(data) + k)
              /\ Consumed + (i - Len(data)) = taken + i
          BY <1>0, <2>1, <2>5, <4>2, Bounds, SMTT(30)
        <5>2. data'[i] = piece[i - Len(data)]
          BY <2>5, <4>2, <5>1
        <5>3. piece[i - Len(data)] = in[Consumed + (i - Len(data))]
          BY <1>1, <2>4, <5>1
        <5> QED
          BY <2>2, <5>1, <5>2, <5>3
      <4> QED
        BY <4>1, <4>2
    <3> QED
      BY <3>1 DEF DataFromStream
  <2>10. BufferHoldsNext'
    BY <1>0, <2>1, <2>2, <2>8, <2>9, BufferConsumed
  <2> QED
    BY <2>6, <2>7, <2>10
<1> QED
  BY <1>3, <1>4

\* rio_readn reads the next bytes of the stream, or fails.
LEMMA DirectSteps ==
    ASSUME RioInv, ReadDirectly \/ ReadDirectlyFails \/ WriteFails
    PROVE  RioInv'
<1> USE DEF RioInv
<1>1. ASSUME ReadDirectly PROVE RioInv'
  <2>0. /\ op = "readn" /\ Len(data) < size /\ alive /\ ~buffered /\ rio_cnt = 0
        /\ Consumed = taken + Len(data) /\ Consumed = kpos
    BY <1>1, Bounds DEF ReadDirectly, CallInv
  <2>1. PICK k \in 1..Min({size - Len(data), Len(in) - kpos}) :
           data' = data \o SubSeq(in, kpos + 1, kpos + k) /\ kpos' = kpos + k
    BY <1>1 DEF ReadDirectly
  <2>2. /\ k \in Nat /\ k >= 1 /\ k <= size - Len(data) /\ k <= Len(in) - kpos
    <3>1. size - Len(data) \in Int /\ Len(in) - kpos \in Int
      BY Bounds DEF TypeInv
    <3> QED
      BY <3>1, MinOfTwo
  <2>3. UNCHANGED <<in, closed, buffered, rio_cnt, rio_bufptr, rio_buf, op, size, nleft, taken,
                    usrbuf, block, ret, out, alive>>
    BY <1>1 DEF ReadDirectly, Continue, client, results, rio
  <2> DEFINE piece == SubSeq(in, kpos + 1, kpos + k)
  <2>4. /\ piece \in Seq(Bytes) /\ Len(piece) = k
        /\ \A i \in 1..k : piece[i] = in[kpos + i]
    <3>0. kpos \in Nat /\ Len(in) \in Nat /\ k \in Nat /\ k >= 1 /\ kpos + k <= Len(in)
      BY <2>2, Bounds
    <3>1. /\ kpos + 1 \in Int /\ kpos + k \in Int /\ kpos + 1 <= kpos + k
          /\ (kpos + k) - (kpos + 1) + 1 = k
          /\ \A i \in 1..k : (kpos + 1) + i - 1 = kpos + i
          /\ \A i \in (kpos + 1)..(kpos + k) : i \in 1..Len(in)
      BY <3>0
    <3>2. \A i \in (kpos + 1)..(kpos + k) : in[i] \in Bytes
      BY <3>1, ElementOfSeq DEF TypeInv
    <3>3. /\ piece \in Seq(Bytes) /\ Len(piece) = k
          /\ \A i \in 1..k : piece[i] = in[(kpos + 1) + i - 1]
      BY <3>1, <3>2, SubSeqProperties
    <3> QED
      BY <3>1, <3>3
  <2>5. data' = data \o piece
    BY <2>1
  <2> HIDE DEF piece
  <2>6. /\ data' \in Seq(Bytes) /\ Len(data') = Len(data) + k
        /\ \A i \in 1..(Len(data) + k) :
              data'[i] = IF i <= Len(data) THEN data[i] ELSE piece[i - Len(data)]
    <3>1. data \in Seq(Bytes)
      BY DEF TypeInv
    <3>2. /\ data \o piece \in Seq(Bytes) /\ Len(data \o piece) = Len(data) + Len(piece)
          /\ \A i \in 1..(Len(data) + Len(piece)) :
                (data \o piece)[i]
                   = IF i <= Len(data) THEN data[i] ELSE piece[i - Len(data)]
      BY <2>4, <3>1, ConcatProperties
    <3>3. data' = data \o piece /\ Len(piece) = k
      BY <2>5, <2>4
    <3> QED
      BY <3>2, <3>3
  <2>7. TypeInv'
    <3>1. nleft' \in 0..Len(data') /\ kpos' \in 0..Len(in')
      BY <2>1, <2>2, <2>3, <2>6, Bounds DEF TypeInv
    <3> QED
      BY <2>3, <2>6, <3>1 DEF TypeInv
  <2>8. CallInv'
    <3>1. Len(data') <= size'
      BY <2>2, <2>3, <2>6, Bounds DEF TypeInv
    <3> QED
      BY <2>0, <2>3, <3>1 DEF CallInv
  <2>9. \A i \in 1..Len(data') : data'[i] = in'[taken' + i]
    <3> SUFFICES ASSUME NEW i \in 1..Len(data') PROVE data'[i] = in[taken + i]
      BY <2>3
    <3>1. CASE i <= Len(data)
      <4>1. i \in 1..Len(data) /\ i \in 1..(Len(data) + k)
        BY <2>6, <3>1, Bounds
      <4> QED
        BY <2>0, <2>6, <3>1, <4>1 DEF BufferHoldsNext
    <3>2. CASE ~(i <= Len(data))
      <4>1. /\ i - Len(data) \in 1..k /\ i \in 1..(Len(data) + k)
            /\ kpos + (i - Len(data)) = taken + i
        <5>1. /\ Len(data) \in Nat /\ taken \in Nat /\ k \in Nat /\ i \in Nat
              /\ i <= Len(data) + k /\ i > Len(data) /\ kpos = taken + Len(data)
          BY <2>0, <2>2, <2>6, <3>2, Bounds
        <5> QED
          BY <5>1
      <4> QED
        BY <2>4, <2>6, <3>2, <4>1
    <3> QED
      BY <3>1, <3>2
  <2>10. BufferHoldsNext'
    <3>1. rio_cnt' = 0 /\ rio_cnt' \in -1..RIO_BUFSIZE /\ ~(rio_cnt' > 0) /\ 1..rio_cnt' = {}
      BY <2>0, <2>3, Bounds
    <3>2. Consumed' + 0 = kpos'
      <4>1. Consumed' = taken + (Len(data) + k) /\ kpos' = kpos + k
        BY <2>0, <2>1, <2>3, <2>6 DEF Consumed
      <4> QED
        BY <2>0, <2>2, <4>1, Bounds
    <3> QED
      BY <2>9, <3>1, <3>2 DEF BufferHoldsNext
  <2> QED
    BY <2>7, <2>8, <2>10
<1>2. ASSUME ReadDirectlyFails \/ WriteFails PROVE RioInv'
  <2>1. /\ alive' = FALSE /\ ret' = -1
        /\ op' = "none" /\ size' = 0 /\ data' = << >> /\ nleft' = 0
        /\ UNCHANGED <<in, closed, kpos, buffered, rio_cnt, rio_bufptr, rio_buf,
                       taken, usrbuf, block, out>>
    BY <1>2 DEF ReadDirectlyFails, WriteFails, unix_error, Done, client, rio
  <2>2. << >> \in Seq(Bytes) /\ Len(<< >>) = 0
    BY EmptySeq
  <2>3. TypeInv'
    <3>1. ret' \in Int /\ size' \in Nat /\ nleft' \in 0..Len(data') /\ data' \in Seq(Bytes)
      BY <2>1, <2>2
    <3>2. alive' \in BOOLEAN
      BY <2>1
    <3> QED
      BY <2>1, <3>1, <3>2 DEF TypeInv
  <2>4. CallInv'
    BY <2>1 DEF CallInv
  <2>5. DataFromStream'
    BY <2>1 DEF DataFromStream
  <2>6. BufferHoldsNext'
    BY <2>1, <2>5, BufferKept
  <2> QED
    BY <2>3, <2>4, <2>6
<1> QED
  BY <1>1, <1>2

\* What write was given next continues the message.
LEMMA PieceFacts ==
    ASSUME RioInv, op = "writen", NEW k \in 1..nleft
    PROVE  /\ Piece(k) \in Seq(Bytes) /\ Len(Piece(k)) = k
           /\ \A i \in 1..k : Piece(k)[i] = data[Len(data) - nleft + i]
           /\ out \o Piece(k) \in Seq(Bytes) /\ Len(out \o Piece(k)) = Len(out) + k
           /\ \A i \in 1..(Len(out) + k) :
                 (out \o Piece(k))[i] = IF i <= Len(out) THEN out[i]
                                        ELSE data[Len(data) - nleft + (i - Len(out))]
<1> DEFINE d == Len(data) - nleft
<1>1. /\ Len(data) \in Nat /\ Len(out) \in Nat /\ nleft \in 0..Len(data)
      /\ d \in Nat /\ d + k <= Len(data) /\ k \in Nat /\ k >= 1
  BY Bounds DEF RioInv, TypeInv
<1>2. Piece(k) = SubSeq(data, d + 1, d + k)
  BY DEF Piece
<1> HIDE DEF d
<1>3. /\ d + 1 \in Int /\ d + k \in Int /\ d + 1 <= d + k /\ (d + k) - (d + 1) + 1 = k
      /\ \A i \in 1..k : (d + 1) + i - 1 = d + i
      /\ \A i \in (d + 1)..(d + k) : i \in 1..Len(data)
  BY <1>1
<1>4. \A i \in (d + 1)..(d + k) : data[i] \in Bytes
  BY <1>3, ElementOfSeq DEF RioInv, TypeInv
<1>5. /\ Piece(k) \in Seq(Bytes) /\ Len(Piece(k)) = k
      /\ \A i \in 1..k : Piece(k)[i] = data[d + i]
  <2>1. \A i \in 1..k : Piece(k)[i] = data[(d + 1) + i - 1]
    BY <1>2, <1>3, <1>4, SubSeqProperties
  <2>2. Piece(k) \in Seq(Bytes) /\ Len(Piece(k)) = k
    BY <1>2, <1>3, <1>4, SubSeqProperties
  <2> QED
    BY <1>3, <2>1, <2>2
<1>6. /\ out \o Piece(k) \in Seq(Bytes) /\ Len(out \o Piece(k)) = Len(out) + k
      /\ \A i \in 1..(Len(out) + k) :
            (out \o Piece(k))[i] = IF i <= Len(out) THEN out[i] ELSE Piece(k)[i - Len(out)]
  <2>1. out \in Seq(Bytes)
    BY DEF RioInv, TypeInv
  <2> DEFINE q == Piece(k)
  <2>2. q \in Seq(Bytes) /\ Len(q) = k
    BY <1>5
  <2> HIDE DEF q
  <2>3. /\ out \o q \in Seq(Bytes) /\ Len(out \o q) = Len(out) + Len(q)
        /\ \A i \in 1..(Len(out) + Len(q)) :
              (out \o q)[i] = IF i <= Len(out) THEN out[i] ELSE q[i - Len(out)]
    BY <2>1, <2>2, ConcatProperties
  <2> QED
    BY <2>2, <2>3 DEF q
<1>7. \A i \in 1..(Len(out) + k) : ~(i <= Len(out)) => i - Len(out) \in 1..k
  BY <1>1
<1> QED
  BY <1>5, <1>6, <1>7 DEF d

\* rio_writen: the message goes out from its start.
LEMMA WriteSteps ==
    ASSUME RioInv, WriteSome \/ ReturnWritten
    PROVE  RioInv'
<1> USE DEF RioInv
<1>1. ASSUME WriteSome PROVE RioInv'
  <2>1. PICK k \in 1..nleft : out' = out \o Piece(k) /\ nleft' = nleft - k
    BY <1>1 DEF WriteSome
  <2>2. /\ op = "writen"
        /\ UNCHANGED <<in, closed, kpos, buffered, rio_cnt, rio_bufptr, rio_buf, op, size,
                       data, taken, usrbuf, block, ret, alive>>
    BY <1>1 DEF WriteSome, Continue, client, results, rio
  <2>3. /\ Len(data) \in Nat /\ Len(out) \in Nat /\ nleft \in 0..Len(data)
        /\ k \in Nat /\ k >= 1 /\ k <= nleft
    BY Bounds DEF TypeInv
  <2>4. /\ out' \in Seq(Bytes) /\ Len(out') = Len(out) + k
        /\ \A i \in 1..(Len(out) + k) :
              out'[i] = IF i <= Len(out) THEN out[i]
                        ELSE data[Len(data) - nleft + (i - Len(out))]
    BY <2>1, <2>2, PieceFacts
  <2>5. TypeInv'
    <3>1. nleft' \in 0..Len(data')
      BY <2>1, <2>2, <2>3
    <3> QED
      BY <2>2, <2>4, <3>1 DEF TypeInv
  <2>6. CallInv'
    <3> DEFINE d == Len(data) - nleft
    <3>1. /\ Len(data') - nleft' = d + k /\ d \in Nat /\ Len(out) >= d
          /\ Len(out') - (d + k) = Len(out) - d
          /\ \A i \in 1..d : out[Len(out) - d + i] = data[i]
      BY <2>1, <2>2, <2>3, <2>4 DEF CallInv
    <3> HIDE DEF d
    <3>2. ASSUME NEW i \in 1..(d + k) PROVE out'[Len(out) - d + i] = data[i]
      <4>0. Len(out) - d + i \in 1..(Len(out) + k)
        BY <2>3, <3>1
      <4>1. CASE i <= d
        <5>1. Len(out) - d + i <= Len(out) /\ i \in 1..d
          BY <2>3, <3>1, <4>1
        <5> QED
          BY <2>4, <3>1, <4>0, <5>1
      <4>2. CASE ~(i <= d)
        <5>1. /\ ~(Len(out) - d + i <= Len(out))
              /\ d + ((Len(out) - d + i) - Len(out)) = i
          BY <2>3, <3>1, <4>2
        <5> QED
          BY <2>4, <4>0, <5>1 DEF d
      <4> QED
        BY <4>1, <4>2
    <3>3. Len(out') >= d + k
      BY <2>3, <2>4, <3>1
    <3>4. /\ data' \in Messages /\ size' = Len(data') /\ alive'
          /\ ~buffered' => rio_cnt' = 0
      BY <2>2 DEF CallInv
    <3>5. /\ Len(out') >= Len(data') - nleft'
          /\ \A i \in 1..(Len(data') - nleft') :
                out'[Len(out') - (Len(data') - nleft') + i] = data'[i]
      BY <2>2, <3>1, <3>2, <3>3
    <3> QED
      BY <2>2, <3>4, <3>5 DEF CallInv
  <2>7. DataFromStream' /\ Consumed' = Consumed
    BY <2>2 DEF DataFromStream, Consumed
  <2>8. BufferHoldsNext'
    BY <2>2, <2>7, BufferKept
  <2> QED
    BY <2>5, <2>6, <2>8
<1>2. ASSUME ReturnWritten PROVE RioInv'
  <2>1. /\ ret' = size /\ op = "writen"
        /\ op' = "none" /\ size' = 0 /\ data' = << >> /\ nleft' = 0
        /\ UNCHANGED <<in, closed, kpos, buffered, rio_cnt, rio_bufptr, rio_buf,
                       taken, usrbuf, block, out, alive>>
    BY <1>2 DEF ReturnWritten, Done, client, rio
  <2>2. << >> \in Seq(Bytes) /\ Len(<< >>) = 0
    BY EmptySeq
  <2>3. TypeInv'
    <3>1. ret' \in Int /\ size' \in Nat /\ nleft' \in 0..Len(data') /\ data' \in Seq(Bytes)
      BY <2>1, <2>2 DEF TypeInv
    <3> QED
      BY <2>1, <3>1 DEF TypeInv
  <2>4. CallInv'
    BY <2>1 DEF CallInv
  <2>5. DataFromStream' /\ Consumed' = Consumed
    BY <2>1, <2>2, Bounds DEF DataFromStream, Consumed
  <2>6. BufferHoldsNext'
    BY <2>1, <2>5, BufferKept
  <2> QED
    BY <2>3, <2>4, <2>6
<1> QED
  BY <1>1, <1>2

\* Every step keeps the invariant.
LEMMA RioStep == RioInv /\ [Next]_vars => RioInv'
<1> SUFFICES ASSUME RioInv, [Next]_vars PROVE RioInv'
  OBVIOUS
<1>1. CASE Next
  BY <1>1, ClientSteps, CallSteps, RefillSteps, ReturnSteps, CopySteps, DirectSteps, WriteSteps
     DEF Next, Progress
<1>2. CASE UNCHANGED vars
  <2>1. TypeInv' /\ CallInv'
    BY <1>2 DEF RioInv, vars, TypeInv, CallInv
  <2>2. BufferHoldsNext'
    BY <1>2 DEF RioInv, vars, BufferHoldsNext, Consumed
  <2> QED
    BY <2>1, <2>2 DEF RioInv
<1> QED
  BY <1>1, <1>2

\* The invariant of the package.
THEOREM RioInvariant == Spec => []RioInv
  BY RioInit, RioStep, PTL DEF Spec

\* Whatever the kernel hands over and however calls are mixed, the unread part of the
\* rio_t is exactly the next bytes of the client's stream (rio_read, segel.c).
THEOREM BufferCorrect == Spec => []BufferHoldsNext
<1>1. RioInv => BufferHoldsNext
  BY DEF RioInv
<1> QED
  BY <1>1, RioInvariant, PTL

----------------------------------------------------------------------------
(***************************************************************************)
(* The refinement: what each call gives is what one step of the byte       *)
(* stream gives.                                                           *)
(***************************************************************************)

\* The minimum of two numbers, in the instance.
LEMMA StreamMin ==
    ASSUME NEW a \in Int, NEW b \in Int
    PROVE  Stream!Min({a, b}) = IF a <= b THEN a ELSE b
<1>1. Stream!Min({a, b}) = Min({a, b})
  BY DEF Stream!Min, Min
<1> QED
  BY <1>1, MinOfTwo

\* The line at the start of a stream ends at its first newline, and reaches at least as
\* far as there is none.
LEMMA LineLengthIs ==
    ASSUME NEW s \in Seq(Bytes)
    PROVE  /\ \A j \in 1..Len(s) :
                 s[j] = Newline /\ (\A i \in 1..(j - 1) : s[i] # Newline)
                    => Stream!LineLength(s) = j
           /\ \A m \in 0..Len(s) : (\A i \in 1..m : s[i] # Newline)
                    => Stream!LineLength(s) \in Nat /\ Stream!LineLength(s) >= m
           /\ (\A i \in 1..Len(s) : s[i] # Newline) => Stream!LineLength(s) = Len(s)
<1> DEFINE I == {i \in 1..Len(s) : s[i] = Newline}
<1>1. Len(s) \in Nat /\ I \in SUBSET Nat
  BY LenProperties
<1>2. Stream!LineLength(s) = IF I # {} THEN Min(I) ELSE Len(s)
  BY SMTT(20) DEF Stream!LineLength, Stream!Contains, Stream!SelectInSeq, Stream!Min, Min
<1>3. ASSUME NEW j \in 1..Len(s), s[j] = Newline, \A i \in 1..(j - 1) : s[i] # Newline
      PROVE  Stream!LineLength(s) = j
  <2>1. j \in I /\ \A y \in I : j <= y
    BY <1>1, <1>3
  <2>2. Min(I) = j
    <3>1. I \in SUBSET Int
      OBVIOUS
    <3> HIDE DEF I
    <3> QED
      BY <2>1, <3>1, MinUnique
  <2> QED
    BY <1>2, <2>1, <2>2
<1>4. ASSUME NEW m \in 0..Len(s), \A i \in 1..m : s[i] # Newline
      PROVE  Stream!LineLength(s) \in Nat /\ Stream!LineLength(s) >= m
  <2>1. CASE I = {}
    BY <1>1, <1>2, <2>1
  <2>2. CASE I # {}
    <3>1. Min(I) \in I
      BY <1>1, <2>2, MinIsLeast
    <3>2. \A y \in I : y \in Nat /\ y >= m
      BY <1>1, <1>4
    <3> QED
      BY <1>2, <2>2, <3>1, <3>2
  <2> QED
    BY <2>1, <2>2
<1>5. ASSUME \A i \in 1..Len(s) : s[i] # Newline PROVE Stream!LineLength(s) = Len(s)
  BY <1>2, <1>5
<1> QED
  BY <1>3, <1>4, <1>5

\* What a reading call has read is the start of the rest of the stream.
LEMMA RestFacts ==
    ASSUME RioInv, op \in {"line", "readnb", "readn"}
    PROVE  /\ Stream!Rest \in Seq(Bytes) /\ Len(Stream!Rest) = Len(in) - taken
           /\ Len(Stream!Rest) \in Nat
           /\ Len(data) <= Len(Stream!Rest)
           /\ \A i \in 1..Len(Stream!Rest) : Stream!Rest[i] = in[taken + i]
           /\ \A i \in 1..Len(data) : Stream!Rest[i] = data[i]
           /\ SubSeq(Stream!Rest, 1, Len(data)) = data
           /\ kpos = Len(in) /\ rio_cnt <= 0 => Len(Stream!Rest) = Len(data)
<1>1. /\ alive /\ Consumed = taken + Len(data) /\ Consumed <= kpos /\ kpos <= Len(in)
      /\ rio_cnt <= 0 => Consumed = kpos
      /\ Len(in) \in Nat /\ taken \in Nat /\ Len(data) \in Nat /\ kpos \in Nat
  BY Bounds DEF RioInv, CallInv
<1>2. /\ taken + 1 \in Int /\ Len(in) \in Int
      /\ (IF taken + 1 <= Len(in) THEN Len(in) - (taken + 1) + 1 ELSE 0) = Len(in) - taken
      /\ Len(in) - (taken + 1) + 1 = Len(in) - taken
      /\ \A i \in (taken + 1)..Len(in) : i \in 1..Len(in)
      /\ \A i \in 1..(Len(in) - taken) : (taken + 1) + i - 1 = taken + i
      /\ Len(in) - taken \in Nat /\ Len(data) <= Len(in) - taken
  BY <1>1
<1>3. \A i \in (taken + 1)..Len(in) : in[i] \in Bytes
  BY <1>2, ElementOfSeq DEF RioInv, TypeInv
<1>4. /\ Stream!Rest \in Seq(Bytes) /\ Len(Stream!Rest) = Len(in) - taken
      /\ \A i \in 1..(Len(in) - taken) : Stream!Rest[i] = in[(taken + 1) + i - 1]
  BY <1>2, <1>3, SubSeqProperties DEF Stream!Rest
<1>5. \A i \in 1..(Len(in) - taken) : Stream!Rest[i] = in[taken + i]
  BY <1>2, <1>4
<1>6. \A i \in 1..Len(data) : i \in 1..(Len(in) - taken) /\ data[i] = in[taken + i]
  <2>1. \A i \in 1..Len(data) : i \in 1..(Len(in) - taken)
    <3>1. Len(data) \in Nat /\ Len(in) - taken \in Nat /\ Len(data) <= Len(in) - taken
      BY <1>1, <1>2
    <3> QED
      BY <3>1
  <2>2. \A i \in 1..Len(data) : data[i] = in[taken + i]
    BY DEF RioInv, BufferHoldsNext
  <2> QED
    BY <2>1, <2>2
<1>7. SubSeq(Stream!Rest, 1, Len(data)) = data
  <2> DEFINE t == SubSeq(Stream!Rest, 1, Len(data))
  <2>1. \A i \in 1..Len(data) : Stream!Rest[i] \in Bytes
    BY <1>4, <1>6, ElementOfSeq
  <2>2. t \in Seq(Bytes) /\ Len(t) = (IF 1 <= Len(data) THEN Len(data) - 1 + 1 ELSE 0)
        /\ \A i \in 1..(Len(data) - 1 + 1) : t[i] = Stream!Rest[1 + i - 1]
    BY <1>1, <2>1, SubSeqProperties, 1 \in Int
  <2>3. Len(t) = Len(data) /\ \A i \in 1..Len(data) : t[i] = Stream!Rest[i]
    BY <1>1, <2>2
  <2>4. \A i \in 1..Len(data) : t[i] = data[i]
    BY <1>5, <1>6, <2>3
  <2>5. data \in Seq(Bytes)
    BY DEF RioInv, TypeInv
  <2> HIDE DEF t
  <2>6. t = data
    BY <2>2, <2>3, <2>4, <2>5, SeqEqual
  <2> QED
    BY <2>6 DEF t
<1>8. kpos = Len(in) /\ rio_cnt <= 0 => Len(in) - taken = Len(data)
  BY <1>1
<1>9. \A i \in 1..Len(data) : Stream!Rest[i] = data[i]
  BY <1>5, <1>6
<1> QED
  BY <1>2, <1>4, <1>5, <1>7, <1>8, <1>9

\* The messages that were written whole: what the refinement shows of the output.
Whole == IF op = "writen" THEN SubSeq(out, 1, Len(out) - (Len(data) - nleft)) ELSE out

\* In a rio_writen the output is the whole messages and the start of the present one.
LEMMA WholeFacts ==
    ASSUME RioInv, op = "writen"
    PROVE  /\ Whole \in Seq(Bytes) /\ Len(Whole) = Len(out) - (Len(data) - nleft)
           /\ \A i \in 1..Len(Whole) : Whole[i] = out[i]
           /\ out = Whole \o SubSeq(data, 1, Len(data) - nleft)
           /\ Len(data) - nleft \in 0..Len(data)
<1> DEFINE d == Len(data) - nleft
           m == Len(out) - d
<1>1. /\ Len(out) \in Nat /\ Len(data) \in Nat /\ d \in Nat /\ d <= Len(data) /\ m \in Nat
      /\ m <= Len(out) /\ m + d = Len(out)
      /\ \A i \in 1..d : out[m + i] = data[i]
  BY Bounds DEF RioInv, TypeInv, CallInv
<1>2. out \in Seq(Bytes) /\ data \in Seq(Bytes) /\ Whole = SubSeq(out, 1, m)
  BY DEF RioInv, TypeInv, Whole
<1> HIDE DEF d, m
<1>3. ASSUME NEW s \in Seq(Bytes), NEW n \in Nat, n <= Len(s)
      PROVE  /\ SubSeq(s, 1, n) \in Seq(Bytes) /\ Len(SubSeq(s, 1, n)) = n
             /\ \A i \in 1..n : SubSeq(s, 1, n)[i] = s[i]
  <2>0. Len(s) \in Nat
    BY LenProperties
  <2>1. \A i \in 1..n : i \in 1..Len(s)
    BY <1>3, <2>0
  <2>2. \A i \in 1..n : s[i] \in Bytes
    BY <2>1, ElementOfSeq
  <2>3. /\ SubSeq(s, 1, n) \in Seq(Bytes)
        /\ Len(SubSeq(s, 1, n)) = (IF 1 <= n THEN n - 1 + 1 ELSE 0)
        /\ \A i \in 1..(n - 1 + 1) : SubSeq(s, 1, n)[i] = s[1 + i - 1]
    BY <2>2, SubSeqProperties, 1 \in Int, n \in Int
  <2> QED
    BY <2>3
<1>4. /\ Whole \in Seq(Bytes) /\ Len(Whole) = m /\ \A i \in 1..m : Whole[i] = out[i]
  BY <1>1, <1>2, <1>3
<1> DEFINE t == SubSeq(data, 1, d)
<1>5. t \in Seq(Bytes) /\ Len(t) = d /\ \A i \in 1..d : t[i] = data[i]
  BY <1>1, <1>2, <1>3
<1> HIDE DEF t
<1>6. /\ Whole \o t \in Seq(Bytes) /\ Len(Whole \o t) = m + d
      /\ \A i \in 1..(m + d) : (Whole \o t)[i] = IF i <= m THEN Whole[i] ELSE t[i - m]
  BY <1>4, <1>5, ConcatProperties
<1>7. ASSUME NEW i \in 1..Len(out) PROVE out[i] = (Whole \o t)[i]
  <2>1. CASE i <= m
    <3>1. i \in 1..m /\ i \in 1..(m + d)
      BY <1>1, <2>1
    <3> QED
      BY <1>4, <1>6, <2>1, <3>1
  <2>2. CASE ~(i <= m)
    <3>1. i - m \in 1..d /\ i \in 1..(m + d) /\ m + (i - m) = i
      BY <1>1, <2>2
    <3>2. out[m + (i - m)] = data[i - m] /\ t[i - m] = data[i - m]
      BY <1>1, <1>5, <3>1
    <3> QED
      BY <1>6, <2>2, <3>1, <3>2
  <2> QED
    BY <2>1, <2>2
<1>8. out = Whole \o t
  BY <1>1, <1>2, <1>6, <1>7, SeqEqual
<1> QED
  BY <1>1, <1>4, <1>8 DEF d, m, t

\* A reading call that returns the bytes it has read, as a block.
LEMMA BlockReturned ==
    ASSUME RioInv, op \in {"readnb", "readn"}, ReturnBlock(data),
           UNCHANGED <<in, closed, out>>,
           Len(data) = size \/ (closed /\ kpos = Len(in) /\ rio_cnt <= 0)
    PROVE  Stream!Block(size)
<1> DEFINE k == Stream!Min({Len(Stream!Rest), size})
<1>1. alive /\ Len(data) <= size /\ size \in Nat /\ Len(data) \in Nat
  BY Bounds DEF RioInv, CallInv, TypeInv
<1>2. k = Len(data)
  <2>1. k = IF Len(Stream!Rest) <= size THEN Len(Stream!Rest) ELSE size
    BY <1>1, RestFacts, StreamMin
  <2> HIDE DEF k
  <2> QED
    BY <1>1, <2>1, RestFacts
<1>3. k = size \/ closed
  BY <1>2
<1>4. SubSeq(Stream!Rest, 1, k) = data
  BY <1>2, RestFacts
<1>5. /\ taken' = taken + k /\ block' = SubSeq(Stream!Rest, 1, k) /\ ret' = k
      /\ UNCHANGED <<usrbuf, alive>> /\ op' = "none"
  BY <1>2, <1>4 DEF ReturnBlock, Done
<1> HIDE DEF k
<1>6. /\ alive /\ (k = size \/ closed)
      /\ UNCHANGED <<in, closed, usrbuf, Whole, alive>>
  BY <1>1, <1>3, <1>5 DEF Whole
<1> QED
  BY <1>5, <1>6 DEF Stream!Block, k, Whole

\* A call of rio_readlineb that returns line, its k bytes, the count n and the buffer u.
LEMMA LineReturned ==
    ASSUME RioInv, op = "line", UNCHANGED <<in, closed, out>>,
           NEW k \in Nat, NEW line, NEW u, NEW n, ReturnLine(k, u, n),
           Stream!LineLength(Stream!Rest) \in Nat,
           k = IF Stream!LineLength(Stream!Rest) <= size - 1
               THEN Stream!LineLength(Stream!Rest) ELSE size - 1,
           line = SubSeq(Stream!Rest, 1, k),
           k = size - 1 \/ Stream!Contains(line, Newline) \/ closed,
           u = IF k = 0 /\ size > 1 THEN usrbuf ELSE line,
           Stream!Contains(line, Newline) => n = k,
           ~Stream!Contains(line, Newline) /\ k = 0 /\ size > 1 => n = 0,
           ~Stream!Contains(line, Newline) /\ ~(k = 0 /\ size > 1) => n = k + 1
    PROVE  Stream!Line(size)
<1>1. alive /\ size \in Nat
  BY DEF RioInv, CallInv, TypeInv
<1>2. Stream!Min({Stream!LineLength(Stream!Rest), size - 1}) = k
  BY <1>1, StreamMin
<1>3. /\ taken' = taken + k /\ usrbuf' = u /\ ret' = n /\ op' = "none"
      /\ UNCHANGED <<block, alive>>
  BY DEF ReturnLine, Done
<1>4. UNCHANGED Whole
  BY <1>3 DEF Whole
<1>5. ret' = CASE Stream!Contains(line, Newline) -> k
               [] k = 0 /\ size > 1             -> 0
               [] OTHER                         -> k + 1
  BY <1>3
<1> QED
  BY <1>1, <1>2, <1>3, <1>4, <1>5 DEF Stream!Line, Whole

\* rio_readlineb returns at the end of the stream, or with a full buffer.
LEMMA LineEnds ==
    ASSUME RioInv, op = "line", UNCHANGED <<in, closed, out>>,
           \/ /\ Wants /\ rio_cnt <= 0 /\ closed /\ kpos = Len(in) /\ EndOfStream
           \/ ~Wants /\ ReturnLine(Len(data), data, size)
    PROVE  Stream!Line(size)
<1> DEFINE R == Stream!Rest
           ll == Stream!LineLength(Stream!Rest)
<1>1. /\ Len(data) \in Nat /\ size \in Nat /\ Len(data) + 1 <= size
      /\ \A i \in 1..Len(data) : data[i] # Newline
  BY Bounds DEF RioInv, CallInv, TypeInv
<1>2. ~Stream!Contains(data, Newline)
  BY <1>1 DEF Stream!Contains
<1>3. /\ R \in Seq(Bytes) /\ Len(data) \in 0..Len(R)
      /\ \A i \in 1..Len(data) : R[i] # Newline
      /\ SubSeq(R, 1, Len(data)) = data
  BY <1>1, RestFacts
<1>4. ll \in Nat /\ ll >= Len(data)
  BY <1>3, LineLengthIs
<1>5. CASE Wants /\ rio_cnt <= 0 /\ closed /\ kpos = Len(in) /\ EndOfStream
  <2>1. Len(R) = Len(data) /\ Len(data) + 1 < size
    BY <1>5, RestFacts, WantsFacts
  <2>2. ll = Len(data)
    BY <1>3, <2>1, LineLengthIs
  <2>3. data = << >> <=> Len(data) = 0
    BY EmptySeq DEF RioInv, TypeInv
  <2>4. ReturnLine(Len(data), IF data = << >> THEN usrbuf ELSE data,
                              IF data = << >> THEN 0 ELSE Len(data) + 1)
    BY <1>5 DEF EndOfStream
  <2>5. Len(data) = IF ll <= size - 1 THEN ll ELSE size - 1
    BY <1>1, <2>1, <2>2
  <2>6. size > 1
    BY <1>1, <2>1
  <2> HIDE DEF ll, R
  <2> QED
    BY <1>1, <1>2, <1>3, <1>4, <1>5, <2>3, <2>4, <2>5, <2>6, LineReturned DEF ll, R
<1>6. CASE ~Wants /\ ReturnLine(Len(data), data, size)
  <2>1. Len(data) + 1 = size
    BY <1>1, <1>6 DEF Wants
  <2>2. Len(data) = IF ll <= size - 1 THEN ll ELSE size - 1
    BY <1>1, <1>4, <2>1
  <2>3. Len(data) = size - 1 /\ ~(Len(data) = 0 /\ size > 1)
    BY <1>1, <2>1
  <2> HIDE DEF ll, R
  <2> QED
    BY <1>1, <1>2, <1>3, <1>4, <1>6, <2>1, <2>2, <2>3, LineReturned DEF ll, R
<1> QED
  BY <1>5, <1>6

\* rio_readlineb returns at a newline.
LEMMA LineFound ==
    ASSUME RioInv, CopyByte, rio_buf[rio_bufptr] = Newline
    PROVE  Stream!Line(size)
<1> DEFINE R == Stream!Rest
           ll == Stream!LineLength(Stream!Rest)
           line == Append(data, Newline)
           m == Len(data) + 1
<1>1. /\ Wants /\ rio_cnt > 0 /\ op = "line" /\ alive /\ Len(data) + 1 < size
      /\ Len(data) \in Nat /\ size \in Nat
      /\ Consumed = taken + Len(data) /\ Consumed + rio_cnt = kpos /\ kpos <= Len(in)
      /\ Len(in) \in Nat /\ taken \in Nat /\ rio_cnt \in Int
  BY WantsFacts, Bounds DEF CopyByte, Copying, RioInv, TypeInv
<1>2. in[taken + m] = Newline /\ m \in 1..(Len(in) - taken)
  <2>1. /\ 1 \in 1..rio_cnt /\ rio_bufptr + 1 - 1 = rio_bufptr /\ Consumed + 1 = taken + m
        /\ m \in 1..(Len(in) - taken)
    BY <1>1 DEF RioInv, TypeInv
  <2> QED
    BY <1>1, <2>1 DEF RioInv, BufferHoldsNext
<1>3. /\ R \in Seq(Bytes) /\ Len(R) = Len(in) - taken /\ R[m] = Newline
      /\ \A i \in 1..Len(data) : R[i] = data[i]
  BY <1>1, <1>2, RestFacts
<1>4. \A i \in 1..Len(data) : R[i] # Newline
  BY <1>1, <1>3 DEF RioInv, CallInv
<1>5. ll = m
  <2>1. m - 1 = Len(data) /\ m \in 1..Len(R)
    BY <1>1, <1>2, <1>3
  <2> HIDE DEF m
  <2> QED
    BY <1>3, <1>4, <2>1, LineLengthIs
<1>6. /\ line \in Seq(Bytes) /\ Len(line) = m /\ line[m] = Newline
      /\ \A i \in 1..Len(data) : line[i] = data[i]
  BY AppendProperties, BytesAssumption DEF RioInv, TypeInv
<1>7. SubSeq(R, 1, m) = line
  <2> DEFINE t == SubSeq(R, 1, m)
  <2>0. m \in Nat /\ \A i \in 1..m : i \in 1..Len(R)
    BY <1>1, <1>2, <1>3
  <2>1. \A i \in 1..m : R[i] \in Bytes
    BY <1>3, <2>0, ElementOfSeq
  <2> HIDE DEF m, R, line
  <2>2. /\ t \in Seq(Bytes) /\ Len(t) = (IF 1 <= m THEN m - 1 + 1 ELSE 0)
        /\ \A i \in 1..(m - 1 + 1) : t[i] = R[1 + i - 1]
    BY <2>0, <2>1, SubSeqProperties, 1 \in Int, m \in Int
  <2>3. Len(t) = m /\ \A i \in 1..m : t[i] = R[i]
    BY <2>0, <2>2
  <2>4. \A i \in 1..m : i = m \/ i \in 1..Len(data)
    BY <1>1, <2>0 DEF m
  <2>5. \A i \in 1..Len(t) : t[i] = line[i]
    BY <1>3, <1>6, <2>3, <2>4
  <2> HIDE DEF t
  <2>6. t = line
    BY <1>6, <2>2, <2>3, <2>5, SeqEqual
  <2> QED
    BY <2>6 DEF t
<1>8. Stream!Contains(line, Newline)
  <2>1. m \in 1..Len(line)
    BY <1>1, <1>6
  <2> QED
    BY <1>6, <2>1 DEF Stream!Contains
<1>9. ReturnLine(m, line, m) /\ UNCHANGED <<in, closed, out>>
  BY <1>6 DEF CopyByte, client
<1>10. m = (IF ll <= size - 1 THEN ll ELSE size - 1) /\ m \in Nat /\ m # 0
  BY <1>1, <1>5
<1> HIDE DEF line, R, ll, m
<1>11. ll \in Nat
  BY <1>5, <1>10
<1> QED
  BY <1>1, <1>7, <1>8, <1>9, <1>10, <1>11, LineReturned DEF ll, R

\* The whole messages are the start of the output.
WholePrefix ==
    /\ Whole \in Seq(Bytes) /\ Len(Whole) = Len(out) - (Len(data) - nleft)
    /\ \A i \in 1..Len(Whole) : Whole[i] = out[i]

\* This holds of a rio_writen, in a form that can be used of the next state.
LEMMA WholeIsPrefix == RioInv /\ op = "writen" => WholePrefix
  BY WholeFacts DEF WholePrefix

\* Starting a call and reading or writing on its behalf show nothing.
LEMMA HiddenSteps ==
    ASSUME RioInv,
           Calls \/ ReadSome \/ ReadInterrupted \/ CopyBlock \/ ReadDirectly \/ WriteSome
             \/ (CopyByte /\ rio_buf[rio_bufptr] # Newline)
    PROVE  UNCHANGED Stream!vars
<1>1. UNCHANGED <<in, closed, taken, usrbuf, block, ret, alive>>
  BY DEF Calls, CallLine, CallReadnb, CallReadn, CallWriten, Call, ReadSome, ReadInterrupted,
         CopyBlock, ReadDirectly, WriteSome, CopyByte, Continue, client, results
<1>2. UNCHANGED Whole
  <2>1. CASE ReadSome \/ ReadInterrupted \/ CopyBlock \/ ReadDirectly
               \/ (CopyByte /\ rio_buf[rio_bufptr] # Newline)
    <3>1. op \in {"line", "readnb", "readn"} /\ UNCHANGED <<op, out>>
      BY <2>1 DEF ReadSome, ReadInterrupted, CopyBlock, ReadDirectly, CopyByte, Refilling,
                  Copying, Wants, Continue
    <3> QED
      BY <3>1 DEF Whole
  <2>2. CASE WriteSome
    <3>1. PICK k \in 1..nleft : out' = out \o Piece(k) /\ nleft' = nleft - k
      BY <2>2 DEF WriteSome
    <3>2. op = "writen" /\ op' = op /\ data' = data
      BY <2>2 DEF WriteSome, Continue
    <3>3. RioInv'
      BY <2>2, WriteSteps
    <3>4. /\ Whole \in Seq(Bytes) /\ Len(Whole) = Len(out) - (Len(data) - nleft)
          /\ \A i \in 1..Len(Whole) : Whole[i] = out[i]
      BY <3>2, WholeFacts
    <3>5. /\ Whole' \in Seq(Bytes) /\ Len(Whole') = Len(out') - (Len(data') - nleft')
          /\ \A i \in 1..Len(Whole') : Whole'[i] = out'[i]
      <4>1. RioInv' /\ (op = "writen")'
        BY <3>2, <3>3
      <4>2. WholePrefix'
        BY <4>1, WholeIsPrefix, PTL
      <4> QED
        BY <4>2 DEF WholePrefix
    <3>6. /\ Len(out') = Len(out) + k
          /\ \A i \in 1..(Len(out) + k) :
                out'[i] = IF i <= Len(out) THEN out[i]
                          ELSE data[Len(data) - nleft + (i - Len(out))]
      BY <3>1, <3>2, PieceFacts
    <3>7. /\ Len(out) \in Nat /\ Len(data) \in Nat /\ nleft \in 0..Len(data) /\ k \in 1..nleft
      BY Bounds DEF RioInv, TypeInv
    <3>8. Len(Whole') = Len(Whole) /\ Len(Whole) <= Len(out)
      BY <3>1, <3>2, <3>4, <3>5, <3>6, <3>7
    <3>9. ASSUME NEW i \in 1..Len(Whole) PROVE Whole'[i] = Whole[i]
      <4>1. i <= Len(out) /\ i \in 1..(Len(out) + k) /\ i \in 1..Len(Whole')
        BY <3>4, <3>7, <3>8
      <4> QED
        BY <3>4, <3>5, <3>6, <4>1
    <3> QED
      BY <3>4, <3>5, <3>8, <3>9, SeqEqual
  <2>3. CASE Calls
    <3>1. op = "none" /\ out' = out /\ op' \in {"line", "readnb", "readn", "writen"}
      BY <2>3 DEF Calls, CallLine, CallReadnb, CallReadn, CallWriten, Call
    <3>2. Whole = out
      BY <3>1 DEF Whole
    <3>3. CASE op' # "writen"
      BY <3>1, <3>2, <3>3 DEF Whole
    <3>4. CASE op' = "writen"
      <4>1. \E message \in Messages : data' = message /\ nleft' = Len(message)
        BY <2>3, <3>4 DEF Calls, CallLine, CallReadnb, CallReadn, CallWriten, Call
      <4>2. nleft' = Len(data') /\ Len(data') \in Nat
        BY <4>1, BytesAssumption, LenProperties
      <4>3. Whole' = SubSeq(out, 1, Len(out) - (Len(data') - nleft'))
        BY <3>1, <3>4 DEF Whole
      <4>4. Len(out) - (Len(data') - nleft') = Len(out) /\ out \in Seq(Bytes)
        BY <4>2, Bounds DEF RioInv, TypeInv
      <4> QED
        BY <3>2, <4>3, <4>4, SubSeqFull
    <3> QED
      BY <3>3, <3>4
  <2> QED
    BY <2>1, <2>2, <2>3
<1> QED
  BY <1>1, <1>2 DEF Stream!vars, Whole

\* rio_writen returns: the message is there whole; or it fails, and a part of it is.
LEMMA WriteEnds ==
    ASSUME RioInv
    PROVE  /\ ReturnWritten => \E message \in Messages : Stream!Write(message)
           /\ WriteFails => Stream!Fail
<1>1. ASSUME ReturnWritten PROVE \E message \in Messages : Stream!Write(message)
  <2>1. /\ op = "writen" /\ nleft = 0 /\ ret' = size /\ op' = "none"
        /\ UNCHANGED <<in, closed, taken, usrbuf, block, out, alive>>
    BY <1>1 DEF ReturnWritten, Done, client
  <2>2. alive /\ data \in Messages /\ size = Len(data) /\ data \in Seq(Bytes) /\ Len(data) \in Nat
    BY <2>1, Bounds DEF RioInv, CallInv, TypeInv
  <2>3. out = Whole \o SubSeq(data, 1, Len(data))
    <3>1. Len(data) - nleft = Len(data)
      BY <2>1, <2>2
    <3> QED
      BY <2>1, <3>1, WholeFacts
  <2>4. Whole' = Whole \o data
    <3>1. SubSeq(data, 1, Len(data)) = data
      BY <2>2, SubSeqFull
    <3>2. Whole' = out
      BY <2>1 DEF Whole
    <3> QED
      BY <2>3, <3>1, <3>2
  <2>5. Stream!Write(data)
    BY <2>1, <2>2, <2>4 DEF Stream!Write, Whole
  <2> QED
    BY <2>2, <2>5
<1>2. ASSUME WriteFails PROVE Stream!Fail
  <2>1. /\ op = "writen" /\ nleft > 0 /\ ret' = -1 /\ op' = "none" /\ alive' = FALSE
        /\ UNCHANGED <<in, closed, taken, usrbuf, block, out>>
    BY <1>2 DEF WriteFails, unix_error, Done, client
  <2>2. /\ alive /\ data \in Messages /\ data \in Seq(Bytes) /\ Len(data) \in Nat
        /\ nleft \in 0..Len(data)
    BY <2>1, Bounds DEF RioInv, CallInv, TypeInv
  <2> DEFINE d == Len(data) - nleft
  <2>3. out = Whole \o SubSeq(data, 1, d) /\ Whole \in Seq(Bytes)
    BY <2>1, WholeFacts
  <2>4. Whole' = out
    BY <2>1 DEF Whole
  <2>5. CASE d = 0
    <3>1. SubSeq(data, 1, d) = << >>
      BY <2>5, SubSeqEmpty, 1 \in Int, 0 \in Int, 0 < 1
    <3>2. Whole' = Whole
      BY <2>3, <2>4, <3>1, ConcatEmptySeq
    <3> QED
      BY <2>1, <2>2, <3>2 DEF Stream!Fail, Whole
  <2>6. CASE d # 0
    <3>1. d \in 1..(Len(data) - 1)
      BY <2>1, <2>2, <2>6
    <3>2. Whole' = Whole \o SubSeq(data, 1, d)
      BY <2>3, <2>4
    <3> HIDE DEF d
    <3>3. \E message \in Messages : \E k \in 1..(Len(message) - 1) :
             Whole' = Whole \o SubSeq(message, 1, k)
      BY <2>2, <3>1, <3>2
    <3> QED
      BY <2>1, <2>2, <3>3 DEF Stream!Fail, Whole
  <2> QED
    BY <2>5, <2>6
<1> QED
  BY <1>1, <1>2

\* The package implements the byte stream: every call is one step that gives the next
\* line or block of the stream, or adds a whole message, whatever pieces the kernel
\* cuts them into (segel.c, the rio functions).
THEOREM RioImplementsStream == Spec => ImplementsStream
<1>1. Init => Stream!Init
  BY DEF Init, Stream!Init
<1>2. RioInv /\ [Next]_vars => [Stream!Next]_Stream!vars
  <2> SUFFICES ASSUME RioInv, [Next]_vars PROVE Stream!Next \/ UNCHANGED Stream!vars
    OBVIOUS
  <2>1. ASSUME NEW b \in Bytes, Send(b) PROVE Stream!Next
    <3>1. Stream!Send(b)
      BY <2>1 DEF Send, Stream!Send, results
    <3> QED
      BY <3>1 DEF Stream!Next
  <2>2. ASSUME Close PROVE Stream!Next
    <3>1. Stream!Close
      BY <2>2 DEF Close, Stream!Close, results
    <3> QED
      BY <3>1 DEF Stream!Next
  <2>3. ASSUME ReadFails \/ ReadDirectlyFails PROVE Stream!Next
    <3>1. op \in {"line", "readnb", "readn"} /\ alive
      BY <2>3 DEF ReadFails, ReadDirectlyFails, Refilling, Wants, RioInv, CallInv
    <3>2. Stream!Fail
      BY <2>3, <3>1 DEF ReadFails, ReadDirectlyFails, unix_error, Done, client, Stream!Fail
    <3> QED
      BY <3>2 DEF Stream!Next
  <2>4. ASSUME ReadEnds \/ FillsBuffer PROVE Stream!Next
    <3>1. /\ op \in {"line", "readnb"} /\ UNCHANGED <<in, closed, out>>
      BY <2>4 DEF ReadEnds, FillsBuffer, Refilling, Wants, client
    <3>2. CASE op = "line"
      <4>1. Stream!Line(size)
        BY <2>4, <3>1, <3>2, LineEnds DEF ReadEnds, FillsBuffer, Refilling
      <4>2. size \in LineSizes
        BY <3>2 DEF RioInv, CallInv
      <4> QED
        BY <4>1, <4>2 DEF Stream!Next
    <3>3. CASE op = "readnb"
      <4>1. size \in BlockSizes /\ Len(data) <= size /\ size \in Nat /\ Len(data) \in Nat
        BY <3>3, Bounds DEF RioInv, CallInv, TypeInv
      <4>2. ReturnBlock(data)
        BY <2>4, <3>3 DEF ReadEnds, EndOfStream, FillsBuffer
      <4>3. Len(data) = size \/ (closed /\ kpos = Len(in) /\ rio_cnt <= 0)
        BY <2>4, <3>3, <4>1 DEF ReadEnds, FillsBuffer, Refilling, Wants
      <4>4. Stream!Block(size)
        BY <3>1, <3>3, <4>2, <4>3, BlockReturned
      <4> QED
        BY <4>1, <4>4 DEF Stream!Next
    <3> QED
      BY <3>1, <3>2, <3>3
  <2>5. ASSUME ReturnDirectly PROVE Stream!Next
    <3>1. op = "readn" /\ ReturnBlock(data) /\ UNCHANGED <<in, closed, out>>
      BY <2>5 DEF ReturnDirectly, client
    <3>2. size \in BlockSizes /\ rio_cnt <= 0
      BY <3>1 DEF RioInv, CallInv
    <3>3. Stream!Block(size)
      BY <2>5, <3>1, <3>2, BlockReturned DEF ReturnDirectly
    <3> QED
      BY <3>2, <3>3 DEF Stream!Next
  <2>6. ASSUME CopyByte, rio_buf[rio_bufptr] = Newline PROVE Stream!Next
    <3>1. Stream!Line(size)
      BY <2>6, LineFound
    <3>2. size \in LineSizes
      BY <2>6 DEF CopyByte, RioInv, CallInv
    <3> QED
      BY <3>1, <3>2 DEF Stream!Next
  <2>7. ASSUME ReturnWritten \/ WriteFails PROVE Stream!Next
    BY <2>7, WriteEnds DEF Stream!Next
  <2>8. ASSUME UNCHANGED vars PROVE UNCHANGED Stream!vars
    BY <2>8 DEF vars, Stream!vars
  <2> QED
    BY <2>1, <2>2, <2>3, <2>4, <2>5, <2>6, <2>7, <2>8, HiddenSteps DEF Next, Progress
<1> QED
  BY <1>1, <1>2, RioInvariant, PTL DEF Spec, ImplementsStream, Stream!Spec

----------------------------------------------------------------------------
(***************************************************************************)
(* The dispatch interval of request.c, for every pair of times and for     *)
(* every number of microseconds in a second, and the statistics of every   *)
(* answer, for every number of workers, requests and header lines.         *)
(***************************************************************************)
\* An ordered pair of times whose microseconds are out of order is ordered by
\* its seconds, strictly.
LEMMA SecondsOrdered ==
    ASSUME NEW d \in Timevals, NEW a \in Timevals, Total(a) <= Total(d)
    PROVE  /\ d.usec < a.usec => a.sec + 1 <= d.sec
           /\ a.sec <= d.sec
<1>1. /\ d.sec \in Nat /\ a.sec \in Nat /\ d.usec \in Nat /\ a.usec \in Nat
      /\ d.usec < USEC /\ a.usec < USEC /\ USEC \in Nat /\ USEC > 0
  BY UsecAssumption DEF Timevals
<1>2. a.sec * USEC + a.usec <= d.sec * USEC + d.usec
  BY DEF Total
<1>3. ASSUME a.sec >= d.sec + 1 PROVE FALSE
  <2>1. a.sec * USEC >= (d.sec + 1) * USEC
    BY <1>1, <1>3
  <2>2. (d.sec + 1) * USEC = d.sec * USEC + USEC
    BY <1>1
  <2> QED
    BY <1>1, <1>2, <2>1, <2>2
<1>4. ASSUME d.usec < a.usec, a.sec = d.sec PROVE FALSE
  BY <1>1, <1>2, <1>4
<1> QED
  BY <1>1, <1>3, <1>4

\* Stat-Req-Dispatch is a normalised time and is exactly the time between
\* arrival and dispatch (request.c:42-58, 153-169, 214-230).
THEOREM IntervalCorrect ==
    ASSUME NEW d \in Timevals, NEW a \in Timevals, Total(a) <= Total(d)
    PROVE  /\ DispatchInterval(d, a) \in Timevals
           /\ Total(DispatchInterval(d, a)) = Total(d) - Total(a)
<1>1. /\ d.sec \in Nat /\ a.sec \in Nat /\ d.usec \in Nat /\ a.usec \in Nat
      /\ d.usec < USEC /\ a.usec < USEC /\ USEC \in Nat /\ USEC > 0
  BY UsecAssumption DEF Timevals
<1>2. Normalise(d) = d /\ Normalise(a) = a
  BY <1>1 DEF Normalise
<1>3. DispatchInterval(d, a) = Subtract(d, a)
  BY <1>2 DEF DispatchInterval
<1>4. CASE d.usec < a.usec
  <2>1. Subtract(d, a) = [sec |-> d.sec - a.sec - 1,
                          usec |-> USEC + d.usec - a.usec]
    BY <1>1, <1>4 DEF Subtract
  <2>2. d.sec - a.sec - 1 \in Nat /\ USEC + d.usec - a.usec \in 0..(USEC - 1)
    BY <1>1, <1>4, SecondsOrdered
  <2>3. (d.sec - a.sec - 1) * USEC = d.sec * USEC - a.sec * USEC - USEC
    BY <1>1
  <2> QED
    BY <1>1, <1>3, <2>1, <2>2, <2>3 DEF Timevals, Total
<1>5. CASE d.usec >= a.usec
  <2>1. Subtract(d, a) = [sec |-> d.sec - a.sec, usec |-> d.usec - a.usec]
    BY <1>1, <1>5 DEF Subtract
  <2>2. d.sec - a.sec \in Nat /\ d.usec - a.usec \in 0..(USEC - 1)
    BY <1>1, <1>5, SecondsOrdered
  <2>3. (d.sec - a.sec) * USEC = d.sec * USEC - a.sec * USEC
    BY <1>1
  <2> QED
    BY <1>1, <1>3, <2>1, <2>2, <2>3 DEF Timevals, Total
<1> QED
  BY <1>1, <1>4, <1>5

----------------------------------------------------------------------------
(***************************************************************************)
(* The answers of one worker as a sequence of records, and the statistics  *)
(* its first n answers amount to.                                          *)
(***************************************************************************)
Answers == [status : {"200", "501", "404", "403"}, static : BOOLEAN,
            method : Methods,
            stats : [thread_count : Nat, thread_static : Nat, thread_dynamic : Nat],
            interval : Timevals, waited : Int]

StaticIn(s, n) == Cardinality({i \in 1..n : IsStatic(s[i])})
DynamicIn(s, n) == Cardinality({i \in 1..n : IsDynamic(s[i])})
StatsAt(s, n) == [thread_count |-> n, thread_static |-> StaticIn(s, n),
                  thread_dynamic |-> DynamicIn(s, n)]

\* Adding n + 1 to a set of numbers up to n adds one to its size.
LEMMA OneMore ==
    ASSUME NEW n \in Nat, NEW S \in SUBSET (1..n)
    PROVE  /\ Cardinality(S) \in Nat
           /\ Cardinality(S \cup {n + 1}) = Cardinality(S) + 1
<1>1. IsFiniteSet(S)
  <2>1. IsFiniteSet(1..n)
    BY FS_Interval
  <2> QED
    BY <2>1, FS_Subset
<1>2. n + 1 \notin S
  OBVIOUS
<1> QED
  BY <1>1, <1>2, FS_CardinalityType, FS_AddElement

\* An answer at the end of the history is counted once, as what it is, and what the
\* earlier ones amounted to stays as it was.
LEMMA CountAppend ==
    ASSUME NEW s \in Seq(Answers), NEW a \in Answers
    PROVE  /\ \A n \in 0..Len(s) : /\ StaticIn(Append(s, a), n) = StaticIn(s, n)
                                   /\ DynamicIn(Append(s, a), n) = DynamicIn(s, n)
           /\ StaticIn(Append(s, a), Len(s) + 1)
                 = StaticIn(s, Len(s)) + (IF IsStatic(a) THEN 1 ELSE 0)
           /\ DynamicIn(Append(s, a), Len(s) + 1)
                 = DynamicIn(s, Len(s)) + (IF IsDynamic(a) THEN 1 ELSE 0)
<1> DEFINE t == Append(s, a)
           m == Len(s)
           S == {i \in 1..m : IsStatic(s[i])}
           D == {i \in 1..m : IsDynamic(s[i])}
<1>1. m \in Nat /\ (\A i \in 1..m : t[i] = s[i]) /\ t[m + 1] = a
  BY AppendProperties, LenProperties
<1>2. ASSUME NEW n \in 0..m
      PROVE  /\ {i \in 1..n : IsStatic(t[i])} = {i \in 1..n : IsStatic(s[i])}
             /\ {i \in 1..n : IsDynamic(t[i])} = {i \in 1..n : IsDynamic(s[i])}
  BY <1>1
<1>3. \A n \in 0..m : StaticIn(t, n) = StaticIn(s, n) /\ DynamicIn(t, n) = DynamicIn(s, n)
  BY <1>2 DEF StaticIn, DynamicIn
<1>4. StaticIn(t, m + 1) = StaticIn(s, m) + (IF IsStatic(a) THEN 1 ELSE 0)
  <2>1. {i \in 1..(m + 1) : IsStatic(t[i])} = IF IsStatic(a) THEN S \cup {m + 1} ELSE S
    BY <1>1
  <2>2. S \in SUBSET (1..m)
    OBVIOUS
  <2>3. Cardinality(S) \in Nat /\ Cardinality(S \cup {m + 1}) = Cardinality(S) + 1
    BY <1>1, <2>2, OneMore
  <2> HIDE DEF S, m, t
  <2>4. Cardinality(IF IsStatic(a) THEN S \cup {m + 1} ELSE S)
           = Cardinality(S) + (IF IsStatic(a) THEN 1 ELSE 0)
    BY <2>3
  <2> QED
    BY <2>1, <2>4 DEF StaticIn, S
<1>5. DynamicIn(t, m + 1) = DynamicIn(s, m) + (IF IsDynamic(a) THEN 1 ELSE 0)
  <2>1. {i \in 1..(m + 1) : IsDynamic(t[i])} = IF IsDynamic(a) THEN D \cup {m + 1} ELSE D
    BY <1>1
  <2>2. D \in SUBSET (1..m)
    OBVIOUS
  <2>3. Cardinality(D) \in Nat /\ Cardinality(D \cup {m + 1}) = Cardinality(D) + 1
    BY <1>1, <2>2, OneMore
  <2> HIDE DEF D, m, t
  <2>4. Cardinality(IF IsDynamic(a) THEN D \cup {m + 1} ELSE D)
           = Cardinality(D) + (IF IsDynamic(a) THEN 1 ELSE 0)
    BY <2>3
  <2> QED
    BY <2>1, <2>4 DEF DynamicIn, D
<1> QED
  BY <1>3, <1>4, <1>5

----------------------------------------------------------------------------
\* What the statistics need to be inductive: the answers are records, a request that
\* was classified was classified by its uri (request.c:262-292), and the clock did not
\* go back between the two times of the request under way.
AnswersTyped == answers \in [Threads -> Seq(Answers)]

Classified ==
    \A w \in Threads :
       /\ rpc[w] \in {"static", "empty"} => ParseURI(req[w].uri).static
       /\ rpc[w] = "dynamic" => ~ParseURI(req[w].uri).static

ClockOrdered ==
    \A w \in Threads : rpc[w] # "idle" => Total(req[w].arrival) <= Total(req[w].dispatch)

RequestInv ==
    /\ StatsInv /\ IntervalExact
    /\ AnswersTyped /\ Classified /\ ClockOrdered

\* What the statistics hold in a state of requestHandle.
StatsDuring(s, pc) ==
    [thread_count |-> Len(s) + (IF pc \in {"idle", "cgi"} THEN 0 ELSE 1),
     thread_static |-> StaticIn(s, Len(s)) + (IF pc \in {"static", "empty"} THEN 1 ELSE 0),
     thread_dynamic |-> DynamicIn(s, Len(s)) + (IF pc \in {"dynamic"} THEN 1 ELSE 0)]

\* The two statements about the statistics, worker by worker, in terms of its answers.
LEMMA StatsByWorker ==
    /\ StatsTellHistory <=>
          \A w \in Threads : \A n \in 1..Len(answers[w]) :
             answers[w][n].stats = StatsAt(answers[w], n)
    /\ StatsPending <=>
          \A w \in Threads : stats[w] = StatsDuring(answers[w], rpc[w])
  BY DEF StatsTellHistory, StatsPending, CountOf, StatsAt, StatsDuring, StaticIn, DynamicIn

\* The counts are natural numbers.
LEMMA CountsAreNat ==
    ASSUME NEW s, NEW n \in Nat
    PROVE  StaticIn(s, n) \in Nat /\ DynamicIn(s, n) \in Nat
<1>1. /\ {i \in 1..n : IsStatic(s[i])} \in SUBSET (1..n)
      /\ {i \in 1..n : IsDynamic(s[i])} \in SUBSET (1..n)
  OBVIOUS
<1> QED
  BY <1>1, OneMore DEF StaticIn, DynamicIn

\* requestParseURI tells static from dynamic for every uri.
LEMMA ParseURIType ==
    ASSUME NEW u \in Uris
    PROVE  ParseURI(u).static \in BOOLEAN
  BY UrisAssumption DEF ParseURI

\* What a worker answers is a record of the expected type, with the right interval.
LEMMA AnswerType ==
    ASSUME RequestTypeOK, ClockOrdered, NEW w \in Threads, rpc[w] # "idle",
           NEW status \in {"200", "501", "404", "403"}
    PROVE  /\ Answer(w, status) \in Answers
           /\ Answer(w, status).interval \in Timevals
           /\ Total(Answer(w, status).interval) = Answer(w, status).waited
<1> DEFINE d == req[w].dispatch
           a == req[w].arrival
<1>1. req[w] \in Requests /\ stats[w] \in [thread_count : Nat, thread_static : Nat,
                                            thread_dynamic : Nat]
  BY DEF RequestTypeOK
<1>2. d \in Timevals /\ a \in Timevals /\ req[w].method \in Methods /\ req[w].uri \in Uris
  BY <1>1, TimesAssumption DEF Requests
<1>3. Total(a) <= Total(d)
  BY DEF ClockOrdered
<1>4. Total(a) \in Int /\ Total(d) \in Int
  <2>1. /\ a.sec \in Int /\ a.usec \in Int /\ d.sec \in Int /\ d.usec \in Int
        /\ USEC \in Int
    BY <1>2, UsecAssumption DEF Timevals
  <2> QED
    BY <2>1 DEF Total
<1>5. DispatchInterval(d, a) \in Timevals /\ Total(DispatchInterval(d, a)) = Total(d) - Total(a)
  BY <1>2, <1>3, IntervalCorrect
<1>6. ParseURI(req[w].uri).static \in BOOLEAN
  BY <1>2, ParseURIType
<1> QED
  BY <1>1, <1>2, <1>4, <1>5, <1>6 DEF Answer, Answers

\* Initially nothing was handled.
LEMMA RequestStarts == RequestInit => RequestInv
<1> SUFFICES ASSUME RequestInit PROVE RequestInv
  OBVIOUS
<1> USE DEF RequestInit
<1>1. RequestTypeOK
  <2>1. Requests # {}
    <3>1. PICK u \in Uris, e \in Endings, t \in Times : TRUE
      BY RequestsAssumption
    <3>2. [method |-> "GET", uri |-> u, ending |-> e, arrival |-> t, dispatch |-> t]
             \in Requests
      BY <3>1, MethodsAssumption DEF Requests
    <3> QED
      BY <3>2
  <2>2. (CHOOSE r \in Requests : TRUE) \in Requests
    BY <2>1
  <2>3. req \in [Threads -> Requests]
    <3> DEFINE r0 == CHOOSE r \in Requests : TRUE
    <3>1. req \in [Threads -> {r0}] /\ r0 \in Requests
      BY <2>2
    <3> HIDE DEF r0
    <3> QED
      BY <3>1
  <2>4. /\ rpc \in [Threads -> {"idle"}]
        /\ lines \in [Threads -> 0..MaxHeaders]
        /\ buf \in [Threads -> {"unset", "header", "blank"}]
    BY RequestsAssumption
  <2>5. stats \in [Threads -> [thread_count : Nat, thread_static : Nat,
                              thread_dynamic : Nat]]
    OBVIOUS
  <2> QED
    BY <2>3, <2>4, <2>5 DEF RequestTypeOK
<1>2. ASSUME NEW w \in Threads
      PROVE  answers[w] = << >> /\ Len(answers[w]) = 0 /\ rpc[w] = "idle"
  OBVIOUS
<1>3. StatsTellHistory /\ IntervalExact
  BY <1>2 DEF StatsTellHistory, IntervalExact
<1>4. StatsPending
  <2>1. ASSUME NEW w \in Threads PROVE stats[w] = StatsDuring(answers[w], rpc[w])
    <3>1. /\ {i \in 1..0 : IsStatic(answers[w][i])} = {}
          /\ {i \in 1..0 : IsDynamic(answers[w][i])} = {}
      OBVIOUS
    <3>2. StaticIn(answers[w], 0) = 0 /\ DynamicIn(answers[w], 0) = 0
      BY <3>1, FS_EmptySet DEF StaticIn, DynamicIn
    <3> QED
      BY <1>2, <3>2 DEF StatsDuring
  <2> QED
    BY <2>1, StatsByWorker
<1>5. AnswersTyped /\ Classified /\ ClockOrdered
  BY <1>2 DEF AnswersTyped, Classified, ClockOrdered
<1> QED
  BY <1>1, <1>3, <1>4, <1>5 DEF RequestInv, StatsInv

\* A step that sends nothing keeps the history, and the rest of the invariant if the
\* statistics of its worker follow where the worker is.
LEMMA NothingSent ==
    ASSUME RequestInv, UNCHANGED answers, RequestTypeOK', NEW w \in Threads,
           \A v \in Threads \ {w} : /\ rpc'[v] = rpc[v] /\ stats'[v] = stats[v]
                                    /\ req'[v] = req[v],
           stats'[w] = StatsDuring(answers[w], rpc'[w]),
           rpc'[w] \in {"static", "empty"} => ParseURI(req'[w].uri).static,
           rpc'[w] = "dynamic" => ~ParseURI(req'[w].uri).static,
           rpc'[w] # "idle" => Total(req'[w].arrival) <= Total(req'[w].dispatch)
    PROVE  RequestInv'
<1> USE DEF RequestInv, StatsInv
<1>1. StatsTellHistory' /\ IntervalExact' /\ AnswersTyped'
  BY DEF StatsTellHistory, CountOf, IntervalExact, AnswersTyped
<1>2. StatsPending'
  <2>1. \A v \in Threads : stats[v] = StatsDuring(answers[v], rpc[v])
    BY StatsByWorker
  <2>2. \A v \in Threads : stats'[v] = StatsDuring(answers'[v], rpc'[v])
    BY <2>1
  <2> QED
    BY <2>2 DEF StatsPending, CountOf, StatsDuring, StaticIn, DynamicIn
<1>3. Classified' /\ ClockOrdered'
  BY DEF Classified, ClockOrdered
<1> QED
  BY <1>1, <1>2, <1>3

\* Sending the answer: the statistics kept become the statistics reported.
LEMMA AnswerSent ==
    ASSUME RequestInv, NEW w \in Threads, SendAnswer(w)
    PROVE  RequestInv'
<1> USE DEF RequestInv, StatsInv
<1> DEFINE s == answers[w]
           status == IF rpc[w] \in {"static", "dynamic"} THEN "200" ELSE rpc[w]
           a == Answer(w, status)
<1>1. /\ rpc[w] \in {"501", "404", "403", "static", "dynamic"}
      /\ answers' = [answers EXCEPT ![w] = Append(s, a)]
      /\ rpc' = [rpc EXCEPT ![w] = IF rpc[w] = "dynamic" THEN "cgi" ELSE "idle"]
      /\ UNCHANGED <<stats, req, lines, buf, exited>>
  BY DEF SendAnswer
<1>2. RequestTypeOK'
  BY <1>1 DEF RequestTypeOK
<1>3. status \in {"200", "501", "404", "403"}
  BY <1>1
<1>4. a \in Answers /\ a.interval \in Timevals /\ Total(a.interval) = a.waited
  BY <1>1, <1>3, AnswerType
<1>5. s \in Seq(Answers) /\ Len(s) \in Nat
  BY LenProperties DEF AnswersTyped
<1>6. /\ answers'[w] = Append(s, a) /\ Len(answers'[w]) = Len(s) + 1
      /\ \A v \in Threads \ {w} : answers'[v] = answers[v]
      /\ \A n \in 1..Len(s) : answers'[w][n] = s[n]
      /\ answers'[w][Len(s) + 1] = a
  BY <1>1, <1>4, <1>5, AppendProperties DEF AnswersTyped
<1>7. a.stats = stats[w] /\ a.status = status /\ a.static = ParseURI(req[w].uri).static
  BY DEF Answer
<1>8. /\ IsStatic(a) <=> rpc[w] = "static"
      /\ IsDynamic(a) <=> rpc[w] = "dynamic"
  BY <1>1, <1>7 DEF IsStatic, IsDynamic, Classified
<1> HIDE DEF s, status, a
<1>9. /\ \A n \in 0..Len(s) : StaticIn(answers'[w], n) = StaticIn(s, n)
                              /\ DynamicIn(answers'[w], n) = DynamicIn(s, n)
      /\ StaticIn(answers'[w], Len(s) + 1)
            = StaticIn(s, Len(s)) + (IF rpc[w] = "static" THEN 1 ELSE 0)
      /\ DynamicIn(answers'[w], Len(s) + 1)
            = DynamicIn(s, Len(s)) + (IF rpc[w] = "dynamic" THEN 1 ELSE 0)
  BY <1>4, <1>5, <1>6, <1>8, CountAppend
<1>10. StaticIn(s, Len(s)) \in Nat /\ DynamicIn(s, Len(s)) \in Nat
  BY <1>5, CountsAreNat
<1>11. stats[w] = StatsDuring(s, rpc[w])
  BY StatsByWorker DEF s
<1>12. stats[w] = StatsAt(answers'[w], Len(s) + 1)
  BY <1>1, <1>9, <1>11 DEF StatsDuring, StatsAt
<1>13. StatsTellHistory'
  <2>1. ASSUME NEW v \in Threads, NEW n \in 1..Len(answers'[v])
        PROVE  answers'[v][n].stats = StatsAt(answers'[v], n)
    <3>1. CASE v # w
      <4>1. answers[v][n].stats = StatsAt(answers[v], n)
        BY <1>6, <3>1, StatsByWorker
      <4> QED
        BY <1>6, <3>1, <4>1
    <3>2. CASE v = w /\ n = Len(s) + 1
      BY <1>6, <1>7, <1>12, <3>2
    <3>3. CASE v = w /\ n \in 1..Len(s)
      <4>1. s[n].stats = StatsAt(s, n)
        BY <3>3, StatsByWorker DEF s
      <4>2. StatsAt(answers'[w], n) = StatsAt(s, n)
        <5>1. n \in 0..Len(s)
          BY <1>5, <3>3
        <5> QED
          BY <1>9, <5>1 DEF StatsAt
      <4>3. answers'[w][n] = s[n]
        BY <1>6, <3>3
      <4> QED
        BY <3>3, <4>1, <4>2, <4>3
    <3> QED
      BY <1>5, <1>6, <3>1, <3>2, <3>3
  <2> QED
    BY <2>1 DEF StatsTellHistory, CountOf, StatsAt, StaticIn, DynamicIn
<1>14. StatsPending'
  <2>1. ASSUME NEW v \in Threads PROVE stats'[v] = StatsDuring(answers'[v], rpc'[v])
    <3>1. CASE v # w
      BY <1>1, <1>6, <3>1, StatsByWorker DEF RequestTypeOK
    <3>2. CASE v = w
      <4>1. rpc'[w] \in {"cgi", "idle"}
        BY <1>1 DEF RequestTypeOK
      <4>2. StaticIn(answers'[w], Len(s) + 1) \in Nat /\ DynamicIn(answers'[w], Len(s) + 1) \in Nat
        BY <1>9, <1>10
      <4> QED
        BY <1>1, <1>5, <1>6, <1>12, <3>2, <4>1, <4>2 DEF StatsDuring, StatsAt
    <3> QED
      BY <3>1, <3>2
  <2> QED
    BY <2>1 DEF StatsPending, CountOf, StatsDuring, StaticIn, DynamicIn
<1>15. AnswersTyped'
  BY <1>1, <1>4, <1>5, AppendProperties DEF AnswersTyped
<1>16. IntervalExact'
  <2>1. ASSUME NEW v \in Threads, NEW n \in 1..Len(answers'[v])
        PROVE  /\ answers'[v][n].interval \in Timevals
               /\ Total(answers'[v][n].interval) = answers'[v][n].waited
    <3>1. CASE v # w
      BY <1>6, <3>1 DEF IntervalExact
    <3>2. CASE v = w /\ n = Len(s) + 1
      BY <1>4, <1>6, <3>2
    <3>3. CASE v = w /\ n \in 1..Len(s)
      <4>1. s[n].interval \in Timevals /\ Total(s[n].interval) = s[n].waited
        BY <3>3 DEF IntervalExact, s
      <4> QED
        BY <1>6, <3>3, <4>1
    <3> QED
      BY <1>5, <1>6, <3>1, <3>2, <3>3
  <2> QED
    BY <2>1 DEF IntervalExact
<1>17. Classified' /\ ClockOrdered'
  BY <1>1 DEF Classified, ClockOrdered, RequestTypeOK
<1> QED
  BY <1>2, <1>13, <1>14, <1>15, <1>16, <1>17

\* What StatsDuring says of each state, without its conditionals.
LEMMA StatsDuringAt ==
    ASSUME NEW s, NEW n, NEW x, NEW y, n \in Nat, x \in Nat, y \in Nat,
           n = Len(s), x = StaticIn(s, n), y = DynamicIn(s, n)
    PROVE  /\ \A pc \in {"idle", "cgi"} : StatsDuring(s, pc)
                 = [thread_count |-> n, thread_static |-> x, thread_dynamic |-> y]
           /\ \A pc \in {"line", "headers", "501", "404", "403"} : StatsDuring(s, pc)
                 = [thread_count |-> n + 1, thread_static |-> x, thread_dynamic |-> y]
           /\ \A pc \in {"static", "empty"} : StatsDuring(s, pc)
                 = [thread_count |-> n + 1, thread_static |-> x + 1, thread_dynamic |-> y]
           /\ StatsDuring(s, "dynamic")
                 = [thread_count |-> n + 1, thread_static |-> x, thread_dynamic |-> y + 1]
<1> DEFINE f(pc) == IF pc \in {"idle", "cgi"} THEN 0 ELSE 1
           g(pc) == IF pc \in {"static", "empty"} THEN 1 ELSE 0
           h(pc) == IF pc \in {"dynamic"} THEN 1 ELSE 0
<1>1. \A pc : StatsDuring(s, pc) = [thread_count |-> n + f(pc), thread_static |-> x + g(pc),
                                    thread_dynamic |-> y + h(pc)]
  BY DEF StatsDuring
<1>2. /\ n + 0 = n /\ x + 0 = x /\ y + 0 = y
  OBVIOUS
<1>3. /\ \A pc \in {"idle", "cgi"} : f(pc) = 0 /\ g(pc) = 0 /\ h(pc) = 0
      /\ \A pc \in {"line", "headers", "501", "404", "403"} : f(pc) = 1 /\ g(pc) = 0 /\ h(pc) = 0
      /\ \A pc \in {"static", "empty"} : f(pc) = 1 /\ g(pc) = 1 /\ h(pc) = 0
      /\ f("dynamic") = 1 /\ g("dynamic") = 0 /\ h("dynamic") = 1
  OBVIOUS
<1> HIDE DEF f, g, h
<1> QED
  BY <1>1, <1>2, <1>3

\* The three updates of struct Stats.
LEMMA StatsUpdates ==
    ASSUME NEW x \in Nat, NEW y \in Nat, NEW z \in Nat,
           NEW t, t = [thread_count |-> x, thread_static |-> y, thread_dynamic |-> z]
    PROVE  /\ [t EXCEPT !.thread_count = @ + 1]
                 = [thread_count |-> x + 1, thread_static |-> y, thread_dynamic |-> z]
           /\ [t EXCEPT !.thread_static = @ + 1]
                 = [thread_count |-> x, thread_static |-> y + 1, thread_dynamic |-> z]
           /\ [t EXCEPT !.thread_dynamic = @ + 1]
                 = [thread_count |-> x, thread_static |-> y, thread_dynamic |-> z + 1]
  OBVIOUS

\* Every step of requestHandle keeps the invariant.
LEMMA RequestStep == RequestInv /\ [RequestNext]_requestVars => RequestInv'
<1> SUFFICES ASSUME RequestInv, [RequestNext]_requestVars PROVE RequestInv'
  OBVIOUS
<1> USE DEF RequestInv, StatsInv
<1>0. \A w \in Threads : /\ stats[w] = StatsDuring(answers[w], rpc[w])
                         /\ Len(answers[w]) \in Nat
                         /\ StaticIn(answers[w], Len(answers[w])) \in Nat
                         /\ DynamicIn(answers[w], Len(answers[w])) \in Nat
  BY StatsByWorker, LenProperties, CountsAreNat DEF AnswersTyped
<1>1. ASSUME NEW w \in Threads, NEW r \in Requests, Begin(w, r) PROVE RequestInv'
  <2> DEFINE c == CountRequest(stats[w])
  <2>1. c = StatsDuring(answers[w], "line")
    <3>1. rpc[w] = "idle"
      BY <1>1 DEF Begin
    <3> DEFINE n == Len(answers[w])
               x == StaticIn(answers[w], n)
               y == DynamicIn(answers[w], n)
    <3>2. n \in Nat /\ x \in Nat /\ y \in Nat /\ stats[w] = StatsDuring(answers[w], "idle")
      BY <1>0, <3>1
    <3>3. /\ StatsDuring(answers[w], "idle")
                = [thread_count |-> n, thread_static |-> x, thread_dynamic |-> y]
          /\ StatsDuring(answers[w], "line")
                = [thread_count |-> n + 1, thread_static |-> x, thread_dynamic |-> y]
      BY <3>2, StatsDuringAt
    <3> HIDE DEF n, x, y
    <3> QED
      BY <3>2, <3>3, StatsUpdates DEF CountRequest
  <2>2. c \in [thread_count : Nat, thread_static : Nat, thread_dynamic : Nat]
    BY <1>0, <2>1, StatsDuringAt
  <2>3. /\ stats' = [stats EXCEPT ![w] = c] /\ req' = [req EXCEPT ![w] = r]
        /\ rpc' = [rpc EXCEPT ![w] = "line"] /\ buf' = [buf EXCEPT ![w] = "unset"]
        /\ UNCHANGED <<answers, exited>> /\ Total(r.arrival) <= Total(r.dispatch)
    BY <1>1 DEF Begin
  <2>4. lines' \in [Threads -> 0..MaxHeaders]
    BY <1>1 DEF Begin, RequestTypeOK
  <2> HIDE DEF c
  <2>5. RequestTypeOK'
    BY <1>1, <2>2, <2>3, <2>4 DEF RequestTypeOK
  <2> QED
    BY <2>1, <2>3, <2>5, NothingSent DEF RequestTypeOK
<1>2. ASSUME NEW w \in Threads, ReadRequestLine(w) PROVE RequestInv'
  <2>1. RequestTypeOK'
    BY <1>2 DEF ReadRequestLine, RequestTypeOK
  <2>2. stats'[w] = StatsDuring(answers[w], rpc'[w]) /\ rpc'[w] \in {"headers", "501"}
    BY <1>0, <1>2 DEF ReadRequestLine, RequestTypeOK, StatsDuring
  <2> QED
    BY <1>2, <2>1, <2>2, NothingSent DEF ReadRequestLine, RequestTypeOK, ClockOrdered
<1>3. ASSUME NEW w \in Threads, ReadHeader(w) PROVE RequestInv'
  <2>1. UNCHANGED <<rpc, stats, req, answers, exited>>
    BY <1>3 DEF ReadHeader
  <2>2. lines' \in [Threads -> 0..MaxHeaders] /\ buf' \in [Threads -> {"unset", "header", "blank"}]
    BY <1>3, RequestsAssumption DEF ReadHeader, RequestTypeOK, LineComes
  <2>3. RequestTypeOK'
    BY <2>1, <2>2 DEF RequestTypeOK
  <2> QED
    BY <1>0, <2>1, <2>3, NothingSent DEF Classified, ClockOrdered
<1>4. ASSUME NEW w \in Threads, Classify(w) PROVE RequestInv'
  <2>1. UNCHANGED <<req, lines, buf, answers, exited>> /\ rpc[w] = "headers"
    BY <1>4 DEF Classify
  <2>2. /\ \A v \in Threads \ {w} : rpc'[v] = rpc[v] /\ stats'[v] = stats[v]
        /\ rpc'[w] \in {"404", "403", "static", "empty", "dynamic"}
        /\ rpc'[w] \in {"static", "empty"} => ParseURI(req[w].uri).static
        /\ rpc'[w] = "dynamic" => ~ParseURI(req[w].uri).static
    BY <1>4 DEF Classify, RequestTypeOK
  <2>3. RequestTypeOK'
    BY <1>4 DEF Classify, RequestTypeOK
  <2>4. stats'[w] = StatsDuring(answers[w], rpc'[w])
    <3> DEFINE n == Len(answers[w])
               x == StaticIn(answers[w], n)
               y == DynamicIn(answers[w], n)
    <3>1. /\ stats[w] = [thread_count |-> n + 1, thread_static |-> x, thread_dynamic |-> y]
          /\ n \in Nat /\ x \in Nat /\ y \in Nat
      BY <1>0, <2>1, StatsDuringAt
    <3>2. CASE rpc'[w] \in {"404", "403"} /\ stats' = stats
      BY <3>1, <3>2, StatsDuringAt
    <3>3. CASE /\ rpc'[w] \in {"empty", "static"}
               /\ stats' = [stats EXCEPT ![w].thread_static = @ + 1]
      <4>1. stats'[w] = [stats[w] EXCEPT !.thread_static = @ + 1]
        BY <3>3 DEF RequestTypeOK
      <4>2. StatsDuring(answers[w], rpc'[w])
               = [thread_count |-> n + 1, thread_static |-> x + 1, thread_dynamic |-> y]
        BY <3>1, <3>3, StatsDuringAt
      <4>3. n + 1 \in Nat
        BY <3>1
      <4> HIDE DEF n, x, y
      <4> QED
        BY <3>1, <4>1, <4>2, <4>3, StatsUpdates
    <3>4. CASE /\ rpc'[w] = "dynamic"
               /\ stats' = [stats EXCEPT ![w].thread_dynamic = @ + 1]
      <4>1. stats'[w] = [stats[w] EXCEPT !.thread_dynamic = @ + 1]
        BY <3>4 DEF RequestTypeOK
      <4>2. StatsDuring(answers[w], rpc'[w])
               = [thread_count |-> n + 1, thread_static |-> x, thread_dynamic |-> y + 1]
        BY <3>1, <3>4, StatsDuringAt
      <4>3. n + 1 \in Nat
        BY <3>1
      <4> HIDE DEF n, x, y
      <4> QED
        BY <3>1, <4>1, <4>2, <4>3, StatsUpdates
    <3> QED
      BY <1>4, <3>2, <3>3, <3>4 DEF Classify, RequestTypeOK
  <2> QED
    BY <2>1, <2>2, <2>3, <2>4, NothingSent DEF ClockOrdered
<1>5. ASSUME NEW w \in Threads, SendAnswer(w) PROVE RequestInv'
  BY <1>5, AnswerSent
<1>6. ASSUME NEW w \in Threads, CgiEnds(w) PROVE RequestInv'
  <2>1. RequestTypeOK'
    BY <1>6 DEF CgiEnds, RequestTypeOK
  <2>2. stats'[w] = StatsDuring(answers[w], rpc'[w]) /\ rpc'[w] = "idle"
    BY <1>0, <1>6 DEF CgiEnds, RequestTypeOK, StatsDuring
  <2> QED
    BY <1>6, <2>1, <2>2, NothingSent DEF CgiEnds, RequestTypeOK
<1>7. ASSUME NEW w \in Threads, WrapperFails(w) PROVE RequestInv'
  <2>1. RequestTypeOK'
    BY <1>7 DEF WrapperFails, RequestTypeOK
  <2> QED
    BY <1>0, <1>7, <2>1, NothingSent DEF WrapperFails, Classified, ClockOrdered
<1>8. ASSUME UNCHANGED requestVars PROVE RequestInv'
  <2>1. StatsTellHistory' /\ StatsPending'
    <3>1. stats' = stats /\ answers' = answers /\ rpc' = rpc
      BY <1>8 DEF requestVars
    <3>2. StatsTellHistory'
      BY <3>1 DEF StatsTellHistory, CountOf
    <3>3. StatsPending'
      BY <3>1 DEF StatsPending, CountOf
    <3> QED
      BY <3>2, <3>3
  <2>4. IntervalExact'
    BY <1>8 DEF requestVars, IntervalExact
  <2>2. RequestTypeOK' /\ AnswersTyped'
    BY <1>8 DEF requestVars, RequestTypeOK, AnswersTyped
  <2>3. Classified' /\ ClockOrdered'
    BY <1>8 DEF requestVars, Classified, ClockOrdered
  <2> QED
    BY <2>1, <2>2, <2>3, <2>4
<1> QED
  BY <1>1, <1>2, <1>3, <1>4, <1>5, <1>6, <1>7, <1>8 DEF RequestNext, Step

\* Every answer of every worker reports how many requests the worker has handled, and
\* how many of them were static and dynamic, the one answered included and whatever
\* became of the others (request.c:251, 281, 288 against 61-64).
THEOREM StatsCorrect == RequestSpec => []StatsInv
<1>1. RequestInv => StatsInv
  BY DEF RequestInv
<1> QED
  BY <1>1, RequestStarts, RequestStep, PTL DEF RequestSpec

\* Every answer reports the time its request waited, exactly, in normalised form
\* (request.c:42-58, 153-169, 214-230).
THEOREM IntervalsExact == RequestSpec => []IntervalExact
<1>1. RequestInv => IntervalExact
  BY DEF RequestInv
<1> QED
  BY <1>1, RequestStarts, RequestStep, PTL DEF RequestSpec
=============================================================================
