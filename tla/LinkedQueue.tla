---------------------------- MODULE LinkedQueue ----------------------------
(***************************************************************************)
(* HW3Wet/queue.c: the waiting queue as a doubly linked list between two   *)
(* dummy nodes, on a heap whose nodes are recycled.  Every call is made    *)
(* with m1 held, so one operation runs at a time; the walk of random_drop  *)
(* is one step per pointer followed.                                       *)
(*                                                                         *)
(* The variable order is not in the code: it records which nodes are in    *)
(* the list, oldest first, and is what the pointers are compared with.     *)
(***************************************************************************)
EXTENDS Integers, Sequences, FiniteSets

CONSTANTS
    Nodes,        \* addresses malloc can return
    HeadNode, EndNode, NULL,
    Fds, NoFd

ASSUME NodesAssumption ==
    /\ HeadNode \notin Nodes /\ EndNode \notin Nodes /\ HeadNode # EndNode
    /\ NULL \notin Nodes \cup {HeadNode, EndNode}
    /\ NoFd \notin Fds

AllNodes == Nodes \cup {HeadNode, EndNode}

VARIABLES
    fd, next, prev,       \* the fields of every node
    waiting_queue_size,
    allocated,            \* nodes malloc returned and free has not taken back
    held,                 \* dequeued nodes their caller has not freed yet
    cursor, left,         \* random_drop: node reached, steps still to walk
    returned,             \* fd of the node the last operation took out
    order

queueVars == <<fd, next, prev, waiting_queue_size, allocated, held, cursor, left,
               returned, order>>

Idle == cursor = NULL

\* createQueue
QueueInit ==
    /\ fd = [n \in AllNodes |-> NoFd]
    /\ next = [n \in AllNodes |-> IF n = HeadNode THEN EndNode ELSE NULL]
    /\ prev = [n \in AllNodes |-> IF n = EndNode THEN HeadNode ELSE NULL]
    /\ waiting_queue_size = 0
    /\ allocated = {} /\ held = {}
    /\ cursor = NULL /\ left = 0
    /\ returned = NoFd
    /\ order = << >>

\* The four assignments of enqueue, in which end_prev is read first.
LinkLast(n) ==
    /\ prev' = [prev EXCEPT ![EndNode] = n, ![n] = prev[EndNode]]
    /\ next' = [next EXCEPT ![n] = EndNode, ![prev[EndNode]] = n]

\* Fault: the successor still points back to the removed node.
UnlinkForwardOnly(n) ==
    /\ prev' = prev
    /\ next' = [next EXCEPT ![prev[n]] = next[n]]

\* n->next->prev = n->prev; n->prev->next = n->next
Unlink(n) ==
    /\ prev' = [prev EXCEPT ![next[n]] = prev[n]]
    /\ next' = [next EXCEPT ![prev[n]] = next[n]]

Enqueue(f) ==
    /\ Idle
    /\ \E n \in Nodes \ allocated :
          /\ allocated' = allocated \cup {n}
          /\ fd' = [fd EXCEPT ![n] = f]
          /\ LinkLast(n)
          /\ order' = Append(order, n)
    /\ waiting_queue_size' = waiting_queue_size + 1
    /\ returned' = NoFd
    /\ UNCHANGED <<held, cursor, left>>

\* The callers test waiting_queue_size first (server.c:88, 154).
Dequeue ==
    /\ Idle /\ waiting_queue_size > 0
    /\ Unlink(next[HeadNode])
    /\ held' = held \cup {next[HeadNode]}
    /\ returned' = fd[next[HeadNode]]
    /\ waiting_queue_size' = waiting_queue_size - 1
    /\ order' = Tail(order)
    /\ UNCHANGED <<fd, allocated, cursor, left>>

\* free(cur_req), free(node_to_delete): the caller is done with the node.
FreeNode(n) ==
    /\ Idle /\ n \in held
    /\ held' = held \ {n}
    /\ allocated' = allocated \ {n}
    /\ UNCHANGED <<fd, next, prev, waiting_queue_size, cursor, left, returned,
                   order>>

\* Fault: the walk starts at the dummy head.
FirstIsHead == HeadNode

\* node_to_remove = queue->head->next
First == next[HeadNode]

\* random_drop(queue, i), called with i = rand() % waiting_queue_size.
RandomDrop(i) ==
    /\ Idle /\ i < waiting_queue_size
    /\ cursor' = First
    /\ left' = i
    /\ UNCHANGED <<fd, next, prev, waiting_queue_size, allocated, held,
                   returned, order>>

WalkStep ==
    /\ ~Idle /\ left > 0
    /\ cursor' = next[cursor]
    /\ left' = left - 1
    /\ UNCHANGED <<fd, next, prev, waiting_queue_size, allocated, held,
                   returned, order>>

\* A sequence without its k-th element.
Without(q, k) ==
    [j \in 1..(Len(q) - 1) |-> IF j < k THEN q[j] ELSE q[j + 1]]

\* The ghost position of the cursor.
CursorIndex == CHOOSE i \in 1..Len(order) : order[i] = cursor

DropCursor ==
    /\ ~Idle /\ left = 0
    /\ Unlink(cursor)
    /\ waiting_queue_size' = waiting_queue_size - 1
    /\ returned' = fd[cursor]
    /\ allocated' = allocated \ {cursor}
    /\ order' = Without(order, CursorIndex)
    /\ cursor' = NULL
    /\ UNCHANGED <<fd, held, left>>

QueueNext ==
    \/ \E f \in Fds : Enqueue(f)
    \/ Dequeue
    \/ \E n \in Nodes : FreeNode(n)
    \/ \E i \in 0..(Cardinality(Nodes) - 1) : RandomDrop(i)
    \/ WalkStep
    \/ DropCursor

QueueSpec == QueueInit /\ [][QueueNext]_queueVars

----------------------------------------------------------------------------
\* The type invariant of the nodes and the heap they live in.
TypeOK ==
    /\ fd \in [AllNodes -> Fds \cup {NoFd}]
    /\ next \in [AllNodes -> AllNodes \cup {NULL}]
    /\ prev \in [AllNodes -> AllNodes \cup {NULL}]
    /\ waiting_queue_size \in Nat
    /\ allocated \in SUBSET Nodes
    /\ held \in SUBSET allocated
    /\ cursor \in Nodes \cup {NULL}
    /\ left \in Nat
    /\ returned \in Fds \cup {NoFd}
    /\ order \in Seq(Nodes)

\* The node at a position of the list, the dummies being at its two ends.
At(i) == IF i = 0 THEN HeadNode
         ELSE IF i = Len(order) + 1 THEN EndNode ELSE order[i]

\* The list can be walked in both directions from dummy to dummy, through
\* exactly the nodes put in and not taken out, and waiting_queue_size is its
\* length (queue.c:46-83): server.c trusts the counter, not the pointers.
WellLinked ==
    /\ waiting_queue_size = Len(order)
    /\ \A i \in 0..Len(order) :
          /\ next[At(i)] = At(i + 1)
          /\ prev[At(i + 1)] = At(i)
    /\ \A i, j \in 1..Len(order) : order[i] = order[j] => i = j

\* A node in the list is neither freed nor in a caller's hands, so a recycled
\* address never appears twice (queue.c:81, server.c:101, 156).
NoDanglingNode ==
    \A i \in 1..Len(order) : order[i] \in allocated /\ order[i] \notin held

\* random_drop walks inside the list: it never reaches a dummy node, so it
\* neither frees one nor dereferences its NULL pointer (queue.c:74-81).
WalkInside ==
    ~Idle => \E i \in 1..Len(order) : order[i] = cursor /\ i + left <= Len(order)

\* The inductive invariant: the four facts above support one another.
ListInv == TypeOK /\ WellLinked /\ NoDanglingNode /\ WalkInside

Contents == [i \in 1..Len(order) |-> fd[order[i]]]

Fifo == INSTANCE FifoQueue WITH
    Items <- Fds, NoItem <- NoFd, items <- Contents, returned <- returned

\* The list implements the queue: each operation acts on the sequence of
\* descriptors, and returns the descriptor, that the specification says.
ImplementsFifo == Fifo!FifoSpec
=============================================================================
