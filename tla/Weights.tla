------------------------------ MODULE Weights ------------------------------
(***************************************************************************)
(* HW2Wet/kernel/hw2.c: the weights of processes.  A process sets its own  *)
(* weight, its children inherit it; two system calls walk the process      *)
(* tree, without any lock.  Summing the children is taken as one step; the *)
(* walk up to init takes one step per task, while other processes run.     *)
(*                                                                         *)
(* fork, exit and wait are the kernel's.  A task that has been waited for  *)
(* may still be read by a walk that is under way (its memory outlives the  *)
(* walk, which never sleeps), so a pid stands for one task_struct for good.*)
(***************************************************************************)
EXTENDS Integers, Lists

CONSTANTS
    MaxPid,   \* bound on the pids
    Values,   \* arguments of set_weight, negative ones among them
    HALF      \* 2^31: an int is at least -HALF and less than HALF

ASSUME WeightsAssumption == MaxPid \in Nat \ {0} /\ Values \subseteq Int /\ HALF \in Nat \ {0}

InitPid == 1
Pids == 1..MaxPid

VARIABLES
    state,      \* "none", "alive", "zombie" or "gone"
    parent, weight,
    walker,     \* the process inside sys_get_heaviest_ancestor, or 0
    task, max, max_pid,   \* its locals
    result,     \* what its last call returned
    disturbed   \* ghost: something else changed since the call began

treeVars == <<state, parent, weight>>
walkVars == <<walker, task, max, max_pid, result>>
vars == <<state, parent, weight, walker, task, max, max_pid, result, disturbed>>

\* Arithmetic of int.
Wrap(n) == ((n + HALF) % (2 * HALF)) - HALF

Init ==
    /\ state = [p \in Pids |-> IF p = InitPid THEN "alive" ELSE "none"]
    /\ parent = [p \in Pids |-> InitPid]
    /\ weight = [p \in Pids |-> 0]
    /\ walker = 0 /\ task = InitPid /\ max = 0 /\ max_pid = 0 /\ result = 0
    /\ disturbed = FALSE

Alive(p) == state[p] = "alive"

\* The list children of p: those it has not waited for.
Children(p) ==
    {c \in Pids \ {InitPid} : parent[c] = p /\ state[c] \in {"alive", "zombie"}}

(***************************************************************************)
(* The kernel's own operations on the tree.                                *)
(***************************************************************************)
Fork(p, c) ==
    /\ Alive(p) /\ p # walker /\ state[c] = "none"
    /\ state' = [state EXCEPT ![c] = "alive"]
    /\ parent' = [parent EXCEPT ![c] = p]
    /\ weight' = [weight EXCEPT ![c] = weight[p]]
    /\ disturbed' = (walker # 0)
    /\ UNCHANGED walkVars

\* The children of a process that exits are given to init.
Exit(p) ==
    /\ Alive(p) /\ p \notin {walker, InitPid}
    /\ state' = [state EXCEPT ![p] = "zombie"]
    /\ parent' = [c \in Pids |-> IF c \in Children(p) THEN InitPid ELSE parent[c]]
    /\ disturbed' = (walker # 0)
    /\ UNCHANGED <<weight, walkVars>>

Wait(p, c) ==
    /\ Alive(p) /\ p # walker /\ c \in Children(p) /\ state[c] = "zombie"
    /\ state' = [state EXCEPT ![c] = "gone"]
    /\ disturbed' = (walker # 0)
    /\ UNCHANGED <<parent, weight, walkVars>>

(***************************************************************************)
(* The system calls.                                                       *)
(***************************************************************************)
\* A negative weight is -EINVAL.
ValidWeight(v) == v >= 0

sys_set_weight(p, v) ==
    /\ Alive(p) /\ p # walker /\ ValidWeight(v)
    /\ weight' = [weight EXCEPT ![p] = v]
    /\ disturbed' = (walker # 0)
    /\ UNCHANGED <<state, parent, walkVars>>

\* Fault: the grandchildren are left out.
SumOfTwoLevels(p) ==
    Wrap(weight[p] + SumOver(weight, Children(p), MaxPid))

\* The weights of a task and of all below it; every addition may overflow.
calculate_sum_of_children(p) ==
    LET sum[t \in Pids] == Wrap(weight[t] + SumOver(sum, Children(t), MaxPid))
    IN  sum[p]

sys_get_children_sum(p) ==
    IF Children(p) # {} THEN calculate_sum_of_children(p) - weight[p] ELSE -10

\* The call begins: max_pid is not initialized, so it is any value.
EnterHeaviest(p) ==
    /\ Alive(p) /\ walker = 0
    /\ walker' = p /\ task' = p /\ max' = weight[p]
    /\ max_pid' \in Pids \cup {0}
    /\ disturbed' = FALSE /\ result' = 0
    /\ UNCHANGED treeVars

\* Fault: the walk does not move.
SameTask(t) == t

NextTask(t) == parent[t]

\* Fault: the pid is kept from the first heavier task on.
FirstHeavier(t) == max < weight[t] /\ max = weight[walker]

Heavier(t) == max < weight[t]

\* One round of the loop; after that of pid 1 the call returns and its locals
\* are no more.
WalkUp ==
    /\ walker # 0
    /\ LET best == IF Heavier(task) THEN task ELSE max_pid IN
       \/ /\ task # InitPid
          /\ max' = IF Heavier(task) THEN weight[task] ELSE max
          /\ max_pid' = best
          /\ task' = NextTask(task)
          /\ UNCHANGED <<walker, result, disturbed>>
       \/ /\ task = InitPid
          /\ result' = best
          /\ walker' = 0 /\ max' = 0 /\ max_pid' = 0
          /\ disturbed' = FALSE
          /\ UNCHANGED task
    /\ UNCHANGED treeVars

Next ==
    \/ \E p \in Pids :
          \/ \E c \in Pids : Fork(p, c) \/ Wait(p, c)
          \/ Exit(p)
          \/ \E v \in Values : sys_set_weight(p, v)
          \/ EnterHeaviest(p)
    \/ WalkUp

Spec == Init /\ [][Next]_vars

\* A process in the kernel keeps running.
FairSpec == Spec /\ WF_vars(WalkUp)

----------------------------------------------------------------------------
\* The type invariant of the process tree and of the walk: no task ever has a
\* negative weight (hw2.c:12-14).
TypeOK ==
    /\ state \in [Pids -> {"none", "alive", "zombie", "gone"}]
    /\ parent \in [Pids -> Pids]
    /\ weight \in [Pids -> {v \in Values : v >= 0} \cup {0}]
    /\ walker \in Pids \cup {0} /\ task \in Pids
    /\ max_pid \in Pids \cup {0} /\ result \in Pids \cup {0}

\* p and the tasks above it: those in every set that has p, and with a task its parent.
AncestorsOf(p) ==
    {a \in Pids : \A S \in SUBSET Pids :
                     p \in S /\ (\A t \in S \ {InitPid} : parent[t] \in S) => a \in S}

Live(p) == state[p] \in {"alive", "zombie"}
Descendants(p) == {c \in Pids \ {p} : Live(c) /\ p \in AncestorsOf(c)}

\* get_children_sum is, in the arithmetic of int, the sum of the weights of all
\* descendants that have not been waited for, whatever has exited meanwhile.
ChildrenSum ==
    \A p \in Pids : Alive(p) /\ Children(p) # {} =>
       Wrap(sys_get_children_sum(p))
         = Wrap(SumOver(weight, Descendants(p), MaxPid))

\* The tree is well formed and every sum over it is right (hw2.c:23-41).
WeightsInv == TypeOK /\ ChildrenSum

Finishes == walker # 0 /\ walker' = 0 /\ ~disturbed
Heaviest(p, r) ==
    r \in AncestorsOf(p) /\ \A a \in AncestorsOf(p) : weight[a] <= weight[r]

\* A call that nothing disturbs and whose caller has a heavier ancestor returns
\* a heaviest ancestor.
HeaviestIfHeavier ==
    [][Finishes /\ (\E a \in AncestorsOf(walker) : weight[a] > weight[walker])
          => Heaviest(walker, result')]_vars

\* The walk ends, although tasks exit and are reparented under it.
WalkEnds == walker # 0 ~> walker = 0
=============================================================================
