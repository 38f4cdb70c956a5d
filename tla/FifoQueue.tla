----------------------------- MODULE FifoQueue -----------------------------
(***************************************************************************)
(* What HW3Wet/queue.c promises its callers: a first-in first-out queue of *)
(* descriptors from which any position can also be dropped.  ThreadPool    *)
(* uses the queue through exactly these three operations.                  *)
(***************************************************************************)
EXTENDS Integers, Sequences

CONSTANTS Items, NoItem

VARIABLES
    items,     \* oldest first
    returned   \* what the last operation returned

fifoVars == <<items, returned>>

FifoInit == items = << >> /\ returned = NoItem

Put(x) ==
    /\ items' = Append(items, x)
    /\ returned' = NoItem

Get ==
    /\ items # << >>
    /\ returned' = Head(items)
    /\ items' = Tail(items)

Drop(i) ==
    /\ returned' = items[i]
    /\ items' = [j \in 1..(Len(items) - 1) |->
                    IF j < i THEN items[j] ELSE items[j + 1]]

FifoNext ==
    \/ \E x \in Items : Put(x)
    \/ Get
    \/ \E i \in 1..Len(items) : Drop(i)

FifoSpec == FifoInit /\ [][FifoNext]_fifoVars
=============================================================================
