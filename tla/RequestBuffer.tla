--------------------------- MODULE RequestBuffer ---------------------------
(***************************************************************************)
(* What the pool of HW3Wet/server.c promises, without threads, mutexes or  *)
(* condition variables: a buffer of QueueSize requests, of which some wait *)
(* and the others are being served.  Requests are served oldest first; a   *)
(* request enters only while there is room; when there is none, what       *)
(* happens is decided by the overload policy alone.                        *)
(***************************************************************************)
EXTENDS Integers, Sequences

CONSTANTS Servers, Requests, None, QueueSize, Policies

VARIABLES
    policy,
    offered,   \* the request that has arrived and is not yet decided on
    waiting,   \* admitted requests nobody serves yet, oldest first
    occupied,  \* places taken, by waiting requests and by busy servers
    busy,      \* servers that occupy a place of the buffer
    serving    \* the request of a busy server, None once it is answered

bufferVars == <<policy, offered, waiting, occupied, busy, serving>>

Quarter(n) == (n + 3) \div 4

BufferInit ==
    /\ policy \in Policies
    /\ offered = None
    /\ waiting = << >>
    /\ occupied = 0
    /\ busy = {}
    /\ serving = [s \in Servers |-> None]

Arrive(r) ==
    /\ offered = None
    /\ offered' = r
    /\ UNCHANGED <<policy, waiting, occupied, busy, serving>>

\* Room is what every known policy asks for before it admits.
Admit ==
    /\ offered # None
    /\ policy # "-1" => occupied < QueueSize
    /\ waiting' = Append(waiting, offered)
    /\ occupied' = occupied + 1
    /\ offered' = None
    /\ UNCHANGED <<policy, busy, serving>>

\* "block" never refuses; "dh" and "random" only when there is no victim.
Refuse ==
    /\ offered # None /\ occupied >= QueueSize
    /\ policy = "dt" \/ (policy \in {"dh", "random"} /\ waiting = << >>)
    /\ offered' = None
    /\ UNCHANGED <<policy, waiting, occupied, busy, serving>>

DropOldest ==
    /\ offered # None /\ occupied >= QueueSize
    /\ policy = "dh" /\ waiting # << >>
    /\ waiting' = Tail(waiting)
    /\ occupied' = occupied - 1
    /\ UNCHANGED <<policy, offered, busy, serving>>

\* Never more than a quarter, rounded up, of what waits in a full buffer.
DropRandom ==
    /\ offered # None /\ policy = "random"
    /\ LET dropped == QueueSize - occupied
       IN  dropped < Quarter(Len(waiting) + dropped)
    /\ \E i \in 1..Len(waiting) :
          waiting' = [j \in 1..(Len(waiting) - 1) |->
                         IF j < i THEN waiting[j] ELSE waiting[j + 1]]
    /\ occupied' = occupied - 1
    /\ UNCHANGED <<policy, offered, busy, serving>>

Dispatch(s) ==
    /\ s \notin busy /\ waiting # << >>
    /\ serving' = [serving EXCEPT ![s] = Head(waiting)]
    /\ waiting' = Tail(waiting)
    /\ busy' = busy \cup {s}
    /\ UNCHANGED <<policy, offered, occupied>>

Answer(s) ==
    /\ s \in busy /\ serving[s] # None
    /\ serving' = [serving EXCEPT ![s] = None]
    /\ UNCHANGED <<policy, offered, waiting, occupied, busy>>

Release(s) ==
    /\ s \in busy /\ serving[s] = None
    /\ busy' = busy \ {s}
    /\ occupied' = occupied - 1
    /\ UNCHANGED <<policy, offered, waiting, serving>>

BufferNext ==
    \/ \E r \in Requests : Arrive(r)
    \/ Admit \/ Refuse \/ DropOldest \/ DropRandom
    \/ \E s \in Servers : Dispatch(s) \/ Answer(s) \/ Release(s)

BufferSpec == BufferInit /\ [][BufferNext]_bufferVars
=============================================================================
