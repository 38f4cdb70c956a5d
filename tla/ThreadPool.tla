----------------------------- MODULE ThreadPool -----------------------------
(***************************************************************************)
(* The concurrency core of the web server, HW3Wet/server.c: the main       *)
(* thread accepts connections and puts them in a queue that a fixed pool   *)
(* of worker threads empties.  Mutex m1 guards the queue and the counter   *)
(* running_threads, mutex m2 the counter count_id; the workers sleep on    *)
(* buffer_empty, the main thread on buffer_full.                           *)
(*                                                                         *)
(* A step is what one thread does between two points where another thread  *)
(* can interfere: taking a mutex, falling asleep (which releases it),      *)
(* everything done until it is released, closing a descriptor.  A request  *)
(* is its connection descriptor; descriptors are recycled once closed, as  *)
(* the kernel does, so behaviours are unbounded while states are finite.   *)
(***************************************************************************)
EXTENDS Integers, Sequences, FiniteSets

CONSTANTS
    Threads,      \* the pool; thread_num is its size
    Fds,          \* the descriptors the process can have for connections
    QueueSize,    \* argument queue_size
    Policies,     \* the values of argument sched_alg to explore
    Main, Nobody, NoFd

BLOCK == "block"
DROP_TAIL == "dt"
DROP_HEAD == "dh"
RANDOM == "random"
UNKNOWN == "-1"   \* any other argument: getargs does not refuse it

ASSUME ThreadsAssumption == IsFiniteSet(Threads) /\ Threads # {}
ASSUME QueueSizeAssumption == QueueSize \in Nat \ {0}
ASSUME PoliciesAssumption ==
    Policies \subseteq {BLOCK, DROP_TAIL, DROP_HEAD, RANDOM, UNKNOWN}
ASSUME DistinctAssumption ==
    /\ Main \notin Threads /\ Nobody \notin Threads /\ Main # Nobody
    /\ NoFd \notin Fds
ASSUME FdsAssumption == IsFiniteSet(Fds)

VARIABLES
    sched_alg,        \* main's local, set once by getargs
    m1, m2,           \* which thread holds each mutex
    count_id,
    running_threads,
    queue,            \* the waiting requests, oldest first
    mpc, connfd,      \* main: where it is, the connection it has accepted
    toDrop,           \* main: iterations left of RANDOM's drop loop
    pc, cur_req,      \* workers: where each one is, the request it serves
    thread_id,
    open,             \* descriptors open in the kernel
    exited            \* the process has called exit()

mainVars == <<mpc, connfd, toDrop>>
idVars == <<m2, count_id, thread_id>>
vars == <<sched_alg, m1, m2, count_id, running_threads, queue, mpc, connfd,
          toDrop, pc, cur_req, thread_id, open, exited>>

(***************************************************************************)
(* The definitions marked "Fault" are not part of the model: each is a     *)
(* plausible mistake that TLC must notice when it takes the place of the   *)
(* definition that follows it.                                             *)
(***************************************************************************)
waiting_queue_size == Len(queue)

\* Fault: the test lets one request too many in.
FullOffByOne == waiting_queue_size + running_threads > QueueSize

Full == waiting_queue_size + running_threads >= QueueSize

\* our_ceil(waiting_queue_size / 4): a quarter, rounded up.
OurCeilQuarter(n) == (n + 3) \div 4

\* Fault: the walk to the node goes one step too far.
RemoveNextIndex(q, i) ==
    [j \in 1..(Len(q) - 1) |-> IF j <= i THEN q[j] ELSE q[j + 1]]

\* The queue after random_drop(queue, i - 1).
RemoveIndex(q, i) ==
    [j \in 1..(Len(q) - 1) |-> IF j < i THEN q[j] ELSE q[j + 1]]

----------------------------------------------------------------------------
Init ==
    /\ sched_alg \in Policies
    /\ m1 = Nobody /\ m2 = Nobody
    /\ count_id = 0
    /\ running_threads = 0
    /\ queue = << >>
    /\ mpc = "create" /\ connfd = NoFd /\ toDrop = 0
    /\ pc = [w \in Threads |-> "none"]
    /\ cur_req = [w \in Threads |-> NoFd]
    /\ thread_id = [w \in Threads |-> 0]
    /\ open = {}
    /\ exited = FALSE

(***************************************************************************)
(* Condition variables.  A sleeper is a thread at "sleep"; being woken     *)
(* moves it to "relock", where it competes for m1 again.  A signal wakes   *)
(* one sleeper if there is one and is lost otherwise.                      *)
(***************************************************************************)
Sleepers == {w \in Threads : pc[w] = "sleep"}

\* Fault: the signal is forgotten.
NoSignalBufferFull == mpc' = mpc

\* pthread_cond_signal(&buffer_full): only main ever waits for it.
SignalBufferFull == mpc' = IF mpc = "sleep" THEN "relock" ELSE mpc

\* Fault: the signal is sent only when the queue was empty.
SignalBufferEmptyOnFirst ==
    IF queue = << >> /\ Sleepers # {}
       THEN \E w \in Sleepers : pc' = [pc EXCEPT ![w] = "relock"]
       ELSE pc' = pc

\* pthread_cond_signal(&buffer_empty)
SignalBufferEmpty ==
    \/ /\ Sleepers = {}
       /\ pc' = pc
    \/ \E w \in Sleepers : pc' = [pc EXCEPT ![w] = "relock"]

\* POSIX lets either wait return without a signal.
SpuriousWake ==
    /\ \/ /\ mpc = "sleep"
          /\ mpc' = "relock"
          /\ pc' = pc
       \/ /\ \E w \in Sleepers : pc' = [pc EXCEPT ![w] = "relock"]
          /\ mpc' = mpc
    /\ UNCHANGED <<sched_alg, m1, idVars, running_threads, queue, connfd,
                   toDrop, cur_req, open, exited>>

\* Close(fd), external: the descriptor becomes available to Accept again.
CloseFd(f) == open' = open \ {f}

(***************************************************************************)
(* The main thread.                                                        *)
(***************************************************************************)
Create(w) ==
    /\ mpc = "create"
    /\ pc[w] = "none"
    /\ pc' = [pc EXCEPT ![w] = "start"]
    /\ mpc' = IF \A v \in Threads \ {w} : pc[v] # "none" THEN "accept" ELSE mpc
    /\ UNCHANGED <<sched_alg, m1, idVars, running_threads, queue, connfd,
                   toDrop, cur_req, open, exited>>

Accept ==
    /\ mpc = "accept"
    /\ \E f \in Fds \ open :
          /\ connfd' = f
          /\ open' = open \cup {f}
    /\ mpc' = "lock"
    /\ UNCHANGED <<sched_alg, m1, idVars, running_threads, queue, toDrop, pc,
                   cur_req, exited>>

\* Taking m1: after accept, or inside pthread_cond_wait before it returns.
MainLock ==
    /\ mpc \in {"lock", "relock"}
    /\ m1 = Nobody
    /\ m1' = Main
    /\ mpc' = "decide"
    /\ UNCHANGED <<sched_alg, idVars, running_threads, queue, connfd, toDrop,
                   pc, cur_req, open, exited>>

\* BLOCK: wait on buffer_full while the buffer is full.
MainWait ==
    /\ mpc = "decide" /\ Full /\ sched_alg = BLOCK
    /\ m1' = Nobody
    /\ mpc' = "sleep"
    /\ UNCHANGED <<sched_alg, idVars, running_threads, queue, connfd, toDrop,
                   pc, cur_req, open, exited>>

\* The new connection is refused: DROP_TAIL, or nothing is left to drop.
MainReject ==
    /\ mpc = "decide" /\ Full
    /\ \/ sched_alg = DROP_TAIL
       \/ sched_alg \in {DROP_HEAD, RANDOM} /\ waiting_queue_size <= 0
    /\ m1' = Nobody
    /\ mpc' = "close"
    /\ UNCHANGED <<sched_alg, idVars, running_threads, queue, connfd, toDrop,
                   pc, cur_req, open, exited>>

MainClose ==
    /\ mpc = "close"
    /\ CloseFd(connfd)
    /\ connfd' = NoFd
    /\ mpc' = "accept"
    /\ UNCHANGED <<sched_alg, m1, idVars, running_threads, queue, toDrop, pc,
                   cur_req, exited>>

\* DROP_HEAD: the oldest request leaves the queue; its descriptor stays open.
MainDropHead ==
    /\ mpc = "decide" /\ Full /\ sched_alg = DROP_HEAD
    /\ waiting_queue_size > 0
    /\ queue' = Tail(queue)
    /\ mpc' = "admit"
    /\ UNCHANGED <<sched_alg, m1, idVars, running_threads, connfd, toDrop, pc,
                   cur_req, open, exited>>

\* RANDOM: the number of requests to drop is computed once, before the loop.
MainStartDrop ==
    /\ mpc = "decide" /\ Full /\ sched_alg = RANDOM
    /\ waiting_queue_size > 0
    /\ toDrop' = OurCeilQuarter(waiting_queue_size)
    /\ mpc' = "drop"
    /\ UNCHANGED <<sched_alg, m1, idVars, running_threads, queue, connfd, pc,
                   cur_req, open, exited>>

\* for (i = 0; i < size; i++)
MoreToDrop == toDrop > 0

\* One iteration: rand() % waiting_queue_size may be any index of the queue.
MainDropOne ==
    /\ mpc = "drop" /\ MoreToDrop
    /\ \E i \in 1..waiting_queue_size :
          /\ queue' = RemoveIndex(queue, i)
          /\ CloseFd(queue[i])
    /\ toDrop' = toDrop - 1
    /\ UNCHANGED <<sched_alg, m1, idVars, running_threads, mpc, connfd, pc,
                   cur_req, exited>>

\* enqueue, signal buffer_empty, unlock: under every policy that gets here.
AtEnqueue ==
    \/ mpc = "decide" /\ (Full => sched_alg = UNKNOWN)
    \/ mpc = "admit"
    \/ mpc = "drop" /\ ~MoreToDrop

MainEnqueue ==
    /\ AtEnqueue
    /\ queue' = Append(queue, connfd)
    /\ connfd' = NoFd
    /\ SignalBufferEmpty
    /\ m1' = Nobody
    /\ mpc' = "accept"
    /\ UNCHANGED <<sched_alg, idVars, running_threads, toDrop, cur_req, open,
                   exited>>

(***************************************************************************)
(* A worker: thread_wrapper.                                               *)
(***************************************************************************)
M2Available == m2 = Nobody

LockM2(w) ==
    /\ pc[w] = "start"
    /\ M2Available
    /\ m2' = w
    /\ pc' = [pc EXCEPT ![w] = "readId"]
    /\ UNCHANGED <<sched_alg, m1, count_id, thread_id, running_threads, queue,
                   mainVars, cur_req, open, exited>>

\* thread_id = count_id++ is a load and a store.
ReadId(w) ==
    /\ pc[w] = "readId"
    /\ thread_id' = [thread_id EXCEPT ![w] = count_id]
    /\ pc' = [pc EXCEPT ![w] = "writeId"]
    /\ UNCHANGED <<sched_alg, m1, m2, count_id, running_threads, queue,
                   mainVars, cur_req, open, exited>>

WriteId(w) ==
    /\ pc[w] = "writeId"
    /\ count_id' = thread_id[w] + 1
    /\ m2' = Nobody
    /\ pc' = [pc EXCEPT ![w] = "stats"]
    /\ UNCHANGED <<sched_alg, m1, thread_id, running_threads, queue, mainVars,
                   cur_req, open, exited>>

\* The worker's own statistics are allocated and set to zero.
InitStats(w) ==
    /\ pc[w] = "stats"
    /\ pc' = [pc EXCEPT ![w] = "lock"]
    /\ UNCHANGED <<sched_alg, m1, idVars, running_threads, queue, mainVars,
                   cur_req, open, exited>>

\* Taking m1: at the top of the loop, or before pthread_cond_wait returns.
WorkerLock(w) ==
    /\ pc[w] \in {"lock", "relock"}
    /\ m1 = Nobody
    /\ m1' = w
    /\ pc' = [pc EXCEPT ![w] = "check"]
    /\ UNCHANGED <<sched_alg, idVars, running_threads, queue, mainVars,
                   cur_req, open, exited>>

WorkerWait(w) ==
    /\ pc[w] = "check" /\ waiting_queue_size <= 0
    /\ m1' = Nobody
    /\ pc' = [pc EXCEPT ![w] = "sleep"]
    /\ UNCHANGED <<sched_alg, idVars, running_threads, queue, mainVars,
                   cur_req, open, exited>>

\* dequeue, running_threads++, maybe signal buffer_full, unlock.
WorkerTake(w) ==
    /\ pc[w] = "check" /\ waiting_queue_size > 0
    /\ cur_req' = [cur_req EXCEPT ![w] = Head(queue)]
    /\ queue' = Tail(queue)
    /\ running_threads' = running_threads + 1
    /\ IF Len(queue') + running_threads' < QueueSize
          THEN SignalBufferFull ELSE mpc' = mpc
    /\ m1' = Nobody
    /\ pc' = [pc EXCEPT ![w] = "handle"]
    /\ UNCHANGED <<sched_alg, idVars, connfd, toDrop, open, exited>>

\* requestHandle returns.
WorkerHandle(w) ==
    /\ pc[w] = "handle"
    /\ pc' = [pc EXCEPT ![w] = "close"]
    /\ UNCHANGED <<sched_alg, m1, idVars, running_threads, queue, mainVars,
                   cur_req, open, exited>>

\* Close(cur_req->fd); free(cur_req)
WorkerClose(w) ==
    /\ pc[w] = "close"
    /\ CloseFd(cur_req[w])
    /\ cur_req' = [cur_req EXCEPT ![w] = NoFd]
    /\ pc' = [pc EXCEPT ![w] = "lock2"]
    /\ UNCHANGED <<sched_alg, m1, idVars, running_threads, queue, mainVars,
                   exited>>

WorkerLock2(w) ==
    /\ pc[w] = "lock2"
    /\ m1 = Nobody
    /\ m1' = w
    /\ pc' = [pc EXCEPT ![w] = "finish"]
    /\ UNCHANGED <<sched_alg, idVars, running_threads, queue, mainVars,
                   cur_req, open, exited>>

\* Fault: the worker never stops counting as running.
StillRunning == running_threads' = running_threads

\* running_threads--
NoLongerRunning == running_threads' = running_threads - 1

\* Under m1: running_threads--, maybe signal buffer_full, unlock.
WorkerFinish(w) ==
    /\ pc[w] = "finish"
    /\ NoLongerRunning
    /\ IF waiting_queue_size + running_threads' < QueueSize
          THEN SignalBufferFull ELSE mpc' = mpc
    /\ m1' = Nobody
    /\ pc' = [pc EXCEPT ![w] = "lock"]
    /\ UNCHANGED <<sched_alg, idVars, queue, connfd, toDrop, cur_req, open,
                   exited>>

(***************************************************************************)
(* exit(): the whole process ends when a thread cannot be created, when    *)
(* malloc, Accept or Close fails, or when a wrapper called by              *)
(* requestHandle fails.                                                    *)
(***************************************************************************)
Exit ==
    /\ \/ mpc \in {"create", "accept", "close", "drop"} \/ AtEnqueue
       \/ \E w \in Threads : pc[w] \in {"stats", "handle", "close"}
    /\ exited' = TRUE
    /\ UNCHANGED <<sched_alg, m1, idVars, running_threads, queue, mainVars, pc,
                   cur_req, open>>

MainStep ==
    \/ \E w \in Threads : Create(w)
    \/ MainLock \/ MainWait \/ MainReject \/ MainClose
    \/ MainDropHead \/ MainStartDrop \/ MainDropOne \/ MainEnqueue

WorkerStep(w) ==
    \/ LockM2(w) \/ ReadId(w) \/ WriteId(w) \/ InitStats(w)
    \/ WorkerLock(w) \/ WorkerWait(w) \/ WorkerTake(w)
    \/ WorkerHandle(w) \/ WorkerClose(w) \/ WorkerLock2(w) \/ WorkerFinish(w)

Running ==
    \/ Accept
    \/ MainStep
    \/ \E w \in Threads : WorkerStep(w)
    \/ SpuriousWake
    \/ Exit

Next ==
    \/ ~exited /\ Running
    \/ exited /\ UNCHANGED vars

Spec == Init /\ [][Next]_vars

(***************************************************************************)
(* Fairness.  A runnable thread is eventually scheduled (WF of its steps)  *)
(* and a thread that keeps finding a mutex free eventually gets it (SF of  *)
(* the acquisitions).  requestHandle is assumed to return: its client      *)
(* sends a whole request and reads the answer.  Nothing makes a client     *)
(* connect, a sleeper wake without a signal, or the process exit.          *)
(***************************************************************************)
Alive(A) == ~exited /\ A

Fairness ==
    /\ WF_vars(Alive(MainStep)) /\ SF_vars(Alive(MainLock))
    /\ \A w \in Threads :
          /\ WF_vars(Alive(WorkerStep(w)))
          /\ SF_vars(Alive(LockM2(w)))
          /\ SF_vars(Alive(WorkerLock(w)))
          /\ SF_vars(Alive(WorkerLock2(w)))

FairSpec == Spec /\ Fairness

----------------------------------------------------------------------------
MainPC == {"create", "accept", "lock", "relock", "decide", "sleep", "close",
           "admit", "drop"}
WorkerPC == {"none", "start", "readId", "writeId", "stats", "lock", "relock",
             "check", "sleep", "handle", "close", "lock2", "finish"}

\* Workers between taking a request and counting themselves out.
Serving == {w \in Threads : pc[w] \in {"handle", "close", "lock2", "finish"}}

\* Workers that look at the queue before they sleep again.
Alert == {w \in Threads :
            pc[w] \in {"start", "readId", "writeId", "stats", "lock", "relock",
                       "check"}}

\* The type invariant: every variable of server.c keeps to its range.
TypeOK ==
    /\ sched_alg \in Policies
    /\ m1 \in Threads \cup {Main, Nobody}
    /\ m2 \in Threads \cup {Nobody}
    /\ count_id \in Nat
    /\ running_threads \in Nat
    /\ queue \in Seq(Fds)
    /\ mpc \in MainPC
    /\ connfd \in Fds \cup {NoFd}
    /\ toDrop \in Nat
    /\ pc \in [Threads -> WorkerPC]
    /\ cur_req \in [Threads -> Fds \cup {NoFd}]
    /\ thread_id \in [Threads -> Nat]
    /\ open \in SUBSET Fds
    /\ exited \in BOOLEAN

\* Under every policy getargs knows, the requests waiting and being served
\* never exceed queue_size, though the test and the two changes of the sum are
\* made by different threads at different times (server.c:142, 91-92, 103).
QueueBound ==
    sched_alg # UNKNOWN => waiting_queue_size + running_threads <= QueueSize

\* running_threads counts exactly the workers that hold a request or have not
\* yet counted themselves out (server.c:92, 103): no update is lost.
CountersExact == running_threads = Cardinality(Serving)

\* No lost wake-up of main: while it sleeps on buffer_full the buffer is full
\* (server.c:145 against the signals of 94 and 105).
MainAwakeIfRoom == mpc = "sleep" => Full

\* No lost wake-up of a worker: if one sleeps on buffer_empty, at least as many
\* others as there are waiting requests are on their way to take one
\* (server.c:89 against the single signal of 186).
WorkersAwakeIfWork == Sleepers # {} => Cardinality(Alert) >= waiting_queue_size

\* Neither condition variable loses a wake-up that somebody needs, with one signal
\* per event and spurious wake-ups at any time.
NoLostWakeup == MainAwakeIfRoom /\ WorkersAwakeIfWork

\* Who still has a descriptor to use or to close.
MainHas(f) == mpc \notin {"create", "accept"} /\ connfd = f
WorkerHas(w, f) == pc[w] \in {"handle", "close"} /\ cur_req[w] = f
Queued(f) == \E i \in 1..Len(queue) : queue[i] = f
HasUser(f) == Queued(f) \/ MainHas(f) \/ \E w \in Threads : WorkerHas(w, f)

\* No descriptor is used after it was closed, and none has two users: with
\* recycled descriptors either would answer or close somebody else's
\* connection (server.c:100, 149, 160, 168, 181).
OneUserPerFd ==
    /\ \A f \in Fds : HasUser(f) => f \in open
    /\ \A f \in Fds : MainHas(f) => ~Queued(f)
    /\ \A f \in Fds, w \in Threads :
          WorkerHas(w, f) => /\ ~Queued(f) /\ ~MainHas(f)
                             /\ \A v \in Threads \ {w} : ~WorkerHas(v, f)
    /\ \A i, j \in 1..Len(queue) : queue[i] = queue[j] => i = j

\* Every open descriptor has a user, under every policy but DROP_HEAD.
NoFdLeak == sched_alg # DROP_HEAD => \A f \in open : HasUser(f)

\* A descriptor is open exactly while one thread or the queue has it to use or to
\* close, recycled descriptors included; only DROP_HEAD forgets what it drops
\* (server.c:155 against 100, 149, 181).
DescriptorsSafe == OneUserPerFd /\ NoFdLeak

\* RANDOM drops the least number of requests that is a quarter of those that
\* waited: m1 is held all along, so what waited is what the buffer holds beyond
\* the running threads, and what is dropped already is what is missing now.
QuarterDropped ==
    mpc = "drop" =>
       LET waited == QueueSize - running_threads
           dropped == waited - waiting_queue_size + toDrop
       IN  dropped >= 1 /\ 4 * dropped >= waited /\ 4 * (dropped - 1) < waited

\* The identifiers handed out by count_id++ are distinct and below thread_num.
UniqueThreadIds ==
    \A w \in Threads : pc[w] \notin {"none", "start", "readId"} =>
       /\ thread_id[w] < Cardinality(Threads)
       /\ \A v \in Threads \ {w} : pc[v] \notin {"none", "start", "readId"} =>
             thread_id[v] # thread_id[w]

\* Once accepted, a connection is closed in the end: answered, refused or
\* dropped (every policy but DROP_HEAD), unless the process exits.
EveryConnectionClosed ==
    \A f \in Fds : (f \in open /\ sched_alg # DROP_HEAD)
                      ~> (f \notin open \/ exited)

\* The main thread always comes back to accept, also when BLOCK makes it sleep.
MainComesBack == [](~exited => <>(mpc = "accept" \/ exited))

----------------------------------------------------------------------------
(***************************************************************************)
(* What must be added to these invariants to make them inductive.          *)
(***************************************************************************)
MutexInv ==
    /\ m1 = Main <=> mpc \in {"decide", "admit", "drop"}
    /\ \A w \in Threads : m1 = w <=> pc[w] \in {"check", "finish"}
    /\ \A w \in Threads : m2 = w <=> pc[w] \in {"readId", "writeId"}

RequestInv ==
    /\ connfd = NoFd <=> mpc \in {"create", "accept"}
    /\ \A w \in Threads : cur_req[w] = NoFd <=> pc[w] \notin {"handle", "close"}

\* Where main can be depends on the policy; a dropped request leaves room.
PolicyInv ==
    /\ mpc = "sleep" => sched_alg = BLOCK
    /\ mpc = "admit" => sched_alg = DROP_HEAD /\ ~Full
    /\ mpc = "drop" => sched_alg = RANDOM

\* Ids below count_id are taken, and count_id is the number of them.
HasId == {w \in Threads : pc[w] \notin {"none", "start", "readId"}}
Counted == {w \in HasId : pc[w] # "writeId"}
IdInv ==
    /\ count_id = Cardinality(Counted)
    /\ \A w \in HasId : IF pc[w] = "writeId" THEN thread_id[w] = count_id
                                             ELSE thread_id[w] < count_id

\* The inductive invariant of the pool: together these hold initially and are
\* preserved by every step of every thread (server.c:71-188).
IInv ==
    /\ TypeOK /\ MutexInv /\ RequestInv /\ PolicyInv
    /\ CountersExact /\ QueueBound /\ QuarterDropped
    /\ MainAwakeIfRoom /\ WorkersAwakeIfWork
    /\ OneUserPerFd /\ NoFdLeak
    /\ IdInv /\ UniqueThreadIds

----------------------------------------------------------------------------
(***************************************************************************)
(* The pool implements the buffer.  A refused connection is refused when   *)
(* main gives up m1; its Close comes later.                                *)
(***************************************************************************)
Buffer == INSTANCE RequestBuffer WITH
    Servers <- Threads, Requests <- Fds, None <- NoFd,
    policy <- sched_alg,
    offered <- IF mpc = "close" THEN NoFd ELSE connfd,
    waiting <- queue,
    occupied <- waiting_queue_size + running_threads,
    busy <- Serving,
    serving <- cur_req

\* Every step of the pool is a step of RequestBuffer or leaves it unchanged:
\* requests are served oldest first, admitted only when there is room, and
\* dropped or refused only as the policy says.
ImplementsBuffer == Buffer!BufferSpec
=============================================================================
