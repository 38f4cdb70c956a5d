-------------------------- MODULE ThreadPoolProofs --------------------------
(***************************************************************************)
(* Proofs about ThreadPool, for any number of workers, any number of       *)
(* descriptors, any queue size and any of the policies.  IInv is shown to  *)
(* be inductive conjunct by conjunct: types and mutexes first, then the    *)
(* two counts (a cardinality that moves by one), then the arithmetic of    *)
(* the buffer, then the ownership of descriptors and the thread ids.       *)
(***************************************************************************)
EXTENDS ThreadPool, FiniteSetTheorems, TLAPS

\* A counted set of workers is finite and its size is a natural number.
LEMMA CountedSets ==
    /\ IsFiniteSet(Serving) /\ Cardinality(Serving) \in Nat
    /\ IsFiniteSet(Alert) /\ Cardinality(Alert) \in Nat
    /\ IsFiniteSet(Counted) /\ Cardinality(Counted) \in Nat
<1>1. /\ Serving \in SUBSET Threads
      /\ Alert \in SUBSET Threads
      /\ Counted \in SUBSET Threads
  BY DEF Serving, Alert, Counted, HasId
<1> QED
  BY <1>1, ThreadsAssumption, FS_Subset, FS_CardinalityType

\* A worker at "finish" is counted, so running_threads is positive there.
LEMMA FinishCounted ==
    ASSUME TypeOK, CountersExact, NEW w \in Threads, pc[w] = "finish"
    PROVE  running_threads - 1 \in Nat
<1>1. w \in Serving
  BY DEF Serving
<1>2. Cardinality(Serving) # 0
  BY <1>1, CountedSets, FS_EmptySet
<1> QED
  BY <1>2, CountedSets DEF CountersExact

\* random_drop leaves one request fewer, each of them one that waited.
LEMMA RemoveIndexType ==
    ASSUME NEW S, NEW q \in Seq(S), NEW i \in 1..Len(q)
    PROVE  /\ RemoveIndex(q, i) \in Seq(S)
           /\ Len(RemoveIndex(q, i)) = Len(q) - 1
           /\ \A j \in 1..(Len(q) - 1) :
                 RemoveIndex(q, i)[j] = IF j < i THEN q[j] ELSE q[j + 1]
<1>1. Len(q) \in Nat /\ Len(q) - 1 \in Nat
  OBVIOUS
<1>2. \A j \in 1..(Len(q) - 1) : (IF j < i THEN q[j] ELSE q[j + 1]) \in S
  OBVIOUS
<1>3. RemoveIndex(q, i) \in [1..(Len(q) - 1) -> S]
  BY <1>2 DEF RemoveIndex
<1> QED
  BY <1>1, <1>3 DEF RemoveIndex

\* The operations keep every variable in its range.
LEMMA TypeStep ==
    ASSUME TypeOK, MutexInv, RequestInv, CountersExact, Next
    PROVE  TypeOK'
<1> USE DEF TypeOK
<1>1. CASE SpuriousWake
  BY <1>1 DEF SpuriousWake, idVars, MainPC, WorkerPC
<1>2. ASSUME NEW w \in Threads, Create(w) PROVE TypeOK'
  BY <1>2 DEF Create, idVars, MainPC, WorkerPC
<1>3. CASE Accept
  BY <1>3 DEF Accept, idVars, MainPC
<1>4. CASE MainLock
  BY <1>4 DEF MainLock, idVars, MainPC
<1>5. CASE MainWait
  BY <1>5 DEF MainWait, idVars, MainPC
<1>6. CASE MainReject
  BY <1>6 DEF MainReject, idVars, MainPC
<1>7. CASE MainClose
  BY <1>7 DEF MainClose, CloseFd, idVars, MainPC
<1>8. CASE MainDropHead
  BY <1>8 DEF MainDropHead, idVars, MainPC, waiting_queue_size
<1>9. CASE MainStartDrop
  BY <1>9 DEF MainStartDrop, idVars, MainPC, waiting_queue_size, OurCeilQuarter
<1>10. CASE MainDropOne
  BY <1>10, RemoveIndexType
     DEF MainDropOne, CloseFd, MoreToDrop, idVars, waiting_queue_size
<1>11. CASE MainEnqueue
  <2>1. connfd \in Fds
    BY <1>11 DEF MainEnqueue, AtEnqueue, RequestInv
  <2>2. pc' \in [Threads -> WorkerPC]
    BY <1>11 DEF MainEnqueue, SignalBufferEmpty, Sleepers, WorkerPC
  <2> QED
    BY <2>1, <2>2, <1>11 DEF MainEnqueue, idVars, MainPC
<1>12. ASSUME NEW w \in Threads, WorkerStep(w) PROVE TypeOK'
  <2>1. CASE LockM2(w)
    BY <2>1 DEF LockM2, mainVars, WorkerPC
  <2>2. CASE ReadId(w)
    BY <2>2 DEF ReadId, mainVars, WorkerPC
  <2>3. CASE WriteId(w)
    BY <2>3 DEF WriteId, mainVars, WorkerPC
  <2>4. CASE InitStats(w)
    BY <2>4 DEF InitStats, mainVars, idVars, WorkerPC
  <2>5. CASE WorkerLock(w)
    BY <2>5 DEF WorkerLock, mainVars, idVars, WorkerPC
  <2>6. CASE WorkerWait(w)
    BY <2>6 DEF WorkerWait, mainVars, idVars, WorkerPC
  <2>7. CASE WorkerTake(w)
    <3>1. Head(queue) \in Fds /\ Tail(queue) \in Seq(Fds)
      BY <2>7 DEF WorkerTake, waiting_queue_size
    <3>2. mpc' \in MainPC
      BY <2>7 DEF WorkerTake, SignalBufferFull, MainPC
    <3> QED
      BY <3>1, <3>2, <2>7 DEF WorkerTake, idVars, WorkerPC
  <2>8. CASE WorkerHandle(w)
    BY <2>8 DEF WorkerHandle, mainVars, idVars, WorkerPC
  <2>9. CASE WorkerClose(w)
    BY <2>9 DEF WorkerClose, CloseFd, mainVars, idVars, WorkerPC
  <2>10. CASE WorkerLock2(w)
    BY <2>10 DEF WorkerLock2, mainVars, idVars, WorkerPC
  <2>11. CASE WorkerFinish(w)
    BY <2>11, FinishCounted
       DEF WorkerFinish, NoLongerRunning, SignalBufferFull, idVars, WorkerPC,
           MainPC
  <2> QED
    BY <1>12, <2>1, <2>2, <2>3, <2>4, <2>5, <2>6, <2>7, <2>8, <2>9, <2>10,
       <2>11 DEF WorkerStep
<1>13. CASE Exit
  BY <1>13 DEF Exit, mainVars, idVars
<1>14. CASE UNCHANGED vars
  BY <1>14 DEF vars
<1> QED
  BY <1>1, <1>2, <1>3, <1>4, <1>5, <1>6, <1>7, <1>8, <1>9, <1>10, <1>11,
     <1>12, <1>13, <1>14 DEF Next, Running, MainStep

----------------------------------------------------------------------------
\* Each mutex is held exactly by the thread that is between taking it and
\* giving it up, and a request is held exactly while it is being served.
LEMMA MutexStep ==
    ASSUME TypeOK, MutexInv, RequestInv, Next
    PROVE  MutexInv' /\ RequestInv'
<1> USE DistinctAssumption DEF TypeOK, MutexInv, RequestInv
<1>1. CASE SpuriousWake
  BY <1>1 DEF SpuriousWake, Sleepers, idVars
<1>2. ASSUME NEW w \in Threads, Create(w) PROVE MutexInv' /\ RequestInv'
  BY <1>2 DEF Create, idVars
<1>3. CASE Accept
  BY <1>3 DEF Accept, idVars
<1>4. CASE MainLock
  BY <1>4 DEF MainLock, idVars
<1>5. CASE MainWait
  BY <1>5 DEF MainWait, idVars
<1>6. CASE MainReject
  BY <1>6 DEF MainReject, idVars
<1>7. CASE MainClose
  BY <1>7 DEF MainClose, idVars
<1>8. CASE MainDropHead
  BY <1>8 DEF MainDropHead, idVars
<1>9. CASE MainStartDrop
  BY <1>9 DEF MainStartDrop, idVars
<1>10. CASE MainDropOne
  BY <1>10 DEF MainDropOne, idVars
<1>11. CASE MainEnqueue
  <2>1. \A w \in Threads : pc'[w] = pc[w] \/ (pc[w] = "sleep" /\ pc'[w] = "relock")
    BY <1>11 DEF MainEnqueue, SignalBufferEmpty, Sleepers
  <2> QED
    BY <2>1, <1>11 DEF MainEnqueue, AtEnqueue, idVars
<1>12. ASSUME NEW w \in Threads, WorkerStep(w) PROVE MutexInv' /\ RequestInv'
  <2>1. CASE LockM2(w)
    BY <2>1 DEF LockM2, M2Available, mainVars
  <2>2. CASE ReadId(w)
    BY <2>2 DEF ReadId, mainVars
  <2>3. CASE WriteId(w)
    BY <2>3 DEF WriteId, mainVars
  <2>4. CASE InitStats(w)
    BY <2>4 DEF InitStats, mainVars, idVars
  <2>5. CASE WorkerLock(w)
    BY <2>5 DEF WorkerLock, mainVars, idVars
  <2>6. CASE WorkerWait(w)
    BY <2>6 DEF WorkerWait, mainVars, idVars
  <2>7. CASE WorkerTake(w)
    <3>1. Head(queue) \in Fds
      BY <2>7 DEF WorkerTake, waiting_queue_size
    <3>2. mpc' = mpc \/ (mpc = "sleep" /\ mpc' = "relock")
      BY <2>7 DEF WorkerTake, SignalBufferFull
    <3> QED
      BY <3>1, <3>2, <2>7 DEF WorkerTake, idVars
  <2>8. CASE WorkerHandle(w)
    BY <2>8 DEF WorkerHandle, mainVars, idVars
  <2>9. CASE WorkerClose(w)
    BY <2>9 DEF WorkerClose, mainVars, idVars
  <2>10. CASE WorkerLock2(w)
    BY <2>10 DEF WorkerLock2, mainVars, idVars
  <2>11. CASE WorkerFinish(w)
    <3>1. mpc' = mpc \/ (mpc = "sleep" /\ mpc' = "relock")
      BY <2>11 DEF WorkerFinish, SignalBufferFull
    <3> QED
      BY <3>1, <2>11 DEF WorkerFinish, idVars
  <2> QED
    BY <1>12, <2>1, <2>2, <2>3, <2>4, <2>5, <2>6, <2>7, <2>8, <2>9, <2>10,
       <2>11 DEF WorkerStep
<1>13. CASE Exit
  BY <1>13 DEF Exit, mainVars, idVars
<1>14. CASE UNCHANGED vars
  BY <1>14 DEF vars
<1> QED
  BY <1>1, <1>2, <1>3, <1>4, <1>5, <1>6, <1>7, <1>8, <1>9, <1>10, <1>11,
     <1>12, <1>13, <1>14 DEF Next, Running, MainStep

----------------------------------------------------------------------------
\* Only taking and finishing a request change who is served, by one worker;
\* all other steps leave the set, and the counter, alone.
LEMMA ServingStep ==
    ASSUME TypeOK, Next
    PROVE  \/ \E w \in Threads :
                 WorkerTake(w) /\ w \notin Serving /\ Serving' = Serving \cup {w}
           \/ \E w \in Threads :
                 WorkerFinish(w) /\ w \in Serving /\ Serving' = Serving \ {w}
           \/ Serving' = Serving /\ running_threads' = running_threads
<1> DEFINE Same == Serving' = Serving /\ running_threads' = running_threads
<1> USE DEF TypeOK, Serving
<1>1. CASE SpuriousWake
  BY <1>1 DEF SpuriousWake, Sleepers
<1>2. ASSUME NEW w \in Threads, Create(w) PROVE Same
  BY <1>2 DEF Create
<1>3. CASE Accept \/ MainLock \/ MainWait \/ MainReject \/ MainClose
  BY <1>3 DEF Accept, MainLock, MainWait, MainReject, MainClose
<1>4. CASE MainDropHead \/ MainStartDrop \/ MainDropOne \/ Exit
  BY <1>4 DEF MainDropHead, MainStartDrop, MainDropOne, Exit
<1>5. CASE MainEnqueue
  BY <1>5 DEF MainEnqueue, SignalBufferEmpty, Sleepers
<1>6. ASSUME NEW w \in Threads, LockM2(w) \/ ReadId(w) \/ WriteId(w) \/ InitStats(w)
      PROVE  Same
  BY <1>6 DEF LockM2, ReadId, WriteId, InitStats
<1>7. ASSUME NEW w \in Threads,
             \/ WorkerLock(w) \/ WorkerWait(w) \/ WorkerHandle(w)
             \/ WorkerClose(w) \/ WorkerLock2(w)
      PROVE  Same
  BY <1>7 DEF WorkerLock, WorkerWait, WorkerHandle, WorkerClose, WorkerLock2
<1>8. ASSUME NEW w \in Threads, WorkerTake(w)
      PROVE  w \notin Serving /\ Serving' = Serving \cup {w}
  BY <1>8 DEF WorkerTake
<1>9. ASSUME NEW w \in Threads, WorkerFinish(w)
      PROVE  w \in Serving /\ Serving' = Serving \ {w}
  BY <1>9 DEF WorkerFinish
<1>10. CASE UNCHANGED vars
  BY <1>10 DEF vars
<1> QED
  BY <1>1, <1>2, <1>3, <1>4, <1>5, <1>6, <1>7, <1>8, <1>9, <1>10
     DEF Next, Running, MainStep, WorkerStep

\* Hence the counter stays exact.
LEMMA CountersStep ==
    ASSUME TypeOK, CountersExact, Next
    PROVE  CountersExact'
<1> USE DEF CountersExact
<1>1. ASSUME NEW w \in Threads, WorkerTake(w), w \notin Serving,
             Serving' = Serving \cup {w}
      PROVE  CountersExact'
  <2>1. Cardinality(Serving') = Cardinality(Serving) + 1
    BY <1>1, CountedSets, FS_AddElement
  <2> QED
    BY <2>1, <1>1 DEF WorkerTake
<1>2. ASSUME NEW w \in Threads, WorkerFinish(w), w \in Serving,
             Serving' = Serving \ {w}
      PROVE  CountersExact'
  <2>1. Cardinality(Serving') = Cardinality(Serving) - 1
    BY <1>2, CountedSets, FS_RemoveElement
  <2> QED
    BY <2>1, <1>2 DEF WorkerFinish, NoLongerRunning
<1>3. CASE Serving' = Serving /\ running_threads' = running_threads
  BY <1>3
<1> QED
  BY <1>1, <1>2, <1>3, ServingStep

----------------------------------------------------------------------------
\* The arithmetic of the buffer: its bound, main's sleep, the room a dropped
\* head leaves and the quarter dropped by RANDOM.
BufferInv == PolicyInv /\ QueueBound /\ QuarterDropped /\ MainAwakeIfRoom

\* A worker neither makes nor takes room when it takes a request, and makes
\* room for one when it finishes; then it wakes main.
LEMMA BufferWorkerStep ==
    ASSUME TypeOK, MutexInv, CountersExact, BufferInv,
           NEW w \in Threads, WorkerStep(w)
    PROVE  BufferInv'
<1> USE QueueSizeAssumption, DistinctAssumption
    DEF TypeOK, BufferInv, PolicyInv, QueueBound, QuarterDropped,
        MainAwakeIfRoom, Full, waiting_queue_size
<1>1. CASE \/ LockM2(w) \/ ReadId(w) \/ WriteId(w) \/ InitStats(w)
           \/ WorkerLock(w) \/ WorkerWait(w) \/ WorkerHandle(w)
           \/ WorkerClose(w) \/ WorkerLock2(w)
  <2>1. UNCHANGED <<sched_alg, queue, running_threads, mpc, toDrop>>
    BY <1>1 DEF LockM2, ReadId, WriteId, InitStats, WorkerLock, WorkerWait,
                WorkerHandle, WorkerClose, WorkerLock2, mainVars
  <2> QED
    BY <2>1
<1>2. CASE WorkerTake(w)
  <2>1. mpc \notin {"decide", "admit", "drop"}
    BY <1>2 DEF WorkerTake, MutexInv
  <2>2. Len(queue') = Len(queue) - 1
    BY <1>2 DEF WorkerTake
  <2>3. /\ running_threads' = running_threads + 1
        /\ sched_alg' = sched_alg /\ toDrop' = toDrop
        /\ mpc' = mpc \/ mpc' = "relock"
    BY <1>2 DEF WorkerTake, SignalBufferFull
  <2> QED
    BY <2>1, <2>2, <2>3
<1>3. CASE WorkerFinish(w)
  <2>1. mpc \notin {"decide", "admit", "drop"}
    BY <1>3 DEF WorkerFinish, MutexInv
  <2>2. /\ running_threads' = running_threads - 1
        /\ sched_alg' = sched_alg /\ toDrop' = toDrop /\ queue' = queue
        /\ mpc' = mpc \/ mpc' = "relock"
        /\ mpc' = "sleep" => ~(Len(queue') + running_threads' < QueueSize)
    BY <1>3 DEF WorkerFinish, NoLongerRunning, SignalBufferFull
  <2>3. running_threads - 1 \in Nat
    BY <1>3, FinishCounted DEF WorkerFinish
  <2> QED
    BY <2>1, <2>2, <2>3
<1> QED
  BY <1>1, <1>2, <1>3 DEF WorkerStep

\* What is waiting and running never exceeds queue_size, main sleeps only while
\* the buffer is full, and RANDOM drops a quarter: no step breaks these.
LEMMA BufferStep ==
    ASSUME TypeOK, MutexInv, CountersExact, BufferInv, Next
    PROVE  BufferInv'
<1> USE QueueSizeAssumption, DistinctAssumption
    DEF TypeOK, BufferInv, PolicyInv, QueueBound, QuarterDropped,
        MainAwakeIfRoom, Full, waiting_queue_size,
        BLOCK, DROP_TAIL, DROP_HEAD, RANDOM, UNKNOWN
<1>1. CASE SpuriousWake
  BY <1>1 DEF SpuriousWake
<1>2. ASSUME NEW w \in Threads, Create(w) PROVE BufferInv'
  BY <1>2 DEF Create
<1>3. CASE Accept
  BY <1>3 DEF Accept
<1>4. CASE MainLock
  BY <1>4 DEF MainLock
<1>5. CASE MainWait
  BY <1>5 DEF MainWait
<1>6. CASE MainReject
  BY <1>6 DEF MainReject
<1>7. CASE MainClose
  BY <1>7 DEF MainClose
<1>8. CASE MainDropHead
  <2>1. Len(queue') = Len(queue) - 1
    BY <1>8 DEF MainDropHead
  <2> QED
    BY <2>1, <1>8 DEF MainDropHead
<1>9. CASE MainStartDrop
  BY <1>9 DEF MainStartDrop, OurCeilQuarter
<1>10. CASE MainDropOne
  <2>1. Len(queue') = Len(queue) - 1
    BY <1>10, RemoveIndexType DEF MainDropOne
  <2> QED
    BY <2>1, <1>10 DEF MainDropOne, MoreToDrop
<1>11. CASE MainEnqueue
  <2>1. Len(queue') = Len(queue) + 1
    BY <1>11 DEF MainEnqueue
  <2> QED
    BY <2>1, <1>11 DEF MainEnqueue, AtEnqueue, MoreToDrop
<1>12. CASE Exit
  BY <1>12 DEF Exit, mainVars
<1>13. CASE UNCHANGED vars
  BY <1>13 DEF vars
<1> QED
  BY <1>1, <1>2, <1>3, <1>4, <1>5, <1>6, <1>7, <1>8, <1>9, <1>10, <1>11,
     <1>12, <1>13, BufferWorkerStep DEF Next, Running, MainStep

----------------------------------------------------------------------------
\* No worker's wake-up is lost.  A request is added together with an alert
\* worker (or nobody sleeps), removed together with at most one, and a worker
\* falls asleep only when nothing waits.
LEMMA WakeupStep ==
    ASSUME TypeOK, WorkersAwakeIfWork, Next
    PROVE  WorkersAwakeIfWork'
<1> USE DEF TypeOK, WorkersAwakeIfWork, waiting_queue_size
<1> DEFINE Harmless == /\ Alert \subseteq Alert' /\ Sleepers' \subseteq Sleepers
                       /\ Len(queue') <= Len(queue)
<1>1. /\ IsFiniteSet(Alert) /\ Cardinality(Alert) \in Nat
      /\ IsFiniteSet(Alert') /\ Cardinality(Alert') \in Nat
  <2>1. Alert \in SUBSET Threads /\ Alert' \in SUBSET Threads
    BY DEF Alert
  <2> QED
    BY <2>1, ThreadsAssumption, FS_Subset, FS_CardinalityType
<1>2. ASSUME Harmless PROVE WorkersAwakeIfWork'
  <2>1. Cardinality(Alert) <= Cardinality(Alert')
    BY <1>1, <1>2, FS_Subset
  <2> QED
    BY <1>1, <1>2, <2>1
<1>3. CASE SpuriousWake
  <2>1. Harmless
    BY <1>3 DEF SpuriousWake, Alert, Sleepers
  <2> QED
    BY <1>2, <2>1
<1>4. ASSUME NEW w \in Threads, Create(w) PROVE WorkersAwakeIfWork'
  <2>1. Harmless
    BY <1>4 DEF Create, Alert, Sleepers
  <2> QED
    BY <1>2, <2>1
<1>5. CASE \/ Accept \/ MainLock \/ MainWait \/ MainReject \/ MainClose
           \/ MainStartDrop \/ Exit \/ UNCHANGED vars
  <2>1. pc' = pc /\ queue' = queue
    BY <1>5 DEF Accept, MainLock, MainWait, MainReject, MainClose,
                MainStartDrop, Exit, vars
  <2> QED
    BY <2>1 DEF Alert, Sleepers
<1>6. CASE MainDropHead \/ MainDropOne
  <2>1. pc' = pc /\ Len(queue') = Len(queue) - 1
    BY <1>6, RemoveIndexType DEF MainDropHead, MainDropOne, waiting_queue_size
  <2> QED
    BY <1>1, <2>1 DEF Alert, Sleepers
<1>7. CASE MainEnqueue
  <2>1. Len(queue') = Len(queue) + 1
    BY <1>7 DEF MainEnqueue
  <2>2. CASE Sleepers = {} /\ pc' = pc
    BY <2>2 DEF Sleepers
  <2>3. ASSUME NEW v \in Sleepers, pc' = [pc EXCEPT ![v] = "relock"]
        PROVE  WorkersAwakeIfWork'
    <3>1. v \notin Alert /\ Alert' = Alert \cup {v}
      BY <2>3 DEF Alert, Sleepers
    <3>2. Cardinality(Alert') = Cardinality(Alert) + 1
      BY <1>1, <3>1, FS_AddElement
    <3>3. Cardinality(Alert) >= Len(queue)
      BY <2>3
    <3> QED
      BY <1>1, <2>1, <3>2, <3>3
  <2> QED
    BY <1>7, <2>2, <2>3 DEF MainEnqueue, SignalBufferEmpty
<1>8. ASSUME NEW w \in Threads,
             \/ LockM2(w) \/ ReadId(w) \/ WriteId(w) \/ InitStats(w)
             \/ WorkerLock(w) \/ WorkerHandle(w) \/ WorkerClose(w)
             \/ WorkerLock2(w) \/ WorkerFinish(w)
      PROVE  WorkersAwakeIfWork'
  <2>1. Harmless
    BY <1>8 DEF LockM2, ReadId, WriteId, InitStats, WorkerLock, WorkerHandle,
                WorkerClose, WorkerLock2, WorkerFinish, Alert, Sleepers
  <2> QED
    BY <1>2, <2>1
<1>9. ASSUME NEW w \in Threads, WorkerWait(w) PROVE WorkersAwakeIfWork'
  <2>1. Len(queue') = 0
    BY <1>9 DEF WorkerWait
  <2> QED
    BY <1>1, <2>1
<1>10. ASSUME NEW w \in Threads, WorkerTake(w) PROVE WorkersAwakeIfWork'
  <2>1. w \in Alert /\ Alert' = Alert \ {w} /\ Sleepers' = Sleepers
    BY <1>10 DEF WorkerTake, Alert, Sleepers
  <2>2. Cardinality(Alert') = Cardinality(Alert) - 1
    BY <1>1, <2>1, FS_RemoveElement
  <2>3. Len(queue') = Len(queue) - 1
    BY <1>10 DEF WorkerTake
  <2> QED
    BY <1>1, <2>1, <2>2, <2>3
<1> QED
  BY <1>3, <1>4, <1>5, <1>6, <1>7, <1>8, <1>9, <1>10
     DEF Next, Running, MainStep, WorkerStep

----------------------------------------------------------------------------
\* Thread ids: m2 makes the load and the store of count_id++ one step, so the
\* ids given out are those below count_id, each once.
LEMMA IdStep ==
    ASSUME TypeOK, MutexInv, IdInv, UniqueThreadIds, Next
    PROVE  IdInv' /\ UniqueThreadIds'
<1> DEFINE Same == /\ UNCHANGED <<count_id, thread_id>>
                   /\ \A w \in Threads : \/ pc'[w] = pc[w]
                                         \/ /\ pc[w] \in {"none", "start"}
                                            /\ pc'[w] \in {"start", "readId"}
                                         \/ /\ pc[w] \notin {"none", "start", "readId", "writeId"}
                                            /\ pc'[w] \notin {"none", "start", "readId", "writeId"}
<1>1. ASSUME Same PROVE IdInv' /\ UniqueThreadIds'
  <2>1. HasId' = HasId /\ Counted' = Counted
    BY <1>1 DEF HasId, Counted
  <2>2. \A w \in HasId : pc'[w] = "writeId" <=> pc[w] = "writeId"
    BY <1>1 DEF HasId
  <2>3. IdInv'
    BY <1>1, <2>1, <2>2 DEF IdInv
  <2>4. UniqueThreadIds'
    BY <1>1 DEF UniqueThreadIds
  <2> QED
    BY <2>3, <2>4
<1>2. CASE SpuriousWake \/ MainEnqueue
  <2>1. Same
    BY <1>2 DEF SpuriousWake, MainEnqueue, SignalBufferEmpty, Sleepers, idVars,
                TypeOK
  <2> QED
    BY <1>1, <2>1
<1>3. ASSUME NEW w \in Threads,
             \/ Create(w) \/ LockM2(w) \/ InitStats(w) \/ WorkerLock(w)
             \/ WorkerWait(w) \/ WorkerTake(w) \/ WorkerHandle(w)
             \/ WorkerClose(w) \/ WorkerLock2(w) \/ WorkerFinish(w)
      PROVE  IdInv' /\ UniqueThreadIds'
  <2>1. Same
    BY <1>3 DEF Create, LockM2, InitStats, WorkerLock, WorkerWait, WorkerTake,
                WorkerHandle, WorkerClose, WorkerLock2, WorkerFinish, idVars,
                TypeOK
  <2> QED
    BY <1>1, <2>1
<1>4. CASE \/ Accept \/ MainLock \/ MainWait \/ MainReject \/ MainClose
           \/ MainDropHead \/ MainStartDrop \/ MainDropOne \/ Exit
           \/ UNCHANGED vars
  <2>1. Same
    BY <1>4 DEF Accept, MainLock, MainWait, MainReject, MainClose,
                MainDropHead, MainStartDrop, MainDropOne, Exit, vars, idVars
  <2> QED
    BY <1>1, <2>1
<1>5. ASSUME NEW w \in Threads, ReadId(w) PROVE IdInv' /\ UniqueThreadIds'
  <2>1. Counted' = Counted /\ HasId' = HasId \cup {w} /\ w \notin HasId
    BY <1>5 DEF ReadId, Counted, HasId, TypeOK
  <2>2. \A v \in HasId : thread_id[v] < count_id
    BY <1>5 DEF ReadId, MutexInv, IdInv, HasId
  <2>3. count_id < Cardinality(Threads)
    <3>1. Counted \in SUBSET Threads /\ Counted # Threads
      BY <2>1 DEF Counted, HasId
    <3>2. Cardinality(Counted) <= Cardinality(Threads)
          /\ Cardinality(Counted) # Cardinality(Threads)
      BY <3>1, FS_Subset, ThreadsAssumption
    <3> QED
      BY <3>2, CountedSets, FS_CardinalityType, ThreadsAssumption DEF IdInv
  <2>4. IdInv'
    BY <2>1, <2>2, <1>5 DEF ReadId, IdInv, TypeOK, HasId
  <2>5. UniqueThreadIds'
    BY <2>2, <2>3, <1>5 DEF ReadId, UniqueThreadIds, TypeOK, HasId
  <2> QED
    BY <2>4, <2>5
<1>6. ASSUME NEW w \in Threads, WriteId(w) PROVE IdInv' /\ UniqueThreadIds'
  <2>1. Counted' = Counted \cup {w} /\ HasId' = HasId /\ w \notin Counted
    BY <1>6 DEF WriteId, Counted, HasId, TypeOK
  <2>2. Cardinality(Counted') = Cardinality(Counted) + 1
    BY <2>1, CountedSets, FS_AddElement
  <2>3. thread_id[w] = count_id /\ count_id' = count_id + 1
    BY <1>6 DEF WriteId, IdInv, HasId
  <2>4. \A v \in HasId \ {w} : pc[v] # "writeId"
    BY <1>6 DEF WriteId, MutexInv, HasId
  <2>5. IdInv'
    BY <2>1, <2>2, <2>3, <2>4, <1>6 DEF WriteId, IdInv, TypeOK, HasId
  <2>6. UniqueThreadIds'
    BY <1>6 DEF WriteId, UniqueThreadIds, TypeOK
  <2> QED
    BY <2>5, <2>6
<1> QED
  BY <1>2, <1>3, <1>4, <1>5, <1>6 DEF Next, Running, MainStep, WorkerStep

----------------------------------------------------------------------------
\* Descriptors: each step moves a descriptor from one owner to the next, or
\* closes it and forgets it at once (DROP_HEAD forgets without closing).
FdInv == OneUserPerFd /\ NoFdLeak

\* The steps that move a descriptor into or out of the queue.
LEMMA FdQueueStep ==
    ASSUME TypeOK, RequestInv, FdInv,
           \/ MainDropHead \/ MainDropOne \/ MainEnqueue
           \/ \E w \in Threads : WorkerTake(w)
    PROVE  FdInv'
<1> USE DistinctAssumption DEF FdInv, OneUserPerFd, NoFdLeak, HasUser
<1>0. /\ queue \in Seq(Fds) /\ Len(queue) \in Nat
      /\ \A i \in 1..Len(queue) : queue[i] \in Fds
  BY DEF TypeOK
<1>1. CASE MainDropHead
  <2>1. /\ Len(queue) > 0 /\ Len(queue') = Len(queue) - 1
        /\ \A i \in 1..Len(queue') : queue'[i] = queue[i + 1]
    BY <1>0, <1>1 DEF MainDropHead, waiting_queue_size
  <2>2. \A f \in Fds : Queued(f)' => Queued(f)
    BY <1>0, <2>1 DEF Queued
  <2>3. \A i, j \in 1..Len(queue') : queue'[i] = queue'[j] => i = j
    BY <1>0, <2>1
  <2>4. /\ \A f \in Fds : MainHas(f)' <=> MainHas(f)
        /\ \A f \in Fds, w \in Threads : WorkerHas(w, f)' <=> WorkerHas(w, f)
        /\ UNCHANGED <<open, sched_alg>> /\ sched_alg = DROP_HEAD
    BY <1>1 DEF MainDropHead, MainHas, WorkerHas
  <2> QED
    BY <2>2, <2>3, <2>4
<1>2. CASE MainDropOne
  <2>1. PICK i \in 1..Len(queue) :
           queue' = RemoveIndex(queue, i) /\ open' = open \ {queue[i]}
    BY <1>2 DEF MainDropOne, CloseFd, waiting_queue_size
  <2>2. /\ Len(queue') = Len(queue) - 1
        /\ \A j \in 1..(Len(queue) - 1) :
              queue'[j] = IF j < i THEN queue[j] ELSE queue[j + 1]
    BY <1>0, <2>1, RemoveIndexType
  <2>3. \A f \in Fds : Queued(f)' <=> Queued(f) /\ f # queue[i]
    <3>1. ASSUME NEW f \in Fds, Queued(f)' PROVE Queued(f) /\ f # queue[i]
      <4>1. PICK j \in 1..(Len(queue) - 1) : queue'[j] = f
        BY <3>1, <2>2 DEF Queued
      <4> QED
        BY <4>1, <1>0, <2>2 DEF Queued
    <3>2. ASSUME NEW f \in Fds, Queued(f), f # queue[i] PROVE Queued(f)'
      <4>1. PICK j \in 1..Len(queue) : queue[j] = f
        BY <3>2 DEF Queued
      <4>2. CASE j < i
        BY <4>1, <4>2, <1>0, <2>2 DEF Queued
      <4>3. CASE j > i
        <5>1. j - 1 \in 1..Len(queue') /\ queue'[j - 1] = f
          BY <4>1, <4>3, <1>0, <2>2
        <5> QED
          BY <5>1 DEF Queued
      <4> QED
        BY <4>1, <4>2, <4>3, <3>2, <1>0
    <3> QED
      BY <3>1, <3>2
  <2>4. \A k, j \in 1..Len(queue') : queue'[k] = queue'[j] => k = j
    BY <1>0, <2>2
  <2>5. /\ \A f \in Fds : MainHas(f)' <=> MainHas(f)
        /\ \A f \in Fds, w \in Threads : WorkerHas(w, f)' <=> WorkerHas(w, f)
        /\ UNCHANGED <<sched_alg>>
    BY <1>2 DEF MainDropOne, MainHas, WorkerHas
  <2>6. queue[i] \in Fds /\ Queued(queue[i]) /\ open \subseteq Fds
    BY <1>0 DEF Queued, TypeOK
  <2> QED
    BY <2>1, <2>3, <2>4, <2>5, <2>6
<1>3. CASE MainEnqueue
  <2>1. /\ connfd \in Fds /\ MainHas(connfd)
        /\ \A f \in Fds : MainHas(f) => f = connfd
        /\ \A f \in Fds : ~MainHas(f)'
    BY <1>3 DEF MainEnqueue, AtEnqueue, MainHas, RequestInv, TypeOK
  <2>2. /\ Len(queue') = Len(queue) + 1
        /\ \A i \in 1..Len(queue) : queue'[i] = queue[i]
        /\ queue'[Len(queue) + 1] = connfd
    BY <1>0, <1>3, <2>1 DEF MainEnqueue
  <2>3. \A f \in Fds : Queued(f)' <=> Queued(f) \/ f = connfd
    BY <1>0, <2>2 DEF Queued
  <2>4. \A i, j \in 1..Len(queue') : queue'[i] = queue'[j] => i = j
    BY <1>0, <2>1, <2>2 DEF Queued
  <2>5. \A w \in Threads : pc'[w] = pc[w] \/ (pc[w] = "sleep" /\ pc'[w] = "relock")
    BY <1>3 DEF MainEnqueue, SignalBufferEmpty, Sleepers, TypeOK
  <2>6. /\ \A f \in Fds, w \in Threads : WorkerHas(w, f)' <=> WorkerHas(w, f)
        /\ UNCHANGED <<open, sched_alg>>
    BY <1>3, <2>5 DEF MainEnqueue, WorkerHas
  <2>7. open \subseteq Fds
    BY DEF TypeOK
  <2> QED
    BY <2>1, <2>3, <2>4, <2>6, <2>7
<1>4. ASSUME NEW w \in Threads, WorkerTake(w) PROVE FdInv'
  <2>1. /\ Len(queue) > 0 /\ Len(queue') = Len(queue) - 1
        /\ \A i \in 1..Len(queue') : queue'[i] = queue[i + 1]
        /\ Head(queue) = queue[1]
    BY <1>0, <1>4 DEF WorkerTake, waiting_queue_size
  <2>2. \A f \in Fds : Queued(f)' <=> Queued(f) /\ f # queue[1]
    <3>1. ASSUME NEW f \in Fds, Queued(f)' PROVE Queued(f) /\ f # queue[1]
      BY <3>1, <1>0, <2>1 DEF Queued
    <3>2. ASSUME NEW f \in Fds, Queued(f), f # queue[1] PROVE Queued(f)'
      <4>1. PICK j \in 1..Len(queue) : queue[j] = f
        BY <3>2 DEF Queued
      <4>2. j - 1 \in 1..Len(queue') /\ queue'[j - 1] = f
        BY <4>1, <3>2, <1>0, <2>1
      <4> QED
        BY <4>2 DEF Queued
    <3> QED
      BY <3>1, <3>2
  <2>3. \A k, j \in 1..Len(queue') : queue'[k] = queue'[j] => k = j
    BY <1>0, <2>1
  <2>4. mpc' = mpc \/ (mpc = "sleep" /\ mpc' = "relock")
    BY <1>4 DEF WorkerTake, SignalBufferFull
  <2>5. /\ \A f \in Fds : MainHas(f)' <=> MainHas(f)
        /\ UNCHANGED <<open, sched_alg>>
    BY <1>4, <2>4 DEF WorkerTake, MainHas
  <2>6. /\ \A f \in Fds : ~WorkerHas(w, f) /\ (WorkerHas(w, f)' <=> f = queue[1])
        /\ \A f \in Fds, v \in Threads \ {w} : WorkerHas(v, f)' <=> WorkerHas(v, f)
    BY <1>4, <2>1 DEF WorkerTake, WorkerHas, TypeOK
  <2>7. open \subseteq Fds /\ queue[1] \in Fds /\ Queued(queue[1])
    BY <1>0, <2>1 DEF TypeOK, Queued
  <2> QED
    BY <2>2, <2>3, <2>5, <2>6, <2>7
<1> QED
  BY <1>1, <1>2, <1>3, <1>4

\* Every step leaves each descriptor at most one user, an open one, and - except
\* under DROP_HEAD - leaves no open descriptor without a user.
LEMMA FdStep ==
    ASSUME TypeOK, RequestInv, FdInv, Next
    PROVE  FdInv'
<1> USE DistinctAssumption DEF FdInv, OneUserPerFd, NoFdLeak, HasUser
<1>0. open \subseteq Fds
  BY DEF TypeOK
<1> DEFINE SameUsers ==
       /\ UNCHANGED <<queue, open, sched_alg>>
       /\ \A f \in Fds : MainHas(f)' <=> MainHas(f)
       /\ \A f \in Fds, w \in Threads : WorkerHas(w, f)' <=> WorkerHas(w, f)
<1>1. ASSUME SameUsers PROVE FdInv'
  BY <1>0, <1>1 DEF Queued
<1>2. CASE SpuriousWake
  <2>1. SameUsers
    BY <1>2 DEF SpuriousWake, Sleepers, MainHas, WorkerHas, TypeOK
  <2> QED
    BY <1>1, <2>1
<1>3. CASE \/ MainLock \/ MainWait \/ MainReject \/ MainStartDrop \/ Exit
           \/ UNCHANGED vars
  <2>1. SameUsers
    BY <1>3 DEF MainLock, MainWait, MainReject, MainStartDrop, Exit, vars,
                mainVars, MainHas, WorkerHas
  <2> QED
    BY <1>1, <2>1
<1>4. ASSUME NEW w \in Threads,
             \/ Create(w) \/ LockM2(w) \/ ReadId(w) \/ WriteId(w)
             \/ InitStats(w) \/ WorkerLock(w) \/ WorkerWait(w)
             \/ WorkerHandle(w) \/ WorkerLock2(w) \/ WorkerFinish(w)
      PROVE  FdInv'
  <2>1. SameUsers
    BY <1>4 DEF Create, LockM2, ReadId, WriteId, InitStats, WorkerLock,
                WorkerWait, WorkerHandle, WorkerLock2, WorkerFinish,
                SignalBufferFull, mainVars, MainHas, WorkerHas, RequestInv,
                TypeOK
  <2> QED
    BY <1>1, <2>1
<1>5. CASE MainDropHead \/ MainDropOne \/ MainEnqueue
  BY <1>5, FdQueueStep
<1>6. ASSUME NEW w \in Threads, WorkerTake(w) PROVE FdInv'
  BY <1>6, FdQueueStep
<1>7. CASE Accept
  <2>1. PICK g \in Fds \ open : connfd' = g /\ open' = open \cup {g}
    BY <1>7 DEF Accept
  <2>2. /\ \A f \in Fds : ~MainHas(f) /\ (MainHas(f)' <=> f = g)
        /\ \A f \in Fds : Queued(f)' <=> Queued(f)
        /\ \A f \in Fds, w \in Threads : WorkerHas(w, f)' <=> WorkerHas(w, f)
        /\ UNCHANGED <<queue, sched_alg>>
    BY <1>7, <2>1 DEF Accept, MainHas, Queued, WorkerHas
  <2> QED
    BY <1>0, <2>1, <2>2
<1>8. CASE MainClose
  <2>1. /\ connfd \in Fds /\ MainHas(connfd) /\ open' = open \ {connfd}
        /\ \A f \in Fds : (MainHas(f) => f = connfd) /\ ~MainHas(f)'
        /\ \A f \in Fds : Queued(f)' <=> Queued(f)
        /\ \A f \in Fds, w \in Threads : WorkerHas(w, f)' <=> WorkerHas(w, f)
        /\ UNCHANGED <<queue, sched_alg>>
    BY <1>8 DEF MainClose, CloseFd, MainHas, Queued, WorkerHas, RequestInv,
                TypeOK
  <2> QED
    BY <1>0, <2>1
<1>9. ASSUME NEW w \in Threads, WorkerClose(w) PROVE FdInv'
  <2>1. /\ cur_req[w] \in Fds /\ WorkerHas(w, cur_req[w])
        /\ open' = open \ {cur_req[w]}
        /\ \A f \in Fds : (WorkerHas(w, f) => f = cur_req[w]) /\ ~WorkerHas(w, f)'
        /\ \A f \in Fds, v \in Threads \ {w} : WorkerHas(v, f)' <=> WorkerHas(v, f)
        /\ \A f \in Fds : MainHas(f)' <=> MainHas(f)
        /\ \A f \in Fds : Queued(f)' <=> Queued(f)
        /\ UNCHANGED <<queue, sched_alg>>
    BY <1>9 DEF WorkerClose, CloseFd, MainHas, Queued, WorkerHas, RequestInv,
                TypeOK, mainVars
  <2> QED
    BY <1>0, <2>1
<1> QED
  BY <1>2, <1>3, <1>4, <1>5, <1>6, <1>7, <1>8, <1>9
     DEF Next, Running, MainStep, WorkerStep

----------------------------------------------------------------------------
\* The state in which main enters its loop satisfies the invariant (server.c:112-123).
LEMMA InitIInv == Init => IInv
<1> SUFFICES ASSUME Init PROVE IInv
  OBVIOUS
<1>1. TypeOK
  <2>1. queue \in Seq(Fds)
    BY DEF Init
  <2> QED
    BY <2>1 DEF Init, TypeOK, MainPC, WorkerPC
<1>2. Serving = {} /\ Counted = {} /\ HasId = {} /\ Sleepers = {}
  BY DEF Init, Serving, Counted, HasId, Sleepers
<1>3. CountersExact /\ IdInv /\ WorkersAwakeIfWork
  BY <1>2, FS_EmptySet DEF Init, CountersExact, IdInv, WorkersAwakeIfWork
<1>4. MutexInv /\ RequestInv /\ PolicyInv
  BY DistinctAssumption DEF Init, MutexInv, RequestInv, PolicyInv
<1>5. QueueBound /\ QuarterDropped /\ MainAwakeIfRoom
  BY QueueSizeAssumption
     DEF Init, QueueBound, QuarterDropped, MainAwakeIfRoom, waiting_queue_size
<1>6. OneUserPerFd /\ NoFdLeak
  BY DEF Init, OneUserPerFd, NoFdLeak, HasUser, Queued, MainHas, WorkerHas
<1>7. UniqueThreadIds
  BY DEF Init, UniqueThreadIds
<1> QED
  BY <1>1, <1>3, <1>4, <1>5, <1>6, <1>7 DEF IInv

\* Every step of main, of a worker, and every spurious wake-up preserves it.
LEMMA StepIInv == IInv /\ [Next]_vars => IInv'
<1>1. ASSUME IInv, Next PROVE IInv'
  BY <1>1, TypeStep, MutexStep, CountersStep, BufferStep, WakeupStep, IdStep,
     FdStep DEF IInv, BufferInv, FdInv
<1>2. ASSUME IInv, UNCHANGED vars PROVE IInv'
  BY <1>2
     DEF vars, IInv, TypeOK, MutexInv, RequestInv, PolicyInv, CountersExact,
         QueueBound, QuarterDropped, MainAwakeIfRoom, WorkersAwakeIfWork,
         OneUserPerFd, NoFdLeak, IdInv, UniqueThreadIds, Serving, Alert,
         Sleepers, HasId, Counted, Full, waiting_queue_size, HasUser, Queued,
         MainHas, WorkerHas
<1> QED
  BY <1>1, <1>2

\* IInv holds in every reachable state of the pool: whatever the interleaving
\* of main and the workers, whatever the spurious wake-ups.
THEOREM PoolInvariant == Spec => []IInv
<1> QED
  BY InitIInv, StepIInv, PTL DEF Spec

\* Every variable of server.c keeps to its range, in particular
\* running_threads never becomes negative.
THEOREM TypeCorrect == Spec => []TypeOK
<1>1. IInv => TypeOK
  BY DEF IInv
<1> QED
  BY <1>1, PoolInvariant, PTL

\* Waiting and running requests together never exceed queue_size, under the
\* four policies (server.c:142-187).
THEOREM BufferNeverOverflows == Spec => []QueueBound
<1>1. IInv => QueueBound
  BY DEF IInv
<1> QED
  BY <1>1, PoolInvariant, PTL

\* Neither condition variable loses a wake-up that matters (server.c:89, 145).
THEOREM WakeupsSuffice == Spec => []NoLostWakeup
<1>1. IInv => NoLostWakeup
  BY DEF IInv, NoLostWakeup
<1> QED
  BY <1>1, PoolInvariant, PTL

\* No descriptor is used after being closed, shared by two users, or - except
\* under DROP_HEAD - left open without a user (server.c:100, 149-181).
THEOREM EachFdHasOneUser == Spec => []DescriptorsSafe
<1>1. IInv => DescriptorsSafe
  BY DEF IInv, DescriptorsSafe
<1> QED
  BY <1>1, PoolInvariant, PTL

\* Threads are numbered 0 to thread_num - 1 without repetition (server.c:72-74).
THEOREM ThreadIdsUnique == Spec => []UniqueThreadIds
<1>1. IInv => UniqueThreadIds
  BY DEF IInv
<1> QED
  BY <1>1, PoolInvariant, PTL

\* RANDOM drops a quarter, rounded up (server.c:172-182).
THEOREM RandomDropsQuarter == Spec => []QuarterDropped
<1>1. IInv => QuarterDropped
  BY DEF IInv
<1> QED
  BY <1>1, PoolInvariant, PTL

----------------------------------------------------------------------------
\* A step of the pool that changes nothing the buffer sees.
Invisible ==
    UNCHANGED <<sched_alg, queue, running_threads, cur_req, Serving,
                IF mpc = "close" THEN NoFd ELSE connfd>>

\* Locking, waiting, answering and closing change nothing the buffer can see.
LEMMA InvisibleStutters == Invisible => UNCHANGED Buffer!bufferVars
  BY DEF Invisible, Buffer!bufferVars, waiting_queue_size

\* A refusal, a drop and an admission each meet the condition the abstract
\* buffer sets for it.
LEMMA MainStepRefines ==
    ASSUME IInv, Accept \/ MainStep
    PROVE  Buffer!BufferNext \/ UNCHANGED Buffer!bufferVars
<1>1. TypeOK /\ CountersExact /\ RequestInv /\ MutexInv /\ PolicyInv
      /\ QueueBound /\ QuarterDropped
  BY DEF IInv
<1>2. CASE Accept
  <2>1. PICK f \in Fds : connfd' = f
    BY <1>2 DEF Accept
  <2>2. Buffer!Arrive(f)
    BY <1>1, <1>2, <2>1
       DEF Accept, Buffer!Arrive, RequestInv, Serving, TypeOK, waiting_queue_size
  <2> QED
    BY <2>2 DEF Buffer!BufferNext
<1>3. CASE MainEnqueue
  <2>1. /\ connfd # NoFd /\ mpc # "close" /\ mpc' = "accept" /\ connfd' = NoFd
        /\ queue' = Append(queue, connfd) /\ UNCHANGED <<sched_alg, cur_req>>
        /\ Len(queue') + running_threads' = Len(queue) + running_threads + 1
    BY <1>1, <1>3 DEF MainEnqueue, AtEnqueue, RequestInv, TypeOK
  <2>2. Serving' = Serving
    BY <1>1, <1>3 DEF MainEnqueue, SignalBufferEmpty, Sleepers, Serving, TypeOK
  <2>3. sched_alg # "-1" => waiting_queue_size + running_threads < QueueSize
    BY <1>1, <1>3, QueueSizeAssumption
       DEF MainEnqueue, AtEnqueue, MoreToDrop, Full, waiting_queue_size,
           PolicyInv, QueueBound, QuarterDropped, TypeOK, UNKNOWN
  <2>4. Buffer!Admit
    BY <2>1, <2>2, <2>3 DEF Buffer!Admit, waiting_queue_size
  <2> QED
    BY <2>4 DEF Buffer!BufferNext
<1>4. CASE MainReject
  <2>1. Serving' = Serving
    BY <1>4 DEF MainReject, Serving
  <2>2. /\ connfd # NoFd /\ mpc = "decide" /\ mpc' = "close"
        /\ UNCHANGED <<sched_alg, cur_req, queue, running_threads>>
        /\ waiting_queue_size + running_threads >= QueueSize
        /\ sched_alg = "dt" \/ (sched_alg \in {"dh", "random"} /\ queue = << >>)
    BY <1>1, <1>4
       DEF MainReject, RequestInv, Full, waiting_queue_size, TypeOK, DROP_TAIL,
           DROP_HEAD, RANDOM
  <2>3. Buffer!Refuse
    BY <2>1, <2>2 DEF Buffer!Refuse, waiting_queue_size
  <2> QED
    BY <2>3 DEF Buffer!BufferNext
<1>5. CASE MainDropHead
  <2>1. Serving' = Serving
    BY <1>5 DEF MainDropHead, Serving
  <2>2. /\ connfd # NoFd /\ mpc = "decide" /\ mpc' = "admit"
        /\ UNCHANGED <<sched_alg, cur_req, connfd>>
        /\ queue # << >> /\ queue' = Tail(queue)
        /\ waiting_queue_size + running_threads >= QueueSize
        /\ sched_alg = "dh"
        /\ Len(queue') + running_threads' = Len(queue) + running_threads - 1
    BY <1>1, <1>5
       DEF MainDropHead, RequestInv, Full, waiting_queue_size, TypeOK, DROP_HEAD
  <2>3. Buffer!DropOldest
    BY <1>1, <2>1, <2>2 DEF Buffer!DropOldest, waiting_queue_size, TypeOK
  <2> QED
    BY <2>3 DEF Buffer!BufferNext
<1>6. CASE MainDropOne
  <2>1. Serving' = Serving
    BY <1>6 DEF MainDropOne, Serving
  <2>2. /\ connfd # NoFd /\ mpc = "drop" /\ mpc' = "drop"
        /\ UNCHANGED <<sched_alg, cur_req, connfd>>
        /\ sched_alg = "random"
        /\ \E i \in 1..Len(queue) :
              queue' = [j \in 1..(Len(queue) - 1) |->
                           IF j < i THEN queue[j] ELSE queue[j + 1]]
    BY <1>1, <1>6
       DEF MainDropOne, RequestInv, PolicyInv, waiting_queue_size, RANDOM,
           RemoveIndex
  <2>3. LET dropped == QueueSize - (waiting_queue_size + running_threads)
        IN  dropped < Buffer!Quarter(Len(queue) + dropped)
    BY <1>1, <1>6, QueueSizeAssumption
       DEF MainDropOne, MoreToDrop, QuarterDropped, waiting_queue_size,
           Buffer!Quarter, TypeOK
  <2>4. Len(queue') + running_threads' = Len(queue) + running_threads - 1
    BY <1>1, <1>6, RemoveIndexType DEF MainDropOne, waiting_queue_size, TypeOK
  <2>5. Buffer!DropRandom
    BY <1>1, <2>1, <2>2, <2>3, <2>4
       DEF Buffer!DropRandom, Buffer!Quarter, waiting_queue_size, TypeOK
  <2> QED
    BY <2>5 DEF Buffer!BufferNext
<1>7. CASE MainLock \/ MainWait \/ MainClose \/ MainStartDrop
  <2>1. Invisible
    BY <1>7 DEF MainLock, MainWait, MainClose, MainStartDrop, Invisible, Serving
  <2> QED
    BY <2>1, InvisibleStutters
<1>8. ASSUME NEW w \in Threads, Create(w)
      PROVE  UNCHANGED Buffer!bufferVars
  <2>1. Invisible
    BY <1>1, <1>8 DEF Create, Invisible, Serving, TypeOK, RequestInv
  <2> QED
    BY <2>1, InvisibleStutters
<1> QED
  BY <1>2, <1>3, <1>4, <1>5, <1>6, <1>7, <1>8 DEF MainStep

\* A worker's step dispatches, answers or releases a request, or is invisible.
LEMMA WorkerStepRefines ==
    ASSUME IInv, NEW w \in Threads, WorkerStep(w)
    PROVE  Buffer!BufferNext \/ UNCHANGED Buffer!bufferVars
<1>1. TypeOK /\ RequestInv /\ MutexInv
  BY DEF IInv
<1>2. CASE WorkerTake(w)
  <2>1. Serving' = Serving \cup {w} /\ w \notin Serving
    BY <1>1, <1>2 DEF WorkerTake, Serving, TypeOK
  <2>2. /\ mpc' = mpc \/ (mpc = "sleep" /\ mpc' = "relock")
        /\ UNCHANGED <<connfd, sched_alg>>
        /\ cur_req' = [cur_req EXCEPT ![w] = Head(queue)]
        /\ queue # << >> /\ queue' = Tail(queue)
    <3>1. queue # << >>
      BY <1>1, <1>2 DEF WorkerTake, waiting_queue_size, TypeOK
    <3> QED
      BY <3>1, <1>2 DEF WorkerTake, SignalBufferFull
  <2>3. Len(queue') + running_threads' = Len(queue) + running_threads
    <3>1. Len(queue') = Len(queue) - 1
      BY <1>1, <2>2 DEF TypeOK
    <3>2. running_threads' = running_threads + 1
      BY <1>2 DEF WorkerTake
    <3> QED
      BY <1>1, <3>1, <3>2 DEF TypeOK
  <2>4. Buffer!Dispatch(w)
    BY <2>1, <2>2, <2>3 DEF Buffer!Dispatch, waiting_queue_size
  <2> QED
    BY <2>4 DEF Buffer!BufferNext
<1>3. CASE WorkerClose(w)
  <2>1. Serving' = Serving /\ w \in Serving
    BY <1>1, <1>3 DEF WorkerClose, Serving, TypeOK
  <2>2. /\ UNCHANGED <<mpc, connfd, sched_alg, queue, running_threads>>
        /\ cur_req[w] # NoFd
        /\ cur_req' = [cur_req EXCEPT ![w] = NoFd]
    BY <1>1, <1>3 DEF WorkerClose, mainVars, RequestInv
  <2>3. Buffer!Answer(w)
    BY <2>1, <2>2 DEF Buffer!Answer, waiting_queue_size
  <2> QED
    BY <2>3 DEF Buffer!BufferNext
<1>4. CASE WorkerFinish(w)
  <2>1. Serving' = Serving \ {w} /\ w \in Serving
    BY <1>1, <1>4 DEF WorkerFinish, Serving, TypeOK
  <2>2. /\ mpc' = mpc \/ (mpc = "sleep" /\ mpc' = "relock")
        /\ UNCHANGED <<connfd, sched_alg, queue, cur_req>>
        /\ cur_req[w] = NoFd
        /\ Len(queue') + running_threads' = Len(queue) + running_threads - 1
    BY <1>1, <1>4
       DEF WorkerFinish, NoLongerRunning, SignalBufferFull, RequestInv, TypeOK
  <2>3. Buffer!Release(w)
    BY <1>1, <2>1, <2>2 DEF Buffer!Release, waiting_queue_size, TypeOK
  <2> QED
    BY <2>3 DEF Buffer!BufferNext
<1>5. CASE \/ LockM2(w) \/ ReadId(w) \/ WriteId(w) \/ InitStats(w)
           \/ WorkerLock(w) \/ WorkerWait(w) \/ WorkerHandle(w)
           \/ WorkerLock2(w)
  <2>1. Invisible
    BY <1>1, <1>5 DEF LockM2, ReadId, WriteId, InitStats, WorkerLock,
       WorkerWait, WorkerHandle, WorkerLock2, mainVars, Invisible, Serving,
       TypeOK
  <2> QED
    BY <2>1, InvisibleStutters
<1> QED
  BY <1>2, <1>3, <1>4, <1>5 DEF WorkerStep

\* The pool implements RequestBuffer: oldest first, admission only when there
\* is room, and drops and refusals only as the policy says (server.c:85-187).
THEOREM PoolImplementsBuffer == Spec => ImplementsBuffer
<1>1. Init => Buffer!BufferInit
  BY DEF Init, Buffer!BufferInit, Serving, waiting_queue_size
<1>2. IInv /\ [Next]_vars => [Buffer!BufferNext]_Buffer!bufferVars
  <2> SUFFICES ASSUME IInv, [Next]_vars
               PROVE  Buffer!BufferNext \/ UNCHANGED Buffer!bufferVars
    OBVIOUS
  <2>1. CASE UNCHANGED vars
    <3>1. Invisible
      BY <2>1 DEF vars, Invisible, Serving
    <3> QED
      BY <3>1, InvisibleStutters
  <2>2. CASE SpuriousWake \/ Exit
    <3>1. Invisible
      BY <2>2 DEF SpuriousWake, Exit, mainVars, Sleepers, Invisible, Serving,
                  IInv, TypeOK
    <3> QED
      BY <3>1, InvisibleStutters
  <2> QED
    BY <2>1, <2>2, MainStepRefines, WorkerStepRefines DEF Next, Running
<1> QED
  BY <1>1, <1>2, PoolInvariant, PTL DEF Spec, ImplementsBuffer, Buffer!BufferSpec
=============================================================================
