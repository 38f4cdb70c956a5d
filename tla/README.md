# A TLA+ model of OS-ALL-HW

The repository holds four programs of an operating-systems course. They share no
code; each is modelled on its own, and inside each program the modules are
composed where the code's parts meet.

| program | code | modules |
|---|---|---|
| HW3, a multi-threaded web server | `HW3Wet/server.c`, `queue.c`, `request.c`, `segel.c` | `ThreadPool`, `RequestBuffer`, `LinkedQueue`, `FifoQueue`, `Request`, `Timeval`, `Rio`, `ByteStream`; `ThreadPoolProofs`, `ServerProofs` |
| HW4, a memory allocator in three versions | `HW4Wet/malloc_2.cpp`, `malloc_3.cpp`, `malloc_4.cpp` | `FirstFitAllocator`, `BinAllocator`, `Heap`, `Lists`; `FirstFitProofs`, `BinProofs` |
| HW1, the shell smash | `HW1Wet/Commands.cpp`, `signals.cpp`, `smash.cpp` | `Shell`, `Lists`, `Timeouts`, `Redirection`, `Descriptors`; `ShellProofs`, `CommandsProofs` |
| HW2, system calls about process weights | `HW2Wet/kernel/hw2.c` | `Weights`, `Lists`; `WeightsProofs` |

`MC*` modules and `.cfg` files instantiate a module for TLC. Modules named
`*Proofs` hold theorems; `ListProofs` holds the lemmas several of them need. A definition whose comment begins with "Fault:" is not
part of a model: it is a plausible mistake, and TLC has to find a property
violated when it takes the place of the definition it precedes (`mutants` in
`PROJECT.json`).

## Inventory

### HW3: thread pool (`server.c`)

*State*: the waiting queue, `running_threads`, `count_id`, the mutexes `m1` and
`m2`, the conditions `buffer_empty` and `buffer_full`; main's `connfd`; each
worker's `cur_req` and `thread_id`. *Operations*: main accepts a connection,
locks `m1`, and if waiting plus running requests have reached `queue_size` acts on
the overload policy (block, drop tail, drop head, random), then enqueues and
signals; a worker waits for a request, takes it, serves it without the lock,
closes the connection and counts itself out. *Hard*: the interleaving of the
counters, lost and spurious wake-ups, descriptors the kernel recycles as soon as
they are closed, a drop loop on a shrinking queue. *Correct means*: the bound and
the counters hold, nobody sleeps while there is something to do for him, every
descriptor has exactly one user until it is closed, and each policy drops what
it says.

### HW3: waiting queue (`queue.c`)

A doubly linked list between two dummy nodes, called with `m1` held. *Hard*: pointer
surgery at both ends with recycled nodes; `random_drop` walks by index and trusts
the counter. *Correct means*: it is a FIFO queue with removal by index.

### HW3: requests (`request.c`)

Reading the request line and headers, classifying the URI, answering with
statistics per thread and times per request. *Hard*: the end of the stream in the
middle of a request, statistics reported while they change, a borrow in the
subtraction of times, wrappers that end the whole process. *Correct means*: an
answer tells the truth about the history of its thread and about the waiting time,
and every request is done with in the end.

### HW3: robust I/O (`segel.c`)

*State*: the `rio_t` of a connection (`rio_cnt`, `rio_bufptr`, `rio_buf`), the locals of the
call under way. *Operations*: `rio_readlineb` and `rio_readnb` over `rio_read`, the unbuffered
`rio_readn` and `rio_writen`, and the wrappers that end the process. *Hard*: the kernel cuts
reads and writes where it likes, interrupts and fails them; calls are mixed on one buffer.
*Correct means*: the calls see the client's stream and the client sees the server's
messages, without a byte lost, doubled or out of order.

### HW4: allocators

*State*: blocks with their metadata in front of them, in a list by address (or, in
`malloc_2.cpp`, the free ones only), a histogram of free blocks by size, counters
of metadata and mapped blocks. *Operations*: `smalloc`, `scalloc`, `sfree`,
`srealloc`; splitting, uniting with neighbours, enlarging the last block
("wilderness"), `mmap` from 128 KB on. The allocator is sequential. *Hard*: long
sequences of legal calls; the histogram index depends on a size that changes;
`sbrk` is called twice and may fail the second time; whether a block is mapped is
inferred from its size. *Correct means*: blocks do not overlap, the user's blocks
are exactly those in use, and every byte up to the program break is accounted for.

### HW1: shell

*State*: the job list with its highest id, the current command and its foreground
mark, the list of timed commands, the one alarm of the process, and the states of
the children. *Operations*: external commands in foreground and background, `jobs`,
`fg`, `bg`, `kill`, `quit`, `timeout`; handlers of Ctrl-C, Ctrl-Z and the alarm,
which run between any two steps. *Hard*: exactly these handlers. *Correct means*: no
child is lost or listed twice, ids stay sorted and are kept, signals go to the
foreground process only, and timed commands die on time.

### HW1: redirection and pipes

*State*: the table of descriptors of the shell and of each child, the descriptor in which
`executeCommand` saves stdout, the two ends of a pipe. *Operations*: `>` and `>>`
(`prepareRedirectionCommand` and the end of `executeCommand`), `|` and `|&`
(`executePipeCommand`), `cat`. *Hard*: early returns between saving and restoring, three
processes that close the ends of one pipe in any order, a `fork` that fails and leaves pid
-1 to `waitpid`, a table that fills up with what was leaked. *Correct means*: the shell's
stdout comes back, descriptors are closed, a pipe comes to its end, and jobs are reaped
by nobody but `removeFinishedJobs`.

### HW2: weights

*State*: the process tree and a weight per task. *Operations*: `set_weight`,
`get_weight`, `get_children_sum`, `get_heaviest_ancestor`. *Hard*: the tree changes
under a walk that takes no lock, sums overflow, a local is not initialised.

### Not modelled

* `malloc_1.cpp`: one `sbrk`, without state.
* Parsing and the built-ins `cd`, `pwd`, `chprompt` and `showpid` of the shell: string handling
  and single system calls.
* `open_listenfd`, `open_clientfd` and the wrappers of `segel.c` that set up sockets or that
  nobody calls.
* The system-call table of HW2 and the Linux headers it changes by a line: `sched.h`,
  `syscalls.h` and `init_task.h` make up 2982 of the 7266 lines of implementation, and all
  but a few of these are Linux's own declarations.
* Test scripts and their output.

## Modules and their code

**`ThreadPool`** (`server.c`). A step is what a thread does between two points where
another can interfere: taking a mutex, falling asleep (which releases it), all that
is done until it is released, closing a descriptor. `mpc` and `pc` are the places of
main and of the workers. `count_id++` is a read and a write (`ReadId`, `WriteId`).
`pthread_cond_signal` wakes one sleeper, chosen freely, which must take the mutex
again ("relock"); `SpuriousWake` wakes any sleeper at any time. `Exit` is `exit()`
from any place that calls it. A request is its descriptor. Policy `"-1"` is what
`getargs` makes of an unknown name; the code then enqueues without a bound, and
`Fds` bounds the model.

**`RequestBuffer`** is what the pool promises: requests are admitted when there is
room, served oldest first, refused or dropped only as the policy says. `ThreadPool`
instantiates it with a refinement mapping (`ImplementsBuffer`); a refused connection
leaves the buffer when main gives up `m1`, its `Close` comes later.

**`LinkedQueue`** (`queue.c`) has the fields of every node as functions on addresses;
`malloc` returns any address not allocated. `RandomDrop`, `WalkStep` and `DropCursor`
are `random_drop`, one step per pointer followed. The ghost `order` tells which nodes
are in the list. **`FifoQueue`** is the abstract queue it implements.

**`Request`** (`request.c`). The client's bytes are abstracted to the method, the kind of
URI, how many header lines come and whether an empty line ends them. At the end of
the stream `Rio_readlineb` leaves the buffer as it was; an uninitialised buffer
compares either way. What `stat` says of the file is a choice. Mapping an empty file
fails, which ends the process: state "empty". **`Timeval`** is the arithmetic of the
dispatch interval.

**`Rio`** (`segel.c`). A step is one system call, or one copy out of the buffer. The kernel
chooses how many bytes `read` and `write` take, may interrupt them (`ReadInterrupted`; an
interrupted unbuffered call changes nothing and is no step) or fail them. A connection is
read through its `rio_t` or directly, chosen at the start. `usrbuf`, `block` and `ret` are what
the callers were given last; a line is what lies in front of the 0 in the caller's buffer.
**`ByteStream`** is what the package promises: each call is one step on the stream.
`ImplementsStream` maps `out` to what was written before the `rio_writen` under way, so that a
message appears at once when the call returns.

**`BinAllocator`** (`malloc_3.cpp`, `malloc_4.cpp`). The statics of the program are one
record, which the operators named after the functions of the code take and return; a
step is one call. A block is the address of its metadata. Which file runs is part of the
initial state (`heap.version`); `Align` and `DropsMerged` are the differences between them. `Grants` is what the kernel may do: refuse, let
the first of two `sbrk` succeed only, or grant all. The ghost `held` is what the user
holds; `heap.broken` records an index beyond the histogram, or a block in use inside it,
where the model stops. What `mmap` returns lies behind `HeapLimit` and not behind `AddressLimit`; the
product of `scalloc` is taken modulo `WORD`. The all-blocks list and the bins are sequences, changed by
position, and the statistics sums over sets (`Lists!SumOver`), so that proofs can unfold them.
**`FirstFitAllocator`** (`malloc_2.cpp`) is built the same way; the
free list is a sequence, from which `remove_node` takes a position and into which `add_node`
puts one.
**`Heap`** is what an allocator promises: pointers own disjoint sets of bytes, each as many as
were asked for, which no call for another pointer changes. Both allocators implement it
(`ImplementsHeap`); the refinement mapping gives a pointer the bytes behind its metadata.

**`Shell`** (`Commands.cpp`, `signals.cpp`, `smash.cpp`). `pc` follows the main loop; an element
of `Cmds` is a Command object and its process, used again once both are gone. Handlers
are actions enabled at every `pc`. `GetPid()` of a Command without a pid is -1 (and `kill(-1)`
reaches every child) or, for `timeout`, whatever the memory held; so `Handler` then signals
nobody, one child or all of them (`Targets`). `kill` sends any signal: `Signals` has one of each
effect, and only SIGSTOP and SIGCONT change the mark. Processes also end, stop (SIGTTIN, being
in a group of their own) and continue whenever they like; the ghost `unmarked` is the set of those that
were last stopped or continued in a way that the shell took no note of. The alarm handler removes finished jobs
and kills one command at most. Operations on the job list (`addJob`, `removeFinishedJobs`,
...) are operators on a record and happen in one step; the look-up of a job by `fg` and
its removal are two. Erasing while walking the list is **`Lists`**`!Sublist`, a recursive
function that a proof can reason about.

**`Timeouts`** (`TimesList`, the timeout part of `executeCommand`). Times are counted from
now. `Timeout` is the decision about the alarm, `AddToTimes` the insertion; time may
pass and the handler run in between. The ghost `raced` says that it did. A duration is what
`atoi` returns, which the code does not check: 0, for `timeout 0` or a word, makes `alarm(0)` cancel the alarm
there was (`AlarmAfter`), and a negative one becomes a huge unsigned number of
seconds (`Seconds`, modulo `UINT`). `time` and `alarm` share one clock of whole seconds, and no second
begins while an alarm is due (`Tick`).

**`Redirection`** (`executeCommand`, `prepareRedirectionCommand`, `executePipeCommand`, `CatCommand`)
over **`Descriptors`**, the kernel's tables. A step of the shell or of a child in a pipe is one
call that another process can notice; `dup`, `close` and `open` of a redirection are one
step, because the table is the shell's own. Every call that may fail has an action for the
failure, also those whose result the code does not look at. `proc` follows the children:
what they do before they execute a command, then running, stopped, ended. The first
command of a pipe writes `Output` bytes at most into a pipe that holds `PipeSize`, the second
reads to the end of the file, and any command may exit at any time. The job list is the
set of pids in it; with pid -1 in it `removeFinishedJobs` takes any child that has ended.
The ghosts `lost`, `leaks` and `forkFailed` record the places where the code is known not to
clean up.

**`Weights`** (`hw2.c`). `fork`, `exit` and `wait` are the kernel's and are modelled from how
`hw2.c` uses the tree. The walk to init is one step per task; the recursive sum is one
step, a recursive function on the tasks, with every addition in the arithmetic of an int of
`2 * HALF` values. The ancestors of a task are the least set that holds it and, with a task, its
parent.

## Runs

| run | bounds | shows |
|---|---|---|
| `pool_safety` | 2 workers, 6 descriptors, queue 5, all policies | `QueueBound`, `NoLostWakeup`, `DescriptorsSafe`, the inductive invariant `IInv` of the proofs (with counters, thread ids and the quarter RANDOM drops, 1 or 2 of up to 5), and refinement of `RequestBuffer` |
| `pool_live` | 2 workers, 3 descriptors, queue 2 | connections are closed and main comes back |
| `queue` | 4 nodes, 3 descriptors | links, dangling nodes and the walk (`ListInv`), refinement of `FifoQueue` |
| `request` | 2 requests, 3 instants, 3 microseconds to a second | statistics, interval, and that a worker returns if the headers end |
| `rio` | 4 bytes in, 3 out, a buffer of 2, lines of 1, 3, 4, blocks of 0 and 3 | the buffer holds the next bytes, refinement of `ByteStream`, reading calls return |
| `malloc_3_4` | both files; heap of 20 units, metadata 2, 3 bins of 4, one mapping | all invariants of the allocator, all calls, failing `sbrk` and `mmap`, refinement of `Heap` |
| `malloc_3_merged` | as above, `malloc_3.cpp` | **violated**: a block in use stays in the histogram |
| `malloc_2` | heap of 10 units, `size_t` up to 63, a product that wraps | sorted free list, statistics, the user's blocks, lowest address first, refinement of `Heap` |
| `weights` | 4 tasks, int of 3 bits (`HALF` is 4) | sums, heaviest ancestor, and that the walk ends |
| `shell` | 3 commands, job ids to 3, all kinds of signals | the job list, the children and the stopped marks |
| `timeouts` | 3 commands, durations -1, 0, 1, 3, unsigned int of 5 values | order and pending alarm, nobody is killed early, the first command is killed and entries leave the list |
| `redirection` | 2 children, 6 descriptors, a pipe of 1 byte, 2 bytes written | stdout, leaks, ends of pipes, jobs, and that pipes end |

Why the bounds suffice to be interesting: in the pool there are more descriptors than
places in the queue, so that every policy acts; five places let RANDOM drop two at once,
and two workers let one sleep, start or finish while the other takes a request. With two
places (`pool_live`) both can be busy while main waits for room.
In the list four nodes allow removal at the front, in the middle and at the end with a
fifth address recycled. The allocator's constants are scaled down together, keeping
their relations (`MMAP_SIZE = BIN * NBINS`, a split needs more than the metadata), so
that a heap holds up to five blocks: enough for a block with two free neighbours, each
with a block beyond it. In the shell three commands allow a job to be removed and come
back between two others (with job ids to 4 the same run passes, in 4 minutes, with 4 597 943
states); in `timeouts` the durations allow one timeout to be started
inside another, to end before it, with it and after it, and 0 and -1 are those that set no
alarm or one that is far away. In `rio` lines are shorter and
longer than the internal buffer and than the caller's, and the stream is long enough for
three refills. In `redirection` six descriptors leave room for a pipe and one leak, so that
the table is also met when it is full; one pid is free while a job lives, so that a `fork`
in a pipe also fails for want of one. The same module with three children and five
descriptors passes too (909 694 states).

Deadlock is checked in every run but `rio`, where nothing is left to do once a failed call has
ended the process.

Named bounds: `Fds`, `Nodes`, `MaxHeaders`, `MaxRequests`, `HeapLimit`, `AddressLimit`, `MaxPid`, `MaxJobId`,
`UINT`, `MaxIn`, `MaxOut`, `MaxFds`, `PipeSize`, `Output`, `Late` (how far past its time an entry is
followed). Symmetry is used only in runs
without liveness.

### Fairness

* `ThreadPool!Fairness`: a runnable thread is scheduled (weak fairness); a thread that
  finds a mutex free again and again gets it (strong fairness of the acquisitions, as a
  mutex of the C library does not starve a thread for ever). `requestHandle` is assumed to
  return; `Request` says when it does not. No fairness makes a client connect, a sleeper
  wake spuriously or the process exit.
* `Request!FairSpec`: a worker runs, its client sends what it has to send, a CGI program ends.
* `Timeouts!TimeoutsFairSpec`: time passes, signals are delivered, the shell goes on; no process has
  to end by itself.
* `Rio!FairSpec`: a thread inside a call goes on, that is, signals do not interrupt it for
  ever; the client owes nothing.
* `Redirection!FairSpec`: the shell and the children it forks for a pipe are scheduled, the
  first command of a pipe goes on writing while it can, the second reading. Nothing is
  assumed of the user or of other commands.
* `Weights!FairSpec`: a process inside the kernel keeps running.

## What is proved

All proofs are checked by TLAPS, for every value of the constants that satisfies the named
`ASSUME`s of the modules they extend. These say what the code takes for granted: a finite
non-empty set of threads, `queue_size` at least 1, at least one microsecond to the second, a
buffer of at least one byte, a descriptor table with room for the three standard files,
metadata of at least one byte and a multiple of the alignment, `MMAP_SIZE` as large as all bins together, sizes that
`size_t` can hold, weights that are integers, durations that are integers, negative
or not, of a size that an unsigned int can hold, bounds that are natural numbers, distinct
constants. TLC evaluates them in the runs.

Each component has one inductive invariant, a conjunction of named parts. The properties
of the runs follow from it. Most of them are not inductive, because they speak of one place of
the program (a prompt, an answer, a job in the list) and the step that reaches it starts in the
middle of something; what has to be added is what holds there. Each strengthening was
checked by TLC on the instance of its run before it was proved.

| module | theorems | state the runs' properties |
|---|---|---|
| `ThreadPoolProofs` | `PoolInvariant`, `TypeCorrect`, `BufferNeverOverflows`, `WakeupsSuffice`, `EachFdHasOneUser`, `ThreadIdsUnique`, `RandomDropsQuarter`, `PoolImplementsBuffer` | `IInv`, `QueueBound`, `NoLostWakeup`, `DescriptorsSafe`, `ImplementsBuffer` |
| `ServerProofs` | `ListInvariant`, `ListImplementsFifo`; `RioInvariant`, `BufferCorrect`, `RioImplementsStream`; `IntervalCorrect`, `StatsCorrect`, `IntervalsExact` | `ListInv`, `ImplementsFifo`; `BufferHoldsNext`, `ImplementsStream`; `StatsInv`, `IntervalExact` |
| `CommandsProofs` | `TimeoutsInvariant`, `TimesCorrect`, `KilledInTime`; `RedirectionInvariant`, `StandardFilesRestored`, `NothingElseOpen`, `EndsCorrect`, `JobsCorrect` | `TimesInv`, `NeverKilledEarly`; `StdoutRestored`, `LeaksAccounted`, `EachHasItsEnd`, `JobsAreChildren` |
| `ShellProofs` | `ShellInvariant`, `JobListCorrect`, `ChildrenTracked`, `IdsKept`, `MarksTrue` | `JobListInv`, `EveryChildTracked`, `JobIdKept`, `StoppedMark` |
| `FirstFitProofs` | `FirstFitInvariant`, `FreeListCorrect`, `TakesTheLowest`, `FirstFitImplementsHeap` | `FreeListInv`, `LowestAddressFirst`, `ImplementsHeap` |
| `BinProofs` | `BinInvariant`, `HeapCorrect`, `MappedBySize`, `HistogramCorrect`, `StatisticsExact`, `CopiesAll`, `FreeingKeepsUnited`, `BinImplementsHeap` | `HeapInv`, `SizeTellsMapped`, `HistogramValid`, `BytesAccounted`, `ContentKept`, `FreeingUnites`, `ImplementsHeap` |
| `WeightsProofs` | `TreeInvariant`, `WeightsCorrect`, `HeaviestFound` | `WeightsInv`, `HeaviestIfHeavier` |

* `ThreadPoolProofs`. The goal is a conjunction of seven properties of the pool, none of them
  inductive alone. `IInv` adds who holds which mutex at which place (`MutexInv`), which
  variables hold a request (`RequestInv`), where main can be under which policy
  (`PolicyInv`) and what `count_id` counts (`IdInv`). One lemma per group of conjuncts shows
  that each action preserves it: `TypeStep`, `MutexStep`, `ServingStep`/`CountersStep` (the
  set of serving workers and the counter change together), `BufferStep` (a worker that takes
  a request leaves the sum alone, one that finishes wakes main if there is room),
  `WakeupStep` (a request is added together with an alert worker or when nobody sleeps),
  `IdStep`, `FdStep`. `PoolImplementsBuffer` shows step by step that the pool implements
  `RequestBuffer`.
* `ServerProofs`, the queue. `ListInv` (links, no dangling node, the walk stays inside) is inductive
  as it stands, because the ghost sequence says what the pointers must be. The core lemmas
  are `UnlinkKeepsLinks` and `LinkKeepsLinks`.
* `ServerProofs`, requests. `IntervalCorrect`: the borrow is right for all times. `StatsInv` counts, in
  the history of a thread, what its statistics must say; the lemmas show how these counts
  change when an answer is appended.
* `ServerProofs`, robust I/O. `RioInv` ties together the four places where a byte can be: still with the
  kernel, in `rio_buf`, in the caller's buffer, given to the caller. `RioImplementsStream` then
  shows that a call that returns is one step of `ByteStream` and every other step a stutter.
* `CommandsProofs`, timeouts. `TimeoutsInv` says of the alarm, between its setting and the insertion of
  the entry it is for, what it will have to be; that there is an alarm at all is claimed as long
  as no listed duration is 0 or less (`NotPositive`), that it is not too early always. `FirstLaterIs` and `EntryAdded` are what the
  search and the insertion of `addToTimesList` do.
* `CommandsProofs`, open files. `RedirectionInv` says at each `pc` what the shell's table holds
  (`ShellInv`), which pids `res` and `res2` are (`ResInv`), what the table of each child holds at
  each of its places (`KidsInv`), and which children are jobs (`JobsInv`). There is one lemma per
  action.
* `ShellProofs`. `ShellInv` speaks of the set of listed entries, of the command in hand at each
  `pc` (`InHandInv`), of the job `fg` has found and the alarm handler may have removed
  meanwhile (`FgInv`), of deleted Commands (`DeletedInv`), and of when a handler can find the
  current command in the foreground (`ForegroundInv`: a listed one only if it is marked stopped). The
  stopped marks depend on this, and on what is known of the command in hand that
  is not `unmarked`.
  `ErasedList`, `AppendedList`, `InsertedList` and `MarkedList` are what the operations of
  `JobsList` do to a well-formed list; in particular `addJobWithId` always finds a place.
* `FirstFitProofs`. `FreeListInv` says nothing of where a block lies, and so neither that a block
  from `sbrk` is new nor that areas are disjoint; `HeapOK` adds that each block ends where the
  next begins or before (`Layout`). It is an operator of the statics and of the user's
  pointers, because `srealloc` passes through a state of its own between `smalloc` and `sfree`.
  `TakeKeeps`, `SbrkKeeps` and `SfreeKeeps` show that each part of a call keeps it; `StepDoes`
  says what a step does to the blocks of the user, from which the action property and the
  refinement of `Heap` follow. The statistics rest on `SumOver`, a sum over a set of numbers.
* `BinProofs`. `HeapOK(h, u)` speaks of the statics `h` and of the user's pointers `u`, in three
  parts. `Core` holds whatever becomes of the histogram: the list has the blocks by address
  (`Listed`), each ends before the next begins, aligned and below the break (`Layout`), and blocks
  and metadata together are the bytes below the break (`Counted`). Here the metadata may be more
  than the blocks: an `sbrk` that fails for the data leaves one behind. `Sound` says, as long as nothing is broken, which blocks the histogram holds, and that every block of
  the heap is smaller than `MMAP_SIZE`; it takes the set of blocks as a parameter, because in
  the middle of a call a free block may be outside the histogram. `Used` ties `u` to the
  blocks. Each operation of the code has a predicate for what it does (`Taken`, `Parted`, `United`,
  `Reused`, `Stretched`, `Allocated`, `Released`, `Moved`, `Absorbed`) and a lemma that it does it
  (`SplitReuses`, `UniteDoes`, `MmapDoes`, ...); a call is the composition of them, in every
  case of `smalloc` and `srealloc`. `Effect` is what the call changes of the user's blocks,
  from which the refinement follows. For `FreeingKeepsUnited` the free blocks with a free block
  behind them (`Near`) are followed through each part of a call; a bijection between positions
  and blocks turns their number into that of the property.
* `WeightsProofs`. The tree is a function from tasks to parents, so everything rests on there being no
  cycle: `NoCycle`, from every task init is reached, and `LeafBelow`, every set of tasks has one without
  children in the set. Both are statements about all sets of tasks, which makes them usable as
  induction principles upwards and downwards. `Parents` says that a task that lives has a parent that
  has not exited; this is what `exit` keeps by giving children to init. `Walk` is what an
  undisturbed walk has seen. For the sum, `Totals`, the sum over the tree below each task, is shown to
  satisfy the recursion of the code (`TotalsAdd`: the trees of the children are apart, and `Wrap` may be
  applied early or late), and `LeafBelow` to leave no other solution (`SumsAreTotals`).
* `ListProofs`. Induction over numbers up to a bound, stated for sets instead of predicates
  and derived from the well-foundedness of the natural numbers; with it `SublistIs`, what a walk
  that erases leaves of a list of any length, `InsertOrdered` and `RemoveOrdered`, which keep a list in
  the order of a key, and `SumOverIs`, `SumOverSame`, `SumOverAdd` and `SumOverUnion`, what a sum depends
  on and how it grows.

Only model-checked, and why: liveness. The properties `EveryConnectionClosed`, `MainComesBack`,
`ReturnsIfHeadersEnd`, `ReadsReturn`, `TimeoutsHappen`, `PipeEnds` and `WalkEnds` need fairness, and
TLAPS has no reasoning about fairness and `ENABLED` at hand. Every invariant, every
action property and every refinement that a passing run checks is a theorem.

## What the checks say of the code

Everything stated as a property of a passing run holds on the instances checked, and all of it but
liveness for every value of the constants.
Noteworthy: the pool loses no wake-up although each signal wakes one thread only; the two
allocators with bins leak and double nothing even if the second `sbrk` fails; the job list
stays sorted although jobs leave it and come back; however a stream is cut, the robust I/O
package neither loses nor repeats a byte; the ends of a pipe are closed in an order that
always lets it end.

The violated run is a place where the code does not do what the assignment says; `findings`
in `PROJECT.json` quotes the lines. The modelling met more such places. The models have the code's behaviour there, and the properties of the
passing runs are stated with the exception it calls for:

| code | what it does | in the model |
|---|---|---|
| `server.c:155` | DROP_HEAD frees the request it drops and never closes its descriptor | the exception in `DescriptorsSafe` and `EveryConnectionClosed` |
| `request.c:86` | if the client closes before the empty line, `requestReadhdrs` reads the end of the stream for ever | the condition of `ReturnsIfHeadersEnd` |
| `segel.c:407` | a last line without a newline is counted one byte too long | `ByteStream!Line` returns `k + 1` |
| `malloc_3.cpp:420`, `malloc_4.cpp:399` | the rest of a split in `srealloc` is not united with a free block behind it, as the comment says | `FreeingUnites` leaves `srealloc` out |
| `malloc_3.cpp:156` | free blocks united to 128 KB or more are written behind `free_histogram` | `heap.broken`, where the model stops |
| `malloc_2.cpp:56` | a block whose data `sbrk` refuses stays in `_num_allocated_blocks` | `AllocatedStatsCover` is an inequality |
| `malloc_2.cpp:184` | `num * size` of `scalloc` may wrap around | `Scalloc` computes modulo `WORD`; `Asked` is what the allocator sees, and the block is as large as that |
| `hw2.c:45` | `max_pid` is returned uninitialised when no ancestor is heavier than the caller | `max_pid` starts as any pid; `HeaviestIfHeavier` has the condition |
| `signals.cpp:30`, `44` | Ctrl-Z or Ctrl-C before the pid is set is `kill(-1)`, or goes to an uninitialised pid | `Targets` and the ghost `unmarked`, in `StoppedMark` |
| `Commands.cpp:228` | `kill` with a stop signal other than SIGSTOP stops a job and leaves it marked as running; so does whatever stops or continues a job from outside | `unmarked`, in `StoppedMark` |
| `signals.cpp:32` | Ctrl-Z before the fork clears the foreground mark of a command that then runs in the foreground | `Handler` clears `foreground` |
| `Commands.cpp:842` | of several timed commands due together only the first is killed | `killFinishedAlarms`; in `TimeoutsHappen`, `FirstKilled` is about the first in the list and `EntriesExpire` about entries, not processes |
| `Commands.cpp:856` | `GetClosestAlarm` takes a whole duration for what is left, so an alarm may be replaced by a later one, again and again as long as the user starts timeouts | `TimesInv` says the alarm is pending, not that it is in time; `EntriesExpire` supposes that no more timeouts are started |
| `Commands.cpp:1136` | `atoi` is not checked: a duration of 0 cancels the alarm of the others, a negative one puts it off, and the entry is listed all the same | `NotPositive`, in `TimesInv` and `TimeoutsHappen` |
| `Commands.cpp:1139` | a second that begins between `alarm` and `addToTimesList` leaves an entry without an alarm | the ghost `raced`, in `TimesInv` and `TimeoutsHappen` |
| `Commands.cpp:1157`, `1152` | a redirected command that is stopped, or that `waitpid` fails for, leaves the shell's stdout redirected and its copy open | the ghosts `lost` and `leaks`, in `StdoutRestored` and `LeaksAccounted` |
| `Commands.cpp:1081` | an `open` that fails leaves the saved stdout open | `leaks` |
| `Commands.cpp:313` | `cat` leaves its file open if a read or write fails | `leaks` |
| `Commands.cpp:1048`, `1118` | after a failed `fork` the shell waits for -1: it takes the end of a job away from `removeFinishedJobs`, and waits for a job that may never end | `forkFailed` in `JobsAreChildren`, the exception in `PipeEnds` |

## Limits

* `removeFinishedJobs` and the other operations on the shell's lists are atomic: an alarm
  that interrupts one of them and changes the same vector is undefined behaviour and not
  modelled. In `Shell` and `Timeouts` `fork` succeeds; in `Redirection` it may fail, but there
  the handlers do not run. Pids are not recycled while they are in the job list.
* In `Redirection` `close` and `dup2` of an open descriptor succeed, and so does `setpgrp`.
  A command in a pipe is not stopped.
* A deleted Command that is still current is undefined behaviour; a handler that reads it
  does nothing or signals any of the children, and `unmarked` records the latter. Of what a signal
  with such a pid does outside the children, also to the shell itself, nothing is said.
* `LinkedQueue!FreeNode` frees a node while no operation on the list is under way; `server.c:101` may
  do so during one of another worker, which does not touch that node. `Timeval!Normalise` changes nothing, because
  the microseconds of `gettimeofday` are less than a second.
* `srealloc` of a mapped block to less than `MMAP_SIZE` is excluded by the assignment and here.
* `get_children_sum` is one step, so lists that change under it are not seen.
* `sys_set_weight` with a negative weight returns an error and changes nothing: no step.

## Status

Done: thread pool and its abstract buffer; queue and its abstract queue; requests; robust
I/O and its abstract stream; allocators and the abstract heap; weights; shell, timeouts,
redirections and pipes; proofs of the safety properties of all of these.

Left: liveness has no proofs. Lists that change under `get_children_sum`, pids that are recycled
and an alarm inside an operation on the job list (see Limits) would need models of a finer grain.
