------------------------- MODULE FirstFitAllocator -------------------------
(***************************************************************************)
(* HW4Wet/malloc_2.cpp: blocks of fixed size, the free ones in a list      *)
(* sorted by address from which smalloc takes the first that fits.  As in  *)
(* BinAllocator a step is one call, a block is the address of its metadata *)
(* and the statics of the program are one record.                          *)
(***************************************************************************)
EXTENDS Integers, Sequences, FiniteSets, SequencesExt, Lists

CONSTANTS
    META,         \* sizeof(MallocMetadata)
    MAX_SIZE,     \* 100000000
    WORD,         \* 2^64: size_t wraps there
    HeapLimit,    \* bound on the program break
    Sizes,        \* sizes asked of smalloc and srealloc
    Callocs       \* pairs <<num, size>> asked of scalloc

ASSUME LayoutAssumption == META \in Nat \ {0} /\ MAX_SIZE \in Nat /\ HeapLimit \in Nat
ASSUME WordAssumption == WORD \in Nat \ {0} /\ Sizes \subseteq 0..(WORD - 1) /\ Callocs \subseteq Nat \X Nat

VARIABLES
    heap,    \* the statics of the allocator and the program break
    held     \* ghost: the pointers the user has, with the size asked for

vars == <<heap, held>>

NULL == -1
Returns(h, p) == [h |-> h, p |-> p]

Init ==
    /\ heap = [free_list |-> << >>, meta |-> << >>, free_blocks_num |-> 0,
               free_bytes_num |-> 0, num_of_metadatas |-> 0,
               num_allocated_blocks |-> 0, num_allocated_bytes |-> 0, brk |-> 0]
    /\ held = << >>

Size(h, b) == h.meta[b].size

\* create_metadata_sbrk counts the block before its data is there.
create_metadata_sbrk(h, n) ==
    [h EXCEPT !.brk = @ + META, !.num_of_metadatas = @ + 1,
              !.num_allocated_blocks = @ + 1, !.num_allocated_bytes = @ + n]

\* No free block fits: sbrk for the metadata, sbrk for the data; limit is how
\* far the kernel lets the break go.
FromSbrk(h, n, limit) ==
    LET h1 == create_metadata_sbrk(h, n) IN
    IF h.brk + META > limit THEN Returns(h, NULL)
    ELSE IF h.brk + META + n > limit THEN Returns(h1, NULL)
    ELSE Returns([h1 EXCEPT !.brk = @ + n,
                            !.meta = With(@, h.brk, [size |-> n, is_free |-> FALSE])],
                 h.brk)

\* The i-th free block is unlinked.
remove_node(h, i) == [h EXCEPT !.free_list = RemoveAt(@, i)]

\* Fault: the bytes of a block taken again still count as free.
TakenStillFree(h, i) ==
    [remove_node(h, i) EXCEPT !.meta[h.free_list[i]].is_free = FALSE,
                              !.free_blocks_num = @ - 1]

\* The i-th free block is used again.
Take(h, i) ==
    [remove_node(h, i) EXCEPT !.meta[h.free_list[i]].is_free = FALSE,
                              !.free_blocks_num = @ - 1,
                              !.free_bytes_num = @ - Size(h, h.free_list[i])]

\* Fault: a block just too small is taken.
FitsWithMetadata(m, n) == m + META >= n

Fits(m, n) == m >= n

smalloc(h, n, limit) ==
    LET i == SelectInSeq(h.free_list, LAMBDA b : Fits(Size(h, b), n)) IN
    IF n = 0 \/ n > MAX_SIZE THEN Returns(h, NULL)
    ELSE IF i = 0 THEN FromSbrk(h, n, limit)
    ELSE Returns(Take(h, i), h.free_list[i])

\* Fault: a freed block goes to the front of the list.
AtFront(h, b) == 0

\* How many free blocks stay in front of b: the walk stops at the first address
\* that is higher.
Ahead(h, b) ==
    CHOOSE k \in 0..Len(h.free_list) :
       /\ \A j \in 1..k : h.free_list[j] <= b
       /\ k < Len(h.free_list) => h.free_list[k + 1] > b

\* b is linked in behind the first k free blocks.
add_node(h, b, k) == [h EXCEPT !.free_list = InsertAt(@, k + 1, b)]

\* A pointer that is already released is left alone.
sfree(h, b) ==
    IF h.meta[b].is_free THEN h
    ELSE [add_node(h, b, Ahead(h, b)) EXCEPT
            !.meta[b].is_free = TRUE,
            !.free_blocks_num = @ + 1, !.free_bytes_num = @ + Size(h, b)]

\* The old block is freed only once the new one is there.
srealloc(h, b, n, limit) ==
    LET r == smalloc(h, n, limit) IN
    IF n = 0 \/ n > MAX_SIZE THEN Returns(h, NULL)
    ELSE IF Size(h, b) >= n THEN Returns(h, b)
    ELSE IF r.p = NULL THEN r
    ELSE Returns(sfree(r.h, b), r.p)

----------------------------------------------------------------------------
Limits == {heap.brk, heap.brk + META, HeapLimit} \cap 0..HeapLimit
Hold(f, p, n) == IF p = NULL THEN f ELSE With(f, p, n)

Smalloc(n) ==
    \E limit \in Limits :
       LET r == smalloc(heap, n, limit)
       IN  heap' = r.h /\ held' = Hold(held, r.p, n)

\* The product is computed in size_t; the block is then set to zero.
Scalloc(num, size) ==
    \E limit \in Limits :
       LET r == smalloc(heap, (num * size) % WORD, limit)
       IN  heap' = r.h /\ held' = Hold(held, r.p, num * size)

\* Any pointer ever returned may be passed: a second release does nothing.
Sfree(b) == heap' = sfree(heap, b) /\ held' = Drop(held, b)

Srealloc(b, n) ==
    \E limit \in Limits :
       LET r == srealloc(heap, b, n, limit)
       IN  /\ heap' = r.h
           /\ held' = IF r.p = NULL THEN held ELSE Hold(Drop(held, b), r.p, n)

Next ==
    \/ \E n \in Sizes : Smalloc(n)
    \/ \E c \in Callocs : Scalloc(c[1], c[2])
    \/ \E b \in DOMAIN heap.meta : Sfree(b)
    \/ \E b \in DOMAIN held, n \in Sizes : Srealloc(b, n)

Spec == Init /\ [][Next]_vars

----------------------------------------------------------------------------
(***************************************************************************)
(* The statistics.                                                         *)
(***************************************************************************)
_num_free_blocks == heap.free_blocks_num
_num_free_bytes == heap.free_bytes_num
_num_allocated_blocks == heap.num_allocated_blocks
_num_allocated_bytes == heap.num_allocated_bytes
_num_meta_data_bytes == heap.num_of_metadatas * META

Blocks == DOMAIN heap.meta

\* The type invariant of the allocator's statics.
TypeOK ==
    /\ Blocks \subseteq 0..HeapLimit
    /\ \A b \in Blocks : heap.meta[b] \in [size : Nat \ {0}, is_free : BOOLEAN]
    /\ heap.free_list \in Seq(Blocks)
    /\ heap.brk \in 0..HeapLimit
    /\ heap.free_blocks_num \in Nat /\ heap.free_bytes_num \in Nat

\* The free list holds exactly the free blocks, in ascending order of address.
FreeListSorted ==
    /\ Range(heap.free_list) = {b \in Blocks : heap.meta[b].is_free}
    /\ IsSorted(heap.free_list, LAMBDA x, y : x < y)

\* What was asked for as the allocator has it: a product of scalloc that size_t
\* cannot hold is one that is smaller by a multiple of WORD (malloc_2.cpp:184).
Asked(n) == n % WORD

\* The blocks not free are exactly the user's, each as large as was asked for, but
\* for a product that wrapped; a failed srealloc leaves the old block alone.
UserBlocks ==
    /\ DOMAIN held = {b \in Blocks : ~heap.meta[b].is_free}
    /\ \A b \in DOMAIN held : Size(heap, b) >= Asked(held[b])

SumOfSizes(S) == SumOver([b \in Blocks |-> Size(heap, b)], S, HeapLimit)

\* _num_free_blocks and _num_free_bytes tell the blocks that are free.
FreeStatsExact ==
    /\ _num_free_blocks = Len(heap.free_list)
    /\ _num_free_bytes = SumOfSizes(Range(heap.free_list))

\* _num_allocated_blocks and _num_allocated_bytes tell no block too few; a block
\* whose data sbrk refused stays in them (malloc_2.cpp:56).  The bytes of the metadata
\* and of the blocks are those below the break.
AllocatedStatsCover ==
    /\ _num_allocated_blocks >= Cardinality(Blocks)
    /\ _num_allocated_bytes >= SumOfSizes(Blocks)
    /\ _num_meta_data_bytes + SumOfSizes(Blocks) = heap.brk

\* The free list and the statistics agree with the metadata of the blocks after
\* any sequence of calls, with sbrk failing at either of its two places
\* (malloc_2.cpp:40-178).
FreeListInv ==
    /\ TypeOK /\ FreeListSorted /\ UserBlocks
    /\ FreeStatsExact /\ AllocatedStatsCover

\* A block taken from the free list is the one with the lowest address of those
\* that are large enough.
LowestAddressFirst ==
    [][\A b \in Blocks :
          heap.meta[b].is_free /\ ~heap'.meta[b].is_free =>
             \A x \in Blocks : x < b /\ heap.meta[x].is_free =>
                Size(heap, x) < Asked(held'[b])]_vars

\* malloc_2.cpp implements the abstract heap, for what scalloc's product is in size_t: no
\* call changes the bytes of a pointer it was not given, and what it returns overlaps with
\* nothing, the blocks a failed sbrk has left behind included (malloc_2.cpp:123-215).
Abstract == INSTANCE Heap WITH
    area <- [p \in DOMAIN held |-> (p + META)..(p + META + Size(heap, p) - 1)],
    asked <- [p \in DOMAIN held |-> Asked(held[p])]
ImplementsHeap == Abstract!HeapSpec
=============================================================================
