---------------------------- MODULE BinAllocator ----------------------------
(***************************************************************************)
(* HW4Wet/malloc_3.cpp and HW4Wet/malloc_4.cpp: a heap of blocks, each     *)
(* with its metadata in front of it, kept in a list by address; the free   *)
(* ones are also in a histogram of bins by size.  The two files differ in  *)
(* the alignment of sizes (Align) and in whether srealloc takes a block    *)
(* merged from three out of the histogram (DropsMerged); which of them     *)
(* runs is chosen in the initial state.                                    *)
(*                                                                         *)
(* The allocator is sequential: one step is one call.  The statics of the  *)
(* program are one record, heap, that the functions of the program take    *)
(* and return; a block is the address of its metadata, counted from the    *)
(* start of the heap.                                                      *)
(***************************************************************************)
EXTENDS Integers, Sequences, FiniteSets, SequencesExt, Lists

CONSTANTS
    META,         \* sizeof(MallocMetadata)
    SPLIT_MIN,    \* 128: what a split must leave
    BIN, NBINS,   \* 1024 and 128: width and number of the bins
    MMAP_SIZE,    \* 131072
    MAX_SIZE,     \* 100000000
    ALIGN,        \* 8, in malloc_4.cpp
    Versions,     \* the files: malloc_3 and malloc_4
    HeapLimit,    \* bound on the program break
    AddressLimit, \* bound on what mmap returns, and so on the mapped blocks
    Sizes,        \* sizes asked of smalloc, of each file
    ReallocSizes, \* sizes asked of srealloc, of each file
    Callocs,      \* pairs <<num, size>> asked of scalloc
    WORD          \* 2^64: size_t wraps there

ASSUME BinAssumption == BIN \in Nat \ {0} /\ NBINS \in Nat \ {0} /\ MMAP_SIZE = BIN * NBINS
ASSUME AlignAssumption == ALIGN \in Nat \ {0} /\ META % ALIGN = 0
ASSUME LayoutAssumption ==
    /\ META \in Nat \ {0} /\ SPLIT_MIN \in Nat \ {0} /\ MAX_SIZE \in Nat
    /\ HeapLimit \in Nat /\ AddressLimit \in Nat /\ HeapLimit <= AddressLimit
ASSUME WordAssumption ==
    /\ WORD \in Nat \ {0} /\ Callocs \subseteq Nat \X Nat
    /\ \A v \in Versions : Sizes[v] \subseteq 0..(WORD - 1) /\ ReallocSizes[v] \subseteq 0..(WORD - 1)

VARIABLES
    heap,    \* the statics of the allocator, the program break, which file it is, and
             \* whether the histogram is broken: its index out of bounds, or a block in use in it
    held,    \* ghost: the pointers the user has, with the size asked for
    lost     \* ghost: a srealloc copied too few bytes

vars == <<heap, held, lost>>

NULL == -1

\* The addresses mmap may return lie behind the heap.
Maps == (HeapLimit + 1)..AddressLimit

\* What an operation returns: the statics after it and the pointer.
Returns(h, p) == [h |-> h, p |-> p]

Init ==
    /\ heap \in {[list |-> << >>, meta |-> << >>,
                  histo |-> [i \in 0..(NBINS - 1) |-> << >>],
                  num_of_metadatas |-> 0, mmaped_blocks_num |-> 0,
                  mmaped_bytes_num |-> 0, maps |-> << >>, brk |-> 0,
                  broken |-> "none", version |-> v] : v \in Versions}
    /\ held = << >>
    /\ lost = FALSE

Size(h, b) == h.meta[b].size
IsFree(h, b) == h.meta[b].is_free
Place(h, b, f, n) == [h EXCEPT !.meta = With(@, b, [size |-> n, is_free |-> f])]

(***************************************************************************)
(* The list of all blocks.                                                 *)
(***************************************************************************)
IndexOf(h, b) == SelectInSeq(h.list, LAMBDA x : x = b)
list_next(h, b) ==
    IF IndexOf(h, b) = Len(h.list) THEN NULL ELSE h.list[IndexOf(h, b) + 1]
list_prev(h, b) == IF IndexOf(h, b) = 1 THEN NULL ELSE h.list[IndexOf(h, b) - 1]
all_list_end(h) == IF h.list = << >> THEN NULL ELSE Last(h.list)

add_node_list(h, b, prev) ==
    [h EXCEPT !.list = InsertAt(@, IF prev = NULL THEN 1 ELSE IndexOf(h, prev) + 1, b)]

(***************************************************************************)
(* The histogram of free blocks.  An index that is not one of its bins is  *)
(* undefined behaviour: the model notes it and stops there.                *)
(***************************************************************************)
BinOf(h, b) == Size(h, b) \div BIN

\* Fault: the new block goes to the front of its bin.
FirstInBin(h, q, b) == 0

\* How many blocks of bin q stay in front of b: the walk stops at the first
\* that is larger.
Ahead(h, q, b) ==
    CHOOSE k \in 0..Len(q) :
       /\ \A j \in 1..k : Size(h, q[j]) <= Size(h, b)
       /\ k < Len(q) => Size(h, q[k + 1]) > Size(h, b)

add_node_histo(h, b) ==
    LET i == BinOf(h, b) IN
    IF i >= NBINS THEN [h EXCEPT !.broken = "index"]
    ELSE [h EXCEPT !.histo[i] = InsertAt(@, Ahead(h, @, b) + 1, b)]

remove_node_histo(h, b) ==
    LET i == BinOf(h, b) IN
    IF ~IsFree(h, b) \/ i >= NBINS THEN h
    ELSE [h EXCEPT !.histo[i] = RemoveFirst(@, b)]

(***************************************************************************)
(* Splitting and uniting blocks.                                           *)
(***************************************************************************)
\* Fault: the metadata of the new block is not taken off.
RestWithMetadata(m, n) == m - n

\* remaining_size
Rest(m, n) == m - n - META

split_block(h, b, n) ==
    LET new == b + META + n
        h1 == Place(h, new, TRUE, Rest(Size(h, b), n))
        h2 == remove_node_histo(add_node_histo(h1, new), b)
        h3 == Place(h2, b, FALSE, n)
    IN  [add_node_list(h3, new, b) EXCEPT !.num_of_metadatas = @ + 1]

\* What is left is worth a block of its own.
LargeEnough(m, n) == m - n >= SPLIT_MIN + META

\* Fault: the metadata that is gone is still counted.
StillCounted(c) == c

\* num_of_metadatas--
OneLess(c) == c - 1

unite_right(h, b) ==
    IF b = NULL \/ ~IsFree(h, b) \/ list_next(h, b) = NULL
       \/ ~IsFree(h, list_next(h, b)) THEN h
    ELSE LET gone == list_next(h, b)
             h1 == remove_node_histo(remove_node_histo(h, gone), b)
             h2 == [h1 EXCEPT !.list = RemoveFirst(@, gone),
                              !.num_of_metadatas = OneLess(@),
                              !.meta = Drop(@, gone)]
         IN  add_node_histo(Place(h2, b, TRUE, Size(h, b) + Size(h, gone) + META), b)

----------------------------------------------------------------------------
(***************************************************************************)
(* smalloc.  g is what the kernel grants: sbrk succeeds up to g.limit, and *)
(* mmap if g.map.                                                          *)
(***************************************************************************)
\* malloc_3.cpp takes sizes as they are.
Align(h) == IF h.version = "malloc_4" THEN ALIGN ELSE 1

round_up(h, n) == IF n % Align(h) = 0 THEN n ELSE n + (Align(h) - (n % Align(h)))

\* Fault: a block just too small is taken.
FitsWithMetadata(m, n) == m + META >= n

Fits(m, n) == m >= n

\* The first block that fits, from the bin of the size on.
FoundIn(h, n, i) == SelectInSeq(h.histo[i], LAMBDA b : Fits(Size(h, b), n) /\ IsFree(h, b))
Find(h, n) ==
    LET I == {i \in (n \div BIN)..(NBINS - 1) : FoundIn(h, n, i) # 0}
    IN  IF I = {} THEN NULL ELSE h.histo[Min(I)][FoundIn(h, n, Min(I))]

\* The new metadata is counted as soon as there is room for it.
create_metadata_sbrk(h) ==
    [h EXCEPT !.brk = @ + META, !.num_of_metadatas = @ + 1]

\* The wilderness is enlarged if it is free; otherwise sbrk is called for the
\* metadata, and again for the data: if only the second call fails, the
\* metadata has been counted and its bytes stay where they are.
sbrk_wrapper(h, n, g) ==
    LET w == all_list_end(h)
        b == h.brk
        h1 == create_metadata_sbrk(h)
    IN  IF w # NULL /\ IsFree(h, w)
        THEN IF b + n - Size(h, w) > g.limit THEN Returns(h, NULL)
             ELSE Returns([Place(remove_node_histo(h, w), w, FALSE, n)
                              EXCEPT !.brk = b + n - Size(h, w)], w)
        ELSE IF b + META > g.limit THEN Returns(h, NULL)
        ELSE IF b + META + n > g.limit THEN Returns(h1, NULL)
        ELSE Returns(add_node_list(Place([h1 EXCEPT !.brk = @ + n], b, FALSE, n), b, w), b)

mmap_wrapper(h, n, g) ==
    IF ~g.map \/ Maps \ DOMAIN h.maps = {} THEN Returns(h, NULL)
    ELSE LET m == CHOOSE x \in Maps \ DOMAIN h.maps : TRUE
         IN  Returns([h EXCEPT !.maps = With(@, m, n), !.num_of_metadatas = @ + 1,
                               !.mmaped_blocks_num = @ + 1, !.mmaped_bytes_num = @ + n], m)

\* Fault: a request of exactly MMAP_SIZE goes to the heap.
LargerThanMmapSize(n) == n > MMAP_SIZE

GoesToMmap(n) == n >= MMAP_SIZE

smalloc(h, size, g) ==
    LET n == round_up(h, size)
        b == Find(h, n)
    IN  IF n = 0 \/ n > MAX_SIZE THEN Returns(h, NULL)
        ELSE IF GoesToMmap(n) THEN mmap_wrapper(h, n, g)
        ELSE IF b = NULL THEN sbrk_wrapper(h, n, g)
        ELSE IF LargeEnough(Size(h, b), n) THEN Returns(split_block(h, b, n), b)
        ELSE Returns(Place(remove_node_histo(h, b), b, FALSE, Size(h, b)), b)

(***************************************************************************)
(* sfree.  Whether a block is mapped is told by its size alone.            *)
(***************************************************************************)
\* The size in the metadata in front of the pointer p.
SizeOf(h, p) == IF p \in DOMAIN h.maps THEN h.maps[p] ELSE Size(h, p)

deallocate_mmap(h, p) ==
    [h EXCEPT !.maps = Drop(@, p), !.num_of_metadatas = @ - 1,
              !.mmaped_blocks_num = @ - 1, !.mmaped_bytes_num = @ - h.maps[p]]

\* Fault: the block on the left is forgotten.
NotUnited(h, b) == h

\* unite_right(p_metadata->list_prev)
UniteLeft(h, b) == unite_right(h, list_prev(h, b))

\* A block that is already released is left alone.
sfree(h, p) ==
    IF p \notin DOMAIN h.maps /\ IsFree(h, p) THEN h
    ELSE IF SizeOf(h, p) >= MMAP_SIZE THEN deallocate_mmap(h, p)
    ELSE LET h1 == unite_right(add_node_histo(Place(h, p, TRUE, Size(h, p)), p), p)
         IN  UniteLeft(h1, p)

----------------------------------------------------------------------------
(***************************************************************************)
(* srealloc also tells how many bytes it copied.                           *)
(***************************************************************************)
\* Fault: the size of a metadata is taken off.
MINLessMetadata(m, n) == Min({m, n}) - META

\* MIN(oldp_metadata->size, size)
MIN(m, n) == Min({m, n})

Moves(h, p, n) == [h |-> h, p |-> p, copied |-> n]

\* unite_srealloc: the block is made free for a moment, so that it unites.
unite_srealloc(h, old, with, second_time) ==
    LET h1 == Place(h, old, TRUE, Size(h, old))
    IN  unite_right(IF second_time THEN h1 ELSE add_node_histo(h1, old), with)

\* The united block b is used again, and split if it is large enough.
Reuse(h, b, n, removed) ==
    LET h1 == Place(IF removed THEN remove_node_histo(h, b) ELSE h, b, FALSE, Size(h, b))
    IN  IF LargeEnough(Size(h, b), n) THEN split_block(h1, b, n) ELSE h1

\* Only malloc_4.cpp takes a block merged from three out of the histogram; the other
\* leaves a block in use there, where the model stops.
DropsMerged(h) == h.version = "malloc_4"
ReuseMerged(h, b, n) ==
    LET h1 == Reuse(h, b, n, DropsMerged(h))
    IN  IF DropsMerged(h) THEN h1 ELSE [h1 EXCEPT !.broken = "merged"]

\* A new block, a copy, and the old block freed; nothing if smalloc fails.
Elsewhere(h, p, n, g) ==
    LET r == smalloc(h, n, g)
    IN  IF r.p = NULL THEN Moves(r.h, NULL, 0)
        ELSE Moves(sfree(r.h, p), r.p, MIN(SizeOf(h, p), n))

srealloc(h, p, size, g) ==
    LET n == round_up(h, size)
        m == SizeOf(h, p)
        prev == list_prev(h, p)
        next == list_next(h, p)
        prevFree == prev # NULL /\ IsFree(h, prev)
        nextFree == next # NULL /\ IsFree(h, next)
        three == unite_srealloc(h, p, p, FALSE)
    IN  IF n = 0 \/ n > MAX_SIZE THEN Moves(h, NULL, 0)
        ELSE IF n >= MMAP_SIZE THEN Elsewhere(h, p, n, g)
        ELSE IF m >= n
        THEN Moves(IF LargeEnough(m, n) THEN split_block(h, p, n) ELSE h, p, m)
        ELSE IF prevFree /\ Size(h, prev) + m + META >= n
        THEN LET h1 == unite_srealloc(h, p, prev, FALSE)
             IN  Moves(Reuse(h1, prev, n, TRUE), prev, MIN(m, Size(h1, prev)))
        ELSE IF nextFree /\ Size(h, next) + m + META >= n
        THEN Moves(Reuse(three, p, n, TRUE), p, m)
        ELSE IF prevFree /\ nextFree /\ Size(h, prev) + Size(h, next) + m + 2 * META >= n
        THEN LET h1 == unite_srealloc(three, p, prev, TRUE)
             IN  Moves(ReuseMerged(h1, prev, n), prev,
                       MIN(Size(three, p), Size(h1, prev)))
        ELSE IF next = NULL
        THEN IF h.brk + n - m > g.limit THEN Moves(h, NULL, 0)
             ELSE Moves([Place(h, p, FALSE, n) EXCEPT !.brk = @ + n - m], p, m)
        ELSE Elsewhere(h, p, n, g)

----------------------------------------------------------------------------
(***************************************************************************)
(* The calls.  The kernel may grant no more heap, the metadata of a block  *)
(* only, or all that is asked for up to HeapLimit and a mapping.           *)
(***************************************************************************)
Grants ==
    {[limit |-> l, map |-> l = HeapLimit] :
        l \in {heap.brk, heap.brk + META, HeapLimit} \cap 0..HeapLimit}

\* What was asked for as the allocator has it: a product of scalloc that size_t
\* cannot hold is one that is smaller by a multiple of WORD (malloc_3.cpp:478).
Asked(n) == n % WORD

Smalloc(n) ==
    \E g \in Grants :
       LET r == smalloc(heap, n, g) IN
       /\ heap' = r.h
       /\ held' = IF r.p = NULL THEN held ELSE With(held, r.p, n)
       /\ lost' = lost

\* The product is computed in size_t; the block is then set to zero.
Scalloc(num, size) ==
    \E g \in Grants :
       LET r == smalloc(heap, Asked(num * size), g) IN
       /\ heap' = r.h
       /\ held' = IF r.p = NULL THEN held ELSE With(held, r.p, num * size)
       /\ lost' = lost

\* p is a block in use, or one that has been released.
Sfree(p) ==
    /\ heap' = sfree(heap, p)
    /\ held' = Drop(held, p)
    /\ lost' = lost

\* The pointers passed are the user's; a mapped block is never made smaller
\* than MMAP_SIZE, which the assignment excludes.
Srealloc(p, n) ==
    /\ p \in DOMAIN heap.maps => round_up(heap, n) >= MMAP_SIZE
    /\ \E g \in Grants :
          LET r == srealloc(heap, p, n, g) IN
          /\ heap' = r.h
          /\ held' = IF r.p = NULL THEN held ELSE With(Drop(held, p), r.p, n)
          /\ lost' = (lost \/ (/\ r.p \notin {NULL, p}
                               /\ r.copied < Min({Asked(held[p]), n})))

Next ==
    \/ /\ heap.broken = "none"
       /\ \/ \E n \in Sizes[heap.version] : Smalloc(n)
          \/ \E c \in Callocs : Scalloc(c[1], c[2])
          \/ \E p \in DOMAIN held \cup DOMAIN heap.meta : Sfree(p)
          \/ \E p \in DOMAIN held, n \in ReallocSizes[heap.version] : Srealloc(p, n)
    \/ heap.broken # "none" /\ UNCHANGED vars

Spec == Init /\ [][Next]_vars

----------------------------------------------------------------------------
(***************************************************************************)
(* The statistics.                                                         *)
(***************************************************************************)
Blocks == Range(heap.list)
FreeBlocks == {b \in Blocks : IsFree(heap, b)}
SumOfSizes(S) == SumOver([b \in Blocks |-> Size(heap, b)], S, AddressLimit)

_num_allocated_bytes == SumOfSizes(Blocks) + heap.mmaped_bytes_num
_num_meta_data_bytes == heap.num_of_metadatas * META

_num_allocated_blocks == Len(heap.list) + heap.mmaped_blocks_num
_num_free_blocks == Cardinality(FreeBlocks)
_num_free_bytes == SumOfSizes(FreeBlocks)

\* The type invariant of the allocator's statics.
TypeOK ==
    /\ DOMAIN heap.meta = Blocks
    /\ \A b \in Blocks : heap.meta[b] \in [size : Nat \ {0}, is_free : BOOLEAN]
    /\ heap.brk \in 0..HeapLimit
    /\ DOMAIN heap.maps \subseteq Maps
    /\ heap.num_of_metadatas \in Nat
    /\ heap.broken \in {"none", "index", "merged"}
    /\ heap.version \in Versions
    /\ lost \in BOOLEAN

\* No two blocks overlap, metadata included, none reaches beyond the break, and
\* all are aligned (malloc_4.cpp:15), whatever has been split, united, enlarged or
\* left behind by a failed sbrk.
NoOverlap ==
    /\ \A b \in Blocks : b % Align(heap) = 0 /\ Size(heap, b) % Align(heap) = 0
    /\ \A i \in 1..(Len(heap.list) - 1) :
          heap.list[i] + META + Size(heap, heap.list[i]) <= heap.list[i + 1]
    /\ heap.list # << >> =>
          Last(heap.list) + META + Size(heap, Last(heap.list)) <= heap.brk

\* The blocks in use are exactly the user's, and each is as large as was asked
\* for: nothing is handed out twice, taken back early or leaked.
UserBlocks ==
    heap.broken = "none" =>
       /\ DOMAIN held = {b \in Blocks : ~IsFree(heap, b)} \cup DOMAIN heap.maps
       /\ \A p \in DOMAIN held : SizeOf(heap, p) >= Asked(held[p])

\* The statics are well formed, no two blocks overlap, and those in use are the user's,
\* after any sequence of calls, failed ones included.
HeapInv == TypeOK /\ NoOverlap /\ UserBlocks

\* Of the user's pointers exactly the mapped ones have MMAP_SIZE or more in
\* their metadata, so that sfree, which looks at nothing else, unmaps those and
\* no block of the heap.
SizeTellsMapped ==
    heap.broken = "none" =>
       \A p \in DOMAIN held : SizeOf(heap, p) >= MMAP_SIZE <=> p \in DOMAIN heap.maps

\* Every free block is in the bin of its size exactly once, each bin is sorted
\* by size, and no other block is in the histogram.
HistogramExact ==
    /\ \A b \in Blocks, i \in 0..(NBINS - 1) :
          Cardinality({j \in DOMAIN heap.histo[i] : heap.histo[i][j] = b})
            = IF IsFree(heap, b) /\ i = BinOf(heap, b) THEN 1 ELSE 0
    /\ \A i \in 0..(NBINS - 1) :
          /\ Range(heap.histo[i]) \subseteq Blocks
          /\ IsSorted(heap.histo[i], LAMBDA x, y : Size(heap, x) <= Size(heap, y))

\* The histogram is exact after any sequence of calls of either file, up to a block that
\* is too large for the last bin and, in malloc_3.cpp, up to a block merged from three.
HistogramValid == heap.broken = "none" => HistogramExact

\* The histogram is exact after a block has been merged from three, too.
HistogramValidMerged == heap.broken # "index" => HistogramExact

\* Every byte below the break is one that _num_allocated_bytes or
\* _num_meta_data_bytes counts, those of mapped blocks apart, and the counters of
\* mapped blocks agree with the mappings: no split, union, enlargement or failed
\* sbrk loses or invents a byte.  What the statistics call allocated and not free
\* is what the user holds (malloc_3.cpp:486-540).
BytesAccounted ==
    heap.broken = "none" =>
       /\ (_num_allocated_bytes - heap.mmaped_bytes_num)
             + (_num_meta_data_bytes - META * heap.mmaped_blocks_num) = heap.brk
       /\ heap.mmaped_blocks_num = Cardinality(DOMAIN heap.maps)
       /\ heap.mmaped_bytes_num = SumOver(heap.maps, DOMAIN heap.maps, AddressLimit)
       /\ _num_allocated_blocks - _num_free_blocks = Cardinality(DOMAIN held)
       /\ _num_allocated_bytes - _num_free_bytes
             = SumOver([p \in DOMAIN held |-> SizeOf(heap, p)], DOMAIN held, AddressLimit)

\* srealloc never loses what the user had in the part that both sizes share.
ContentKept == ~lost

\* Free blocks with a free block behind them.
FreeNeighbours ==
    {i \in 1..(Len(heap.list) - 1) :
        IsFree(heap, heap.list[i]) /\ IsFree(heap, heap.list[i + 1])}

\* A call that adds to the user's blocks or takes from them, that is, smalloc,
\* scalloc or sfree, never leaves more free blocks side by side than there were:
\* only srealloc does, whose comment at malloc_4.cpp:399 has no code behind it.
FreeingUnites ==
    [][heap'.broken = "none" /\ Cardinality(DOMAIN held') # Cardinality(DOMAIN held)
          => Cardinality(FreeNeighbours') <= Cardinality(FreeNeighbours)]_vars

\* Both files implement the abstract heap: no call changes the bytes of a pointer it was
\* not given, and what it returns overlaps with nothing, however blocks were split,
\* united and enlarged before (malloc_3.cpp:267-475, malloc_4.cpp:243-456).  The bytes of
\* a pointer are those of its mapping, or those behind its metadata in the heap.
Abstract == INSTANCE Heap WITH
    area <- [p \in DOMAIN held |->
                IF p \in DOMAIN heap.maps THEN {<<p, i>> : i \in 1..heap.maps[p]}
                ELSE {<<NULL, i>> : i \in (p + META)..(p + META + Size(heap, p) - 1)}],
    asked <- [p \in DOMAIN held |-> Asked(held[p])]
ImplementsHeap == Abstract!HeapSpec
=============================================================================
