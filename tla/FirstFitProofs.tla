--------------------------- MODULE FirstFitProofs ---------------------------
(***************************************************************************)
(* Proofs about malloc_2.cpp.  The statics h and the user's pointers u are *)
(* passed as parameters, as the functions of the allocator do: srealloc    *)
(* goes through a state in which neither is what a call finds or leaves.   *)
(***************************************************************************)
EXTENDS FirstFitAllocator, ListProofs, FiniteSetTheorems, TLAPS

Metas == UNION {[B -> [size : Nat \ {0}, is_free : BOOLEAN]] : B \in SUBSET (0..HeapLimit)}

Statics ==
    [free_list : Seq(0..HeapLimit), meta : Metas, free_blocks_num : Int, free_bytes_num : Int,
     num_of_metadatas : Nat, num_allocated_blocks : Nat, num_allocated_bytes : Nat,
     brk : 0..HeapLimit]

\* The statics, field by field.
Record(l, meta, fblocks, fbytes, metas, blocks, bytes, brk) ==
    [free_list |-> l, meta |-> meta, free_blocks_num |-> fblocks, free_bytes_num |-> fbytes,
     num_of_metadatas |-> metas, num_allocated_blocks |-> blocks,
     num_allocated_bytes |-> bytes, brk |-> brk]

\* A block ends before the next one starts, and all end below the break.
Layout(meta, brk) ==
    /\ \A b \in DOMAIN meta : b + META + meta[b].size <= brk
    /\ \A b, c \in DOMAIN meta : b < c => b + META + meta[b].size <= c

\* The free list l holds the free blocks, sorted.
Listed(l, meta) ==
    /\ \A i \in 1..Len(l) : l[i] \in DOMAIN meta /\ meta[l[i]].is_free
    /\ \A b \in DOMAIN meta : meta[b].is_free => \E i \in 1..Len(l) : l[i] = b
    /\ \A i, j \in 1..Len(l) : i < j => l[i] < l[j]

\* The user's pointers u are the blocks that are not free, each large enough.
Used(u, meta) ==
    /\ DOMAIN u = {b \in DOMAIN meta : ~meta[b].is_free}
    /\ \A b \in DOMAIN u : u[b] \in Nat /\ meta[b].size >= Asked(u[b])

SizesOf(meta) == [b \in DOMAIN meta |-> meta[b].size]
FreeOf(meta) == {b \in DOMAIN meta : meta[b].is_free}

FreeCounted(h) ==
    /\ h.free_blocks_num = Len(h.free_list)
    /\ h.free_bytes_num = SumOver(SizesOf(h.meta), FreeOf(h.meta), HeapLimit)

AllCounted(h) ==
    /\ h.num_allocated_blocks >= Cardinality(DOMAIN h.meta)
    /\ h.num_allocated_bytes >= SumOver(SizesOf(h.meta), DOMAIN h.meta, HeapLimit)
    /\ h.num_of_metadatas * META + SumOver(SizesOf(h.meta), DOMAIN h.meta, HeapLimit) = h.brk

\* The inductive invariant.  FreeListInv says nothing of where the blocks lie; the
\* refinement of Heap needs it.
HeapOK(h, u) ==
    /\ h \in Statics
    /\ Layout(h.meta, h.brk)
    /\ Listed(h.free_list, h.meta)
    /\ Used(u, h.meta)
    /\ FreeCounted(h)
    /\ AllCounted(h)

----------------------------------------------------------------------------
\* What a product of two sizes is in size_t, and that a size is what it is there.
LEMMA AskedIs ==
    ASSUME NEW n \in Nat
    PROVE  Asked(n) \in 0..(WORD - 1) /\ (n < WORD => Asked(n) = n)
  BY WordAssumption DEF Asked

\* The metadata is a function on a finite set of addresses.
LEMMA MetaIs ==
    ASSUME NEW meta \in Metas
    PROVE  /\ DOMAIN meta \subseteq 0..HeapLimit /\ IsFiniteSet(DOMAIN meta)
           /\ Cardinality(DOMAIN meta) \in Nat
           /\ \A b \in DOMAIN meta : /\ meta[b] \in [size : Nat \ {0}, is_free : BOOLEAN]
                                     /\ meta[b].size \in Nat \ {0} /\ meta[b].is_free \in BOOLEAN
                                     /\ b \in 0..HeapLimit /\ b \in Nat
           /\ meta = [b \in DOMAIN meta |-> meta[b]]
<1>1. PICK B \in SUBSET (0..HeapLimit) : meta \in [B -> [size : Nat \ {0}, is_free : BOOLEAN]]
  BY DEF Metas
<1>2. DOMAIN meta = B
  BY <1>1
<1>3. IsFiniteSet(0..HeapLimit)
  BY LayoutAssumption, FS_Interval
<1>4. IsFiniteSet(B) /\ Cardinality(B) \in Nat
  BY <1>3, FS_Subset, FS_CardinalityType
<1>5. \A b \in B : meta[b] \in [size : Nat \ {0}, is_free : BOOLEAN]
  BY <1>1
<1>6. \A b \in B : meta[b].size \in Nat \ {0} /\ meta[b].is_free \in BOOLEAN
  BY <1>5
<1>7. \A b \in B : b \in 0..HeapLimit /\ b \in Nat
  BY LayoutAssumption
<1> QED
  BY <1>1, <1>2, <1>4, <1>5, <1>6, <1>7

\* Conversely, what has such a domain and such values is one.
LEMMA MetaMade ==
    ASSUME NEW meta, meta = [b \in DOMAIN meta |-> meta[b]], DOMAIN meta \subseteq 0..HeapLimit,
           \A b \in DOMAIN meta : meta[b] \in [size : Nat \ {0}, is_free : BOOLEAN]
    PROVE  meta \in Metas
<1>1. meta \in [DOMAIN meta -> [size : Nat \ {0}, is_free : BOOLEAN]]
  OBVIOUS
<1>2. DOMAIN meta \in SUBSET (0..HeapLimit)
  OBVIOUS
<1> QED
  BY <1>1, <1>2 DEF Metas

\* The bytes of a set of blocks are a number, and change only with their sizes.
LEMMA SumOfBlocks ==
    ASSUME NEW m1 \in Metas, NEW m2 \in Metas, NEW S \in SUBSET DOMAIN m1, S \subseteq DOMAIN m2,
           \A b \in S : m2[b].size = m1[b].size
    PROVE  /\ SumOver(SizesOf(m1), S, HeapLimit) \in Nat
           /\ SumOver(SizesOf(m2), S, HeapLimit) = SumOver(SizesOf(m1), S, HeapLimit)
<1>1. \A x \in S : SizesOf(m1)[x] \in Nat /\ SizesOf(m2)[x] = SizesOf(m1)[x]
  BY MetaIs DEF SizesOf
<1>2. HeapLimit \in Nat
  BY LayoutAssumption
<1> QED
  BY <1>1, <1>2, SumOverIs

\* One more block adds its size.
LEMMA SumOfOneMore ==
    ASSUME NEW m \in Metas, NEW S \in SUBSET DOMAIN m, NEW b \in DOMAIN m, b \notin S
    PROVE  SumOver(SizesOf(m), S \cup {b}, HeapLimit) = SumOver(SizesOf(m), S, HeapLimit) + m[b].size
<1>1. \A x \in S \cup {b} : SizesOf(m)[x] \in Nat
  BY MetaIs DEF SizesOf
<1>2. HeapLimit \in Nat /\ b \in 0..HeapLimit
  BY LayoutAssumption, MetaIs
<1>3. SumOver(SizesOf(m), S \cup {b}, HeapLimit) = SumOver(SizesOf(m), S, HeapLimit) + SizesOf(m)[b]
  BY <1>1, <1>2, SumOverAdd
<1> QED
  BY <1>3 DEF SizesOf

----------------------------------------------------------------------------
\* What every proof about a call needs of the statics it finds.
LEMMA StaticsAre ==
    ASSUME NEW h \in Statics
    PROVE  /\ h = Record(h.free_list, h.meta, h.free_blocks_num, h.free_bytes_num, h.num_of_metadatas,
                         h.num_allocated_blocks, h.num_allocated_bytes, h.brk)
           /\ h.free_list \in Seq(0..HeapLimit) /\ Len(h.free_list) \in Nat
           /\ \A i \in 1..Len(h.free_list) : h.free_list[i] \in 0..HeapLimit
           /\ h.meta \in Metas
           /\ h.free_blocks_num \in Int /\ h.free_bytes_num \in Int
           /\ h.num_of_metadatas \in Nat /\ h.num_allocated_blocks \in Nat
           /\ h.num_allocated_bytes \in Nat /\ h.brk \in 0..HeapLimit
<1>1. h.free_list \in Seq(0..HeapLimit)
  BY DEF Statics
<1>2. Len(h.free_list) \in Nat /\ \A i \in 1..Len(h.free_list) : h.free_list[i] \in 0..HeapLimit
  BY <1>1, LenProperties, ElementOfSeq
<1> QED
  BY <1>1, <1>2 DEF Statics, Record

\* What Take does to each field.
LEMMA TakeRecord ==
    ASSUME NEW h \in Statics, NEW i
    PROVE  Take(h, i) = Record(RemoveAt(h.free_list, i),
                               [h.meta EXCEPT ![h.free_list[i]].is_free = FALSE],
                               h.free_blocks_num - 1,
                               h.free_bytes_num - h.meta[h.free_list[i]].size, h.num_of_metadatas,
                               h.num_allocated_blocks, h.num_allocated_bytes, h.brk)
<1>0. PICK l, meta, fblocks, fbytes, metas, blocks, bytes, brk :
          h = Record(l, meta, fblocks, fbytes, metas, blocks, bytes, brk)
  BY StaticsAre
<1>1. /\ h.free_list = l /\ h.meta = meta /\ h.free_blocks_num = fblocks /\ h.free_bytes_num = fbytes
      /\ h.num_of_metadatas = metas /\ h.num_allocated_blocks = blocks
      /\ h.num_allocated_bytes = bytes /\ h.brk = brk
  BY <1>0 DEF Record
<1> DEFINE r == remove_node(h, i)
<1>2. r = Record(RemoveAt(l, i), meta, fblocks, fbytes, metas, blocks, bytes, brk)
  BY <1>0 DEF remove_node, Record
<1>3. Take(h, i) = [r EXCEPT !.meta[h.free_list[i]].is_free = FALSE,
                             !.free_blocks_num = @ - 1,
                             !.free_bytes_num = @ - Size(h, h.free_list[i])]
  BY Zenon DEF Take
<1> HIDE DEF r
<1>4. Size(h, h.free_list[i]) = meta[l[i]].size /\ h.free_list[i] = l[i]
  BY <1>1 DEF Size
<1>5. Take(h, i) = Record(RemoveAt(l, i), [meta EXCEPT ![l[i]].is_free = FALSE], fblocks - 1,
                          fbytes - meta[l[i]].size, metas, blocks, bytes, brk)
  <2>1. Take(h, i) = [r EXCEPT !.meta[l[i]].is_free = FALSE, !.free_blocks_num = @ - 1,
                               !.free_bytes_num = @ - meta[l[i]].size]
    BY <1>3, <1>4, Zenon
  <2> QED
    BY <1>2, <2>1 DEF Record
<1> QED
  BY <1>1, <1>5, Zenon

\* What sfree does to each field for a block that is not free.
LEMMA SfreeRecord ==
    ASSUME NEW h \in Statics, NEW b, h.meta[b].is_free = FALSE
    PROVE  sfree(h, b) = Record(InsertAt(h.free_list, Ahead(h, b) + 1, b),
                                [h.meta EXCEPT ![b].is_free = TRUE],
                                h.free_blocks_num + 1, h.free_bytes_num + h.meta[b].size,
                                h.num_of_metadatas, h.num_allocated_blocks,
                                h.num_allocated_bytes, h.brk)
<1>0. PICK l, meta, fblocks, fbytes, metas, blocks, bytes, brk :
          h = Record(l, meta, fblocks, fbytes, metas, blocks, bytes, brk)
  BY StaticsAre
<1>1. /\ h.free_list = l /\ h.meta = meta /\ h.free_blocks_num = fblocks /\ h.free_bytes_num = fbytes
      /\ h.num_of_metadatas = metas /\ h.num_allocated_blocks = blocks
      /\ h.num_allocated_bytes = bytes /\ h.brk = brk
  BY <1>0 DEF Record
<1> DEFINE k == Ahead(h, b)
           r == add_node(h, b, k)
<1> HIDE DEF k
<1>2. r = Record(InsertAt(l, k + 1, b), meta, fblocks, fbytes, metas, blocks, bytes, brk)
  BY <1>0 DEF add_node, Record
<1>3. sfree(h, b) = [r EXCEPT !.meta[b].is_free = TRUE,
                              !.free_blocks_num = @ + 1, !.free_bytes_num = @ + Size(h, b)]
  BY Zenon DEF sfree, k
<1> HIDE DEF r
<1>4. Size(h, b) = meta[b].size
  BY <1>1 DEF Size
<1>5. sfree(h, b) = Record(InsertAt(l, k + 1, b), [meta EXCEPT ![b].is_free = TRUE],
                           fblocks + 1, fbytes + meta[b].size, metas, blocks, bytes, brk)
  BY <1>2, <1>3, <1>4 DEF Record
<1> QED
  BY <1>1, <1>5, Zenon DEF k

\* What the two steps of FromSbrk do to each field.
LEMMA SbrkRecord ==
    ASSUME NEW h \in Statics, NEW n
    PROVE  LET h1 == create_metadata_sbrk(h, n) IN
           /\ h1 = Record(h.free_list, h.meta, h.free_blocks_num, h.free_bytes_num,
                          h.num_of_metadatas + 1, h.num_allocated_blocks + 1,
                          h.num_allocated_bytes + n, h.brk + META)
           /\ [h1 EXCEPT !.brk = @ + n, !.meta = With(@, h.brk, [size |-> n, is_free |-> FALSE])]
                = Record(h.free_list, With(h.meta, h.brk, [size |-> n, is_free |-> FALSE]),
                         h.free_blocks_num, h.free_bytes_num, h.num_of_metadatas + 1,
                         h.num_allocated_blocks + 1, h.num_allocated_bytes + n, h.brk + META + n)
<1>0. PICK l, meta, fblocks, fbytes, metas, blocks, bytes, brk :
          h = Record(l, meta, fblocks, fbytes, metas, blocks, bytes, brk)
  BY StaticsAre
<1>1. /\ h.free_list = l /\ h.meta = meta /\ h.free_blocks_num = fblocks /\ h.free_bytes_num = fbytes
      /\ h.num_of_metadatas = metas /\ h.num_allocated_blocks = blocks
      /\ h.num_allocated_bytes = bytes /\ h.brk = brk
  BY <1>0 DEF Record
<1> DEFINE g == h
           h1 == create_metadata_sbrk(h, n)
           w == With(meta, brk, [size |-> n, is_free |-> FALSE])
<1>2. g = Record(l, meta, fblocks, fbytes, metas, blocks, bytes, brk)
  BY <1>0
<1>3. h1 = [g EXCEPT !.brk = @ + META, !.num_of_metadatas = @ + 1,
                     !.num_allocated_blocks = @ + 1, !.num_allocated_bytes = @ + n]
  BY Zenon DEF create_metadata_sbrk
<1> HIDE DEF g, h1
<1>4. h1 = Record(l, meta, fblocks, fbytes, metas + 1, blocks + 1, bytes + n, brk + META)
  BY <1>2, <1>3 DEF Record
<1>5. h1.brk = brk + META /\ h1.meta = meta
  BY <1>4 DEF Record
<1>6. With(h1.meta, h.brk, [size |-> n, is_free |-> FALSE]) = w
  BY <1>1, <1>5, Zenon
<1> HIDE DEF w
<1> DEFINE h2 == [h1 EXCEPT !.brk = brk + META + n]
<1>7. h2 = Record(l, meta, fblocks, fbytes, metas + 1, blocks + 1, bytes + n, brk + META + n)
  BY <1>4 DEF Record
<1>8. [h1 EXCEPT !.brk = @ + n, !.meta = With(@, h.brk, [size |-> n, is_free |-> FALSE])]
        = [h2 EXCEPT !.meta = w]
  BY <1>5, <1>6, Zenon
<1> HIDE DEF h2
<1>9. [h2 EXCEPT !.meta = w]
        = Record(l, w, fblocks, fbytes, metas + 1, blocks + 1, bytes + n, brk + META + n)
  BY <1>7 DEF Record
<1> QED
  BY <1>1, <1>4, <1>8, <1>9, Zenon DEF h1, w

\* A block whose flag changes keeps its size, and all others keep everything.
LEMMA FlagSet ==
    ASSUME NEW meta \in Metas, NEW b \in DOMAIN meta, NEW f \in BOOLEAN
    PROVE  LET m2 == [meta EXCEPT ![b].is_free = f] IN
           /\ m2 \in Metas /\ DOMAIN m2 = DOMAIN meta
           /\ \A c \in DOMAIN meta : m2[c].size = meta[c].size
           /\ \A c \in DOMAIN meta : c # b => m2[c] = meta[c]
           /\ m2[b].is_free = f
<1> DEFINE m2 == [meta EXCEPT ![b].is_free = f]
<1>1. meta[b] \in [size : Nat \ {0}, is_free : BOOLEAN]
  BY MetaIs
<1>2. DOMAIN m2 = DOMAIN meta /\ m2 = [c \in DOMAIN m2 |-> m2[c]]
  OBVIOUS
<1>3. \A c \in DOMAIN meta : c # b => m2[c] = meta[c]
  OBVIOUS
<1>4. m2[b] = [meta[b] EXCEPT !.is_free = f]
  OBVIOUS
<1>5. /\ m2[b] \in [size : Nat \ {0}, is_free : BOOLEAN] /\ m2[b].is_free = f
      /\ m2[b].size = meta[b].size
  BY <1>1, <1>4
<1> HIDE DEF m2
<1>6. DOMAIN meta \subseteq 0..HeapLimit /\ \A c \in DOMAIN meta : meta[c] \in [size : Nat \ {0}, is_free : BOOLEAN]
  BY MetaIs
<1>7. \A c \in DOMAIN m2 : m2[c] \in [size : Nat \ {0}, is_free : BOOLEAN]
  BY <1>2, <1>3, <1>5, <1>6
<1>8. m2 \in Metas
  BY <1>2, <1>6, <1>7, MetaMade
<1>9. \A c \in DOMAIN meta : m2[c].size = meta[c].size
  BY <1>3, <1>5
<1> QED
  BY <1>2, <1>3, <1>5, <1>8, <1>9 DEF m2

\* Taking the i-th free block for a request of m bytes keeps the invariant and touches no
\* other block.
LEMMA TakeKeeps ==
    ASSUME NEW h, NEW u, HeapOK(h, u), NEW i \in 1..Len(h.free_list), NEW m \in Nat,
           Size(h, h.free_list[i]) >= Asked(m)
    PROVE  LET b == h.free_list[i] IN
           /\ HeapOK(Take(h, i), With(u, b, m))
           /\ b \in DOMAIN h.meta /\ b \notin DOMAIN u /\ h.meta[b].is_free
           /\ DOMAIN Take(h, i).meta = DOMAIN h.meta
           /\ \A c \in DOMAIN h.meta : Take(h, i).meta[c].size = h.meta[c].size
           /\ \A c \in DOMAIN h.meta : c # b => Take(h, i).meta[c] = h.meta[c]
           /\ ~Take(h, i).meta[b].is_free
<1> DEFINE l == h.free_list
           b == l[i]
           meta == h.meta
           l2 == RemoveAt(l, i)
           m2 == [meta EXCEPT ![b].is_free = FALSE]
           t == Take(h, i)
           u2 == With(u, b, m)
<1>1. /\ h \in Statics /\ Layout(meta, h.brk) /\ Listed(l, meta) /\ Used(u, meta)
      /\ FreeCounted(h) /\ AllCounted(h)
  BY DEF HeapOK
<1>2. /\ h = Record(l, meta, h.free_blocks_num, h.free_bytes_num, h.num_of_metadatas,
                    h.num_allocated_blocks, h.num_allocated_bytes, h.brk)
      /\ l \in Seq(0..HeapLimit) /\ Len(l) \in Nat
      /\ meta \in Metas
      /\ h.free_blocks_num \in Int /\ h.free_bytes_num \in Int
      /\ h.num_of_metadatas \in Nat /\ h.num_allocated_blocks \in Nat
      /\ h.num_allocated_bytes \in Nat /\ h.brk \in 0..HeapLimit
  BY <1>1, StaticsAre
<1>3. t = Record(l2, m2, h.free_blocks_num - 1, h.free_bytes_num - meta[b].size, h.num_of_metadatas,
               h.num_allocated_blocks, h.num_allocated_bytes, h.brk)
  BY <1>1, TakeRecord, Zenon
<1>4. b \in DOMAIN meta /\ meta[b].is_free /\ meta[b].size >= Asked(m)
  BY <1>1 DEF Listed, Size
<1>5. /\ m2 \in Metas /\ DOMAIN m2 = DOMAIN meta
      /\ \A c \in DOMAIN meta : m2[c].size = meta[c].size
      /\ \A c \in DOMAIN meta : c # b => m2[c] = meta[c]
      /\ m2[b].is_free = FALSE
  BY <1>2, <1>4, FlagSet
<1>6. /\ l2 \in Seq(0..HeapLimit) /\ Len(l2) = Len(l) - 1
      /\ \A j \in 1..(Len(l) - 1) : l2[j] = IF j < i THEN l[j] ELSE l[j + 1]
  BY <1>2, RemoveAtIs
<1>7. meta[b].size \in Nat /\ i \in 1..Len(l)
  BY <1>2, <1>4, MetaIs
<1>8. b \notin DOMAIN u
  BY <1>1, <1>4 DEF Used
<1>9. DOMAIN u2 = DOMAIN u \cup {b} /\ u2[b] = m /\ \A c \in DOMAIN u : c # b => u2[c] = u[c]
  BY DEF With
<1>10. /\ t.free_list = l2 /\ t.meta = m2 /\ t.free_blocks_num = h.free_blocks_num - 1
       /\ t.free_bytes_num = h.free_bytes_num - meta[b].size
       /\ t.num_of_metadatas = h.num_of_metadatas
       /\ t.num_allocated_blocks = h.num_allocated_blocks
       /\ t.num_allocated_bytes = h.num_allocated_bytes /\ t.brk = h.brk
  BY <1>3 DEF Record
<1>11. t \in Statics
  <2>1. h.free_blocks_num - 1 \in Int /\ h.free_bytes_num - meta[b].size \in Int
    BY <1>2, <1>7
  <2> HIDE DEF l, b, meta, l2, m2, t, u2
  <2> QED
    BY <1>2, <1>3, <1>5, <1>6, <2>1 DEF Statics, Record
<1> HIDE DEF l2, m2, t, u2
<1>12. Layout(m2, h.brk)
  BY <1>1, <1>5 DEF Layout
<1>13. Listed(l2, m2)
  <2> HIDE DEF l, b, meta
  <2>0. \A j \in 1..Len(l) : l[j] \in DOMAIN meta /\ meta[l[j]].is_free /\ l[j] \in Int
    BY <1>1, <1>2, MetaIs DEF Listed
  <2>1. \A j, k \in 1..Len(l) : j < k => l[j] < l[k]
    BY <1>1 DEF Listed
  <2>2. \A j \in 1..Len(l) : j # i => l[j] # b
    <3>1. ASSUME NEW j \in 1..Len(l), j # i PROVE l[j] < l[i] \/ l[i] < l[j]
      <4>1. CASE j < i
        BY <1>7, <2>1, <4>1
      <4>2. CASE i < j
        BY <1>7, <2>1, <4>2
      <4> QED
        BY <1>2, <1>7, <3>1, <4>1, <4>2
    <3> QED
      BY <2>0, <3>1, <1>7 DEF b
  <2>3. ASSUME NEW j \in 1..Len(l2)
        PROVE  \E k \in 1..Len(l) : l2[j] = l[k] /\ k # i /\ (j < i => k = j) /\ (~(j < i) => k = j + 1)
    <3>1. CASE j < i
      <4>0. j \in 1..(Len(l) - 1)
        BY <1>6
      <4>1. j \in 1..Len(l) /\ j # i
        BY <1>2, <1>7, <3>1, <4>0
      <4>2. l2[j] = l[j]
        BY <1>6, <3>1, <4>0
      <4> QED
        BY <3>1, <4>1, <4>2
    <3>2. CASE ~(j < i)
      <4>0. j \in 1..(Len(l) - 1)
        BY <1>6
      <4>1. j + 1 \in 1..Len(l) /\ j + 1 # i
        BY <1>2, <1>7, <3>2, <4>0
      <4>2. l2[j] = l[j + 1]
        BY <1>6, <3>2, <4>0
      <4> QED
        BY <3>2, <4>1, <4>2
    <3> QED
      BY <3>1, <3>2
  <2>4. \A j \in 1..Len(l2) : l2[j] \in DOMAIN m2 /\ m2[l2[j]].is_free
    BY <1>5, <2>0, <2>2, <2>3
  <2>5. ASSUME NEW c \in DOMAIN m2, m2[c].is_free PROVE \E j \in 1..Len(l2) : l2[j] = c
    <3>1. c # b
      BY <1>5, <2>5
    <3>2. c \in DOMAIN meta /\ meta[c].is_free
      BY <1>5, <2>5, <3>1
    <3>3. PICK k \in 1..Len(l) : l[k] = c
      BY <1>1, <3>2 DEF Listed
    <3>4. k # i
      BY <3>1, <3>3 DEF b
    <3>5. CASE k < i
      <4>1. k \in 1..(Len(l) - 1)
        BY <1>2, <1>7, <3>5
      <4> QED
        BY <1>6, <3>3, <3>5, <4>1
    <3>6. CASE k > i
      <4>1. k - 1 \in 1..(Len(l) - 1) /\ ~(k - 1 < i) /\ (k - 1) + 1 = k
        BY <1>2, <1>7, <3>6
      <4> QED
        BY <1>6, <3>3, <4>1
    <3> QED
      BY <1>7, <3>4, <3>5, <3>6
  <2>6. ASSUME NEW j \in 1..Len(l2), NEW k \in 1..Len(l2), j < k PROVE l2[j] < l2[k]
    <3>1. PICK jj \in 1..Len(l) : l2[j] = l[jj] /\ (j < i => jj = j) /\ (~(j < i) => jj = j + 1)
      BY <2>3
    <3>2. PICK kk \in 1..Len(l) : l2[k] = l[kk] /\ (k < i => kk = k) /\ (~(k < i) => kk = k + 1)
      BY <2>3
    <3>3. jj < kk
      BY <1>2, <1>7, <1>6, <2>6, <3>1, <3>2
    <3> QED
      BY <2>1, <3>1, <3>2, <3>3
  <2> QED
    BY <2>4, <2>5, <2>6 DEF Listed
<1>14. Used(u2, m2)
  <2> HIDE DEF l, b, meta
  <2>1. \A c \in DOMAIN meta : (m2[c].is_free = FALSE) <=> (meta[c].is_free = FALSE \/ c = b)
    BY <1>5
  <2>2. \A c \in DOMAIN meta : meta[c].is_free \in BOOLEAN /\ m2[c].is_free \in BOOLEAN
    BY <1>2, <1>5, MetaIs
  <2>3. DOMAIN u = {c \in DOMAIN meta : ~meta[c].is_free}
    BY <1>1 DEF Used
  <2>4. DOMAIN u2 = {c \in DOMAIN m2 : ~m2[c].is_free}
    BY <1>4, <1>5, <1>9, <2>1, <2>2, <2>3, Zenon
  <2>5. ASSUME NEW c \in DOMAIN u2 PROVE u2[c] \in Nat /\ m2[c].size >= Asked(u2[c])
    <3>1. CASE c = b
      BY <1>4, <1>5, <1>9, <3>1
    <3>2. CASE c # b
      <4>1. c \in DOMAIN u /\ c \in DOMAIN meta /\ u2[c] = u[c]
        BY <1>9, <2>3, <3>2
      <4> QED
        BY <1>1, <1>5, <4>1 DEF Used
    <3> QED
      BY <3>1, <3>2
  <2> QED
    BY <2>4, <2>5 DEF Used
<1>15. FreeCounted(t)
  <2> HIDE DEF l, b, meta
  <2> DEFINE F == FreeOf(m2)
  <2>1. FreeOf(meta) = F \cup {b} /\ b \notin F /\ F \subseteq DOMAIN meta /\ F \subseteq DOMAIN m2
    <3>1. \A c \in DOMAIN meta : meta[c].is_free <=> (m2[c].is_free \/ c = b)
      BY <1>4, <1>5
    <3> QED
      BY <1>4, <1>5, <3>1 DEF FreeOf
  <2> HIDE DEF F
  <2>2. SumOver(SizesOf(meta), F \cup {b}, HeapLimit) = SumOver(SizesOf(meta), F, HeapLimit) + meta[b].size
    BY <1>2, <1>4, <2>1, SumOfOneMore
  <2>3. /\ SumOver(SizesOf(meta), F, HeapLimit) \in Nat
        /\ SumOver(SizesOf(m2), F, HeapLimit) = SumOver(SizesOf(meta), F, HeapLimit)
    BY <1>2, <1>5, <2>1, SumOfBlocks
  <2>4. h.free_bytes_num = SumOver(SizesOf(meta), F \cup {b}, HeapLimit) /\ h.free_blocks_num = Len(l)
    BY <1>1, <2>1 DEF FreeCounted, meta, l
  <2>5. t.free_bytes_num = SumOver(SizesOf(m2), F, HeapLimit)
    BY <1>7, <1>10, <2>2, <2>3, <2>4
  <2>6. t.free_blocks_num = Len(l2)
    BY <1>6, <1>10, <2>4
  <2> QED
    BY <1>10, <2>5, <2>6 DEF FreeCounted, F
<1>16. AllCounted(t)
  <2> HIDE DEF l, b
  <2>1. SumOver(SizesOf(m2), DOMAIN meta, HeapLimit) = SumOver(SizesOf(meta), DOMAIN meta, HeapLimit)
    BY <1>2, <1>5, SumOfBlocks
  <2> QED
    BY <1>1, <1>5, <1>10, <2>1 DEF AllCounted
<1>17. HeapOK(t, u2)
  BY <1>10, <1>11, <1>12, <1>13, <1>14, <1>15, <1>16 DEF HeapOK
<1> QED
  BY <1>4, <1>5, <1>8, <1>10, <1>17 DEF t, u2

\* The walk of sfree stops somewhere: behind it are the higher addresses.
LEMMA AheadIs ==
    ASSUME NEW h \in Statics, NEW b \in Int
    PROVE  /\ Ahead(h, b) \in 0..Len(h.free_list)
           /\ \A j \in 1..Ahead(h, b) : h.free_list[j] <= b
           /\ Ahead(h, b) < Len(h.free_list) => h.free_list[Ahead(h, b) + 1] > b
<1> DEFINE l == h.free_list
           K == {k \in 0..Len(l) : k < Len(l) => l[k + 1] > b}
<1>1. Len(l) \in Nat /\ \A j \in 1..Len(l) : l[j] \in Int
  BY StaticsAre, LayoutAssumption
<1>2. Len(l) \in K /\ K \in SUBSET Nat
  BY <1>1
<1>3. PICK k \in K : \A y \in K : k <= y
  BY <1>2, LeastNumber
<1>4. ASSUME NEW j \in 1..k PROVE l[j] <= b
  <2>1. k \in Nat /\ k <= Len(l)
    BY <1>1, <1>3
  <2>2. j - 1 \in 0..Len(l) /\ j - 1 < Len(l) /\ (j - 1) + 1 = j /\ ~(k <= j - 1) /\ j \in 1..Len(l)
    BY <1>1, <2>1
  <2>3. j - 1 \notin K
    BY <1>3, <2>2
  <2>4. ~(l[j] > b)
    BY <2>2, <2>3
  <2> QED
    BY <1>1, <2>2, <2>4
<1>5. k \in 0..Len(l) /\ (k < Len(l) => l[k + 1] > b)
  BY <1>3
<1> HIDE DEF K
<1>6. \E kk \in 0..Len(l) : /\ \A j \in 1..kk : l[j] <= b
                            /\ kk < Len(l) => l[kk + 1] > b
  BY <1>4, <1>5
<1> QED
  BY <1>6 DEF Ahead

\* Releasing a block of the heap keeps the invariant and touches no other block; a second
\* release changes nothing.
LEMMA SfreeKeeps ==
    ASSUME NEW h, NEW u, HeapOK(h, u), NEW b \in DOMAIN h.meta
    PROVE  /\ HeapOK(sfree(h, b), Drop(u, b))
           /\ DOMAIN sfree(h, b).meta = DOMAIN h.meta
           /\ \A c \in DOMAIN h.meta : sfree(h, b).meta[c].size = h.meta[c].size
           /\ \A c \in DOMAIN h.meta : c # b => sfree(h, b).meta[c] = h.meta[c]
           /\ sfree(h, b).meta[b].is_free
<1> DEFINE l == h.free_list
           k == Ahead(h, b)
           meta == h.meta
           l2 == InsertAt(l, k + 1, b)
           m2 == [meta EXCEPT ![b].is_free = TRUE]
           t == sfree(h, b)
           u2 == Drop(u, b)
<1>1. /\ h \in Statics /\ Layout(meta, h.brk) /\ Listed(l, meta) /\ Used(u, meta)
      /\ FreeCounted(h) /\ AllCounted(h)
  BY DEF HeapOK
<1>2. /\ h = Record(l, meta, h.free_blocks_num, h.free_bytes_num, h.num_of_metadatas,
                    h.num_allocated_blocks, h.num_allocated_bytes, h.brk)
      /\ l \in Seq(0..HeapLimit) /\ Len(l) \in Nat
      /\ meta \in Metas
      /\ h.free_blocks_num \in Int /\ h.free_bytes_num \in Int
      /\ h.num_of_metadatas \in Nat /\ h.num_allocated_blocks \in Nat
      /\ h.num_allocated_bytes \in Nat /\ h.brk \in 0..HeapLimit
  BY <1>1, StaticsAre
<1>3. /\ DOMAIN u2 = DOMAIN u \ {b}
      /\ \A c \in DOMAIN u2 : u2[c] = u[c]
  BY DEF Drop
<1>4. b \in 0..HeapLimit /\ b \in Int /\ meta[b].is_free \in BOOLEAN /\ meta[b].size \in Nat
  BY <1>2, MetaIs
<1>5. DOMAIN u = {c \in DOMAIN meta : ~meta[c].is_free}
  BY <1>1 DEF Used
<1> HIDE DEF u2
<1>6. CASE meta[b].is_free
  <2>1. t = h
    BY <1>6 DEF sfree
  <2>2. b \notin DOMAIN u
    BY <1>5, <1>6
  <2>3. Used(u2, meta)
    BY <1>1, <1>3, <2>2 DEF Used
  <2>4. HeapOK(h, u2)
    BY <1>1, <2>3 DEF HeapOK
  <2> QED
    BY <1>6, <2>1, <2>4 DEF u2
<1>7. CASE ~meta[b].is_free
  <2>1. t = Record(l2, m2, h.free_blocks_num + 1, h.free_bytes_num + meta[b].size, h.num_of_metadatas,
                   h.num_allocated_blocks, h.num_allocated_bytes, h.brk)
    <3>1. meta[b].is_free = FALSE
      BY <1>4, <1>7
    <3> QED
      BY <1>1, <3>1, SfreeRecord, Zenon
  <2>2. /\ m2 \in Metas /\ DOMAIN m2 = DOMAIN meta
        /\ \A c \in DOMAIN meta : m2[c].size = meta[c].size
        /\ \A c \in DOMAIN meta : c # b => m2[c] = meta[c]
        /\ m2[b].is_free = TRUE
    BY <1>2, FlagSet
  <2>3. /\ k \in 0..Len(l) /\ \A j \in 1..k : l[j] <= b
        /\ k < Len(l) => l[k + 1] > b
    BY <1>1, <1>4, AheadIs
  <2> HIDE DEF k
  <2>4. k + 1 \in 1..(Len(l) + 1)
    BY <1>2, <2>3
  <2>5. /\ l2 \in Seq(0..HeapLimit) /\ Len(l2) = Len(l) + 1
        /\ \A j \in 1..(Len(l) + 1) : l2[j] = IF j < k + 1 THEN l[j] ELSE IF j = k + 1 THEN b ELSE l[j - 1]
    <3> HIDE DEF l
    <3> DEFINE q == k + 1
    <3>1. q \in 1..(Len(l) + 1)
      BY <2>4
    <3> HIDE DEF q
    <3>2. /\ InsertAt(l, q, b) \in Seq(0..HeapLimit) /\ Len(InsertAt(l, q, b)) = Len(l) + 1
          /\ \A j \in 1..(Len(l) + 1) :
                InsertAt(l, q, b)[j] = IF j < q THEN l[j] ELSE IF j = q THEN b ELSE l[j - 1]
      <4> DEFINE A == 0..HeapLimit
      <4>1. l \in Seq(A) /\ b \in A
        BY <1>2, <1>4
      <4> HIDE DEF A
      <4>2. /\ InsertAt(l, q, b) \in Seq(A) /\ Len(InsertAt(l, q, b)) = Len(l) + 1
            /\ \A j \in 1..(Len(l) + 1) :
                  InsertAt(l, q, b)[j] = IF j < q THEN l[j] ELSE IF j = q THEN b ELSE l[j - 1]
        BY <3>1, <4>1, InsertAtIs, SMTT(60)
      <4> QED
        BY <4>2 DEF A
    <3> QED
      BY <3>2 DEF q
  <2>6. /\ t.free_list = l2 /\ t.meta = m2 /\ t.free_blocks_num = h.free_blocks_num + 1
        /\ t.free_bytes_num = h.free_bytes_num + meta[b].size
        /\ t.num_of_metadatas = h.num_of_metadatas
        /\ t.num_allocated_blocks = h.num_allocated_blocks
        /\ t.num_allocated_bytes = h.num_allocated_bytes /\ t.brk = h.brk
    BY <2>1 DEF Record
  <2>7. t \in Statics
    <3>1. h.free_blocks_num + 1 \in Int /\ h.free_bytes_num + meta[b].size \in Int
      BY <1>2, <1>4
    <3> HIDE DEF l, meta, l2, m2, t
    <3> QED
      BY <1>2, <2>1, <2>2, <2>5, <3>1 DEF Statics, Record
  <2> HIDE DEF l2, m2, t
  <2>8. Layout(m2, h.brk)
    BY <1>1, <2>2 DEF Layout
  <2> HIDE DEF l, meta
  <2>9. Listed(l2, m2)
    <3>1. \A j \in 1..Len(l) : l[j] \in DOMAIN meta /\ meta[l[j]].is_free /\ l[j] \in Int
      BY <1>1, <1>2, MetaIs DEF Listed
    <3>2. \A j, jj \in 1..Len(l) : j < jj => l[j] < l[jj]
      BY <1>1 DEF Listed
    <3>3. \A j \in 1..Len(l) : l[j] # b
      BY <1>7, <3>1
    <3>4. \A j \in 1..k : j \in 1..Len(l) /\ l[j] < b
      BY <1>2, <1>4, <2>3, <3>1, <3>3
    <3>5. ASSUME NEW j \in 1..Len(l), j > k PROVE l[j] > b
      <4>1. k < Len(l) /\ k + 1 \in 1..Len(l) /\ (j = k + 1 \/ k + 1 < j)
        BY <1>2, <2>3, <3>5
      <4>2. l[k + 1] > b
        BY <2>3, <4>1
      <4>3. CASE j = k + 1
        BY <4>2, <4>3
      <4>4. CASE k + 1 < j
        <5>1. l[k + 1] < l[j]
          BY <3>2, <4>1, <4>4
        <5> QED
          BY <1>4, <3>1, <4>1, <4>2, <5>1
      <4> QED
        BY <4>1, <4>3, <4>4
    <3>6. ASSUME NEW j \in 1..Len(l2)
          PROVE  \/ j < k + 1 /\ j \in 1..Len(l) /\ l2[j] = l[j] /\ j <= k
                 \/ j = k + 1 /\ l2[j] = b
                 \/ j > k + 1 /\ j - 1 \in 1..Len(l) /\ l2[j] = l[j - 1] /\ j - 1 > k
      <4>1. k \in Nat /\ j \in Nat /\ j \in 1..(Len(l) + 1)
        BY <1>2, <2>3, <2>5
      <4>2. CASE j < k + 1
        BY <1>2, <2>3, <2>5, <4>1, <4>2
      <4>3. CASE j = k + 1
        BY <2>5, <4>1, <4>3
      <4>4. CASE j > k + 1
        <5>1. j - 1 \in 1..Len(l) /\ j - 1 > k /\ ~(j < k + 1) /\ j # k + 1
          BY <1>2, <2>3, <4>1, <4>4, SMTT(30)
        <5> QED
          BY <2>5, <4>1, <4>4, <5>1
      <4> QED
        BY <4>1, <4>2, <4>3, <4>4
    <3>7. \A j \in 1..Len(l2) : l2[j] \in DOMAIN m2 /\ m2[l2[j]].is_free
      <4>1. ASSUME NEW j \in 1..Len(l2)
            PROVE  l2[j] \in DOMAIN meta /\ (l2[j] = b \/ meta[l2[j]].is_free)
        <5>1. b \in DOMAIN meta
          BY DEF meta
        <5> QED
          BY <3>1, <3>6, <5>1
      <4> QED
        BY <2>2, <4>1
    <3>8. ASSUME NEW c \in DOMAIN m2, m2[c].is_free PROVE \E j \in 1..Len(l2) : l2[j] = c
      <4>1. CASE c = b
        <5>1. k + 1 \in 1..Len(l2) /\ ~(k + 1 < k + 1)
          BY <2>4, <2>5
        <5> QED
          BY <2>4, <2>5, <4>1, <5>1
      <4>2. CASE c # b
        <5>1. PICK j \in 1..Len(l) : l[j] = c
          BY <1>1, <2>2, <3>8, <4>2 DEF Listed
        <5>2. CASE j <= k
          <6>1. j \in 1..(Len(l) + 1) /\ j < k + 1 /\ j \in 1..Len(l2)
            BY <1>2, <2>3, <2>5, <5>2
          <6> QED
            BY <2>5, <5>1, <6>1
        <5>3. CASE ~(j <= k)
          <6>1. /\ j + 1 \in 1..(Len(l) + 1) /\ ~(j + 1 < k + 1) /\ j + 1 # k + 1
                /\ (j + 1) - 1 = j /\ j + 1 \in 1..Len(l2)
            BY <1>2, <2>3, <2>5, <5>3
          <6>2. l2[j + 1] = l[(j + 1) - 1]
            BY <2>5, <6>1
          <6> QED
            BY <5>1, <6>1, <6>2
        <5> QED
          BY <5>2, <5>3
      <4> QED
        BY <4>1, <4>2
    <3>9. ASSUME NEW j \in 1..Len(l2), NEW jj \in 1..Len(l2), j < jj PROVE l2[j] < l2[jj]
      <4>1. k \in Nat /\ j \in Nat /\ jj \in Nat
        BY <2>3, <2>5, <1>2
      <4>2. CASE j < k + 1 /\ jj < k + 1
        BY <3>2, <3>6, <3>9, <4>1, <4>2
      <4>3. CASE j < k + 1 /\ jj = k + 1
        <5>1. j \in 1..k /\ l2[j] = l[j] /\ l2[jj] = b
          BY <3>6, <4>1, <4>3
        <5> QED
          BY <3>4, <5>1
      <4>4. CASE j < k + 1 /\ jj > k + 1
        <5>1. j \in 1..k /\ l2[j] = l[j] /\ jj - 1 \in 1..Len(l) /\ l2[jj] = l[jj - 1] /\ jj - 1 > k
          BY <3>6, <4>1, <4>4
        <5>2. j < jj - 1 /\ j \in 1..Len(l)
          BY <3>4, <4>1, <5>1
        <5> QED
          BY <3>2, <5>1, <5>2
      <4>5. CASE j = k + 1 /\ jj > k + 1
        <5>1. l2[j] = b /\ jj - 1 \in 1..Len(l) /\ l2[jj] = l[jj - 1] /\ jj - 1 > k
          BY <3>6, <4>1, <4>5
        <5>2. l[jj - 1] > b
          BY <3>5, <5>1
        <5> QED
          BY <1>4, <3>1, <5>1, <5>2
      <4>6. CASE j > k + 1 /\ jj > k + 1
        <5>1. /\ j - 1 \in 1..Len(l) /\ l2[j] = l[j - 1]
              /\ jj - 1 \in 1..Len(l) /\ l2[jj] = l[jj - 1] /\ j - 1 < jj - 1
          BY <3>6, <3>9, <4>1, <4>6
        <5> QED
          BY <3>2, <5>1
      <4> QED
        BY <3>9, <4>1, <4>2, <4>3, <4>4, <4>5, <4>6
    <3> QED
      BY <3>7, <3>8, <3>9 DEF Listed
  <2>10. Used(u2, m2)
    <3>1. \A c \in DOMAIN meta : meta[c].is_free \in BOOLEAN /\ m2[c].is_free \in BOOLEAN
      BY <1>2, <2>2, MetaIs
    <3>2. \A c \in DOMAIN meta : m2[c].is_free <=> (meta[c].is_free \/ c = b)
      BY <2>2, <3>1
    <3>3. DOMAIN u2 = {c \in DOMAIN m2 : ~m2[c].is_free}
      BY <1>3, <1>5, <2>2, <3>2
    <3>4. ASSUME NEW c \in DOMAIN u2 PROVE u2[c] \in Nat /\ m2[c].size >= Asked(u2[c])
      <4>1. c \in DOMAIN u /\ c \in DOMAIN meta /\ u2[c] = u[c]
        BY <1>3, <1>5
      <4> QED
        BY <1>1, <2>2, <4>1 DEF Used
    <3> QED
      BY <3>3, <3>4 DEF Used
  <2>11. FreeCounted(t)
    <3> DEFINE F == FreeOf(meta)
    <3>1. FreeOf(m2) = F \cup {b} /\ b \notin F /\ F \subseteq DOMAIN meta /\ F \subseteq DOMAIN m2
      <4>1. \A c \in DOMAIN meta : m2[c].is_free <=> (meta[c].is_free \/ c = b)
        BY <2>2, <1>4
      <4>2. b \in DOMAIN meta
        BY DEF meta
      <4> QED
        BY <1>7, <2>2, <4>1, <4>2 DEF FreeOf
    <3> HIDE DEF F
    <3>2. SumOver(SizesOf(m2), F \cup {b}, HeapLimit) = SumOver(SizesOf(m2), F, HeapLimit) + m2[b].size
      <4>1. b \in DOMAIN m2
        BY <2>2 DEF meta
      <4> QED
        BY <2>2, <3>1, <4>1, SumOfOneMore
    <3>3. /\ SumOver(SizesOf(meta), F, HeapLimit) \in Nat
          /\ SumOver(SizesOf(m2), F, HeapLimit) = SumOver(SizesOf(meta), F, HeapLimit)
      BY <1>2, <2>2, <3>1, SumOfBlocks
    <3>4. h.free_bytes_num = SumOver(SizesOf(meta), F, HeapLimit) /\ h.free_blocks_num = Len(l)
      BY <1>1 DEF FreeCounted, meta, l, F
    <3>5. m2[b].size = meta[b].size
      BY <2>2 DEF meta
    <3>6. t.free_bytes_num = SumOver(SizesOf(m2), F \cup {b}, HeapLimit)
      BY <1>4, <2>6, <3>2, <3>3, <3>4, <3>5
    <3>7. t.free_blocks_num = Len(l2)
      BY <2>5, <2>6, <3>4
    <3> QED
      BY <2>6, <3>1, <3>6, <3>7 DEF FreeCounted
  <2>12. AllCounted(t)
    <3>1. SumOver(SizesOf(m2), DOMAIN meta, HeapLimit) = SumOver(SizesOf(meta), DOMAIN meta, HeapLimit)
      BY <1>2, <2>2, SumOfBlocks
    <3> QED
      BY <1>1, <2>2, <2>6, <3>1 DEF AllCounted, meta
  <2>13. HeapOK(t, u2)
    BY <2>6, <2>7, <2>8, <2>9, <2>10, <2>11, <2>12 DEF HeapOK
  <2> QED
    BY <2>2, <2>6, <2>13 DEF t, u2, meta
<1> QED
  BY <1>6, <1>7

\* Asking the kernel keeps the invariant, whether sbrk fails for the metadata, for the data
\* or not at all, and touches no block.
LEMMA SbrkKeeps ==
    ASSUME NEW h, NEW u, HeapOK(h, u), NEW n \in Nat \ {0}, NEW limit \in 0..HeapLimit,
           NEW m \in Nat, n >= Asked(m)
    PROVE  LET r == FromSbrk(h, n, limit) IN
           /\ HeapOK(r.h, Hold(u, r.p, m))
           /\ r.p = NULL => r.h.meta = h.meta
           /\ r.p # NULL => /\ r.p \notin DOMAIN h.meta
                            /\ DOMAIN r.h.meta = DOMAIN h.meta \cup {r.p}
                            /\ \A c \in DOMAIN h.meta : r.h.meta[c] = h.meta[c]
                            /\ ~r.h.meta[r.p].is_free
<1> DEFINE r == FromSbrk(h, n, limit)
           l == h.free_list
           b == h.brk
           meta == h.meta
           e == [size |-> n, is_free |-> FALSE]
           m2 == With(meta, b, e)
           h1 == create_metadata_sbrk(h, n)
           h2 == [h1 EXCEPT !.brk = @ + n, !.meta = With(@, b, e)]
           total == SumOver(SizesOf(meta), DOMAIN meta, HeapLimit)
<1>1. /\ h \in Statics /\ Layout(meta, b) /\ Listed(l, meta) /\ Used(u, meta)
      /\ FreeCounted(h) /\ AllCounted(h)
  BY DEF HeapOK
<1>2. /\ l \in Seq(0..HeapLimit) /\ Len(l) \in Nat /\ meta \in Metas
      /\ h.free_blocks_num \in Int /\ h.free_bytes_num \in Int
      /\ h.num_of_metadatas \in Nat /\ h.num_allocated_blocks \in Nat
      /\ h.num_allocated_bytes \in Nat /\ b \in 0..HeapLimit
  BY <1>1, StaticsAre
<1>3. /\ h1 = Record(l, meta, h.free_blocks_num, h.free_bytes_num, h.num_of_metadatas + 1,
                     h.num_allocated_blocks + 1, h.num_allocated_bytes + n, b + META)
      /\ h2 = Record(l, m2, h.free_blocks_num, h.free_bytes_num, h.num_of_metadatas + 1,
                     h.num_allocated_blocks + 1, h.num_allocated_bytes + n, b + META + n)
  BY <1>1, SbrkRecord, Zenon
<1>4. META \in Nat \ {0} /\ HeapLimit \in Nat /\ b \in Nat
  BY <1>2, LayoutAssumption
<1>5. /\ DOMAIN meta \subseteq 0..HeapLimit /\ IsFiniteSet(DOMAIN meta)
      /\ Cardinality(DOMAIN meta) \in Nat
      /\ \A c \in DOMAIN meta : /\ meta[c] \in [size : Nat \ {0}, is_free : BOOLEAN]
                                /\ meta[c].size \in Nat \ {0} /\ meta[c].is_free \in BOOLEAN
                                /\ c \in Nat
  BY <1>2, MetaIs
<1>6. total \in Nat
  BY <1>2, SumOfBlocks
<1>7. /\ h.num_allocated_blocks >= Cardinality(DOMAIN meta) /\ h.num_allocated_bytes >= total
      /\ h.num_of_metadatas * META + total = b
  BY <1>1 DEF AllCounted
<1>8. (h.num_of_metadatas + 1) * META = h.num_of_metadatas * META + META /\ h.num_of_metadatas * META \in Nat
  BY <1>2, <1>4, SMTT(30)
<1>9. \A x \in Nat : (h.num_of_metadatas + 1) * META + (total + x) = b + META + x
  <2> DEFINE used == h.num_of_metadatas * META
             more == (h.num_of_metadatas + 1) * META
  <2>1. more = used + META /\ used \in Nat /\ used + total = b
    BY <1>7, <1>8
  <2> HIDE DEF used, more, total, b
  <2>2. \A x \in Nat : more + (total + x) = b + META + x
    BY <1>4, <1>6, <2>1
  <2> QED
    BY <2>2 DEF more
<1>10. \/ r = Returns(h, NULL)
       \/ r = Returns(h1, NULL) /\ b + META <= limit
       \/ r = Returns(h2, b) /\ b + META + n <= limit
  <2>1. limit \in Nat
    OBVIOUS
  <2> HIDE DEF h1
  <2>2. CASE b + META > limit
    BY <2>2 DEF FromSbrk, h1
  <2>3. CASE ~(b + META > limit) /\ b + META + n > limit
    <3>1. r = Returns(h1, NULL)
      BY <2>3, Zenon DEF FromSbrk, h1
    <3>2. b + META <= limit
      BY <1>4, <2>1, <2>3
    <3> QED
      BY <3>1, <3>2
  <2>4. CASE ~(b + META > limit) /\ ~(b + META + n > limit)
    <3>1. r = Returns(h2, b)
      BY <2>4, Zenon DEF FromSbrk, h1
    <3>2. b + META + n <= limit
      BY <1>4, <2>1, <2>4
    <3> QED
      BY <3>1, <3>2
  <2> QED
    BY <2>2, <2>3, <2>4
<1> HIDE DEF r, h1, h2, total, l, b, meta, m2
<1>11. CASE r = Returns(h, NULL)
  <2>1. r.h = h /\ r.p = NULL
    BY <1>11 DEF Returns
  <2> QED
    BY <2>1 DEF Hold, r
<1>12. CASE r = Returns(h1, NULL) /\ b + META <= limit
  <2>1. r.h = h1 /\ r.p = NULL
    BY <1>12 DEF Returns
  <2>2. /\ h1.free_list = l /\ h1.meta = meta /\ h1.free_blocks_num = h.free_blocks_num
        /\ h1.free_bytes_num = h.free_bytes_num /\ h1.num_of_metadatas = h.num_of_metadatas + 1
        /\ h1.num_allocated_blocks = h.num_allocated_blocks + 1
        /\ h1.num_allocated_bytes = h.num_allocated_bytes + n /\ h1.brk = b + META
    BY <1>3 DEF Record
  <2>3. h1 \in Statics
    <3>1. /\ h.num_of_metadatas + 1 \in Nat /\ h.num_allocated_blocks + 1 \in Nat
          /\ h.num_allocated_bytes + n \in Nat /\ b + META \in 0..HeapLimit
      BY <1>2, <1>4, <1>12, SMTT(30)
    <3> QED
      BY <1>2, <1>3, <3>1 DEF Statics, Record
  <2>4. Layout(meta, b + META)
    <3>1. \A c \in DOMAIN meta : c + META + meta[c].size <= b
      BY <1>1 DEF Layout
    <3>2. \A c \in DOMAIN meta : c + META + meta[c].size <= b + META
      BY <1>4, <1>5, <3>1
    <3> QED
      BY <1>1, <3>2 DEF Layout
  <2>5. FreeCounted(h1)
    BY <1>1, <2>2 DEF FreeCounted, l, meta
  <2>6. AllCounted(h1)
    <3>1. /\ h.num_allocated_blocks + 1 >= Cardinality(DOMAIN meta)
          /\ h.num_allocated_bytes + n >= total
          /\ (h.num_of_metadatas + 1) * META + total = b + META
      <4>1. h.num_allocated_blocks + 1 >= Cardinality(DOMAIN meta) /\ h.num_allocated_bytes + n >= total
        BY <1>2, <1>5, <1>6, <1>7, SMTT(30)
      <4>2. (h.num_of_metadatas + 1) * META + (total + 0) = b + META + 0
        BY <1>9
      <4>3. (h.num_of_metadatas + 1) * META + total = b + META
        <5>1. total + 0 = total /\ b + META + 0 = b + META
          BY <1>4, <1>6
        <5> QED
          BY <4>2, <5>1
      <4> QED
        BY <4>1, <4>3
    <3> QED
      BY <2>2, <3>1 DEF AllCounted, total
  <2>7. HeapOK(h1, u)
    BY <1>1, <2>2, <2>3, <2>4, <2>5, <2>6 DEF HeapOK
  <2>8. Hold(u, NULL, m) = u
    BY DEF Hold
  <2> QED
    BY <2>1, <2>2, <2>7, <2>8 DEF r, meta
<1>13. CASE r = Returns(h2, b) /\ b + META + n <= limit
  <2> DEFINE u2 == With(u, b, m)
  <2>1. r.h = h2 /\ r.p = b
    BY <1>13 DEF Returns
  <2>2. /\ h2.free_list = l /\ h2.meta = m2 /\ h2.free_blocks_num = h.free_blocks_num
        /\ h2.free_bytes_num = h.free_bytes_num /\ h2.num_of_metadatas = h.num_of_metadatas + 1
        /\ h2.num_allocated_blocks = h.num_allocated_blocks + 1
        /\ h2.num_allocated_bytes = h.num_allocated_bytes + n /\ h2.brk = b + META + n
    BY <1>3 DEF Record
  <2>3. \A c \in DOMAIN meta : c + META + meta[c].size <= b
    BY <1>1 DEF Layout
  <2>4. b \notin DOMAIN meta /\ \A c \in DOMAIN meta : c < b
    BY <1>4, <1>5, <2>3
  <2>5. /\ DOMAIN m2 = DOMAIN meta \cup {b} /\ m2[b] = e
        /\ \A c \in DOMAIN meta : m2[c] = meta[c]
        /\ m2 = [c \in DOMAIN m2 |-> m2[c]]
    BY <2>4 DEF m2, With
  <2>6. e \in [size : Nat \ {0}, is_free : BOOLEAN] /\ e.size = n /\ e.is_free = FALSE
    OBVIOUS
  <2> HIDE DEF e
  <2>7. m2 \in Metas
    <3>1. \A c \in DOMAIN m2 : m2[c] \in [size : Nat \ {0}, is_free : BOOLEAN]
      BY <1>5, <2>5, <2>6
    <3>2. DOMAIN m2 \subseteq 0..HeapLimit
      BY <1>2, <1>5, <2>5
    <3> QED
      BY <2>5, <3>1, <3>2, MetaMade
  <2>8. h2 \in Statics
    <3>1. /\ h.num_of_metadatas + 1 \in Nat /\ h.num_allocated_blocks + 1 \in Nat
          /\ h.num_allocated_bytes + n \in Nat /\ b + META + n \in 0..HeapLimit
      BY <1>2, <1>4, <1>13, SMTT(30)
    <3> QED
      BY <1>2, <1>3, <2>7, <3>1 DEF Statics, Record
  <2>9. Layout(m2, b + META + n)
    <3>1. \A c \in DOMAIN m2 : c + META + m2[c].size <= b + META + n
      <4>1. \A c \in DOMAIN meta : c + META + m2[c].size <= b + META + n
        BY <1>4, <1>5, <2>3, <2>5
      <4>2. b + META + m2[b].size <= b + META + n
        BY <1>4, <2>5, <2>6
      <4> QED
        BY <2>5, <4>1, <4>2
    <3>2. ASSUME NEW c \in DOMAIN m2, NEW d \in DOMAIN m2, c < d PROVE c + META + m2[c].size <= d
      <4>1. c \in DOMAIN meta
        <5>1. ~(b < d)
          BY <1>4, <1>5, <2>4, <2>5
        <5> QED
          BY <2>5, <3>2, <5>1
      <4>2. CASE d \in DOMAIN meta
        BY <1>1, <2>5, <3>2, <4>1, <4>2 DEF Layout
      <4>3. CASE d = b
        BY <2>3, <2>5, <4>1, <4>3
      <4> QED
        BY <2>5, <4>2, <4>3
    <3> QED
      BY <3>1, <3>2 DEF Layout
  <2>10. Listed(l, m2)
    <3>1. \A i \in 1..Len(l) : l[i] \in DOMAIN m2 /\ m2[l[i]].is_free
      BY <1>1, <2>5 DEF Listed
    <3>2. \A c \in DOMAIN m2 : m2[c].is_free => \E i \in 1..Len(l) : l[i] = c
      BY <1>1, <2>5, <2>6 DEF Listed
    <3> QED
      BY <1>1, <3>1, <3>2 DEF Listed
  <2>11. b \notin DOMAIN u
    BY <1>1, <2>4 DEF Used
  <2>12. DOMAIN u2 = DOMAIN u \cup {b} /\ u2[b] = m /\ \A c \in DOMAIN u : u2[c] = u[c]
    BY <2>11 DEF With
  <2> HIDE DEF u2
  <2>13. Used(u2, m2)
    <3>1. DOMAIN u = {c \in DOMAIN meta : ~meta[c].is_free}
      BY <1>1 DEF Used
    <3>2. \A c \in DOMAIN m2 : c \in DOMAIN u2 <=> ~m2[c].is_free
      BY <2>5, <2>6, <2>12, <2>4, <3>1
    <3>3. DOMAIN u2 \subseteq DOMAIN m2
      BY <2>5, <2>12, <3>1
    <3>4. ASSUME NEW c \in DOMAIN u2 PROVE u2[c] \in Nat /\ m2[c].size >= Asked(u2[c])
      <4>1. CASE c = b
        BY <2>5, <2>6, <2>12, <4>1
      <4>2. CASE c \in DOMAIN u
        BY <1>1, <2>5, <2>12, <3>1, <4>2 DEF Used
      <4> QED
        BY <2>12, <4>1, <4>2
    <3> QED
      BY <3>2, <3>3, <3>4 DEF Used
  <2>14. FreeCounted(h2)
    <3> DEFINE F == FreeOf(meta)
    <3>1. FreeOf(m2) = F /\ F \subseteq DOMAIN meta /\ F \subseteq DOMAIN m2
      BY <2>4, <2>5, <2>6 DEF FreeOf
    <3> HIDE DEF F
    <3>2. SumOver(SizesOf(m2), F, HeapLimit) = SumOver(SizesOf(meta), F, HeapLimit)
      BY <1>2, <2>5, <2>7, <3>1, SumOfBlocks
    <3>3. h.free_bytes_num = SumOver(SizesOf(meta), F, HeapLimit) /\ h.free_blocks_num = Len(l)
      BY <1>1 DEF FreeCounted, meta, l, F
    <3> QED
      BY <2>2, <3>1, <3>2, <3>3 DEF FreeCounted
  <2>15. AllCounted(h2)
    <3>1. SumOver(SizesOf(m2), DOMAIN meta, HeapLimit) = total
      BY <1>2, <2>5, <2>7, SumOfBlocks DEF total
    <3>2. SumOver(SizesOf(m2), DOMAIN meta \cup {b}, HeapLimit) = SumOver(SizesOf(m2), DOMAIN meta, HeapLimit) + m2[b].size
      BY <2>4, <2>5, <2>7, SumOfOneMore
    <3>3. SumOver(SizesOf(m2), DOMAIN m2, HeapLimit) = total + n
      BY <2>5, <2>6, <3>1, <3>2
    <3>4. Cardinality(DOMAIN m2) = Cardinality(DOMAIN meta) + 1
      BY <1>5, <2>4, <2>5, FS_AddElement
    <3>5. /\ h.num_allocated_blocks + 1 >= Cardinality(DOMAIN meta) + 1
          /\ h.num_allocated_bytes + n >= total + n
          /\ (h.num_of_metadatas + 1) * META + (total + n) = b + META + n
      <4>1. /\ h.num_allocated_blocks + 1 >= Cardinality(DOMAIN meta) + 1
            /\ h.num_allocated_bytes + n >= total + n
        BY <1>2, <1>5, <1>6, <1>7, SMTT(30)
      <4>2. (h.num_of_metadatas + 1) * META + (total + n) = b + META + n
        BY <1>9
      <4> QED
        BY <4>1, <4>2
    <3> QED
      BY <2>2, <3>3, <3>4, <3>5 DEF AllCounted
  <2>16. HeapOK(h2, u2)
    BY <2>2, <2>8, <2>9, <2>10, <2>13, <2>14, <2>15 DEF HeapOK
  <2>17. b # NULL /\ Hold(u, b, m) = u2
    BY <1>4 DEF NULL, Hold, u2
  <2> QED
    BY <2>1, <2>2, <2>4, <2>5, <2>6, <2>16, <2>17 DEF r, meta
<1> QED
  BY <1>10, <1>11, <1>12, <1>13

\* smalloc keeps the invariant for a request of m bytes, of which size_t holds n.  It changes
\* no size and no other block, hands out no block of the user's, and passes over no free block
\* of a lower address that is large enough.
LEMMA SmallocKeeps ==
    ASSUME NEW h, NEW u, HeapOK(h, u), NEW n \in Nat, NEW limit \in 0..HeapLimit,
           NEW m \in Nat, n = Asked(m)
    PROVE  LET r == smalloc(h, n, limit) IN
           /\ HeapOK(r.h, Hold(u, r.p, m))
           /\ DOMAIN h.meta \subseteq DOMAIN r.h.meta
           /\ \A c \in DOMAIN h.meta : r.h.meta[c].size = h.meta[c].size
           /\ \A c \in DOMAIN h.meta : c # r.p => r.h.meta[c] = h.meta[c]
           /\ r.p # NULL => r.p \in DOMAIN r.h.meta /\ r.p \notin DOMAIN u
           /\ r.p \in DOMAIN h.meta =>
                \A x \in DOMAIN h.meta : x < r.p /\ h.meta[x].is_free => h.meta[x].size < n
<1> DEFINE r == smalloc(h, n, limit)
           l == h.free_list
           I == {i \in 1..Len(l) : h.meta[l[i]].size >= n}
           i == SelectInSeq(l, LAMBDA b : Fits(Size(h, b), n))
<1>1. h \in Statics /\ Listed(l, h.meta) /\ Used(u, h.meta)
  BY DEF HeapOK
<1>2. Len(l) \in Nat /\ h.meta \in Metas
  BY <1>1, StaticsAre
<1>3. i = IF I # {} THEN Min(I) ELSE 0
  BY DEF SelectInSeq, Fits, Size
<1>4. DOMAIN h.meta \subseteq Nat /\ NULL \notin Nat
  BY <1>2, MetaIs DEF NULL
<1>5. CASE n = 0 \/ n > MAX_SIZE
  <2>1. r = Returns(h, NULL)
    BY <1>5, Zenon DEF smalloc
  <2>2. r.h = h /\ r.p = NULL
    BY <2>1 DEF Returns
  <2>3. Hold(u, NULL, m) = u
    BY DEF Hold
  <2> HIDE DEF r
  <2>4. r.p \notin DOMAIN h.meta
    BY <1>4, <2>2
  <2>5. HeapOK(r.h, Hold(u, r.p, m))
    BY <2>2, <2>3
  <2> QED
    BY <2>2, <2>4, <2>5 DEF r
<1>6. CASE ~(n = 0 \/ n > MAX_SIZE) /\ I = {}
  <2> DEFINE s == FromSbrk(h, n, limit)
  <2>1. i = 0
    BY <1>3, <1>6
  <2>2. r = s
    BY <1>6, <2>1, Zenon DEF smalloc
  <2>3. n \in Nat \ {0} /\ n >= Asked(m)
    BY <1>6
  <2>4. /\ HeapOK(s.h, Hold(u, s.p, m))
        /\ s.p = NULL => s.h.meta = h.meta
        /\ s.p # NULL => /\ s.p \notin DOMAIN h.meta
                         /\ DOMAIN s.h.meta = DOMAIN h.meta \cup {s.p}
                         /\ \A c \in DOMAIN h.meta : s.h.meta[c] = h.meta[c]
                         /\ ~s.h.meta[s.p].is_free
    BY <2>3, SbrkKeeps
  <2> HIDE DEF r, s
  <2>5. s.p \notin DOMAIN h.meta
    BY <1>4, <2>4
  <2>6. DOMAIN u \subseteq DOMAIN h.meta
    BY <1>1 DEF Used
  <2> QED
    BY <2>2, <2>4, <2>5, <2>6 DEF r
<1>7. CASE ~(n = 0 \/ n > MAX_SIZE) /\ I # {}
  <2>1. i = Min(I) /\ I \in SUBSET Nat
    BY <1>2, <1>3, <1>7
  <2>2. i \in I /\ \A j \in I : i <= j
    BY <1>7, <2>1, MinIsLeast
  <2>3. i \in 1..Len(l) /\ i # 0 /\ h.meta[l[i]].size >= n
    BY <1>2, <2>2
  <2>4. r = Returns(Take(h, i), l[i])
    BY <1>7, <2>3, Zenon DEF smalloc
  <2> HIDE DEF i, r
  <2>5. r.h = Take(h, i) /\ r.p = l[i]
    BY <2>4 DEF Returns
  <2> DEFINE b == l[i]
  <2>6. Size(h, b) >= Asked(m)
    BY <2>3 DEF Size
  <2>7. /\ HeapOK(Take(h, i), With(u, b, m))
        /\ b \in DOMAIN h.meta /\ b \notin DOMAIN u /\ h.meta[b].is_free
        /\ DOMAIN Take(h, i).meta = DOMAIN h.meta
        /\ \A c \in DOMAIN h.meta : Take(h, i).meta[c].size = h.meta[c].size
        /\ \A c \in DOMAIN h.meta : c # b => Take(h, i).meta[c] = h.meta[c]
        /\ ~Take(h, i).meta[b].is_free
    BY <2>3, <2>6, TakeKeeps, Zenon
  <2>8. b # NULL
    BY <1>4, <2>7
  <2>9. Hold(u, b, m) = With(u, b, m)
    BY <2>8 DEF Hold
  <2>10. ASSUME NEW x \in DOMAIN h.meta, x < b, h.meta[x].is_free PROVE h.meta[x].size < n
    <3>1. PICK j \in 1..Len(l) : l[j] = x
      BY <1>1, <2>10 DEF Listed
    <3>2. j < i
      <4>1. i < j => b < x
        BY <1>1, <2>3, <3>1 DEF Listed
      <4>2. b \in Nat /\ x \in Nat
        BY <1>4, <2>7
      <4>3. ~(b < x) /\ x # b
        BY <2>10, <4>2
      <4>4. j # i
        BY <3>1, <4>3
      <4> QED
        BY <1>2, <2>3, <4>1, <4>3, <4>4
    <3>3. j \notin I
      BY <1>2, <2>2, <2>3, <3>2
    <3>4. ~(h.meta[x].size >= n)
      BY <3>1, <3>3
    <3>5. h.meta[x].size \in Nat
      BY <1>2, MetaIs
    <3> QED
      BY <3>4, <3>5
  <2> HIDE DEF b
  <2>11. r.p = b
    BY <2>5 DEF b
  <2> QED
    BY <2>5, <2>7, <2>8, <2>9, <2>10, <2>11 DEF r
<1> QED
  BY <1>5, <1>6, <1>7

----------------------------------------------------------------------------
\* What a call may do, seen by the user.
Same(S, h, u, h2, u2) == \A c \in S : h2.meta[c].size = h.meta[c].size /\ u2[c] = u[c]

Effect(h, u, h2, u2) ==
    \/ DOMAIN u2 = DOMAIN u /\ Same(DOMAIN u, h, u, h2, u2)
    \/ \E p : /\ p \notin DOMAIN u /\ DOMAIN u2 = DOMAIN u \cup {p}
              /\ Same(DOMAIN u, h, u, h2, u2)
    \/ \E p \in DOMAIN u : /\ DOMAIN u2 = DOMAIN u \ {p}
                           /\ Same(DOMAIN u \ {p}, h, u, h2, u2)
    \/ \E p \in DOMAIN u : \E q : /\ q \notin DOMAIN u \ {p} /\ DOMAIN u2 = (DOMAIN u \ {p}) \cup {q}
                                  /\ Same(DOMAIN u \ {p}, h, u, h2, u2)

Lowest(h, h2, u2) ==
    \A b, x \in DOMAIN h.meta :
       h.meta[b].is_free /\ ~h2.meta[b].is_free /\ x < b /\ h.meta[x].is_free =>
          h.meta[x].size < Asked(u2[b])

\* smalloc and scalloc.
LEMMA RequestDoes ==
    ASSUME NEW h, NEW u, HeapOK(h, u), NEW n \in Nat, NEW limit \in 0..HeapLimit,
           NEW m \in Nat, n = Asked(m)
    PROVE  LET r == smalloc(h, n, limit)
               u2 == Hold(u, r.p, m)
           IN  HeapOK(r.h, u2) /\ Effect(h, u, r.h, u2) /\ Lowest(h, r.h, u2)
<1> DEFINE r == smalloc(h, n, limit)
           u2 == Hold(u, r.p, m)
<1>1. /\ HeapOK(r.h, u2)
      /\ DOMAIN h.meta \subseteq DOMAIN r.h.meta
      /\ \A c \in DOMAIN h.meta : r.h.meta[c].size = h.meta[c].size
      /\ \A c \in DOMAIN h.meta : c # r.p => r.h.meta[c] = h.meta[c]
      /\ r.p # NULL => r.p \in DOMAIN r.h.meta /\ r.p \notin DOMAIN u
      /\ r.p \in DOMAIN h.meta =>
           \A x \in DOMAIN h.meta : x < r.p /\ h.meta[x].is_free => h.meta[x].size < n
  BY SmallocKeeps
<1> HIDE DEF r
<1>2. DOMAIN u \subseteq DOMAIN h.meta /\ DOMAIN h.meta \subseteq Nat /\ NULL \notin Nat
  BY StaticsAre, MetaIs DEF HeapOK, Used, NULL
<1>3. CASE r.p = NULL
  <2>1. u2 = u
    BY <1>3 DEF Hold
  <2>2. \A c \in DOMAIN h.meta : r.h.meta[c] = h.meta[c]
    BY <1>1, <1>2, <1>3
  <2> HIDE DEF u2
  <2>3. Effect(h, u, r.h, u2)
    BY <1>1, <1>2, <2>1 DEF Effect, Same
  <2>4. Lowest(h, r.h, u2)
    BY <2>2 DEF Lowest
  <2> QED
    BY <1>1, <2>3, <2>4 DEF r, u2
<1>4. CASE r.p # NULL
  <2>1. u2 = With(u, r.p, m)
    BY <1>4 DEF Hold
  <2>2. r.p \notin DOMAIN u
    BY <1>1, <1>4
  <2>3. DOMAIN u2 = DOMAIN u \cup {r.p} /\ u2[r.p] = m /\ \A c \in DOMAIN u : u2[c] = u[c]
    BY <2>1, <2>2 DEF With
  <2> HIDE DEF u2
  <2>4. Same(DOMAIN u, h, u, r.h, u2)
    BY <1>1, <1>2, <2>3 DEF Same
  <2>5. Effect(h, u, r.h, u2)
    BY <2>2, <2>3, <2>4 DEF Effect
  <2>6. Lowest(h, r.h, u2)
    <3> SUFFICES ASSUME NEW b \in DOMAIN h.meta, NEW x \in DOMAIN h.meta, h.meta[b].is_free,
                        ~r.h.meta[b].is_free, x < b, h.meta[x].is_free
                 PROVE  h.meta[x].size < Asked(u2[b])
      BY DEF Lowest
    <3>1. b = r.p
      BY <1>1
    <3> QED
      BY <1>1, <2>3, <3>1
  <2> QED
    BY <1>1, <2>5, <2>6 DEF r, u2
<1> QED
  BY <1>3, <1>4

\* sfree.
LEMMA SfreeDoes ==
    ASSUME NEW h, NEW u, HeapOK(h, u), NEW b \in DOMAIN h.meta
    PROVE  LET h2 == sfree(h, b)
               u2 == Drop(u, b)
           IN  HeapOK(h2, u2) /\ Effect(h, u, h2, u2) /\ Lowest(h, h2, u2)
<1> DEFINE h2 == sfree(h, b)
           u2 == Drop(u, b)
<1>1. /\ HeapOK(h2, u2)
      /\ DOMAIN h2.meta = DOMAIN h.meta
      /\ \A c \in DOMAIN h.meta : h2.meta[c].size = h.meta[c].size
      /\ \A c \in DOMAIN h.meta : c # b => h2.meta[c] = h.meta[c]
      /\ h2.meta[b].is_free
  BY SfreeKeeps, Zenon
<1> HIDE DEF h2
<1>2. DOMAIN u \subseteq DOMAIN h.meta
  BY DEF HeapOK, Used
<1>3. DOMAIN u2 = DOMAIN u \ {b} /\ \A c \in DOMAIN u \ {b} : u2[c] = u[c]
  BY DEF Drop
<1> HIDE DEF u2
<1>4. Same(DOMAIN u \ {b}, h, u, h2, u2)
  BY <1>1, <1>2, <1>3 DEF Same
<1>5. Effect(h, u, h2, u2)
  <2>1. CASE b \in DOMAIN u
    BY <1>3, <1>4, <2>1 DEF Effect
  <2>2. CASE b \notin DOMAIN u
    <3>1. DOMAIN u \ {b} = DOMAIN u
      BY <2>2
    <3> QED
      BY <1>3, <1>4, <3>1 DEF Effect
  <2> QED
    BY <2>1, <2>2
<1>6. Lowest(h, h2, u2)
  BY <1>1 DEF Lowest
<1> QED
  BY <1>1, <1>5, <1>6 DEF h2, u2

\* srealloc, which fails, keeps the block, or takes another one before it releases this one.
LEMMA SreallocDoes ==
    ASSUME NEW h, NEW u, HeapOK(h, u), NEW b \in DOMAIN u, NEW n \in Nat, n < WORD,
           NEW limit \in 0..HeapLimit
    PROVE  LET r == srealloc(h, b, n, limit)
               u2 == IF r.p = NULL THEN u ELSE Hold(Drop(u, b), r.p, n)
           IN  HeapOK(r.h, u2) /\ Effect(h, u, r.h, u2) /\ Lowest(h, r.h, u2)
<1> DEFINE r == srealloc(h, b, n, limit)
           s == smalloc(h, n, limit)
           u2 == IF r.p = NULL THEN u ELSE Hold(Drop(u, b), r.p, n)
<1>1. /\ h \in Statics /\ Used(u, h.meta) /\ h.meta \in Metas
  BY StaticsAre DEF HeapOK
<1>2. /\ DOMAIN u = {c \in DOMAIN h.meta : ~h.meta[c].is_free}
      /\ DOMAIN u \subseteq DOMAIN h.meta /\ DOMAIN h.meta \subseteq Nat /\ NULL \notin Nat
      /\ b \in DOMAIN h.meta /\ ~h.meta[b].is_free /\ b # NULL
  BY <1>1, MetaIs DEF Used, NULL
<1>3. n = Asked(n)
  BY AskedIs
<1>4. /\ HeapOK(s.h, Hold(u, s.p, n))
      /\ DOMAIN h.meta \subseteq DOMAIN s.h.meta
      /\ \A c \in DOMAIN h.meta : s.h.meta[c].size = h.meta[c].size
      /\ \A c \in DOMAIN h.meta : c # s.p => s.h.meta[c] = h.meta[c]
      /\ s.p # NULL => s.p \in DOMAIN s.h.meta /\ s.p \notin DOMAIN u
      /\ s.p \in DOMAIN h.meta =>
           \A x \in DOMAIN h.meta : x < s.p /\ h.meta[x].is_free => h.meta[x].size < n
  BY <1>3, SmallocKeeps
<1>5. \/ r = Returns(h, NULL)
      \/ r = Returns(h, b) /\ Size(h, b) >= n
      \/ r = s /\ s.p = NULL
      \/ r = Returns(sfree(s.h, b), s.p) /\ s.p # NULL
  BY Zenon DEF srealloc
<1> HIDE DEF r, s
<1>6. CASE r = Returns(h, NULL)
  <2>1. r.h = h /\ r.p = NULL /\ u2 = u
    BY <1>6 DEF Returns
  <2> HIDE DEF u2
  <2>2. Effect(h, u, h, u) /\ Lowest(h, h, u)
    BY DEF Effect, Same, Lowest
  <2> QED
    BY <2>1, <2>2 DEF r, u2
<1>7. CASE r = Returns(h, b) /\ Size(h, b) >= n
  <2> DEFINE v == With(Drop(u, b), b, n)
  <2>1. r.h = h /\ r.p = b
    BY <1>7 DEF Returns
  <2>2. u2 = v
    BY <1>2, <2>1 DEF Hold
  <2>3. DOMAIN v = DOMAIN u /\ v[b] = n /\ \A c \in DOMAIN u : c # b => v[c] = u[c]
    BY DEF With, Drop
  <2> HIDE DEF u2, v
  <2>4. Used(v, h.meta)
    <3>1. h.meta[b].size >= Asked(v[b]) /\ v[b] \in Nat
      BY <1>3, <1>7, <2>3 DEF Size
    <3>2. \A c \in DOMAIN u : c # b => v[c] \in Nat /\ h.meta[c].size >= Asked(v[c])
      BY <1>1, <2>3 DEF Used
    <3> QED
      BY <1>2, <2>3, <3>1, <3>2 DEF Used
  <2>5. HeapOK(h, v)
    BY <2>4 DEF HeapOK
  <2>6. /\ b \notin DOMAIN u \ {b} /\ DOMAIN v = (DOMAIN u \ {b}) \cup {b}
        /\ Same(DOMAIN u \ {b}, h, u, h, v)
    BY <2>3 DEF Same
  <2>7. Effect(h, u, h, v)
    BY <2>6 DEF Effect
  <2>8. Lowest(h, h, v)
    BY DEF Lowest
  <2> QED
    BY <2>1, <2>2, <2>5, <2>7, <2>8 DEF r, u2
<1>8. CASE r = s /\ s.p = NULL
  <2>1. r.h = s.h /\ r.p = NULL /\ u2 = u /\ Hold(u, s.p, n) = u
    BY <1>8 DEF Hold
  <2> HIDE DEF u2
  <2>2. \A c \in DOMAIN h.meta : s.h.meta[c] = h.meta[c]
    BY <1>2, <1>4, <1>8
  <2>3. Effect(h, u, s.h, u)
    BY <1>2, <2>2 DEF Effect, Same
  <2>4. Lowest(h, s.h, u)
    BY <2>2 DEF Lowest
  <2> QED
    BY <1>4, <2>1, <2>3, <2>4 DEF r, u2
<1>9. CASE r = Returns(sfree(s.h, b), s.p) /\ s.p # NULL
  <2> DEFINE q == s.p
             w == With(u, q, n)
             v == With(Drop(u, b), q, n)
             h2 == sfree(s.h, b)
  <2>1. r.h = h2 /\ r.p = q
    BY <1>9 DEF Returns
  <2>2. u2 = v /\ Hold(u, s.p, n) = w
    BY <1>9, <2>1 DEF Hold
  <2>3. q \notin DOMAIN u /\ q # b
    BY <1>4, <1>9
  <2>4. b \in DOMAIN s.h.meta /\ HeapOK(s.h, w)
    BY <1>2, <1>4, <2>2
  <2>5. /\ HeapOK(h2, Drop(w, b))
        /\ DOMAIN h2.meta = DOMAIN s.h.meta
        /\ \A c \in DOMAIN s.h.meta : h2.meta[c].size = s.h.meta[c].size
        /\ \A c \in DOMAIN s.h.meta : c # b => h2.meta[c] = s.h.meta[c]
    BY <2>4, SfreeKeeps
  <2>6. Drop(w, b) = v
    BY <2>3 DEF Drop, With
  <2>7. /\ DOMAIN v = (DOMAIN u \ {b}) \cup {q} /\ v[q] = n
        /\ \A c \in DOMAIN u \ {b} : v[c] = u[c]
    BY <2>3 DEF Drop, With
  <2> HIDE DEF u2, v, w, h2, q
  <2>8. \A c \in DOMAIN h.meta : h2.meta[c].size = h.meta[c].size
    BY <1>4, <2>5
  <2>9. Same(DOMAIN u \ {b}, h, u, h2, v)
    BY <1>2, <2>7, <2>8 DEF Same
  <2>10. Effect(h, u, h2, v)
    BY <2>3, <2>7, <2>9 DEF Effect
  <2>11. Lowest(h, h2, v)
    <3> SUFFICES ASSUME NEW c \in DOMAIN h.meta, NEW x \in DOMAIN h.meta, h.meta[c].is_free,
                        ~h2.meta[c].is_free, x < c, h.meta[x].is_free
                 PROVE  h.meta[x].size < Asked(v[c])
      BY DEF Lowest
    <3>1. c # b
      BY <1>2
    <3>2. h2.meta[c] = s.h.meta[c]
      BY <1>4, <2>5, <3>1
    <3>3. c = q
      BY <1>4, <3>2 DEF q
    <3> QED
      BY <1>3, <1>4, <2>7, <3>3 DEF q
  <2> QED
    BY <2>1, <2>2, <2>5, <2>6, <2>10, <2>11 DEF r, u2
<1> QED
  BY <1>5, <1>6, <1>7, <1>8, <1>9

----------------------------------------------------------------------------
IInv == HeapOK(heap, held)

\* Every call keeps the inductive invariant, does to the user's blocks only what it may, and
\* takes the lowest block that is large enough.
LEMMA StepDoes ==
    ASSUME IInv, Next
    PROVE  IInv' /\ Effect(heap, held, heap', held') /\ Lowest(heap, heap', held')
<1>1. \A limit \in Limits : limit \in 0..HeapLimit
  BY DEF Limits
<1>2. \A n \in Sizes : n \in Nat /\ n < WORD /\ Asked(n) = n
  BY AskedIs, WordAssumption
<1>3. ASSUME NEW n \in Sizes, Smalloc(n)
      PROVE  HeapOK(heap', held') /\ Effect(heap, held, heap', held') /\ Lowest(heap, heap', held')
  <2>1. PICK limit \in Limits : LET r == smalloc(heap, n, limit)
                                IN  heap' = r.h /\ held' = Hold(held, r.p, n)
    BY <1>3 DEF Smalloc
  <2>2. limit \in 0..HeapLimit /\ n \in Nat /\ n = Asked(n)
    BY <1>1, <1>2
  <2> QED
    BY <2>1, <2>2, RequestDoes DEF IInv
<1>4. ASSUME NEW c \in Callocs, Scalloc(c[1], c[2])
      PROVE  HeapOK(heap', held') /\ Effect(heap, held, heap', held') /\ Lowest(heap, heap', held')
  <2> DEFINE m == c[1] * c[2]
             n == m % WORD
  <2>1. PICK limit \in Limits : LET r == smalloc(heap, n, limit)
                                IN  heap' = r.h /\ held' = Hold(held, r.p, m)
    BY <1>4 DEF Scalloc
  <2>2. c[1] \in Nat /\ c[2] \in Nat
    BY WordAssumption
  <2>3. m \in Nat
    BY <2>2
  <2>4. n = Asked(m)
    BY DEF Asked
  <2> HIDE DEF m, n
  <2>5. n \in Nat
    BY <2>3, <2>4, AskedIs, WordAssumption
  <2>6. limit \in 0..HeapLimit
    BY <1>1
  <2> QED
    BY <2>1, <2>3, <2>4, <2>5, <2>6, RequestDoes DEF IInv
<1>5. ASSUME NEW b \in DOMAIN heap.meta, Sfree(b)
      PROVE  HeapOK(heap', held') /\ Effect(heap, held, heap', held') /\ Lowest(heap, heap', held')
  BY <1>5, SfreeDoes DEF Sfree, IInv
<1>6. ASSUME NEW b \in DOMAIN held, NEW n \in Sizes, Srealloc(b, n)
      PROVE  HeapOK(heap', held') /\ Effect(heap, held, heap', held') /\ Lowest(heap, heap', held')
  <2>1. PICK limit \in Limits : LET r == srealloc(heap, b, n, limit)
                                IN  /\ heap' = r.h
                                    /\ held' = IF r.p = NULL THEN held
                                               ELSE Hold(Drop(held, b), r.p, n)
    BY <1>6 DEF Srealloc
  <2>2. limit \in 0..HeapLimit /\ n \in Nat /\ n < WORD
    BY <1>1, <1>2
  <2> QED
    BY <2>1, <2>2, SreallocDoes DEF IInv
<1>7. HeapOK(heap', held') /\ Effect(heap, held, heap', held') /\ Lowest(heap, heap', held')
  BY <1>3, <1>4, <1>5, <1>6 DEF Next
<1> QED
  BY <1>7 DEF IInv

\* The allocator starts with an empty heap.
LEMMA StartOK == Init => IInv
<1> SUFFICES ASSUME Init PROVE HeapOK(heap, held)
  BY DEF IInv
<1> DEFINE none == << >>
<1>1. DOMAIN none = {} /\ Len(none) = 0 /\ none \in Seq(0..HeapLimit)
  OBVIOUS
<1>2. none \in Metas
  <2>1. none = [b \in DOMAIN none |-> none[b]]
    BY <1>1
  <2> HIDE DEF none
  <2> QED
    BY <1>1, <2>1, MetaMade
<1> HIDE DEF none
<1>3. /\ heap = Record(none, none, 0, 0, 0, 0, 0, 0) /\ held = none
  BY DEF Init, Record, none
<1>4. 0 \in 0..HeapLimit /\ HeapLimit \in Nat /\ META \in Nat
  BY LayoutAssumption
<1>5. heap \in Statics
  BY <1>1, <1>2, <1>3, <1>4 DEF Statics, Record
<1>6. /\ heap.free_list = none /\ heap.meta = none /\ heap.free_blocks_num = 0
      /\ heap.free_bytes_num = 0 /\ heap.num_of_metadatas = 0
      /\ heap.num_allocated_blocks = 0 /\ heap.num_allocated_bytes = 0 /\ heap.brk = 0
  BY <1>3 DEF Record
<1>7. Layout(none, 0) /\ Listed(none, none) /\ Used(none, none)
  BY <1>1 DEF Layout, Listed, Used
<1>8. FreeOf(none) = {}
  BY <1>1 DEF FreeOf
<1>9. SumOver(SizesOf(none), {}, HeapLimit) = 0
  BY <1>4, SumOverNone
<1>10. Cardinality(DOMAIN none) = 0
  BY <1>1, FS_EmptySet
<1>11. FreeCounted(heap)
  BY <1>1, <1>6, <1>8, <1>9 DEF FreeCounted
<1>12. AllCounted(heap)
  <2>1. 0 * META + 0 = 0
    BY <1>4
  <2> QED
    BY <1>1, <1>6, <1>9, <1>10, <2>1 DEF AllCounted
<1> QED
  BY <1>3, <1>5, <1>6, <1>7, <1>11, <1>12 DEF HeapOK

\* The statics and the user's pointers fit together after any sequence of calls, whatever
\* sbrk refuses (malloc_2.cpp).
THEOREM FirstFitInvariant == Spec => []IInv
<1>1. IInv /\ [Next]_vars => IInv'
  <2>1. CASE Next
    BY <2>1, StepDoes
  <2>2. CASE UNCHANGED vars
    BY <2>2 DEF vars, IInv
  <2> QED
    BY <2>1, <2>2
<1> QED
  BY <1>1, StartOK, PTL DEF Spec

\* The free list holds exactly the free blocks in ascending order of address, the used ones
\* are the user's and large enough, and the statistics agree with them.
THEOREM FreeListCorrect == Spec => []FreeListInv
<1>1. IInv => FreeListInv
  <2> SUFFICES ASSUME IInv PROVE FreeListInv
    OBVIOUS
  <2> DEFINE l == heap.free_list
             meta == heap.meta
  <2>1. /\ heap \in Statics /\ Listed(l, meta) /\ Used(held, meta)
        /\ FreeCounted(heap) /\ AllCounted(heap)
    BY DEF IInv, HeapOK
  <2>2. /\ l \in Seq(0..HeapLimit) /\ Len(l) \in Nat /\ meta \in Metas /\ heap.brk \in 0..HeapLimit
    BY <2>1, StaticsAre
  <2>3. /\ DOMAIN meta \subseteq 0..HeapLimit
        /\ \A b \in DOMAIN meta : /\ meta[b] \in [size : Nat \ {0}, is_free : BOOLEAN]
                                  /\ meta[b].is_free \in BOOLEAN
    BY <2>2, MetaIs
  <2>4. DOMAIN l = 1..Len(l)
    BY <2>2, LenProperties
  <2>5. /\ \A i \in 1..Len(l) : l[i] \in DOMAIN meta /\ meta[l[i]].is_free
        /\ \A b \in DOMAIN meta : meta[b].is_free => \E i \in 1..Len(l) : l[i] = b
        /\ \A i, j \in 1..Len(l) : i < j => l[i] < l[j]
    BY <2>1 DEF Listed
  <2>6. Range(l) = FreeOf(meta)
    BY <2>4, <2>5 DEF Range, FreeOf
  <2>7. SizesOf(meta) = [b \in Blocks |-> Size(heap, b)]
    BY DEF SizesOf, Blocks, Size
  <2>8. l \in Seq(DOMAIN meta)
    <3>1. l = [i \in 1..Len(l) |-> l[i]]
      BY <2>2, <2>4
    <3> HIDE DEF l, meta
    <3>2. l \in [1..Len(l) -> DOMAIN meta]
      BY <2>5, <3>1
    <3> QED
      BY <2>2, <3>2, SeqDef
  <2>9. SumOver(SizesOf(meta), FreeOf(meta), HeapLimit) \in Nat
    <3>1. FreeOf(meta) \in SUBSET DOMAIN meta
      BY DEF FreeOf
    <3> QED
      BY <2>2, <3>1, SumOfBlocks
  <2>10. TypeOK
    <3>1. heap.free_blocks_num \in Nat /\ heap.free_bytes_num \in Nat
      BY <2>1, <2>2, <2>9 DEF FreeCounted
    <3> QED
      BY <2>2, <2>3, <2>8, <3>1 DEF TypeOK, Blocks
  <2>11. FreeListSorted
    BY <2>5, <2>6 DEF FreeListSorted, FreeOf, IsSorted, Blocks
  <2>12. UserBlocks
    BY <2>1 DEF Used, UserBlocks, Blocks, Size
  <2>13. FreeStatsExact
    BY <2>1, <2>6, <2>7 DEF FreeStatsExact, FreeCounted, SumOfSizes, _num_free_blocks, _num_free_bytes
  <2>14. AllocatedStatsCover
    BY <2>1, <2>7 DEF AllocatedStatsCover, AllCounted, SumOfSizes, Blocks, _num_allocated_blocks,
                      _num_allocated_bytes, _num_meta_data_bytes
  <2> QED
    BY <2>10, <2>11, <2>12, <2>13, <2>14 DEF FreeListInv
<1> QED
  BY <1>1, FirstFitInvariant, PTL

\* smalloc and srealloc take the free block of the lowest address that is large enough.
THEOREM TakesTheLowest == Spec => LowestAddressFirst
<1> DEFINE A == \A b \in Blocks :
                   heap.meta[b].is_free /\ ~heap'.meta[b].is_free =>
                      \A x \in Blocks : x < b /\ heap.meta[x].is_free =>
                         Size(heap, x) < Asked(held'[b])
<1>1. IInv /\ [Next]_vars => [A]_vars
  <2>1. ASSUME IInv, Next PROVE A
    <3>1. Lowest(heap, heap', held')
      BY <2>1, StepDoes
    <3> QED
      BY <3>1 DEF Lowest, Blocks, Size
  <2> HIDE DEF A
  <2> QED
    BY <2>1 DEF vars
<1>2. []IInv /\ [][Next]_vars => [][A]_vars
  BY <1>1, PTL
<1> QED
  BY <1>2, FirstFitInvariant, PTL DEF Spec, LowestAddressFirst

----------------------------------------------------------------------------
Bytes(h, p) == (p + META)..(p + META + Size(h, p) - 1)

\* A block of the user's has the bytes that were asked for, and shares none.
LEMMA BytesApart ==
    ASSUME NEW h, NEW u, HeapOK(h, u), NEW p \in DOMAIN u
    PROVE  /\ Cardinality(Bytes(h, p)) >= Asked(u[p])
           /\ \A q \in DOMAIN u \ {p} : Bytes(h, q) \cap Bytes(h, p) = {}
<1>1. h.meta \in Metas /\ Layout(h.meta, h.brk) /\ Used(u, h.meta)
  BY StaticsAre DEF HeapOK
<1>2. /\ \A b \in DOMAIN h.meta : Size(h, b) \in Nat \ {0} /\ b \in Nat
      /\ DOMAIN u \subseteq DOMAIN h.meta /\ META \in Nat
  BY <1>1, MetaIs, LayoutAssumption DEF Used, Size
<1>3. \A b, c \in DOMAIN h.meta : b < c => b + META + Size(h, b) <= c
  BY <1>1 DEF Layout, Size
<1>4. Size(h, p) >= Asked(u[p])
  BY <1>1 DEF Used, Size
<1>5. Cardinality(Bytes(h, p)) = Size(h, p)
  <2> DEFINE a == p + META
             z == p + META + Size(h, p) - 1
  <2>1. a \in Int /\ z \in Int /\ ~(a > z) /\ z - a + 1 = Size(h, p)
    BY <1>2
  <2> HIDE DEF a, z
  <2>2. Cardinality(a..z) = z - a + 1
    BY <2>1, FS_Interval
  <2> QED
    BY <2>1, <2>2 DEF Bytes, a, z
<1>6. ASSUME NEW q \in DOMAIN u, q # p PROVE Bytes(h, q) \cap Bytes(h, p) = {}
  <2>1. p \in Nat /\ q \in Nat /\ Size(h, p) \in Nat /\ Size(h, q) \in Nat /\ META \in Nat
    BY <1>2
  <2>2. q + META + Size(h, q) <= p \/ p + META + Size(h, p) <= q
    BY <1>2, <1>3, <1>6, <2>1
  <2>3. ASSUME NEW x \in Int, x >= q + META, x <= q + META + Size(h, q) - 1,
               x >= p + META, x <= p + META + Size(h, p) - 1
        PROVE  FALSE
    BY <2>1, <2>2, <2>3
  <2> QED
    BY <2>1, <2>3 DEF Bytes
<1> QED
  BY <1>4, <1>5, <1>6

\* Heap counts bytes as this module does.
LEMMA SameCount == ASSUME NEW S PROVE Abstract!Cardinality(S) = Cardinality(S)
  BY Zenon DEF Cardinality, Abstract!Cardinality

\* malloc_2.cpp implements the abstract heap: the bytes of a pointer change only by a call
\* for that pointer, and what a call returns overlaps with nothing.
THEOREM FirstFitImplementsHeap == Spec => ImplementsHeap
<1> DEFINE area == [p \in DOMAIN held |-> Bytes(heap, p)]
           asked == [p \in DOMAIN held |-> Asked(held[p])]
<1>1. Init => Abstract!HeapInit
  BY DEF Init, Abstract!HeapInit
<1>2. IInv /\ IInv' /\ [Next]_vars => [Abstract!Allocate \/ Abstract!Release \/ Abstract!Resize]_(Abstract!heapVars)
  <2>1. CASE UNCHANGED vars
    BY <2>1 DEF vars, Abstract!heapVars, Size
  <2>2. ASSUME IInv, IInv', Next
        PROVE  [Abstract!Allocate \/ Abstract!Release \/ Abstract!Resize]_(Abstract!heapVars)
    <3>1. Effect(heap, held, heap', held') /\ HeapOK(heap', held')
      BY <2>2, StepDoes DEF IInv
    <3>2. ASSUME NEW S \in SUBSET DOMAIN held, S \subseteq DOMAIN held', Same(S, heap, held, heap', held')
          PROVE  \A q \in S : area'[q] = area[q] /\ asked'[q] = asked[q]
      BY <3>2 DEF Same, Bytes, Size
    <3>3. ASSUME NEW p \in DOMAIN held'
          PROVE  /\ Cardinality(area'[p]) >= asked'[p]
                 /\ \A q \in DOMAIN area' \ {p} : area'[q] \cap area'[p] = {}
      <4>1. /\ Cardinality(Bytes(heap', p)) >= Asked(held'[p])
            /\ \A q \in DOMAIN held' \ {p} : Bytes(heap', q) \cap Bytes(heap', p) = {}
        BY <3>1, BytesApart
      <4> QED
        BY <4>1
    <3>4. CASE DOMAIN held' = DOMAIN held /\ Same(DOMAIN held, heap, held, heap', held')
      <4>1. area' = area /\ asked' = asked
        BY <3>4 DEF Same, Bytes, Size
      <4> QED
        BY <4>1 DEF Abstract!heapVars, Bytes
    <3>5. ASSUME NEW p, p \notin DOMAIN held, DOMAIN held' = DOMAIN held \cup {p},
                 Same(DOMAIN held, heap, held, heap', held')
          PROVE  Abstract!Allocate
      <4>1. p \in DOMAIN area' \ DOMAIN area /\ DOMAIN area' = DOMAIN area \cup {p}
        BY <3>5
      <4>2. \A q \in DOMAIN area : area'[q] = area[q] /\ asked'[q] = asked[q]
        BY <3>2, <3>5
      <4>3. /\ Cardinality(area'[p]) >= asked'[p]
            /\ \A q \in DOMAIN area' \ {p} : area'[q] \cap area'[p] = {}
        BY <3>3, <3>5
      <4>4. Abstract!Untouched(DOMAIN area)
        BY <4>2 DEF Abstract!Untouched, Bytes
      <4>5. Abstract!Owns(p)
        BY <4>3, SameCount DEF Abstract!Owns, Bytes
      <4> QED
        BY <4>1, <4>4, <4>5, Zenon DEF Abstract!Allocate, Bytes
    <3>6. ASSUME NEW p \in DOMAIN held, DOMAIN held' = DOMAIN held \ {p},
                 Same(DOMAIN held \ {p}, heap, held, heap', held')
          PROVE  Abstract!Release
      <4>1. p \in DOMAIN area /\ DOMAIN area' = DOMAIN area \ {p}
        BY <3>6
      <4>2. \A q \in DOMAIN area' : area'[q] = area[q] /\ asked'[q] = asked[q]
        BY <3>2, <3>6
      <4> QED
        BY <4>1, <4>2 DEF Abstract!Release, Abstract!Untouched, Bytes
    <3>7. ASSUME NEW p \in DOMAIN held, NEW q, q \notin DOMAIN held \ {p},
                 DOMAIN held' = (DOMAIN held \ {p}) \cup {q},
                 Same(DOMAIN held \ {p}, heap, held, heap', held')
          PROVE  Abstract!Resize
      <4>1. /\ p \in DOMAIN area /\ q \in DOMAIN area' /\ q \notin DOMAIN area \ {p}
            /\ DOMAIN area' = (DOMAIN area \ {p}) \cup {q}
        BY <3>7
      <4>2. \A x \in DOMAIN area \ {p} : area'[x] = area[x] /\ asked'[x] = asked[x]
        BY <3>2, <3>7
      <4>3. /\ Cardinality(area'[q]) >= asked'[q]
            /\ \A x \in DOMAIN area' \ {q} : area'[x] \cap area'[q] = {}
        BY <3>3, <3>7
      <4>4. Abstract!Untouched(DOMAIN area \ {p})
        BY <4>2 DEF Abstract!Untouched, Bytes
      <4>5. Abstract!Owns(q)
        BY <4>3, SameCount DEF Abstract!Owns, Bytes
      <4> QED
        BY <4>1, <4>4, <4>5, Zenon DEF Abstract!Resize, Bytes
    <3> QED
      BY <3>1, <3>4, <3>5, <3>6, <3>7 DEF Effect
  <2> QED
    BY <2>1, <2>2
<1>3. []IInv /\ [][Next]_vars => [][Abstract!Allocate \/ Abstract!Release \/ Abstract!Resize]_(Abstract!heapVars)
  BY <1>2, PTL
<1> QED
  BY <1>1, <1>3, FirstFitInvariant, PTL DEF Spec, ImplementsHeap, Abstract!HeapSpec
=============================================================================
