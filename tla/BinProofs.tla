----------------------------- MODULE BinProofs -----------------------------
(***************************************************************************)
(* Proofs about malloc_3.cpp and malloc_4.cpp.  As in the allocator, the   *)
(* statics h and the user's pointers u are parameters: a call goes through *)
(* states that no other call finds.                                        *)
(***************************************************************************)
EXTENDS BinAllocator, ListProofs, FiniteSetTheorems, TLAPS

Fields ==
    {"list", "meta", "histo", "num_of_metadatas", "mmaped_blocks_num", "mmaped_bytes_num",
     "maps", "brk", "broken", "version"}
IsHeap(h) == h = [x \in Fields |-> h[x]]

\* What no operation on blocks of the heap touches.
Outside(g, h) ==
    /\ h.maps = g.maps /\ h.mmaped_blocks_num = g.mmaped_blocks_num
    /\ h.mmaped_bytes_num = g.mmaped_bytes_num /\ h.version = g.version

Meta == [size : Nat \ {0}, is_free : BOOLEAN]
IsMeta(m) ==
    /\ m = [b \in DOMAIN m |-> m[b]] /\ DOMAIN m \subseteq 0..HeapLimit
    /\ \A b \in DOMAIN m : m[b] \in Meta

SizesOf(m) == [b \in DOMAIN m |-> m[b].size]
Total(m) == SumOver(SizesOf(m), DOMAIN m, AddressLimit)
FreeOf(m) == {b \in DOMAIN m : m[b].is_free}
UsedOf(m) == {b \in DOMAIN m : ~m[b].is_free}

\* The blocks in use outside P are the same, and of the same size.
SameUsed(m1, m2, P) ==
    \A b : \/ b \in P
           \/ b \in UsedOf(m1) /\ b \in UsedOf(m2) /\ m2[b] = m1[b]
           \/ b \notin UsedOf(m1) /\ b \notin UsedOf(m2)

\* The list holds the blocks by address.
Address == [x \in 0..HeapLimit |-> x]
Listed(l, D) == D \subseteq 0..HeapLimit /\ l \in Seq(0..HeapLimit) /\ Ordered(l, D, Address)

\* A block ends before the next one starts, and below the break; all is aligned.
Layout(m, brk, a) ==
    /\ \A b \in DOMAIN m : /\ b + META + m[b].size <= brk
                           /\ b % a = 0 /\ m[b].size % a = 0
    /\ \A b, c \in DOMAIN m : b < c => b + META + m[b].size <= c
    /\ brk \in 0..HeapLimit /\ brk % a = 0

\* The bytes below the break are those of blocks and those of metadata.
Counted(m, metas, brk) ==
    /\ metas \in Int /\ metas >= Cardinality(DOMAIN m)
    /\ Total(m) + META * metas = brk

MapsOK(h) ==
    /\ h.maps = [p \in DOMAIN h.maps |-> h.maps[p]] /\ DOMAIN h.maps \subseteq Maps
    /\ \A p \in DOMAIN h.maps : h.maps[p] \in Nat /\ h.maps[p] >= MMAP_SIZE
    /\ h.mmaped_blocks_num = Cardinality(DOMAIN h.maps)
    /\ h.mmaped_bytes_num = SumOver(h.maps, DOMAIN h.maps, AddressLimit)

\* What holds of the statics whatever becomes of the histogram.
Core(h) ==
    /\ IsHeap(h) /\ IsMeta(h.meta) /\ Listed(h.list, DOMAIN h.meta)
    /\ Layout(h.meta, h.brk, Align(h))
    /\ h.num_of_metadatas \in Int
    /\ Counted(h.meta, h.num_of_metadatas - h.mmaped_blocks_num, h.brk)
    /\ MapsOK(h) /\ h.version \in Versions /\ h.broken \in {"none", "index", "merged"}

\* The histogram q holds the blocks of S, each in the bin of its size, sorted.
InBin(m, S, i) == {b \in S : m[b].size \div BIN = i}
Histo(q, m, S) ==
    /\ q = [i \in 0..(NBINS - 1) |-> q[i]]
    /\ \A i \in 0..(NBINS - 1) :
          q[i] \in Seq(0..HeapLimit) /\ Ordered(q[i], InBin(m, S, i), SizesOf(m))

\* No block of the heap is as large as a mapped one; and the histogram holds S.
Sound(h, S) ==
    h.broken = "none" =>
       /\ Histo(h.histo, h.meta, S)
       /\ \A b \in DOMAIN h.meta : h.meta[b].size < MMAP_SIZE

\* The blocks in use and the mapped ones are the user's, each large enough.
Used(u, h) ==
    /\ DOMAIN u = UsedOf(h.meta) \cup DOMAIN h.maps
    /\ \A p \in DOMAIN u : u[p] \in Nat /\ SizeOf(h, p) >= Asked(u[p])

\* The inductive invariant.
HeapOK(h, u) == Core(h) /\ Sound(h, FreeOf(h.meta)) /\ Used(u, h)

----------------------------------------------------------------------------
\* What each of the small steps does to each field.
LEMMA PlaceIs ==
    ASSUME NEW h, IsHeap(h), NEW b, NEW f, NEW n
    PROVE  LET r == Place(h, b, f, n) IN
           /\ IsHeap(r) /\ Outside(h, r) /\ r.meta = With(h.meta, b, [size |-> n, is_free |-> f])
           /\ r.list = h.list /\ r.histo = h.histo /\ r.num_of_metadatas = h.num_of_metadatas
           /\ r.brk = h.brk /\ r.broken = h.broken
  BY DEF IsHeap, Fields, Outside, Place

LEMMA ListAddIs ==
    ASSUME NEW h, IsHeap(h), NEW b, NEW prev
    PROVE  LET r == add_node_list(h, b, prev) IN
           /\ IsHeap(r) /\ Outside(h, r) /\ r.meta = h.meta
           /\ r.list = InsertAt(h.list, IF prev = NULL THEN 1 ELSE IndexOf(h, prev) + 1, b)
           /\ r.histo = h.histo /\ r.num_of_metadatas = h.num_of_metadatas
           /\ r.brk = h.brk /\ r.broken = h.broken
  BY DEF IsHeap, Fields, Outside, add_node_list

LEMMA HistoAddIs ==
    ASSUME NEW h, IsHeap(h), NEW b
    PROVE  LET r == add_node_histo(h, b)
               i == BinOf(h, b)
           IN
           /\ IsHeap(r) /\ Outside(h, r) /\ r.meta = h.meta /\ r.list = h.list
           /\ r.num_of_metadatas = h.num_of_metadatas /\ r.brk = h.brk
           /\ i >= NBINS => r.broken = "index" /\ r.histo = h.histo
           /\ ~(i >= NBINS) =>
                 /\ r.broken = h.broken
                 /\ r.histo = [h.histo EXCEPT ![i] = InsertAt(@, Ahead(h, @, b) + 1, b)]
  BY DEF IsHeap, Fields, Outside, add_node_histo

LEMMA HistoRemoveIs ==
    ASSUME NEW h, IsHeap(h), NEW b
    PROVE  LET r == remove_node_histo(h, b)
               i == BinOf(h, b)
           IN
           /\ IsHeap(r) /\ Outside(h, r) /\ r.meta = h.meta /\ r.list = h.list
           /\ r.num_of_metadatas = h.num_of_metadatas /\ r.brk = h.brk /\ r.broken = h.broken
           /\ ~IsFree(h, b) => r = h
           /\ IsFree(h, b) /\ ~(i >= NBINS) =>
                 r.histo = [h.histo EXCEPT ![i] = RemoveFirst(@, b)]
  BY DEF IsHeap, Fields, Outside, remove_node_histo

----------------------------------------------------------------------------
\* Sums and differences of aligned numbers are aligned.
LEMMA AlignedSum ==
    ASSUME NEW a \in Nat \ {0}, NEW x \in Int, NEW y \in Int, x % a = 0, y % a = 0
    PROVE  (x + y) % a = 0 /\ (x - y) % a = 0
<1> DEFINE i == x \div a
           j == y \div a
<1>1. i \in Int /\ j \in Int /\ x = a * i /\ y = a * j
  OBVIOUS
<1> HIDE DEF i, j
<1>2. x + y = a * (i + j) /\ x - y = a * (i - j) /\ i + j \in Int /\ i - j \in Int
  BY <1>1
<1>3. \A k \in Int : (a * k) % a = 0
  OBVIOUS
<1> QED
  BY <1>2, <1>3

\* The alignment is one that the metadata keeps.
LEMMA AlignIs ==
    ASSUME NEW h
    PROVE  Align(h) \in Nat \ {0} /\ META % Align(h) = 0
<1>1. META % 1 = 0
  BY LayoutAssumption
<1> QED
  BY <1>1, AlignAssumption DEF Align

\* Rounding up.
LEMMA RoundUpIs ==
    ASSUME NEW h, NEW n \in Nat
    PROVE  /\ round_up(h, n) \in Nat /\ round_up(h, n) >= n
           /\ round_up(h, n) % Align(h) = 0
           /\ n % Align(h) = 0 => round_up(h, n) = n
<1> DEFINE a == Align(h)
<1>1. a \in Nat \ {0}
  BY AlignIs
<1> HIDE DEF a
<1>2. CASE n % a = 0
  BY <1>1, <1>2 DEF round_up, a
<1>3. CASE n % a # 0
  <2> DEFINE k == n \div a
  <2>1. k \in Nat /\ n = a * k + (n % a) /\ n % a \in 0..(a - 1)
    BY <1>1
  <2> HIDE DEF k
  <2>2. round_up(h, n) = n + (a - (n % a))
    BY <1>3 DEF round_up, a
  <2>3. n + (a - (n % a)) = a * (k + 1) /\ k + 1 \in Nat /\ n + (a - (n % a)) >= n
        /\ n + (a - (n % a)) \in Nat
    BY <1>1, <2>1
  <2>4. \A j \in Nat : (a * j) % a = 0
    BY <1>1
  <2> QED
    BY <1>3, <2>2, <2>3, <2>4 DEF a
<1> QED
  BY <1>2, <1>3

\* What was asked for, as the allocator has it.
LEMMA AskedIs ==
    ASSUME NEW n \in Nat
    PROVE  Asked(n) \in 0..(WORD - 1) /\ (n < WORD => Asked(n) = n)
  BY WordAssumption DEF Asked

\* The blocks of the last bin are just smaller than MMAP_SIZE.
LEMMA BinIs ==
    ASSUME NEW n \in Nat
    PROVE  n \div BIN \in Nat /\ (n \div BIN < NBINS <=> n < MMAP_SIZE)
  BY BinAssumption

\* The metadata is a function on a finite set of addresses.
LEMMA MetaIs ==
    ASSUME NEW m, IsMeta(m)
    PROVE  /\ DOMAIN m \subseteq 0..HeapLimit /\ IsFiniteSet(DOMAIN m)
           /\ Cardinality(DOMAIN m) \in Nat
           /\ \A b \in DOMAIN m : /\ m[b].size \in Nat \ {0} /\ m[b].is_free \in BOOLEAN
                                  /\ m[b] = [size |-> m[b].size, is_free |-> m[b].is_free]
                                  /\ b \in 0..HeapLimit /\ b \in Nat /\ b \in 0..AddressLimit
                                  /\ b # NULL
           /\ Total(m) \in Nat
<1>1. IsFiniteSet(0..HeapLimit)
  BY LayoutAssumption, FS_Interval
<1>2. DOMAIN m \subseteq 0..HeapLimit
  BY DEF IsMeta
<1>3. IsFiniteSet(DOMAIN m) /\ Cardinality(DOMAIN m) \in Nat
  BY <1>1, <1>2, FS_Subset, FS_CardinalityType
<1>4. \A b \in DOMAIN m : /\ m[b].size \in Nat \ {0} /\ m[b].is_free \in BOOLEAN
                          /\ m[b] = [size |-> m[b].size, is_free |-> m[b].is_free]
  BY DEF IsMeta, Meta
<1>5. \A b \in 0..HeapLimit : b \in Nat /\ b \in 0..AddressLimit /\ b # NULL
  BY LayoutAssumption DEF NULL
<1>6. Total(m) \in Nat
  <2>1. \A x \in DOMAIN m : SizesOf(m)[x] \in Nat
    BY <1>4 DEF SizesOf
  <2>2. AddressLimit \in Nat
    BY LayoutAssumption
  <2> QED
    BY <2>1, <2>2, SumOverIs DEF Total
<1> QED
  BY <1>2, <1>3, <1>4, <1>5, <1>6

\* One more block, or one with another size or flag.
LEMMA WithIs ==
    ASSUME NEW m, IsMeta(m), NEW b \in 0..HeapLimit, NEW n \in Nat \ {0}, NEW f \in BOOLEAN
    PROVE  LET r == With(m, b, [size |-> n, is_free |-> f]) IN
           /\ IsMeta(r) /\ DOMAIN r = DOMAIN m \cup {b}
           /\ r[b].size = n /\ r[b].is_free = f
           /\ \A c \in DOMAIN m : c # b => r[c] = m[c]
<1> DEFINE v == [size |-> n, is_free |-> f]
           r == With(m, b, v)
<1>1. v \in Meta /\ v.size = n /\ v.is_free = f
  BY DEF Meta
<1> HIDE DEF v
<1>2. DOMAIN r = DOMAIN m \cup {b} /\ r = [x \in DOMAIN r |-> r[x]] /\ r[b] = v
      /\ \A c \in DOMAIN m : c # b => r[c] = m[c]
  BY DEF With
<1> HIDE DEF r
<1>3. IsMeta(r)
  BY <1>1, <1>2 DEF IsMeta
<1> QED
  BY <1>1, <1>2, <1>3 DEF r, v

\* From h to r the block b is placed, or changed, and nothing else.
Placed(h, r, b, f, n) ==
    /\ IsHeap(r) /\ Outside(h, r) /\ IsMeta(r.meta) /\ DOMAIN r.meta = DOMAIN h.meta \cup {b}
    /\ r.meta[b].size = n /\ r.meta[b].is_free = f
    /\ \A c \in DOMAIN h.meta : c # b => r.meta[c] = h.meta[c]
    /\ r.list = h.list /\ r.histo = h.histo /\ r.num_of_metadatas = h.num_of_metadatas
    /\ r.brk = h.brk /\ r.broken = h.broken

LEMMA PlaceDoes ==
    ASSUME NEW h, IsHeap(h), IsMeta(h.meta), NEW b \in 0..HeapLimit, NEW n \in Nat \ {0},
           NEW f \in BOOLEAN
    PROVE  Placed(h, Place(h, b, f, n), b, f, n)
<1> DEFINE r == Place(h, b, f, n)
           v == [size |-> n, is_free |-> f]
           m == h.meta
           w == With(m, b, v)
<1>1. /\ IsHeap(r) /\ Outside(h, r) /\ r.meta = w
      /\ r.list = h.list /\ r.histo = h.histo /\ r.num_of_metadatas = h.num_of_metadatas
      /\ r.brk = h.brk /\ r.broken = h.broken
  BY PlaceIs
<1>2. /\ IsMeta(w) /\ DOMAIN w = DOMAIN m \cup {b} /\ w[b].size = n /\ w[b].is_free = f
      /\ \A c \in DOMAIN m : c # b => w[c] = m[c]
  BY WithIs
<1> HIDE DEF r, w
<1> QED
  BY <1>1, <1>2 DEF r, Placed

\* One block less.
LEMMA DropIs ==
    ASSUME NEW m, IsMeta(m), NEW b
    PROVE  LET r == Drop(m, b) IN
           /\ IsMeta(r) /\ DOMAIN r = DOMAIN m \ {b}
           /\ \A c \in DOMAIN r : r[c] = m[c]
<1> DEFINE r == Drop(m, b)
<1>1. DOMAIN r = DOMAIN m \ {b} /\ r = [x \in DOMAIN r |-> r[x]]
      /\ \A c \in DOMAIN r : r[c] = m[c]
  BY DEF Drop
<1> HIDE DEF r
<1>2. IsMeta(r)
  BY <1>1 DEF IsMeta
<1> QED
  BY <1>1, <1>2 DEF r

\* A block may have any size.
LEMMA Resized ==
    ASSUME NEW m, IsMeta(m), NEW b \in DOMAIN m, NEW n \in Nat \ {0}
    PROVE  \E w : /\ IsMeta(w) /\ DOMAIN w = DOMAIN m /\ w[b].size = n
                 /\ \A c \in DOMAIN m : c # b => w[c] = m[c]
<1> DEFINE v == [size |-> n, is_free |-> TRUE]
           w == [c \in DOMAIN m |-> IF c = b THEN v ELSE m[c]]
<1>1. v \in Meta /\ v.size = n
  BY DEF Meta
<1> HIDE DEF v
<1>2. /\ DOMAIN w = DOMAIN m /\ w = [c \in DOMAIN w |-> w[c]] /\ w[b] = v
      /\ \A c \in DOMAIN m : c # b => w[c] = m[c]
  OBVIOUS
<1> HIDE DEF w
<1>3. IsMeta(w)
  BY <1>1, <1>2 DEF IsMeta
<1> QED
  BY <1>1, <1>2, <1>3

\* Two heaps whose blocks differ in b only: the bytes and the blocks without b.
LEMMA TotalWithout ==
    ASSUME NEW m, IsMeta(m), NEW r, IsMeta(r), NEW b \in 0..HeapLimit,
           DOMAIN r = DOMAIN m \cup {b}, \A c \in DOMAIN m : c # b => r[c].size = m[c].size
    PROVE  /\ b \in DOMAIN m => /\ Total(r) = Total(m) - m[b].size + r[b].size
                               /\ Cardinality(DOMAIN r) = Cardinality(DOMAIN m)
           /\ b \notin DOMAIN m => /\ Total(r) = Total(m) + r[b].size
                                  /\ Cardinality(DOMAIN r) = Cardinality(DOMAIN m) + 1
<1> DEFINE S == DOMAIN m \ {b}
           t == SumOver(SizesOf(m), S, AddressLimit)
<1>0. AddressLimit \in Nat /\ b \in 0..AddressLimit
  BY LayoutAssumption
<1>1. /\ \A x \in DOMAIN m : SizesOf(m)[x] = m[x].size /\ m[x].size \in Nat
      /\ \A x \in DOMAIN r : SizesOf(r)[x] = r[x].size /\ r[x].size \in Nat
  BY MetaIs DEF SizesOf
<1>2. t \in Nat /\ SumOver(SizesOf(r), S, AddressLimit) = t
  <2>1. \A x \in S : SizesOf(m)[x] \in Nat /\ SizesOf(r)[x] = SizesOf(m)[x]
    BY <1>1
  <2> HIDE DEF S
  <2> QED
    BY <1>0, <2>1, SumOverIs
<1>3. Total(r) = t + r[b].size
  <2>1. DOMAIN r = S \cup {b} /\ b \notin S /\ b \in DOMAIN r
    OBVIOUS
  <2> HIDE DEF S
  <2>2. SumOver(SizesOf(r), S \cup {b}, AddressLimit)
          = SumOver(SizesOf(r), S, AddressLimit) + SizesOf(r)[b]
    BY <1>0, <1>1, <2>1, SumOverAdd
  <2> QED
    BY <1>1, <1>2, <2>1, <2>2 DEF Total
<1>4. CASE b \in DOMAIN m
  <2>1. DOMAIN m = S \cup {b} /\ b \notin S /\ DOMAIN r = DOMAIN m
    BY <1>4
  <2> HIDE DEF S
  <2>2. SumOver(SizesOf(m), S \cup {b}, AddressLimit) = t + SizesOf(m)[b]
    BY <1>0, <1>1, <2>1, SumOverAdd
  <2>3. Total(m) = t + m[b].size
    BY <1>1, <1>4, <2>1, <2>2 DEF Total
  <2>4. m[b].size \in Nat /\ r[b].size \in Nat
    BY <1>1, <1>4, <2>1
  <2> HIDE DEF t
  <2>5. Total(r) = Total(m) - m[b].size + r[b].size
    BY <1>2, <1>3, <2>3, <2>4
  <2> QED
    BY <1>4, <2>1, <2>5
<1>5. CASE b \notin DOMAIN m
  <2>1. S = DOMAIN m
    BY <1>5
  <2>2. t = Total(m)
    BY <2>1 DEF Total
  <2>3. Cardinality(DOMAIN m \cup {b}) = Cardinality(DOMAIN m) + 1
    BY <1>5, MetaIs, FS_AddElement
  <2> QED
    BY <1>3, <1>5, <2>2, <2>3
<1> QED
  BY <1>4, <1>5

\* The same for a block that is gone.
LEMMA TotalDropped ==
    ASSUME NEW m, IsMeta(m), NEW r, IsMeta(r), NEW b \in DOMAIN m,
           DOMAIN r = DOMAIN m \ {b}, \A c \in DOMAIN r : r[c].size = m[c].size
    PROVE  Total(m) = Total(r) + m[b].size /\ Cardinality(DOMAIN m) = Cardinality(DOMAIN r) + 1
<1>1. b \in 0..HeapLimit /\ DOMAIN m = DOMAIN r \cup {b} /\ b \notin DOMAIN r
  BY MetaIs
<1>2. \A c \in DOMAIN r : c # b => m[c].size = r[c].size
  OBVIOUS
<1> QED
  BY <1>1, <1>2, TotalWithout

----------------------------------------------------------------------------
\* A list that holds the addresses of D in order.
LEMMA ListedIs ==
    ASSUME NEW l, NEW D, Listed(l, D)
    PROVE  /\ Len(l) \in Nat /\ D \subseteq 0..HeapLimit
           /\ \A i \in 1..Len(l) : l[i] \in D /\ l[i] \in Nat
           /\ \A d \in D : \E i \in 1..Len(l) : l[i] = d
           /\ \A i, j \in 1..Len(l) : i < j => l[i] < l[j]
           /\ \A i, j \in 1..Len(l) : l[i] < l[j] => i < j
<1>1. l \in Seq(0..HeapLimit) /\ D \subseteq 0..HeapLimit
  BY DEF Listed
<1>2. Len(l) \in Nat
  BY <1>1, LenProperties
<1>3. /\ \A i \in 1..Len(l) : l[i] \in D
      /\ \A d \in D : \E i \in 1..Len(l) : l[i] = d
      /\ \A i, j \in 1..Len(l) : i < j => l[i] # l[j] /\ Address[l[i]] <= Address[l[j]]
  BY DEF Listed, Ordered
<1>4. \A d \in D : d \in 0..HeapLimit /\ d \in Nat /\ Address[d] = d
  BY <1>1, LayoutAssumption DEF Address
<1>5. ASSUME NEW i \in 1..Len(l), NEW j \in 1..Len(l), i < j PROVE l[i] < l[j]
  <2>1. l[i] # l[j] /\ l[i] <= l[j] /\ l[i] \in Nat /\ l[j] \in Nat
    BY <1>3, <1>4, <1>5
  <2> QED
    BY <2>1
<1>6. ASSUME NEW i \in 1..Len(l), NEW j \in 1..Len(l), l[i] < l[j] PROVE i < j
  <2>1. i < j \/ i = j \/ j < i
    BY <1>2
  <2>2. l[i] \in Nat /\ l[j] \in Nat
    BY <1>3, <1>4
  <2>3. ~(l[j] < l[i]) /\ l[i] # l[j]
    BY <1>6, <2>2
  <2> QED
    BY <1>5, <2>1, <2>3
<1> QED
  BY <1>1, <1>2, <1>3, <1>4, <1>5, <1>6

\* Where a block is in the list.
LEMMA IndexOfIs ==
    ASSUME NEW h, NEW D, Listed(h.list, D), NEW b \in D
    PROVE  IndexOf(h, b) \in 1..Len(h.list) /\ h.list[IndexOf(h, b)] = b
<1> DEFINE l == h.list
           I == {i \in 1..Len(l) : l[i] = b}
<1>1. l \in Seq(0..HeapLimit) /\ Ordered(l, D, Address)
  BY DEF Listed
<1> HIDE DEF l
<1>2. /\ I # {} /\ Min(I) \in 1..Len(l) /\ l[Min(I)] = b
      /\ \A j \in 1..Len(l) : l[j] = b => j = Min(I)
  BY <1>1, PositionIs
<1>3. IndexOf(h, b) = IF I # {} THEN Min(I) ELSE 0
  BY DEF IndexOf, SelectInSeq, l
<1> HIDE DEF I
<1> QED
  BY <1>2, <1>3 DEF l

\* list_next is the block with the next address.
LEMMA NextIs ==
    ASSUME NEW h, NEW D, Listed(h.list, D), NEW b \in D
    PROVE  LET c == list_next(h, b) IN
           /\ c = NULL => \A d \in D : d <= b
           /\ c # NULL => c \in D /\ b < c /\ \A d \in D : b < d => c <= d
<1> DEFINE l == h.list
           i == IndexOf(h, b)
           c == list_next(h, b)
<1>1. /\ Len(l) \in Nat /\ D \subseteq 0..HeapLimit
      /\ \A j \in 1..Len(l) : l[j] \in D /\ l[j] \in Nat
      /\ \A d \in D : \E j \in 1..Len(l) : l[j] = d
      /\ \A j, k \in 1..Len(l) : j < k => l[j] < l[k]
      /\ \A j, k \in 1..Len(l) : l[j] < l[k] => j < k
  BY ListedIs
<1>2. i \in 1..Len(l) /\ l[i] = b
  BY IndexOfIs
<1>3. c = IF i = Len(l) THEN NULL ELSE l[i + 1]
  BY DEF list_next
<1> HIDE DEF l, i, c
<1>4. CASE i = Len(l)
  <2>1. \A d \in D : d <= b
    <3> SUFFICES ASSUME NEW d \in D PROVE d <= b
      OBVIOUS
    <3>1. PICK j \in 1..Len(l) : l[j] = d
      BY <1>1
    <3>2. j < i \/ j = i
      BY <1>1, <1>4
    <3>3. d \in Nat /\ b \in Nat
      BY <1>1, <1>2, <3>1
    <3> QED
      BY <1>1, <1>2, <3>1, <3>2, <3>3
  <2> QED
    BY <1>3, <1>4, <2>1 DEF c
<1>5. CASE i # Len(l)
  <2>1. i + 1 \in 1..Len(l) /\ i < i + 1
    BY <1>1, <1>2, <1>5
  <2>2. c = l[i + 1] /\ c \in D /\ c \in Nat /\ b < c
    BY <1>1, <1>2, <1>3, <1>5, <2>1
  <2>3. c # NULL
    BY <2>2 DEF NULL
  <2>4. ASSUME NEW d \in D, b < d PROVE c <= d
    <3>1. PICK j \in 1..Len(l) : l[j] = d
      BY <1>1
    <3>2. i < j
      BY <1>1, <1>2, <2>4, <3>1
    <3>3. i + 1 < j \/ i + 1 = j
      BY <1>1, <1>2, <3>2
    <3>4. d \in Nat
      BY <1>1, <3>1
    <3> QED
      BY <1>1, <2>1, <2>2, <3>1, <3>3, <3>4
  <2> QED
    BY <2>2, <2>3, <2>4 DEF c
<1> QED
  BY <1>4, <1>5

\* list_prev is the block with the previous address.
LEMMA PrevIs ==
    ASSUME NEW h, NEW D, Listed(h.list, D), NEW b \in D
    PROVE  LET c == list_prev(h, b) IN
           c # NULL => c \in D /\ c < b /\ \A d \in D : d < b => d <= c
<1> DEFINE l == h.list
           i == IndexOf(h, b)
           c == list_prev(h, b)
<1>1. /\ Len(l) \in Nat /\ D \subseteq 0..HeapLimit
      /\ \A j \in 1..Len(l) : l[j] \in D /\ l[j] \in Nat
      /\ \A d \in D : \E j \in 1..Len(l) : l[j] = d
      /\ \A j, k \in 1..Len(l) : j < k => l[j] < l[k]
      /\ \A j, k \in 1..Len(l) : l[j] < l[k] => j < k
  BY ListedIs
<1>2. i \in 1..Len(l) /\ l[i] = b
  BY IndexOfIs
<1>3. c = IF i = 1 THEN NULL ELSE l[i - 1]
  BY DEF list_prev
<1> HIDE DEF l, i, c
<1>4. CASE i = 1
  BY <1>3, <1>4 DEF c
<1>5. CASE i # 1
  <2>1. i - 1 \in 1..Len(l) /\ i - 1 < i
    BY <1>1, <1>2, <1>5
  <2>2. c = l[i - 1] /\ c \in D /\ c \in Nat /\ c < b
    BY <1>1, <1>2, <1>3, <1>5, <2>1
  <2>4. ASSUME NEW d \in D, d < b PROVE d <= c
    <3>1. PICK j \in 1..Len(l) : l[j] = d
      BY <1>1
    <3>2. j < i
      BY <1>1, <1>2, <2>4, <3>1
    <3>3. j < i - 1 \/ i - 1 = j
      BY <1>1, <1>2, <3>2
    <3>4. d \in Nat
      BY <1>1, <3>1
    <3> QED
      BY <1>1, <2>1, <2>2, <3>1, <3>3, <3>4
  <2> QED
    BY <2>2, <2>4 DEF c
<1> QED
  BY <1>4, <1>5

\* The block in front of b has b behind it.
LEMMA NextOfPrev ==
    ASSUME NEW h, NEW D, Listed(h.list, D), NEW b \in D, list_prev(h, b) # NULL
    PROVE  list_prev(h, b) \in D /\ list_prev(h, b) < b /\ list_next(h, list_prev(h, b)) = b
<1> DEFINE c == list_prev(h, b)
           n == list_next(h, c)
<1>1. c \in D /\ c < b /\ \A d \in D : d < b => d <= c
  BY PrevIs
<1>2. /\ n = NULL => \A d \in D : d <= c
      /\ n # NULL => n \in D /\ c < n /\ \A d \in D : c < d => n <= d
  BY <1>1, NextIs
<1>3. \A d \in D : d \in Nat
  BY ListedIs
<1> HIDE DEF n
<1>4. n # NULL
  <2>1. ~(b <= c)
    BY <1>1, <1>3
  <2> QED
    BY <1>2, <2>1
<1>5. n \in D /\ c < n /\ n <= b
  BY <1>1, <1>2, <1>4
<1>6. ~(n < b)
  <2>1. ~(n <= c)
    BY <1>1, <1>3, <1>5
  <2> QED
    BY <1>1, <1>5, <2>1
<1> QED
  BY <1>1, <1>3, <1>5, <1>6 DEF n

\* all_list_end is the block with the highest address.
LEMMA EndIs ==
    ASSUME NEW h, NEW D, Listed(h.list, D)
    PROVE  LET w == all_list_end(h) IN
           /\ w = NULL => D = {} /\ h.list = << >>
           /\ w # NULL => w \in D /\ \A d \in D : d <= w
<1> DEFINE l == h.list
           w == all_list_end(h)
<1>1. /\ Len(l) \in Nat /\ D \subseteq 0..HeapLimit
      /\ \A j \in 1..Len(l) : l[j] \in D /\ l[j] \in Nat
      /\ \A d \in D : \E j \in 1..Len(l) : l[j] = d
      /\ \A j, k \in 1..Len(l) : j < k => l[j] < l[k]
  BY ListedIs
<1>2. w = IF l = << >> THEN NULL ELSE l[Len(l)]
  BY DEF all_list_end, Last
<1>3. l \in Seq(0..HeapLimit)
  BY DEF Listed
<1> HIDE DEF l, w
<1>4. CASE l = << >>
  <2>1. Len(l) = 0
    BY <1>4
  <2>2. D = {}
    BY <1>1, <2>1
  <2> QED
    BY <1>2, <1>4, <2>2 DEF l, w
<1>5. CASE l # << >>
  <2>1. Len(l) # 0
    BY <1>3, <1>5, EmptySeq
  <2>2. Len(l) \in 1..Len(l)
    BY <1>1, <2>1
  <2>3. w = l[Len(l)] /\ w \in D /\ w \in Nat
    BY <1>1, <1>2, <1>5, <2>2
  <2>4. w # NULL
    BY <2>3 DEF NULL
  <2>5. ASSUME NEW d \in D PROVE d <= w
    <3>1. PICK j \in 1..Len(l) : l[j] = d
      BY <1>1
    <3>2. j < Len(l) \/ j = Len(l)
      BY <1>1
    <3> QED
      BY <1>1, <2>2, <2>3, <3>1, <3>2
  <2> QED
    BY <2>3, <2>4, <2>5 DEF w
<1> QED
  BY <1>4, <1>5

\* A new block goes into the list behind the one in front of it.
LEMMA InsertListed ==
    ASSUME NEW h, NEW D, Listed(h.list, D), NEW prev, NEW e \in 0..HeapLimit, e \notin D,
           prev = NULL => D = {},
           prev # NULL => prev \in D /\ prev < e /\ \A d \in D : prev < d => e < d
    PROVE  Listed(InsertAt(h.list, IF prev = NULL THEN 1 ELSE IndexOf(h, prev) + 1, e), D \cup {e})
<1> DEFINE l == h.list
           k == IF prev = NULL THEN 0 ELSE IndexOf(h, prev)
           K == IF prev = NULL THEN 1 ELSE IndexOf(h, prev) + 1
<1>1. /\ Len(l) \in Nat /\ D \subseteq 0..HeapLimit
      /\ \A j \in 1..Len(l) : l[j] \in D /\ l[j] \in Nat
      /\ \A d \in D : \E j \in 1..Len(l) : l[j] = d
      /\ \A i, j \in 1..Len(l) : i < j => l[i] < l[j]
  BY ListedIs
<1>2. l \in Seq(0..HeapLimit) /\ Ordered(l, D, Address)
  BY DEF Listed
<1>3. /\ k \in 0..Len(l) /\ K = k + 1 /\ \A j \in 1..k : l[j] <= e
      /\ \A j \in (k + 1)..Len(l) : e <= l[j]
  <2>1. CASE prev = NULL
    <3>1. Len(l) = 0
      BY <1>1, <2>1
    <3>2. k = 0 /\ K = 1
      BY <2>1
    <3> QED
      BY <3>1, <3>2
  <2>2. CASE prev # NULL
    <3>1. k = IndexOf(h, prev) /\ K = k + 1
      BY <2>2
    <3>2. k \in 1..Len(l) /\ l[k] = prev
      BY <2>2, <3>1, IndexOfIs
    <3> HIDE DEF k, K, l
    <3>3. ASSUME NEW j \in 1..k PROVE l[j] <= e
      <4>1. j \in 1..Len(l) /\ (j < k \/ j = k)
        BY <1>1, <3>2
      <4>2. l[j] \in Nat /\ prev \in Nat /\ e \in Nat /\ prev < e
        BY <1>1, <2>2, <3>2, <4>1, LayoutAssumption
      <4> QED
        BY <1>1, <3>2, <4>1, <4>2
    <3>4. ASSUME NEW j \in (k + 1)..Len(l) PROVE e <= l[j]
      <4>1. j \in 1..Len(l) /\ k < j
        BY <1>1, <3>2
      <4>2. prev < l[j] /\ l[j] \in D
        BY <1>1, <3>2, <4>1
      <4>3. e < l[j] /\ l[j] \in Nat /\ e \in Nat
        BY <1>1, <2>2, <4>1, <4>2, LayoutAssumption
      <4> QED
        BY <4>3
    <3> QED
      BY <1>1, <3>1, <3>2, <3>3, <3>4
  <2> QED
    BY <2>1, <2>2
<1> HIDE DEF k, l
<1>4. \A d \in 0..HeapLimit : Address[d] = d
  BY DEF Address
<1>5. /\ \A j \in 1..k : Address[l[j]] <= Address[e]
      /\ \A j \in (k + 1)..Len(l) : Address[e] <= Address[l[j]]
  <2>1. \A j \in 1..k : j \in 1..Len(l)
    BY <1>1, <1>3
  <2>2. \A j \in (k + 1)..Len(l) : j \in 1..Len(l)
    BY <1>1, <1>3
  <2>3. \A j \in 1..Len(l) : Address[l[j]] = l[j]
    BY <1>1, <1>4
  <2> QED
    BY <1>3, <1>4, <2>1, <2>2, <2>3
<1>6. InsertAt(l, k + 1, e) \in Seq(0..HeapLimit) /\ Ordered(InsertAt(l, k + 1, e), D \cup {e}, Address)
  BY <1>2, <1>3, <1>5, InsertOrdered
<1>7. D \cup {e} \subseteq 0..HeapLimit
  BY <1>1
<1> QED
  BY <1>3, <1>6, <1>7 DEF Listed, l

\* A block that is gone leaves the list as it is otherwise.
LEMMA RemoveListed ==
    ASSUME NEW l, NEW D, Listed(l, D), NEW e
    PROVE  Listed(RemoveFirst(l, e), D \ {e})
<1>1. l \in Seq(0..HeapLimit) /\ Ordered(l, D, Address) /\ D \subseteq 0..HeapLimit
  BY DEF Listed
<1>2. RemoveFirst(l, e) \in Seq(0..HeapLimit) /\ Ordered(RemoveFirst(l, e), D \ {e}, Address)
  BY <1>1, RemoveOrdered
<1> QED
  BY <1>1, <1>2 DEF Listed

----------------------------------------------------------------------------
\* The place of a block in its bin is behind the smaller ones and before the larger ones.
LEMMA AheadIs ==
    ASSUME NEW h, IsMeta(h.meta), NEW q \in Seq(0..HeapLimit), NEW T \in SUBSET DOMAIN h.meta,
           Ordered(q, T, SizesOf(h.meta)), NEW b \in DOMAIN h.meta
    PROVE  LET k == Ahead(h, q, b) IN
           /\ k \in 0..Len(q)
           /\ \A j \in 1..k : SizesOf(h.meta)[q[j]] <= SizesOf(h.meta)[b]
           /\ \A j \in (k + 1)..Len(q) : SizesOf(h.meta)[b] <= SizesOf(h.meta)[q[j]]
<1> DEFINE z == SizesOf(h.meta)
           L == Len(q)
           k == Ahead(h, q, b)
           B == {n \in 0..L : n < L => z[q[n + 1]] > z[b]}
<1>1. \A c \in DOMAIN h.meta : z[c] \in Nat /\ Size(h, c) = z[c]
  BY MetaIs DEF SizesOf, Size
<1>2. L \in Nat /\ \A j \in 1..L : q[j] \in T
  BY LenProperties DEF Ordered
<1>3. \A i, j \in 1..L : i < j => z[q[i]] <= z[q[j]]
  BY DEF Ordered
<1>4. \A j \in 1..L : q[j] \in DOMAIN h.meta /\ z[q[j]] \in Nat /\ Size(h, q[j]) = z[q[j]]
  BY <1>1, <1>2
<1>5. z[b] \in Nat /\ Size(h, b) = z[b]
  BY <1>1
<1> HIDE DEF z, L
<1>6. B \in SUBSET Nat /\ L \in B
  BY <1>2
<1>7. PICK n \in B : \A y \in B : n <= y
  BY <1>6, LeastNumber
<1>8. n \in 0..L /\ (n < L => z[q[n + 1]] > z[b])
  OBVIOUS
<1>9. ASSUME NEW j \in 1..n PROVE z[q[j]] <= z[b]
  <2>1. j - 1 \in 0..L /\ j - 1 < L /\ (j - 1) + 1 = j /\ ~(n <= j - 1) /\ j \in 1..L
    BY <1>2, <1>8
  <2>2. j - 1 \notin B
    BY <1>7, <2>1
  <2>3. ~(z[q[j]] > z[b])
    BY <2>1, <2>2
  <2> QED
    BY <1>4, <1>5, <2>1, <2>3
<1> HIDE DEF B, k
<1>10. \E x \in 0..Len(q) : /\ \A j \in 1..x : Size(h, q[j]) <= Size(h, b)
                            /\ x < Len(q) => Size(h, q[x + 1]) > Size(h, b)
  <2>1. \A j \in 1..n : j \in 1..L
    BY <1>2, <1>8
  <2>2. \A j \in 1..n : Size(h, q[j]) <= Size(h, b)
    BY <1>4, <1>5, <1>9, <2>1
  <2>3. n < L => n + 1 \in 1..L
    BY <1>2, <1>8
  <2>4. n < L => Size(h, q[n + 1]) > Size(h, b)
    BY <1>4, <1>5, <1>8, <2>3
  <2> QED
    BY <1>8, <2>2, <2>4 DEF L
<1>11. /\ k \in 0..L /\ \A j \in 1..k : Size(h, q[j]) <= Size(h, b)
       /\ k < L => Size(h, q[k + 1]) > Size(h, b)
  BY <1>10 DEF Ahead, k, L
<1>12. ASSUME NEW j \in 1..k PROVE z[q[j]] <= z[b]
  <2>1. j \in 1..L
    BY <1>2, <1>11
  <2> QED
    BY <1>4, <1>5, <1>11, <2>1
<1>13. ASSUME NEW j \in (k + 1)..L PROVE z[b] <= z[q[j]]
  <2>1. k < L /\ k + 1 \in 1..L /\ j \in 1..L /\ (k + 1 < j \/ k + 1 = j)
    BY <1>2, <1>11
  <2>2. z[q[k + 1]] > z[b]
    BY <1>4, <1>5, <1>11, <2>1
  <2>3. z[q[k + 1]] <= z[q[j]] /\ z[q[k + 1]] \in Nat /\ z[q[j]] \in Nat
    BY <1>3, <1>4, <2>1
  <2> QED
    BY <1>5, <2>2, <2>3
<1> QED
  BY <1>11, <1>12, <1>13 DEF z, L, k

\* add_node_histo puts one more block into the histogram.
LEMMA HistoAdd ==
    ASSUME NEW h, IsHeap(h), IsMeta(h.meta), NEW S \in SUBSET DOMAIN h.meta,
           Histo(h.histo, h.meta, S), NEW b \in DOMAIN h.meta, b \notin S,
           h.meta[b].size < MMAP_SIZE
    PROVE  LET r == add_node_histo(h, b) IN
           r.broken = h.broken /\ Histo(r.histo, h.meta, S \cup {b})
<1> DEFINE r == add_node_histo(h, b)
           i == BinOf(h, b)
           q == h.histo
           z == SizesOf(h.meta)
           e == InsertAt(q[i], Ahead(h, q[i], b) + 1, b)
<1>1. i = h.meta[b].size \div BIN /\ i \in Nat /\ i < NBINS /\ ~(i >= NBINS) /\ i \in 0..(NBINS - 1)
  <2>1. h.meta[b].size \in Nat
    BY MetaIs
  <2>2. i = h.meta[b].size \div BIN
    BY DEF BinOf, Size
  <2> HIDE DEF i
  <2> QED
    BY <2>1, <2>2, BinIs, BinAssumption
<1> HIDE DEF i
<1>2. r.broken = h.broken /\ r.histo = [q EXCEPT ![i] = InsertAt(@, Ahead(h, @, b) + 1, b)]
  BY <1>1, HistoAddIs DEF i
<1>3. /\ q = [j \in 0..(NBINS - 1) |-> q[j]]
      /\ \A j \in 0..(NBINS - 1) : q[j] \in Seq(0..HeapLimit) /\ Ordered(q[j], InBin(h.meta, S, j), z)
  BY DEF Histo
<1> HIDE DEF q, r, z
<1>4. r.histo = [j \in 0..(NBINS - 1) |-> IF j = i THEN e ELSE q[j]]
  BY <1>1, <1>2, <1>3
<1>5. InBin(h.meta, S \cup {b}, i) = InBin(h.meta, S, i) \cup {b} /\ b \notin InBin(h.meta, S, i)
  BY <1>1 DEF InBin
<1>6. \A j \in 0..(NBINS - 1) : j # i => InBin(h.meta, S \cup {b}, j) = InBin(h.meta, S, j)
  BY <1>1 DEF InBin
<1>7. e \in Seq(0..HeapLimit) /\ Ordered(e, InBin(h.meta, S \cup {b}, i), z)
  <2> DEFINE s == q[i]
             T == InBin(h.meta, S, i)
             k == Ahead(h, s, b)
  <2>1. s \in Seq(0..HeapLimit) /\ Ordered(s, T, z) /\ T \in SUBSET DOMAIN h.meta /\ b \in 0..HeapLimit
    BY <1>1, <1>3, MetaIs DEF InBin
  <2>2. b \notin T
    BY <1>5
  <2> HIDE DEF s, T
  <2>3. /\ k \in 0..Len(s) /\ \A j \in 1..k : z[s[j]] <= z[b]
        /\ \A j \in (k + 1)..Len(s) : z[b] <= z[s[j]]
    BY <2>1, AheadIs DEF z
  <2> HIDE DEF k
  <2>4. InsertAt(s, k + 1, b) \in Seq(0..HeapLimit) /\ Ordered(InsertAt(s, k + 1, b), T \cup {b}, z)
    BY <2>1, <2>2, <2>3, InsertOrdered
  <2> QED
    BY <1>5, <2>4 DEF s, T, k
<1> HIDE DEF e
<1>8. Histo(r.histo, h.meta, S \cup {b})
  <2> DEFINE p == r.histo
  <2>1. p = [j \in 0..(NBINS - 1) |-> IF j = i THEN e ELSE q[j]]
    BY <1>4
  <2> HIDE DEF p
  <2>2. p = [j \in 0..(NBINS - 1) |-> p[j]]
    BY <2>1
  <2>3. ASSUME NEW j \in 0..(NBINS - 1)
        PROVE  p[j] \in Seq(0..HeapLimit) /\ Ordered(p[j], InBin(h.meta, S \cup {b}, j), z)
    <3>1. CASE j = i
      BY <1>7, <2>1, <3>1
    <3>2. CASE j # i
      BY <1>3, <1>6, <2>1, <3>2
    <3> QED
      BY <3>1, <3>2
  <2> QED
    BY <2>2, <2>3 DEF Histo, p, z
<1> QED
  BY <1>2, <1>8 DEF r

\* remove_node_histo takes a free block out of it.
LEMMA HistoRemove ==
    ASSUME NEW h, IsHeap(h), IsMeta(h.meta), NEW S \in SUBSET DOMAIN h.meta,
           Histo(h.histo, h.meta, S), NEW b \in DOMAIN h.meta, IsFree(h, b),
           h.meta[b].size < MMAP_SIZE
    PROVE  Histo(remove_node_histo(h, b).histo, h.meta, S \ {b})
<1> DEFINE r == remove_node_histo(h, b)
           i == BinOf(h, b)
           q == h.histo
           z == SizesOf(h.meta)
           e == RemoveFirst(q[i], b)
<1>1. i = h.meta[b].size \div BIN /\ i \in Nat /\ i < NBINS /\ ~(i >= NBINS) /\ i \in 0..(NBINS - 1)
  <2>1. h.meta[b].size \in Nat
    BY MetaIs
  <2>2. i = h.meta[b].size \div BIN
    BY DEF BinOf, Size
  <2> HIDE DEF i
  <2> QED
    BY <2>1, <2>2, BinIs, BinAssumption
<1> HIDE DEF i
<1>2. r.histo = [q EXCEPT ![i] = RemoveFirst(@, b)]
  BY <1>1, HistoRemoveIs DEF i
<1>3. /\ q = [j \in 0..(NBINS - 1) |-> q[j]]
      /\ \A j \in 0..(NBINS - 1) : q[j] \in Seq(0..HeapLimit) /\ Ordered(q[j], InBin(h.meta, S, j), z)
  BY DEF Histo
<1> HIDE DEF q, r, z
<1>4. r.histo = [j \in 0..(NBINS - 1) |-> IF j = i THEN e ELSE q[j]]
  BY <1>1, <1>2, <1>3
<1>5. InBin(h.meta, S \ {b}, i) = InBin(h.meta, S, i) \ {b}
  BY DEF InBin
<1>6. \A j \in 0..(NBINS - 1) : j # i => InBin(h.meta, S \ {b}, j) = InBin(h.meta, S, j)
  BY <1>1 DEF InBin
<1>7. e \in Seq(0..HeapLimit) /\ Ordered(e, InBin(h.meta, S \ {b}, i), z)
  <2> DEFINE s == q[i]
             T == InBin(h.meta, S, i)
  <2>1. s \in Seq(0..HeapLimit) /\ Ordered(s, T, z)
    BY <1>1, <1>3
  <2> HIDE DEF s, T
  <2>2. RemoveFirst(s, b) \in Seq(0..HeapLimit) /\ Ordered(RemoveFirst(s, b), T \ {b}, z)
    BY <2>1, RemoveOrdered
  <2> QED
    BY <1>5, <2>2 DEF s, T
<1> HIDE DEF e
<1> DEFINE p == r.histo
<1>8. p = [j \in 0..(NBINS - 1) |-> IF j = i THEN e ELSE q[j]]
  BY <1>4
<1> HIDE DEF p
<1>9. p = [j \in 0..(NBINS - 1) |-> p[j]]
  BY <1>8
<1>10. ASSUME NEW j \in 0..(NBINS - 1)
       PROVE  p[j] \in Seq(0..HeapLimit) /\ Ordered(p[j], InBin(h.meta, S \ {b}, j), z)
  <2>1. CASE j = i
    BY <1>7, <1>8, <2>1
  <2>2. CASE j # i
    BY <1>3, <1>6, <1>8, <2>2
  <2> QED
    BY <2>1, <2>2
<1> QED
  BY <1>9, <1>10 DEF Histo, p, r, z

\* The histogram depends only on the sizes of the blocks in it.
LEMMA HistoSame ==
    ASSUME NEW q, NEW m, NEW r, NEW S \in SUBSET DOMAIN m, S \subseteq DOMAIN r,
           \A b \in S : r[b].size = m[b].size, Histo(q, m, S)
    PROVE  Histo(q, r, S)
<1>1. ASSUME NEW i \in 0..(NBINS - 1)
      PROVE  q[i] \in Seq(0..HeapLimit) /\ Ordered(q[i], InBin(r, S, i), SizesOf(r))
  <2>1. q[i] \in Seq(0..HeapLimit) /\ Ordered(q[i], InBin(m, S, i), SizesOf(m))
    BY DEF Histo
  <2>2. InBin(r, S, i) = InBin(m, S, i) /\ InBin(m, S, i) \subseteq S
    BY DEF InBin
  <2>3. \A b \in S : SizesOf(r)[b] = SizesOf(m)[b]
    BY DEF SizesOf
  <2> QED
    BY <2>1, <2>2, <2>3 DEF Ordered
<1> QED
  BY <1>1 DEF Histo

----------------------------------------------------------------------------
\* What Core says of a heap, in the form that the proofs use.
LEMMA CoreIs ==
    ASSUME NEW h, Core(h)
    PROVE  /\ IsHeap(h) /\ IsMeta(h.meta) /\ Listed(h.list, DOMAIN h.meta)
           /\ h.brk \in Nat /\ h.num_of_metadatas \in Int /\ h.mmaped_blocks_num \in Nat
           /\ META \in Nat \ {0} /\ HeapLimit \in Nat /\ SPLIT_MIN \in Nat \ {0}
           /\ \A b \in DOMAIN h.meta : /\ h.meta[b].size \in Nat \ {0} /\ b \in Nat
                                       /\ h.meta[b].is_free \in BOOLEAN
                                       /\ b \in 0..HeapLimit /\ b # NULL
                                       /\ b + META + h.meta[b].size <= h.brk
           /\ \A b, c \in DOMAIN h.meta : b < c => b + META + h.meta[b].size <= c
<1>1. IsHeap(h) /\ IsMeta(h.meta) /\ Listed(h.list, DOMAIN h.meta) /\ h.num_of_metadatas \in Int
  BY DEF Core
<1>2. META \in Nat \ {0} /\ HeapLimit \in Nat /\ SPLIT_MIN \in Nat \ {0}
  BY LayoutAssumption
<1>3. /\ h.brk \in 0..HeapLimit
      /\ \A b \in DOMAIN h.meta : b + META + h.meta[b].size <= h.brk
      /\ \A b, c \in DOMAIN h.meta : b < c => b + META + h.meta[b].size <= c
  BY DEF Core, Layout
<1>4. h.mmaped_blocks_num \in Nat
  <2>1. DOMAIN h.maps \subseteq Maps /\ h.mmaped_blocks_num = Cardinality(DOMAIN h.maps)
    BY DEF Core, MapsOK
  <2>2. IsFiniteSet(Maps)
    BY LayoutAssumption, FS_Interval DEF Maps
  <2> QED
    BY <2>1, <2>2, FS_Subset, FS_CardinalityType
<1>5. \A b \in DOMAIN h.meta : /\ h.meta[b].size \in Nat \ {0} /\ b \in Nat /\ b \in 0..HeapLimit
                               /\ h.meta[b].is_free \in BOOLEAN /\ b # NULL
  BY <1>1, MetaIs
<1>6. h.brk \in Nat
  BY <1>2, <1>3
<1> QED
  BY <1>1, <1>2, <1>3, <1>4, <1>5, <1>6

\* The parts of Core that say something of the blocks, and that the rest is as before.
LEMMA CoreMade ==
    ASSUME NEW h, Core(h), NEW r, IsHeap(r), Outside(h, r), IsMeta(r.meta),
           Listed(r.list, DOMAIN r.meta), Layout(r.meta, r.brk, Align(h)),
           r.num_of_metadatas \in Int,
           Counted(r.meta, r.num_of_metadatas - h.mmaped_blocks_num, r.brk),
           r.broken \in {h.broken, "none", "index", "merged"}
    PROVE  Core(r)
<1>1. MapsOK(h) /\ h.version \in Versions /\ h.broken \in {"none", "index", "merged"}
  BY DEF Core
<1>2. /\ r.maps = h.maps /\ r.mmaped_blocks_num = h.mmaped_blocks_num
      /\ r.mmaped_bytes_num = h.mmaped_bytes_num /\ r.version = h.version
  BY DEF Outside
<1>3. Align(r) = Align(h)
  BY <1>2 DEF Align
<1>4. MapsOK(r)
  BY <1>1, <1>2 DEF MapsOK
<1>5. r.version \in Versions /\ r.broken \in {"none", "index", "merged"}
  BY <1>1, <1>2
<1> QED
  BY <1>2, <1>3, <1>4, <1>5 DEF Core

\* Other flags, and another histogram, are all the same to it.
LEMMA CoreFlags ==
    ASSUME NEW h, Core(h), NEW r, IsHeap(r), Outside(h, r), IsMeta(r.meta),
           r.list = h.list, r.num_of_metadatas = h.num_of_metadatas, r.brk = h.brk,
           r.broken \in {h.broken, "none", "index", "merged"},
           DOMAIN r.meta = DOMAIN h.meta, \A b \in DOMAIN h.meta : r.meta[b].size = h.meta[b].size
    PROVE  Core(r)
<1>1. Listed(r.list, DOMAIN r.meta) /\ Layout(r.meta, r.brk, Align(h))
  BY DEF Core, Layout
<1>2. Total(r.meta) = Total(h.meta)
  <2>1. SizesOf(r.meta) = SizesOf(h.meta)
    BY DEF SizesOf
  <2> QED
    BY <2>1 DEF Total
<1>3. Counted(r.meta, r.num_of_metadatas - h.mmaped_blocks_num, r.brk)
  BY <1>2 DEF Core, Counted
<1>4. r.num_of_metadatas \in Int
  BY DEF Core
<1> QED
  BY <1>1, <1>3, <1>4, CoreMade

\* What follows one after the other.
LEMMA SameUsedTrans ==
    ASSUME NEW m1, NEW m2, NEW m3, NEW P, NEW Q, SameUsed(m1, m2, P), SameUsed(m2, m3, Q)
    PROVE  SameUsed(m1, m3, P \cup Q)
  BY DEF SameUsed

LEMMA OutsideTrans ==
    ASSUME NEW f, NEW g, NEW h, Outside(f, g), Outside(g, h)
    PROVE  Outside(f, h) /\ Align(h) = Align(f)
  BY DEF Outside, Align

\* A block in use that becomes free, and goes into the histogram.
LEMMA FreedKeeps ==
    ASSUME NEW h, Core(h), Sound(h, FreeOf(h.meta)), NEW p \in UsedOf(h.meta)
    PROVE  LET r == add_node_histo(Place(h, p, TRUE, Size(h, p)), p) IN
           /\ Core(r) /\ Sound(r, FreeOf(r.meta)) /\ Outside(h, r)
           /\ r.list = h.list /\ r.brk = h.brk /\ (r.broken = "none" <=> h.broken = "none")
           /\ DOMAIN r.meta = DOMAIN h.meta /\ r.meta[p].is_free
           /\ r.meta[p].size = h.meta[p].size
           /\ \A c \in DOMAIN h.meta : c # p => r.meta[c] = h.meta[c]
<1> DEFINE n == Size(h, p)
           g == Place(h, p, TRUE, n)
           r == add_node_histo(g, p)
           S == FreeOf(h.meta)
<1>1. /\ IsHeap(h) /\ IsMeta(h.meta) /\ p \in DOMAIN h.meta /\ ~h.meta[p].is_free
      /\ n \in Nat \ {0} /\ p \in 0..HeapLimit /\ n = h.meta[p].size
  BY CoreIs DEF UsedOf, Size
<1> HIDE DEF n
<1>2. /\ IsHeap(g) /\ Outside(h, g) /\ IsMeta(g.meta) /\ DOMAIN g.meta = DOMAIN h.meta \cup {p}
      /\ g.meta[p].size = n /\ g.meta[p].is_free
      /\ \A c \in DOMAIN h.meta : c # p => g.meta[c] = h.meta[c]
      /\ g.list = h.list /\ g.histo = h.histo /\ g.num_of_metadatas = h.num_of_metadatas
      /\ g.brk = h.brk /\ g.broken = h.broken
  <2>1. Placed(h, g, p, TRUE, n)
    BY <1>1, PlaceDoes
  <2> HIDE DEF g
  <2> QED
    BY <2>1 DEF Placed
<1>3. /\ DOMAIN g.meta = DOMAIN h.meta /\ g.meta[p].is_free /\ g.meta[p].size = h.meta[p].size
      /\ \A c \in DOMAIN h.meta : g.meta[c].size = h.meta[c].size
  <2>1. DOMAIN h.meta \cup {p} = DOMAIN h.meta
    BY <1>1
  <2> QED
    BY <1>1, <1>2, <2>1
<1> HIDE DEF g
<1>4. /\ IsHeap(r) /\ Outside(g, r) /\ r.meta = g.meta /\ r.list = g.list
      /\ r.num_of_metadatas = g.num_of_metadatas /\ r.brk = g.brk
      /\ BinOf(g, p) >= NBINS => r.broken = "index"
      /\ ~(BinOf(g, p) >= NBINS) => r.broken = g.broken
  BY <1>2, HistoAddIs
<1> HIDE DEF r
<1>5. Outside(h, r)
  BY <1>2, <1>4, OutsideTrans
<1>6. Core(r)
  <2>1. \A c \in DOMAIN h.meta : r.meta[c].size = h.meta[c].size
    BY <1>3, <1>4
  <2>2. r.broken \in {h.broken, "none", "index", "merged"}
    BY <1>2, <1>4
  <2> QED
    BY <1>2, <1>3, <1>4, <1>5, <2>1, <2>2, CoreFlags
<1>7. FreeOf(r.meta) = S \cup {p} /\ p \notin S /\ S \in SUBSET DOMAIN h.meta
  BY <1>1, <1>2, <1>3, <1>4 DEF FreeOf
<1>8. h.broken = "none" => r.broken = "none" /\ Histo(r.histo, r.meta, S \cup {p})
  <2> SUFFICES ASSUME h.broken = "none"
               PROVE  r.broken = "none" /\ Histo(r.histo, r.meta, S \cup {p})
    OBVIOUS
  <2>1. Histo(h.histo, h.meta, S) /\ h.meta[p].size < MMAP_SIZE
    BY <1>1 DEF Sound
  <2> HIDE DEF S
  <2>2. Histo(g.histo, g.meta, S)
    <3>1. S \subseteq DOMAIN g.meta /\ \A b \in S : g.meta[b].size = h.meta[b].size
      BY <1>3, <1>7
    <3> QED
      BY <1>2, <1>7, <2>1, <3>1, HistoSame
  <2>3. S \in SUBSET DOMAIN g.meta /\ p \in DOMAIN g.meta /\ g.meta[p].size < MMAP_SIZE
    BY <1>1, <1>3, <1>7, <2>1
  <2> QED
    BY <1>2, <1>3, <1>4, <1>7, <2>2, <2>3, HistoAdd DEF r
<1>9. Sound(r, FreeOf(r.meta))
  <2>1. \A c \in DOMAIN r.meta : r.meta[c].size = h.meta[c].size
    BY <1>3, <1>4
  <2>2. r.broken = "none" => h.broken = "none"
    BY <1>2, <1>4
  <2>3. h.broken = "none" => \A c \in DOMAIN r.meta : r.meta[c].size < MMAP_SIZE
    BY <1>3, <1>4, <2>1 DEF Sound
  <2> QED
    BY <1>7, <1>8, <2>2, <2>3 DEF Sound
<1>10. r.broken = "none" <=> h.broken = "none"
  BY <1>2, <1>4, <1>8
<1> QED
  BY <1>2, <1>3, <1>4, <1>5, <1>6, <1>9, <1>10 DEF r, g, n

\* A block that is used from now on; malloc_3.cpp forgets to take a merged one out of the
\* histogram.
Taken(h, g, r, b) ==
    /\ Core(r) /\ Outside(h, r) /\ r.list = h.list /\ r.brk = h.brk /\ r.broken = h.broken
    /\ r.histo = g.histo
    /\ DOMAIN r.meta = DOMAIN h.meta /\ ~r.meta[b].is_free
    /\ r.meta[b].size = h.meta[b].size
    /\ \A c \in DOMAIN h.meta : c # b => r.meta[c] = h.meta[c]

LEMMA TakenCore ==
    ASSUME NEW h, Core(h), NEW b \in DOMAIN h.meta, NEW g, g \in {h, remove_node_histo(h, b)}
    PROVE  Taken(h, g, Place(g, b, FALSE, Size(h, b)), b)
<1> DEFINE n == Size(h, b)
           r == Place(g, b, FALSE, n)
<1>1. /\ IsHeap(h) /\ IsMeta(h.meta) /\ n \in Nat \ {0} /\ b \in 0..HeapLimit
      /\ n = h.meta[b].size
  BY CoreIs DEF Size
<1> HIDE DEF n
<1>2. /\ IsHeap(g) /\ Outside(h, g) /\ g.meta = h.meta /\ g.list = h.list
      /\ g.num_of_metadatas = h.num_of_metadatas /\ g.brk = h.brk /\ g.broken = h.broken
  <2>1. CASE g = h
    BY <1>1, <2>1 DEF Outside
  <2>2. CASE g = remove_node_histo(h, b)
    BY <1>1, <2>2, HistoRemoveIs
  <2> QED
    BY <2>1, <2>2
<1>3. Placed(g, r, b, FALSE, n)
  BY <1>1, <1>2, PlaceDoes
<1> HIDE DEF r
<1>4. /\ IsHeap(r) /\ Outside(g, r) /\ IsMeta(r.meta) /\ DOMAIN r.meta = DOMAIN h.meta \cup {b}
      /\ r.meta[b].size = n /\ ~r.meta[b].is_free
      /\ \A c \in DOMAIN h.meta : c # b => r.meta[c] = h.meta[c]
      /\ r.list = h.list /\ r.histo = g.histo /\ r.num_of_metadatas = h.num_of_metadatas
      /\ r.brk = h.brk /\ r.broken = h.broken
  BY <1>2, <1>3 DEF Placed
<1>5. DOMAIN r.meta = DOMAIN h.meta /\ \A c \in DOMAIN h.meta : r.meta[c].size = h.meta[c].size
  <2>1. DOMAIN h.meta \cup {b} = DOMAIN h.meta
    OBVIOUS
  <2> QED
    BY <1>1, <1>4, <2>1
<1>6. Outside(h, r)
  BY <1>2, <1>4, OutsideTrans
<1>7. Core(r)
  BY <1>4, <1>5, <1>6, CoreFlags
<1>8. Taken(h, g, r, b)
  BY <1>1, <1>4, <1>5, <1>6, <1>7 DEF Taken
<1> QED
  BY <1>8 DEF r, n

LEMMA TakenSound ==
    ASSUME NEW h, Core(h), Sound(h, FreeOf(h.meta)), NEW b \in FreeOf(h.meta)
    PROVE  LET r == Place(remove_node_histo(h, b), b, FALSE, Size(h, b)) IN
           Sound(r, FreeOf(r.meta))
<1> DEFINE g == remove_node_histo(h, b)
           r == Place(g, b, FALSE, Size(h, b))
           S == FreeOf(h.meta)
<1>1. b \in DOMAIN h.meta /\ h.meta[b].is_free /\ IsFree(h, b) /\ S \in SUBSET DOMAIN h.meta
  BY DEF FreeOf, IsFree
<1>taken. Taken(h, g, r, b)
  BY <1>1, TakenCore
<1> HIDE DEF g, r
<1>2. /\ r.broken = h.broken /\ r.histo = g.histo
      /\ DOMAIN r.meta = DOMAIN h.meta /\ ~r.meta[b].is_free
      /\ r.meta[b].size = h.meta[b].size
      /\ \A c \in DOMAIN h.meta : c # b => r.meta[c] = h.meta[c]
  BY <1>taken DEF Taken
<1>3. FreeOf(r.meta) = S \ {b}
  BY <1>1, <1>2 DEF FreeOf
<1>4. \A c \in DOMAIN h.meta : r.meta[c].size = h.meta[c].size
  BY <1>2
<1>5. ASSUME h.broken = "none" PROVE Histo(g.histo, h.meta, S \ {b})
  <2>1. Histo(h.histo, h.meta, S) /\ h.meta[b].size < MMAP_SIZE
    BY <1>1, <1>5 DEF Sound
  <2> HIDE DEF S
  <2> QED
    BY <1>1, <2>1, CoreIs, HistoRemove DEF g
<1>6. ASSUME h.broken = "none" PROVE Histo(r.histo, r.meta, S \ {b})
  <2>1. S \ {b} \in SUBSET DOMAIN h.meta /\ S \ {b} \subseteq DOMAIN r.meta
        /\ \A c \in S \ {b} : r.meta[c].size = h.meta[c].size
    BY <1>1, <1>2, <1>4
  <2> QED
    BY <1>2, <1>5, <1>6, <2>1, HistoSame
<1>7. ASSUME h.broken = "none" PROVE \A c \in DOMAIN r.meta : r.meta[c].size < MMAP_SIZE
  BY <1>2, <1>4, <1>7 DEF Sound
<1>8. Sound(r, FreeOf(r.meta))
  BY <1>2, <1>3, <1>6, <1>7 DEF Sound
<1> QED
  BY <1>8 DEF r, g

----------------------------------------------------------------------------
\* What a split does: b keeps n bytes and is used, what is left is a new free block.
Parted(h, r, b, n) ==
    LET new == b + META + n IN
    /\ Outside(h, r) /\ r.brk = h.brk
    /\ new \notin DOMAIN h.meta /\ DOMAIN r.meta = DOMAIN h.meta \cup {new}
    /\ r.meta[b].size = n /\ ~r.meta[b].is_free
    /\ r.meta[new].size = Rest(h.meta[b].size, n) /\ r.meta[new].is_free
    /\ \A c \in DOMAIN h.meta : c # b => r.meta[c] = h.meta[c]

\* The heap with the new block, and then with another histogram.
WithRest(h, b, n) == Place(h, b + META + n, TRUE, Rest(Size(h, b), n))
OtherHisto(h, b, n) == remove_node_histo(add_node_histo(WithRest(h, b, n), b + META + n), b)

\* The fields after the parts of split_block.
SplitFields(h, r, b, n) ==
    /\ b + META + n \in 0..HeapLimit /\ Rest(Size(h, b), n) \in Nat \ {0}
    /\ IsHeap(r) /\ IsMeta(r.meta) /\ Parted(h, r, b, n)
    /\ r.num_of_metadatas = h.num_of_metadatas + 1
    /\ r.list = InsertAt(h.list, IndexOf(h, b) + 1, b + META + n)
    /\ r.histo = OtherHisto(h, b, n).histo /\ r.broken = OtherHisto(h, b, n).broken
    /\ r.broken = h.broken \/ r.broken = "index"

LEMMA SplitIs ==
    ASSUME NEW h, Core(h), NEW b \in DOMAIN h.meta, NEW n \in Nat \ {0},
           LargeEnough(Size(h, b), n)
    PROVE  /\ SplitFields(h, split_block(h, b, n), b, n)
           /\ Placed(h, WithRest(h, b, n), b + META + n, TRUE, Rest(Size(h, b), n))
<1> DEFINE new == b + META + n
           rest == Rest(Size(h, b), n)
           h1 == Place(h, new, TRUE, rest)
           a == add_node_histo(h1, new)
           h2 == remove_node_histo(a, b)
           h3 == Place(h2, b, FALSE, n)
           h4 == add_node_list(h3, new, b)
           r == split_block(h, b, n)
<1>1. /\ IsHeap(h) /\ IsMeta(h.meta) /\ b \in 0..HeapLimit /\ b # NULL /\ b \in Nat
      /\ h.meta[b].size \in Nat /\ META \in Nat \ {0} /\ SPLIT_MIN \in Nat \ {0}
      /\ HeapLimit \in Nat /\ b + META + h.meta[b].size <= h.brk /\ h.brk \in 0..HeapLimit
      /\ \A c \in DOMAIN h.meta : c \in Nat
      /\ \A c, d \in DOMAIN h.meta : c < d => c + META + h.meta[c].size <= d
  BY CoreIs DEF Core, Layout
<1>2. Size(h, b) = h.meta[b].size
  BY DEF Size
<1>3. new \in 0..HeapLimit /\ rest \in Nat \ {0} /\ b < new /\ new + META + rest = b + META + h.meta[b].size
  BY <1>1, <1>2 DEF LargeEnough, Rest
<1>4. new \notin DOMAIN h.meta
  <2> SUFFICES ASSUME new \in DOMAIN h.meta PROVE FALSE
    OBVIOUS
  <2>1. b + META + h.meta[b].size <= new
    BY <1>1, <1>3
  <2> HIDE DEF new, rest
  <2> QED
    BY <1>1, <1>3, <2>1
<1>5. r = [h4 EXCEPT !.num_of_metadatas = @ + 1]
  BY Zenon DEF split_block
<1> HIDE DEF rest, r
<1>6. Placed(h, h1, new, TRUE, rest)
  <2> HIDE DEF new
  <2> QED
    BY <1>1, <1>3, PlaceDoes
<1> HIDE DEF h1, new
<1>7. /\ IsHeap(h1) /\ Outside(h, h1) /\ IsMeta(h1.meta) /\ DOMAIN h1.meta = DOMAIN h.meta \cup {new}
      /\ h1.meta[new].size = rest /\ h1.meta[new].is_free
      /\ \A c \in DOMAIN h.meta : c # new => h1.meta[c] = h.meta[c]
      /\ h1.list = h.list /\ h1.num_of_metadatas = h.num_of_metadatas
      /\ h1.brk = h.brk /\ h1.broken = h.broken
  BY <1>6 DEF Placed
<1>8. /\ IsHeap(a) /\ Outside(h1, a) /\ a.meta = h1.meta /\ a.list = h1.list
      /\ a.num_of_metadatas = h1.num_of_metadatas /\ a.brk = h1.brk
      /\ a.broken = h1.broken \/ a.broken = "index"
  BY <1>7, HistoAddIs
<1> HIDE DEF a
<1>9. /\ IsHeap(h2) /\ Outside(a, h2) /\ h2.meta = a.meta /\ h2.list = a.list
      /\ h2.num_of_metadatas = a.num_of_metadatas /\ h2.brk = a.brk /\ h2.broken = a.broken
  BY <1>8, HistoRemoveIs
<1> HIDE DEF h2
<1>10. Placed(h2, h3, b, FALSE, n)
  BY <1>1, <1>7, <1>8, <1>9, PlaceDoes
<1> HIDE DEF h3
<1>11. /\ IsHeap(h3) /\ Outside(h2, h3) /\ IsMeta(h3.meta) /\ DOMAIN h3.meta = DOMAIN h2.meta \cup {b}
       /\ h3.meta[b].size = n /\ ~h3.meta[b].is_free
       /\ \A c \in DOMAIN h2.meta : c # b => h3.meta[c] = h2.meta[c]
       /\ h3.list = h2.list /\ h3.histo = h2.histo /\ h3.num_of_metadatas = h2.num_of_metadatas
       /\ h3.brk = h2.brk /\ h3.broken = h2.broken
  BY <1>10 DEF Placed
<1>12. /\ IsHeap(h4) /\ Outside(h3, h4) /\ h4.meta = h3.meta
       /\ h4.list = InsertAt(h3.list, IndexOf(h3, b) + 1, new)
       /\ h4.histo = h3.histo /\ h4.num_of_metadatas = h3.num_of_metadatas
       /\ h4.brk = h3.brk /\ h4.broken = h3.broken
  BY <1>1, <1>11, ListAddIs
<1> HIDE DEF h4
<1>13. /\ IsHeap(r) /\ Outside(h4, r) /\ r.meta = h4.meta /\ r.list = h4.list /\ r.histo = h4.histo
       /\ r.num_of_metadatas = h4.num_of_metadatas + 1 /\ r.brk = h4.brk /\ r.broken = h4.broken
  BY <1>5, <1>12 DEF IsHeap, Fields, Outside
<1>14. IndexOf(h3, b) = IndexOf(h, b)
  BY <1>7, <1>8, <1>9, <1>11 DEF IndexOf
<1>15. Outside(h, r)
  BY <1>7, <1>8, <1>9, <1>11, <1>12, <1>13 DEF Outside
<1>16. DOMAIN r.meta = DOMAIN h.meta \cup {new}
  BY <1>7, <1>8, <1>9, <1>11, <1>12, <1>13
<1>17. /\ r.meta[b].size = n /\ ~r.meta[b].is_free
       /\ r.meta[new].size = rest /\ r.meta[new].is_free
       /\ \A c \in DOMAIN h.meta : c # b => r.meta[c] = h.meta[c]
  <2>1. new \in DOMAIN h2.meta /\ new # b /\ b \in DOMAIN h.meta
    BY <1>4, <1>7, <1>8, <1>9
  <2>2. ASSUME NEW c \in DOMAIN h.meta, c # b PROVE r.meta[c] = h.meta[c]
    <3>1. c # new /\ c \in DOMAIN h2.meta
      BY <1>4, <1>7, <1>8, <1>9
    <3> QED
      BY <1>7, <1>8, <1>9, <1>11, <1>12, <1>13, <2>2, <3>1
  <2> QED
    BY <1>7, <1>8, <1>9, <1>11, <1>12, <1>13, <2>1, <2>2
<1>18. Parted(h, r, b, n)
  BY <1>2, <1>4, <1>7, <1>8, <1>9, <1>11, <1>12, <1>13, <1>15, <1>16, <1>17 DEF Parted, new, rest
<1>19. /\ r.num_of_metadatas = h.num_of_metadatas + 1
       /\ r.list = InsertAt(h.list, IndexOf(h, b) + 1, new)
       /\ r.histo = h2.histo /\ r.broken = h2.broken
       /\ r.broken = h.broken \/ r.broken = "index"
  BY <1>7, <1>8, <1>9, <1>11, <1>12, <1>13, <1>14
<1>20. IsMeta(r.meta)
  BY <1>11, <1>12, <1>13
<1> QED
  BY <1>3, <1>6, <1>13, <1>18, <1>19, <1>20
     DEF SplitFields, OtherHisto, WithRest, r, h2, a, h1, new, rest

\* The blocks do not overlap after a split, and no byte is lost.
LEMMA SplitCore ==
    ASSUME NEW h, Core(h), NEW b \in DOMAIN h.meta, NEW n \in Nat \ {0}, n % Align(h) = 0,
           LargeEnough(Size(h, b), n)
    PROVE  LET r == split_block(h, b, n) IN
           Core(r) /\ Parted(h, r, b, n) /\ (r.broken = h.broken \/ r.broken = "index")
<1> DEFINE new == b + META + n
           m == h.meta
           z == m[b].size
           rest == Rest(z, n)
           r == split_block(h, b, n)
           s == r.meta
           al == Align(h)
<1>1. /\ new \in 0..HeapLimit /\ rest \in Nat \ {0}
      /\ IsHeap(r) /\ IsMeta(s) /\ Parted(h, r, b, n)
      /\ r.num_of_metadatas = h.num_of_metadatas + 1
      /\ r.list = InsertAt(h.list, IndexOf(h, b) + 1, new)
      /\ r.broken = h.broken \/ r.broken = "index"
  <2>1. SplitFields(h, r, b, n)
    BY SplitIs
  <2> HIDE DEF r
  <2> QED
    BY <2>1 DEF SplitFields, Size
<1>2. /\ IsMeta(m) /\ Listed(h.list, DOMAIN m) /\ b \in DOMAIN m
      /\ b \in Nat /\ b # NULL /\ z \in Nat /\ META \in Nat \ {0} /\ HeapLimit \in Nat
      /\ h.brk \in Nat /\ h.num_of_metadatas \in Int /\ h.mmaped_blocks_num \in Nat
      /\ \A c \in DOMAIN m : /\ m[c].size \in Nat /\ c \in Nat
                             /\ c + META + m[c].size <= h.brk
      /\ \A c, d \in DOMAIN m : c < d => c + META + m[c].size <= d
  BY CoreIs
<1>3. rest = z - n - META /\ new + META + rest = b + META + z /\ b < new
  BY <1>1, <1>2 DEF Rest
<1> HIDE DEF r
<1>4. /\ Outside(h, r) /\ r.brk = h.brk
      /\ new \notin DOMAIN m /\ DOMAIN s = DOMAIN m \cup {new}
      /\ s[b].size = n /\ s[new].size = rest
      /\ \A c \in DOMAIN m : c # b => s[c] = m[c]
  BY <1>1 DEF Parted
<1> HIDE DEF m, s
<1>5. ASSUME NEW d \in DOMAIN m, b < d PROVE new + META + rest <= d /\ new < d
  <2>1. b + META + z <= d /\ d \in Nat
    BY <1>2, <1>5
  <2> QED
    BY <1>1, <1>2, <1>3, <2>1
<1>6. Listed(r.list, DOMAIN s)
  <2>1. \A d \in DOMAIN m : b < d => new < d
    BY <1>5
  <2>2. Listed(InsertAt(h.list, IF b = NULL THEN 1 ELSE IndexOf(h, b) + 1, new), DOMAIN m \cup {new})
    <3> HIDE DEF new
    <3> QED
      BY <1>1, <1>2, <1>3, <1>4, <2>1, InsertListed DEF m
  <2> QED
    BY <1>1, <1>2, <1>4, <2>2
<1>7. Layout(s, r.brk, al)
  <2>1. /\ h.brk \in 0..HeapLimit /\ h.brk % al = 0
        /\ \A c \in DOMAIN m : c % al = 0 /\ m[c].size % al = 0
    BY DEF Core, Layout, m
  <2>2. new % al = 0 /\ rest % al = 0 /\ n % al = 0
    <3>1. al \in Nat \ {0} /\ META % al = 0 /\ n % al = 0 /\ b % al = 0 /\ z % al = 0
      BY <2>1, AlignIs DEF m
    <3> HIDE DEF al, z
    <3>2. b \in Int /\ META \in Int /\ z \in Int /\ n \in Int /\ b + META \in Int /\ z - n \in Int
      BY <1>2
    <3>3. (b + META) % al = 0 /\ (z - n) % al = 0
      BY <3>1, <3>2, AlignedSum, Zenon
    <3>4. (b + META + n) % al = 0 /\ (z - n - META) % al = 0
      BY <3>1, <3>2, <3>3, AlignedSum, Zenon
    <3> QED
      BY <1>3, <3>1, <3>4
  <2> HIDE DEF new, rest, al, z
  <2>3. ASSUME NEW c \in DOMAIN s
        PROVE  c + META + s[c].size <= h.brk /\ c % al = 0 /\ s[c].size % al = 0
    <3>1. CASE c = b
      <4>1. b + META + n <= h.brk
        BY <1>1, <1>2, <1>3 DEF new, z, m
      <4> QED
        BY <1>2, <1>4, <2>1, <2>2, <3>1, <4>1
    <3>2. CASE c = new
      BY <1>2, <1>3, <1>4, <2>2, <3>2 DEF z
    <3>3. CASE c \in DOMAIN m /\ c # b
      BY <1>2, <1>4, <2>1, <3>3
    <3> QED
      BY <1>4, <3>1, <3>2, <3>3
  <2>4. ASSUME NEW c \in DOMAIN s, NEW d \in DOMAIN s, c < d
        PROVE  c + META + s[c].size <= d
    <3>0. new \in Nat /\ rest \in Nat
      BY <1>1
    <3>1. CASE c = b
      <4>1. d = new \/ (d \in DOMAIN m /\ b < d)
        BY <1>4, <2>4, <3>1
      <4>2. b + META + n <= d
        BY <1>2, <1>5, <3>0, <4>1 DEF new
      <4> QED
        BY <1>4, <3>1, <4>2
    <3>2. CASE c = new
      <4>1. d \in DOMAIN m /\ d # new
        BY <1>2, <1>4, <2>4, <3>0, <3>2
      <4>2. b < d
        BY <1>2, <1>3, <2>4, <3>0, <3>2, <4>1
      <4> QED
        BY <1>4, <1>5, <3>2, <4>1, <4>2
    <3>3. CASE c \in DOMAIN m /\ c # b
      <4>1. s[c].size = m[c].size /\ c + META + m[c].size \in Nat
        BY <1>2, <1>4, <3>3
      <4>2. CASE d \in DOMAIN m
        BY <1>2, <2>4, <3>3, <4>1, <4>2
      <4>3. CASE d = new
        <5>1. c < b
          <6>1. ~(b < c)
            BY <1>2, <1>5, <2>4, <3>0, <3>3, <4>3
          <6> QED
            BY <1>2, <3>3, <6>1
        <5>2. c + META + m[c].size <= b
          BY <1>2, <3>3, <5>1
        <5> QED
          BY <1>2, <1>3, <3>0, <4>1, <4>3, <5>2
      <4> QED
        BY <1>4, <4>2, <4>3
    <3> QED
      BY <1>4, <3>1, <3>2, <3>3
  <2> QED
    BY <1>4, <2>1, <2>3, <2>4 DEF Layout
<1>8. /\ Total(s) = Total(m) - META /\ Cardinality(DOMAIN s) = Cardinality(DOMAIN m) + 1
      /\ Total(m) \in Nat /\ Cardinality(DOMAIN m) \in Nat
  <2>1. PICK w : /\ IsMeta(w) /\ DOMAIN w = DOMAIN m /\ w[b].size = n
                 /\ \A c \in DOMAIN m : c # b => w[c] = m[c]
    BY <1>2, Resized
  <2>2. DOMAIN w = DOMAIN m /\ b \in DOMAIN m
    BY <2>1 DEF m
  <2>3. \A c \in DOMAIN m : c # b => w[c].size = m[c].size
    BY <2>1
  <2>4. Total(w) = Total(m) - z + n
    BY <1>2, <2>1, <2>2, <2>3, CoreIs, TotalWithout DEF z, m
  <2>5. \A c \in DOMAIN w : c # new => s[c].size = w[c].size
    BY <1>4, <2>1, <2>2
  <2>6. Total(s) = Total(w) + rest /\ Cardinality(DOMAIN s) = Cardinality(DOMAIN w) + 1
    <3> HIDE DEF new, rest
    <3>1. DOMAIN s = DOMAIN w \cup {new} /\ new \notin DOMAIN w
      BY <1>4, <2>2
    <3> QED
      BY <1>1, <1>4, <2>1, <2>5, <3>1, TotalWithout
  <2>7. Total(m) \in Nat /\ Cardinality(DOMAIN m) \in Nat
    BY <1>2, MetaIs
  <2> HIDE DEF rest, z
  <2> QED
    BY <1>2, <1>3, <2>2, <2>4, <2>6, <2>7
<1>9. Counted(s, r.num_of_metadatas - h.mmaped_blocks_num, r.brk)
  <2> DEFINE k == h.num_of_metadatas - h.mmaped_blocks_num
             j == r.num_of_metadatas - h.mmaped_blocks_num
  <2>1. k \in Int /\ k >= Cardinality(DOMAIN m) /\ Total(m) + META * k = h.brk
    BY <1>2 DEF Core, Counted, m
  <2>2. j = k + 1
    BY <1>1, <1>2
  <2> HIDE DEF k, j
  <2>3. META * (k + 1) = META * k + META /\ META * k \in Int
    BY <1>2, <2>1
  <2>4. j \in Int /\ j >= Cardinality(DOMAIN s) /\ Total(s) + META * j = h.brk
    BY <1>2, <1>8, <2>1, <2>2, <2>3
  <2> QED
    BY <1>4, <2>4 DEF Counted, j
<1>10. r.num_of_metadatas \in Int
  BY <1>1, <1>2
<1>11. Core(r)
  BY <1>1, <1>4, <1>6, <1>7, <1>9, <1>10, CoreMade DEF s
<1> QED
  BY <1>1, <1>11 DEF r

\* The new block is in the histogram, and b is no more.
LEMMA SplitSound ==
    ASSUME NEW h, Core(h), NEW b \in DOMAIN h.meta, NEW n \in Nat \ {0}, n % Align(h) = 0,
           LargeEnough(Size(h, b), n), Sound(h, FreeOf(h.meta))
    PROVE  LET r == split_block(h, b, n) IN
           Sound(r, FreeOf(r.meta)) /\ (h.broken = "none" => r.broken = "none")
<1> DEFINE new == b + META + n
           rest == Rest(Size(h, b), n)
           h1 == WithRest(h, b, n)
           a == add_node_histo(h1, new)
           h2 == remove_node_histo(a, b)
           r == split_block(h, b, n)
           S == FreeOf(h.meta)
<1>1. /\ new \in 0..HeapLimit /\ rest \in Nat \ {0} /\ Placed(h, h1, new, TRUE, rest)
      /\ IsHeap(r) /\ IsMeta(r.meta) /\ Parted(h, r, b, n)
      /\ r.histo = h2.histo /\ r.broken = h2.broken
      /\ r.broken = h.broken \/ r.broken = "index"
  <2>1. SplitFields(h, r, b, n) /\ Placed(h, h1, new, TRUE, rest)
    BY SplitIs
  <2> HIDE DEF r
  <2> QED
    BY <2>1 DEF SplitFields, OtherHisto
<1>2. /\ IsHeap(h) /\ IsMeta(h.meta) /\ META \in Nat \ {0} /\ Size(h, b) = h.meta[b].size
      /\ h.meta[b].size \in Nat /\ b \in Nat /\ BIN \in Nat \ {0} /\ MMAP_SIZE \in Nat
      /\ h.meta[b].is_free \in BOOLEAN
  BY CoreIs, BinAssumption DEF Size
<1>3. rest < h.meta[b].size /\ n < h.meta[b].size /\ b # new
  BY <1>1, <1>2 DEF Rest, LargeEnough
<1> HIDE DEF new, rest, r, h1
<1>4. /\ new \notin DOMAIN h.meta /\ DOMAIN r.meta = DOMAIN h.meta \cup {new}
      /\ r.meta[b].size = n /\ ~r.meta[b].is_free
      /\ r.meta[new].size = rest /\ r.meta[new].is_free
      /\ \A c \in DOMAIN h.meta : c # b => r.meta[c] = h.meta[c]
  BY <1>1, <1>2 DEF Parted, new, rest
<1>5. FreeOf(r.meta) = (S \cup {new}) \ {b} /\ S \in SUBSET DOMAIN h.meta
  BY <1>3, <1>4 DEF FreeOf
<1>6. CASE h.broken # "none"
  BY <1>1, <1>6 DEF Sound, r
<1>7. CASE h.broken = "none"
  <2>1. /\ Histo(h.histo, h.meta, S)
        /\ \A c \in DOMAIN h.meta : h.meta[c].size < MMAP_SIZE /\ h.meta[c].size \in Nat
    BY <1>2, <1>7, MetaIs DEF Sound
  <2>2. /\ IsHeap(h1) /\ IsMeta(h1.meta) /\ DOMAIN h1.meta = DOMAIN h.meta \cup {new}
        /\ h1.meta[new].size = rest /\ h1.meta[new].is_free
        /\ \A c \in DOMAIN h.meta : c # new => h1.meta[c] = h.meta[c]
        /\ h1.histo = h.histo /\ h1.broken = h.broken
    BY <1>1 DEF Placed
  <2> HIDE DEF S
  <2>3. \A c \in DOMAIN h.meta : h1.meta[c] = h.meta[c]
    BY <1>4, <2>2
  <2>4. Histo(h1.histo, h1.meta, S) /\ S \in SUBSET DOMAIN h1.meta /\ new \notin S
    <3>1. S \subseteq DOMAIN h1.meta /\ \A c \in S : h1.meta[c].size = h.meta[c].size
      BY <1>5, <2>2, <2>3
    <3>2. Histo(h.histo, h1.meta, S)
      BY <1>5, <2>1, <3>1, HistoSame
    <3> QED
      BY <1>4, <1>5, <2>2, <3>1, <3>2
  <2>5. rest < MMAP_SIZE /\ n < MMAP_SIZE
    BY <1>1, <1>2, <1>3, <2>1
  <2>6. a.broken = "none" /\ Histo(a.histo, h1.meta, S \cup {new})
    BY <1>7, <2>2, <2>4, <2>5, HistoAdd
  <2>7. IsHeap(a) /\ a.meta = h1.meta
    BY <2>2, HistoAddIs
  <2> HIDE DEF a
  <2>8. h2.broken = a.broken
    BY <2>7, HistoRemoveIs
  <2>9. Histo(h2.histo, h1.meta, (S \cup {new}) \ {b})
    <3>1. h1.meta[b] = h.meta[b] /\ b \in DOMAIN h1.meta
      BY <2>2, <2>3
    <3>2. CASE h.meta[b].is_free
      <4>1. IsFree(a, b) /\ a.meta[b].size < MMAP_SIZE /\ S \cup {new} \in SUBSET DOMAIN a.meta
        BY <2>1, <2>2, <2>4, <2>7, <3>1, <3>2 DEF IsFree
      <4> QED
        BY <2>2, <2>6, <2>7, <3>1, <4>1, HistoRemove
    <3>3. CASE ~h.meta[b].is_free
      <4>1. h2 = a
        <5>1. ~IsFree(a, b)
          BY <2>7, <3>1, <3>3 DEF IsFree
        <5> QED
          BY <5>1 DEF remove_node_histo
      <4>2. (S \cup {new}) \ {b} = S \cup {new}
        BY <1>3, <3>3 DEF S, FreeOf
      <4> QED
        BY <2>6, <4>1, <4>2
    <3> QED
      BY <3>2, <3>3
  <2> HIDE DEF h2
  <2>10. Histo(r.histo, r.meta, (S \cup {new}) \ {b})
    <3> DEFINE T == (S \cup {new}) \ {b}
    <3>1. /\ T \in SUBSET DOMAIN h1.meta /\ T \subseteq DOMAIN r.meta
          /\ \A c \in T : r.meta[c].size = h1.meta[c].size
      BY <1>4, <1>5, <2>2, <2>3
    <3> HIDE DEF T
    <3>2. Histo(h2.histo, h1.meta, T)
      BY <2>9 DEF T
    <3>3. Histo(h2.histo, r.meta, T)
      BY <3>1, <3>2, HistoSame
    <3> QED
      BY <1>1, <3>3 DEF T
  <2>11. \A c \in DOMAIN r.meta : r.meta[c].size < MMAP_SIZE
    BY <1>4, <2>1, <2>5
  <2> QED
    BY <1>1, <1>5, <2>6, <2>8, <2>10, <2>11 DEF Sound, r
<1> QED
  BY <1>6, <1>7

----------------------------------------------------------------------------
\* What uniting two blocks does: c is gone, and its bytes and its metadata are b's.
United(h, r, b, c) ==
    /\ Outside(h, r) /\ r.brk = h.brk
    /\ DOMAIN r.meta = DOMAIN h.meta \ {c}
    /\ r.meta[b].size = h.meta[b].size + h.meta[c].size + META /\ r.meta[b].is_free
    /\ \A d \in DOMAIN r.meta : d # b => r.meta[d] = h.meta[d]

\* The steps of unite_right for two blocks that are free.
Gone(h, b, c) ==
    LET h1 == remove_node_histo(remove_node_histo(h, c), b)
    IN  [h1 EXCEPT !.list = RemoveFirst(@, c), !.num_of_metadatas = OneLess(@), !.meta = Drop(@, c)]
Joined(h, b, c) == Place(Gone(h, b, c), b, TRUE, Size(h, b) + Size(h, c) + META)

LEMMA UniteUnfolds ==
    ASSUME NEW h, NEW b, b # NULL, IsFree(h, b), list_next(h, b) # NULL, IsFree(h, list_next(h, b))
    PROVE  unite_right(h, b) = add_node_histo(Joined(h, b, list_next(h, b)), b)
<1>1. unite_right(h, b)
        = LET gone == list_next(h, b)
              h1 == remove_node_histo(remove_node_histo(h, gone), b)
              h2 == [h1 EXCEPT !.list = RemoveFirst(@, gone),
                               !.num_of_metadatas = OneLess(@),
                               !.meta = Drop(@, gone)]
          IN  add_node_histo(Place(h2, b, TRUE, Size(h, b) + Size(h, gone) + META), b)
  BY DEF unite_right
<1> QED
  BY <1>1, Zenon DEF Joined, Gone

\* The two blocks are taken out of the histogram first.
LEMMA GoneIs ==
    ASSUME NEW h, IsHeap(h), IsMeta(h.meta), NEW b, NEW c
    PROVE  LET g == Gone(h, b, c)
               h1 == remove_node_histo(remove_node_histo(h, c), b)
           IN
           /\ IsHeap(g) /\ Outside(h, g) /\ IsMeta(g.meta) /\ g.meta = Drop(h.meta, c)
           /\ g.list = RemoveFirst(h.list, c) /\ g.num_of_metadatas = h.num_of_metadatas - 1
           /\ g.brk = h.brk /\ g.broken = h.broken /\ g.histo = h1.histo
<1> DEFINE h0 == remove_node_histo(h, c)
           h1 == remove_node_histo(h0, b)
           g == Gone(h, b, c)
<1>1. /\ IsHeap(h0) /\ Outside(h, h0) /\ h0.meta = h.meta /\ h0.list = h.list
      /\ h0.num_of_metadatas = h.num_of_metadatas /\ h0.brk = h.brk /\ h0.broken = h.broken
  BY HistoRemoveIs
<1> HIDE DEF h0
<1>2. /\ IsHeap(h1) /\ Outside(h0, h1) /\ h1.meta = h0.meta /\ h1.list = h0.list
      /\ h1.num_of_metadatas = h0.num_of_metadatas /\ h1.brk = h0.brk /\ h1.broken = h0.broken
  BY <1>1, HistoRemoveIs
<1>3. g = [h1 EXCEPT !.list = RemoveFirst(@, c), !.num_of_metadatas = OneLess(@), !.meta = Drop(@, c)]
  BY Zenon DEF Gone, h0
<1> HIDE DEF h1, g
<1>4. /\ IsHeap(g) /\ Outside(h1, g) /\ g.meta = Drop(h1.meta, c)
      /\ g.list = RemoveFirst(h1.list, c) /\ g.num_of_metadatas = OneLess(h1.num_of_metadatas)
      /\ g.brk = h1.brk /\ g.broken = h1.broken /\ g.histo = h1.histo
  BY <1>2, <1>3 DEF IsHeap, Fields, Outside
<1>5. Outside(h, g)
  BY <1>1, <1>2, <1>4 DEF Outside
<1>6. IsMeta(Drop(h.meta, c))
  BY DropIs
<1> QED
  BY <1>1, <1>2, <1>4, <1>5, <1>6 DEF g, h1, h0, OneLess

LEMMA UniteIs ==
    ASSUME NEW h, Core(h), NEW b \in FreeOf(h.meta), NEW c \in FreeOf(h.meta), b < c,
           \A d \in DOMAIN h.meta : b < d => c <= d
    PROVE  LET g == Gone(h, b, c)
               j == Joined(h, b, c)
           IN
           /\ h.meta[b].size + h.meta[c].size + META \in Nat \ {0}
           /\ IsHeap(j) /\ IsMeta(j.meta) /\ United(h, j, b, c)
           /\ j.list = RemoveFirst(h.list, c)
           /\ j.num_of_metadatas = h.num_of_metadatas - 1
           /\ j.broken = h.broken /\ j.histo = g.histo
<1> DEFINE g == Gone(h, b, c)
           n == Size(h, b) + Size(h, c) + META
           j == Joined(h, b, c)
<1>1. /\ IsHeap(h) /\ IsMeta(h.meta) /\ b \in DOMAIN h.meta /\ c \in DOMAIN h.meta
      /\ b \in 0..HeapLimit /\ META \in Nat \ {0}
      /\ h.meta[b].size \in Nat \ {0} /\ h.meta[c].size \in Nat \ {0} /\ b # c
  BY CoreIs DEF FreeOf
<1>2. n = h.meta[b].size + h.meta[c].size + META /\ n \in Nat \ {0}
  BY <1>1 DEF Size
<1>3. /\ IsHeap(g) /\ Outside(h, g) /\ IsMeta(g.meta) /\ g.meta = Drop(h.meta, c)
      /\ g.list = RemoveFirst(h.list, c) /\ g.num_of_metadatas = h.num_of_metadatas - 1
      /\ g.brk = h.brk /\ g.broken = h.broken
  BY <1>1, GoneIs
<1>4. DOMAIN g.meta = DOMAIN h.meta \ {c} /\ \A d \in DOMAIN g.meta : g.meta[d] = h.meta[d]
  <2>1. /\ DOMAIN Drop(h.meta, c) = DOMAIN h.meta \ {c}
        /\ \A d \in DOMAIN Drop(h.meta, c) : Drop(h.meta, c)[d] = h.meta[d]
    BY <1>1, DropIs
  <2> QED
    BY <1>3, <2>1
<1>5. Placed(g, j, b, TRUE, n)
  <2> HIDE DEF g, n
  <2>1. Placed(g, Place(g, b, TRUE, n), b, TRUE, n)
    BY <1>1, <1>2, <1>3, PlaceDoes
  <2> QED
    BY <2>1 DEF Joined, g, n
<1> HIDE DEF g, n, j
<1>6. /\ IsHeap(j) /\ Outside(g, j) /\ IsMeta(j.meta) /\ DOMAIN j.meta = DOMAIN g.meta \cup {b}
      /\ j.meta[b].size = n /\ j.meta[b].is_free
      /\ \A d \in DOMAIN g.meta : d # b => j.meta[d] = g.meta[d]
      /\ j.list = g.list /\ j.histo = g.histo /\ j.num_of_metadatas = g.num_of_metadatas
      /\ j.brk = g.brk /\ j.broken = g.broken
  BY <1>5 DEF Placed
<1>7. DOMAIN j.meta = DOMAIN h.meta \ {c}
  BY <1>1, <1>4, <1>6
<1>8. \A d \in DOMAIN j.meta : d # b => j.meta[d] = h.meta[d]
  BY <1>4, <1>6, <1>7
<1>9. Outside(h, j)
  BY <1>3, <1>6, OutsideTrans
<1>10. United(h, j, b, c)
  BY <1>2, <1>3, <1>6, <1>7, <1>8, <1>9 DEF United
<1> QED
  BY <1>2, <1>3, <1>6, <1>10 DEF g, j

\* The blocks do not overlap after it, and no byte is lost.
LEMMA UniteCore ==
    ASSUME NEW h, Core(h), NEW b \in FreeOf(h.meta), NEW c \in FreeOf(h.meta), b < c,
           \A d \in DOMAIN h.meta : b < d => c <= d
    PROVE  Core(Joined(h, b, c))
<1> DEFINE m == h.meta
           j == Joined(h, b, c)
           s == j.meta
           n == m[b].size + m[c].size + META
           al == Align(h)
<1>1. /\ n \in Nat \ {0} /\ IsHeap(j) /\ IsMeta(s) /\ United(h, j, b, c)
      /\ j.list = RemoveFirst(h.list, c) /\ j.num_of_metadatas = h.num_of_metadatas - 1
      /\ j.broken = h.broken
  BY UniteIs
<1>2. /\ IsMeta(m) /\ Listed(h.list, DOMAIN m) /\ b \in DOMAIN m /\ c \in DOMAIN m
      /\ META \in Nat \ {0} /\ HeapLimit \in Nat
      /\ h.brk \in Nat /\ h.num_of_metadatas \in Int /\ h.mmaped_blocks_num \in Nat
      /\ \A d \in DOMAIN m : /\ m[d].size \in Nat \ {0} /\ d \in Nat
                             /\ d + META + m[d].size <= h.brk
      /\ \A d, e \in DOMAIN m : d < e => d + META + m[d].size <= e
  BY CoreIs DEF FreeOf
<1> HIDE DEF j
<1>3. /\ Outside(h, j) /\ j.brk = h.brk /\ DOMAIN s = DOMAIN m \ {c} /\ s[b].size = n
      /\ \A d \in DOMAIN s : d # b => s[d] = m[d]
  BY <1>1 DEF United
<1>4. \A d \in DOMAIN m : b < d => c <= d
  OBVIOUS
<1> HIDE DEF m, s
<1>5. b + META + n <= c + META + m[c].size
  <2>1. b + META + m[b].size <= c
    BY <1>2
  <2>2. b \in Nat /\ c \in Nat /\ m[b].size \in Nat /\ m[c].size \in Nat
    BY <1>2
  <2> QED
    BY <1>2, <2>1, <2>2
<1>6. Listed(j.list, DOMAIN s)
  BY <1>1, <1>2, <1>3, RemoveListed
<1>7. Layout(s, j.brk, al)
  <2>1. /\ h.brk \in 0..HeapLimit /\ h.brk % al = 0
        /\ \A d \in DOMAIN m : d % al = 0 /\ m[d].size % al = 0
    BY DEF Core, Layout, m
  <2>2. n % al = 0
    <3> DEFINE x == m[b].size
               y == m[c].size
    <3>1. al \in Nat \ {0} /\ META % al = 0 /\ x % al = 0 /\ y % al = 0
      BY <1>2, <2>1, AlignIs
    <3>2. META \in Int /\ x \in Int /\ y \in Int
      BY <1>2
    <3> HIDE DEF al, x, y
    <3>3. x + y \in Int
      BY <3>2
    <3>4. (x + y) % al = 0
      BY <3>1, <3>2, AlignedSum, Zenon
    <3>5. (x + y + META) % al = 0
      BY <3>1, <3>2, <3>3, <3>4, AlignedSum, Zenon
    <3> QED
      BY <3>5 DEF x, y
  <2> HIDE DEF n, al
  <2>3. ASSUME NEW d \in DOMAIN s
        PROVE  d + META + s[d].size <= h.brk /\ d % al = 0 /\ s[d].size % al = 0
    <3>1. CASE d = b
      <4>1. c + META + m[c].size <= h.brk /\ c + META + m[c].size \in Nat /\ b + META + n \in Nat
        BY <1>1, <1>2
      <4>2. b + META + n <= h.brk
        BY <1>2, <1>5, <4>1
      <4> QED
        BY <1>2, <1>3, <2>1, <2>2, <3>1, <4>2
    <3>2. CASE d # b
      BY <1>2, <1>3, <2>1, <3>2
    <3> QED
      BY <3>1, <3>2
  <2>4. ASSUME NEW d \in DOMAIN s, NEW e \in DOMAIN s, d < e
        PROVE  d + META + s[d].size <= e
    <3>1. CASE d = b
      <4>1. e \in DOMAIN m /\ e # c /\ c <= e /\ e \in Nat /\ c \in Nat
        BY <1>2, <1>3, <1>4, <2>4, <3>1
      <4>2. c + META + m[c].size <= e
        BY <1>2, <4>1
      <4>3. c + META + m[c].size \in Nat /\ b + META + n \in Nat
        BY <1>1, <1>2
      <4> QED
        BY <1>3, <1>5, <3>1, <4>1, <4>2, <4>3
    <3>2. CASE d # b
      BY <1>2, <1>3, <2>4, <3>2
    <3> QED
      BY <3>1, <3>2
  <2> QED
    BY <1>3, <2>1, <2>3, <2>4 DEF Layout
<1>8. /\ Total(s) = Total(m) + META /\ Cardinality(DOMAIN m) = Cardinality(DOMAIN s) + 1
      /\ Total(m) \in Nat /\ Cardinality(DOMAIN s) \in Nat
  <2>1. PICK w : /\ IsMeta(w) /\ DOMAIN w = DOMAIN m /\ w[b].size = n
                 /\ \A d \in DOMAIN m : d # b => w[d] = m[d]
    BY <1>1, <1>2, Resized, ZenonT(60)
  <2> HIDE DEF n
  <2>2. Total(w) = Total(m) - m[b].size + n /\ Cardinality(DOMAIN w) = Cardinality(DOMAIN m)
    <3>1. b \in 0..HeapLimit
      BY <1>2, MetaIs
    <3>2. DOMAIN w = DOMAIN m \cup {b}
      BY <1>2, <2>1
    <3>3. \A d \in DOMAIN m : d # b => w[d].size = m[d].size
      BY <2>1
    <3>4. IsMeta(m) /\ IsMeta(w) /\ b \in DOMAIN m /\ w[b].size = n
      BY <1>2, <2>1
    <3> QED
      BY <3>1, <3>2, <3>3, <3>4, TotalWithout
  <2>3. c \in DOMAIN w /\ w[c].size = m[c].size
    BY <1>2, <2>1
  <2>4. Total(w) = Total(s) + w[c].size /\ Cardinality(DOMAIN w) = Cardinality(DOMAIN s) + 1
    <3>1. DOMAIN s = DOMAIN w \ {c} /\ \A d \in DOMAIN s : s[d].size = w[d].size
      BY <1>2, <1>3, <2>1
    <3> QED
      BY <1>1, <2>1, <2>3, <3>1, TotalDropped
  <2>5. Total(m) \in Nat /\ Total(s) \in Nat /\ Cardinality(DOMAIN s) \in Nat
    BY <1>1, <1>2, MetaIs
  <2>6. m[b].size \in Nat /\ m[c].size \in Nat /\ META \in Nat /\ n = m[b].size + m[c].size + META
    BY <1>2 DEF n
  <2> QED
    BY <2>2, <2>3, <2>4, <2>5, <2>6
<1>9. Counted(s, j.num_of_metadatas - h.mmaped_blocks_num, j.brk)
  <2> DEFINE k == h.num_of_metadatas - h.mmaped_blocks_num
             i == j.num_of_metadatas - h.mmaped_blocks_num
  <2>1. k \in Int /\ k >= Cardinality(DOMAIN m) /\ Total(m) + META * k = h.brk
    BY <1>2 DEF Core, Counted, m
  <2>2. i = k - 1
    BY <1>1, <1>2
  <2> HIDE DEF k, i
  <2>3. META * (k - 1) = META * k - META /\ META * k \in Int
    BY <1>2, <2>1
  <2>4. i \in Int /\ i >= Cardinality(DOMAIN s) /\ Total(s) + META * i = h.brk
    BY <1>2, <1>8, <2>1, <2>2, <2>3
  <2> QED
    BY <1>3, <2>4 DEF Counted, i
<1>10. j.num_of_metadatas \in Int
  BY <1>1, <1>2
<1>11. Core(j)
  BY <1>1, <1>3, <1>6, <1>7, <1>9, <1>10, CoreMade DEF s
<1> QED
  BY <1>11 DEF j

\* unite_right for a free block with a free block behind it.
LEMMA UniteDoes ==
    ASSUME NEW h, Core(h), Sound(h, FreeOf(h.meta)), NEW b \in FreeOf(h.meta),
           list_next(h, b) # NULL, list_next(h, b) \in FreeOf(h.meta)
    PROVE  LET c == list_next(h, b)
               r == unite_right(h, b)
           IN
           /\ Core(r) /\ Sound(r, FreeOf(r.meta)) /\ United(h, r, b, c) /\ b < c
           /\ r.broken = h.broken \/ r.broken = "index"
           /\ SameUsed(h.meta, r.meta, {})
<1> DEFINE c == list_next(h, b)
           S == FreeOf(h.meta)
           h0 == remove_node_histo(h, c)
           h1 == remove_node_histo(h0, b)
           g == Gone(h, b, c)
           j == Joined(h, b, c)
           r == unite_right(h, b)
<1>1. /\ IsHeap(h) /\ IsMeta(h.meta) /\ Listed(h.list, DOMAIN h.meta)
      /\ b \in DOMAIN h.meta /\ c \in DOMAIN h.meta /\ b # NULL
      /\ h.meta[b].is_free /\ h.meta[c].is_free /\ S \in SUBSET DOMAIN h.meta
  BY CoreIs DEF FreeOf
<1>2. b < c /\ \A d \in DOMAIN h.meta : b < d => c <= d
  BY <1>1, NextIs
<1>3. r = add_node_histo(j, b)
  BY <1>1, UniteUnfolds DEF IsFree
<1>4. b # c
  <2>1. b \in Nat /\ c \in Nat
    BY <1>1, CoreIs
  <2> QED
    BY <1>2, <2>1
<1> HIDE DEF c
<1>5. Core(j)
  BY <1>2, UniteCore DEF c
<1>6. /\ IsHeap(j) /\ IsMeta(j.meta) /\ United(h, j, b, c)
      /\ j.broken = h.broken /\ j.histo = g.histo
  BY <1>2, UniteIs DEF c
<1>7. g.histo = h1.histo
  BY <1>1, GoneIs
<1> HIDE DEF g, j, r
<1>8. /\ IsHeap(r) /\ Outside(j, r) /\ r.meta = j.meta /\ r.list = j.list
      /\ r.num_of_metadatas = j.num_of_metadatas /\ r.brk = j.brk
      /\ r.broken = j.broken \/ r.broken = "index"
      /\ BinOf(j, b) >= NBINS => r.broken = "index"
  <2> DEFINE a == add_node_histo(j, b)
  <2>1. /\ IsHeap(a) /\ Outside(j, a) /\ a.meta = j.meta /\ a.list = j.list
        /\ a.num_of_metadatas = j.num_of_metadatas /\ a.brk = j.brk
        /\ BinOf(j, b) >= NBINS => a.broken = "index"
        /\ ~(BinOf(j, b) >= NBINS) => a.broken = j.broken
    BY <1>6, HistoAddIs, ZenonT(60)
  <2> HIDE DEF a
  <2>2. r = a
    BY <1>3 DEF a
  <2> QED
    BY <2>1, <2>2
<1>9. Core(r)
  <2>1. r.broken \in {j.broken, "none", "index", "merged"}
    BY <1>8
  <2>2. IsMeta(r.meta) /\ DOMAIN r.meta = DOMAIN j.meta /\ \A d \in DOMAIN j.meta : r.meta[d].size = j.meta[d].size
    BY <1>6, <1>8
  <2> QED
    BY <1>5, <1>8, <2>1, <2>2, CoreFlags
<1>10. United(h, r, b, c)
  BY <1>6, <1>8 DEF United, Outside
<1>11. /\ DOMAIN r.meta = DOMAIN h.meta \ {c} /\ r.meta[b].is_free
       /\ \A d \in DOMAIN r.meta : d # b => r.meta[d] = h.meta[d]
  BY <1>10 DEF United
<1>12. FreeOf(r.meta) = (S \ {c}) \cup {b} /\ b \in S
  BY <1>1, <1>4, <1>11 DEF FreeOf
<1>13. SameUsed(h.meta, r.meta, {})
  BY <1>1, <1>4, <1>11 DEF SameUsed, UsedOf
<1>14. Sound(r, FreeOf(r.meta))
  <2> SUFFICES ASSUME r.broken = "none"
               PROVE  /\ Histo(r.histo, r.meta, FreeOf(r.meta))
                      /\ \A d \in DOMAIN r.meta : r.meta[d].size < MMAP_SIZE
    BY DEF Sound
  <2> DEFINE T == (S \ {c}) \ {b}
  <2>1. h.broken = "none" /\ ~(BinOf(j, b) >= NBINS)
    BY <1>6, <1>8
  <2>2. /\ Histo(h.histo, h.meta, S)
        /\ \A d \in DOMAIN h.meta : h.meta[d].size < MMAP_SIZE
    BY <2>1 DEF Sound
  <2>3. j.meta[b].size < MMAP_SIZE
    <3>1. b \in DOMAIN j.meta
      BY <1>1, <1>4, <1>6 DEF United
    <3>2. j.meta[b].size \in Nat /\ BinOf(j, b) = j.meta[b].size \div BIN
      BY <1>6, <3>1, MetaIs DEF BinOf, Size
    <3> QED
      BY <2>1, <3>2, BinIs, BinAssumption
  <2> HIDE DEF S
  <2>4. IsHeap(h0) /\ h0.meta = h.meta
    BY <1>1, HistoRemoveIs
  <2>5. Histo(h0.histo, h.meta, S \ {c})
    BY <1>1, <2>2, HistoRemove DEF IsFree
  <2> HIDE DEF h0
  <2>6. Histo(h1.histo, h.meta, T)
    <3>1. IsFree(h0, b) /\ S \ {c} \in SUBSET DOMAIN h0.meta /\ h0.meta[b].size < MMAP_SIZE
      BY <1>1, <2>2, <2>4 DEF IsFree
    <3>2. IsMeta(h0.meta) /\ Histo(h0.histo, h0.meta, S \ {c}) /\ b \in DOMAIN h0.meta
      BY <1>1, <2>4, <2>5
    <3>3. Histo(h1.histo, h0.meta, (S \ {c}) \ {b})
      BY <2>4, <3>1, <3>2, HistoRemove
    <3> QED
      BY <2>4, <3>3
  <2> HIDE DEF h1
  <2>7. T \in SUBSET DOMAIN h.meta /\ T \subseteq DOMAIN j.meta /\ \A d \in T : j.meta[d].size = h.meta[d].size
    BY <1>1, <1>8, <1>11
  <2>8. b \in DOMAIN j.meta /\ b \notin T /\ T \cup {b} = FreeOf(r.meta)
    BY <1>1, <1>4, <1>8, <1>11, <1>12
  <2> HIDE DEF T
  <2>9. Histo(h1.histo, j.meta, T)
    BY <2>6, <2>7, HistoSame
  <2>10. T \in SUBSET DOMAIN j.meta /\ Histo(j.histo, j.meta, T)
    BY <1>6, <1>7, <2>7, <2>9
  <2>11. Histo(r.histo, j.meta, T \cup {b})
    BY <1>3, <1>6, <2>3, <2>8, <2>10, HistoAdd
  <2>12. \A d \in DOMAIN r.meta : r.meta[d].size < MMAP_SIZE
    BY <1>8, <1>11, <2>2, <2>3
  <2> QED
    BY <1>8, <2>8, <2>11, <2>12
<1>15. r.broken = h.broken \/ r.broken = "index"
  BY <1>6, <1>8
<1> QED
  BY <1>2, <1>9, <1>10, <1>13, <1>14, <1>15 DEF r, c

\* unite_right for any block: nothing that is used changes.
LEMMA UniteKeeps ==
    ASSUME NEW h, Core(h), Sound(h, FreeOf(h.meta)), NEW b \in DOMAIN h.meta \cup {NULL}
    PROVE  LET r == unite_right(h, b) IN
           /\ Core(r) /\ Sound(r, FreeOf(r.meta)) /\ Outside(h, r) /\ r.brk = h.brk
           /\ r.broken = h.broken \/ r.broken = "index"
           /\ SameUsed(h.meta, r.meta, {}) /\ (b # NULL => b \in DOMAIN r.meta)
<1> DEFINE c == list_next(h, b)
           r == unite_right(h, b)
<1>1. CASE b = NULL \/ ~IsFree(h, b) \/ c = NULL \/ ~IsFree(h, c)
  <2>1. r = h
    BY <1>1 DEF unite_right
  <2>2. Outside(h, h) /\ SameUsed(h.meta, h.meta, {})
    BY DEF Outside, SameUsed
  <2> QED
    BY <2>1, <2>2
<1>2. CASE ~(b = NULL \/ ~IsFree(h, b) \/ c = NULL \/ ~IsFree(h, c))
  <2>1. b \in DOMAIN h.meta /\ h.meta[b].is_free /\ c # NULL /\ h.meta[c].is_free
    BY <1>2 DEF IsFree
  <2>2. c \in DOMAIN h.meta
    BY <2>1, CoreIs, NextIs
  <2>3. b \in FreeOf(h.meta) /\ c \in FreeOf(h.meta)
    BY <2>1, <2>2 DEF FreeOf
  <2>4. /\ Core(r) /\ Sound(r, FreeOf(r.meta)) /\ United(h, r, b, c) /\ b < c
        /\ r.broken = h.broken \/ r.broken = "index"
        /\ SameUsed(h.meta, r.meta, {})
    BY <2>1, <2>3, UniteDoes
  <2> HIDE DEF r
  <2>5. b # c
    BY <2>1, <2>2, <2>4, CoreIs
  <2> QED
    BY <2>1, <2>4, <2>5 DEF United, r
<1> QED
  BY <1>1, <1>2

----------------------------------------------------------------------------
\* The block b of h is used for n bytes; the other used blocks stay as they are.
Reused(h, r, b, n) ==
    /\ Core(r) /\ Outside(h, r) /\ r.brk = h.brk /\ (r.broken = h.broken \/ r.broken = "index")
    /\ b \in UsedOf(r.meta) /\ r.meta[b].size >= n
    /\ SameUsed(h.meta, r.meta, {b})

\* A split is such a use, and so is taking the block as it is.
LEMMA SplitReuses ==
    ASSUME NEW h, Core(h), NEW b \in DOMAIN h.meta, NEW n \in Nat \ {0}, n % Align(h) = 0,
           LargeEnough(Size(h, b), n)
    PROVE  Reused(h, split_block(h, b, n), b, n)
<1> DEFINE r == split_block(h, b, n)
           new == b + META + n
<1>1. Core(r) /\ Parted(h, r, b, n) /\ (r.broken = h.broken \/ r.broken = "index")
  BY SplitCore
<1> HIDE DEF r
<1>2. /\ Outside(h, r) /\ r.brk = h.brk
      /\ new \notin DOMAIN h.meta /\ DOMAIN r.meta = DOMAIN h.meta \cup {new}
      /\ r.meta[b].size = n /\ ~r.meta[b].is_free /\ r.meta[new].is_free
      /\ \A c \in DOMAIN h.meta : c # b => r.meta[c] = h.meta[c]
  BY <1>1 DEF Parted
<1> HIDE DEF new
<1>3. SameUsed(h.meta, r.meta, {b})
  BY <1>2 DEF SameUsed, UsedOf
<1>4. b \in UsedOf(r.meta) /\ r.meta[b].size >= n
  BY <1>2 DEF UsedOf
<1> QED
  BY <1>1, <1>2, <1>3, <1>4 DEF Reused, r

LEMMA TakenReuses ==
    ASSUME NEW h, Core(h), NEW b \in DOMAIN h.meta, NEW n \in Nat, Size(h, b) >= n,
           NEW g, g \in {h, remove_node_histo(h, b)}
    PROVE  Reused(h, Place(g, b, FALSE, Size(h, b)), b, n)
<1> DEFINE r == Place(g, b, FALSE, Size(h, b))
<1>taken. Taken(h, g, r, b)
  BY TakenCore
<1> HIDE DEF r
<1>1. /\ Core(r) /\ Outside(h, r) /\ r.list = h.list /\ r.brk = h.brk /\ r.broken = h.broken
      /\ DOMAIN r.meta = DOMAIN h.meta /\ ~r.meta[b].is_free
      /\ r.meta[b].size = h.meta[b].size
      /\ \A c \in DOMAIN h.meta : c # b => r.meta[c] = h.meta[c]
  BY <1>taken DEF Taken
<1>2. SameUsed(h.meta, r.meta, {b})
  BY <1>1 DEF SameUsed, UsedOf
<1>3. b \in UsedOf(r.meta) /\ r.meta[b].size >= n
  BY <1>1 DEF UsedOf, Size
<1> QED
  BY <1>1, <1>2, <1>3 DEF Reused, r

LEMMA ReusedTrans ==
    ASSUME NEW f, NEW g, NEW h, NEW b, NEW m, NEW n, Reused(f, g, b, m), Reused(g, h, b, n)
    PROVE  Reused(f, h, b, n)
<1>1. SameUsed(f.meta, h.meta, {b})
  BY DEF Reused, SameUsed
<1> QED
  BY <1>1 DEF Reused, Outside

\* The united block is used again; g is the heap without it in the histogram, or with it.
ReuseOf(g, h, b, n) ==
    LET h1 == Place(g, b, FALSE, Size(h, b))
    IN  IF LargeEnough(Size(h, b), n) THEN split_block(h1, b, n) ELSE h1

LEMMA ReuseIs ==
    ASSUME NEW h, NEW b, NEW n
    PROVE  /\ Reuse(h, b, n, TRUE) = ReuseOf(remove_node_histo(h, b), h, b, n)
           /\ Reuse(h, b, n, FALSE) = ReuseOf(h, h, b, n)
  BY DEF Reuse, ReuseOf

LEMMA ReuseCore ==
    ASSUME NEW h, Core(h), NEW b \in DOMAIN h.meta, NEW n \in Nat \ {0}, n % Align(h) = 0,
           Size(h, b) >= n, NEW g, g \in {h, remove_node_histo(h, b)}
    PROVE  Reused(h, ReuseOf(g, h, b, n), b, n)
<1> DEFINE h1 == Place(g, b, FALSE, Size(h, b))
<1>1. Reused(h, h1, b, n)
  BY TakenReuses
<1>taken. Taken(h, g, h1, b)
  BY TakenCore
<1> HIDE DEF h1
<1>2. h1.meta[b].size = h.meta[b].size /\ DOMAIN h1.meta = DOMAIN h.meta
  BY <1>taken DEF Taken
<1>3. Core(h1) /\ Align(h1) = Align(h) /\ Size(h1, b) = Size(h, b) /\ b \in DOMAIN h1.meta
  BY <1>1, <1>2 DEF Reused, Outside, Align, Size
<1>4. CASE LargeEnough(Size(h, b), n)
  <2>1. Reused(h1, split_block(h1, b, n), b, n)
    BY <1>3, <1>4, SplitReuses
  <2>2. ReuseOf(g, h, b, n) = split_block(h1, b, n)
    BY <1>4 DEF ReuseOf, h1
  <2> QED
    BY <1>1, <2>1, <2>2, ReusedTrans
<1>5. CASE ~LargeEnough(Size(h, b), n)
  BY <1>1, <1>5 DEF ReuseOf, h1
<1> QED
  BY <1>4, <1>5

LEMMA ReuseSound ==
    ASSUME NEW h, Core(h), Sound(h, FreeOf(h.meta)), NEW b \in FreeOf(h.meta),
           NEW n \in Nat \ {0}, n % Align(h) = 0, Size(h, b) >= n
    PROVE  LET r == ReuseOf(remove_node_histo(h, b), h, b, n) IN
           Sound(r, FreeOf(r.meta)) /\ (h.broken = "none" => r.broken = "none")
<1> DEFINE g == remove_node_histo(h, b)
           h1 == Place(g, b, FALSE, Size(h, b))
           r == ReuseOf(g, h, b, n)
<1>0. b \in DOMAIN h.meta
  BY DEF FreeOf
<1>reused. Reused(h, h1, b, n)
  BY <1>0, TakenReuses
<1>taken. Taken(h, g, h1, b)
  BY <1>0, TakenCore
<1>3. Sound(h1, FreeOf(h1.meta))
  BY TakenSound
<1> HIDE DEF h1
<1>1. Reused(h, h1, b, n) /\ h1.broken = h.broken
  BY <1>reused, <1>taken DEF Taken
<1>2. h1.meta[b].size = h.meta[b].size /\ DOMAIN h1.meta = DOMAIN h.meta
  BY <1>taken DEF Taken
<1>4. Core(h1) /\ Align(h1) = Align(h) /\ Size(h1, b) = Size(h, b) /\ b \in DOMAIN h1.meta
  BY <1>0, <1>1, <1>2 DEF Reused, Outside, Align, Size
<1>5. CASE LargeEnough(Size(h, b), n)
  <2> DEFINE s == split_block(h1, b, n)
  <2>1. Sound(s, FreeOf(s.meta)) /\ (h1.broken = "none" => s.broken = "none")
    BY <1>3, <1>4, <1>5, SplitSound
  <2>2. r = s
    BY <1>5 DEF ReuseOf, h1
  <2> HIDE DEF s, r
  <2> QED
    BY <1>1, <2>1, <2>2 DEF r
<1>6. CASE ~LargeEnough(Size(h, b), n)
  <2>1. r = h1
    BY <1>6 DEF ReuseOf, h1
  <2> HIDE DEF r
  <2> QED
    BY <1>1, <1>3, <2>1 DEF r
<1> QED
  BY <1>5, <1>6

----------------------------------------------------------------------------
\* The mapped blocks outside P are the same.
SameMaps(m1, m2, P) ==
    \A p : \/ p \in P
           \/ p \in DOMAIN m1 /\ p \in DOMAIN m2 /\ m2[p] = m1[p]
           \/ p \notin DOMAIN m1 /\ p \notin DOMAIN m2

\* What a call leaves: a heap that is as it should be, in which only what is in P has
\* been given to the user or taken back.
Kept(h, r, P) ==
    /\ Core(r) /\ Sound(r, FreeOf(r.meta)) /\ r.version = h.version
    /\ SameUsed(h.meta, r.meta, P) /\ SameMaps(h.maps, r.maps, P)

InUse(h) == UsedOf(h.meta) \cup DOMAIN h.maps

\* sfree for a block of the heap.
LEMMA FreedHeap ==
    ASSUME NEW h, Core(h), Sound(h, FreeOf(h.meta)), NEW p \in UsedOf(h.meta)
    PROVE  LET h0 == add_node_histo(Place(h, p, TRUE, Size(h, p)), p)
               r == UniteLeft(unite_right(h0, p), p)
           IN  Kept(h, r, {p}) /\ p \notin UsedOf(r.meta) /\ Outside(h, r)
<1> DEFINE h0 == add_node_histo(Place(h, p, TRUE, Size(h, p)), p)
           h1 == unite_right(h0, p)
           r == UniteLeft(h1, p)
<1>1. /\ Core(h0) /\ Sound(h0, FreeOf(h0.meta)) /\ Outside(h, h0)
      /\ DOMAIN h0.meta = DOMAIN h.meta /\ h0.meta[p].is_free
      /\ \A c \in DOMAIN h.meta : c # p => h0.meta[c] = h.meta[c]
  BY FreedKeeps
<1>2. p \in DOMAIN h.meta /\ p # NULL
  BY CoreIs DEF UsedOf
<1> HIDE DEF h0
<1>3. SameUsed(h.meta, h0.meta, {p}) /\ p \notin UsedOf(h0.meta) /\ p \in DOMAIN h0.meta
  BY <1>1, <1>2 DEF SameUsed, UsedOf
<1>4. /\ Core(h1) /\ Sound(h1, FreeOf(h1.meta)) /\ Outside(h0, h1)
      /\ SameUsed(h0.meta, h1.meta, {}) /\ p \in DOMAIN h1.meta
  BY <1>1, <1>2, <1>3, UniteKeeps
<1> HIDE DEF h1
<1>5. list_prev(h1, p) \in DOMAIN h1.meta \cup {NULL}
  BY <1>4, CoreIs, PrevIs
<1>6. /\ Core(r) /\ Sound(r, FreeOf(r.meta)) /\ Outside(h1, r)
      /\ SameUsed(h1.meta, r.meta, {})
  BY <1>4, <1>5, UniteKeeps DEF UniteLeft
<1> HIDE DEF r
<1>7. SameUsed(h.meta, r.meta, {p}) /\ p \notin UsedOf(r.meta)
  BY <1>3, <1>4, <1>6 DEF SameUsed
<1>8. Outside(h, r)
  BY <1>1, <1>4, <1>6 DEF Outside
<1>9. SameMaps(h.maps, r.maps, {p}) /\ r.version = h.version
  BY <1>8 DEF SameMaps, Outside
<1> QED
  BY <1>6, <1>7, <1>8, <1>9 DEF Kept, r, h1, h0

----------------------------------------------------------------------------
\* The block that smalloc finds is free, and large enough.
LEMMA FindIs ==
    ASSUME NEW h, Core(h), Histo(h.histo, h.meta, FreeOf(h.meta)), NEW n \in Nat, Find(h, n) # NULL
    PROVE  Find(h, n) \in FreeOf(h.meta) /\ Size(h, Find(h, n)) >= n
<1> DEFINE I == {i \in (n \div BIN)..(NBINS - 1) : FoundIn(h, n, i) # 0}
           k == Min(I)
           q == h.histo[k]
           f == FoundIn(h, n, k)
           J == {j \in 1..Len(q) : Fits(Size(h, q[j]), n) /\ IsFree(h, q[j])}
<1>1. I # {} /\ Find(h, n) = q[f]
  BY DEF Find
<1>2. \A i \in (n \div BIN)..(NBINS - 1) : i \in 0..(NBINS - 1)
  BY BinIs, BinAssumption
<1>3. I \in SUBSET Nat
  BY <1>2
<1>4. k \in I
  BY <1>1, <1>3, MinIsLeast
<1>5. k \in 0..(NBINS - 1) /\ f # 0
  BY <1>2, <1>4
<1> HIDE DEF I, k
<1>6. q \in Seq(0..HeapLimit) /\ Ordered(q, InBin(h.meta, FreeOf(h.meta), k), SizesOf(h.meta))
  BY <1>5 DEF Histo
<1>7. f = IF J # {} THEN Min(J) ELSE 0
  BY DEF FoundIn, SelectInSeq
<1> HIDE DEF q, f
<1>8. J \in SUBSET Nat /\ J # {}
  BY <1>5, <1>7
<1>9. f \in J
  BY <1>7, <1>8, MinIsLeast
<1>10. f \in 1..Len(q) /\ Fits(Size(h, q[f]), n)
  BY <1>9
<1> HIDE DEF J
<1>11. q[f] \in InBin(h.meta, FreeOf(h.meta), k)
  BY <1>6, <1>10 DEF Ordered
<1> QED
  BY <1>1, <1>10, <1>11 DEF InBin, Fits

----------------------------------------------------------------------------
\* The last block is used for n bytes, and the break is moved by what that takes.
Stretched(h, g, r, b, n) ==
    /\ Core(r) /\ Outside(h, r) /\ r.broken = h.broken /\ r.histo = g.histo
    /\ DOMAIN r.meta = DOMAIN h.meta /\ ~r.meta[b].is_free /\ r.meta[b].size = n
    /\ \A c \in DOMAIN h.meta : c # b => r.meta[c] = h.meta[c]

LEMMA StretchedCore ==
    ASSUME NEW h, Core(h), NEW b \in DOMAIN h.meta, \A d \in DOMAIN h.meta : d <= b,
           NEW n \in Nat \ {0}, n % Align(h) = 0, h.brk + n - Size(h, b) <= HeapLimit,
           NEW g, g \in {h, remove_node_histo(h, b)}
    PROVE  Stretched(h, g, [Place(g, b, FALSE, n) EXCEPT !.brk = h.brk + n - Size(h, b)], b, n)
<1> DEFINE p == Place(g, b, FALSE, n)
           z == Size(h, b)
           brk == h.brk + n - z
           r == [p EXCEPT !.brk = brk]
           m == h.meta
           s == r.meta
           al == Align(h)
<1>1. /\ IsHeap(h) /\ IsMeta(m) /\ Listed(h.list, DOMAIN m) /\ b \in 0..HeapLimit
      /\ META \in Nat \ {0} /\ HeapLimit \in Nat /\ z = m[b].size
      /\ h.brk \in Nat /\ h.num_of_metadatas \in Int /\ h.mmaped_blocks_num \in Nat
      /\ \A d \in DOMAIN m : /\ m[d].size \in Nat \ {0} /\ d \in Nat
                             /\ d + META + m[d].size <= h.brk
      /\ \A d, e \in DOMAIN m : d < e => d + META + m[d].size <= e
  BY CoreIs DEF Size
<1>2. /\ IsHeap(g) /\ Outside(h, g) /\ g.meta = m /\ g.list = h.list
      /\ g.num_of_metadatas = h.num_of_metadatas /\ g.brk = h.brk /\ g.broken = h.broken
  <2>1. CASE g = h
    BY <1>1, <2>1 DEF Outside
  <2>2. CASE g = remove_node_histo(h, b)
    BY <1>1, <2>2, HistoRemoveIs
  <2> QED
    BY <2>1, <2>2
<1>3. Placed(g, p, b, FALSE, n)
  BY <1>1, <1>2, PlaceDoes
<1> HIDE DEF p, brk
<1>4. /\ IsHeap(p) /\ Outside(g, p) /\ IsMeta(p.meta) /\ DOMAIN p.meta = DOMAIN m \cup {b}
      /\ p.meta[b].size = n /\ ~p.meta[b].is_free
      /\ \A c \in DOMAIN m : c # b => p.meta[c] = m[c]
      /\ p.list = h.list /\ p.histo = g.histo /\ p.num_of_metadatas = h.num_of_metadatas
      /\ p.broken = h.broken
  BY <1>2, <1>3 DEF Placed
<1>5. /\ IsHeap(r) /\ Outside(p, r) /\ s = p.meta /\ r.list = p.list /\ r.histo = p.histo
      /\ r.num_of_metadatas = p.num_of_metadatas /\ r.broken = p.broken /\ r.brk = brk
  BY <1>4 DEF IsHeap, Fields, Outside
<1> HIDE DEF r
<1>6. DOMAIN s = DOMAIN m /\ s[b].size = n /\ \A c \in DOMAIN m : c # b => s[c] = m[c]
  <2>1. DOMAIN m \cup {b} = DOMAIN m
    OBVIOUS
  <2> QED
    BY <1>4, <1>5, <2>1
<1>7. Outside(h, r)
  BY <1>2, <1>4, <1>5 DEF Outside
<1> HIDE DEF m, s, z
<1>last. b \in DOMAIN m /\ \A d \in DOMAIN m : d <= b
  BY DEF m
<1>8. z \in Nat \ {0} /\ brk \in Nat /\ b + META + n <= brk /\ brk <= HeapLimit
  <2>1. b + META + z <= h.brk /\ z \in Nat \ {0} /\ b \in Nat
    BY <1>1, <1>last
  <2>2. h.brk + n - z <= HeapLimit
    BY DEF z
  <2> QED
    BY <1>1, <2>1, <2>2 DEF brk
<1>9. brk % al = 0
  <2>1. h.brk % al = 0 /\ z % al = 0 /\ n % al = 0 /\ al \in Nat \ {0}
    BY <1>1, <1>last, AlignIs DEF Core, Layout, m
  <2>2. h.brk \in Int /\ z \in Int /\ n \in Int /\ n - z \in Int
    BY <1>1, <1>8
  <2> HIDE DEF al
  <2>3. (n - z) % al = 0
    BY <2>1, <2>2, AlignedSum, Zenon
  <2>4. (h.brk + (n - z)) % al = 0
    BY <2>1, <2>2, <2>3, AlignedSum, Zenon
  <2> QED
    BY <2>4 DEF brk
<1>10. Layout(s, brk, al)
  <2>1. \A d \in DOMAIN m : d % al = 0 /\ m[d].size % al = 0
    BY DEF Core, Layout, m
  <2>2. ASSUME NEW d \in DOMAIN m, d # b PROVE d + META + m[d].size <= b
    <3>1. d < b
      BY <1>1, <1>last, <2>2
    <3> QED
      BY <1>1, <1>last, <3>1
  <2>3. ASSUME NEW d \in DOMAIN s
        PROVE  d + META + s[d].size <= brk /\ d % al = 0 /\ s[d].size % al = 0
    <3>1. CASE d = b
      BY <1>6, <1>8, <1>last, <2>1, <3>1
    <3>2. CASE d # b
      <4>1. d \in DOMAIN m /\ s[d] = m[d] /\ m[d].size \in Nat /\ d \in Nat /\ b \in Nat
        BY <1>1, <1>6, <1>last, <3>2
      <4>2. d + META + m[d].size <= b
        BY <2>2, <3>2, <4>1
      <4>3. d + META + m[d].size <= brk
        BY <1>1, <1>8, <4>1, <4>2
      <4> QED
        BY <2>1, <4>1, <4>3
    <3> QED
      BY <3>1, <3>2
  <2>4. ASSUME NEW d \in DOMAIN s, NEW e \in DOMAIN s, d < e PROVE d + META + s[d].size <= e
    <3>1. d \in DOMAIN m /\ e \in DOMAIN m /\ d \in Nat /\ e \in Nat /\ e <= b
      BY <1>1, <1>6, <1>last
    <3>2. d # b
      BY <1>1, <1>last, <2>4, <3>1
    <3> QED
      BY <1>1, <1>6, <2>4, <3>1, <3>2
  <2>5. brk \in 0..HeapLimit
    BY <1>1, <1>8
  <2> QED
    BY <1>9, <2>3, <2>4, <2>5 DEF Layout
<1>11. Counted(s, r.num_of_metadatas - h.mmaped_blocks_num, brk)
  <2>1. /\ IsMeta(s) /\ DOMAIN s = DOMAIN m \cup {b}
        /\ \A c \in DOMAIN m : c # b => s[c].size = m[c].size
    BY <1>4, <1>5, <1>6, <1>last
  <2>2. Total(s) = Total(m) - z + n
    <3>1. IsMeta(m) /\ b \in 0..HeapLimit /\ b \in DOMAIN m /\ m[b].size = z /\ s[b].size = n
      BY <1>1, <1>6, <1>last
    <3>2. Total(s) = Total(m) - m[b].size + s[b].size
      BY <2>1, <3>1, TotalWithout
    <3> QED
      BY <3>1, <3>2
  <2>3. /\ h.num_of_metadatas - h.mmaped_blocks_num >= Cardinality(DOMAIN m)
        /\ Total(m) + META * (h.num_of_metadatas - h.mmaped_blocks_num) = h.brk
    BY DEF Core, Counted, m
  <2> DEFINE k == h.num_of_metadatas - h.mmaped_blocks_num
             t == META * k
  <2>4. Total(m) \in Nat /\ k \in Int /\ t \in Int
    BY <1>1, MetaIs
  <2>5. Total(m) + t = h.brk
    BY <2>3
  <2>6. r.num_of_metadatas - h.mmaped_blocks_num = k
    BY <1>4, <1>5
  <2> HIDE DEF t
  <2>7. Total(s) + t = brk
    BY <1>1, <1>8, <2>2, <2>4, <2>5 DEF brk
  <2> QED
    BY <1>6, <2>3, <2>4, <2>6, <2>7 DEF Counted, t
<1>12. IsMeta(s) /\ Listed(r.list, DOMAIN s) /\ r.num_of_metadatas \in Int
       /\ r.broken \in {h.broken, "none", "index", "merged"}
  BY <1>1, <1>4, <1>5, <1>6
<1>13. Core(r)
  BY <1>5, <1>7, <1>10, <1>11, <1>12, CoreMade DEF s
<1>14. Stretched(h, g, r, b, n)
  BY <1>4, <1>5, <1>6, <1>7, <1>13 DEF Stretched, s, m
<1> QED
  BY <1>14 DEF r, p, brk, z

\* It was in the histogram if it was free, and is no more.
LEMMA StretchedSound ==
    ASSUME NEW h, Core(h), Sound(h, FreeOf(h.meta)), NEW b \in DOMAIN h.meta,
           NEW n \in Nat \ {0}, n < MMAP_SIZE, NEW r,
           Stretched(h, remove_node_histo(h, b), r, b, n)
    PROVE  Sound(r, FreeOf(r.meta)) /\ SameUsed(h.meta, r.meta, {b}) /\ b \in UsedOf(r.meta)
<1> DEFINE S == FreeOf(h.meta)
           g == remove_node_histo(h, b)
<1>1. /\ r.broken = h.broken /\ r.histo = g.histo
      /\ DOMAIN r.meta = DOMAIN h.meta /\ ~r.meta[b].is_free /\ r.meta[b].size = n
      /\ \A c \in DOMAIN h.meta : c # b => r.meta[c] = h.meta[c]
  BY DEF Stretched
<1> HIDE DEF g
<1>2. SameUsed(h.meta, r.meta, {b}) /\ b \in UsedOf(r.meta)
  BY <1>1 DEF SameUsed, UsedOf
<1>3. FreeOf(r.meta) = S \ {b} /\ S \in SUBSET DOMAIN h.meta /\ (b \in S <=> h.meta[b].is_free)
  BY <1>1 DEF FreeOf
<1>4. ASSUME h.broken = "none" PROVE Histo(g.histo, h.meta, S \ {b})
  <2>1. Histo(h.histo, h.meta, S) /\ h.meta[b].size < MMAP_SIZE
    BY <1>4 DEF Sound
  <2> HIDE DEF S
  <2>4. IsHeap(h) /\ IsMeta(h.meta)
    BY CoreIs
  <2>2. CASE h.meta[b].is_free
    <3>1. b \in S /\ S \in SUBSET DOMAIN h.meta /\ IsFree(h, b)
      BY <1>3, <2>2 DEF IsFree
    <3> QED
      BY <2>1, <2>4, <3>1, HistoRemove DEF g
  <2>3. CASE ~h.meta[b].is_free
    <3>1. S \ {b} = S
      BY <1>3, <2>3
    <3>2. g = h
      <4>1. ~IsFree(h, b)
        BY <2>3 DEF IsFree
      <4> QED
        BY <2>4, <4>1, HistoRemoveIs DEF g
    <3> QED
      BY <2>1, <3>1, <3>2
  <2> QED
    BY <2>2, <2>3
<1>5. ASSUME h.broken = "none" PROVE Histo(r.histo, r.meta, S \ {b})
  <2>1. S \ {b} \in SUBSET DOMAIN h.meta /\ S \ {b} \subseteq DOMAIN r.meta
        /\ \A c \in S \ {b} : r.meta[c].size = h.meta[c].size
    BY <1>1, <1>3
  <2> QED
    BY <1>1, <1>4, <1>5, <2>1, HistoSame
<1>6. ASSUME h.broken = "none" PROVE \A c \in DOMAIN r.meta : r.meta[c].size < MMAP_SIZE
  <2>1. \A c \in DOMAIN h.meta : h.meta[c].size < MMAP_SIZE
    BY <1>6 DEF Sound
  <2>2. ASSUME NEW c \in DOMAIN r.meta PROVE r.meta[c].size < MMAP_SIZE
    <3>1. CASE c = b
      BY <1>1, <3>1
    <3>2. CASE c # b
      BY <1>1, <2>1, <3>2
    <3> QED
      BY <3>1, <3>2
  <2> QED
    BY <2>2
<1>7. Sound(r, FreeOf(r.meta))
  BY <1>1, <1>3, <1>5, <1>6 DEF Sound
<1> QED
  BY <1>2, <1>7

----------------------------------------------------------------------------
\* Mapped blocks lie behind the heap.
LEMMA MapsApart ==
    ASSUME NEW h, Core(h), NEW p \in DOMAIN h.maps
    PROVE  /\ p \notin DOMAIN h.meta /\ p \in Nat /\ p # NULL /\ p \in 0..AddressLimit
           /\ SizeOf(h, p) = h.maps[p] /\ h.maps[p] \in Nat /\ h.maps[p] >= MMAP_SIZE
<1>1. p \in Maps /\ h.maps[p] \in Nat /\ h.maps[p] >= MMAP_SIZE
  BY DEF Core, MapsOK
<1>2. p \in Nat /\ p > HeapLimit /\ p # NULL /\ p \in 0..AddressLimit
  BY <1>1, LayoutAssumption DEF Maps, NULL
<1>3. \A b \in DOMAIN h.meta : b <= HeapLimit /\ b \in Nat
  BY LayoutAssumption, CoreIs
<1>4. p \notin DOMAIN h.meta
  BY <1>2, <1>3, LayoutAssumption
<1> QED
  BY <1>1, <1>2, <1>4 DEF SizeOf

\* The size of a block of the heap.
LEMMA SizeOfBlock ==
    ASSUME NEW h, Core(h), NEW p \in DOMAIN h.meta
    PROVE  p \notin DOMAIN h.maps /\ SizeOf(h, p) = h.meta[p].size /\ p # NULL
  BY MapsApart, CoreIs DEF SizeOf, Size

\* A pointer in use is not NULL.
LEMMA NullUnused ==
    ASSUME NEW h, Core(h)
    PROVE  NULL \notin UsedOf(h.meta) /\ NULL \notin DOMAIN h.maps
  BY MapsApart, SizeOfBlock DEF UsedOf

\* The user is given p for n bytes, or nothing.
Allocated(h, r, p, n) ==
    /\ Kept(h, r, {p}) /\ r.broken = h.broken
    /\ p # NULL => p \notin InUse(h) /\ p \in InUse(r) /\ SizeOf(r, p) >= n

\* Two ways to be given a block of the heap.
LEMMA BlockAllocated ==
    ASSUME NEW h, Core(h), NEW r, Core(r), Sound(r, FreeOf(r.meta)), Outside(h, r),
           r.broken = h.broken, NEW p, p \notin UsedOf(h.meta), NEW n, p \in UsedOf(r.meta),
           r.meta[p].size >= n, SameUsed(h.meta, r.meta, {p})
    PROVE  Allocated(h, r, p, n)
<1>1. p \in DOMAIN r.meta
  BY DEF UsedOf
<1>2. p \notin DOMAIN r.maps /\ SizeOf(r, p) = r.meta[p].size
  BY <1>1, SizeOfBlock
<1>3. r.maps = h.maps /\ r.version = h.version
  BY DEF Outside
<1>4. SameMaps(h.maps, r.maps, {p})
  BY <1>3 DEF SameMaps
<1> QED
  BY <1>2, <1>3, <1>4 DEF Allocated, Kept, InUse

LEMMA NothingAllocated ==
    ASSUME NEW h, Core(h), NEW r, Core(r), Sound(r, FreeOf(r.meta)), Outside(h, r),
           r.broken = h.broken, r.meta = h.meta, NEW n
    PROVE  Allocated(h, r, NULL, n)
<1>1. SameMaps(h.maps, r.maps, {NULL}) /\ SameUsed(h.meta, r.meta, {NULL}) /\ r.version = h.version
  BY DEF SameMaps, SameUsed, Outside
<1> QED
  BY <1>1 DEF Allocated, Kept

----------------------------------------------------------------------------
\* A metadata without a block is counted, and its bytes are below the break.
LEMMA MetadataCore ==
    ASSUME NEW h, Core(h), h.brk + META <= HeapLimit
    PROVE  LET r == create_metadata_sbrk(h) IN
           /\ Core(r) /\ Outside(h, r) /\ r.meta = h.meta /\ r.list = h.list
           /\ r.histo = h.histo /\ r.broken = h.broken
           /\ r.num_of_metadatas = h.num_of_metadatas + 1 /\ r.brk = h.brk + META
<1> DEFINE r == create_metadata_sbrk(h)
           m == h.meta
           al == Align(h)
           k == h.num_of_metadatas - h.mmaped_blocks_num
<1>1. /\ IsHeap(h) /\ IsMeta(m) /\ Listed(h.list, DOMAIN m) /\ META \in Nat \ {0}
      /\ HeapLimit \in Nat /\ h.brk \in Nat /\ h.num_of_metadatas \in Int
      /\ h.mmaped_blocks_num \in Nat
      /\ \A d \in DOMAIN m : m[d].size \in Nat \ {0} /\ d \in Nat
  BY CoreIs
<1>2. /\ IsHeap(r) /\ Outside(h, r) /\ r.meta = m /\ r.list = h.list
      /\ r.histo = h.histo /\ r.broken = h.broken
      /\ r.num_of_metadatas = h.num_of_metadatas + 1 /\ r.brk = h.brk + META
  BY <1>1 DEF IsHeap, Fields, Outside, create_metadata_sbrk
<1> HIDE DEF r
<1>3. Layout(m, r.brk, al)
  <2>1. /\ \A b \in DOMAIN m : b + META + m[b].size <= h.brk /\ b % al = 0 /\ m[b].size % al = 0
        /\ \A b, c \in DOMAIN m : b < c => b + META + m[b].size <= c
        /\ h.brk % al = 0
    BY DEF Core, Layout
  <2>2. al \in Nat \ {0} /\ META % al = 0
    BY AlignIs
  <2>3. h.brk \in Int /\ META \in Int
    BY <1>1
  <2> HIDE DEF m, al
  <2>4. (h.brk + META) % al = 0
    BY <2>1, <2>2, <2>3, AlignedSum, Zenon
  <2>5. \A b \in DOMAIN m : b + META + m[b].size <= h.brk + META
    BY <1>1, <2>1
  <2>6. h.brk + META \in 0..HeapLimit
    BY <1>1
  <2> QED
    BY <1>2, <2>1, <2>4, <2>5, <2>6 DEF Layout
<1>4. Counted(m, r.num_of_metadatas - h.mmaped_blocks_num, r.brk)
  <2>1. k \in Int /\ r.num_of_metadatas - h.mmaped_blocks_num = k + 1
    BY <1>1, <1>2
  <2>2. k >= Cardinality(DOMAIN m) /\ Total(m) + META * k = h.brk
    BY DEF Core, Counted
  <2>3. Total(m) \in Nat /\ Cardinality(DOMAIN m) \in Nat
    BY <1>1, MetaIs
  <2> HIDE DEF k, m
  <2>4. META * (k + 1) = META * k + META /\ META * k \in Int
    BY <1>1, <2>1
  <2>5. Total(m) + META * (k + 1) = h.brk + META /\ k + 1 >= Cardinality(DOMAIN m) /\ k + 1 \in Int
    BY <1>1, <2>1, <2>2, <2>3, <2>4
  <2> QED
    BY <1>2, <2>1, <2>5 DEF Counted
<1>5. /\ r.num_of_metadatas \in Int /\ r.broken \in {h.broken, "none", "index", "merged"}
      /\ IsMeta(r.meta) /\ Listed(r.list, DOMAIN r.meta) /\ r.meta = m
  BY <1>1, <1>2
<1>6. Core(r)
  BY <1>2, <1>3, <1>4, <1>5, CoreMade
<1> QED
  BY <1>2, <1>6 DEF r

\* The heap with one more block at the break, whose metadata has been counted.
NewBlock(h, n) ==
    LET h1 == create_metadata_sbrk(h)
    IN  add_node_list(Place([h1 EXCEPT !.brk = @ + n], h.brk, FALSE, n), h.brk, all_list_end(h))

LEMMA NewBlockIs ==
    ASSUME NEW h, Core(h), NEW n \in Nat \ {0}, h.brk + META + n <= HeapLimit
    PROVE  LET r == NewBlock(h, n)
               w == all_list_end(h)
           IN
           /\ IsHeap(r) /\ Outside(h, r) /\ IsMeta(r.meta)
           /\ DOMAIN r.meta = DOMAIN h.meta \cup {h.brk}
           /\ r.meta[h.brk].size = n /\ ~r.meta[h.brk].is_free
           /\ \A c \in DOMAIN h.meta : c # h.brk => r.meta[c] = h.meta[c]
           /\ r.list = InsertAt(h.list, IF w = NULL THEN 1 ELSE IndexOf(h, w) + 1, h.brk)
           /\ r.histo = h.histo /\ r.broken = h.broken
           /\ r.num_of_metadatas = h.num_of_metadatas + 1 /\ r.brk = h.brk + META + n
<1> DEFINE h1 == create_metadata_sbrk(h)
           h2 == [h1 EXCEPT !.brk = @ + n]
           b == h.brk
           h3 == Place(h2, b, FALSE, n)
           w == all_list_end(h)
           r == NewBlock(h, n)
<1>1. /\ IsHeap(h) /\ IsMeta(h.meta) /\ h.brk \in Nat /\ META \in Nat \ {0} /\ HeapLimit \in Nat
  BY CoreIs
<1>2. /\ IsHeap(h1) /\ Outside(h, h1) /\ h1.meta = h.meta /\ h1.list = h.list
      /\ h1.histo = h.histo /\ h1.broken = h.broken
      /\ h1.num_of_metadatas = h.num_of_metadatas + 1 /\ h1.brk = h.brk + META
  BY <1>1 DEF IsHeap, Fields, Outside, create_metadata_sbrk
<1> HIDE DEF h1
<1>3. /\ IsHeap(h2) /\ Outside(h1, h2) /\ h2.meta = h1.meta /\ h2.list = h1.list
      /\ h2.histo = h1.histo /\ h2.broken = h1.broken
      /\ h2.num_of_metadatas = h1.num_of_metadatas /\ h2.brk = h1.brk + n
  BY <1>2 DEF IsHeap, Fields, Outside
<1> HIDE DEF h2
<1>4. b \in 0..HeapLimit
  BY <1>1
<1> HIDE DEF b
<1>5. Placed(h2, h3, b, FALSE, n)
  BY <1>1, <1>2, <1>3, <1>4, PlaceDoes
<1> HIDE DEF h3
<1>6. /\ IsHeap(h3) /\ Outside(h2, h3) /\ IsMeta(h3.meta) /\ DOMAIN h3.meta = DOMAIN h.meta \cup {b}
      /\ h3.meta[b].size = n /\ ~h3.meta[b].is_free
      /\ \A c \in DOMAIN h.meta : c # b => h3.meta[c] = h.meta[c]
      /\ h3.list = h.list /\ h3.histo = h.histo /\ h3.num_of_metadatas = h.num_of_metadatas + 1
      /\ h3.brk = h2.brk /\ h3.broken = h.broken
  BY <1>2, <1>3, <1>5 DEF Placed
<1>7. r = add_node_list(h3, b, w)
  BY DEF NewBlock, h3, h2, h1, b
<1> HIDE DEF r, w
<1>8. /\ IsHeap(r) /\ Outside(h3, r) /\ r.meta = h3.meta
      /\ r.list = InsertAt(h3.list, IF w = NULL THEN 1 ELSE IndexOf(h3, w) + 1, b)
      /\ r.histo = h3.histo /\ r.num_of_metadatas = h3.num_of_metadatas
      /\ r.brk = h3.brk /\ r.broken = h3.broken
  BY <1>6, <1>7, ListAddIs
<1>9. IndexOf(h3, w) = IndexOf(h, w)
  BY <1>6 DEF IndexOf
<1>10. Outside(h, r)
  BY <1>2, <1>3, <1>6, <1>8 DEF Outside
<1>11. r.brk = h.brk + META + n
  BY <1>2, <1>3, <1>6, <1>8
<1> QED
  BY <1>6, <1>8, <1>9, <1>10, <1>11 DEF r, w, b

\* It lies behind all the others.
LEMMA NewBlockDoes ==
    ASSUME NEW h, Core(h), Sound(h, FreeOf(h.meta)), NEW n \in Nat \ {0}, n % Align(h) = 0,
           n < MMAP_SIZE, h.brk + META + n <= HeapLimit
    PROVE  Allocated(h, NewBlock(h, n), h.brk, n)
<1> DEFINE b == h.brk
           r == NewBlock(h, n)
           w == all_list_end(h)
           m == h.meta
           s == r.meta
           al == Align(h)
           S == FreeOf(h.meta)
<1>1. /\ IsHeap(h) /\ IsMeta(m) /\ Listed(h.list, DOMAIN m)
      /\ META \in Nat \ {0} /\ HeapLimit \in Nat
      /\ b \in Nat /\ h.num_of_metadatas \in Int /\ h.mmaped_blocks_num \in Nat
      /\ \A d \in DOMAIN m : /\ m[d].size \in Nat \ {0} /\ d \in Nat
                             /\ d + META + m[d].size <= b
      /\ \A d, e \in DOMAIN m : d < e => d + META + m[d].size <= e
  BY CoreIs
<1>2. /\ IsHeap(r) /\ Outside(h, r) /\ IsMeta(s) /\ DOMAIN s = DOMAIN m \cup {b}
      /\ s[b].size = n /\ ~s[b].is_free
      /\ \A c \in DOMAIN m : c # b => s[c] = m[c]
      /\ r.list = InsertAt(h.list, IF w = NULL THEN 1 ELSE IndexOf(h, w) + 1, b)
      /\ r.histo = h.histo /\ r.broken = h.broken
      /\ r.num_of_metadatas = h.num_of_metadatas + 1 /\ r.brk = b + META + n
  BY NewBlockIs
<1>limit. b + META + n <= HeapLimit
  OBVIOUS
<1> HIDE DEF r, b, s
<1>3. /\ b \notin DOMAIN m /\ b \in 0..HeapLimit /\ \A d \in DOMAIN m : d < b /\ d # b
  <2>1. \A d \in DOMAIN m : d < b
    BY <1>1
  <2> QED
    BY <1>1, <1>limit, <2>1
<1>4. \A c \in DOMAIN m : s[c] = m[c]
  BY <1>2, <1>3
<1>5. Listed(r.list, DOMAIN s)
  <2>1. /\ w = NULL => DOMAIN m = {}
        /\ w # NULL => w \in DOMAIN m /\ \A d \in DOMAIN m : d <= w
    BY <1>1, EndIs
  <2> HIDE DEF w, m
  <2>2. w # NULL => w \in DOMAIN m /\ w < b /\ \A d \in DOMAIN m : w < d => b < d
    BY <1>1, <1>3, <2>1
  <2>3. Listed(InsertAt(h.list, IF w = NULL THEN 1 ELSE IndexOf(h, w) + 1, b), DOMAIN m \cup {b})
    BY <1>1, <1>3, <2>1, <2>2, InsertListed
  <2> QED
    BY <1>2, <2>3
<1>6. Layout(s, r.brk, al)
  <2>1. /\ \A d \in DOMAIN m : d % al = 0 /\ m[d].size % al = 0
        /\ b % al = 0
    BY DEF Core, Layout, b
  <2>2. al \in Nat \ {0} /\ META % al = 0 /\ n % al = 0
    BY AlignIs
  <2>3. b \in Int /\ META \in Int /\ n \in Int /\ b + META \in Int
    BY <1>1
  <2> HIDE DEF m, al
  <2>4. (b + META) % al = 0
    BY <2>1, <2>2, <2>3, AlignedSum, Zenon
  <2>5. (b + META + n) % al = 0
    BY <2>2, <2>3, <2>4, AlignedSum, Zenon
  <2>6. ASSUME NEW d \in DOMAIN s
        PROVE  d + META + s[d].size <= b + META + n /\ d % al = 0 /\ s[d].size % al = 0
    <3>1. CASE d = b
      BY <1>1, <1>2, <2>1, <2>2, <3>1
    <3>2. CASE d # b
      <4>1. d \in DOMAIN m /\ s[d] = m[d]
        BY <1>2, <1>4, <3>2
      <4>2. d + META + m[d].size <= b + META + n
        BY <1>1, <4>1
      <4> QED
        BY <2>1, <4>1, <4>2
    <3> QED
      BY <3>1, <3>2
  <2>7. ASSUME NEW d \in DOMAIN s, NEW e \in DOMAIN s, d < e PROVE d + META + s[d].size <= e
    <3>1. CASE d = b
      <4>1. e = b \/ e < b
        BY <1>2, <1>3
      <4> QED
        BY <1>1, <1>2, <2>7, <3>1, <4>1
    <3>2. CASE d # b
      <4>1. d \in DOMAIN m /\ s[d] = m[d]
        BY <1>2, <1>4, <3>2
      <4>2. e \in DOMAIN m \/ e = b
        BY <1>2
      <4> QED
        BY <1>1, <2>7, <4>1, <4>2
    <3> QED
      BY <3>1, <3>2
  <2>8. b + META + n \in 0..HeapLimit
    BY <1>1, <1>limit
  <2> QED
    BY <1>2, <2>5, <2>6, <2>7, <2>8 DEF Layout
<1>7. Counted(s, r.num_of_metadatas - h.mmaped_blocks_num, r.brk)
  <2> DEFINE k == h.num_of_metadatas - h.mmaped_blocks_num
  <2>1. k \in Int /\ r.num_of_metadatas - h.mmaped_blocks_num = k + 1
    BY <1>1, <1>2
  <2>2. k >= Cardinality(DOMAIN m) /\ Total(m) + META * k = b
    BY DEF Core, Counted, b
  <2>3. Total(m) \in Nat /\ Cardinality(DOMAIN m) \in Nat
    BY <1>1, MetaIs
  <2> HIDE DEF k, m
  <2>4. META * (k + 1) = META * k + META /\ META * k \in Int
    BY <1>1, <2>1
  <2>5. Total(s) = Total(m) + s[b].size /\ Cardinality(DOMAIN s) = Cardinality(DOMAIN m) + 1
    <3>1. \A c \in DOMAIN m : c # b => s[c].size = m[c].size
      BY <1>4
    <3>2. IsMeta(m) /\ IsMeta(s) /\ b \in 0..HeapLimit /\ DOMAIN s = DOMAIN m \cup {b}
          /\ b \notin DOMAIN m
      BY <1>1, <1>2, <1>3
    <3> QED
      BY <3>1, <3>2, TotalWithout
  <2>6. Total(s) + META * (k + 1) = b + META + n /\ k + 1 >= Cardinality(DOMAIN s) /\ k + 1 \in Int
    BY <1>1, <1>2, <2>1, <2>2, <2>3, <2>4, <2>5
  <2> QED
    BY <1>2, <2>1, <2>6 DEF Counted
<1>8. /\ r.num_of_metadatas \in Int /\ r.broken \in {h.broken, "none", "index", "merged"}
  BY <1>1, <1>2
<1>9. Core(r)
  BY <1>2, <1>5, <1>6, <1>7, <1>8, CoreMade DEF s
<1>10. FreeOf(s) = S /\ S \in SUBSET DOMAIN m /\ S \subseteq DOMAIN s
  BY <1>2, <1>3, <1>4 DEF FreeOf
<1>11. Sound(r, FreeOf(s))
  <2>1. ASSUME h.broken = "none" PROVE Histo(r.histo, s, S)
    <3>1. Histo(h.histo, m, S) /\ \A c \in S : s[c].size = m[c].size
      BY <1>4, <1>10, <2>1 DEF Sound
    <3> QED
      BY <1>2, <1>10, <3>1, HistoSame
  <2>2. ASSUME h.broken = "none", NEW c \in DOMAIN s PROVE s[c].size < MMAP_SIZE
    <3>1. CASE c = b
      BY <1>2, <3>1
    <3>2. CASE c \in DOMAIN m
      BY <1>4, <2>2, <3>2 DEF Sound
    <3> QED
      BY <1>2, <3>1, <3>2
  <2> QED
    BY <1>2, <1>10, <2>1, <2>2 DEF Sound, s
<1>12. /\ SameUsed(m, s, {b}) /\ b \in UsedOf(s) /\ s[b].size >= n /\ b \notin UsedOf(m)
  BY <1>2, <1>3, <1>4 DEF SameUsed, UsedOf
<1> QED
  BY <1>2, <1>9, <1>11, <1>12, BlockAllocated DEF s, r, b

\* What a call returns is two things.
LEMMA ReturnsIs ==
    ASSUME NEW h, NEW p
    PROVE  Returns(h, p).h = h /\ Returns(h, p).p = p
  BY DEF Returns

LEMMA SbrkDoes ==
    ASSUME NEW h, Core(h), Sound(h, FreeOf(h.meta)), NEW n \in Nat \ {0}, n % Align(h) = 0,
           n < MMAP_SIZE, NEW g, g.limit \in 0..HeapLimit
    PROVE  LET r == sbrk_wrapper(h, n, g) IN Allocated(h, r.h, r.p, n)
<1> DEFINE w == all_list_end(h)
           r == sbrk_wrapper(h, n, g)
           b == h.brk
           h1 == create_metadata_sbrk(h)
           e == [Place(remove_node_histo(h, w), w, FALSE, n) EXCEPT !.brk = b + n - Size(h, w)]
<1>1. /\ b \in Nat /\ META \in Nat \ {0} /\ HeapLimit \in Nat /\ g.limit \in Int /\ g.limit <= HeapLimit
  BY CoreIs
<1>2. Allocated(h, h, NULL, n)
  <2>1. Outside(h, h)
    BY DEF Outside
  <2> QED
    BY <2>1, NothingAllocated
<1>3. CASE w # NULL /\ IsFree(h, w)
  <2>1. w \in DOMAIN h.meta /\ \A d \in DOMAIN h.meta : d <= w
    BY <1>3, CoreIs, EndIs
  <2>2. Size(h, w) \in Nat
    BY <2>1, CoreIs DEF Size
  <2>3. CASE b + n - Size(h, w) > g.limit
    <3>1. r = Returns(h, NULL)
      BY <1>3, <2>3 DEF sbrk_wrapper
    <3> QED
      BY <1>2, <3>1, ReturnsIs
  <2>4. CASE ~(b + n - Size(h, w) > g.limit)
    <3>1. r = Returns(e, w)
      BY <1>3, <2>4 DEF sbrk_wrapper
    <3>2. b + n - Size(h, w) <= HeapLimit
      BY <1>1, <2>2, <2>4
    <3>3. Stretched(h, remove_node_histo(h, w), e, w, n)
      BY <2>1, <3>2, StretchedCore
    <3> HIDE DEF e, w, r
    <3>4. Sound(e, FreeOf(e.meta)) /\ SameUsed(h.meta, e.meta, {w}) /\ w \in UsedOf(e.meta)
      BY <2>1, <3>3, StretchedSound
    <3>5. Core(e) /\ Outside(h, e) /\ e.broken = h.broken /\ e.meta[w].size = n
      BY <3>3 DEF Stretched
    <3>6. w \notin UsedOf(h.meta) /\ e.meta[w].size >= n
      BY <1>3, <3>5 DEF UsedOf, IsFree
    <3>7. Allocated(h, e, w, n)
      BY <3>4, <3>5, <3>6, BlockAllocated
    <3> QED
      BY <3>1, <3>7, ReturnsIs DEF r
  <2> QED
    BY <2>3, <2>4
<1>4. CASE ~(w # NULL /\ IsFree(h, w))
  <2>1. CASE b + META > g.limit
    <3>1. r = Returns(h, NULL)
      BY <1>4, <2>1 DEF sbrk_wrapper
    <3> QED
      BY <1>2, <3>1, ReturnsIs
  <2>2. CASE ~(b + META > g.limit) /\ b + META + n > g.limit
    <3>1. r = Returns(h1, NULL)
      BY <1>4, <2>2 DEF sbrk_wrapper
    <3>2. b + META <= HeapLimit
      BY <1>1, <2>2
    <3>3. /\ Core(h1) /\ Outside(h, h1) /\ h1.meta = h.meta
          /\ h1.histo = h.histo /\ h1.broken = h.broken
      BY <3>2, MetadataCore
    <3> HIDE DEF h1, r
    <3>4. Sound(h1, FreeOf(h1.meta))
      BY <3>3 DEF Sound
    <3>5. Allocated(h, h1, NULL, n)
      BY <3>3, <3>4, NothingAllocated
    <3> QED
      BY <3>1, <3>5, ReturnsIs DEF r
  <2>3. CASE ~(b + META > g.limit) /\ ~(b + META + n > g.limit)
    <3>1. r = Returns(NewBlock(h, n), b)
      BY <1>4, <2>3 DEF sbrk_wrapper, NewBlock
    <3>2. b + META + n <= HeapLimit
      BY <1>1, <2>3
    <3>3. Allocated(h, NewBlock(h, n), b, n)
      BY <3>2, NewBlockDoes
    <3> HIDE DEF r
    <3> QED
      BY <3>1, <3>3, ReturnsIs DEF r
  <2> QED
    BY <2>1, <2>2, <2>3
<1> QED
  BY <1>3, <1>4

----------------------------------------------------------------------------
\* Mappings that are counted and added up.
LEMMA MapsMade ==
    ASSUME NEW h, Core(h), NEW r, IsHeap(r), r.list = h.list, r.meta = h.meta,
           r.version = h.version, r.broken = h.broken, r.brk = h.brk,
           MapsOK(r), r.num_of_metadatas \in Int, r.mmaped_blocks_num \in Int,
           r.num_of_metadatas - r.mmaped_blocks_num = h.num_of_metadatas - h.mmaped_blocks_num
    PROVE  Core(r)
<1>1. Align(r) = Align(h)
  BY DEF Align
<1> QED
  BY <1>1 DEF Core

\* The sums over mappings that differ in p only.
LEMMA MappedSum ==
    ASSUME NEW f, NEW p \in 0..AddressLimit, p \notin DOMAIN f, DOMAIN f \subseteq Maps,
           \A x \in DOMAIN f : f[x] \in Nat, NEW e, DOMAIN e = DOMAIN f \cup {p},
           \A x \in DOMAIN f : e[x] = f[x], e[p] \in Nat
    PROVE  /\ SumOver(e, DOMAIN e, AddressLimit) = SumOver(f, DOMAIN f, AddressLimit) + e[p]
           /\ SumOver(f, DOMAIN f, AddressLimit) \in Nat
           /\ Cardinality(DOMAIN e) = Cardinality(DOMAIN f) + 1
           /\ Cardinality(DOMAIN f) \in Nat
<1> DEFINE S == DOMAIN f
<1>1. AddressLimit \in Nat /\ IsFiniteSet(Maps)
  BY LayoutAssumption, FS_Interval DEF Maps
<1>2. IsFiniteSet(S) /\ Cardinality(S) \in Nat
  BY <1>1, FS_Subset, FS_CardinalityType
<1>3. Cardinality(S \cup {p}) = Cardinality(S) + 1
  BY <1>2, FS_AddElement
<1>4. SumOver(f, S, AddressLimit) \in Nat /\ SumOver(e, S, AddressLimit) = SumOver(f, S, AddressLimit)
  BY <1>1, SumOverIs
<1>5. SumOver(e, S \cup {p}, AddressLimit) = SumOver(e, S, AddressLimit) + e[p]
  BY <1>1, SumOverAdd
<1> QED
  BY <1>2, <1>3, <1>4, <1>5

\* What follows when the heap itself stays as it is.
LEMMA HeapSame ==
    ASSUME NEW h, Sound(h, FreeOf(h.meta)), NEW r, r.meta = h.meta, r.histo = h.histo,
           r.broken = h.broken, NEW P
    PROVE  Sound(r, FreeOf(r.meta)) /\ SameUsed(h.meta, r.meta, P)
  BY DEF Sound, SameUsed

LEMMA MmapDoes ==
    ASSUME NEW h, Core(h), Sound(h, FreeOf(h.meta)), NEW n \in Nat, n >= MMAP_SIZE, NEW g
    PROVE  LET r == mmap_wrapper(h, n, g) IN Allocated(h, r.h, r.p, n)
<1> DEFINE r == mmap_wrapper(h, n, g)
           m == CHOOSE x \in Maps \ DOMAIN h.maps : TRUE
           e == [h EXCEPT !.maps = With(@, m, n), !.num_of_metadatas = @ + 1,
                          !.mmaped_blocks_num = @ + 1, !.mmaped_bytes_num = @ + n]
<1>1. CASE ~g.map \/ Maps \ DOMAIN h.maps = {}
  <2>1. r = Returns(h, NULL)
    BY <1>1 DEF mmap_wrapper
  <2>2. Outside(h, h)
    BY DEF Outside
  <2>3. Allocated(h, h, NULL, n)
    BY <2>2, NothingAllocated
  <2> HIDE DEF r
  <2> QED
    BY <2>1, <2>3, ReturnsIs DEF r
<1>2. CASE ~(~g.map \/ Maps \ DOMAIN h.maps = {})
  <2>1. r = Returns(e, m)
    BY <1>2 DEF mmap_wrapper
  <2>2. m \in Maps /\ m \notin DOMAIN h.maps
    BY <1>2
  <2> HIDE DEF m
  <2>3. /\ IsHeap(h) /\ h.num_of_metadatas \in Int
    BY CoreIs
  <2>4. /\ IsHeap(e) /\ e.list = h.list /\ e.meta = h.meta /\ e.histo = h.histo
        /\ e.version = h.version /\ e.broken = h.broken /\ e.brk = h.brk
        /\ e.maps = With(h.maps, m, n) /\ e.num_of_metadatas = h.num_of_metadatas + 1
        /\ e.mmaped_blocks_num = h.mmaped_blocks_num + 1
        /\ e.mmaped_bytes_num = h.mmaped_bytes_num + n
    BY <2>3 DEF IsHeap, Fields
  <2> HIDE DEF e, r
  <2>5. /\ DOMAIN e.maps = DOMAIN h.maps \cup {m} /\ e.maps = [p \in DOMAIN e.maps |-> e.maps[p]]
        /\ e.maps[m] = n /\ \A p \in DOMAIN h.maps : e.maps[p] = h.maps[p]
    BY <2>2, <2>4 DEF With
  <2>6. /\ DOMAIN h.maps \subseteq Maps
        /\ \A p \in DOMAIN h.maps : h.maps[p] \in Nat /\ h.maps[p] >= MMAP_SIZE
        /\ h.mmaped_blocks_num = Cardinality(DOMAIN h.maps)
        /\ h.mmaped_bytes_num = SumOver(h.maps, DOMAIN h.maps, AddressLimit)
    BY DEF Core, MapsOK
  <2>7. m \in 0..AddressLimit /\ m > HeapLimit /\ m \in Nat
    BY <2>2, LayoutAssumption DEF Maps
  <2>8. /\ SumOver(e.maps, DOMAIN e.maps, AddressLimit)
             = SumOver(h.maps, DOMAIN h.maps, AddressLimit) + e.maps[m]
        /\ Cardinality(DOMAIN e.maps) = Cardinality(DOMAIN h.maps) + 1
        /\ Cardinality(DOMAIN h.maps) \in Nat
    BY <2>2, <2>5, <2>6, <2>7, MappedSum, ZenonT(60)
  <2>9. MapsOK(e)
    BY <2>2, <2>4, <2>5, <2>6, <2>8 DEF MapsOK
  <2>10. /\ e.num_of_metadatas \in Int /\ e.mmaped_blocks_num \in Int
         /\ e.num_of_metadatas - e.mmaped_blocks_num = h.num_of_metadatas - h.mmaped_blocks_num
    BY <2>3, <2>4, <2>6, <2>8
  <2>11. Core(e)
    BY <2>4, <2>9, <2>10, MapsMade
  <2>12. Sound(e, FreeOf(e.meta)) /\ SameUsed(h.meta, e.meta, {m})
    BY <2>4, HeapSame
  <2>13. SameMaps(h.maps, e.maps, {m})
    BY <2>5 DEF SameMaps
  <2>14. m \in DOMAIN e.maps /\ SizeOf(e, m) = n
    BY <2>5 DEF SizeOf
  <2>15. m \notin UsedOf(h.meta)
    BY <2>7, LayoutAssumption, CoreIs DEF UsedOf
  <2>16. Allocated(h, e, m, n)
    BY <2>2, <2>4, <2>11, <2>12, <2>13, <2>14, <2>15 DEF Allocated, Kept, InUse
  <2> QED
    BY <2>1, <2>16, ReturnsIs DEF r
<1> QED
  BY <1>1, <1>2

\* The user gives p back.
Released(h, r, p) == Kept(h, r, {p}) /\ p \notin InUse(r)

LEMMA UnmapDoes ==
    ASSUME NEW h, Core(h), Sound(h, FreeOf(h.meta)), NEW p \in DOMAIN h.maps
    PROVE  Released(h, deallocate_mmap(h, p), p)
<1> DEFINE e == deallocate_mmap(h, p)
<1>1. /\ IsHeap(h) /\ h.num_of_metadatas \in Int
  BY CoreIs
<1>2. /\ IsHeap(e) /\ e.list = h.list /\ e.meta = h.meta /\ e.histo = h.histo
      /\ e.version = h.version /\ e.broken = h.broken /\ e.brk = h.brk
      /\ e.maps = Drop(h.maps, p) /\ e.num_of_metadatas = h.num_of_metadatas - 1
      /\ e.mmaped_blocks_num = h.mmaped_blocks_num - 1
      /\ e.mmaped_bytes_num = h.mmaped_bytes_num - h.maps[p]
  BY <1>1 DEF IsHeap, Fields, deallocate_mmap
<1> HIDE DEF e
<1>3. /\ DOMAIN e.maps = DOMAIN h.maps \ {p} /\ e.maps = [x \in DOMAIN e.maps |-> e.maps[x]]
      /\ \A x \in DOMAIN e.maps : e.maps[x] = h.maps[x]
  BY <1>2 DEF Drop
<1>4. /\ DOMAIN h.maps \subseteq Maps
      /\ \A x \in DOMAIN h.maps : h.maps[x] \in Nat /\ h.maps[x] >= MMAP_SIZE
      /\ h.mmaped_blocks_num = Cardinality(DOMAIN h.maps)
      /\ h.mmaped_bytes_num = SumOver(h.maps, DOMAIN h.maps, AddressLimit)
  BY DEF Core, MapsOK
<1>5. p \in 0..AddressLimit /\ p \notin DOMAIN h.meta
  BY MapsApart
<1>6. /\ SumOver(h.maps, DOMAIN h.maps, AddressLimit)
           = SumOver(e.maps, DOMAIN e.maps, AddressLimit) + h.maps[p]
      /\ SumOver(e.maps, DOMAIN e.maps, AddressLimit) \in Nat
      /\ Cardinality(DOMAIN h.maps) = Cardinality(DOMAIN e.maps) + 1
      /\ Cardinality(DOMAIN e.maps) \in Nat
  <2>1. /\ p \notin DOMAIN e.maps /\ DOMAIN e.maps \subseteq Maps
        /\ DOMAIN h.maps = DOMAIN e.maps \cup {p} /\ h.maps[p] \in Nat
        /\ \A x \in DOMAIN e.maps : e.maps[x] \in Nat /\ h.maps[x] = e.maps[x]
    BY <1>3, <1>4
  <2> QED
    BY <1>5, <2>1, MappedSum
<1>7. /\ e.mmaped_blocks_num = Cardinality(DOMAIN e.maps)
      /\ e.mmaped_bytes_num = SumOver(e.maps, DOMAIN e.maps, AddressLimit)
  BY <1>2, <1>4, <1>6
<1>8. MapsOK(e)
  BY <1>3, <1>4, <1>7 DEF MapsOK
<1>9. /\ e.num_of_metadatas \in Int /\ e.mmaped_blocks_num \in Int
      /\ e.num_of_metadatas - e.mmaped_blocks_num = h.num_of_metadatas - h.mmaped_blocks_num
  BY <1>1, <1>2, <1>4, <1>6
<1>10. Core(e)
  BY <1>2, <1>8, <1>9, MapsMade
<1>11. Sound(e, FreeOf(e.meta)) /\ SameUsed(h.meta, e.meta, {p})
  BY <1>2, HeapSame
<1>12. SameMaps(h.maps, e.maps, {p}) /\ p \notin DOMAIN e.maps
  BY <1>3 DEF SameMaps
<1>13. p \notin UsedOf(e.meta)
  BY <1>2, <1>5 DEF UsedOf
<1>14. Released(h, e, p)
  BY <1>2, <1>10, <1>11, <1>12, <1>13 DEF Released, Kept, InUse
<1> QED
  BY <1>14 DEF e

----------------------------------------------------------------------------
\* A free block that is large enough, whether it is split or not.
LEMMA FoundAllocated ==
    ASSUME NEW h, Core(h), Sound(h, FreeOf(h.meta)), h.broken = "none",
           NEW b \in FreeOf(h.meta), NEW n \in Nat \ {0}, n % Align(h) = 0, Size(h, b) >= n
    PROVE  /\ LargeEnough(Size(h, b), n) => Allocated(h, split_block(h, b, n), b, n)
           /\ Allocated(h, Place(remove_node_histo(h, b), b, FALSE, Size(h, b)), b, n)
<1>1. b \in DOMAIN h.meta /\ b \notin UsedOf(h.meta)
  BY DEF FreeOf, UsedOf
<1>2. ASSUME LargeEnough(Size(h, b), n) PROVE Allocated(h, split_block(h, b, n), b, n)
  <2> DEFINE r == split_block(h, b, n)
  <2>1. Reused(h, r, b, n)
    BY <1>1, <1>2, SplitReuses
  <2>2. Sound(r, FreeOf(r.meta)) /\ (h.broken = "none" => r.broken = "none")
    BY <1>1, <1>2, SplitSound
  <2> HIDE DEF r
  <2>3. /\ Core(r) /\ Outside(h, r) /\ b \in UsedOf(r.meta) /\ r.meta[b].size >= n
        /\ SameUsed(h.meta, r.meta, {b}) /\ r.broken = h.broken
    BY <2>1, <2>2 DEF Reused
  <2>4. Allocated(h, r, b, n)
    BY <1>1, <2>2, <2>3, BlockAllocated
  <2> QED
    BY <2>4 DEF r
<1>3. Allocated(h, Place(remove_node_histo(h, b), b, FALSE, Size(h, b)), b, n)
  <2> DEFINE g == remove_node_histo(h, b)
             r == Place(g, b, FALSE, Size(h, b))
  <2>1. Reused(h, r, b, n)
    BY <1>1, TakenReuses
  <2>2. Taken(h, g, r, b)
    BY <1>1, TakenCore
  <2>3. Sound(r, FreeOf(r.meta))
    BY TakenSound
  <2> HIDE DEF r, g
  <2>4. /\ Core(r) /\ Outside(h, r) /\ b \in UsedOf(r.meta) /\ r.meta[b].size >= n
        /\ SameUsed(h.meta, r.meta, {b}) /\ r.broken = h.broken
    BY <2>1, <2>2 DEF Reused, Taken
  <2>5. Allocated(h, r, b, n)
    BY <1>1, <2>3, <2>4, BlockAllocated
  <2> QED
    BY <2>5 DEF r, g
<1> QED
  BY <1>2, <1>3

\* smalloc gives a block that nobody has, or nothing.
LEMMA SmallocDoes ==
    ASSUME NEW h, Core(h), Sound(h, FreeOf(h.meta)), h.broken = "none", NEW size \in Nat,
           NEW g, g.limit \in 0..HeapLimit
    PROVE  LET r == smalloc(h, size, g) IN Allocated(h, r.h, r.p, round_up(h, size))
<1> DEFINE n == round_up(h, size)
           b == Find(h, n)
           r == smalloc(h, size, g)
<1>1. n \in Nat /\ n % Align(h) = 0
  BY RoundUpIs
<1> HIDE DEF n
<1>2. CASE n = 0 \/ n > MAX_SIZE
  <2>1. r = Returns(h, NULL)
    BY <1>2 DEF smalloc, n
  <2>2. Outside(h, h)
    BY DEF Outside
  <2>3. Allocated(h, h, NULL, n)
    BY <2>2, NothingAllocated
  <2> HIDE DEF r
  <2> QED
    BY <2>1, <2>3, ReturnsIs DEF r, n
<1>3. CASE ~(n = 0 \/ n > MAX_SIZE) /\ GoesToMmap(n)
  <2>1. r = mmap_wrapper(h, n, g)
    BY <1>3 DEF smalloc, n
  <2>2. n >= MMAP_SIZE
    BY <1>3 DEF GoesToMmap
  <2>3. Allocated(h, mmap_wrapper(h, n, g).h, mmap_wrapper(h, n, g).p, n)
    BY <1>1, <2>2, MmapDoes
  <2> HIDE DEF r
  <2> QED
    BY <2>1, <2>3 DEF r, n
<1>4. CASE ~(n = 0 \/ n > MAX_SIZE) /\ ~GoesToMmap(n)
  <2>1. n \in Nat \ {0} /\ n < MMAP_SIZE
    BY <1>1, <1>4, BinAssumption DEF GoesToMmap
  <2>2. CASE b = NULL
    <3>1. r = sbrk_wrapper(h, n, g)
      BY <1>4, <2>2 DEF smalloc, n
    <3>2. Allocated(h, sbrk_wrapper(h, n, g).h, sbrk_wrapper(h, n, g).p, n)
      BY <1>1, <2>1, SbrkDoes
    <3> HIDE DEF r
    <3> QED
      BY <3>1, <3>2 DEF r, n
  <2>3. CASE b # NULL
    <3>1. b \in FreeOf(h.meta) /\ Size(h, b) >= n
      BY <1>1, <2>3, FindIs DEF Sound
    <3> HIDE DEF b
    <3>2. CASE LargeEnough(Size(h, b), n)
      <4>1. r = Returns(split_block(h, b, n), b)
        BY <1>4, <2>3, <3>2 DEF smalloc, n, b
      <4>2. Allocated(h, split_block(h, b, n), b, n)
        BY <1>1, <2>1, <3>1, <3>2, FoundAllocated
      <4> HIDE DEF r
      <4> QED
        BY <4>1, <4>2, ReturnsIs DEF r, n
    <3>3. CASE ~LargeEnough(Size(h, b), n)
      <4> DEFINE e == Place(remove_node_histo(h, b), b, FALSE, Size(h, b))
      <4>1. r = Returns(e, b)
        BY <1>4, <2>3, <3>3 DEF smalloc, n, b
      <4>2. Allocated(h, e, b, n)
        BY <1>1, <2>1, <3>1, FoundAllocated
      <4> HIDE DEF r, e
      <4> QED
        BY <4>1, <4>2, ReturnsIs DEF r, n
    <3> QED
      BY <3>2, <3>3
  <2> QED
    BY <2>2, <2>3
<1> QED
  BY <1>2, <1>3, <1>4

\* sfree takes back what is in use.
LEMMA SfreeDoes ==
    ASSUME NEW h, Core(h), Sound(h, FreeOf(h.meta)), h.broken = "none", NEW p \in InUse(h)
    PROVE  Released(h, sfree(h, p), p)
<1>1. CASE p \in DOMAIN h.maps
  <2>1. SizeOf(h, p) >= MMAP_SIZE
    BY <1>1, MapsApart
  <2>2. sfree(h, p) = deallocate_mmap(h, p)
    BY <1>1, <2>1 DEF sfree
  <2> QED
    BY <1>1, <2>2, UnmapDoes
<1>2. CASE p \notin DOMAIN h.maps
  <2> DEFINE h0 == add_node_histo(Place(h, p, TRUE, Size(h, p)), p)
             r == UniteLeft(unite_right(h0, p), p)
  <2>1. p \in UsedOf(h.meta) /\ p \in DOMAIN h.meta /\ ~IsFree(h, p)
    BY <1>2 DEF InUse, UsedOf, IsFree
  <2>2. ~(SizeOf(h, p) >= MMAP_SIZE)
    <3>1. SizeOf(h, p) < MMAP_SIZE /\ SizeOf(h, p) \in Nat /\ MMAP_SIZE \in Nat
      BY <2>1, SizeOfBlock, CoreIs, BinAssumption DEF Sound
    <3> QED
      BY <3>1
  <2>3. sfree(h, p) = r
    BY <1>2, <2>1, <2>2, Zenon DEF sfree
  <2>4. Kept(h, r, {p}) /\ p \notin UsedOf(r.meta) /\ Outside(h, r)
    BY <2>1, FreedHeap
  <2> HIDE DEF r
  <2>5. Released(h, r, p)
    BY <1>2, <2>4 DEF Released, InUse, Outside
  <2> QED
    BY <2>3, <2>5 DEF r
<1> QED
  BY <1>1, <1>2

----------------------------------------------------------------------------
\* What is not in P is in use as before, with as many bytes.
LEMMA KeptSize ==
    ASSUME NEW h, Core(h), NEW P, NEW r, Kept(h, r, P), NEW q, q \notin P
    PROVE  /\ q \in UsedOf(r.meta) <=> q \in UsedOf(h.meta)
           /\ q \in DOMAIN r.maps <=> q \in DOMAIN h.maps
           /\ q \in InUse(r) <=> q \in InUse(h)
           /\ q \in InUse(h) => SizeOf(r, q) = SizeOf(h, q)
<1>1. /\ q \in UsedOf(r.meta) <=> q \in UsedOf(h.meta)
      /\ q \in UsedOf(h.meta) => r.meta[q] = h.meta[q]
  BY DEF Kept, SameUsed
<1>2. /\ q \in DOMAIN r.maps <=> q \in DOMAIN h.maps
      /\ q \in DOMAIN h.maps => r.maps[q] = h.maps[q]
  BY DEF Kept, SameMaps
<1> QED
  BY <1>1, <1>2 DEF InUse, SizeOf, Size

\* srealloc moves what is at p to q, and copies that many bytes, or does nothing.
Moved(h, r, p, q, n, copied) ==
    \/ q = NULL /\ Kept(h, r, {NULL})
    \/ /\ q # NULL /\ Kept(h, r, {p, q}) /\ q \in InUse(r) /\ SizeOf(r, q) >= n
       /\ q # p => /\ p \notin InUse(r) /\ q \notin InUse(h)
                   /\ copied \in Int /\ (copied >= SizeOf(h, p) \/ copied >= n)

LEMMA NotMoved ==
    ASSUME NEW h, Core(h), Sound(h, FreeOf(h.meta)), NEW p, NEW n, NEW k
    PROVE  Moved(h, h, p, NULL, n, k)
<1>1. SameUsed(h.meta, h.meta, {NULL}) /\ SameMaps(h.maps, h.maps, {NULL})
  BY DEF SameUsed, SameMaps
<1> QED
  BY <1>1 DEF Moved, Kept

\* The same within the heap.
LEMMA MovedInHeap ==
    ASSUME NEW h, Core(h), NEW p \in UsedOf(h.meta), NEW r, Core(r), Sound(r, FreeOf(r.meta)),
           Outside(h, r), NEW q \in UsedOf(r.meta), NEW n, r.meta[q].size >= n, NEW k \in Int,
           SameUsed(h.meta, r.meta, {p, q}),
           q # p => p \notin UsedOf(r.meta) /\ q \notin UsedOf(h.meta) /\ k >= h.meta[p].size
    PROVE  Moved(h, r, p, q, n, k)
<1>1. p \in DOMAIN h.meta /\ q \in DOMAIN r.meta
  BY DEF UsedOf
<1>2. /\ p \notin DOMAIN h.maps /\ SizeOf(h, p) = h.meta[p].size
      /\ q \notin DOMAIN r.maps /\ SizeOf(r, q) = r.meta[q].size /\ q # NULL
  BY <1>1, SizeOfBlock
<1>3. SameMaps(h.maps, r.maps, {p, q}) /\ r.maps = h.maps /\ r.version = h.version
  BY DEF SameMaps, Outside
<1>4. Kept(h, r, {p, q})
  BY <1>3 DEF Kept
<1> QED
  BY <1>2, <1>3, <1>4 DEF Moved, InUse

\* srealloc to a smaller size.
LEMMA ReallocShrinks ==
    ASSUME NEW h, Core(h), Sound(h, FreeOf(h.meta)), NEW p \in UsedOf(h.meta),
           NEW n \in Nat \ {0}, n % Align(h) = 0, Size(h, p) >= n, NEW k \in Int
    PROVE  Moved(h, IF LargeEnough(Size(h, p), n) THEN split_block(h, p, n) ELSE h, p, p, n, k)
<1>1. p \in DOMAIN h.meta
  BY DEF UsedOf
<1>2. CASE LargeEnough(Size(h, p), n)
  <2> DEFINE r == split_block(h, p, n)
  <2>1. Reused(h, r, p, n)
    BY <1>1, <1>2, SplitReuses
  <2>2. Sound(r, FreeOf(r.meta))
    BY <1>1, <1>2, SplitSound
  <2> HIDE DEF r
  <2>3. /\ Core(r) /\ Outside(h, r) /\ p \in UsedOf(r.meta) /\ r.meta[p].size >= n
        /\ SameUsed(h.meta, r.meta, {p, p})
    BY <2>1 DEF Reused, SameUsed
  <2>4. Moved(h, r, p, p, n, k)
    BY <2>2, <2>3, MovedInHeap
  <2> QED
    BY <1>2, <2>4 DEF r
<1>3. CASE ~LargeEnough(Size(h, p), n)
  <2>1. Outside(h, h) /\ SameUsed(h.meta, h.meta, {p, p}) /\ h.meta[p].size >= n
    BY DEF Outside, SameUsed, Size
  <2>2. Moved(h, h, p, p, n, k)
    BY <2>1, MovedInHeap
  <2> QED
    BY <1>3, <2>2
<1> QED
  BY <1>2, <1>3

\* srealloc of the last block.
LEMMA ReallocStretches ==
    ASSUME NEW h, Core(h), Sound(h, FreeOf(h.meta)), NEW p \in UsedOf(h.meta),
           list_next(h, p) = NULL, NEW n \in Nat \ {0}, n % Align(h) = 0, n < MMAP_SIZE,
           h.brk + n - Size(h, p) <= HeapLimit, NEW k \in Int
    PROVE  Moved(h, [Place(h, p, FALSE, n) EXCEPT !.brk = @ + n - Size(h, p)], p, p, n, k)
<1> DEFINE a == Place(h, p, FALSE, n)
           r == [a EXCEPT !.brk = h.brk + n - Size(h, p)]
           s == [a EXCEPT !.brk = @ + n - Size(h, p)]
<1>1. p \in DOMAIN h.meta /\ IsHeap(h) /\ Listed(h.list, DOMAIN h.meta) /\ ~IsFree(h, p)
  BY CoreIs DEF UsedOf, IsFree
<1>2. \A d \in DOMAIN h.meta : d <= p
  BY <1>1, NextIs
<1>3. Stretched(h, h, r, p, n)
  BY <1>1, <1>2, StretchedCore
<1>4. s = r
  <2>1. a.brk = h.brk
    BY <1>1 DEF Place, IsHeap, Fields
  <2> HIDE DEF a
  <2> QED
    BY <2>1
<1> HIDE DEF r, s
<1>5. remove_node_histo(h, p) = h
  BY <1>1, HistoRemoveIs
<1>6. Sound(r, FreeOf(r.meta)) /\ SameUsed(h.meta, r.meta, {p}) /\ p \in UsedOf(r.meta)
  BY <1>1, <1>3, <1>5, StretchedSound
<1>7. Core(r) /\ Outside(h, r) /\ r.meta[p].size >= n
  BY <1>3 DEF Stretched
<1>8. SameUsed(h.meta, r.meta, {p, p})
  BY <1>6 DEF SameUsed
<1>9. Moved(h, r, p, p, n, k)
  BY <1>6, <1>7, <1>8, MovedInHeap
<1> QED
  BY <1>4, <1>9 DEF s

----------------------------------------------------------------------------
\* unite_srealloc makes p free, and unites.
LEMMA UniteSreallocIs ==
    ASSUME NEW h, NEW p, NEW b
    PROVE  /\ unite_srealloc(h, p, b, FALSE)
                = unite_right(add_node_histo(Place(h, p, TRUE, Size(h, p)), p), b)
           /\ unite_srealloc(h, p, b, TRUE) = unite_right(Place(h, p, TRUE, Size(h, p)), b)
  BY DEF unite_srealloc

\* The statics in which p is free for a moment.
Freed(h, p) == add_node_histo(Place(h, p, TRUE, Size(h, p)), p)

\* From h to g the block p becomes part of the free block b.
Absorbed(h, g, p, b, size) ==
    /\ Core(g) /\ Sound(g, FreeOf(g.meta)) /\ Outside(h, g) /\ b \in FreeOf(g.meta)
    /\ g.meta[b].size = size /\ SameUsed(h.meta, g.meta, {p}) /\ p \notin UsedOf(g.meta)

LEMMA FreedIs ==
    ASSUME NEW h, Core(h), Sound(h, FreeOf(h.meta)), NEW p \in UsedOf(h.meta)
    PROVE  LET g == Freed(h, p) IN
           /\ Absorbed(h, g, p, p, h.meta[p].size) /\ DOMAIN g.meta = DOMAIN h.meta
           /\ \A b : list_next(g, b) = list_next(h, b) /\ list_prev(g, b) = list_prev(h, b)
           /\ \A c \in DOMAIN h.meta : c # p => g.meta[c] = h.meta[c]
           /\ g.meta[p].size = h.meta[p].size
<1> DEFINE g == Freed(h, p)
<1>1. /\ Core(g) /\ Sound(g, FreeOf(g.meta)) /\ Outside(h, g)
      /\ g.list = h.list /\ DOMAIN g.meta = DOMAIN h.meta /\ g.meta[p].is_free
      /\ g.meta[p].size = h.meta[p].size
      /\ \A c \in DOMAIN h.meta : c # p => g.meta[c] = h.meta[c]
  BY FreedKeeps DEF Freed
<1>2. p \in DOMAIN h.meta
  BY DEF UsedOf
<1> HIDE DEF g
<1>3. p \in FreeOf(g.meta) /\ p \notin UsedOf(g.meta) /\ SameUsed(h.meta, g.meta, {p})
  BY <1>1, <1>2 DEF FreeOf, UsedOf, SameUsed
<1>4. \A b : list_next(g, b) = list_next(h, b) /\ list_prev(g, b) = list_prev(h, b)
  BY <1>1 DEF list_next, list_prev, IndexOf
<1>5. Absorbed(h, g, p, p, h.meta[p].size)
  BY <1>1, <1>3 DEF Absorbed
<1> QED
  BY <1>1, <1>4, <1>5 DEF g

\* p is united with the free block in front of it.
LEMMA UnitedLeft ==
    ASSUME NEW h, Core(h), Sound(h, FreeOf(h.meta)), NEW p \in UsedOf(h.meta),
           list_prev(h, p) # NULL, IsFree(h, list_prev(h, p))
    PROVE  LET b == list_prev(h, p) IN
           /\ Absorbed(h, unite_srealloc(h, p, b, FALSE), p, b, h.meta[b].size + h.meta[p].size + META)
           /\ b # p /\ b \notin UsedOf(h.meta) /\ b \in DOMAIN h.meta
<1> DEFINE b == list_prev(h, p)
           g == Freed(h, p)
           r == unite_right(g, b)
<1>1. /\ Core(g) /\ Sound(g, FreeOf(g.meta)) /\ Outside(h, g) /\ p \in FreeOf(g.meta)
      /\ SameUsed(h.meta, g.meta, {p}) /\ DOMAIN g.meta = DOMAIN h.meta
      /\ \A c : list_next(g, c) = list_next(h, c) /\ list_prev(g, c) = list_prev(h, c)
      /\ \A c \in DOMAIN h.meta : c # p => g.meta[c] = h.meta[c]
      /\ g.meta[p].size = h.meta[p].size /\ p \notin UsedOf(g.meta)
  BY FreedIs DEF Absorbed
<1>2. unite_srealloc(h, p, b, FALSE) = r
  BY UniteSreallocIs DEF Freed
<1> HIDE DEF g
<1>3. Listed(h.list, DOMAIN h.meta) /\ p \in DOMAIN h.meta /\ p \in Nat
  BY CoreIs DEF UsedOf
<1>4. b \in DOMAIN h.meta /\ b < p /\ list_next(h, b) = p
  BY <1>3, NextOfPrev
<1>5. b # p /\ p # NULL
  BY <1>3, <1>4, CoreIs
<1>6. b \in FreeOf(g.meta) /\ list_next(g, b) = p /\ b \notin UsedOf(h.meta)
  BY <1>1, <1>4, <1>5 DEF FreeOf, UsedOf, IsFree
<1> HIDE DEF b
<1>7. /\ Core(r) /\ Sound(r, FreeOf(r.meta)) /\ United(g, r, b, p)
      /\ SameUsed(g.meta, r.meta, {})
  BY <1>1, <1>5, <1>6, UniteDoes
<1> HIDE DEF r
<1>8. /\ Outside(g, r) /\ DOMAIN r.meta = DOMAIN g.meta \ {p}
      /\ r.meta[b].size = g.meta[b].size + g.meta[p].size + META /\ r.meta[b].is_free
  BY <1>7 DEF United
<1>9. b \in FreeOf(r.meta)
  BY <1>1, <1>4, <1>5, <1>8 DEF FreeOf
<1>10. Outside(h, r) /\ SameUsed(h.meta, r.meta, {p}) /\ p \notin UsedOf(r.meta)
  BY <1>1, <1>7, <1>8 DEF Outside, SameUsed
<1>11. r.meta[b].size = h.meta[b].size + h.meta[p].size + META
  BY <1>1, <1>4, <1>5, <1>8
<1>12. Absorbed(h, r, p, b, h.meta[b].size + h.meta[p].size + META)
  BY <1>7, <1>9, <1>10, <1>11 DEF Absorbed
<1> QED
  BY <1>2, <1>4, <1>5, <1>6, <1>12 DEF b

\* p is united with the free block behind it.
LEMMA UnitedRight ==
    ASSUME NEW h, Core(h), Sound(h, FreeOf(h.meta)), NEW p \in UsedOf(h.meta),
           list_next(h, p) # NULL, IsFree(h, list_next(h, p))
    PROVE  LET c == list_next(h, p)
               r == unite_srealloc(h, p, p, FALSE)
           IN
           /\ Absorbed(h, r, p, p, h.meta[p].size + h.meta[c].size + META)
           /\ DOMAIN r.meta = DOMAIN h.meta \ {c} /\ p < c /\ c \in DOMAIN h.meta
           /\ \A d \in DOMAIN r.meta : d # p => r.meta[d] = h.meta[d]
<1> DEFINE c == list_next(h, p)
           g == Freed(h, p)
           r == unite_right(g, p)
<1>1. /\ Core(g) /\ Sound(g, FreeOf(g.meta)) /\ Outside(h, g) /\ p \in FreeOf(g.meta)
      /\ SameUsed(h.meta, g.meta, {p}) /\ DOMAIN g.meta = DOMAIN h.meta
      /\ \A d : list_next(g, d) = list_next(h, d) /\ list_prev(g, d) = list_prev(h, d)
      /\ \A d \in DOMAIN h.meta : d # p => g.meta[d] = h.meta[d]
      /\ g.meta[p].size = h.meta[p].size /\ p \notin UsedOf(g.meta)
  BY FreedIs DEF Absorbed
<1>2. unite_srealloc(h, p, p, FALSE) = r
  BY UniteSreallocIs DEF Freed
<1> HIDE DEF g
<1>3. Listed(h.list, DOMAIN h.meta) /\ p \in DOMAIN h.meta /\ p \in Nat
  BY CoreIs DEF UsedOf
<1>4. c \in DOMAIN h.meta /\ p < c
  BY <1>3, NextIs
<1>5. c # p
  BY <1>3, <1>4, CoreIs
<1>6. c \in FreeOf(g.meta) /\ list_next(g, p) = c /\ c # NULL
  BY <1>1, <1>4, <1>5 DEF FreeOf, IsFree
<1> HIDE DEF c
<1>7. /\ Core(r) /\ Sound(r, FreeOf(r.meta)) /\ United(g, r, p, c)
      /\ SameUsed(g.meta, r.meta, {})
  BY <1>1, <1>6, UniteDoes
<1> HIDE DEF r
<1>8. /\ Outside(g, r) /\ DOMAIN r.meta = DOMAIN g.meta \ {c}
      /\ r.meta[p].size = g.meta[p].size + g.meta[c].size + META /\ r.meta[p].is_free
      /\ \A d \in DOMAIN r.meta : d # p => r.meta[d] = g.meta[d]
  BY <1>7 DEF United
<1>9. p \in FreeOf(r.meta)
  BY <1>1, <1>3, <1>5, <1>8 DEF FreeOf
<1>10. Outside(h, r) /\ SameUsed(h.meta, r.meta, {p}) /\ p \notin UsedOf(r.meta)
  BY <1>1, <1>7, <1>8 DEF Outside, SameUsed
<1>11. r.meta[p].size = h.meta[p].size + h.meta[c].size + META
  BY <1>1, <1>4, <1>5, <1>8
<1>12. Absorbed(h, r, p, p, h.meta[p].size + h.meta[c].size + META)
  BY <1>7, <1>9, <1>10, <1>11 DEF Absorbed
<1>13. \A d \in DOMAIN r.meta : d # p => r.meta[d] = h.meta[d]
  BY <1>1, <1>8
<1> QED
  BY <1>1, <1>2, <1>4, <1>8, <1>12, <1>13 DEF c

\* A block that is free already is not changed by being made free again.
LEMMA FreeAgain ==
    ASSUME NEW h, Core(h), NEW p \in FreeOf(h.meta)
    PROVE  Place(h, p, TRUE, Size(h, p)) = h
<1> DEFINE v == [size |-> Size(h, p), is_free |-> TRUE]
           w == With(h.meta, p, v)
<1>1. /\ p \in DOMAIN h.meta /\ h.meta[p].is_free = TRUE /\ IsHeap(h) /\ IsMeta(h.meta)
  BY CoreIs DEF FreeOf
<1>2. h.meta[p] = [size |-> h.meta[p].size, is_free |-> h.meta[p].is_free]
  BY <1>1, MetaIs
<1>3. h.meta[p] = v
  BY <1>1, <1>2 DEF Size
<1> HIDE DEF v
<1>4. h.meta = [b \in DOMAIN h.meta |-> h.meta[b]]
  BY <1>1 DEF IsMeta
<1>5. w = h.meta
  BY <1>1, <1>3, <1>4 DEF With
<1>6. Place(h, p, TRUE, Size(h, p)) = [h EXCEPT !.meta = w]
  BY DEF Place, v
<1> HIDE DEF w
<1> QED
  BY <1>1, <1>5, <1>6 DEF IsHeap, Fields

\* p is united with the free blocks on both sides.
LEMMA UnitedBoth ==
    ASSUME NEW h, Core(h), Sound(h, FreeOf(h.meta)), NEW p \in UsedOf(h.meta),
           list_prev(h, p) # NULL, IsFree(h, list_prev(h, p)),
           list_next(h, p) # NULL, IsFree(h, list_next(h, p))
    PROVE  LET b == list_prev(h, p)
               c == list_next(h, p)
               three == unite_srealloc(h, p, p, FALSE)
               size == h.meta[p].size + h.meta[c].size + META
           IN
           /\ Absorbed(h, unite_srealloc(three, p, b, TRUE), p, b, h.meta[b].size + size + META)
           /\ Size(three, p) = size
           /\ b # p /\ b \notin UsedOf(h.meta) /\ b \in DOMAIN h.meta /\ c \in DOMAIN h.meta
<1> DEFINE b == list_prev(h, p)
           c == list_next(h, p)
           t == unite_srealloc(h, p, p, FALSE)
           r == unite_right(t, b)
           size == h.meta[p].size + h.meta[c].size + META
<1>1. /\ Absorbed(h, t, p, p, size)
      /\ DOMAIN t.meta = DOMAIN h.meta \ {c} /\ p < c /\ c \in DOMAIN h.meta
      /\ \A d \in DOMAIN t.meta : d # p => t.meta[d] = h.meta[d]
  BY UnitedRight
<1>2. /\ Listed(h.list, DOMAIN h.meta) /\ p \in DOMAIN h.meta /\ \A d \in DOMAIN h.meta : d \in Nat
      /\ \A d \in DOMAIN h.meta : d # NULL
  BY CoreIs DEF UsedOf
<1>3. b \in DOMAIN h.meta /\ b < p /\ list_next(h, b) = p /\ \A d \in DOMAIN h.meta : b < d => p <= d
  <2>1. b \in DOMAIN h.meta /\ b < p /\ list_next(h, b) = p
    BY <1>2, NextOfPrev
  <2> HIDE DEF b
  <2>2. p # NULL
    BY <1>2
  <2> QED
    BY <1>2, <2>1, <2>2, NextIs
<1>5. b # p /\ b # c /\ p # c
  BY <1>1, <1>2, <1>3
<1>6. IsFree(h, b)
  OBVIOUS
<1> HIDE DEF b, c, t, size
<1>4. unite_srealloc(t, p, b, TRUE) = unite_right(Place(t, p, TRUE, Size(t, p)), b)
  BY UniteSreallocIs
<1>7. /\ Core(t) /\ Sound(t, FreeOf(t.meta)) /\ Outside(h, t) /\ p \in FreeOf(t.meta)
      /\ t.meta[p].size = size /\ SameUsed(h.meta, t.meta, {p}) /\ p \notin UsedOf(t.meta)
  BY <1>1 DEF Absorbed
<1>8. unite_srealloc(t, p, b, TRUE) = r
  BY <1>4, <1>7, FreeAgain
<1>9. b \in FreeOf(t.meta) /\ b \notin UsedOf(h.meta) /\ p \in DOMAIN t.meta /\ b \in DOMAIN t.meta
  BY <1>1, <1>2, <1>3, <1>5, <1>6 DEF FreeOf, UsedOf, IsFree
<1>10. list_next(t, b) = p
  <2> DEFINE d == list_next(t, b)
  <2>1. Listed(t.list, DOMAIN t.meta)
    BY <1>7, CoreIs
  <2>2. /\ d = NULL => \A e \in DOMAIN t.meta : e <= b
        /\ d # NULL => d \in DOMAIN t.meta /\ b < d /\ \A e \in DOMAIN t.meta : b < e => d <= e
    BY <1>9, <2>1, NextIs
  <2> HIDE DEF d
  <2>3. d # NULL
    BY <1>2, <1>3, <1>9, <2>2
  <2>4. d \in DOMAIN h.meta /\ b < d /\ d <= p
    BY <1>1, <1>3, <1>9, <2>2, <2>3
  <2>5. p <= d
    BY <1>3, <2>4
  <2>6. d = p
    BY <1>2, <2>4, <2>5
  <2> QED
    BY <2>6 DEF d
<1>11. /\ Core(r) /\ Sound(r, FreeOf(r.meta)) /\ United(t, r, b, p)
       /\ SameUsed(t.meta, r.meta, {})
  <2>1. p # NULL
    BY <1>2
  <2> QED
    BY <1>7, <1>9, <1>10, <2>1, UniteDoes
<1> HIDE DEF r
<1>12. /\ Outside(t, r) /\ DOMAIN r.meta = DOMAIN t.meta \ {p}
       /\ r.meta[b].size = t.meta[b].size + t.meta[p].size + META /\ r.meta[b].is_free
  BY <1>11 DEF United
<1>13. b \in FreeOf(r.meta)
  BY <1>5, <1>9, <1>12 DEF FreeOf
<1>14. Outside(h, r) /\ SameUsed(h.meta, r.meta, {p}) /\ p \notin UsedOf(r.meta)
  BY <1>7, <1>11, <1>12 DEF Outside, SameUsed
<1>15. r.meta[b].size = h.meta[b].size + size + META
  BY <1>1, <1>5, <1>7, <1>9, <1>12
<1>16. Absorbed(h, r, p, b, h.meta[b].size + size + META)
  BY <1>11, <1>13, <1>14, <1>15 DEF Absorbed
<1>17. Size(t, p) = size
  BY <1>7 DEF Size
<1> QED
  BY <1>1, <1>3, <1>5, <1>8, <1>9, <1>16, <1>17 DEF b, c, t, size

----------------------------------------------------------------------------
\* The block that p has become part of is used for n bytes.
LEMMA AbsorbedMoved ==
    ASSUME NEW h, Core(h), NEW p \in UsedOf(h.meta), NEW b, b = p \/ b \notin UsedOf(h.meta),
           NEW g, NEW size, Absorbed(h, g, p, b, size), NEW n, NEW r, Reused(g, r, b, n),
           Sound(r, FreeOf(r.meta)), NEW k \in Int, b # p => k >= h.meta[p].size
    PROVE  Moved(h, r, p, b, n, k)
<1>1. /\ Core(r) /\ Outside(g, r) /\ b \in UsedOf(r.meta) /\ r.meta[b].size >= n
      /\ SameUsed(g.meta, r.meta, {b})
  BY DEF Reused
<1>2. Outside(h, g) /\ SameUsed(h.meta, g.meta, {p}) /\ p \notin UsedOf(g.meta)
  BY DEF Absorbed
<1>3. Outside(h, r) /\ SameUsed(h.meta, r.meta, {p, b}) /\ (b # p => p \notin UsedOf(r.meta))
  BY <1>1, <1>2 DEF Outside, SameUsed
<1> QED
  BY <1>1, <1>3, MovedInHeap

\* The same with what both files do, and with what they do to three blocks.
LEMMA ReuseMoved ==
    ASSUME NEW h, Core(h), NEW p \in UsedOf(h.meta), NEW b, b = p \/ b \notin UsedOf(h.meta),
           NEW g, NEW size \in Nat, Absorbed(h, g, p, b, size), NEW n \in Nat \ {0},
           n % Align(h) = 0, size >= n, NEW k \in Int, b # p => k >= h.meta[p].size
    PROVE  /\ Moved(h, Reuse(g, b, n, TRUE), p, b, n, k)
           /\ Moved(h, ReuseMerged(g, b, n), p, b, n, k)
<1>1. /\ Core(g) /\ Sound(g, FreeOf(g.meta)) /\ Outside(h, g) /\ b \in FreeOf(g.meta)
      /\ g.meta[b].size = size
  BY DEF Absorbed
<1>2. b \in DOMAIN g.meta /\ Size(g, b) >= n /\ n % Align(g) = 0
  BY <1>1 DEF FreeOf, Size, Outside, Align
<1> DEFINE x == remove_node_histo(g, b)
           r == ReuseOf(x, g, b, n)
           q == ReuseOf(g, g, b, n)
           z == [q EXCEPT !.broken = "merged"]
<1>3. Reused(g, r, b, n) /\ Reused(g, q, b, n)
  BY <1>1, <1>2, ReuseCore
<1>4. Sound(r, FreeOf(r.meta))
  BY <1>1, <1>2, ReuseSound
<1>5. Reuse(g, b, n, TRUE) = r /\ Reuse(g, b, n, FALSE) = q
  BY ReuseIs
<1> HIDE DEF x, r, q
<1>6. Moved(h, r, p, b, n, k)
  BY <1>3, <1>4, AbsorbedMoved
<1>7. CASE DropsMerged(g)
  <2>1. ReuseMerged(g, b, n) = r
    <3>1. ReuseMerged(g, b, n) = Reuse(g, b, n, DropsMerged(g))
      BY <1>7 DEF ReuseMerged
    <3>2. DropsMerged(g) = TRUE
      BY <1>7 DEF DropsMerged
    <3> QED
      BY <1>5, <3>1, <3>2
  <2> QED
    BY <1>5, <1>6, <2>1
<1>8. CASE ~DropsMerged(g)
  <2>1. ReuseMerged(g, b, n) = z
    <3>1. ReuseMerged(g, b, n) = [Reuse(g, b, n, DropsMerged(g)) EXCEPT !.broken = "merged"]
      BY <1>8 DEF ReuseMerged
    <3>2. DropsMerged(g) = FALSE
      BY <1>8 DEF DropsMerged
    <3> QED
      BY <1>5, <3>1, <3>2
  <2>2. Core(q) /\ IsHeap(q) /\ IsMeta(q.meta)
    BY <1>3, CoreIs DEF Reused
  <2>3. /\ IsHeap(z) /\ Outside(q, z) /\ z.meta = q.meta /\ z.list = q.list
        /\ z.num_of_metadatas = q.num_of_metadatas /\ z.brk = q.brk /\ z.broken = "merged"
    BY <2>2 DEF IsHeap, Fields, Outside
  <2> HIDE DEF z
  <2>4. Core(z)
    <3>1. z.broken \in {q.broken, "none", "index", "merged"} /\ DOMAIN z.meta = DOMAIN q.meta
          /\ IsMeta(z.meta) /\ \A c \in DOMAIN q.meta : z.meta[c].size = q.meta[c].size
      BY <2>2, <2>3
    <3> QED
      BY <2>2, <2>3, <3>1, CoreFlags
  <2>5. Sound(z, FreeOf(z.meta))
    BY <2>3 DEF Sound
  <2>6. /\ Outside(h, z) /\ b \in UsedOf(z.meta) /\ z.meta[b].size >= n
        /\ SameUsed(h.meta, z.meta, {p, b}) /\ (b # p => p \notin UsedOf(z.meta))
    <3>1. Outside(g, q) /\ b \in UsedOf(q.meta) /\ q.meta[b].size >= n
          /\ SameUsed(g.meta, q.meta, {b})
      BY <1>3 DEF Reused
    <3>2. Outside(h, g) /\ SameUsed(h.meta, g.meta, {p}) /\ p \notin UsedOf(g.meta)
      BY DEF Absorbed
    <3> QED
      BY <2>3, <3>1, <3>2 DEF Outside, SameUsed
  <2>7. Moved(h, z, p, b, n, k)
    BY <2>4, <2>5, <2>6, MovedInHeap
  <2> QED
    BY <1>5, <1>6, <2>1, <2>7
<1> QED
  BY <1>7, <1>8

LEMMA MovesIs ==
    ASSUME NEW h, NEW p, NEW k
    PROVE  Moves(h, p, k).h = h /\ Moves(h, p, k).p = p /\ Moves(h, p, k).copied = k
  BY DEF Moves

\* A new block, a copy, and the old block freed.
LEMMA ElsewhereDoes ==
    ASSUME NEW h, Core(h), Sound(h, FreeOf(h.meta)), h.broken = "none", NEW p \in InUse(h),
           NEW n \in Nat, n % Align(h) = 0, NEW g, g.limit \in 0..HeapLimit
    PROVE  LET r == Elsewhere(h, p, n, g) IN Moved(h, r.h, p, r.p, n, r.copied)
<1> DEFINE a == smalloc(h, n, g)
           r == Elsewhere(h, p, n, g)
           q == a.p
           s == a.h
           f == sfree(s, p)
           k == MIN(SizeOf(h, p), n)
<1>1. Allocated(h, s, q, n)
  <2>1. round_up(h, n) = n
    BY RoundUpIs
  <2>2. Allocated(h, s, q, round_up(h, n))
    BY SmallocDoes
  <2> HIDE DEF s, q
  <2> QED
    BY <2>1, <2>2
<1>2. r = IF q = NULL THEN Moves(s, NULL, 0) ELSE Moves(f, q, k)
  BY DEF Elsewhere
<1> HIDE DEF a, r, q, s
<1>3. Kept(h, s, {q}) /\ Core(s) /\ Sound(s, FreeOf(s.meta)) /\ s.broken = "none"
  BY <1>1 DEF Allocated, Kept
<1>4. CASE q = NULL
  <2>1. r = Moves(s, NULL, 0)
    BY <1>2, <1>4
  <2>2. r.h = s /\ r.p = NULL
    BY <2>1, MovesIs
  <2> QED
    BY <1>3, <1>4, <2>2 DEF Moved, r
<1>5. CASE q # NULL
  <2>1. q \notin InUse(h) /\ q \in InUse(s) /\ SizeOf(s, q) >= n /\ q # p
    BY <1>1, <1>5 DEF Allocated
  <2>2. p \in InUse(s)
    BY <1>3, <2>1, KeptSize
  <2>3. Released(s, f, p)
    BY <1>3, <2>2, SfreeDoes
  <2> HIDE DEF f, k
  <2>4. Kept(s, f, {p}) /\ p \notin InUse(f)
    BY <2>3 DEF Released
  <2>5. q \in InUse(f) /\ SizeOf(f, q) >= n
    BY <1>3, <2>1, <2>4, KeptSize
  <2>6. Kept(h, f, {p, q})
    BY <1>3, <2>4 DEF Kept, SameUsed, SameMaps
  <2>7. SizeOf(h, p) \in Nat
    <3>1. CASE p \in DOMAIN h.maps
      BY <3>1, MapsApart
    <3>2. CASE p \in UsedOf(h.meta)
      BY <3>2, SizeOfBlock, CoreIs DEF UsedOf
    <3> QED
      BY <3>1, <3>2 DEF InUse
  <2>8. k \in Int /\ (k >= SizeOf(h, p) \/ k >= n)
    <3>1. k = IF SizeOf(h, p) <= n THEN SizeOf(h, p) ELSE n
      BY <2>7, MinOfTwo DEF MIN, k
    <3> QED
      BY <2>7, <3>1
  <2>9. Moved(h, f, p, q, n, k)
    BY <1>5, <2>1, <2>4, <2>5, <2>6, <2>8 DEF Moved
  <2>10. r = Moves(f, q, k)
    BY <1>2, <1>5
  <2>11. r.h = f /\ r.p = q /\ r.copied = k
    BY <2>10, MovesIs
  <2> QED
    BY <2>9, <2>11 DEF r
<1> QED
  BY <1>4, <1>5

\* srealloc keeps what the user has, at the same place or at another.
LEMMA SreallocDoes ==
    ASSUME NEW h, Core(h), Sound(h, FreeOf(h.meta)), h.broken = "none", NEW p \in InUse(h),
           NEW size \in Nat, p \in DOMAIN h.maps => round_up(h, size) >= MMAP_SIZE,
           NEW g, g.limit \in 0..HeapLimit
    PROVE  LET r == srealloc(h, p, size, g) IN Moved(h, r.h, p, r.p, round_up(h, size), r.copied)
<1> DEFINE n == round_up(h, size)
           m == SizeOf(h, p)
           prev == list_prev(h, p)
           next == list_next(h, p)
           prevFree == prev # NULL /\ IsFree(h, prev)
           nextFree == next # NULL /\ IsFree(h, next)
           three == unite_srealloc(h, p, p, FALSE)
           left == unite_srealloc(h, p, prev, FALSE)
           both == unite_srealloc(three, p, prev, TRUE)
           away == Elsewhere(h, p, n, g)
           last == [Place(h, p, FALSE, n) EXCEPT !.brk = @ + n - m]
           less == IF LargeEnough(m, n) THEN split_block(h, p, n) ELSE h
           kl == MIN(m, Size(left, prev))
           kb == MIN(Size(three, p), Size(both, prev))
           r == srealloc(h, p, size, g)
<1>1. r = IF n = 0 \/ n > MAX_SIZE THEN Moves(h, NULL, 0)
          ELSE IF n >= MMAP_SIZE THEN away
          ELSE IF m >= n THEN Moves(less, p, m)
          ELSE IF prevFree /\ Size(h, prev) + m + META >= n
          THEN Moves(Reuse(left, prev, n, TRUE), prev, kl)
          ELSE IF nextFree /\ Size(h, next) + m + META >= n
          THEN Moves(Reuse(three, p, n, TRUE), p, m)
          ELSE IF prevFree /\ nextFree /\ Size(h, prev) + Size(h, next) + m + 2 * META >= n
          THEN Moves(ReuseMerged(both, prev, n), prev, kb)
          ELSE IF next = NULL
          THEN IF h.brk + n - m > g.limit THEN Moves(h, NULL, 0) ELSE Moves(last, p, m)
          ELSE away
  BY DEF srealloc
<1>2. n \in Nat /\ n % Align(h) = 0
  BY RoundUpIs
<1>3. Moved(h, away.h, p, away.p, n, away.copied)
  <2> HIDE DEF n
  <2> QED
    BY <1>2, ElsewhereDoes
<1>4. p \in DOMAIN h.maps => n >= MMAP_SIZE
  OBVIOUS
<1> HIDE DEF r, n, away
<1>5. CASE n = 0 \/ n > MAX_SIZE
  <2>1. r = Moves(h, NULL, 0)
    BY <1>1, <1>5
  <2>2. r.h = h /\ r.p = NULL
    BY <2>1, MovesIs
  <2> QED
    BY <2>2, NotMoved DEF r, n
<1>6. CASE ~(n = 0 \/ n > MAX_SIZE) /\ n >= MMAP_SIZE
  <2>1. r = away
    BY <1>1, <1>6
  <2> QED
    BY <1>3, <2>1 DEF r, n
<1>7. CASE ~(n = 0 \/ n > MAX_SIZE) /\ ~(n >= MMAP_SIZE)
  <2>1. n \in Nat \ {0} /\ n < MMAP_SIZE /\ n % Align(h) = 0
    BY <1>2, <1>7, BinAssumption
  <2>2. p \in UsedOf(h.meta) /\ p \in DOMAIN h.meta
    BY <1>4, <1>7 DEF InUse, UsedOf
  <2>3. m = h.meta[p].size /\ m = Size(h, p) /\ m \in Nat \ {0} /\ META \in Nat \ {0} /\ h.brk \in Nat
        /\ HeapLimit \in Nat
    BY <2>2, SizeOfBlock, CoreIs DEF Size
  <2> HIDE DEF less, prev, next, three, left, both, last, kl, kb, m
  <2>4. r = IF m >= n THEN Moves(less, p, m)
            ELSE IF prevFree /\ Size(h, prev) + m + META >= n
            THEN Moves(Reuse(left, prev, n, TRUE), prev, kl)
            ELSE IF nextFree /\ Size(h, next) + m + META >= n
            THEN Moves(Reuse(three, p, n, TRUE), p, m)
            ELSE IF prevFree /\ nextFree /\ Size(h, prev) + Size(h, next) + m + 2 * META >= n
            THEN Moves(ReuseMerged(both, prev, n), prev, kb)
            ELSE IF next = NULL
            THEN IF h.brk + n - m > g.limit THEN Moves(h, NULL, 0) ELSE Moves(last, p, m)
            ELSE away
    BY <1>1, <1>7
  <2>5. \A x, y, k : Moved(h, x, p, y, n, k) /\ r = Moves(x, y, k) => Moved(h, r.h, p, r.p, n, r.copied)
    BY MovesIs
  <2>6. \A b \in DOMAIN h.meta : h.meta[b].size \in Nat \ {0} /\ Size(h, b) = h.meta[b].size
    BY CoreIs DEF Size
  <2>done. Moved(h, r.h, p, r.p, n, r.copied)
    <3>1. CASE m >= n
      <4>1. Moved(h, less, p, p, n, m)
        BY <2>1, <2>2, <2>3, <3>1, ReallocShrinks DEF less
      <4> QED
        BY <2>4, <2>5, <3>1, <4>1
    <3>2. CASE ~(m >= n) /\ prevFree /\ Size(h, prev) + m + META >= n
      <4> DEFINE z == h.meta[prev].size + h.meta[p].size + META
      <4>1. /\ Absorbed(h, left, p, prev, z)
            /\ prev # p /\ prev \notin UsedOf(h.meta) /\ prev \in DOMAIN h.meta
        BY <2>2, <3>2, UnitedLeft DEF left, prev
      <4>2. z \in Nat /\ z >= n /\ z >= m
        BY <2>1, <2>3, <2>6, <3>2, <4>1
      <4>3. Size(left, prev) = z
        BY <4>1 DEF Absorbed, Size
      <4> HIDE DEF z
      <4>4. kl = m
        BY <2>3, <4>2, <4>3, MinOfTwo DEF kl, MIN
      <4>5. kl \in Int /\ kl >= h.meta[p].size
        BY <2>3, <4>4
      <4>6. Moved(h, Reuse(left, prev, n, TRUE), p, prev, n, kl)
        BY <2>1, <2>2, <4>1, <4>2, <4>5, ReuseMoved
      <4> QED
        BY <2>4, <2>5, <3>2, <4>6
    <3>3. CASE /\ ~(m >= n) /\ ~(prevFree /\ Size(h, prev) + m + META >= n)
               /\ nextFree /\ Size(h, next) + m + META >= n
      <4> DEFINE z == h.meta[p].size + h.meta[next].size + META
      <4>1. Absorbed(h, three, p, p, z) /\ next \in DOMAIN h.meta
        BY <2>2, <3>3, UnitedRight DEF three, next
      <4>2. z \in Nat /\ z >= n
        BY <2>1, <2>3, <2>6, <3>3, <4>1
      <4> HIDE DEF z
      <4>3. m \in Int /\ (p # p => m >= h.meta[p].size) /\ (p = p \/ p \notin UsedOf(h.meta))
        BY <2>3
      <4>4. Moved(h, Reuse(three, p, n, TRUE), p, p, n, m)
        BY <2>1, <2>2, <4>1, <4>2, <4>3, ReuseMoved
      <4> QED
        BY <2>4, <2>5, <3>3, <4>4
    <3>4. CASE /\ ~(m >= n) /\ ~(prevFree /\ Size(h, prev) + m + META >= n)
               /\ ~(nextFree /\ Size(h, next) + m + META >= n)
               /\ prevFree /\ nextFree /\ Size(h, prev) + Size(h, next) + m + 2 * META >= n
      <4> DEFINE y == h.meta[p].size + h.meta[next].size + META
                 z == h.meta[prev].size + y + META
      <4>1. /\ Absorbed(h, both, p, prev, z) /\ Size(three, p) = y
            /\ prev # p /\ prev \notin UsedOf(h.meta) /\ prev \in DOMAIN h.meta
            /\ next \in DOMAIN h.meta
        BY <2>2, <3>4, UnitedBoth DEF both, three, prev, next
      <4>2. z \in Nat /\ z >= n /\ z >= y /\ y \in Nat /\ y >= m
        BY <2>1, <2>3, <2>6, <3>4, <4>1
      <4>3. Size(both, prev) = z
        BY <4>1 DEF Absorbed, Size
      <4> HIDE DEF z, y
      <4>4. kb = y
        BY <4>1, <4>2, <4>3, MinOfTwo DEF kb, MIN
      <4>5. kb \in Int /\ kb >= h.meta[p].size
        BY <2>3, <4>2, <4>4
      <4>6. Moved(h, ReuseMerged(both, prev, n), p, prev, n, kb)
        BY <2>1, <2>2, <4>1, <4>2, <4>5, ReuseMoved
      <4> QED
        BY <2>4, <2>5, <3>4, <4>6
    <3> DEFINE Tight == /\ ~(m >= n) /\ ~(prevFree /\ Size(h, prev) + m + META >= n)
                        /\ ~(nextFree /\ Size(h, next) + m + META >= n)
                        /\ ~(prevFree /\ nextFree /\ Size(h, prev) + Size(h, next) + m + 2 * META >= n)
    <3>5. CASE Tight /\ next = NULL /\ h.brk + n - m > g.limit
      <4>1. Moved(h, h, p, NULL, n, 0)
        BY NotMoved
      <4> QED
        BY <2>4, <2>5, <3>5, <4>1
    <3>6. CASE Tight /\ next = NULL /\ ~(h.brk + n - m > g.limit)
      <4>1. h.brk + n - m <= HeapLimit
        BY <2>1, <2>3, <3>6
      <4>2. Moved(h, last, p, p, n, m)
        <5> DEFINE e == [Place(h, p, FALSE, n) EXCEPT !.brk = @ + n - Size(h, p)]
        <5>1. list_next(h, p) = NULL /\ h.brk + n - Size(h, p) <= HeapLimit /\ m \in Int
          BY <2>3, <3>6, <4>1 DEF next
        <5>2. Moved(h, e, p, p, n, m)
          BY <2>1, <2>2, <5>1, ReallocStretches
        <5>3. last = e
          BY <2>3 DEF last
        <5> HIDE DEF e
        <5> QED
          BY <5>2, <5>3
      <4> QED
        BY <2>4, <2>5, <3>6, <4>2
    <3>7. CASE Tight /\ next # NULL
      <4>1. r = away
        BY <2>4, <3>7
      <4> QED
        BY <1>3, <4>1
    <3> QED
      BY <3>1, <3>2, <3>3, <3>4, <3>5, <3>6, <3>7
  <2> QED
    BY <2>done DEF r, n
<1> QED
  BY <1>5, <1>6, <1>7

----------------------------------------------------------------------------
\* What a call may do, seen by the user.
Same(S, h, u, h2, u2) ==
    \A c \in S : /\ SizeOf(h2, c) = SizeOf(h, c) /\ u2[c] = u[c]
                 /\ c \in DOMAIN h2.maps <=> c \in DOMAIN h.maps

Effect(h, u, h2, u2) ==
    \/ DOMAIN u2 = DOMAIN u /\ Same(DOMAIN u, h, u, h2, u2)
    \/ \E p : /\ p \notin DOMAIN u /\ DOMAIN u2 = DOMAIN u \cup {p}
              /\ Same(DOMAIN u, h, u, h2, u2)
    \/ \E p \in DOMAIN u : /\ DOMAIN u2 = DOMAIN u \ {p}
                           /\ Same(DOMAIN u \ {p}, h, u, h2, u2)
    \/ \E p \in DOMAIN u : \E q : /\ q \notin DOMAIN u \ {p} /\ DOMAIN u2 = (DOMAIN u \ {p}) \cup {q}
                                  /\ Same(DOMAIN u \ {p}, h, u, h2, u2)

\* What the call of the user leaves in its hands.
Does(h, u, h2, u2) == HeapOK(h2, u2) /\ Effect(h, u, h2, u2)

LEMMA UserIs ==
    ASSUME NEW h, NEW u, HeapOK(h, u)
    PROVE  /\ Core(h) /\ Sound(h, FreeOf(h.meta)) /\ DOMAIN u = InUse(h) /\ NULL \notin InUse(h)
           /\ \A p \in DOMAIN u : u[p] \in Nat /\ SizeOf(h, p) >= Asked(u[p])
  BY NullUnused DEF HeapOK, Used, InUse

\* A heap fits together with what the user has of it.
LEMMA HeapOKMade ==
    ASSUME NEW h, NEW P, NEW r, Kept(h, r, P), NEW v, DOMAIN v = InUse(r),
           \A p \in DOMAIN v : v[p] \in Nat /\ SizeOf(r, p) >= Asked(v[p])
    PROVE  HeapOK(r, v)
  BY DEF HeapOK, Kept, Used, InUse

\* Pointers that the call was not about.
LEMMA SameKept ==
    ASSUME NEW h, NEW u, HeapOK(h, u), NEW P, NEW r, Kept(h, r, P), NEW v,
           NEW S \in SUBSET DOMAIN u, \A p \in S : p \notin P /\ v[p] = u[p]
    PROVE  /\ Same(S, h, u, r, v)
           /\ \A p \in S : v[p] \in Nat /\ SizeOf(r, p) >= Asked(v[p])
<1>1. /\ Core(h) /\ DOMAIN u = InUse(h)
      /\ \A p \in DOMAIN u : u[p] \in Nat /\ SizeOf(h, p) >= Asked(u[p])
  BY UserIs
<1>2. ASSUME NEW p \in S
      PROVE  /\ SizeOf(r, p) = SizeOf(h, p)
             /\ p \in DOMAIN r.maps <=> p \in DOMAIN h.maps
  <2>1. p \notin P /\ p \in InUse(h)
    BY <1>1
  <2> QED
    BY <1>1, <2>1, KeptSize
<1> QED
  BY <1>1, <1>2 DEF Same

\* The user has all that it had when nothing was taken or given.
LEMMA KeepsUser ==
    ASSUME NEW h, NEW u, HeapOK(h, u), NEW r, Kept(h, r, {NULL}), NEW v, DOMAIN v = DOMAIN u,
           \A p \in DOMAIN u : v[p] = u[p]
    PROVE  Does(h, u, r, v)
<1>1. Core(h) /\ Core(r) /\ DOMAIN u = InUse(h) /\ NULL \notin InUse(h)
  BY UserIs DEF Kept
<1>2. NULL \notin InUse(r)
  BY <1>1, NullUnused DEF InUse
<1>3. \A q : q \in InUse(r) <=> q \in InUse(h)
  <2> SUFFICES ASSUME NEW q PROVE q \in InUse(r) <=> q \in InUse(h)
    OBVIOUS
  <2>1. CASE q = NULL
    BY <1>1, <1>2, <2>1
  <2>2. CASE q # NULL
    BY <1>1, <2>2, KeptSize
  <2> QED
    BY <2>1, <2>2
<1>4. DOMAIN v = InUse(r)
  BY <1>1, <1>3
<1>5. /\ Same(DOMAIN u, h, u, r, v)
      /\ \A p \in DOMAIN u : v[p] \in Nat /\ SizeOf(r, p) >= Asked(v[p])
  BY <1>1, SameKept
<1>6. HeapOK(r, v)
  BY <1>4, <1>5, HeapOKMade
<1> QED
  BY <1>5, <1>6 DEF Does, Effect

\* smalloc and scalloc.
LEMMA AllocatedUser ==
    ASSUME NEW h, NEW u, HeapOK(h, u), NEW r, NEW p, NEW k, Allocated(h, r, p, k),
           NEW n \in Nat, k \in Nat, k >= Asked(n)
    PROVE  Does(h, u, r, IF p = NULL THEN u ELSE With(u, p, n))
<1>1. CASE p = NULL
  <2>1. Kept(h, r, {NULL})
    BY <1>1 DEF Allocated
  <2>2. Does(h, u, r, u)
    BY <2>1, KeepsUser
  <2> QED
    BY <1>1, <2>2
<1>2. CASE p # NULL
  <2> DEFINE v == With(u, p, n)
  <2>1. Kept(h, r, {p}) /\ p \notin InUse(h) /\ p \in InUse(r) /\ SizeOf(r, p) >= k
    BY <1>2 DEF Allocated
  <2>2. Core(h) /\ Core(r) /\ DOMAIN u = InUse(h)
    BY <2>1, UserIs DEF Kept
  <2>3. DOMAIN v = DOMAIN u \cup {p} /\ v[p] = n /\ \A q \in DOMAIN u : q # p => v[q] = u[q]
    BY DEF With
  <2> HIDE DEF v
  <2>4. /\ Same(DOMAIN u, h, u, r, v)
        /\ \A q \in DOMAIN u : v[q] \in Nat /\ SizeOf(r, q) >= Asked(v[q])
    <3>1. \A q \in DOMAIN u : q \notin {p} /\ v[q] = u[q]
      BY <2>1, <2>2, <2>3
    <3> QED
      BY <2>1, <3>1, SameKept
  <2>5. DOMAIN v = InUse(r)
    <3>1. \A q : q # p => (q \in InUse(r) <=> q \in InUse(h))
      BY <2>1, <2>2, KeptSize
    <3> QED
      BY <2>1, <2>2, <2>3, <3>1
  <2>6. SizeOf(r, p) >= Asked(n)
    <3>1. SizeOf(r, p) \in Nat
      BY <2>1, <2>2, MapsApart, SizeOfBlock, CoreIs DEF InUse, UsedOf
    <3>2. Asked(n) \in Int
      BY AskedIs
    <3> QED
      BY <2>1, <3>1, <3>2
  <2>7. HeapOK(r, v)
    <3>1. \A q \in DOMAIN v : v[q] \in Nat /\ SizeOf(r, q) >= Asked(v[q])
      BY <2>3, <2>4, <2>6
    <3> QED
      BY <2>1, <2>5, <3>1, HeapOKMade
  <2>8. Does(h, u, r, v)
    BY <2>1, <2>2, <2>3, <2>4, <2>7 DEF Does, Effect
  <2> QED
    BY <1>2, <2>8 DEF v
<1> QED
  BY <1>1, <1>2

\* sfree.
LEMMA ReleasedUser ==
    ASSUME NEW h, NEW u, HeapOK(h, u), NEW p \in DOMAIN u, NEW r, Released(h, r, p)
    PROVE  Does(h, u, r, Drop(u, p))
<1> DEFINE v == Drop(u, p)
<1>1. Kept(h, r, {p}) /\ p \notin InUse(r) /\ Core(h) /\ DOMAIN u = InUse(h)
  BY UserIs DEF Released
<1>2. DOMAIN v = DOMAIN u \ {p} /\ \A q \in DOMAIN v : v[q] = u[q]
  BY DEF Drop
<1> HIDE DEF v
<1>3. /\ Same(DOMAIN u \ {p}, h, u, r, v)
      /\ \A q \in DOMAIN u \ {p} : v[q] \in Nat /\ SizeOf(r, q) >= Asked(v[q])
  <2>1. \A q \in DOMAIN u \ {p} : q \notin {p} /\ v[q] = u[q]
    BY <1>2
  <2> QED
    BY <1>1, <2>1, SameKept
<1>4. DOMAIN v = InUse(r)
  <2>1. \A q : q # p => (q \in InUse(r) <=> q \in InUse(h))
    BY <1>1, KeptSize
  <2> QED
    BY <1>1, <1>2, <2>1
<1>5. HeapOK(r, v)
  BY <1>1, <1>2, <1>3, <1>4, HeapOKMade
<1>6. Does(h, u, r, v)
  BY <1>2, <1>3, <1>5 DEF Does, Effect
<1> QED
  BY <1>6 DEF v

\* srealloc; what is copied is all that the two sizes share.
LEMMA MovedUser ==
    ASSUME NEW h, NEW u, HeapOK(h, u), NEW p \in DOMAIN u, NEW r, NEW q, NEW k \in Nat, NEW c,
           Moved(h, r, p, q, k, c), NEW n \in Nat, n <= k, Asked(n) <= k
    PROVE  /\ Does(h, u, r, IF q = NULL THEN u ELSE With(Drop(u, p), q, n))
           /\ ~(q \notin {NULL, p} /\ c < Min({Asked(u[p]), n}))
<1>1. CASE q = NULL
  <2>1. Kept(h, r, {NULL})
    <3>1. Core(h) /\ DOMAIN u = InUse(h) /\ NULL \notin InUse(h)
      BY UserIs
    <3> QED
      BY <1>1, <3>1 DEF Moved
  <2>2. Does(h, u, r, u)
    BY <2>1, KeepsUser
  <2> QED
    BY <1>1, <2>2
<1>2. CASE q # NULL
  <2> DEFINE d == Drop(u, p)
             v == With(d, q, n)
  <2>1. /\ Kept(h, r, {p, q}) /\ q \in InUse(r) /\ SizeOf(r, q) >= k
        /\ q # p => /\ p \notin InUse(r) /\ q \notin InUse(h)
                    /\ c \in Int /\ (c >= SizeOf(h, p) \/ c >= k)
    BY <1>2 DEF Moved
  <2>2. /\ Core(h) /\ Core(r) /\ DOMAIN u = InUse(h)
        /\ u[p] \in Nat /\ SizeOf(h, p) >= Asked(u[p])
    BY <2>1, UserIs DEF Kept
  <2>3. DOMAIN d = DOMAIN u \ {p} /\ \A x \in DOMAIN d : d[x] = u[x]
    BY DEF Drop
  <2> HIDE DEF d
  <2>4. DOMAIN v = (DOMAIN u \ {p}) \cup {q} /\ v[q] = n
        /\ \A x \in DOMAIN u \ {p} : x # q => v[x] = u[x]
    BY <2>3 DEF With
  <2> HIDE DEF v
  <2>5. q \notin DOMAIN u \ {p}
    BY <2>1, <2>2
  <2>6. /\ Same(DOMAIN u \ {p}, h, u, r, v)
        /\ \A x \in DOMAIN u \ {p} : v[x] \in Nat /\ SizeOf(r, x) >= Asked(v[x])
    <3>1. \A x \in DOMAIN u \ {p} : x \notin {p, q} /\ v[x] = u[x]
      BY <2>4, <2>5
    <3> QED
      BY <2>1, <3>1, SameKept
  <2>7. DOMAIN v = InUse(r)
    <3>1. \A x : x \notin {p, q} => (x \in InUse(r) <=> x \in InUse(h))
      BY <2>1, <2>2, KeptSize
    <3> QED
      BY <2>1, <2>2, <2>4, <3>1
  <2>8. SizeOf(r, q) >= Asked(n)
    <3>1. SizeOf(r, q) \in Nat
      BY <2>1, <2>2, MapsApart, SizeOfBlock, CoreIs DEF InUse, UsedOf
    <3>2. Asked(n) \in Int
      BY AskedIs
    <3> QED
      BY <2>1, <3>1, <3>2
  <2>9. HeapOK(r, v)
    <3>1. \A x \in DOMAIN v : v[x] \in Nat /\ SizeOf(r, x) >= Asked(v[x])
      BY <2>4, <2>6, <2>8
    <3> QED
      BY <2>1, <2>7, <3>1, HeapOKMade
  <2>10. Does(h, u, r, v)
    BY <2>4, <2>5, <2>6, <2>9 DEF Does, Effect
  <2>11. ASSUME q # p PROVE ~(c < Min({Asked(u[p]), n}))
    <3>1. SizeOf(h, p) \in Nat
      BY <2>2, MapsApart, SizeOfBlock, CoreIs DEF InUse, UsedOf
    <3>2. Asked(u[p]) \in Int
      BY <2>2, AskedIs
    <3>3. Min({Asked(u[p]), n}) = IF Asked(u[p]) <= n THEN Asked(u[p]) ELSE n
      BY <3>2, MinOfTwo
    <3>4. c \in Int /\ (c >= Asked(u[p]) \/ c >= n)
      BY <2>1, <2>2, <2>11, <3>1, <3>2
    <3> QED
      BY <3>2, <3>3, <3>4
  <2> QED
    BY <1>2, <2>10, <2>11 DEF v, d
<1> QED
  BY <1>1, <1>2

----------------------------------------------------------------------------
IInv == HeapOK(heap, held) /\ lost = FALSE

\* Every call keeps the inductive invariant, does to the user's blocks only what it may, and
\* copies all that it has to.
LEMMA StepDoes ==
    ASSUME IInv, Next
    PROVE  IInv' /\ Effect(heap, held, heap', held')
<1>1. /\ HeapOK(heap, held) /\ lost = FALSE /\ Core(heap) /\ Sound(heap, FreeOf(heap.meta))
      /\ DOMAIN held = InUse(heap) /\ heap.version \in Versions
  BY UserIs DEF IInv, Core
<1>2. \A g \in Grants : g.limit \in 0..HeapLimit
  BY DEF Grants
<1>3. /\ \A n \in Sizes[heap.version] : n \in Nat /\ n < WORD /\ Asked(n) = n
      /\ \A n \in ReallocSizes[heap.version] : n \in Nat /\ n < WORD /\ Asked(n) = n
  BY <1>1, AskedIs, WordAssumption
<1>4. ASSUME heap.broken = "none", NEW n \in Sizes[heap.version], Smalloc(n)
      PROVE  Does(heap, held, heap', held') /\ lost' = FALSE
  <2>1. PICK g \in Grants : LET r == smalloc(heap, n, g) IN
                            /\ heap' = r.h
                            /\ held' = IF r.p = NULL THEN held ELSE With(held, r.p, n)
                            /\ lost' = lost
    BY <1>4 DEF Smalloc
  <2> DEFINE r == smalloc(heap, n, g)
             k == round_up(heap, n)
  <2>2. n \in Nat /\ k \in Nat /\ k >= Asked(n) /\ g.limit \in 0..HeapLimit
    BY <1>2, <1>3, RoundUpIs
  <2>3. Allocated(heap, r.h, r.p, k)
    BY <1>1, <1>4, <2>2, SmallocDoes
  <2> HIDE DEF k
  <2>4. Does(heap, held, r.h, IF r.p = NULL THEN held ELSE With(held, r.p, n))
    <3> HIDE DEF r
    <3> QED
      BY <1>1, <2>2, <2>3, AllocatedUser
  <2> QED
    BY <1>1, <2>1, <2>4
<1>5. ASSUME heap.broken = "none", NEW c \in Callocs, Scalloc(c[1], c[2])
      PROVE  Does(heap, held, heap', held') /\ lost' = FALSE
  <2> DEFINE m == c[1] * c[2]
             n == Asked(m)
  <2>1. PICK g \in Grants : LET r == smalloc(heap, n, g) IN
                            /\ heap' = r.h
                            /\ held' = IF r.p = NULL THEN held ELSE With(held, r.p, m)
                            /\ lost' = lost
    BY <1>5 DEF Scalloc
  <2>2. c[1] \in Nat /\ c[2] \in Nat
    BY WordAssumption
  <2>3. m \in Nat
    BY <2>2
  <2> HIDE DEF m
  <2> DEFINE r == smalloc(heap, n, g)
             k == round_up(heap, n)
  <2>4. n \in Nat
    BY <2>3, AskedIs, WordAssumption
  <2>5. k \in Nat /\ k >= n /\ g.limit \in 0..HeapLimit
    <3> HIDE DEF n
    <3> QED
      BY <1>2, <2>4, RoundUpIs
  <2>6. Allocated(heap, r.h, r.p, k)
    <3> HIDE DEF n
    <3> QED
      BY <1>1, <1>5, <2>4, <2>5, SmallocDoes
  <2> HIDE DEF k
  <2>7. Does(heap, held, r.h, IF r.p = NULL THEN held ELSE With(held, r.p, m))
    <3> HIDE DEF r
    <3> QED
      BY <1>1, <2>3, <2>5, <2>6, AllocatedUser
  <2> QED
    BY <1>1, <2>1, <2>7
<1>6. ASSUME heap.broken = "none", NEW p \in DOMAIN held \cup DOMAIN heap.meta, Sfree(p)
      PROVE  Does(heap, held, heap', held') /\ lost' = FALSE
  <2>1. heap' = sfree(heap, p) /\ held' = Drop(held, p) /\ lost' = lost
    BY <1>6 DEF Sfree
  <2>2. CASE p \in DOMAIN held
    <3>1. Released(heap, sfree(heap, p), p)
      BY <1>1, <1>6, <2>2, SfreeDoes
    <3> QED
      BY <1>1, <2>1, <2>2, <3>1, ReleasedUser
  <2>3. CASE p \notin DOMAIN held
    <3>1. p \in DOMAIN heap.meta /\ p \notin UsedOf(heap.meta)
      BY <1>1, <1>6, <2>3 DEF InUse
    <3>2. p \notin DOMAIN heap.maps /\ IsFree(heap, p)
      BY <1>1, <3>1, SizeOfBlock DEF UsedOf, IsFree
    <3>3. sfree(heap, p) = heap
      BY <3>2 DEF sfree
    <3>4. Kept(heap, heap, {NULL})
      BY <1>1 DEF Kept, SameUsed, SameMaps
    <3>5. DOMAIN Drop(held, p) = DOMAIN held /\ \A x \in DOMAIN held : Drop(held, p)[x] = held[x]
      BY <2>3 DEF Drop
    <3>6. Does(heap, held, heap, Drop(held, p))
      BY <1>1, <3>4, <3>5, KeepsUser
    <3> QED
      BY <1>1, <2>1, <3>3, <3>6
  <2> QED
    BY <2>2, <2>3
<1>7. ASSUME heap.broken = "none", NEW p \in DOMAIN held, NEW n \in ReallocSizes[heap.version],
             Srealloc(p, n)
      PROVE  Does(heap, held, heap', held') /\ lost' = FALSE
  <2>1. p \in DOMAIN heap.maps => round_up(heap, n) >= MMAP_SIZE
    BY <1>7 DEF Srealloc
  <2>2. PICK g \in Grants :
           LET r == srealloc(heap, p, n, g) IN
           /\ heap' = r.h
           /\ held' = IF r.p = NULL THEN held ELSE With(Drop(held, p), r.p, n)
           /\ lost' = (lost \/ (r.p \notin {NULL, p} /\ r.copied < Min({Asked(held[p]), n})))
    BY <1>7 DEF Srealloc
  <2> DEFINE r == srealloc(heap, p, n, g)
             k == round_up(heap, n)
  <2>3. n \in Nat /\ k \in Nat /\ n <= k /\ Asked(n) <= k /\ g.limit \in 0..HeapLimit
    BY <1>2, <1>3, RoundUpIs
  <2>4. Moved(heap, r.h, p, r.p, k, r.copied)
    BY <1>1, <1>7, <2>1, <2>3, SreallocDoes
  <2> HIDE DEF k
  <2>5. /\ Does(heap, held, r.h, IF r.p = NULL THEN held ELSE With(Drop(held, p), r.p, n))
        /\ ~(r.p \notin {NULL, p} /\ r.copied < Min({Asked(held[p]), n}))
    <3> HIDE DEF r
    <3> QED
      BY <1>1, <2>3, <2>4, MovedUser
  <2> HIDE DEF r
  <2>6. /\ heap' = r.h
        /\ held' = IF r.p = NULL THEN held ELSE With(Drop(held, p), r.p, n)
        /\ lost' = (lost \/ (r.p \notin {NULL, p} /\ r.copied < Min({Asked(held[p]), n})))
    BY <2>2 DEF r
  <2> QED
    BY <1>1, <2>5, <2>6
<1>8. ASSUME UNCHANGED vars PROVE Does(heap, held, heap', held') /\ lost' = FALSE
  <2>1. heap' = heap /\ held' = held /\ lost' = lost
    BY <1>8 DEF vars
  <2>2. Kept(heap, heap, {NULL})
    BY <1>1 DEF Kept, SameUsed, SameMaps
  <2>3. Does(heap, held, heap, held)
    BY <1>1, <2>2, KeepsUser
  <2> QED
    BY <1>1, <2>1, <2>3
<1>9. Does(heap, held, heap', held') /\ lost' = FALSE
  BY <1>4, <1>5, <1>6, <1>7, <1>8 DEF Next
<1> QED
  BY <1>9 DEF Does, IInv

\* The allocator starts with an empty heap.
LEMMA StartOK == Init => IInv
<1> SUFFICES ASSUME Init PROVE IInv
  OBVIOUS
<1> DEFINE none == << >>
           empty == [i \in 0..(NBINS - 1) |-> none]
           Start(v) == [list |-> none, meta |-> none, histo |-> empty,
                        num_of_metadatas |-> 0, mmaped_blocks_num |-> 0,
                        mmaped_bytes_num |-> 0, maps |-> none, brk |-> 0,
                        broken |-> "none", version |-> v]
<1>1. DOMAIN none = {} /\ Len(none) = 0 /\ none \in Seq(0..HeapLimit)
      /\ none = [b \in DOMAIN none |-> none[b]]
  OBVIOUS
<1> HIDE DEF none
<1>2. PICK v \in Versions : heap = Start(v)
  BY DEF Init, none
<1>3. held = none /\ lost = FALSE
  BY DEF Init, none
<1>4. /\ heap.list = none /\ heap.meta = none /\ heap.histo = empty /\ heap.num_of_metadatas = 0
      /\ heap.mmaped_blocks_num = 0 /\ heap.mmaped_bytes_num = 0 /\ heap.maps = none
      /\ heap.brk = 0 /\ heap.broken = "none" /\ heap.version = v /\ IsHeap(heap)
  BY <1>2 DEF IsHeap, Fields
<1> HIDE DEF Start
<1>5. 0 \in 0..HeapLimit /\ HeapLimit \in Nat /\ META \in Nat /\ AddressLimit \in Nat
  BY LayoutAssumption
<1>6. IsMeta(none) /\ FreeOf(none) = {} /\ UsedOf(none) = {}
  BY <1>1 DEF IsMeta, FreeOf, UsedOf
<1>7. Listed(none, DOMAIN none)
  BY <1>1 DEF Listed, Ordered
<1>8. Layout(none, 0, Align(heap))
  <2>1. 0 % Align(heap) = 0
    BY AlignIs
  <2> QED
    BY <1>1, <1>5, <2>1 DEF Layout
<1>9. Cardinality(DOMAIN none) = 0
  BY <1>1, FS_EmptySet
<1>10. Counted(none, 0, 0)
  <2>1. Total(none) = 0
    BY <1>1, <1>5, SumOverNone DEF Total
  <2>2. META * 0 = 0
    BY <1>5
  <2> QED
    BY <1>9, <2>1, <2>2 DEF Counted
<1>11. MapsOK(heap)
  <2>1. SumOver(none, DOMAIN none, AddressLimit) = 0
    BY <1>1, <1>5, SumOverNone
  <2> QED
    BY <1>1, <1>4, <1>9, <2>1 DEF MapsOK
<1>12. Core(heap)
  BY <1>4, <1>6, <1>7, <1>8, <1>10, <1>11 DEF Core
<1>13. Sound(heap, FreeOf(heap.meta))
  <2>1. Histo(empty, none, {})
    <3>1. \A i \in 0..(NBINS - 1) : empty[i] = none /\ InBin(none, {}, i) = {}
      BY DEF InBin
    <3>2. Ordered(none, {}, SizesOf(none))
      BY <1>1 DEF Ordered
    <3>3. empty = [i \in 0..(NBINS - 1) |-> empty[i]]
      OBVIOUS
    <3> HIDE DEF empty
    <3> QED
      BY <1>1, <3>1, <3>2, <3>3 DEF Histo
  <2> QED
    BY <1>1, <1>4, <1>6, <2>1 DEF Sound
<1>14. Used(held, heap)
  BY <1>1, <1>3, <1>4, <1>6 DEF Used
<1> QED
  BY <1>3, <1>12, <1>13, <1>14 DEF IInv, HeapOK

\* The statics and the user's pointers fit together after any sequence of calls of either
\* file, whatever the kernel refuses (malloc_3.cpp, malloc_4.cpp).
THEOREM BinInvariant == Spec => []IInv
<1>1. IInv /\ [Next]_vars => IInv'
  <2>1. CASE Next
    BY <2>1, StepDoes
  <2>2. CASE UNCHANGED vars
    BY <2>2 DEF vars, IInv
  <2> QED
    BY <2>1, <2>2
<1> QED
  BY <1>1, StartOK, PTL DEF Spec

\* srealloc copies all that the user had in the part that both sizes share.
THEOREM CopiesAll == Spec => []ContentKept
<1>1. IInv => ContentKept
  BY DEF IInv, ContentKept
<1> QED
  BY <1>1, BinInvariant, PTL

\* Of the user's pointers exactly the mapped ones are as large as a mapping, so that sfree
\* unmaps those and no block of the heap.
THEOREM MappedBySize == Spec => []SizeTellsMapped
<1>1. IInv => SizeTellsMapped
  <2> SUFFICES ASSUME IInv, heap.broken = "none", NEW p \in DOMAIN held
               PROVE  SizeOf(heap, p) >= MMAP_SIZE <=> p \in DOMAIN heap.maps
    BY DEF SizeTellsMapped
  <2>1. Core(heap) /\ Sound(heap, FreeOf(heap.meta)) /\ DOMAIN held = InUse(heap)
    BY UserIs DEF IInv
  <2>2. CASE p \in DOMAIN heap.maps
    BY <2>1, <2>2, MapsApart
  <2>3. CASE p \notin DOMAIN heap.maps
    <3>1. p \in DOMAIN heap.meta
      BY <2>1, <2>3 DEF InUse, UsedOf
    <3>2. SizeOf(heap, p) = heap.meta[p].size /\ heap.meta[p].size < MMAP_SIZE
          /\ heap.meta[p].size \in Nat /\ MMAP_SIZE \in Nat
      BY <2>1, <3>1, SizeOfBlock, CoreIs, BinAssumption DEF Sound
    <3> QED
      BY <2>3, <3>2
  <2> QED
    BY <2>2, <2>3
<1> QED
  BY <1>1, BinInvariant, PTL

\* The blocks of the list are those that have metadata.
LEMMA BlocksAre ==
    ASSUME Core(heap)
    PROVE  Blocks = DOMAIN heap.meta /\ DOMAIN heap.list = 1..Len(heap.list)
<1> DEFINE l == heap.list
           D == DOMAIN heap.meta
<1>1. Listed(l, D)
  BY CoreIs
<1>2. l \in Seq(0..HeapLimit)
  BY <1>1 DEF Listed
<1>3. DOMAIN l = 1..Len(l)
  BY <1>2, LenProperties
<1>4. /\ \A i \in 1..Len(l) : l[i] \in D
      /\ \A d \in D : \E i \in 1..Len(l) : l[i] = d
  BY <1>1, ListedIs
<1> HIDE DEF l, D
<1>5. Range(l) = D
  BY <1>3, <1>4 DEF Range
<1> QED
  BY <1>3, <1>5 DEF Blocks, l, D

\* The statics are well formed, no two blocks overlap, and those in use are the user's, for
\* both files and for every sequence of calls.
THEOREM HeapCorrect == Spec => []HeapInv
<1>1. IInv => HeapInv
  <2> SUFFICES ASSUME IInv PROVE HeapInv
    OBVIOUS
  <2> DEFINE l == heap.list
             m == heap.meta
             a == Align(heap)
  <2>1. /\ Core(heap) /\ DOMAIN held = InUse(heap) /\ lost = FALSE
        /\ \A p \in DOMAIN held : SizeOf(heap, p) >= Asked(held[p])
    BY UserIs DEF IInv
  <2>2. Blocks = DOMAIN m
    BY <2>1, BlocksAre
  <2>3. /\ IsMeta(m) /\ Listed(l, DOMAIN m) /\ Layout(m, heap.brk, a) /\ heap.num_of_metadatas \in Int
        /\ heap.version \in Versions /\ heap.broken \in {"none", "index", "merged"}
        /\ DOMAIN heap.maps \subseteq Maps
        /\ heap.num_of_metadatas - heap.mmaped_blocks_num >= Cardinality(DOMAIN m)
    BY <2>1 DEF Core, MapsOK, Counted
  <2>4. heap.num_of_metadatas \in Nat
    <3>1. heap.mmaped_blocks_num \in Nat /\ Cardinality(DOMAIN m) \in Nat
      BY <2>1, <2>3, CoreIs, MetaIs
    <3> QED
      BY <2>3, <3>1
  <2>5. /\ \A b \in DOMAIN m : m[b] \in [size : Nat \ {0}, is_free : BOOLEAN]
        /\ heap.brk \in 0..HeapLimit
    BY <2>3 DEF IsMeta, Meta, Layout
  <2>6. TypeOK
    BY <2>1, <2>2, <2>3, <2>4, <2>5 DEF TypeOK
  <2>7. /\ Len(l) \in Nat
        /\ \A i \in 1..Len(l) : l[i] \in DOMAIN m /\ l[i] \in Nat
        /\ \A i, j \in 1..Len(l) : i < j => l[i] < l[j]
    BY <2>3, ListedIs
  <2>8. /\ \A b \in DOMAIN m : b % a = 0 /\ m[b].size % a = 0 /\ b + META + m[b].size <= heap.brk
        /\ \A b, c \in DOMAIN m : b < c => b + META + m[b].size <= c
    BY <2>3 DEF Layout
  <2>9. \A i \in 1..(Len(l) - 1) : l[i] + META + m[l[i]].size <= l[i + 1]
    <3> SUFFICES ASSUME NEW i \in 1..(Len(l) - 1) PROVE l[i] + META + m[l[i]].size <= l[i + 1]
      OBVIOUS
    <3>1. i \in 1..Len(l) /\ i + 1 \in 1..Len(l) /\ i < i + 1
      BY <2>7
    <3> QED
      BY <2>7, <2>8, <3>1
  <2>10. l # << >> => Last(l) + META + m[Last(l)].size <= heap.brk
    <3> SUFFICES ASSUME l # << >> PROVE Last(l) + META + m[Last(l)].size <= heap.brk
      OBVIOUS
    <3>1. l \in Seq(0..HeapLimit)
      BY <2>3 DEF Listed
    <3>2. Len(l) # 0
      BY <3>1, EmptySeq
    <3>3. Len(l) \in 1..Len(l)
      BY <2>7, <3>2
    <3> QED
      BY <2>7, <2>8, <3>3 DEF Last
  <2>11. NoOverlap
    BY <2>2, <2>8, <2>9, <2>10 DEF NoOverlap, Size
  <2>12. UserBlocks
    BY <2>1, <2>2 DEF UserBlocks, InUse, UsedOf, IsFree
  <2> QED
    BY <2>6, <2>11, <2>12 DEF HeapInv
<1> QED
  BY <1>1, BinInvariant, PTL

\* The histogram holds every free block once, in the bin of its size, sorted, and nothing
\* else, unless a block grew too large for it or was merged from three by malloc_3.cpp.
THEOREM HistogramCorrect == Spec => []HistogramValid
<1>1. IInv => HistogramValid
  <2> SUFFICES ASSUME IInv, heap.broken = "none" PROVE HistogramExact
    BY DEF HistogramValid
  <2> DEFINE m == heap.meta
             S == FreeOf(m)
             z == SizesOf(m)
  <2>1. Core(heap) /\ Histo(heap.histo, m, S)
    BY UserIs DEF IInv, Sound
  <2>2. Blocks = DOMAIN m
    BY <2>1, BlocksAre
  <2>3. \A b \in DOMAIN m : m[b].is_free \in BOOLEAN /\ z[b] = m[b].size
    BY <2>1, CoreIs DEF SizesOf
  <2>4. ASSUME NEW i \in 0..(NBINS - 1), NEW q, q = heap.histo[i]
        PROVE  /\ \A b \in DOMAIN m :
                     Cardinality({j \in DOMAIN q : q[j] = b})
                       = IF IsFree(heap, b) /\ i = BinOf(heap, b) THEN 1 ELSE 0
               /\ Range(q) \subseteq DOMAIN m
               /\ IsSorted(q, LAMBDA x, y : Size(heap, x) <= Size(heap, y))
    <3> DEFINE T == InBin(m, S, i)
    <3>1. q \in Seq(0..HeapLimit) /\ Ordered(q, T, z)
      BY <2>1, <2>4 DEF Histo
    <3>2. DOMAIN q = 1..Len(q)
      BY <3>1, LenProperties
    <3>3. T \subseteq DOMAIN m
      BY DEF InBin, FreeOf
    <3>4. \A b \in DOMAIN m : b \in T <=> IsFree(heap, b) /\ i = BinOf(heap, b)
      BY DEF InBin, FreeOf, IsFree, BinOf, Size
    <3> HIDE DEF T
    <3>5. ASSUME NEW b \in DOMAIN m
          PROVE  Cardinality({j \in DOMAIN q : q[j] = b})
                   = IF IsFree(heap, b) /\ i = BinOf(heap, b) THEN 1 ELSE 0
      <4> DEFINE J == {j \in 1..Len(q) : q[j] = b}
      <4>1. CASE b \in T
        <5>1. /\ J # {} /\ Min(J) \in 1..Len(q) /\ q[Min(J)] = b
              /\ \A j \in 1..Len(q) : q[j] = b => j = Min(J)
          BY <3>1, <4>1, PositionIs
        <5>2. J = {Min(J)}
          BY <5>1
        <5>3. Cardinality(J) = 1
          BY <5>2, FS_Singleton
        <5> QED
          BY <3>2, <3>4, <4>1, <5>3
      <4>2. CASE b \notin T
        <5>1. J = {}
          BY <3>1, <4>2 DEF Ordered
        <5>2. Cardinality(J) = 0
          BY <5>1, FS_EmptySet
        <5> QED
          BY <3>2, <3>4, <4>2, <5>2
      <4> QED
        BY <4>1, <4>2
    <3>6. Range(q) \subseteq DOMAIN m
      BY <3>1, <3>2, <3>3 DEF Range, Ordered
    <3>7. IsSorted(q, LAMBDA x, y : Size(heap, x) <= Size(heap, y))
      <4>1. \A j, k \in 1..Len(q) : j < k => Size(heap, q[j]) <= Size(heap, q[k])
        BY <2>3, <3>1, <3>3 DEF Ordered, Size
      <4> QED
        BY <4>1 DEF IsSorted
    <3> QED
      BY <3>5, <3>6, <3>7
  <2>5. ASSUME NEW b \in Blocks, NEW i \in 0..(NBINS - 1)
        PROVE  Cardinality({j \in DOMAIN heap.histo[i] : heap.histo[i][j] = b})
                 = IF IsFree(heap, b) /\ i = BinOf(heap, b) THEN 1 ELSE 0
    <3>1. b \in DOMAIN m
      BY <2>2
    <3> QED
      BY <2>4, <3>1, Zenon
  <2>6. ASSUME NEW i \in 0..(NBINS - 1)
        PROVE  /\ Range(heap.histo[i]) \subseteq Blocks
               /\ IsSorted(heap.histo[i], LAMBDA x, y : Size(heap, x) <= Size(heap, y))
    BY <2>2, <2>4
  <2> QED
    BY <2>5, <2>6 DEF HistogramExact
<1> QED
  BY <1>1, BinInvariant, PTL

\* The list is as long as there are blocks.
LEMMA ListLength ==
    ASSUME NEW l, NEW D, Listed(l, D)
    PROVE  Len(l) = Cardinality(D) /\ IsFiniteSet(D)
<1>1. /\ Len(l) \in Nat
      /\ \A i \in 1..Len(l) : l[i] \in D /\ l[i] \in Nat
      /\ \A d \in D : \E i \in 1..Len(l) : l[i] = d
      /\ \A i, j \in 1..Len(l) : i < j => l[i] < l[j]
  BY ListedIs
<1> DEFINE f == [i \in 1..Len(l) |-> l[i]]
<1>2. \A i, j \in 1..Len(l) : f[i] = f[j] => i = j
  <2> SUFFICES ASSUME NEW i \in 1..Len(l), NEW j \in 1..Len(l), l[i] = l[j] PROVE i = j
    OBVIOUS
  <2>1. ~(i < j) /\ ~(j < i)
    BY <1>1
  <2> QED
    BY <1>1, <2>1
<1>3. f \in [1..Len(l) -> D] /\ \A d \in D : \E i \in 1..Len(l) : f[i] = d
  BY <1>1
<1> HIDE DEF f
<1>4. f \in Bijection(1..Len(l), D)
  BY <1>2, <1>3 DEF Bijection, Injection, Surjection, IsInjective
<1>5. ExistsBijection(1..Len(l), D)
  BY <1>4 DEF ExistsBijection
<1>6. 1 \in Int /\ Len(l) \in Int /\ (1 > Len(l) => Len(l) = 0)
  BY <1>1
<1>7. IsFiniteSet(1..Len(l)) /\ Cardinality(1..Len(l)) = Len(l)
  BY <1>6, FS_Interval
<1> QED
  BY <1>5, <1>7, FS_Bijection

\* The blocks are free or in use, and the user has those in use and the mapped ones: so
\* many of each, with so many bytes.
LEMMA BlocksDivide ==
    ASSUME NEW h, NEW u, HeapOK(h, u)
    PROVE  /\ Cardinality(DOMAIN h.meta) \in Nat /\ Cardinality(FreeOf(h.meta)) \in Nat
           /\ Cardinality(DOMAIN h.maps) \in Nat /\ Cardinality(DOMAIN u) \in Nat
           /\ Cardinality(DOMAIN h.meta) + Cardinality(DOMAIN h.maps)
                 = Cardinality(FreeOf(h.meta)) + Cardinality(DOMAIN u)
<1> DEFINE F == FreeOf(h.meta)
           U == UsedOf(h.meta)
           M == DOMAIN h.maps
           D == DOMAIN h.meta
<1>1. Core(h) /\ DOMAIN u = U \cup M
  BY UserIs DEF InUse
<1>2. D = F \cup U /\ F \cap U = {} /\ U \cap M = {}
  BY <1>1, MapsApart DEF FreeOf, UsedOf
<1>3. IsFiniteSet(D) /\ F \in SUBSET D /\ U \in SUBSET D
  BY <1>1, MetaIs, CoreIs DEF FreeOf, UsedOf
<1>4. IsFiniteSet(M)
  <2>1. M \subseteq Maps
    BY <1>1 DEF Core, MapsOK
  <2>2. IsFiniteSet(Maps)
    BY LayoutAssumption, FS_Interval DEF Maps
  <2> QED
    BY <2>1, <2>2, FS_Subset
<1> HIDE DEF F, U, M, D
<1>5. IsFiniteSet(F) /\ IsFiniteSet(U)
  BY <1>3, FS_Subset
<1>6. Cardinality(D) = Cardinality(F) + Cardinality(U) - Cardinality(F \cap U)
  BY <1>2, <1>5, FS_Union
<1>7. Cardinality(U \cup M) = Cardinality(U) + Cardinality(M) - Cardinality(U \cap M)
  BY <1>4, <1>5, FS_Union
<1>8. Cardinality(F \cap U) = 0 /\ Cardinality(U \cap M) = 0
  BY <1>2, FS_EmptySet
<1>9. Cardinality(F) \in Nat /\ Cardinality(U) \in Nat /\ Cardinality(M) \in Nat /\ Cardinality(D) \in Nat
  BY <1>3, <1>4, <1>5, FS_CardinalityType
<1>10. /\ Cardinality(D) + Cardinality(M) = Cardinality(F) + Cardinality(DOMAIN u)
       /\ Cardinality(DOMAIN u) \in Nat
  BY <1>1, <1>6, <1>7, <1>8, <1>9
<1> QED
  BY <1>9, <1>10 DEF F, D, M

LEMMA BytesDivide ==
    ASSUME NEW h, NEW u, HeapOK(h, u), NEW z, z = SizesOf(h.meta)
    PROVE  /\ Total(h.meta) \in Nat /\ SumOver(z, FreeOf(h.meta), AddressLimit) \in Nat
           /\ h.mmaped_bytes_num \in Nat
           /\ SumOver([p \in DOMAIN u |-> SizeOf(h, p)], DOMAIN u, AddressLimit) \in Nat
           /\ Total(h.meta) + h.mmaped_bytes_num
                 = SumOver(z, FreeOf(h.meta), AddressLimit)
                     + SumOver([p \in DOMAIN u |-> SizeOf(h, p)], DOMAIN u, AddressLimit)
<1> DEFINE F == FreeOf(h.meta)
           U == UsedOf(h.meta)
           M == DOMAIN h.maps
           D == DOMAIN h.meta
           N == AddressLimit
           s == [p \in DOMAIN u |-> SizeOf(h, p)]
<1>1. Core(h) /\ DOMAIN u = U \cup M /\ N \in Nat
  BY UserIs, LayoutAssumption DEF InUse
<1>2. D = F \cup U /\ F \cap U = {} /\ U \cap M = {}
  BY <1>1, MapsApart DEF FreeOf, UsedOf
<1>3. \A b \in D : z[b] \in Nat /\ z[b] = h.meta[b].size
  BY <1>1, CoreIs DEF SizesOf
<1>4. \A p \in U : p \in D /\ s[p] = z[p]
  BY <1>1, <1>2, <1>3, SizeOfBlock
<1>5. \A p \in M : h.maps[p] \in Nat /\ s[p] = h.maps[p]
  BY <1>1, MapsApart
<1>6. Total(h.meta) = SumOver(z, D, N) /\ h.mmaped_bytes_num = SumOver(h.maps, M, N)
  BY <1>1 DEF Total, Core, MapsOK
<1> HIDE DEF F, U, M, D, N, s
<1>7. SumOver(z, F \cup U, N) = SumOver(z, F, N) + SumOver(z, U, N)
  BY <1>1, <1>2, <1>3, SumOverUnion
<1>8. SumOver(s, U \cup M, N) = SumOver(s, U, N) + SumOver(s, M, N)
  <2>1. \A y \in U \cup M : y \in 0..N => s[y] \in Nat
    BY <1>2, <1>3, <1>4, <1>5
  <2> QED
    BY <1>1, <1>2, <2>1, SumOverUnion
<1>9. SumOver(z, U, N) \in Nat /\ SumOver(s, U, N) = SumOver(z, U, N)
  BY <1>1, <1>3, <1>4, SumOverIs
<1>10. SumOver(h.maps, M, N) \in Nat /\ SumOver(s, M, N) = SumOver(h.maps, M, N)
  BY <1>1, <1>5, SumOverIs
<1>11. SumOver(z, F, N) \in Nat
  BY <1>1, <1>2, <1>3, SumOverIs
<1>12. SumOver(z, D, N) = SumOver(z, F, N) + SumOver(z, U, N)
  BY <1>2, <1>7
<1>13. SumOver(s, DOMAIN u, N) = SumOver(z, U, N) + SumOver(h.maps, M, N)
  BY <1>1, <1>8, <1>9, <1>10
<1>14. /\ Total(h.meta) \in Nat /\ h.mmaped_bytes_num \in Nat /\ SumOver(s, DOMAIN u, N) \in Nat
       /\ Total(h.meta) + h.mmaped_bytes_num = SumOver(z, F, N) + SumOver(s, DOMAIN u, N)
  BY <1>6, <1>9, <1>10, <1>11, <1>12, <1>13
<1> QED
  BY <1>11, <1>14 DEF F, N, s

\* Every byte below the break is counted by the statistics, as that of a block or of
\* metadata, and what they call allocated and not free is what the user holds, after any
\* sequence of calls, failed ones included (malloc_3.cpp:486-540).
THEOREM StatisticsExact == Spec => []BytesAccounted
<1>1. IInv => BytesAccounted
  <2> SUFFICES ASSUME IInv PROVE BytesAccounted
    OBVIOUS
  <2> DEFINE m == heap.meta
             z == SizesOf(m)
             F == FreeOf(m)
             B == heap.mmaped_blocks_num
             K == heap.num_of_metadatas
             U == SumOver([p \in DOMAIN held |-> SizeOf(heap, p)], DOMAIN held, AddressLimit)
             G == SumOver(z, F, AddressLimit)
  <2>1. HeapOK(heap, held) /\ Core(heap)
    BY UserIs DEF IInv
  <2>2. Blocks = DOMAIN m /\ FreeBlocks = F
    BY <2>1, BlocksAre DEF FreeBlocks, FreeOf, IsFree
  <2>3. \A S : SumOfSizes(S) = SumOver(z, S, AddressLimit)
    <3>1. [b \in Blocks |-> Size(heap, b)] = z
      BY <2>2 DEF Size, SizesOf
    <3> QED
      BY <3>1 DEF SumOfSizes
  <2>4. SumOfSizes(Blocks) = Total(m) /\ SumOfSizes(FreeBlocks) = G
    BY <2>2, <2>3 DEF Total
  <2>5. Len(heap.list) = Cardinality(DOMAIN m)
    BY <2>1, CoreIs, ListLength
  <2>6. /\ Cardinality(DOMAIN m) \in Nat /\ Cardinality(F) \in Nat
        /\ B \in Nat /\ B = Cardinality(DOMAIN heap.maps) /\ Cardinality(DOMAIN held) \in Nat
        /\ Cardinality(DOMAIN m) + B = Cardinality(F) + Cardinality(DOMAIN held)
    BY <2>1, BlocksDivide DEF Core, MapsOK
  <2>7. /\ Total(m) \in Nat /\ G \in Nat /\ U \in Nat /\ heap.mmaped_bytes_num \in Nat
        /\ Total(m) + heap.mmaped_bytes_num = G + U
    BY <2>1, BytesDivide
  <2>8. heap.mmaped_bytes_num = SumOver(heap.maps, DOMAIN heap.maps, AddressLimit)
    BY <2>1 DEF Core, MapsOK
  <2>9. K \in Int /\ META \in Nat /\ Total(m) + META * (K - B) = heap.brk
    BY <2>1, CoreIs DEF Core, Counted
  <2> HIDE DEF m, z, F, B, K, U, G
  <2>10. META * (K - B) = K * META - META * B
    BY <2>6, <2>9
  <2>11. _num_allocated_bytes = Total(m) + heap.mmaped_bytes_num /\ _num_meta_data_bytes = K * META
    BY <2>4 DEF _num_allocated_bytes, _num_meta_data_bytes, K
  <2>12. (_num_allocated_bytes - heap.mmaped_bytes_num) + (_num_meta_data_bytes - META * B) = heap.brk
    <3>1. K * META \in Int /\ META * B \in Int
      BY <2>6, <2>9
    <3>2. (_num_allocated_bytes - heap.mmaped_bytes_num) = Total(m)
      BY <2>7, <2>11
    <3>3. _num_meta_data_bytes - META * B = META * (K - B)
      BY <2>10, <2>11
    <3> QED
      BY <2>9, <3>2, <3>3
  <2>13. _num_allocated_blocks - _num_free_blocks = Cardinality(DOMAIN held)
    <3>1. _num_allocated_blocks = Cardinality(DOMAIN m) + B /\ _num_free_blocks = Cardinality(F)
      BY <2>2, <2>5 DEF _num_allocated_blocks, _num_free_blocks, B
    <3> QED
      BY <2>6, <3>1
  <2>14. _num_allocated_bytes - _num_free_bytes = U
    <3>1. _num_free_bytes = G
      BY <2>4 DEF _num_free_bytes
    <3> QED
      BY <2>7, <2>11, <3>1
  <2> QED
    BY <2>6, <2>8, <2>12, <2>13, <2>14 DEF BytesAccounted, B, U
<1> QED
  BY <1>1, BinInvariant, PTL

----------------------------------------------------------------------------
\* The bytes of a pointer: those of its mapping, or those behind its metadata.
BytesIn(x, a, z) == {<<x, i>> : i \in a..z}
Bytes(h, p) ==
    IF p \in DOMAIN h.maps THEN {<<p, i>> : i \in 1..h.maps[p]}
    ELSE {<<NULL, i>> : i \in (p + META)..(p + META + Size(h, p) - 1)}

\* How many bytes there are.
LEMMA BytesCount ==
    ASSUME NEW x, NEW a \in Int, NEW z \in Int, NEW n \in Nat, z - a + 1 = n
    PROVE  Cardinality(BytesIn(x, a, z)) = n
<1> DEFINE f == [i \in a..z |-> <<x, i>>]
           R == BytesIn(x, a, z)
<1>1. f \in [a..z -> R] /\ \A t \in R : \E i \in a..z : f[i] = t
  BY DEF BytesIn
<1>2. \A i, j \in a..z : f[i] = f[j] => i = j
  OBVIOUS
<1> HIDE DEF f, R
<1>3. f \in Bijection(a..z, R)
  BY <1>1, <1>2 DEF Bijection, Injection, Surjection, IsInjective
<1>4. ExistsBijection(a..z, R)
  BY <1>3 DEF ExistsBijection
<1>5. IsFiniteSet(a..z) /\ Cardinality(a..z) = IF a > z THEN 0 ELSE z - a + 1
  BY FS_Interval
<1>6. Cardinality(a..z) = n
  BY <1>5
<1> QED
  BY <1>4, <1>5, <1>6, FS_Bijection DEF R

\* A pointer of the user's has the bytes that were asked for, and shares none.
LEMMA BytesApart ==
    ASSUME NEW h, NEW u, HeapOK(h, u), NEW p \in DOMAIN u
    PROVE  /\ Cardinality(Bytes(h, p)) >= Asked(u[p])
           /\ \A q \in DOMAIN u \ {p} : Bytes(h, q) \cap Bytes(h, p) = {}
<1>1. /\ Core(h) /\ DOMAIN u = UsedOf(h.meta) \cup DOMAIN h.maps
      /\ SizeOf(h, p) >= Asked(u[p])
  BY UserIs DEF InUse
<1>2. /\ \A b \in DOMAIN u : b \notin DOMAIN h.maps => b \in DOMAIN h.meta
      /\ \A b \in DOMAIN h.meta : Size(h, b) \in Nat \ {0} /\ b \in Nat /\ META \in Nat
      /\ \A b, c \in DOMAIN h.meta : b < c => b + META + Size(h, b) <= c
  BY <1>1, CoreIs DEF UsedOf, Size
<1>3. \A b \in DOMAIN h.maps : h.maps[b] \in Nat /\ b # NULL
  BY <1>1, MapsApart
<1>4. Cardinality(Bytes(h, p)) = SizeOf(h, p)
  <2>1. CASE p \in DOMAIN h.maps
    <3>1. h.maps[p] \in Nat /\ 1 \in Int /\ h.maps[p] \in Int /\ h.maps[p] - 1 + 1 = h.maps[p]
      BY <1>3, <2>1
    <3>2. Cardinality(BytesIn(p, 1, h.maps[p])) = h.maps[p]
      BY <3>1, BytesCount
    <3> QED
      BY <2>1, <3>2 DEF Bytes, BytesIn, SizeOf
  <2>2. CASE p \notin DOMAIN h.maps
    <3> DEFINE a == p + META
               z == p + META + Size(h, p) - 1
    <3>1. a \in Int /\ z \in Int /\ Size(h, p) \in Nat /\ z - a + 1 = Size(h, p)
      BY <1>2, <2>2
    <3> HIDE DEF a, z
    <3>2. Cardinality(BytesIn(NULL, a, z)) = Size(h, p)
      BY <3>1, BytesCount
    <3> QED
      BY <2>2, <3>2 DEF Bytes, BytesIn, SizeOf, a, z
  <2> QED
    BY <2>1, <2>2
<1>5. ASSUME NEW q \in DOMAIN u, q # p PROVE Bytes(h, q) \cap Bytes(h, p) = {}
  <2>1. CASE p \in DOMAIN h.maps \/ q \in DOMAIN h.maps
    BY <1>3, <1>5, <2>1 DEF Bytes
  <2>2. CASE p \notin DOMAIN h.maps /\ q \notin DOMAIN h.maps
    <3>1. p \in Nat /\ q \in Nat /\ Size(h, p) \in Nat /\ Size(h, q) \in Nat /\ META \in Nat
      BY <1>2, <2>2
    <3>2. q + META + Size(h, q) <= p \/ p + META + Size(h, p) <= q
      BY <1>2, <1>5, <2>2, <3>1
    <3>3. ASSUME NEW x \in Int, x >= q + META, x <= q + META + Size(h, q) - 1,
                 x >= p + META, x <= p + META + Size(h, p) - 1
          PROVE  FALSE
      BY <3>1, <3>2, <3>3
    <3>4. ASSUME NEW i \in (q + META)..(q + META + Size(h, q) - 1),
                 NEW j \in (p + META)..(p + META + Size(h, p) - 1), <<NULL, i>> = <<NULL, j>>
          PROVE  FALSE
      <4>1. i = j
        BY <3>4
      <4> QED
        BY <3>1, <3>3, <4>1
    <3> QED
      BY <2>2, <3>4 DEF Bytes
  <2> QED
    BY <2>1, <2>2
<1> QED
  BY <1>1, <1>4, <1>5

\* Heap counts bytes as this module does.
LEMMA SameCount == ASSUME NEW S PROVE Abstract!Cardinality(S) = Cardinality(S)
  BY Zenon DEF Cardinality, Abstract!Cardinality

\* Pointers that are in the same place with the same size have the same bytes.
LEMMA SameBytes ==
    ASSUME NEW S, NEW h, NEW u, NEW h2, NEW u2, Same(S, h, u, h2, u2), NEW p \in S
    PROVE  Bytes(h2, p) = Bytes(h, p) /\ u2[p] = u[p]
  BY DEF Same, Bytes, SizeOf

\* Both files implement the abstract heap: the bytes of a pointer change only by a call for
\* that pointer, and what a call returns overlaps with nothing.
THEOREM BinImplementsHeap == Spec => ImplementsHeap
<1> DEFINE area == [p \in DOMAIN held |-> Bytes(heap, p)]
           asked == [p \in DOMAIN held |-> Asked(held[p])]
<1>1. Init => Abstract!HeapInit
  BY DEF Init, Abstract!HeapInit
<1>2. IInv /\ IInv' /\ [Next]_vars => [Abstract!Allocate \/ Abstract!Release \/ Abstract!Resize]_(Abstract!heapVars)
  <2>1. CASE UNCHANGED vars
    BY <2>1 DEF vars, Abstract!heapVars, Size
  <2>2. ASSUME IInv, IInv', Next
        PROVE  [Abstract!Allocate \/ Abstract!Release \/ Abstract!Resize]_(Abstract!heapVars)
    <3>1. Effect(heap, held, heap', held') /\ HeapOK(heap', held')
      BY <2>2, StepDoes DEF IInv
    <3>2. ASSUME NEW S \in SUBSET DOMAIN held, S \subseteq DOMAIN held', Same(S, heap, held, heap', held')
          PROVE  \A q \in S : area'[q] = area[q] /\ asked'[q] = asked[q]
      <4>1. \A q \in S : Bytes(heap', q) = Bytes(heap, q) /\ held'[q] = held[q]
        BY <3>2, SameBytes
      <4> QED
        BY <3>2, <4>1
    <3>3. ASSUME NEW p \in DOMAIN held'
          PROVE  /\ Cardinality(area'[p]) >= asked'[p]
                 /\ \A q \in DOMAIN area' \ {p} : area'[q] \cap area'[p] = {}
      <4>1. /\ Cardinality(Bytes(heap', p)) >= Asked(held'[p])
            /\ \A q \in DOMAIN held' \ {p} : Bytes(heap', q) \cap Bytes(heap', p) = {}
        BY <3>1, BytesApart
      <4> QED
        BY <4>1
    <3>4. CASE DOMAIN held' = DOMAIN held /\ Same(DOMAIN held, heap, held, heap', held')
      <4>1. area' = area /\ asked' = asked
        <5>1. \A q \in DOMAIN held : Bytes(heap', q) = Bytes(heap, q) /\ held'[q] = held[q]
          BY <3>4, SameBytes
        <5> QED
          BY <3>4, <5>1
      <4> QED
        BY <4>1, Zenon DEF Abstract!heapVars, Bytes
    <3>5. ASSUME NEW p, p \notin DOMAIN held, DOMAIN held' = DOMAIN held \cup {p},
                 Same(DOMAIN held, heap, held, heap', held')
          PROVE  Abstract!Allocate
      <4>1. p \in DOMAIN area' \ DOMAIN area /\ DOMAIN area' = DOMAIN area \cup {p}
        BY <3>5
      <4>2. \A q \in DOMAIN area : area'[q] = area[q] /\ asked'[q] = asked[q]
        BY <3>2, <3>5
      <4>3. /\ Cardinality(area'[p]) >= asked'[p]
            /\ \A q \in DOMAIN area' \ {p} : area'[q] \cap area'[p] = {}
        BY <3>3, <3>5
      <4>4. Abstract!Untouched(DOMAIN area)
        BY <4>2, Zenon DEF Abstract!Untouched, Bytes
      <4>5. Abstract!Owns(p)
        BY <4>3, SameCount, Zenon DEF Abstract!Owns, Bytes
      <4> QED
        BY <4>1, <4>4, <4>5, Zenon DEF Abstract!Allocate, Bytes
    <3>6. ASSUME NEW p \in DOMAIN held, DOMAIN held' = DOMAIN held \ {p},
                 Same(DOMAIN held \ {p}, heap, held, heap', held')
          PROVE  Abstract!Release
      <4>1. p \in DOMAIN area /\ DOMAIN area' = DOMAIN area \ {p}
        BY <3>6
      <4>2. \A q \in DOMAIN area' : area'[q] = area[q] /\ asked'[q] = asked[q]
        BY <3>2, <3>6
      <4>3. Abstract!Untouched(DOMAIN area')
        BY <4>2, Zenon DEF Abstract!Untouched, Bytes
      <4> QED
        BY <4>1, <4>3, Zenon DEF Abstract!Release, Bytes
    <3>7. ASSUME NEW p \in DOMAIN held, NEW q, q \notin DOMAIN held \ {p},
                 DOMAIN held' = (DOMAIN held \ {p}) \cup {q},
                 Same(DOMAIN held \ {p}, heap, held, heap', held')
          PROVE  Abstract!Resize
      <4>1. /\ p \in DOMAIN area /\ q \in DOMAIN area' /\ q \notin DOMAIN area \ {p}
            /\ DOMAIN area' = (DOMAIN area \ {p}) \cup {q}
        BY <3>7
      <4>2. \A x \in DOMAIN area \ {p} : area'[x] = area[x] /\ asked'[x] = asked[x]
        BY <3>2, <3>7
      <4>3. /\ Cardinality(area'[q]) >= asked'[q]
            /\ \A x \in DOMAIN area' \ {q} : area'[x] \cap area'[q] = {}
        BY <3>3, <3>7
      <4>4. Abstract!Untouched(DOMAIN area \ {p})
        BY <4>2, Zenon DEF Abstract!Untouched, Bytes
      <4>5. Abstract!Owns(q)
        BY <4>3, SameCount, Zenon DEF Abstract!Owns, Bytes
      <4> QED
        BY <4>1, <4>4, <4>5, Zenon DEF Abstract!Resize, Bytes
    <3> QED
      BY <3>1, <3>4, <3>5, <3>6, <3>7 DEF Effect
  <2> QED
    BY <2>1, <2>2
<1>3. []IInv /\ [][Next]_vars => [][Abstract!Allocate \/ Abstract!Release \/ Abstract!Resize]_(Abstract!heapVars)
  BY <1>2, PTL
<1> QED
  BY <1>1, <1>3, BinInvariant, PTL DEF Spec, ImplementsHeap, Abstract!HeapSpec

----------------------------------------------------------------------------
\* The free blocks with a free block behind them, by their addresses.
Beside(D, b, c) == b < c /\ \A d \in D : d <= b \/ c <= d
Near(m) == {b \in FreeOf(m) : \E c \in FreeOf(m) : Beside(DOMAIN m, b, c)}
NeighboursOf(h) ==
    {i \in 1..(Len(h.list) - 1) : IsFree(h, h.list[i]) /\ IsFree(h, h.list[i + 1])}

LEMMA NearIs ==
    ASSUME NEW m, IsMeta(m)
    PROVE  /\ Near(m) \subseteq FreeOf(m) /\ FreeOf(m) \subseteq DOMAIN m
           /\ IsFiniteSet(Near(m)) /\ Cardinality(Near(m)) \in Nat
           /\ \A b \in DOMAIN m : b \in Nat
<1>1. Near(m) \subseteq FreeOf(m) /\ FreeOf(m) \subseteq DOMAIN m
  BY DEF Near, FreeOf
<1>2. IsFiniteSet(DOMAIN m) /\ \A b \in DOMAIN m : b \in Nat
  BY MetaIs
<1>3. IsFiniteSet(Near(m))
  BY <1>1, <1>2, FS_Subset
<1> QED
  BY <1>1, <1>2, <1>3, FS_CardinalityType

\* There are as many in the list.
LEMMA NearCount ==
    ASSUME NEW h, Core(h)
    PROVE  Cardinality(NeighboursOf(h)) = Cardinality(Near(h.meta))
<1> DEFINE l == h.list
           m == h.meta
           S == NeighboursOf(h)
           f == [i \in S |-> l[i]]
<1>1. Listed(l, DOMAIN m) /\ IsMeta(m)
  BY CoreIs
<1>2. /\ Len(l) \in Nat
      /\ \A i \in 1..Len(l) : l[i] \in DOMAIN m /\ l[i] \in Nat
      /\ \A d \in DOMAIN m : \E i \in 1..Len(l) : l[i] = d
      /\ \A i, j \in 1..Len(l) : i < j => l[i] < l[j]
      /\ \A i, j \in 1..Len(l) : l[i] < l[j] => i < j
  BY <1>1, ListedIs
<1>3. \A i \in 1..(Len(l) - 1) : i \in 1..Len(l) /\ i + 1 \in 1..Len(l) /\ i < i + 1
  BY <1>2
<1>4. /\ S \subseteq 1..(Len(l) - 1)
      /\ \A i \in 1..(Len(l) - 1) : i \in S <=> l[i] \in FreeOf(m) /\ l[i + 1] \in FreeOf(m)
  BY <1>2, <1>3 DEF NeighboursOf, FreeOf, IsFree
<1> HIDE DEF S, l, m
<1>5. ASSUME NEW i \in 1..(Len(l) - 1) PROVE Beside(DOMAIN m, l[i], l[i + 1])
  <2> SUFFICES ASSUME NEW d \in DOMAIN m PROVE d <= l[i] \/ l[i + 1] <= d
    BY <1>2, <1>3 DEF Beside
  <2>1. PICK j \in 1..Len(l) : l[j] = d
    BY <1>2
  <2>2. j < i \/ j = i \/ j = i + 1 \/ i + 1 < j
    BY <1>2
  <2>3. l[i] \in Nat /\ l[i + 1] \in Nat /\ l[j] \in Nat
    BY <1>2, <1>3
  <2>4. CASE j = i \/ j = i + 1
    BY <2>1, <2>3, <2>4
  <2>5. CASE j < i
    <3>1. l[j] < l[i]
      BY <1>2, <1>3, <2>5
    <3> QED
      BY <2>1, <2>3, <3>1
  <2>6. CASE i + 1 < j
    <3>1. l[i + 1] < l[j]
      BY <1>2, <1>3, <2>6
    <3> QED
      BY <2>1, <2>3, <3>1
  <2> QED
    BY <2>2, <2>4, <2>5, <2>6
<1>6. \A i \in S : l[i] \in Near(m)
  BY <1>4, <1>5 DEF Near
<1>7. ASSUME NEW b \in Near(m) PROVE \E i \in S : l[i] = b
  <2>1. PICK c \in FreeOf(m) : Beside(DOMAIN m, b, c)
    BY <1>7 DEF Near
  <2>2. b \in FreeOf(m) /\ b \in DOMAIN m /\ c \in DOMAIN m
    BY <1>1, <1>7, <2>1, NearIs
  <2>3. PICK i \in 1..Len(l) : l[i] = b
    BY <1>2, <2>2
  <2>4. PICK j \in 1..Len(l) : l[j] = c
    BY <1>2, <2>2
  <2>5. b < c /\ \A d \in DOMAIN m : d <= b \/ c <= d
    BY <2>1 DEF Beside
  <2>6. i < j
    BY <1>2, <2>3, <2>4, <2>5
  <2>7. i \in 1..(Len(l) - 1) /\ i + 1 \in 1..Len(l)
    BY <1>2, <2>6
  <2>8. l[i + 1] \in DOMAIN m /\ l[i + 1] \in Nat /\ b \in Nat /\ c \in Nat /\ b < l[i + 1]
    BY <1>2, <1>3, <2>3, <2>4, <2>7
  <2>9. c <= l[i + 1]
    BY <2>5, <2>8
  <2>10. ~(i + 1 < j)
    <3> SUFFICES ASSUME i + 1 < j PROVE FALSE
      OBVIOUS
    <3>1. l[i + 1] < c
      BY <1>2, <2>4, <2>7
    <3> QED
      BY <2>8, <2>9, <3>1
  <2>11. j = i + 1
    BY <1>2, <2>6, <2>10
  <2> QED
    BY <1>4, <2>1, <2>2, <2>3, <2>4, <2>7, <2>11
<1>8. f \in [S -> Near(m)] /\ \A b \in Near(m) : \E i \in S : f[i] = b
  BY <1>6, <1>7
<1>9. \A i, j \in S : f[i] = f[j] => i = j
  <2> SUFFICES ASSUME NEW i \in S, NEW j \in S, l[i] = l[j] PROVE i = j
    OBVIOUS
  <2>1. i \in 1..Len(l) /\ j \in 1..Len(l)
    BY <1>3, <1>4
  <2>2. ~(i < j) /\ ~(j < i)
    BY <1>2, <2>1
  <2> QED
    BY <1>2, <2>1, <2>2
<1> HIDE DEF f
<1>10. ExistsBijection(S, Near(m))
  <2>1. f \in Bijection(S, Near(m))
    BY <1>8, <1>9 DEF Bijection, Injection, Surjection, IsInjective
  <2> QED
    BY <2>1 DEF ExistsBijection
<1>11. IsFiniteSet(S)
  <2>1. 1 \in Int /\ Len(l) - 1 \in Int
    BY <1>2
  <2>2. IsFiniteSet(1..(Len(l) - 1))
    BY <2>1, FS_Interval
  <2> QED
    BY <1>4, <2>2, FS_Subset
<1> QED
  BY <1>10, <1>11, FS_Bijection DEF S, m

\* One may go, and another come for it.
LEMMA NoMoreNear ==
    ASSUME NEW m, IsMeta(m), NEW r, NEW x, NEW y,
           r \subseteq (Near(m) \ {x}) \cup {y}, y \in r => x \in Near(m)
    PROVE  Cardinality(r) <= Cardinality(Near(m)) /\ IsFiniteSet(r)
<1> DEFINE N == Near(m)
           R == N \ {x}
<1>1. IsFiniteSet(N) /\ Cardinality(N) \in Nat
  BY NearIs
<1> HIDE DEF N
<1>2. /\ IsFiniteSet(R) /\ Cardinality(R) \in Nat
      /\ Cardinality(R) = IF x \in N THEN Cardinality(N) - 1 ELSE Cardinality(N)
  BY <1>1, FS_RemoveElement, FS_CardinalityType
<1> HIDE DEF R
<1>3. CASE y \notin r
  <2>1. r \subseteq R
    BY <1>3 DEF R, N
  <2>2. IsFiniteSet(r) /\ Cardinality(r) <= Cardinality(R) /\ Cardinality(r) \in Nat
    BY <1>2, <2>1, FS_Subset, FS_CardinalityType
  <2> QED
    BY <1>1, <1>2, <2>2 DEF N
<1>4. CASE y \in r
  <2>1. x \in N /\ r \subseteq R \cup {y}
    BY <1>4 DEF R, N
  <2>2. /\ IsFiniteSet(R \cup {y})
        /\ Cardinality(R \cup {y}) = IF y \in R THEN Cardinality(R) ELSE Cardinality(R) + 1
    BY <1>2, FS_AddElement
  <2>3. IsFiniteSet(r) /\ Cardinality(r) <= Cardinality(R \cup {y}) /\ Cardinality(r) \in Nat
    BY <2>1, <2>2, FS_Subset, FS_CardinalityType
  <2> QED
    BY <1>1, <1>2, <2>1, <2>2, <2>3 DEF N
<1> QED
  BY <1>3, <1>4

\* A call never leaves more of them.
NoMore(h, r) == Cardinality(Near(r.meta)) <= Cardinality(Near(h.meta))

\* A free block is taken as it is.
LEMMA TakenNear ==
    ASSUME NEW h, Core(h), NEW r, Core(r), NEW b, DOMAIN r.meta = DOMAIN h.meta,
           ~r.meta[b].is_free, \A c \in DOMAIN h.meta : c # b => r.meta[c] = h.meta[c]
    PROVE  NoMore(h, r)
<1>1. FreeOf(r.meta) \subseteq FreeOf(h.meta)
  BY DEF FreeOf
<1>2. Near(r.meta) \subseteq Near(h.meta)
  BY <1>1 DEF Near
<1>3. IsMeta(h.meta)
  BY CoreIs
<1>4. /\ Near(r.meta) \subseteq (Near(h.meta) \ {NULL}) \cup {NULL}
      /\ NULL \in Near(r.meta) => NULL \in Near(h.meta)
  BY <1>2
<1> QED
  BY <1>3, <1>4, NoMoreNear DEF NoMore

\* A block in use is added behind all others.
LEMMA AddedNear ==
    ASSUME NEW h, Core(h), NEW r, Core(r), NEW b \in Nat, DOMAIN r.meta = DOMAIN h.meta \cup {b},
           ~r.meta[b].is_free, \A c \in DOMAIN h.meta : c < b /\ r.meta[c] = h.meta[c]
    PROVE  NoMore(h, r)
<1>1. FreeOf(r.meta) \subseteq FreeOf(h.meta) /\ DOMAIN h.meta \subseteq DOMAIN r.meta
  BY DEF FreeOf
<1>2. Near(r.meta) \subseteq Near(h.meta)
  BY <1>1 DEF Near, Beside
<1>3. IsMeta(h.meta)
  BY CoreIs
<1>4. /\ Near(r.meta) \subseteq (Near(h.meta) \ {NULL}) \cup {NULL}
      /\ NULL \in Near(r.meta) => NULL \in Near(h.meta)
  BY <1>2
<1> QED
  BY <1>3, <1>4, NoMoreNear DEF NoMore

\* A free block is split: what is left of it is where the block was.
LEMMA SplitNear ==
    ASSUME NEW h, Core(h), NEW b \in FreeOf(h.meta), NEW n \in Nat \ {0}, n % Align(h) = 0,
           LargeEnough(Size(h, b), n)
    PROVE  NoMore(h, split_block(h, b, n))
<1> DEFINE r == split_block(h, b, n)
           new == b + META + n
           m == h.meta
<1>1. b \in DOMAIN m
  BY DEF FreeOf
<1>2. Core(r) /\ Parted(h, r, b, n)
  BY <1>1, SplitCore
<1> HIDE DEF r
<1>3. /\ new \notin DOMAIN m /\ DOMAIN r.meta = DOMAIN m \cup {new}
      /\ ~r.meta[b].is_free /\ r.meta[new].is_free
      /\ \A c \in DOMAIN m : c # b => r.meta[c] = m[c]
  BY <1>2 DEF Parted
<1>4. /\ b \in Nat /\ META \in Nat /\ new \in Nat /\ b < new /\ IsMeta(m) /\ IsMeta(r.meta)
      /\ \A c \in DOMAIN m : c \in Nat
  BY <1>1, <1>2, CoreIs, LayoutAssumption
<1>5. \A d \in DOMAIN m : b < d => new < d
  <2>1. new < b + META + m[b].size
    <3>1. m[b].size - n >= SPLIT_MIN + META
      BY DEF LargeEnough, Size
    <3>2. m[b].size \in Nat /\ SPLIT_MIN \in Nat \ {0} /\ META \in Nat \ {0}
      BY <1>1, CoreIs, LayoutAssumption
    <3> QED
      BY <1>4, <3>1, <3>2
  <2>2. \A d \in DOMAIN m : b < d => b + META + m[b].size <= d
    BY <1>1, CoreIs
  <2>3. m[b].size \in Nat
    BY <1>1, CoreIs
  <2> QED
    BY <1>4, <2>1, <2>2, <2>3
<1> HIDE DEF new, m
<1>6. /\ b \notin FreeOf(r.meta) /\ new \in FreeOf(r.meta)
      /\ \A c : c # new /\ c \in FreeOf(r.meta) => c \in FreeOf(m) /\ c # b /\ c \in DOMAIN m
  BY <1>1, <1>3 DEF FreeOf
<1>7. ASSUME NEW c \in Near(r.meta), c # new PROVE c \in Near(m) /\ c # b
  <2>1. PICK d \in FreeOf(r.meta) : Beside(DOMAIN r.meta, c, d)
    BY DEF Near
  <2>2. c \in FreeOf(r.meta)
    BY DEF Near
  <2>3. c \in FreeOf(m) /\ c # b /\ c \in DOMAIN m /\ c \in Nat
    BY <1>4, <1>6, <1>7, <2>2
  <2>4. c < d /\ (b <= c \/ d <= b) /\ \A e \in DOMAIN m : e <= c \/ d <= e
    BY <1>1, <1>3, <2>1 DEF Beside, m
  <2>5. d # new
    <3> SUFFICES ASSUME d = new PROVE FALSE
      OBVIOUS
    <3>1. b <= c
      BY <1>4, <2>4
    <3>2. new < c
      BY <1>4, <1>5, <2>3, <3>1
    <3> QED
      BY <1>4, <2>3, <2>4, <3>2
  <2>6. d \in FreeOf(m)
    BY <1>6, <2>5
  <2> QED
    BY <2>3, <2>4, <2>6 DEF Near, Beside
<1>8. ASSUME new \in Near(r.meta) PROVE b \in Near(m)
  <2>1. PICK d \in FreeOf(r.meta) : Beside(DOMAIN r.meta, new, d)
    BY <1>8 DEF Near
  <2>2. new < d /\ \A e \in DOMAIN m : e <= new \/ d <= e
    BY <1>3, <2>1 DEF Beside
  <2>3. d \in FreeOf(m) /\ d \in DOMAIN m /\ d \in Nat
    BY <1>4, <1>6, <2>2
  <2>4. b < d
    BY <1>4, <2>2, <2>3
  <2>5. ASSUME NEW e \in DOMAIN m PROVE e <= b \/ d <= e
    <3>1. e \in Nat
      BY <1>4
    <3> QED
      BY <1>4, <1>5, <2>2, <3>1
  <2> QED
    BY <2>3, <2>4, <2>5 DEF Near, Beside, m
<1>9. Near(r.meta) \subseteq (Near(m) \ {b}) \cup {new}
  BY <1>7
<1> QED
  BY <1>4, <1>8, <1>9, NoMoreNear DEF NoMore, r, m

LEMMA SbrkNear ==
    ASSUME NEW h, Core(h), Sound(h, FreeOf(h.meta)), NEW n \in Nat \ {0}, n % Align(h) = 0,
           n < MMAP_SIZE, NEW g, g.limit \in 0..HeapLimit
    PROVE  NoMore(h, sbrk_wrapper(h, n, g).h)
<1> DEFINE w == all_list_end(h)
           r == sbrk_wrapper(h, n, g)
           b == h.brk
           h1 == create_metadata_sbrk(h)
           e == [Place(remove_node_histo(h, w), w, FALSE, n) EXCEPT !.brk = b + n - Size(h, w)]
<1>1. /\ b \in Nat /\ META \in Nat \ {0} /\ HeapLimit \in Nat /\ g.limit \in Int /\ g.limit <= HeapLimit
  BY CoreIs
<1>2. ASSUME NEW x, x.meta = h.meta PROVE NoMore(h, x)
  <2>1. Cardinality(Near(h.meta)) \in Nat
    BY CoreIs, NearIs
  <2> QED
    BY <1>2, <2>1 DEF NoMore
<1>3. CASE w # NULL /\ IsFree(h, w)
  <2>1. w \in DOMAIN h.meta /\ \A d \in DOMAIN h.meta : d <= w
    BY <1>3, CoreIs, EndIs
  <2>2. Size(h, w) \in Nat
    BY <2>1, CoreIs DEF Size
  <2>3. CASE b + n - Size(h, w) > g.limit
    <3>1. r = Returns(h, NULL)
      BY <1>3, <2>3 DEF sbrk_wrapper
    <3> QED
      BY <1>2, <3>1, ReturnsIs
  <2>4. CASE ~(b + n - Size(h, w) > g.limit)
    <3>1. r = Returns(e, w)
      BY <1>3, <2>4 DEF sbrk_wrapper
    <3>2. b + n - Size(h, w) <= HeapLimit
      BY <1>1, <2>2, <2>4
    <3>3. Stretched(h, remove_node_histo(h, w), e, w, n)
      BY <2>1, <3>2, StretchedCore
    <3> HIDE DEF e, w, r
    <3>4. NoMore(h, e)
      BY <3>3, TakenNear DEF Stretched
    <3> QED
      BY <3>1, <3>4, ReturnsIs DEF r
  <2> QED
    BY <2>3, <2>4
<1>4. CASE ~(w # NULL /\ IsFree(h, w))
  <2>1. CASE b + META > g.limit
    <3>1. r = Returns(h, NULL)
      BY <1>4, <2>1 DEF sbrk_wrapper
    <3> QED
      BY <1>2, <3>1, ReturnsIs
  <2>2. CASE ~(b + META > g.limit) /\ b + META + n > g.limit
    <3>1. r = Returns(h1, NULL)
      BY <1>4, <2>2 DEF sbrk_wrapper
    <3>2. b + META <= HeapLimit
      BY <1>1, <2>2
    <3>3. h1.meta = h.meta
      BY <3>2, MetadataCore
    <3> HIDE DEF h1, r
    <3>4. NoMore(h, h1)
      BY <1>2, <3>3
    <3> QED
      BY <3>1, <3>4, ReturnsIs DEF r
  <2>3. CASE ~(b + META > g.limit) /\ ~(b + META + n > g.limit)
    <3> DEFINE x == NewBlock(h, n)
    <3>1. r = Returns(x, b)
      BY <1>4, <2>3 DEF sbrk_wrapper, NewBlock
    <3>2. b + META + n <= HeapLimit
      BY <1>1, <2>3
    <3>3. Core(x)
      BY <3>2, NewBlockDoes DEF Allocated, Kept
    <3>4. /\ DOMAIN x.meta = DOMAIN h.meta \cup {b} /\ ~x.meta[b].is_free
          /\ \A c \in DOMAIN h.meta : c # b => x.meta[c] = h.meta[c]
      BY <3>2, NewBlockIs
    <3> HIDE DEF x, r
    <3>5. \A c \in DOMAIN h.meta : c \in Nat /\ c < b
      <4> SUFFICES ASSUME NEW c \in DOMAIN h.meta PROVE c \in Nat /\ c < b
        OBVIOUS
      <4>1. c \in Nat /\ h.meta[c].size \in Nat \ {0} /\ c + META + h.meta[c].size <= b
        BY CoreIs
      <4> QED
        BY <1>1, <4>1
    <3>6. \A c \in DOMAIN h.meta : c < b /\ x.meta[c] = h.meta[c]
      BY <1>1, <3>4, <3>5
    <3>7. NoMore(h, x)
      BY <1>1, <3>3, <3>4, <3>6, AddedNear
    <3> QED
      BY <3>1, <3>7, ReturnsIs DEF r
  <2> QED
    BY <2>1, <2>2, <2>3
<1> QED
  BY <1>3, <1>4

\* Mapping and unmapping are nothing to the heap.
LEMMA MapsMeta ==
    ASSUME NEW h, IsHeap(h), NEW n, NEW g, NEW p
    PROVE  mmap_wrapper(h, n, g).h.meta = h.meta /\ deallocate_mmap(h, p).meta = h.meta
<1> DEFINE m == CHOOSE x \in Maps \ DOMAIN h.maps : TRUE
           e == [h EXCEPT !.maps = With(@, m, n), !.num_of_metadatas = @ + 1,
                          !.mmaped_blocks_num = @ + 1, !.mmaped_bytes_num = @ + n]
<1>1. mmap_wrapper(h, n, g) = Returns(h, NULL) \/ mmap_wrapper(h, n, g) = Returns(e, m)
  BY DEF mmap_wrapper
<1>2. e.meta = h.meta /\ deallocate_mmap(h, p).meta = h.meta
  BY DEF deallocate_mmap, IsHeap, Fields
<1> HIDE DEF e, m
<1> QED
  BY <1>1, <1>2, ReturnsIs

LEMMA SmallocNear ==
    ASSUME NEW h, Core(h), Sound(h, FreeOf(h.meta)), h.broken = "none", NEW size \in Nat,
           NEW g, g.limit \in 0..HeapLimit
    PROVE  NoMore(h, smalloc(h, size, g).h)
<1> DEFINE n == round_up(h, size)
           b == Find(h, n)
           r == smalloc(h, size, g)
<1>1. n \in Nat /\ n % Align(h) = 0
  BY RoundUpIs
<1>2. ASSUME NEW x, x.meta = h.meta PROVE NoMore(h, x)
  <2>1. Cardinality(Near(h.meta)) \in Nat
    BY CoreIs, NearIs
  <2> QED
    BY <1>2, <2>1 DEF NoMore
<1> HIDE DEF n
<1>3. CASE n = 0 \/ n > MAX_SIZE
  <2>1. r = Returns(h, NULL)
    BY <1>3 DEF smalloc, n
  <2> QED
    BY <1>2, <2>1, ReturnsIs
<1>4. CASE ~(n = 0 \/ n > MAX_SIZE) /\ GoesToMmap(n)
  <2>1. r = mmap_wrapper(h, n, g)
    BY <1>4 DEF smalloc, n
  <2>2. mmap_wrapper(h, n, g).h.meta = h.meta
    BY CoreIs, MapsMeta
  <2> QED
    BY <1>2, <2>1, <2>2
<1>5. CASE ~(n = 0 \/ n > MAX_SIZE) /\ ~GoesToMmap(n)
  <2>1. n \in Nat \ {0} /\ n < MMAP_SIZE
    BY <1>1, <1>5, BinAssumption DEF GoesToMmap
  <2>2. CASE b = NULL
    <3>1. r = sbrk_wrapper(h, n, g)
      BY <1>5, <2>2 DEF smalloc, n
    <3>2. NoMore(h, sbrk_wrapper(h, n, g).h)
      BY <1>1, <2>1, SbrkNear
    <3> HIDE DEF r
    <3> QED
      BY <3>1, <3>2 DEF r
  <2>3. CASE b # NULL
    <3>1. b \in FreeOf(h.meta) /\ b \in DOMAIN h.meta
      BY <1>1, <2>3, FindIs DEF Sound, FreeOf
    <3> HIDE DEF b
    <3>2. CASE LargeEnough(Size(h, b), n)
      <4>1. r = Returns(split_block(h, b, n), b)
        BY <1>5, <2>3, <3>2 DEF smalloc, n, b
      <4>2. NoMore(h, split_block(h, b, n))
        BY <1>1, <2>1, <3>1, <3>2, SplitNear
      <4> HIDE DEF r
      <4> QED
        BY <4>1, <4>2, ReturnsIs DEF r
    <3>3. CASE ~LargeEnough(Size(h, b), n)
      <4> DEFINE e == Place(remove_node_histo(h, b), b, FALSE, Size(h, b))
      <4>1. r = Returns(e, b)
        BY <1>5, <2>3, <3>3 DEF smalloc, n, b
      <4>2. Taken(h, remove_node_histo(h, b), e, b)
        BY <3>1, TakenCore
      <4> HIDE DEF r, e
      <4>3. NoMore(h, e)
        BY <4>2, TakenNear DEF Taken
      <4> QED
        BY <4>1, <4>3, ReturnsIs DEF r
    <3> QED
      BY <3>2, <3>3
  <2> QED
    BY <2>2, <2>3
<1> QED
  BY <1>3, <1>4, <1>5

\* unite_right takes one such block away, if there is one where it is called for.
LEMMA UniteNear ==
    ASSUME NEW h, Core(h), Sound(h, FreeOf(h.meta)), NEW b \in Near(h.meta)
    PROVE  LET r == unite_right(h, b)
               c == list_next(h, b)
           IN
           /\ Core(r) /\ Sound(r, FreeOf(r.meta)) /\ c \in FreeOf(h.meta) /\ b < c
           /\ DOMAIN r.meta = DOMAIN h.meta \ {c} /\ b \in DOMAIN r.meta
           /\ Near(r.meta) \subseteq (Near(h.meta) \ {c}) \cup {b}
           /\ b \in Near(r.meta) => c \in Near(h.meta)
<1> DEFINE r == unite_right(h, b)
           c == list_next(h, b)
           m == h.meta
<1>1. IsMeta(m) /\ Listed(h.list, DOMAIN m) /\ \A d \in DOMAIN m : d \in Nat
  BY CoreIs
<1>2. b \in FreeOf(m) /\ b \in DOMAIN m
  BY <1>1, NearIs
<1>3. PICK f \in FreeOf(m) : b < f /\ \A d \in DOMAIN m : d <= b \/ f <= d
  BY DEF Near, Beside
<1>4. f \in DOMAIN m /\ b \in Nat /\ f \in Nat
  BY <1>1, <1>2 DEF FreeOf
<1>5. /\ c = NULL => \A d \in DOMAIN m : d <= b
      /\ c # NULL => c \in DOMAIN m /\ b < c /\ \A d \in DOMAIN m : b < d => c <= d
  BY <1>1, <1>2, NextIs
<1> HIDE DEF c
<1>6. c # NULL
  BY <1>3, <1>4, <1>5
<1>7. c \in DOMAIN m /\ b < c /\ c \in Nat /\ \A d \in DOMAIN m : b < d => c <= d
  BY <1>1, <1>5, <1>6
<1>8. c = f
  <2>1. c <= f
    BY <1>3, <1>4, <1>7
  <2>2. f <= c
    BY <1>3, <1>4, <1>7
  <2> QED
    BY <1>4, <1>7, <2>1, <2>2
<1>9. c \in FreeOf(m)
  BY <1>8
<1>10. Core(r) /\ Sound(r, FreeOf(r.meta)) /\ United(h, r, b, c)
  BY <1>2, <1>6, <1>9, UniteDoes DEF c
<1> HIDE DEF r
<1>11. /\ DOMAIN r.meta = DOMAIN m \ {c} /\ r.meta[b].is_free
       /\ \A d \in DOMAIN r.meta : d # b => r.meta[d] = m[d]
  BY <1>10 DEF United
<1>12. /\ \A d \in FreeOf(r.meta) : d \in FreeOf(m) /\ d # c /\ d \in DOMAIN m /\ d \in Nat
       /\ b \in DOMAIN r.meta
  BY <1>1, <1>2, <1>4, <1>7, <1>11 DEF FreeOf
<1> HIDE DEF m
<1>13. ASSUME NEW x \in Near(r.meta), x # b PROVE x \in Near(m) /\ x # c
  <2>1. PICK y \in FreeOf(r.meta) : x < y /\ \A d \in DOMAIN r.meta : d <= x \/ y <= d
    BY DEF Near, Beside
  <2>2. /\ x \in FreeOf(m) /\ x # c /\ x \in Nat /\ x \in DOMAIN m
        /\ y \in FreeOf(m) /\ y # c /\ y \in Nat /\ y \in DOMAIN m
    BY <1>12 DEF Near
  <2>3. b <= x \/ y <= b
    BY <1>12, <2>1
  <2>4. c <= x \/ y <= c
    <3>1. CASE b <= x
      BY <1>4, <1>7, <1>13, <2>2, <3>1
    <3>2. CASE y <= b
      BY <1>4, <1>7, <2>2, <3>2
    <3> QED
      BY <2>3, <3>1, <3>2
  <2>5. \A d \in DOMAIN m : d <= x \/ y <= d
    BY <1>11, <2>1, <2>4
  <2> QED
    BY <2>1, <2>2, <2>5 DEF Near, Beside
<1>14. ASSUME b \in Near(r.meta) PROVE c \in Near(m)
  <2>1. PICK y \in FreeOf(r.meta) : b < y /\ \A d \in DOMAIN r.meta : d <= b \/ y <= d
    BY <1>14 DEF Near, Beside
  <2>2. y \in FreeOf(m) /\ y # c /\ y \in Nat /\ y \in DOMAIN m
    BY <1>12
  <2>3. c < y
    BY <1>7, <2>1, <2>2
  <2>4. ASSUME NEW d \in DOMAIN m PROVE d <= c \/ y <= d
    <3>1. d \in Nat
      BY <1>1 DEF m
    <3>2. CASE d = c
      BY <1>7, <3>2
    <3>3. CASE d # c
      BY <1>4, <1>7, <1>11, <2>1, <3>1, <3>3
    <3> QED
      BY <3>2, <3>3
  <2> QED
    BY <1>9, <2>2, <2>3, <2>4 DEF Near, Beside
<1> QED
  BY <1>7, <1>9, <1>10, <1>11, <1>12, <1>13, <1>14 DEF r, c, m

\* Otherwise it does nothing.
LEMMA UniteNothing ==
    ASSUME NEW h, Core(h), NEW b, b \in DOMAIN h.meta \cup {NULL}, b \notin Near(h.meta)
    PROVE  unite_right(h, b) = h
<1> DEFINE c == list_next(h, b)
<1>1. CASE b = NULL \/ ~IsFree(h, b) \/ c = NULL \/ ~IsFree(h, c)
  BY <1>1 DEF unite_right
<1>2. CASE ~(b = NULL \/ ~IsFree(h, b) \/ c = NULL \/ ~IsFree(h, c))
  <2>1. b \in DOMAIN h.meta /\ h.meta[b].is_free /\ c # NULL /\ h.meta[c].is_free
    BY <1>2 DEF IsFree
  <2>2. Listed(h.list, DOMAIN h.meta) /\ \A d \in DOMAIN h.meta : d \in Nat
    BY CoreIs
  <2>3. c \in DOMAIN h.meta /\ b < c /\ \A d \in DOMAIN h.meta : b < d => c <= d
    BY <2>1, <2>2, NextIs
  <2> HIDE DEF c
  <2>4. \A d \in DOMAIN h.meta : d <= b \/ c <= d
    BY <2>1, <2>2, <2>3
  <2>5. b \in Near(h.meta)
    BY <2>1, <2>3, <2>4 DEF Near, Beside, FreeOf
  <2> QED
    BY <2>5
<1> QED
  BY <1>1, <1>2

\* A block with a smaller address has one in front of b.
LEMMA PrevOf ==
    ASSUME NEW h, NEW D, Listed(h.list, D), NEW b \in D, NEW d \in D, d < b,
           \A e \in D : e <= d \/ b <= e
    PROVE  list_prev(h, b) = d
<1> DEFINE l == h.list
           i == IndexOf(h, b)
           c == list_prev(h, b)
<1>1. /\ Len(l) \in Nat
      /\ \A j \in 1..Len(l) : l[j] \in D /\ l[j] \in Nat
      /\ \A e \in D : \E j \in 1..Len(l) : l[j] = e
      /\ \A j, k \in 1..Len(l) : l[j] < l[k] => j < k
  BY ListedIs
<1>2. i \in 1..Len(l) /\ l[i] = b
  BY IndexOfIs
<1>3. c = IF i = 1 THEN NULL ELSE l[i - 1]
  BY DEF list_prev
<1>4. c # NULL => c \in D /\ c < b /\ \A e \in D : e < b => e <= c
  BY PrevIs
<1> HIDE DEF l, i, c
<1>5. PICK j \in 1..Len(l) : l[j] = d
  BY <1>1
<1>6. j < i
  BY <1>1, <1>2, <1>5
<1>7. i # 1 /\ i - 1 \in 1..Len(l)
  BY <1>1, <1>2, <1>5, <1>6
<1>8. c = l[i - 1] /\ c \in Nat /\ c # NULL
  BY <1>1, <1>3, <1>7 DEF NULL
<1>9. c \in D /\ c < b /\ d <= c
  BY <1>4, <1>8
<1>10. d \in Nat /\ b \in Nat
  BY <1>1, <1>2, <1>5
<1>11. c <= d
  BY <1>8, <1>9, <1>10
<1> QED
  BY <1>8, <1>9, <1>10, <1>11 DEF c

\* sfree for a block of the heap: the blocks that it makes neighbours are united.
LEMMA FreedNear ==
    ASSUME NEW h, Core(h), Sound(h, FreeOf(h.meta)), NEW p \in UsedOf(h.meta)
    PROVE  LET h0 == add_node_histo(Place(h, p, TRUE, Size(h, p)), p)
           IN  NoMore(h, UniteLeft(unite_right(h0, p), p))
<1> DEFINE h0 == add_node_histo(Place(h, p, TRUE, Size(h, p)), p)
           h1 == unite_right(h0, p)
           r == UniteLeft(h1, p)
           D == DOMAIN h.meta
           N == Near(h.meta)
           InFront(d) == d < p /\ \A e \in D : e <= d \/ p <= e
<1>1. /\ Core(h0) /\ Sound(h0, FreeOf(h0.meta))
      /\ DOMAIN h0.meta = D /\ h0.meta[p].is_free
      /\ \A c \in D : c # p => h0.meta[c] = h.meta[c]
  BY FreedKeeps
<1>2. p \in D /\ p # NULL /\ p \in Nat /\ IsMeta(h.meta) /\ \A d \in D : d \in Nat
  BY CoreIs DEF UsedOf
<1> HIDE DEF h0, D
<1>3. \A d \in FreeOf(h0.meta) : d \in D /\ (d # p => d \in FreeOf(h.meta))
  BY <1>1 DEF FreeOf, D
<1>4. ASSUME NEW d \in Near(h0.meta) PROVE d = p \/ d \in N \/ InFront(d)
  <2>1. PICK c \in FreeOf(h0.meta) : d < c /\ \A e \in D : e <= d \/ c <= e
    BY <1>1 DEF Near, Beside
  <2>2. d \in FreeOf(h0.meta)
    BY DEF Near
  <2>3. CASE c = p
    BY <2>1, <2>3
  <2>4. CASE d # p /\ c # p
    BY <1>3, <2>1, <2>2, <2>4 DEF Near, Beside, D
  <2> QED
    BY <2>3, <2>4
<1> HIDE DEF N
<1>5. \E x : /\ Core(h1) /\ Sound(h1, FreeOf(h1.meta)) /\ DOMAIN h1.meta \subseteq D /\ p \in DOMAIN h1.meta
             /\ \A d \in Near(h1.meta) : d = p \/ (d \in N /\ d # x) \/ InFront(d)
             /\ p \in Near(h1.meta) => x \in N
  <2>1. CASE p \in Near(h0.meta)
    <3> DEFINE c == list_next(h0, p)
    <3>1. /\ Core(h1) /\ Sound(h1, FreeOf(h1.meta)) /\ c \in FreeOf(h0.meta) /\ p < c
          /\ DOMAIN h1.meta = DOMAIN h0.meta \ {c} /\ p \in DOMAIN h1.meta
          /\ Near(h1.meta) \subseteq (Near(h0.meta) \ {c}) \cup {p}
          /\ p \in Near(h1.meta) => c \in Near(h0.meta)
      BY <1>1, <2>1, UniteNear
    <3> HIDE DEF h1, c
    <3>2. c \in Nat /\ c # p /\ ~(c < p)
      <4>1. c \in Nat /\ p < c
        BY <1>2, <1>3, <3>1
      <4> QED
        BY <1>2, <4>1
    <3>3. c \in Near(h0.meta) => c \in N
      BY <1>4, <3>2
    <3>4. \A d \in Near(h1.meta) : d = p \/ (d \in N /\ d # c) \/ InFront(d)
      BY <1>4, <3>1
    <3>5. DOMAIN h1.meta \subseteq D /\ (p \in Near(h1.meta) => c \in N)
      BY <1>1, <3>1, <3>3
    <3> HIDE DEF InFront
    <3> QED
      BY <3>1, <3>4, <3>5
  <2>2. CASE p \notin Near(h0.meta)
    <3>1. h1 = h0
      BY <1>1, <1>2, <2>2, UniteNothing
    <3> HIDE DEF h1
    <3>2. \A d \in Near(h1.meta) : d = p \/ (d \in N /\ d # NULL) \/ InFront(d)
      <4>1. \A d \in Near(h1.meta) : d \in Nat
        BY <1>2, <1>3, <3>1 DEF Near
      <4> QED
        BY <1>4, <3>1, <4>1 DEF NULL
    <3>3. DOMAIN h1.meta \subseteq D /\ p \in DOMAIN h1.meta
      BY <1>1, <1>2, <3>1
    <3> HIDE DEF InFront
    <3> QED
      BY <1>1, <2>2, <3>1, <3>2, <3>3
  <2> QED
    BY <2>1, <2>2
<1> HIDE DEF h1
<1>6. PICK x : /\ Core(h1) /\ Sound(h1, FreeOf(h1.meta)) /\ DOMAIN h1.meta \subseteq D /\ p \in DOMAIN h1.meta
               /\ \A d \in Near(h1.meta) : d = p \/ (d \in N /\ d # x) \/ InFront(d)
               /\ p \in Near(h1.meta) => x \in N
  BY <1>5
<1> DEFINE v == list_prev(h1, p)
<1>7. Listed(h1.list, DOMAIN h1.meta) /\ IsMeta(h1.meta)
  BY <1>6, CoreIs
<1>8. ASSUME NEW d \in Near(h1.meta), InFront(d) PROVE d = v
  <2>1. d \in DOMAIN h1.meta
    BY <1>7, NearIs
  <2>2. d < p /\ \A e \in DOMAIN h1.meta : e <= d \/ p <= e
    BY <1>6, <1>8
  <2> QED
    BY <1>6, <1>7, <2>1, <2>2, PrevOf
<1>9. r = unite_right(h1, v)
  BY DEF UniteLeft
<1>10. v \in DOMAIN h1.meta \cup {NULL}
  BY <1>6, <1>7, PrevIs
<1>11. CASE v \in Near(h1.meta)
  <2>1. v # NULL
    <3>1. \A d \in DOMAIN h1.meta : d \in Nat
      BY <1>7, NearIs
    <3> QED
      BY <1>7, <1>11, <3>1, NearIs DEF NULL
  <2>2. list_next(h1, v) = p
    BY <1>6, <1>7, <2>1, NextOfPrev
  <2>3. /\ Near(r.meta) \subseteq (Near(h1.meta) \ {list_next(h1, v)}) \cup {v}
        /\ v \in Near(r.meta) => list_next(h1, v) \in Near(h1.meta)
    BY <1>6, <1>9, <1>11, UniteNear
  <2> HIDE DEF v, r, InFront
  <2>4. Near(r.meta) \subseteq (N \ {x}) \cup {v}
    BY <1>6, <1>8, <2>2, <2>3
  <2>5. v \in Near(r.meta) => x \in N
    BY <1>6, <2>2, <2>3
  <2> QED
    BY <1>2, <2>4, <2>5, NoMoreNear DEF NoMore, N, r, h1, h0
<1>12. CASE v \notin Near(h1.meta)
  <2>1. r = h1
    BY <1>6, <1>9, <1>10, <1>12, UniteNothing
  <2> HIDE DEF v, r, InFront
  <2>2. Near(r.meta) \subseteq (N \ {x}) \cup {p}
    BY <1>6, <1>8, <1>12, <2>1
  <2>3. p \in Near(r.meta) => x \in N
    BY <1>6, <2>1
  <2> QED
    BY <1>2, <2>2, <2>3, NoMoreNear DEF NoMore, N, r, h1, h0
<1> QED
  BY <1>11, <1>12

LEMMA SfreeNear ==
    ASSUME NEW h, Core(h), Sound(h, FreeOf(h.meta)), h.broken = "none", NEW p \in InUse(h)
    PROVE  NoMore(h, sfree(h, p))
<1>1. CASE p \in DOMAIN h.maps
  <2>1. SizeOf(h, p) >= MMAP_SIZE
    BY <1>1, MapsApart
  <2>2. sfree(h, p) = deallocate_mmap(h, p)
    BY <1>1, <2>1 DEF sfree
  <2>3. sfree(h, p).meta = h.meta
    BY <2>2, CoreIs, MapsMeta
  <2>4. Cardinality(Near(h.meta)) \in Nat
    BY CoreIs, NearIs
  <2> QED
    BY <2>3, <2>4 DEF NoMore
<1>2. CASE p \notin DOMAIN h.maps
  <2> DEFINE h0 == add_node_histo(Place(h, p, TRUE, Size(h, p)), p)
             r == UniteLeft(unite_right(h0, p), p)
  <2>1. p \in UsedOf(h.meta) /\ p \in DOMAIN h.meta /\ ~IsFree(h, p)
    BY <1>2 DEF InUse, UsedOf, IsFree
  <2>2. ~(SizeOf(h, p) >= MMAP_SIZE)
    <3>1. SizeOf(h, p) < MMAP_SIZE /\ SizeOf(h, p) \in Nat /\ MMAP_SIZE \in Nat
      BY <2>1, SizeOfBlock, CoreIs, BinAssumption DEF Sound
    <3> QED
      BY <3>1
  <2>3. sfree(h, p) = r
    BY <1>2, <2>1, <2>2, Zenon DEF sfree
  <2>4. NoMore(h, r)
    BY <2>1, FreedNear
  <2> HIDE DEF r
  <2> QED
    BY <2>3, <2>4
<1> QED
  BY <1>1, <1>2

\* A pointer for another one: the user has as many as before.
LEMMA OneForOne ==
    ASSUME NEW S, IsFiniteSet(S), NEW p \in S, NEW q, q \notin S \ {p}
    PROVE  Cardinality((S \ {p}) \cup {q}) = Cardinality(S)
<1> DEFINE R == S \ {p}
<1>1. IsFiniteSet(R) /\ Cardinality(R) = Cardinality(S) - 1 /\ Cardinality(S) \in Nat
  BY FS_RemoveElement, FS_CardinalityType
<1>2. q \notin R
  OBVIOUS
<1> HIDE DEF R
<1>3. Cardinality(R \cup {q}) = Cardinality(R) + 1
  BY <1>1, <1>2, FS_AddElement
<1>4. Cardinality(R \cup {q}) = Cardinality(S)
  BY <1>1, <1>3
<1> QED
  BY <1>4 DEF R

\* Every call but srealloc leaves no more free blocks side by side than there were, and
\* srealloc leaves the user as many pointers as it had.
LEMMA StepUnites ==
    ASSUME IInv, Next
    PROVE  NoMore(heap, heap') \/ Cardinality(DOMAIN held') = Cardinality(DOMAIN held)
<1>1. /\ HeapOK(heap, held) /\ Core(heap) /\ Sound(heap, FreeOf(heap.meta))
      /\ DOMAIN held = InUse(heap) /\ heap.version \in Versions
  BY UserIs DEF IInv, Core
<1>2. \A g \in Grants : g.limit \in 0..HeapLimit
  BY DEF Grants
<1>3. /\ \A n \in Sizes[heap.version] : n \in Nat
      /\ \A n \in ReallocSizes[heap.version] : n \in Nat
  BY <1>1, WordAssumption
<1>4. ASSUME heap.broken = "none", NEW n \in Sizes[heap.version], Smalloc(n)
      PROVE  NoMore(heap, heap')
  <2>1. PICK g \in Grants : heap' = smalloc(heap, n, g).h
    BY <1>4 DEF Smalloc
  <2>2. NoMore(heap, smalloc(heap, n, g).h)
    BY <1>1, <1>2, <1>3, <1>4, SmallocNear
  <2> QED
    BY <2>1, <2>2
<1>5. ASSUME heap.broken = "none", NEW c \in Callocs, Scalloc(c[1], c[2])
      PROVE  NoMore(heap, heap')
  <2> DEFINE n == Asked(c[1] * c[2])
  <2>1. PICK g \in Grants : heap' = smalloc(heap, n, g).h
    BY <1>5 DEF Scalloc
  <2>2. c[1] * c[2] \in Nat
    <3>1. c[1] \in Nat /\ c[2] \in Nat
      BY WordAssumption
    <3> QED
      BY <3>1
  <2>3. n \in Nat
    BY <2>2, AskedIs, WordAssumption
  <2> HIDE DEF n
  <2>4. NoMore(heap, smalloc(heap, n, g).h)
    BY <1>1, <1>2, <1>5, <2>3, SmallocNear
  <2> QED
    BY <2>1, <2>4
<1>6. ASSUME heap.broken = "none", NEW p \in DOMAIN held \cup DOMAIN heap.meta, Sfree(p)
      PROVE  NoMore(heap, heap') \/ Cardinality(DOMAIN held') = Cardinality(DOMAIN held)
  <2>1. heap' = sfree(heap, p) /\ held' = Drop(held, p)
    BY <1>6 DEF Sfree
  <2>2. CASE p \in DOMAIN held
    <3>1. NoMore(heap, sfree(heap, p))
      BY <1>1, <1>6, <2>2, SfreeNear
    <3> QED
      BY <2>1, <3>1
  <2>3. CASE p \notin DOMAIN held
    <3>1. DOMAIN held' = DOMAIN held
      BY <2>1, <2>3 DEF Drop
    <3> QED
      BY <3>1
  <2> QED
    BY <2>2, <2>3
<1>7. ASSUME heap.broken = "none", NEW p \in DOMAIN held, NEW n \in ReallocSizes[heap.version],
             Srealloc(p, n)
      PROVE  Cardinality(DOMAIN held') = Cardinality(DOMAIN held)
  <2>1. p \in DOMAIN heap.maps => round_up(heap, n) >= MMAP_SIZE
    BY <1>7 DEF Srealloc
  <2>2. PICK g \in Grants :
           LET r == srealloc(heap, p, n, g) IN
           held' = IF r.p = NULL THEN held ELSE With(Drop(held, p), r.p, n)
    BY <1>7 DEF Srealloc
  <2> DEFINE r == srealloc(heap, p, n, g)
  <2>3. Moved(heap, r.h, p, r.p, round_up(heap, n), r.copied)
    BY <1>1, <1>2, <1>3, <1>7, <2>1, SreallocDoes
  <2>4. held' = IF r.p = NULL THEN held ELSE With(Drop(held, p), r.p, n)
    BY <2>2
  <2> HIDE DEF r
  <2>5. r.p # NULL => r.p \notin DOMAIN held \ {p}
    BY <1>1, <2>3 DEF Moved
  <2>6. IsFiniteSet(DOMAIN held)
    <3>1. DOMAIN held \subseteq 0..AddressLimit
      BY <1>1, CoreIs, MapsApart, LayoutAssumption DEF InUse, UsedOf
    <3>2. IsFiniteSet(0..AddressLimit)
      BY LayoutAssumption, FS_Interval
    <3> QED
      BY <3>1, <3>2, FS_Subset
  <2>7. CASE r.p = NULL
    BY <2>4, <2>7
  <2>8. CASE r.p # NULL
    <3>1. DOMAIN held' = (DOMAIN held \ {p}) \cup {r.p}
      BY <2>4, <2>8 DEF With, Drop
    <3> QED
      BY <2>5, <2>6, <2>8, <3>1, OneForOne
  <2> QED
    BY <2>7, <2>8
<1>8. ASSUME UNCHANGED vars PROVE Cardinality(DOMAIN held') = Cardinality(DOMAIN held)
  BY <1>8 DEF vars
<1> QED
  BY <1>4, <1>5, <1>6, <1>7, <1>8 DEF Next

\* A call that adds to the user's blocks or takes from them never leaves more free blocks
\* side by side than there were: sfree unites what it makes neighbours, and a split leaves
\* one block where there was one (malloc_3.cpp:195-215, 314-368).
THEOREM FreeingKeepsUnited == Spec => FreeingUnites
<1> DEFINE A == heap'.broken = "none" /\ Cardinality(DOMAIN held') # Cardinality(DOMAIN held)
                   => Cardinality(FreeNeighbours') <= Cardinality(FreeNeighbours)
<1>1. IInv /\ IInv' /\ [Next]_vars => [A]_vars
  <2> SUFFICES ASSUME IInv, IInv', Next, Cardinality(DOMAIN held') # Cardinality(DOMAIN held)
               PROVE  Cardinality(FreeNeighbours') <= Cardinality(FreeNeighbours)
    BY DEF A
  <2>1. NoMore(heap, heap')
    BY StepUnites
  <2>2. Core(heap) /\ Core(heap')
    BY UserIs DEF IInv
  <2>3. FreeNeighbours = NeighboursOf(heap) /\ FreeNeighbours' = NeighboursOf(heap')
    BY DEF FreeNeighbours, NeighboursOf, IsFree
  <2>4. /\ Cardinality(NeighboursOf(heap)) = Cardinality(Near(heap.meta))
        /\ Cardinality(NeighboursOf(heap')) = Cardinality(Near(heap'.meta))
    BY <2>2, NearCount
  <2> QED
    BY <2>1, <2>3, <2>4 DEF NoMore
<1>2. []IInv /\ [][Next]_vars => [][A]_vars
  BY <1>1, PTL
<1> QED
  BY <1>2, BinInvariant, PTL DEF Spec, FreeingUnites
=============================================================================
