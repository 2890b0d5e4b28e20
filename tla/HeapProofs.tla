----------------------------- MODULE HeapProofs -----------------------------
(***************************************************************************)
(* Proofs about the kernel heap, for every table size, every set of        *)
(* request sizes and every set of callers.                                 *)
(***************************************************************************)
EXTENDS HeapLoops, WellFoundedInduction, TLAPS

-----------------------------------------------------------------------------
(* Arithmetic of addresses and sizes.                                      *)

\* A non-empty set of naturals has a least element, and Min names it.
LEMMA MinOfNat ==
  ASSUME NEW S \in SUBSET Nat, S # {}
  PROVE  Min(S) \in S /\ \A y \in S : Min(S) <= y
<1>1. PICK x \in S : \A y \in S : ~(<<y, x>> \in OpToRel(<, Nat))
  BY NatLessThanWellFounded, WFMin
<1>2. \A y \in S : ~(y < x)
  BY <1>1 DEF OpToRel
<1>3. \A y \in S : x <= y
  BY <1>2
<1>. QED
  BY <1>3 DEF Min

\* address_to_heap_block undoes get_offset, for every byte of the block.
LEMMA BlockOfAddress ==
  ASSUME NEW b \in Nat, NEW off \in 0..(BlockSize - 1)
  PROVE  address_to_heap_block(HEAP_ADDRESS + get_offset(b) + off) = b
BY DEF address_to_heap_block, get_offset, HEAP_ADDRESS, BlockSize

\* heap_align_size rounds up to whole blocks, and zero bytes are no block.
LEMMA NumBlocksType ==
  ASSUME NEW bytes \in Nat
  PROVE  /\ NumBlocks(bytes) \in Nat
         /\ NumBlocks(bytes) = 0 <=> bytes = 0
BY DEF NumBlocks, heap_align_size, BlockSize

\* The last byte of a request lies in the last block given for it.
LEMMA LastBlock ==
  ASSUME NEW b \in Nat, NEW bytes \in Nat
  PROVE  address_to_heap_block(HEAP_ADDRESS + get_offset(b) + bytes - 1)
           = b + NumBlocks(bytes) - 1
BY DEF address_to_heap_block, get_offset, HEAP_ADDRESS, NumBlocks,
       heap_align_size, BlockSize

-----------------------------------------------------------------------------
(* The table operations.                                                   *)

\* The search answers -EMEM or a block of the table such that every block of
\* the run that lies in the table is free.
LEMMA FreeBlock ==
  ASSUME NEW e, NEW n \in Nat
  PROVE  \/ heap_get_free_block(e, n) = EMEM
         \/ /\ heap_get_free_block(e, n) \in Table
            /\ \A i \in Extent(heap_get_free_block(e, n), n) \cap Table :
                  IsFree(e, i)
<1>1. CASE Fits(e, n) # {}
  <2>1. Fits(e, n) \in SUBSET Nat
    BY TotalAssumption DEF Fits, Table
  <2>2. Min(Fits(e, n)) \in Fits(e, n)
    BY <1>1, <2>1, MinOfNat
  <2>. QED
    BY <1>1, <2>2 DEF Fits, heap_get_free_block, Extent
<1>2. CASE Fits(e, n) = {} /\ TailRun(e) # {}
  <2>1. TailRun(e) \in SUBSET Nat
    BY TotalAssumption DEF TailRun, Table
  <2>2. Min(TailRun(e)) \in TailRun(e)
    BY <1>2, <2>1, MinOfNat
  <2>3. heap_get_free_block(e, n) = Min(TailRun(e))
    BY <1>2 DEF heap_get_free_block
  <2>. QED
    BY <2>2, <2>3, TotalAssumption DEF TailRun, Extent, Table
<1>3. CASE Fits(e, n) = {} /\ TailRun(e) = {}
  BY <1>3 DEF heap_get_free_block
<1>. QED
  BY <1>1, <1>2, <1>3

\* kfree stops at the first block without HAS_NEXT, or at the last one.
LEMMA ChainEndProperty ==
  ASSUME NEW e, NEW b \in Table
  PROVE  /\ ChainEnd(e, b) \in b..(Total - 1)
         /\ \A i \in b..(ChainEnd(e, b) - 1) : "HAS_NEXT" \in e[i]
         /\ \/ ChainEnd(e, b) = Total - 1
            \/ "HAS_NEXT" \notin e[ChainEnd(e, b)]
<1>. DEFINE S == {i \in b..(Total - 1) : "HAS_NEXT" \notin e[i]} \cup {Total - 1}
<1>1. S \in SUBSET Nat /\ S # {}
  BY TotalAssumption DEF Table
<1>2. Min(S) \in S /\ \A y \in S : Min(S) <= y
  BY <1>1, MinOfNat
<1>3. ChainEnd(e, b) = Min(S)
  BY DEF ChainEnd
<1>4. Min(S) \in b..(Total - 1)
  BY <1>2, TotalAssumption DEF Table
<1>5. ASSUME NEW i \in b..(Min(S) - 1)
      PROVE  "HAS_NEXT" \in e[i]
  BY <1>2, <1>4, <1>5, TotalAssumption DEF Table
<1>. QED
  BY <1>2, <1>3, <1>4, <1>5

\* A held address names its block, and the bytes from it on fill whole blocks.
LEMMA AddressFacts ==
  ASSUME NEW b \in Table, NEW bytes \in Nat, NEW a,
         a = HEAP_ADDRESS + get_offset(b)
  PROVE  /\ a \in Nat /\ a # NULL
         /\ address_to_heap_block(a) = b
         /\ address_to_heap_block(a)..address_to_heap_block(a + bytes - 1)
              = Extent(b, NumBlocks(bytes))
<1>1. b \in Nat
  BY TotalAssumption DEF Table
<1>2. a \in Nat /\ a # NULL
  BY <1>1 DEF HEAP_ADDRESS, get_offset, BlockSize, NULL
<1>3. address_to_heap_block(a) = b
  BY <1>1, <1>2 DEF address_to_heap_block, get_offset, HEAP_ADDRESS, BlockSize
<1>4. address_to_heap_block(a + bytes - 1) = b + NumBlocks(bytes) - 1
  BY <1>1, LastBlock
<1>. QED
  BY <1>2, <1>3, <1>4 DEF Extent

-----------------------------------------------------------------------------
(* The inductive invariant.  Disjointness alone is not inductive: that a   *)
(* free run is nobody's follows from the chains of the live allocations,   *)
(* and that kfree clears its own chain only needs, for a zero-byte         *)
(* pointer, that every marked block has an owner.                          *)

HeapAddress(a) == \E b \in Table : a = HEAP_ADDRESS + get_offset(b)

Aligned == /\ \A h \in Handles : ptr[h] # NULL => HeapAddress(ptr[h])
           /\ \A a \in recent : HeapAddress(a)

IInv == /\ TypeOK
        /\ Aligned
        /\ Disjoint
        /\ ChainsIntact
        /\ NoLeak
        /\ RecentIsFree

\* What a held pointer owns.
LEMMA Held ==
  ASSUME TypeOK, Aligned, NEW h \in Handles, ptr[h] # NULL
  PROVE  /\ Block(h) \in Table
         /\ ptr[h] = HEAP_ADDRESS + get_offset(Block(h))
         /\ NumBlocks(size[h]) \in Nat
         /\ Owned(h) = Extent(Block(h), NumBlocks(size[h]))
<1>1. PICK b \in Table : ptr[h] = HEAP_ADDRESS + get_offset(b)
  BY DEF Aligned, HeapAddress
<1>2. size[h] \in Nat
  BY DEF TypeOK
<1>3. /\ address_to_heap_block(ptr[h]) = b
      /\ address_to_heap_block(ptr[h])..address_to_heap_block(ptr[h] + size[h] - 1)
           = Extent(b, NumBlocks(size[h]))
  BY <1>1, <1>2, AddressFacts
<1>. QED
  BY <1>1, <1>2, <1>3, NumBlocksType DEF Block, Owned

\* A block somebody owns is marked, unless it lies past the table; a run that
\* leaves the table contains its last block.
LEMMA OwnedIsTaken ==
  ASSUME IInv, ~misused, NEW h \in Handles, NEW i \in Owned(h)
  PROVE  /\ i \in Table => "TAKEN" \in entries[i]
         /\ i \in Nat
         /\ i \notin Table => Total - 1 \in Owned(h)
<1>1. ptr[h] # NULL
  BY DEF Owned
<1>2. /\ Block(h) \in Table
      /\ NumBlocks(size[h]) \in Nat
      /\ Owned(h) = Extent(Block(h), NumBlocks(size[h]))
  BY <1>1, Held DEF IInv
<1>3. i \in Table => entries[i] = Chain(Block(h), NumBlocks(size[h]), i)
  BY DEF IInv, ChainsIntact
<1>. QED
  BY <1>2, <1>3, TotalAssumption DEF Chain, Extent, Table

\* A block without TAKEN has no flag at all.
LEMMA FreeIsEmpty ==
  ASSUME IInv, ~misused, NEW i \in Table, IsFree(entries, i)
  PROVE  entries[i] = FREE /\ \A h \in Handles : i \notin Owned(h)
BY OwnedIsTaken DEF IInv, NoLeak, IsFree

\* Freeing from a free block on changes nothing.
LEMMA FreeOfFree ==
  ASSUME TypeOK, NEW b \in Table, entries[b] = FREE
  PROVE  /\ ChainEnd(entries, b) = b
         /\ heap_free_blocks(entries, b) = entries
<1>1. ChainEnd(entries, b) = b
  BY ChainEndProperty, TotalAssumption DEF FREE, Table
<1>2. b..b = {b}
  BY TotalAssumption DEF Table
<1>3. entries = [i \in Table |-> entries[i]]
  BY DEF TypeOK
<1>. QED
  BY <1>1, <1>2, <1>3 DEF heap_free_blocks

\* The empty table of kheap_init satisfies the invariant.
LEMMA InitInvariant == Init => IInv
<1>. SUFFICES ASSUME Init PROVE IInv
  OBVIOUS
<1>1. TypeOK
  BY DEF Init, TypeOK, FREE, NULL
<1>2. Aligned /\ RecentIsFree
  BY DEF Init, Aligned, RecentIsFree
<1>3. \A h \in Handles : Owned(h) = {}
  BY DEF Init, Owned
<1>4. Disjoint /\ ChainsIntact
  BY <1>3 DEF Disjoint, ChainsIntact
<1>5. NoLeak
  BY DEF Init, NoLeak
<1>. QED
  BY <1>1, <1>2, <1>4, <1>5 DEF IInv

\* kmalloc hands out a free run and marks it.
LEMMA KmallocStep ==
  ASSUME IInv, NEW h \in Handles, NEW bytes \in Sizes, kmalloc(h, bytes)
  PROVE  /\ IInv'
         /\ ~misused => \A g \in Handles \ {h} : Owned(g) \cap Owned(h)' = {}
         /\ \A g \in Handles \ {h} : Owned(g)' = Owned(g)
         /\ Owned(h) = {}
         /\ \E s, n \in Nat : Owned(h)' = Extent(s, n)
<1>. DEFINE n == NumBlocks(bytes)
            s == heap_get_free_block(entries, n)
<1>1. bytes \in Nat /\ n \in Nat
  BY SizesAssumption, NumBlocksType
<1>2. s \in Table /\ \A i \in Extent(s, n) \cap Table : IsFree(entries, i)
  <2>1. s >= 0
    BY DEF kmalloc
  <2>. QED
    BY <1>1, <2>1, FreeBlock DEF EMEM
<1>3. s \in Nat /\ s < Total
  BY <1>2, TotalAssumption DEF Table
<1>. HIDE DEF n, s
<1>4. /\ ptr[h] = NULL
      /\ entries' = heap_allocate_blocks(entries, s, n)
      /\ spill' = spill \cup (Extent(s, n) \ Table)
      /\ ptr' = [ptr EXCEPT ![h] = HEAP_ADDRESS + get_offset(s)]
      /\ size' = [size EXCEPT ![h] = bytes]
      /\ recent' = {}
      /\ misused' = misused
  BY DEF kmalloc, n, s
<1>5. TypeOK
  BY DEF IInv
<1>6. /\ ptr'[h] = HEAP_ADDRESS + get_offset(s) /\ ptr'[h] # NULL /\ ptr'[h] \in Nat
      /\ size'[h] = bytes
      /\ Block(h)' = s
      /\ Owned(h)' = Extent(s, n)
  <2>1. ptr'[h] = HEAP_ADDRESS + get_offset(s) /\ size'[h] = bytes
    BY <1>4, <1>5 DEF TypeOK
  <2>2. /\ ptr'[h] \in Nat /\ ptr'[h] # NULL
        /\ address_to_heap_block(ptr'[h]) = s
        /\ address_to_heap_block(ptr'[h])..address_to_heap_block(ptr'[h] + bytes - 1)
             = Extent(s, NumBlocks(bytes))
    BY <1>1, <1>2, <2>1, AddressFacts
  <2>. QED
    BY <2>1, <2>2 DEF Block, Owned, n
<1>7. \A g \in Handles \ {h} : /\ ptr'[g] = ptr[g] /\ size'[g] = size[g]
                               /\ Block(g)' = Block(g) /\ Owned(g)' = Owned(g)
  BY <1>4, <1>5 DEF TypeOK, Block, Owned
<1>8. ASSUME ~misused, NEW g \in Handles, NEW i \in Owned(g)
      PROVE  i \notin Extent(s, n)
  <2>1. /\ i \in Table => "TAKEN" \in entries[i]
        /\ i \in Nat
        /\ i \notin Table => Total - 1 \in Owned(g)
    BY <1>8, OwnedIsTaken
  <2>2. CASE i \in Table
    BY <1>2, <2>1, <2>2 DEF IsFree
  <2>3. CASE i \notin Table
    <3>1. Total - 1 \in Table /\ i >= Total
      BY <2>1, <2>3, TotalAssumption DEF Table
    <3>2. "TAKEN" \in entries[Total - 1]
      BY <1>8, <2>1, <2>3, <3>1, OwnedIsTaken
    <3>3. i \in Extent(s, n) => Total - 1 \in Extent(s, n)
      BY <1>1, <1>3, <2>1, <3>1, TotalAssumption DEF Extent
    <3>. QED
      BY <1>2, <3>1, <3>2, <3>3 DEF IsFree
  <2>. QED
    BY <2>2, <2>3
<1>9. TypeOK'
  <2>1. entries' \in [Table -> SUBSET Flags]
    BY <1>4, <1>5 DEF TypeOK, heap_allocate_blocks, Chain, Flags
  <2>2. spill' \in SUBSET (Nat \ Table)
    <3>1. Extent(s, n) \subseteq Nat
      BY <1>1, <1>3 DEF Extent
    <3>. QED
      BY <1>4, <1>5, <3>1 DEF TypeOK
  <2>3. ptr' \in [Handles -> Nat] /\ size' \in [Handles -> Nat]
    <3>1. HEAP_ADDRESS + get_offset(s) \in Nat
      BY <1>6
    <3>. QED
      BY <1>1, <1>4, <1>5, <3>1 DEF TypeOK
  <2>. QED
    BY <1>4, <1>5, <2>1, <2>2, <2>3 DEF TypeOK
<1>10. Aligned'
  <2>1. \A g \in Handles \ {h} : ptr'[g] # NULL => HeapAddress(ptr'[g])
    BY <1>7 DEF IInv, Aligned
  <2>2. HeapAddress(ptr'[h])
    BY <1>2, <1>6 DEF HeapAddress
  <2>. QED
    BY <1>4, <2>1, <2>2 DEF Aligned
<1>11. Disjoint'
  BY <1>4, <1>6, <1>7, <1>8 DEF IInv, Disjoint
<1>12. ASSUME ~misused, NEW g \in Handles \ {h}, NEW i \in Owned(g) \cap Table
       PROVE  entries'[i] = entries[i]
  BY <1>4, <1>8, <1>12 DEF heap_allocate_blocks
<1>13. \A i \in Extent(s, n) \cap Table : entries'[i] = Chain(s, n, i)
  BY <1>4 DEF heap_allocate_blocks
<1>14. ChainsIntact'
  <2>. SUFFICES ASSUME ~misused, NEW g \in Handles, NEW i \in Owned(g)' \cap Table
                PROVE  entries'[i] = Chain(Block(g)', NumBlocks(size'[g]), i)
    BY <1>4 DEF ChainsIntact, Chain
  <2>1. CASE g = h
    BY <1>6, <1>13, <2>1 DEF n
  <2>2. CASE g # h
    BY <1>7, <1>12, <2>2 DEF IInv, ChainsIntact
  <2>. QED
    BY <2>1, <2>2
<1>15. NoLeak'
  <2>. SUFFICES ASSUME ~misused, NEW i \in Table, entries'[i] # FREE
                PROVE  \E g \in Handles : i \in Owned(g)'
    BY <1>4 DEF NoLeak
  <2>1. CASE i \in Extent(s, n)
    BY <1>6, <2>1
  <2>2. CASE i \notin Extent(s, n)
    <3>1. entries[i] # FREE
      BY <1>4, <2>2 DEF heap_allocate_blocks
    <3>2. PICK g \in Handles : i \in Owned(g)
      BY <3>1 DEF IInv, NoLeak
    <3>3. g # h
      BY <1>4, <3>2 DEF Owned
    <3>. QED
      BY <1>7, <3>2, <3>3
  <2>. QED
    BY <2>1, <2>2
<1>16. RecentIsFree'
  BY <1>4 DEF RecentIsFree
<1>17. Owned(h) = {}
  BY <1>4 DEF Owned
<1>18. \E x, y \in Nat : Owned(h)' = Extent(x, y)
  BY <1>1, <1>3, <1>6
<1>. QED
  BY <1>6, <1>7, <1>8, <1>9, <1>10, <1>11, <1>14, <1>15, <1>16, <1>17, <1>18 DEF IInv

\* The blocks kfree clears are the caller's own, all of them.
LEMMA FreedBlocks ==
  ASSUME IInv, ~misused, NEW h \in Handles, ptr[h] # NULL,
         size[h] # 0 \/ IsFree(entries, Block(h))
  PROVE  /\ \A g \in Handles \ {h} :
              Owned(g) \cap (Block(h)..ChainEnd(entries, Block(h))) = {}
         /\ Owned(h) \cap Table \subseteq Block(h)..ChainEnd(entries, Block(h))
<1>. DEFINE b == Block(h)
            c == ChainEnd(entries, b)
            N == NumBlocks(size[h])
<1>1. /\ b \in Table /\ N \in Nat
      /\ Owned(h) = Extent(b, N)
  BY Held DEF IInv
<1>2. /\ c \in b..(Total - 1)
      /\ \A i \in b..(c - 1) : "HAS_NEXT" \in entries[i]
      /\ c = Total - 1 \/ "HAS_NEXT" \notin entries[c]
  BY <1>1, ChainEndProperty
<1>3. size[h] \in Nat
  BY DEF IInv, TypeOK
<1>4. \A i \in Extent(b, N) \cap Table : entries[i] = Chain(b, N, i)
  BY <1>1 DEF IInv, ChainsIntact
<1>. HIDE DEF b, c, N
<1>5. CASE size[h] # 0
  <2>1. N > 0
    BY <1>1, <1>3, <1>5, NumBlocksType DEF N
  <2>2. c <= b + N - 1
    <3>. SUFFICES ASSUME c > b + N - 1 PROVE FALSE
      BY <1>1, <1>2, TotalAssumption DEF Table
    <3>1. b + N - 1 \in b..(c - 1) /\ b + N - 1 \in Extent(b, N) \cap Table
      BY <1>1, <1>2, <2>1, TotalAssumption DEF Table, Extent
    <3>2. "HAS_NEXT" \notin Chain(b, N, b + N - 1)
      BY <1>1, TotalAssumption DEF Chain, Table
    <3>. QED
      BY <1>2, <1>4, <3>1, <3>2
  <2>3. c = Total - 1 \/ c >= b + N - 1
    <3>. SUFFICES ASSUME c < b + N - 1, c # Total - 1 PROVE FALSE
      BY <1>1, <1>2, TotalAssumption DEF Table
    <3>1. c \in Extent(b, N) \cap Table
      BY <1>1, <1>2, TotalAssumption DEF Table, Extent
    <3>2. "HAS_NEXT" \in Chain(b, N, c)
      BY DEF Chain
    <3>. QED
      BY <1>2, <1>4, <3>1, <3>2
  <2>4. b..c \subseteq Owned(h)
    BY <1>1, <1>2, <2>2, TotalAssumption DEF Table, Extent
  <2>5. Owned(h) \cap Table \subseteq b..c
    BY <1>1, <1>2, <2>3, TotalAssumption DEF Table, Extent
  <2>. QED
    BY <2>4, <2>5 DEF IInv, Disjoint, b, c
<1>6. CASE size[h] = 0
  <2>1. IsFree(entries, b)
    BY <1>6 DEF b
  <2>2. entries[b] = FREE /\ \A g \in Handles : b \notin Owned(g)
    BY <1>1, <2>1, FreeIsEmpty
  <2>3. c = b
    BY <1>1, <2>2, FreeOfFree DEF c, IInv
  <2>4. b..c = {b}
    BY <1>1, <2>3, TotalAssumption DEF Table
  <2>5. N = 0
    BY <1>3, <1>6, NumBlocksType DEF N
  <2>6. Owned(h) = {}
    BY <1>1, <2>5, TotalAssumption DEF Extent, Table
  <2>. QED
    BY <2>2, <2>4, <2>6 DEF b, c
<1>. QED
  BY <1>5, <1>6

\* kfree empties its own chain and keeps everything else.
LEMMA KfreeStep ==
  ASSUME IInv, NEW h \in Handles, kfree(h)
  PROVE  /\ IInv'
         /\ \A g \in Handles \ {h} : Owned(g)' = Owned(g)
         /\ Owned(h)' = {}
<1>. DEFINE b == Block(h)
            c == ChainEnd(entries, b)
<1>1. TypeOK /\ Aligned
  BY DEF IInv
<1>2. /\ ptr[h] # NULL
      /\ entries' = heap_free_blocks(entries, b)
      /\ spill' = spill
      /\ ptr' = [ptr EXCEPT ![h] = NULL]
      /\ size' = [size EXCEPT ![h] = 0]
      /\ recent' = recent \cup {ptr[h]}
      /\ misused' = (misused \/ (size[h] = 0 /\ ~IsFree(entries, b)))
  BY DEF kfree
<1>3. b \in Table /\ c \in b..(Total - 1) /\ ptr[h] = HEAP_ADDRESS + get_offset(b)
  BY <1>1, <1>2, Held, ChainEndProperty
<1>4. \A i \in Table : entries'[i] = IF i \in b..c THEN FREE ELSE entries[i]
  BY <1>2 DEF heap_free_blocks
<1>5. \A g \in Handles \ {h} : /\ ptr'[g] = ptr[g] /\ size'[g] = size[g]
                               /\ Block(g)' = Block(g) /\ Owned(g)' = Owned(g)
  BY <1>1, <1>2 DEF TypeOK, Block, Owned
<1>6. ptr'[h] = NULL /\ Owned(h)' = {}
  BY <1>1, <1>2 DEF TypeOK, Owned
<1>7. ~misused' => ~misused /\ (size[h] # 0 \/ IsFree(entries, b))
  BY <1>2
<1>8. ~misused' => /\ \A g \in Handles \ {h} : Owned(g) \cap (b..c) = {}
                   /\ Owned(h) \cap Table \subseteq b..c
  BY <1>2, <1>7, FreedBlocks
<1>. HIDE DEF b, c
<1>9. TypeOK'
  <2>1. entries' \in [Table -> SUBSET Flags]
    BY <1>1, <1>2 DEF TypeOK, heap_free_blocks, FREE
  <2>2. ptr' \in [Handles -> Nat] /\ size' \in [Handles -> Nat]
    BY <1>1, <1>2 DEF TypeOK, NULL
  <2>3. recent' \in SUBSET Nat
    BY <1>1, <1>2 DEF TypeOK
  <2>4. misused' \in BOOLEAN
    BY <1>2
  <2>. QED
    BY <1>1, <1>2, <2>1, <2>2, <2>3, <2>4 DEF TypeOK
<1>10. Aligned'
  <2>1. \A g \in Handles : ptr'[g] # NULL => HeapAddress(ptr'[g])
    BY <1>1, <1>5, <1>6 DEF Aligned
  <2>2. \A a \in recent' : HeapAddress(a)
    BY <1>1, <1>2, <1>3 DEF Aligned, HeapAddress
  <2>. QED
    BY <2>1, <2>2 DEF Aligned
<1>11. Disjoint'
  BY <1>5, <1>6, <1>7 DEF IInv, Disjoint
<1>12. ChainsIntact'
  <2>. SUFFICES ASSUME ~misused', NEW g \in Handles, NEW i \in Owned(g)' \cap Table
                PROVE  entries'[i] = Chain(Block(g)', NumBlocks(size'[g]), i)
    BY DEF ChainsIntact
  <2>1. g # h
    BY <1>6
  <2>2. i \in Owned(g) /\ i \notin b..c
    BY <1>5, <1>8, <2>1
  <2>3. entries'[i] = entries[i]
    BY <1>4, <2>2
  <2>4. entries[i] = Chain(Block(g), NumBlocks(size[g]), i)
    BY <1>7, <2>2 DEF IInv, ChainsIntact
  <2>. QED
    BY <1>5, <2>1, <2>3, <2>4
<1>13. NoLeak'
  <2>. SUFFICES ASSUME ~misused', NEW i \in Table, entries'[i] # FREE
                PROVE  \E g \in Handles : i \in Owned(g)'
    BY DEF NoLeak
  <2>1. i \notin b..c /\ entries[i] # FREE
    BY <1>4
  <2>2. PICK g \in Handles : i \in Owned(g)
    BY <1>7, <2>1 DEF IInv, NoLeak
  <2>3. g # h
    BY <1>8, <2>1, <2>2
  <2>. QED
    BY <1>5, <2>2, <2>3
<1>14. RecentIsFree'
  <2>. SUFFICES ASSUME ~misused', NEW a \in recent', NEW off \in Offsets
                PROVE  entries'[address_to_heap_block(a + off)] = FREE
    BY DEF RecentIsFree
  <2>1. PICK x \in Table : a = HEAP_ADDRESS + get_offset(x)
    BY <1>10 DEF Aligned, HeapAddress
  <2>2. address_to_heap_block(a + off) = x
    BY <2>1, BlockOfAddress, OffsetsAssumption, TotalAssumption DEF Table
  <2>3. CASE a \in recent
    BY <1>4, <1>7, <2>2, <2>3 DEF IInv, RecentIsFree
  <2>4. CASE a = ptr[h]
    <3>1. x = b
      BY <1>3, <2>1, <2>4, TotalAssumption DEF Table, get_offset, BlockSize,
         HEAP_ADDRESS
    <3>2. b \in b..c
      BY <1>3, TotalAssumption DEF Table
    <3>. QED
      BY <1>4, <2>2, <3>1, <3>2
  <2>. QED
    BY <1>2, <2>3, <2>4
<1>. QED
  BY <1>5, <1>6, <1>9, <1>10, <1>11, <1>12, <1>13, <1>14 DEF IInv

\* A second kfree of a free block changes nothing.
LEMMA KfreeAgainStep ==
  ASSUME IInv, NEW a \in recent, NEW off \in Offsets, kfree_again(a + off)
  PROVE  IInv' /\ \A g \in Handles : Owned(g)' = Owned(g)
<1>1. TypeOK /\ Aligned
  BY DEF IInv
<1>2. PICK b \in Table : a = HEAP_ADDRESS + get_offset(b)
  BY <1>1 DEF Aligned, HeapAddress
<1>3. address_to_heap_block(a + off) = b
  BY <1>2, BlockOfAddress, OffsetsAssumption, TotalAssumption DEF Table
<1>4. /\ entries' = heap_free_blocks(entries, b)
      /\ UNCHANGED <<spill, ptr, size, recent, misused>>
  BY <1>3 DEF kfree_again
<1>5. entries' \in [Table -> SUBSET Flags]
  BY <1>1, <1>4 DEF TypeOK, heap_free_blocks, FREE
<1>6. ~misused => entries' = entries
  BY <1>1, <1>3, <1>4, FreeOfFree DEF IInv, RecentIsFree
<1>7. \A g \in Handles : Owned(g)' = Owned(g) /\ Block(g)' = Block(g)
  BY <1>4 DEF Owned, Block
<1>8. TypeOK' /\ Aligned'
  BY <1>1, <1>4, <1>5 DEF TypeOK, Aligned
<1>9. Disjoint'
  BY <1>4, <1>7 DEF IInv, Disjoint
<1>10. ChainsIntact'
  BY <1>4, <1>6, <1>7 DEF IInv, ChainsIntact
<1>11. NoLeak' /\ RecentIsFree'
  BY <1>4, <1>6, <1>7 DEF IInv, NoLeak, RecentIsFree
<1>. QED
  BY <1>7, <1>8, <1>9, <1>10, <1>11 DEF IInv

\* A kmalloc that fails changes nothing.
LEMMA KmallocFailsStep ==
  ASSUME IInv, NEW h \in Handles, NEW bytes \in Sizes, kmalloc_fails(h, bytes)
  PROVE  IInv' /\ \A g \in Handles : Owned(g)' = Owned(g)
<1>1. /\ UNCHANGED <<entries, spill, ptr, size, misused>>
      /\ recent' = {}
  BY DEF kmalloc_fails
<1>2. \A g \in Handles : Owned(g)' = Owned(g) /\ Block(g)' = Block(g)
  BY <1>1 DEF Owned, Block
<1>3. TypeOK' /\ Aligned' /\ RecentIsFree'
  BY <1>1 DEF IInv, TypeOK, Aligned, RecentIsFree
<1>4. Disjoint' /\ ChainsIntact' /\ NoLeak'
  BY <1>1, <1>2 DEF IInv, Disjoint, ChainsIntact, NoLeak
<1>. QED
  BY <1>2, <1>3, <1>4 DEF IInv

\* Nor does a step of somebody else.
LEMMA StutterStep == ASSUME IInv, UNCHANGED vars PROVE IInv'
BY DEF vars, IInv, TypeOK, Aligned, Disjoint, ChainsIntact, NoLeak,
       RecentIsFree, Owned, Block

\* Every step of the heap keeps the invariant.
LEMMA HeapStep == ASSUME IInv, [Next]_vars PROVE IInv'
<1>1. ASSUME NEW h \in Handles, NEW bytes \in Sizes, kmalloc(h, bytes)
      PROVE  IInv'
  BY <1>1, KmallocStep
<1>2. ASSUME NEW h \in Handles, NEW bytes \in Sizes, kmalloc_fails(h, bytes)
      PROVE  IInv'
  BY <1>2, KmallocFailsStep
<1>3. ASSUME NEW h \in Handles, kfree(h)
      PROVE  IInv'
  BY <1>3, KfreeStep
<1>4. ASSUME NEW a \in recent, NEW off \in Offsets, kfree_again(a + off)
      PROVE  IInv'
  BY <1>4, KfreeAgainStep
<1>5. CASE UNCHANGED vars
  BY <1>5, StutterStep
<1>. QED
  BY <1>1, <1>2, <1>3, <1>4, <1>5 DEF Next

\* Every reachable state of the heap satisfies the inductive invariant.
THEOREM HeapInvariant == Spec => []IInv
<1>1. IInv /\ [Next]_vars => IInv'
  BY HeapStep
<1>. QED
  BY <1>1, InitInvariant, PTL DEF Spec

\* The table stays a table: no entry outside the flags of heap.h, no pointer
\* outside the addresses kmalloc builds.
THEOREM HeapTypeCorrect == Spec => []TypeOK
<1>1. IInv => TypeOK
  BY DEF IInv
<1>. QED
  BY <1>1, HeapInvariant, PTL

\* kmalloc never gives a byte to two callers at once, for any number of
\* blocks, callers and request sizes (heap.c:51-118).
THEOREM HeapDisjoint == Spec => []Disjoint
<1>1. IInv => Disjoint
  BY DEF IInv
<1>. QED
  BY <1>1, HeapInvariant, PTL

\* The chain of flags of every live allocation is exact, so that kfree clears
\* it completely and nothing else (heap.c:87-147).
THEOREM HeapChains == Spec => []ChainsIntact
<1>1. IInv => ChainsIntact
  BY DEF IInv
<1>. QED
  BY <1>1, HeapInvariant, PTL

\* No block is lost: what is marked belongs to a caller (heap.c:136-147).
THEOREM HeapNoLeak == Spec => []NoLeak
<1>1. IInv => NoLeak
  BY DEF IInv
<1>. QED
  BY <1>1, HeapInvariant, PTL

\* The double kfree of free_path (path.c:103-115) finds a free block.
THEOREM HeapDoubleFree == Spec => []RecentIsFree
<1>1. IInv => RecentIsFree
  BY DEF IInv
<1>. QED
  BY <1>1, HeapInvariant, PTL

\* A run that fits is preferred to the run that ends the table, so kmalloc
\* leaves the heap only when nothing fits (heap.c:70-79).
LEMMA SpillStep ==
  ASSUME IInv, NEW h \in Handles, NEW bytes \in Sizes, kmalloc(h, bytes),
         spill' # spill
  PROVE  /\ ptr[h] = NULL /\ ptr'[h] # NULL
         /\ Fits(entries, NumBlocks(size'[h])) = {}
<1>. DEFINE n == NumBlocks(bytes)
            s == heap_get_free_block(entries, n)
<1>1. bytes \in Nat /\ n \in Nat
  BY SizesAssumption, NumBlocksType
<1>2. s \in Table
  <2>1. s >= 0
    BY DEF kmalloc
  <2>. QED
    BY <1>1, <2>1, FreeBlock DEF EMEM
<1>3. PICK i \in Extent(s, n) : i \notin Table
  BY DEF kmalloc
<1>4. s + n > Total
  BY <1>1, <1>2, <1>3, TotalAssumption DEF Extent, Table
<1>5. s \notin Fits(entries, n)
  BY <1>1, <1>2, <1>4, TotalAssumption DEF Fits, Table
<1>6. Fits(entries, n) = {}
  <2>1. Fits(entries, n) \in SUBSET Nat
    BY TotalAssumption DEF Fits, Table
  <2>. QED
    BY <1>5, <2>1, MinOfNat DEF heap_get_free_block
<1>7. size'[h] = bytes /\ ptr'[h] = HEAP_ADDRESS + get_offset(s)
  BY DEF kmalloc, IInv, TypeOK
<1>8. ptr'[h] # NULL
  BY <1>1, <1>2, <1>7, AddressFacts
<1>. QED
  BY <1>6, <1>7, <1>8 DEF kmalloc

\* The blocks past the end of the heap are given out only when it is full.
THEOREM HeapSpills == Spec => SpillsOnlyWhenFull
<1>1. IInv /\ [Next]_vars =>
        [spill' # spill =>
           \E h \in Handles : /\ ptr[h] = NULL /\ ptr'[h] # NULL
                              /\ Fits(entries, NumBlocks(size'[h])) = {}]_vars
  <2>. SUFFICES ASSUME IInv, Next, spill' # spill
                PROVE  \E h \in Handles :
                          /\ ptr[h] = NULL /\ ptr'[h] # NULL
                          /\ Fits(entries, NumBlocks(size'[h])) = {}
    OBVIOUS
  <2>1. PICK h \in Handles, bytes \in Sizes : kmalloc(h, bytes)
    BY DEF Next, kmalloc_fails, kfree, kfree_again
  <2>. QED
    BY <2>1, SpillStep
<1>. QED
  BY <1>1, HeapInvariant, PTL DEF Spec, SpillsOnlyWhenFull

-----------------------------------------------------------------------------
(* Refinement.                                                             *)

\* Block numbers are natural numbers.
LEMMA OwnedInNat ==
  ASSUME TypeOK, Aligned, NEW h \in Handles
  PROVE  Owned(h) \in SUBSET Nat
<1>1. CASE ptr[h] = NULL
  BY <1>1 DEF Owned
<1>2. CASE ptr[h] # NULL
  <2>1. /\ Block(h) \in Nat /\ NumBlocks(size[h]) \in Nat
        /\ Owned(h) = Extent(Block(h), NumBlocks(size[h]))
    BY <1>2, Held, TotalAssumption DEF Table
  <2>. QED
    BY <2>1 DEF Extent
<1>. QED
  BY <1>1, <1>2

\* A step of kmalloc is an Acquire, one of kfree a Release, unless the caller
\* broke the contract.
LEMMA AllocatorStep ==
  ASSUME IInv, IInv', [Next]_vars
  PROVE  [Abstract!Next]_(Abstract!vars)
<1>. DEFINE own == [h \in Handles |-> Owned(h)]
<1>1. ASSUME \A g \in Handles : Owned(g)' = Owned(g), misused' = misused
      PROVE  UNCHANGED Abstract!vars
  BY <1>1 DEF Abstract!vars
<1>2. ASSUME misused' PROVE Abstract!Next
  BY <1>2 DEF Abstract!Next, Abstract!Misuse
<1>3. ASSUME NEW h \in Handles, NEW bytes \in Sizes, kmalloc(h, bytes), ~misused'
      PROVE  Abstract!Acquire(h)
  <2>1. misused' = misused /\ misused = FALSE
    BY <1>3 DEF kmalloc, IInv, TypeOK
  <2>2. /\ \A g \in Handles \ {h} : Owned(g) \cap Owned(h)' = {}
        /\ \A g \in Handles \ {h} : Owned(g)' = Owned(g)
        /\ Owned(h) = {}
    BY <1>3, <2>1, KmallocStep
  <2>3. PICK s, n \in Nat : Owned(h)' = Extent(s, n)
    BY <1>3, KmallocStep
  <2>4. \A i, j \in Owned(h)' : i..j \subseteq Owned(h)'
    BY <2>3 DEF Extent
  <2>5. Owned(h)' \in SUBSET Nat
    BY <2>3 DEF Extent
  <2>6. \A g \in Handles : Owned(g)' \in SUBSET Nat
    BY <2>2, <2>5, OwnedInNat DEF IInv
  <2>. QED
    BY <2>1, <2>2, <2>4, <2>6 DEF Abstract!Acquire
<1>4. ASSUME NEW h \in Handles, kfree(h), ~misused'
      PROVE  Abstract!Release(h)
  <2>1. misused = FALSE /\ misused' = misused
    BY <1>4 DEF kfree, IInv, TypeOK
  <2>2. /\ \A g \in Handles \ {h} : Owned(g)' = Owned(g)
        /\ Owned(h)' = {}
    BY <1>4, KfreeStep
  <2>3. own' = [own EXCEPT ![h] = {}]
    BY <2>2
  <2>. QED
    BY <2>1, <2>3 DEF Abstract!Release
<1>5. ASSUME NEW h \in Handles, NEW bytes \in Sizes, kmalloc_fails(h, bytes)
      PROVE  UNCHANGED Abstract!vars
  BY <1>1, <1>5, KmallocFailsStep DEF kmalloc_fails
<1>6. ASSUME NEW a \in recent, NEW off \in Offsets, kfree_again(a + off)
      PROVE  UNCHANGED Abstract!vars
  BY <1>1, <1>6, KfreeAgainStep DEF kfree_again
<1>7. CASE UNCHANGED vars
  <2>1. \A g \in Handles : Owned(g)' = Owned(g)
    BY <1>7 DEF vars, Owned, Block
  <2>. QED
    BY <1>1, <1>7, <2>1 DEF vars
<1>. QED
  BY <1>2, <1>3, <1>4, <1>5, <1>6, <1>7 DEF Next, Abstract!Next

\* heap.c implements the allocator its callers rely on.
THEOREM HeapImplementsAllocator == Spec => ImplementsAllocator
<1>1. Init => Abstract!Init
  BY DEF Init, Abstract!Init, Owned
<1>2. IInv /\ IInv' /\ [Next]_vars => [Abstract!Next]_(Abstract!vars)
  BY AllocatorStep
<1>. QED
  BY <1>1, <1>2, HeapInvariant, PTL DEF Spec, ImplementsAllocator, Abstract!Spec

-----------------------------------------------------------------------------
(* The loops of heap.c.  The invariant says for each loop how far it has   *)
(* come: the run of free blocks it is counting and the runs it has passed, *)
(* the part of the chain that is written, the part that is cleared.        *)

\* The scan stands at block i and has counted the free run that begins at
\* start; no run of n free blocks begins before it.
RunAt(e, n, i, count, start) ==
  /\ start = -1 => count = 0 /\ (i = 0 \/ ~IsFree(e, i - 1))
  /\ start # -1 => /\ start \in 0..(i - 1) /\ count = i - start
                   /\ \A j \in start..(i - 1) : IsFree(e, j)
                   /\ start = 0 \/ ~IsFree(e, start - 1)
  /\ \A s \in Fits(e, n) : s >= i - count

AtIdle == call = Idle /\ table = entries /\ beyond = spill

AtScan ==
  /\ call \in [pc : {"scan", "found"}, h : Handles, bytes : Sizes, n : Nat,
               i : 0..Total, block_count : Nat, start : Int]
  /\ call.n = NumBlocks(call.bytes) /\ ptr[call.h] = NULL
  /\ table = entries /\ beyond = spill
  /\ RunAt(entries, call.n, call.i, call.block_count, call.start)
  /\ call.pc = "scan" => (call.n > 0 => call.block_count < call.n)
  /\ call.pc = "found" => call.block_count = call.n /\ call.start # -1

Marked(e, s, n, i) ==
  [j \in Table |-> IF j \in s..(i - 1) THEN Chain(s, n, j) ELSE e[j]]

AtMark ==
  /\ call \in [pc : {"mark"}, h : Handles, bytes : Sizes, n : Nat,
               start : Table, i : Nat, entry : SUBSET Flags]
  /\ call.n = NumBlocks(call.bytes) /\ ptr[call.h] = NULL
  /\ call.start = heap_get_free_block(entries, call.n)
  /\ call.i \in call.start..(call.start + call.n)
  /\ call.i < call.start + call.n => call.entry = Chain(call.start, call.n, call.i)
  /\ table = Marked(entries, call.start, call.n, call.i)
  /\ beyond = spill \cup ((call.start..(call.i - 1)) \ Table)

Cleared(e, b, i) == [j \in Table |-> IF j \in b..(i - 1) THEN FREE ELSE e[j]]

\* The chain from b on has been followed up to block i.
ChainUpTo(e, b, i, pc) ==
  /\ i \in b..Total
  /\ pc = "clear" => \A j \in b..(i - 1) : "HAS_NEXT" \in e[j]
  /\ pc = "cleared" => /\ i > b /\ "HAS_NEXT" \notin e[i - 1]
                       /\ \A j \in b..(i - 2) : "HAS_NEXT" \in e[j]

\* Block b is the one kfree was called with.
ClearsFrom(b, holders) ==
  \/ /\ holders = {}
     /\ \E a \in recent, off \in Offsets : b = address_to_heap_block(a + off)
  \/ \E h \in Handles : holders = {h} /\ ptr[h] # NULL /\ b = Block(h)

AtClear ==
  /\ call \in [pc : {"clear", "cleared"}, holders : SUBSET Handles, i : Nat]
  /\ beyond = spill
  /\ \E b \in Table : /\ ClearsFrom(b, call.holders)
                      /\ ChainUpTo(entries, b, call.i, call.pc)
                      /\ table = Cleared(entries, b, call.i)

LoopInv == IInv /\ (AtIdle \/ AtScan \/ AtMark \/ AtClear)

\* A taken block ends the run: nothing long enough begins before or at it.
LEMMA ScanTaken ==
  ASSUME NEW e, NEW n \in Nat, NEW i \in Table, NEW count \in Nat, NEW start \in Int,
         RunAt(e, n, i, count, start), n > 0 => count < n, ~IsFree(e, i)
  PROVE  RunAt(e, n, i + 1, 0, -1)
<1>1. i \in Nat
  BY TotalAssumption DEF Table
<1>2. ASSUME NEW s \in Fits(e, n) PROVE s >= i + 1
  <2>1. s \in Nat /\ n > 0 /\ s + n <= Total /\ s >= i - count
    BY TotalAssumption DEF Fits, Table, RunAt
  <2>2. \A j \in s..(s + n - 1) : IsFree(e, j)
    BY DEF Fits
  <2>3. ~(s <= i)
    BY <1>1, <2>1, <2>2
  <2>. QED
    BY <1>1, <2>1, <2>3
<1>. QED
  BY <1>1, <1>2 DEF RunAt

\* A free block makes the run longer by one.
LEMMA ScanFree ==
  ASSUME NEW e, NEW n \in Nat, NEW i \in Table, NEW count \in Nat, NEW start \in Int,
         RunAt(e, n, i, count, start), IsFree(e, i)
  PROVE  RunAt(e, n, i + 1, count + 1, IF start = -1 THEN i ELSE start)
<1>1. i \in Nat
  BY TotalAssumption DEF Table
<1>2. \A s \in Fits(e, n) : s \in Nat
  BY TotalAssumption DEF Fits, Table
<1>3. \A s \in Fits(e, n) : s >= (i + 1) - (count + 1)
  BY <1>1, <1>2 DEF RunAt
<1>4. CASE start = -1
  BY <1>1, <1>3, <1>4 DEF RunAt
<1>5. CASE start # -1
  BY <1>1, <1>3, <1>5 DEF RunAt
<1>. QED
  BY <1>4, <1>5

\* When the scan is over, start_block is what Heap says: the first fit, else
\* the run that ends the table, else -EMEM.
LEMMA ScanResult ==
  ASSUME NEW e, NEW n \in Nat, NEW i \in 0..Total, NEW count \in Nat, NEW start \in Int,
         RunAt(e, n, i, count, start),
         \/ count = n /\ start # -1
         \/ i = Total /\ (n > 0 => count < n)
  PROVE  start = heap_get_free_block(e, n)
<1>1. i \in Nat /\ Total \in Nat /\ Total > 0
  BY TotalAssumption
<1>2. /\ Fits(e, n) \in SUBSET Nat /\ TailRun(e) \in SUBSET Nat
      /\ \A s \in Fits(e, n) : n > 0 /\ s + n <= Total /\ s >= i - count
  BY TotalAssumption DEF Fits, TailRun, Table, RunAt
<1>3. CASE count = n /\ start # -1
  <2>1. /\ start \in Nat /\ start < i /\ count = i - start
        /\ \A j \in start..(i - 1) : IsFree(e, j)
    BY <1>1, <1>3 DEF RunAt
  <2>2. start \in Fits(e, n)
    BY <1>1, <1>3, <2>1 DEF Fits, Table
  <2>3. Min(Fits(e, n)) \in Fits(e, n) /\ Min(Fits(e, n)) <= start
    BY <1>2, <2>2, MinOfNat
  <2>4. Min(Fits(e, n)) >= start /\ Min(Fits(e, n)) \in Nat
    BY <1>1, <1>2, <2>1, <2>3
  <2>. QED
    BY <2>1, <2>2, <2>3, <2>4 DEF heap_get_free_block
<1>4. CASE i = Total /\ (n > 0 => count < n)
  <2>1. Fits(e, n) = {}
    BY <1>1, <1>2, <1>4
  <2>2. CASE start = -1
    <3>1. ~IsFree(e, Total - 1)
      BY <1>1, <1>4, <2>2 DEF RunAt
    <3>2. TailRun(e) = {}
      BY <1>1, <3>1 DEF TailRun, Table
    <3>. QED
      BY <2>1, <2>2, <3>2 DEF heap_get_free_block, EMEM
  <2>3. CASE start # -1
    <3>1. /\ start \in Nat /\ start < Total
          /\ \A j \in start..(Total - 1) : IsFree(e, j)
          /\ start = 0 \/ ~IsFree(e, start - 1)
      BY <1>1, <1>4, <2>3 DEF RunAt
    <3>2. start \in TailRun(e)
      BY <1>1, <3>1 DEF TailRun, Table
    <3>3. Min(TailRun(e)) \in TailRun(e) /\ Min(TailRun(e)) <= start
      BY <1>2, <3>2, MinOfNat
    <3>4. \A s \in TailRun(e) : s \in Nat /\ \A j \in s..(Total - 1) : IsFree(e, j)
      BY <1>2 DEF TailRun
    <3>5. \A s \in TailRun(e) : ~(s < start)
      BY <1>1, <3>1, <3>4
    <3>6. PICK m : m = Min(TailRun(e))
      OBVIOUS
    <3>7. m \in Nat /\ m <= start /\ ~(m < start)
      BY <3>3, <3>4, <3>5, <3>6
    <3>8. m = start
      BY <3>1, <3>7
    <3>. QED
      BY <2>1, <3>2, <3>6, <3>8 DEF heap_get_free_block
  <2>. QED
    BY <2>2, <2>3
<1>. QED
  BY <1>3, <1>4

\* Writing one more block of the chain.
LEMMA MarkRound ==
  ASSUME NEW e, NEW s \in Table, NEW n \in Nat, NEW i \in s..(s + n - 1)
  PROVE  [j \in Table |-> IF j = i THEN Chain(s, n, i) ELSE Marked(e, s, n, i)[j]]
           = Marked(e, s, n, i + 1)
<1>1. s \in Nat /\ i \in Nat
  BY TotalAssumption DEF Table
<1>2. \A j \in Table : j \in Nat /\ (j \in s..i <=> j \in s..(i - 1) \/ j = i)
  BY <1>1, TotalAssumption DEF Table
<1>. QED
  BY <1>1, <1>2 DEF Marked

\* Clearing one more block.
LEMMA ClearRound ==
  ASSUME NEW e, NEW b \in Table, NEW i \in Table, i >= b
  PROVE  [Cleared(e, b, i) EXCEPT ![i] = FREE] = Cleared(e, b, i + 1)
<1>1. b \in Nat /\ i \in Nat
  BY TotalAssumption DEF Table
<1>2. [Cleared(e, b, i) EXCEPT ![i] = FREE]
        = [j \in Table |-> IF j = i THEN FREE ELSE Cleared(e, b, i)[j]]
  BY DEF Cleared
<1>3. \A j \in Table : j \in Nat /\ (j \in b..(i + 1 - 1) <=> j \in b..(i - 1) \/ j = i)
  BY <1>1, TotalAssumption DEF Table
<1>4. \A j \in Table : Cleared(e, b, i)[j] = IF j \in b..(i - 1) THEN FREE ELSE e[j]
  BY DEF Cleared
<1>5. Cleared(e, b, i + 1)
        = [j \in Table |-> IF j \in b..(i - 1) \/ j = i THEN FREE ELSE e[j]]
  BY <1>3 DEF Cleared
<1>. QED
  BY <1>2, <1>4, <1>5

\* The clearing loop ends where Heap says the chain does.
LEMMA ClearResult ==
  ASSUME NEW e, NEW b \in Table, NEW i \in Nat, NEW pc, ChainUpTo(e, b, i, pc),
         pc = "cleared" \/ (pc = "clear" /\ i = Total)
  PROVE  Cleared(e, b, i) = heap_free_blocks(e, b)
<1>1. b \in Nat /\ Total \in Nat /\ b < Total
  BY TotalAssumption DEF Table
<1>2. PICK c : c = ChainEnd(e, b)
  OBVIOUS
<1>3. /\ c \in b..(Total - 1)
      /\ \A j \in b..(c - 1) : "HAS_NEXT" \in e[j]
      /\ c = Total - 1 \/ "HAS_NEXT" \notin e[c]
  BY <1>2, ChainEndProperty
<1>4. c = i - 1
  <2>1. CASE pc = "clear" /\ i = Total
    <3>1. \A j \in b..(Total - 1) : "HAS_NEXT" \in e[j]
      BY <2>1 DEF ChainUpTo
    <3>. QED
      BY <1>1, <1>3, <2>1, <3>1
  <2>2. CASE pc = "cleared"
    <3>1. /\ i \in b..Total /\ i > b /\ "HAS_NEXT" \notin e[i - 1]
          /\ \A j \in b..(i - 2) : "HAS_NEXT" \in e[j]
      BY <2>2 DEF ChainUpTo
    <3>2. ~(i - 1 < c)
      BY <1>1, <1>3, <3>1
    <3>3. ~(c < i - 1)
      BY <1>1, <1>3, <3>1
    <3>. QED
      BY <1>1, <1>3, <3>1, <3>2, <3>3
  <2>. QED
    BY <2>1, <2>2
<1>. QED
  BY <1>2, <1>4 DEF Cleared, heap_free_blocks

\* A step within a call changes nothing its callers see.
LEMMA Unseen ==
  ASSUME IInv, UNCHANGED <<callers, returned>>
  PROVE  IInv' /\ UNCHANGED vars
BY StutterStep DEF callers, returned, vars

\* Before the first call the table is empty and no call runs.
LEMMA LoopInitInv == LoopInit => LoopInv
BY InitInvariant DEF LoopInit, LoopInv, AtIdle

\* A call of kmalloc begins its scan in front of the table.
LEMMA EnterKmallocStep ==
  ASSUME LoopInv, NEW h \in Handles, NEW bytes \in Sizes, Enter_kmalloc(h, bytes)
  PROVE  LoopInv' /\ UNCHANGED vars
<1>1. AtIdle /\ IInv
  BY DEF LoopInv, Enter_kmalloc, AtScan, AtMark, AtClear
<1>2. /\ ptr[h] = NULL
      /\ call' = [pc |-> "scan", h |-> h, bytes |-> bytes, n |-> NumBlocks(bytes),
                  i |-> 0, block_count |-> 0, start |-> -1]
      /\ UNCHANGED <<table, beyond, callers, returned>>
  BY DEF Enter_kmalloc
<1>3. IInv' /\ UNCHANGED vars
  BY <1>1, <1>2, Unseen
<1>4. NumBlocks(bytes) \in Nat /\ (NumBlocks(bytes) > 0 => 0 < NumBlocks(bytes))
  BY SizesAssumption, NumBlocksType
<1>5. RunAt(entries, NumBlocks(bytes), 0, 0, -1)
  BY TotalAssumption DEF RunAt, Fits, Table
<1>6. AtScan'
  BY <1>1, <1>2, <1>4, <1>5, TotalAssumption DEF AtScan, AtIdle, callers, returned
<1>. QED
  BY <1>3, <1>6 DEF LoopInv

\* A round of the scan.
LEMMA ScanStep ==
  ASSUME LoopInv, Scan
  PROVE  LoopInv' /\ UNCHANGED vars
<1>1. AtScan /\ IInv
  BY DEF LoopInv, Scan, AtIdle, Idle, AtMark, AtClear
<1>2. PICK c : c = call
  OBVIOUS
<1>3. /\ c.pc = "scan" /\ c.i < Total
      /\ c \in [pc : {"scan", "found"}, h : Handles, bytes : Sizes, n : Nat,
               i : 0..Total, block_count : Nat, start : Int]
      /\ c.n = NumBlocks(c.bytes) /\ ptr[c.h] = NULL
      /\ table = entries /\ beyond = spill
      /\ RunAt(entries, c.n, c.i, c.block_count, c.start)
      /\ c.n > 0 => c.block_count < c.n
      /\ UNCHANGED <<table, beyond, callers, returned>>
  BY <1>1, <1>2 DEF Scan, AtScan
<1>4. c.i \in Table /\ c.i + 1 \in 0..Total
  BY <1>3, TotalAssumption DEF Table
<1>5. IInv' /\ UNCHANGED vars
  BY <1>1, <1>3, Unseen
<1>6. CASE ~IsFree(entries, c.i)
  <2>1. call' = [c EXCEPT !.block_count = 0, !.start = -1, !.i = @ + 1]
    BY <1>2, <1>3, <1>6 DEF Scan
  <2>2. RunAt(entries, c.n, c.i + 1, 0, -1)
    BY <1>3, <1>4, <1>6, ScanTaken
  <2>3. /\ call' \in [pc : {"scan", "found"}, h : Handles, bytes : Sizes, n : Nat,
                      i : 0..Total, block_count : Nat, start : Int]
        /\ call'.pc = "scan" /\ call'.h = c.h /\ call'.bytes = c.bytes
        /\ call'.n = c.n /\ call'.i = c.i + 1
        /\ call'.block_count = 0 /\ call'.start = -1
    <3>1. call' = [pc |-> "scan", h |-> c.h, bytes |-> c.bytes, n |-> c.n,
                   i |-> c.i + 1, block_count |-> 0, start |-> -1]
      BY <1>3, <2>1
    <3>. QED
      BY <1>3, <1>4, <3>1
  <2>4. AtScan'
    BY <1>3, <2>2, <2>3 DEF AtScan, callers, returned
  <2>. QED
    BY <1>5, <2>4 DEF LoopInv
<1>7. CASE IsFree(entries, c.i)
  <2>. DEFINE s == IF c.start = -1 THEN c.i ELSE c.start
              q == IF c.block_count + 1 = c.n THEN "found" ELSE "scan"
  <2>1. call' = [c EXCEPT !.start = s, !.block_count = @ + 1, !.pc = q, !.i = @ + 1]
    BY <1>2, <1>3, <1>7 DEF Scan
  <2>2. RunAt(entries, c.n, c.i + 1, c.block_count + 1, s)
    BY <1>3, <1>4, <1>7, ScanFree
  <2>3. s \in Int /\ s # -1 /\ q \in {"scan", "found"}
    BY <1>3, <1>4
  <2>4. /\ q = "scan" => (c.n > 0 => c.block_count + 1 < c.n)
        /\ q = "found" => c.block_count + 1 = c.n
    BY <1>3
  <2>. HIDE DEF s, q
  <2>5. /\ call' \in [pc : {"scan", "found"}, h : Handles, bytes : Sizes, n : Nat,
                      i : 0..Total, block_count : Nat, start : Int]
        /\ call'.pc = q /\ call'.h = c.h /\ call'.bytes = c.bytes
        /\ call'.n = c.n /\ call'.i = c.i + 1
        /\ call'.block_count = c.block_count + 1 /\ call'.start = s
    <3>1. call' = [pc |-> q, h |-> c.h, bytes |-> c.bytes, n |-> c.n,
                   i |-> c.i + 1, block_count |-> c.block_count + 1, start |-> s]
      BY <1>3, <2>1
    <3>. QED
      BY <1>3, <1>4, <2>3, <3>1
  <2>6. AtScan'
    BY <1>3, <2>2, <2>3, <2>4, <2>5 DEF AtScan, callers, returned
  <2>. QED
    BY <1>5, <2>6 DEF LoopInv
<1>. QED
  BY <1>6, <1>7

\* What the end of the scan has found.
LEMMA ScanFinds ==
  ASSUME LoopInv, ScanEnds
  PROVE  /\ IInv /\ AtScan
         /\ call.start = heap_get_free_block(entries, call.n)
<1>1. AtScan /\ IInv
  BY DEF LoopInv, ScanEnds, AtIdle, Idle, AtMark, AtClear
<1>2. /\ call.n \in Nat /\ call.i \in 0..Total /\ call.block_count \in Nat
      /\ call.start \in Int
      /\ RunAt(entries, call.n, call.i, call.block_count, call.start)
      /\ \/ call.block_count = call.n /\ call.start # -1
         \/ call.i = Total /\ (call.n > 0 => call.block_count < call.n)
  BY <1>1 DEF AtScan, ScanEnds
<1>. QED
  BY <1>1, <1>2, ScanResult

\* Without a block heap_malloc_blocks returns 0: kmalloc fails.
LEMMA ReturnNullStep ==
  ASSUME LoopInv, Return_NULL
  PROVE  LoopInv' /\ Next
<1>1. /\ ScanEnds /\ call.start = -1 /\ call' = Idle /\ recent' = {}
      /\ UNCHANGED <<table, beyond, ptr, size, misused, returned>>
  BY DEF Return_NULL
<1>2. IInv /\ AtScan /\ heap_get_free_block(entries, call.n) = -1
  BY <1>1, ScanFinds
<1>3. PICK h \in Handles, bytes \in Sizes : h = call.h /\ bytes = call.bytes
  BY <1>2 DEF AtScan
<1>4. kmalloc_fails(h, bytes)
  BY <1>1, <1>2, <1>3 DEF AtScan, kmalloc_fails, returned
<1>5. IInv' /\ Next
  BY <1>2, <1>4, HeapStep DEF Next
<1>6. AtIdle'
  BY <1>1, <1>2 DEF AtScan, AtIdle, returned
<1>. QED
  BY <1>5, <1>6 DEF LoopInv

\* The entry for the first block.
LEMMA EnterMarkStep ==
  ASSUME LoopInv, Enter_mark
  PROVE  LoopInv' /\ UNCHANGED vars
<1>1. PICK c : c = call
  OBVIOUS
<1>2. /\ ScanEnds /\ c.start # -1
      /\ call' = [pc |-> "mark", h |-> c.h, bytes |-> c.bytes, n |-> c.n,
                  start |-> c.start, i |-> c.start,
                  entry |-> {"TAKEN", "IS_FIRST"}
                              \cup (IF c.n > 1 THEN {"HAS_NEXT"} ELSE {})]
      /\ UNCHANGED <<table, beyond, callers, returned>>
  BY <1>1 DEF Enter_mark
<1>3. IInv /\ AtScan /\ c.start = heap_get_free_block(entries, c.n)
  BY <1>1, <1>2, ScanFinds
<1>4. /\ c.h \in Handles /\ c.bytes \in Sizes /\ c.n \in Nat
      /\ c.n = NumBlocks(c.bytes) /\ ptr[c.h] = NULL
      /\ table = entries /\ beyond = spill
  BY <1>1, <1>3 DEF AtScan
<1>5. c.start \in Table /\ c.start \in Nat
  BY <1>2, <1>3, <1>4, FreeBlock, TotalAssumption DEF EMEM, Table
<1>6. IInv' /\ UNCHANGED vars
  BY <1>2, <1>3, Unseen
<1>7. 0 < c.n => {"TAKEN", "IS_FIRST"} \cup (IF c.n > 1 THEN {"HAS_NEXT"} ELSE {})
                   = Chain(c.start, c.n, c.start)
  <2>1. c.n > 1 <=> c.start < c.start + c.n - 1
    BY <1>4, <1>5
  <2>. QED
    BY <2>1 DEF Chain
<1>8. entries = Marked(entries, c.start, c.n, c.start)
  <2>1. entries = [j \in Table |-> entries[j]]
    BY <1>3 DEF IInv, TypeOK
  <2>2. \A j \in Table : j \notin c.start..(c.start - 1)
    BY <1>5
  <2>. QED
    BY <2>1, <2>2 DEF Marked
<1>9. (c.start..(c.start - 1)) \ Table = {}
  BY <1>5
<1>10. /\ call'.pc = "mark" /\ call'.h = c.h /\ call'.bytes = c.bytes
       /\ call'.n = c.n /\ call'.start = c.start /\ call'.i = c.start
       /\ call'.entry = {"TAKEN", "IS_FIRST"}
                              \cup (IF c.n > 1 THEN {"HAS_NEXT"} ELSE {})
       /\ call' \in [pc : {"mark"}, h : Handles, bytes : Sizes, n : Nat,
               start : Table, i : Nat, entry : SUBSET Flags]
  BY <1>2, <1>4, <1>5 DEF Flags
<1>11. c.start \in c.start..(c.start + c.n)
  BY <1>4, <1>5
<1>12. c.start < c.start + c.n => call'.entry = Chain(c.start, c.n, c.start)
  BY <1>4, <1>5, <1>7, <1>10
<1>13. AtMark'
  BY <1>2, <1>3, <1>4, <1>8, <1>9, <1>10, <1>11, <1>12
  DEF AtMark, callers, returned
<1>. QED
  BY <1>6, <1>13 DEF LoopInv

\* A round of the marking loop writes the entry that belongs to its block and
\* prepares the next one.
LEMMA MarkStep ==
  ASSUME LoopInv, Mark
  PROVE  LoopInv' /\ UNCHANGED vars
<1>1. PICK c : c = call
  OBVIOUS
<1>2. AtMark /\ IInv
  BY DEF LoopInv, Mark, AtIdle, Idle, AtScan, AtClear
<1>3. /\ c \in [pc : {"mark"}, h : Handles, bytes : Sizes, n : Nat,
               start : Table, i : Nat, entry : SUBSET Flags]
      /\ c.n = NumBlocks(c.bytes) /\ ptr[c.h] = NULL
      /\ c.start = heap_get_free_block(entries, c.n)
      /\ c.i \in c.start..(c.start + c.n)
      /\ c.i < c.start + c.n => c.entry = Chain(c.start, c.n, c.i)
      /\ table = Marked(entries, c.start, c.n, c.i)
      /\ beyond = spill \cup ((c.start..(c.i - 1)) \ Table)
  BY <1>1, <1>2 DEF AtMark
<1>4. PICK last : last = c.n + c.start - 1
  OBVIOUS
<1>5. /\ c.i <= last
      /\ table' = [j \in Table |-> IF j = c.i THEN c.entry ELSE table[j]]
      /\ beyond' = beyond \cup ({c.i} \ Table)
      /\ call' = [c EXCEPT !.i = @ + 1,
                           !.entry = {"TAKEN"} \cup (IF c.i # last - 1
                                                     THEN {"HAS_NEXT"} ELSE {})]
      /\ UNCHANGED <<callers, returned>>
  BY <1>1, <1>4 DEF Mark, EndBlock
<1>6. c.start \in Nat /\ c.n \in Nat /\ c.i \in Nat /\ c.i >= c.start
  BY <1>3, TotalAssumption DEF Table
<1>7. c.i \in c.start..(c.start + c.n - 1) /\ c.i < c.start + c.n
  BY <1>4, <1>5, <1>6
<1>8. IInv' /\ UNCHANGED vars
  BY <1>2, <1>5, Unseen
<1>9. call' = [pc |-> "mark", h |-> c.h, bytes |-> c.bytes, n |-> c.n,
               start |-> c.start, i |-> c.i + 1,
               entry |-> {"TAKEN"} \cup (IF c.i # last - 1 THEN {"HAS_NEXT"} ELSE {})]
  BY <1>3, <1>5
<1>10. /\ call'.pc = "mark" /\ call'.h = c.h /\ call'.bytes = c.bytes
       /\ call'.n = c.n /\ call'.start = c.start /\ call'.i = c.i + 1
       /\ call'.entry = {"TAKEN"} \cup (IF c.i # last - 1 THEN {"HAS_NEXT"} ELSE {})
       /\ call' \in [pc : {"mark"}, h : Handles, bytes : Sizes, n : Nat,
               start : Table, i : Nat, entry : SUBSET Flags]
  BY <1>3, <1>6, <1>9 DEF Flags
<1>11. c.i + 1 < c.start + c.n => call'.entry = Chain(c.start, c.n, c.i + 1)
  <2>. SUFFICES ASSUME c.i + 1 < c.start + c.n
                PROVE  call'.entry = Chain(c.start, c.n, c.i + 1)
    OBVIOUS
  <2>1. c.i + 1 # c.start /\ (c.i # last - 1 <=> c.i + 1 < c.start + c.n - 1)
    BY <1>4, <1>6
  <2>. QED
    BY <1>10, <2>1 DEF Chain
<1>12. table' = Marked(entries, c.start, c.n, c.i + 1)
  BY <1>3, <1>5, <1>6, <1>7, MarkRound
<1>13. beyond' = spill \cup ((c.start..(c.i + 1 - 1)) \ Table)
  <2>1. c.start..(c.i + 1 - 1) = (c.start..(c.i - 1)) \cup {c.i}
    BY <1>6
  <2>. QED
    BY <1>3, <1>5, <2>1
<1>14. c.i + 1 \in c.start..(c.start + c.n)
  BY <1>6, <1>7
<1>15. AtMark'
  BY <1>3, <1>5, <1>10, <1>11, <1>12, <1>13, <1>14 DEF AtMark, callers, returned
<1>. QED
  BY <1>8, <1>15 DEF LoopInv

\* When the chain is complete the call is over, and the heap has done a
\* kmalloc.
LEMMA ReturnKmallocStep ==
  ASSUME LoopInv, Return_kmalloc
  PROVE  LoopInv' /\ Next
<1>1. AtMark /\ IInv
  BY DEF LoopInv, Return_kmalloc, AtIdle, Idle, AtScan, AtClear
<1>2. PICK h \in Handles, bytes \in Sizes, n \in Nat, s \in Table, i \in Nat :
        /\ h = call.h /\ bytes = call.bytes /\ n = call.n /\ s = call.start /\ i = call.i
  BY <1>1 DEF AtMark
<1>3. /\ n = NumBlocks(bytes) /\ ptr[h] = NULL
      /\ s = heap_get_free_block(entries, n)
      /\ i \in s..(s + n)
      /\ table = Marked(entries, s, n, i)
      /\ beyond = spill \cup ((s..(i - 1)) \ Table)
  BY <1>1, <1>2 DEF AtMark
<1>4. /\ i > n + s - 1
      /\ ptr' = [ptr EXCEPT ![h] = HEAP_ADDRESS + get_offset(s)]
      /\ size' = [size EXCEPT ![h] = bytes]
      /\ recent' = {} /\ entries' = table /\ spill' = beyond /\ call' = Idle
      /\ UNCHANGED <<table, beyond, misused>>
  BY <1>2 DEF Return_kmalloc, EndBlock
<1>5. s \in Nat /\ s >= 0 /\ i = s + n
  BY <1>2, <1>3, <1>4, TotalAssumption DEF Table
<1>6. entries' = heap_allocate_blocks(entries, s, n)
  BY <1>3, <1>4, <1>5 DEF Marked, heap_allocate_blocks, Extent
<1>7. spill' = spill \cup (Extent(s, n) \ Table)
  BY <1>3, <1>4, <1>5 DEF Extent
<1>8. kmalloc(h, bytes)
  BY <1>3, <1>4, <1>5, <1>6, <1>7 DEF kmalloc
<1>9. IInv' /\ Next
  BY <1>1, <1>8, HeapStep DEF Next
<1>10. AtIdle'
  BY <1>4 DEF AtIdle
<1>. QED
  BY <1>9, <1>10 DEF LoopInv

\* A call of kfree begins at the block of the address it is given.
LEMMA EnterClearStep ==
  ASSUME LoopInv, NEW a, NEW holders \in SUBSET Handles, Enter_clear(a, holders),
         address_to_heap_block(a) \in Table,
         ClearsFrom(address_to_heap_block(a), holders)
  PROVE  LoopInv' /\ UNCHANGED vars
<1>1. AtIdle /\ IInv
  BY DEF LoopInv, Enter_clear, AtScan, AtMark, AtClear
<1>2. PICK b \in Table : b = address_to_heap_block(a)
  OBVIOUS
<1>3. /\ call' = [pc |-> "clear", holders |-> holders, i |-> b]
      /\ UNCHANGED <<table, beyond, callers, returned>>
  BY <1>2 DEF Enter_clear
<1>4. IInv' /\ UNCHANGED vars
  BY <1>1, <1>3, Unseen
<1>5. b \in Nat /\ b \in b..Total
  BY TotalAssumption DEF Table
<1>6. ClearsFrom(b, holders)'
  BY <1>2, <1>3 DEF ClearsFrom, Block, callers
<1>7. ChainUpTo(entries', b, b, "clear")
  BY <1>5 DEF ChainUpTo
<1>8. table' = Cleared(entries', b, b)
  <2>1. entries = [j \in Table |-> entries[j]]
    BY <1>1 DEF IInv, TypeOK
  <2>2. \A j \in Table : j \notin b..(b - 1)
    BY <1>5
  <2>3. entries = Cleared(entries, b, b)
    BY <2>1, <2>2 DEF Cleared
  <2>. QED
    BY <1>1, <1>3, <2>3 DEF AtIdle, returned
<1>9. /\ call' \in [pc : {"clear", "cleared"}, holders : SUBSET Handles, i : Nat]
      /\ call'.pc = "clear" /\ call'.holders = holders /\ call'.i = b
  BY <1>3, <1>5
<1>10. beyond' = spill'
  BY <1>1, <1>3 DEF AtIdle, returned
<1>11. AtClear'
  BY <1>6, <1>7, <1>8, <1>9, <1>10 DEF AtClear
<1>. QED
  BY <1>4, <1>11 DEF LoopInv

\* A round of the clearing loop.
LEMMA ClearStep ==
  ASSUME LoopInv, Clear
  PROVE  LoopInv' /\ UNCHANGED vars
<1>1. PICK c : c = call
  OBVIOUS
<1>2. AtClear /\ IInv
  BY DEF LoopInv, Clear, AtIdle, Idle, AtScan, AtMark
<1>3. PICK b \in Table : /\ ClearsFrom(b, c.holders)
                         /\ ChainUpTo(entries, b, c.i, c.pc)
                         /\ table = Cleared(entries, b, c.i)
  BY <1>1, <1>2 DEF AtClear
<1>4. PICK q : q = IF "HAS_NEXT" \in table[c.i] THEN "clear" ELSE "cleared"
  OBVIOUS
<1>5. /\ c.pc = "clear" /\ c.i < Total
      /\ c \in [pc : {"clear", "cleared"}, holders : SUBSET Handles, i : Nat]
      /\ table' = [table EXCEPT ![c.i] = FREE]
      /\ call' = [c EXCEPT !.i = @ + 1, !.pc = q]
      /\ UNCHANGED <<beyond, callers, returned>>
      /\ beyond = spill
  BY <1>1, <1>2, <1>4 DEF Clear, AtClear
<1>6. /\ c.i \in Nat /\ c.i \in Table /\ b \in Nat /\ c.i >= b
      /\ \A j \in b..(c.i - 1) : "HAS_NEXT" \in entries[j]
  BY <1>3, <1>5, TotalAssumption DEF ChainUpTo, Table
<1>7. IInv' /\ UNCHANGED vars
  BY <1>2, <1>5, Unseen
<1>8. entries' = entries
  BY <1>5 DEF returned
<1>9. table[c.i] = entries[c.i]
  BY <1>3, <1>6 DEF Cleared
<1>10. ChainUpTo(entries, b, c.i + 1, q)
  <2>1. c.i + 1 \in b..Total
    BY <1>5, <1>6, TotalAssumption
  <2>2. CASE "HAS_NEXT" \in entries[c.i]
    <3>1. q = "clear"
      BY <1>4, <1>9, <2>2
    <3>2. \A j \in b..(c.i + 1 - 1) : "HAS_NEXT" \in entries[j]
      BY <1>6, <2>2
    <3>. QED
      BY <1>6, <2>1, <3>1, <3>2 DEF ChainUpTo
  <2>3. CASE "HAS_NEXT" \notin entries[c.i]
    <3>1. q = "cleared"
      BY <1>4, <1>9, <2>3
    <3>2. /\ c.i + 1 > b /\ c.i + 1 - 1 = c.i /\ c.i + 1 - 2 = c.i - 1
      BY <1>6
    <3>. QED
      BY <1>6, <2>1, <2>3, <3>1, <3>2 DEF ChainUpTo
  <2>. QED
    BY <2>2, <2>3
<1>11. table' = Cleared(entries', b, c.i + 1)
  BY <1>3, <1>5, <1>6, <1>8, ClearRound
<1>12. ClearsFrom(b, c.holders)'
  BY <1>3, <1>5 DEF ClearsFrom, Block, callers
<1>13. /\ call' \in [pc : {"clear", "cleared"}, holders : SUBSET Handles, i : Nat]
       /\ call'.pc = q /\ call'.holders = c.holders /\ call'.i = c.i + 1
  <2>1. call' = [pc |-> q, holders |-> c.holders, i |-> c.i + 1]
    BY <1>5
  <2>2. q \in {"clear", "cleared"}
    BY <1>4
  <2>. QED
    BY <1>5, <1>6, <2>1, <2>2
<1>14. beyond' = spill'
  BY <1>5 DEF returned
<1>15. AtClear'
  BY <1>8, <1>10, <1>11, <1>12, <1>13, <1>14 DEF AtClear
<1>. QED
  BY <1>7, <1>15 DEF LoopInv

\* When the chain is cleared the heap has done a kfree, or a repeated one.
LEMMA ReturnKfreeStep ==
  ASSUME LoopInv, Return_kfree
  PROVE  LoopInv' /\ Next
<1>1. AtClear /\ IInv /\ TypeOK
  BY DEF LoopInv, Return_kfree, AtIdle, Idle, AtScan, AtMark, IInv
<1>0. PICK pc : pc = call.pc
  OBVIOUS
<1>2. PICK holders \in SUBSET Handles, i \in Nat :
        holders = call.holders /\ i = call.i /\ pc = call.pc
  BY <1>0, <1>1 DEF AtClear
<1>3. PICK b \in Table : /\ ClearsFrom(b, holders)
                         /\ ChainUpTo(entries, b, i, pc)
                         /\ table = Cleared(entries, b, i)
  BY <1>1, <1>2 DEF AtClear
<1>4. /\ pc = "cleared" \/ (pc = "clear" /\ i = Total)
      /\ ptr' = [h \in Handles |-> IF h \in holders THEN NULL ELSE ptr[h]]
      /\ size' = [h \in Handles |-> IF h \in holders THEN 0 ELSE size[h]]
      /\ recent' = recent \cup {ptr[h] : h \in holders}
      /\ misused' = (misused \/ \E h \in holders :
                       size[h] = 0 /\ ~IsFree(entries, Block(h)))
      /\ entries' = table /\ spill' = beyond /\ call' = Idle
      /\ UNCHANGED <<table, beyond>>
  BY <1>2 DEF Return_kfree
<1>5. entries' = heap_free_blocks(entries, b) /\ spill' = spill
  BY <1>1, <1>3, <1>4, ClearResult DEF AtClear
<1>6. Next
  <2>1. CASE \E h \in Handles : holders = {h} /\ ptr[h] # NULL /\ b = Block(h)
    <3>1. PICK h \in Handles : holders = {h} /\ ptr[h] # NULL /\ b = Block(h)
      BY <2>1
    <3>2. ptr' = [ptr EXCEPT ![h] = NULL] /\ size' = [size EXCEPT ![h] = 0]
      BY <1>1, <1>4, <3>1 DEF TypeOK
    <3>3. recent' = recent \cup {ptr[h]}
      BY <1>4, <3>1
    <3>4. misused' = (misused \/ (size[h] = 0 /\ ~IsFree(entries, Block(h))))
      BY <1>4, <3>1
    <3>5. kfree(h)
      BY <1>5, <3>1, <3>2, <3>3, <3>4 DEF kfree
    <3>. QED
      BY <3>5 DEF Next
  <2>2. CASE /\ holders = {}
             /\ \E a \in recent, off \in Offsets : b = address_to_heap_block(a + off)
    <3>1. PICK a \in recent, off \in Offsets : b = address_to_heap_block(a + off)
      BY <2>2
    <3>2. ptr' = ptr /\ size' = size /\ recent' = recent
      BY <1>1, <1>4, <2>2 DEF TypeOK
    <3>3. misused' = misused
      BY <1>1, <1>4, <2>2 DEF TypeOK
    <3>4. kfree_again(a + off)
      BY <1>5, <3>1, <3>2, <3>3 DEF kfree_again
    <3>. QED
      BY <3>4 DEF Next
  <2>. QED
    BY <1>3, <2>1, <2>2 DEF ClearsFrom
<1>7. IInv'
  BY <1>1, <1>6, HeapStep
<1>8. AtIdle'
  BY <1>4 DEF AtIdle
<1>. QED
  BY <1>6, <1>7, <1>8 DEF LoopInv

\* Every iteration keeps the invariant and is a step of the heap or unseen.
LEMMA LoopStep ==
  ASSUME LoopInv, [LoopNext]_loopVars
  PROVE  LoopInv' /\ [Next]_vars
<1>0. IInv /\ TypeOK /\ Aligned
  BY DEF LoopInv, IInv
<1>1. ASSUME NEW h \in Handles, NEW bytes \in Sizes, Enter_kmalloc(h, bytes)
      PROVE  LoopInv' /\ [Next]_vars
  BY <1>1, EnterKmallocStep
<1>2. ASSUME NEW h \in Handles, Enter_kfree(h)
      PROVE  LoopInv' /\ [Next]_vars
  <2>1. PICK a : a = ptr[h]
    OBVIOUS
  <2>2. Enter_clear(a, {h}) /\ ptr[h] # NULL
    BY <1>2, <2>1 DEF Enter_kfree
  <2>3. address_to_heap_block(a) \in Table /\ ClearsFrom(address_to_heap_block(a), {h})
    BY <1>0, <2>1, <2>2, Held DEF ClearsFrom, Block
  <2>. QED
    BY <2>2, <2>3, EnterClearStep
<1>3. ASSUME NEW a \in recent, NEW off \in Offsets, Enter_kfree_again(a + off)
      PROVE  LoopInv' /\ [Next]_vars
  <2>1. Enter_clear(a + off, {})
    BY <1>3 DEF Enter_kfree_again
  <2>2. PICK b \in Table : a = HEAP_ADDRESS + get_offset(b)
    BY <1>0 DEF Aligned, HeapAddress
  <2>3. b \in Nat /\ off \in 0..(BlockSize - 1)
    BY TotalAssumption, OffsetsAssumption DEF Table
  <2>4. address_to_heap_block(a + off) = b
    BY <2>2, <2>3, BlockOfAddress
  <2>5. ClearsFrom(address_to_heap_block(a + off), {})
    BY DEF ClearsFrom
  <2>. QED
    BY <2>1, <2>4, <2>5, EnterClearStep
<1>4. CASE Loops
  BY <1>4, ScanStep, ReturnNullStep, EnterMarkStep, MarkStep, ReturnKmallocStep,
     ClearStep, ReturnKfreeStep DEF Loops
<1>5. CASE UNCHANGED loopVars
  <2>1. UNCHANGED <<table, beyond, call, callers, returned>>
    BY <1>5 DEF loopVars
  <2>2. IInv' /\ UNCHANGED vars
    BY <1>0, <2>1, Unseen
  <2>3. (AtIdle \/ AtScan \/ AtMark \/ AtClear)'
    BY <2>1 DEF LoopInv, AtIdle, AtScan, AtMark, AtClear, ClearsFrom, Block,
                callers, returned
  <2>. QED
    BY <2>2, <2>3 DEF LoopInv
<1>. QED
  BY <1>1, <1>2, <1>3, <1>4, <1>5 DEF LoopNext

\* The invariant holds between any two iterations.
THEOREM LoopInvariant == LoopSpec => []LoopInv
<1>1. LoopInv /\ [LoopNext]_loopVars => LoopInv'
  BY LoopStep
<1>. QED
  BY <1>1, LoopInitInv, PTL DEF LoopSpec

\* The loops of heap.c, iteration by iteration, do what Heap does in one step
\* for a call: the search finds the first run that is long enough, else the
\* free run that ends the table; the marking loop writes the chain; the
\* clearing loop stops at its end (heap.c:51-147).
THEOREM LoopsImplementHeap == LoopSpec => ImplementsHeap
<1>1. LoopInit => Init
  BY DEF LoopInit
<1>2. LoopInv /\ [LoopNext]_loopVars => [Next]_vars
  BY LoopStep
<1>. QED
  BY <1>1, <1>2, LoopInvariant, PTL DEF LoopSpec, ImplementsHeap, Spec
=============================================================================
