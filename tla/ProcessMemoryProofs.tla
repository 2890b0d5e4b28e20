------------------------ MODULE ProcessMemoryProofs ------------------------
(***************************************************************************)
(* Proofs about the memory of programs, for every heap, every number of    *)
(* programs and of allocations, and all request sizes.  They rest on the   *)
(* inductive invariant of the heap and on the steps proved in HeapProofs.  *)
(***************************************************************************)
EXTENDS ProcessMemory, HeapProofs

-----------------------------------------------------------------------------
(* The inductive invariant.  That a program can write its memory and only  *)
(* its memory are the two halves of one equivalence, and neither half is   *)
(* inductive alone: free takes exactly the pages of one allocation only if *)
(* no other has them, and exit drops the directory only after the table of *)
(* the process has become empty.                                           *)

PageFlags == {"ro", "rw", "none"}

ProcessType == /\ pages \in [Procs -> [Table -> PageFlags]]
               /\ exiting \in Procs \cup {NoProcess}
               /\ loop \in 0..MaxAllocations
               /\ wholePages \in BOOLEAN

\* The loop of process_free_all_allocations leaves no entry behind it.
LoopClears == exiting # NoProcess =>
                \A i \in Indices : i < loop => ptr[<<exiting, i>>] = NULL

\* No program holds a whole number of pages.
NoWholePages ==
  ~wholePages => \A p \in Procs, i \in Indices :
                    ptr[<<p, i>>] # NULL => size[<<p, i>>] % PAGE_SIZE # 0

\* The pages a program can write are the pages of its allocations.
WritableIsOwned ==
  ~wholePages /\ ~misused =>
     \A p \in Procs, b \in Table :
        pages[p][b] = "rw" <=> \E i \in Indices : b \in Owned(<<p, i>>)

ProcessInv == /\ IInv
              /\ ProcessType
              /\ LoopClears
              /\ NoWholePages
              /\ WritableIsOwned

-----------------------------------------------------------------------------
(* The operators.                                                          *)

\* For a request that is no whole number of pages map_page_range covers the
\* blocks the heap gave, and no other.
LEMMA PagesOfRequest ==
  ASSUME NEW s \in Nat, NEW bytes \in Nat, bytes % PAGE_SIZE # 0,
         NEW a, a = HEAP_ADDRESS + get_offset(s)
  PROVE  (align_to_paging_address(a + bytes) - a) \div PAGE_SIZE = NumBlocks(bytes)
BY DEF align_to_paging_address, PAGE_SIZE, get_offset, HEAP_ADDRESS, NumBlocks,
       heap_align_size, BlockSize

\* map_page_range gives the flags to the blocks of the allocation and to no
\* others, unless its length is a whole number of pages.
LEMMA MapRange ==
  ASSUME NEW s \in Table, NEW bytes \in Nat, bytes % PAGE_SIZE # 0,
         NEW a, a = HEAP_ADDRESS + get_offset(s), NEW directory, NEW flags
  PROVE  map_page_range(directory, a, bytes, flags)
           = [b \in Table |-> IF b \in Extent(s, NumBlocks(bytes))
                              THEN flags ELSE directory[b]]
<1>1. s \in Nat
  BY TotalAssumption DEF Table
<1>2. address_to_heap_block(a) = s
  BY AddressFacts
<1>3. (align_to_paging_address(a + bytes) - a) \div PAGE_SIZE = NumBlocks(bytes)
  BY <1>1, PagesOfRequest
<1>. QED
  BY <1>2, <1>3 DEF map_page_range, Extent

\* Whatever the request, a directory stays a directory.
LEMMA MapType ==
  ASSUME NEW directory \in [Table -> PageFlags], NEW flags \in PageFlags,
         NEW a, NEW bytes
  PROVE  map_page_range(directory, a, bytes, flags) \in [Table -> PageFlags]
BY DEF map_page_range

\* process_get_allocation finds an empty entry of the table.
LEMMA EmptyEntry ==
  ASSUME NEW p, FreeIndices(p) # {}
  PROVE  /\ process_get_allocation(p) \in Indices
         /\ ptr[<<p, process_get_allocation(p)>>] = NULL
<1>1. FreeIndices(p) \in SUBSET Nat
  BY DEF FreeIndices, Indices
<1>2. Min(FreeIndices(p)) \in FreeIndices(p)
  BY <1>1, MinOfNat
<1>. QED
  BY <1>2 DEF process_get_allocation, FreeIndices

\* process_get_ptr_allocation finds the first entry that holds the address.
LEMMA FirstMatch ==
  ASSUME NEW p, NEW a, Matches(p, a) # {}
  PROVE  /\ Min(Matches(p, a)) \in Indices
         /\ ptr[<<p, Min(Matches(p, a))>>] = a
         /\ \A i \in Indices : ptr[<<p, i>>] = a => Min(Matches(p, a)) <= i
<1>1. Matches(p, a) \in SUBSET Nat
  BY DEF Matches, Indices
<1>2. /\ Min(Matches(p, a)) \in Matches(p, a)
      /\ \A i \in Matches(p, a) : Min(Matches(p, a)) <= i
  BY <1>1, MinOfNat
<1>. QED
  BY <1>2 DEF Matches

\* The entries of the tables and the kernel's pointer are callers of the heap.
LEMMA Callers ==
  /\ \A p \in Procs, i \in Indices : <<p, i>> \in Handles /\ <<p, i>> # <<KERNEL, 0>>
  /\ <<KERNEL, 0>> \in Handles
BY HandlesAssumption, OwnersAssumption

-----------------------------------------------------------------------------
(* The steps.                                                              *)

\* No process has memory yet.
LEMMA ProcessInitInv == ProcessInit => ProcessInv
<1>. SUFFICES ASSUME ProcessInit PROVE ProcessInv
  OBVIOUS
<1>1. IInv
  BY InitInvariant DEF ProcessInit
<1>2. ProcessType
  <2>1. NewDirectory \in [Table -> PageFlags]
    BY DEF NewDirectory, PageFlags
  <2>2. pages = [p \in Procs |-> NewDirectory] /\ exiting = NoProcess /\ loop = 0
    BY DEF ProcessInit
  <2>3. pages \in [Procs -> [Table -> PageFlags]]
    BY <2>1, <2>2
  <2>4. wholePages \in BOOLEAN
    BY DEF ProcessInit
  <2>5. loop \in 0..MaxAllocations
    BY <2>2, MaxAllocationsAssumption
  <2>. QED
    BY <2>2, <2>3, <2>4, <2>5 DEF ProcessType
<1>3. \A p \in Procs, i \in Indices : ptr[<<p, i>>] = NULL /\ Owned(<<p, i>>) = {}
  BY Callers DEF ProcessInit, Init, Owned
<1>4. LoopClears /\ NoWholePages
  BY <1>3 DEF LoopClears, NoWholePages, ProcessInit
<1>5. \A p \in Procs, b \in Table : pages[p][b] # "rw"
  BY DEF ProcessInit, NewDirectory
<1>6. WritableIsOwned
  BY <1>3, <1>5 DEF WritableIsOwned
<1>. QED
  BY <1>1, <1>2, <1>4, <1>6 DEF ProcessInv

\* malloc: the new allocation becomes writable and nothing else changes.
LEMMA MallocKeeps ==
  ASSUME ProcessInv, NEW p \in Procs, NEW bytes \in Sizes, process_malloc(p, bytes)
  PROVE  ProcessInv'
<1>. PICK i : i = process_get_allocation(p)
  OBVIOUS
<1>. DEFINE h == <<p, i>>
            n == NumBlocks(bytes)
<1>1. /\ exiting = NoProcess /\ exiting' = exiting /\ loop' = loop
      /\ FreeIndices(p) # {}
      /\ kmalloc(h, bytes)
      /\ pages' = [pages EXCEPT ![p] = map_page_range(@, ptr'[h], bytes, "rw")]
      /\ wholePages' = (wholePages \/ bytes % PAGE_SIZE = 0)
  BY DEF process_malloc
<1>2. i \in Indices /\ ptr[h] = NULL
  BY <1>1, EmptyEntry
<1>3. h \in Handles /\ \A q \in Procs, j \in Indices : <<q, j>> \in Handles
  BY <1>2, Callers
<1>4. IInv /\ ProcessType
  BY DEF ProcessInv
<1>5. /\ IInv'
      /\ \A g \in Handles \ {h} : Owned(g)' = Owned(g)
      /\ Owned(h) = {}
  BY <1>1, <1>3, <1>4, KmallocStep
<1>6. bytes \in Nat
  BY SizesAssumption
<1>7. PICK s : s = heap_get_free_block(entries, n)
  OBVIOUS
<1>8. /\ s >= 0 /\ misused' = misused
      /\ ptr' = [ptr EXCEPT ![h] = HEAP_ADDRESS + get_offset(s)]
      /\ size' = [size EXCEPT ![h] = bytes]
  BY <1>1, <1>7 DEF kmalloc
<1>9. ptr'[h] = HEAP_ADDRESS + get_offset(s) /\ size'[h] = bytes
  BY <1>3, <1>4, <1>8 DEF IInv, TypeOK
<1>10. s \in Table
  <2>1. entries \in [Table -> SUBSET Flags] /\ n \in Nat
    BY <1>4, <1>6, NumBlocksType DEF IInv, TypeOK
  <2>. QED
    BY <2>1, <1>7, <1>8, FreeBlock DEF EMEM
<1>11. /\ ptr'[h] # NULL
       /\ Owned(h)' = Extent(s, n)
  BY <1>6, <1>9, <1>10, AddressFacts DEF Owned, Block
<1>12. ProcessType'
  <2>1. pages[p] \in [Table -> PageFlags] /\ "rw" \in PageFlags
    BY <1>4 DEF ProcessType, PageFlags
  <2>2. map_page_range(pages[p], ptr'[h], bytes, "rw") \in [Table -> PageFlags]
    BY <2>1, MapType
  <2>. QED
    BY <1>1, <1>4, <2>2 DEF ProcessType
<1>13. LoopClears'
  BY <1>1 DEF LoopClears
<1>14. NoWholePages'
  <2>. SUFFICES ASSUME ~wholePages', NEW q \in Procs, NEW j \in Indices,
                       ptr'[<<q, j>>] # NULL
                PROVE  size'[<<q, j>>] % PAGE_SIZE # 0
    BY DEF NoWholePages
  <2>1. CASE <<q, j>> = h
    BY <1>1, <1>9, <2>1
  <2>2. CASE <<q, j>> # h
    <3>1. ptr'[<<q, j>>] = ptr[<<q, j>>] /\ size'[<<q, j>>] = size[<<q, j>>]
      BY <1>3, <1>4, <1>8, <2>2 DEF IInv, TypeOK
    <3>. QED
      BY <1>1, <3>1 DEF ProcessInv, NoWholePages
  <2>. QED
    BY <2>1, <2>2
<1>15. WritableIsOwned'
  <2>. SUFFICES ASSUME ~wholePages', ~misused', NEW q \in Procs, NEW b \in Table
                PROVE  pages'[q][b] = "rw" <=> \E j \in Indices : b \in Owned(<<q, j>>)'
    BY DEF WritableIsOwned, Table
  <2>1. pages[q][b] = "rw" <=> \E j \in Indices : b \in Owned(<<q, j>>)
    BY <1>1, <1>8 DEF ProcessInv, WritableIsOwned
  <2>2. CASE q # p
    <3>1. pages'[q] = pages[q]
      BY <1>1, <1>4, <2>2 DEF ProcessType
    <3>2. \A j \in Indices : Owned(<<q, j>>)' = Owned(<<q, j>>)
      BY <1>3, <1>5, <2>2
    <3>. QED
      BY <2>1, <3>1, <3>2
  <2>3. CASE q = p
    <3>1. bytes % PAGE_SIZE # 0
      BY <1>1
    <3>2. pages'[p] = [c \in Table |-> IF c \in Extent(s, n) THEN "rw" ELSE pages[p][c]]
      BY <1>1, <1>4, <1>6, <1>9, <1>10, <3>1, MapRange DEF ProcessType
    <3>3. pages'[p][b] = IF b \in Extent(s, n) THEN "rw" ELSE pages[p][b]
      BY <3>2
    <3>4. \A j \in Indices \ {i} : Owned(<<p, j>>)' = Owned(<<p, j>>)
      BY <1>3, <1>5
    <3>. QED
      BY <1>2, <1>5, <1>11, <2>1, <2>3, <3>3, <3>4
  <2>. QED
    BY <2>2, <2>3
<1>. QED
  BY <1>5, <1>12, <1>13, <1>14, <1>15 DEF ProcessInv

\* free: exactly the pages of the freed allocation are taken away, and the
\* other allocations of the program keep theirs.
LEMMA FreeKeeps ==
  ASSUME ProcessInv, NEW p \in Procs, NEW a, a # NULL,
         process_free_allocation(p, a), wholePages' = wholePages
  PROVE  /\ IInv' /\ NoWholePages' /\ WritableIsOwned'
         /\ pages' \in [Procs -> [Table -> PageFlags]]
         /\ \E i \in Indices :
               /\ i = Min(Matches(p, a))
               /\ ptr[<<p, i>>] = a
               /\ kfree(<<p, i>>)
               /\ ptr' = [ptr EXCEPT ![<<p, i>>] = NULL]
<1>. PICK i : i = Min(Matches(p, a))
  OBVIOUS
<1>. DEFINE h == <<p, i>>
            n == NumBlocks(size[h])
<1>1. /\ Matches(p, a) # {}
      /\ pages' = [pages EXCEPT ![p] = map_page_range(@, a, size[h], "none")]
      /\ kfree(h)
  BY DEF process_free_allocation
<1>2. i \in Indices /\ ptr[h] = a
  BY <1>1, FirstMatch
<1>3. h \in Handles /\ \A q \in Procs, j \in Indices : <<q, j>> \in Handles
  BY <1>2, Callers
<1>4. IInv /\ ProcessType /\ TypeOK /\ Aligned
  BY DEF ProcessInv, IInv
<1>5. /\ IInv'
      /\ \A g \in Handles \ {h} : Owned(g)' = Owned(g)
      /\ Owned(h)' = {}
  BY <1>1, <1>3, <1>4, KfreeStep
<1>6. /\ ptr' = [ptr EXCEPT ![h] = NULL]
      /\ size' = [size EXCEPT ![h] = 0]
      /\ misused => misused'
  BY <1>1 DEF kfree
<1>7. PICK s : s = Block(h)
  OBVIOUS
<1>8. /\ s \in Table /\ a = HEAP_ADDRESS + get_offset(s)
      /\ Owned(h) = Extent(s, n)
      /\ size[h] \in Nat
  BY <1>2, <1>3, <1>4, <1>7, Held DEF TypeOK
<1>9. pages' \in [Procs -> [Table -> PageFlags]]
  <2>1. pages[p] \in [Table -> PageFlags] /\ "none" \in PageFlags
    BY <1>4 DEF ProcessType, PageFlags
  <2>2. map_page_range(pages[p], a, size[h], "none") \in [Table -> PageFlags]
    BY <2>1, MapType
  <2>. QED
    BY <1>1, <1>4, <2>2 DEF ProcessType
<1>10. NoWholePages'
  <2>. SUFFICES ASSUME ~wholePages', NEW q \in Procs, NEW j \in Indices,
                       ptr'[<<q, j>>] # NULL
                PROVE  size'[<<q, j>>] % PAGE_SIZE # 0
    BY DEF NoWholePages
  <2>1. <<q, j>> # h
    BY <1>3, <1>4, <1>6 DEF TypeOK
  <2>2. ptr'[<<q, j>>] = ptr[<<q, j>>] /\ size'[<<q, j>>] = size[<<q, j>>]
    BY <1>3, <1>4, <1>6, <2>1 DEF TypeOK
  <2>. QED
    BY <2>2 DEF ProcessInv, NoWholePages
<1>11. WritableIsOwned'
  <2>. SUFFICES ASSUME ~wholePages', ~misused', NEW q \in Procs, NEW b \in Table
                PROVE  pages'[q][b] = "rw" <=> \E j \in Indices : b \in Owned(<<q, j>>)'
    BY DEF WritableIsOwned, Table
  <2>1. pages[q][b] = "rw" <=> \E j \in Indices : b \in Owned(<<q, j>>)
    BY <1>6 DEF ProcessInv, WritableIsOwned
  <2>2. CASE q # p
    <3>1. pages'[q] = pages[q]
      BY <1>1, <1>4, <2>2 DEF ProcessType
    <3>2. \A j \in Indices : Owned(<<q, j>>)' = Owned(<<q, j>>)
      BY <1>3, <1>5, <2>2
    <3>. QED
      BY <2>1, <3>1, <3>2
  <2>3. CASE q = p
    <3>1. size[h] % PAGE_SIZE # 0
      BY <1>2 DEF ProcessInv, NoWholePages
    <3>2. pages'[p] = [c \in Table |-> IF c \in Extent(s, n) THEN "none" ELSE pages[p][c]]
      BY <1>1, <1>4, <1>8, <3>1, MapRange DEF ProcessType
    <3>3. pages'[p][b] = IF b \in Owned(h) THEN "none" ELSE pages[p][b]
      BY <1>8, <3>2
    <3>4. \A j \in Indices \ {i} : /\ Owned(<<p, j>>)' = Owned(<<p, j>>)
                                   /\ Owned(<<p, j>>) \cap Owned(h) = {}
      BY <1>3, <1>4, <1>5, <1>6 DEF IInv, Disjoint
    <3>. QED
      BY <1>2, <1>5, <2>1, <2>3, <3>3, <3>4
  <2>. QED
    BY <2>2, <2>3
<1>. QED
  BY <1>1, <1>2, <1>5, <1>6, <1>9, <1>10, <1>11

\* What the kernel does with its own memory is no concern of the programs.
LEMMA KernelKeeps ==
  ASSUME ProcessInv, UNCHANGED <<pages, exiting, loop, wholePages>>,
         \/ \E bytes \in Sizes : kmalloc(<<KERNEL, 0>>, bytes)
         \/ kfree(<<KERNEL, 0>>)
  PROVE  ProcessInv'
<1>. DEFINE k == <<KERNEL, 0>>
<1>1. k \in Handles /\ IInv
  BY Callers DEF ProcessInv
<1>2. /\ IInv'
      /\ \A g \in Handles \ {k} : Owned(g)' = Owned(g)
  BY <1>1, KmallocStep, KfreeStep
<1>3. \A p \in Procs, i \in Indices :
         /\ Owned(<<p, i>>)' = Owned(<<p, i>>)
         /\ <<p, i>> \in Handles /\ <<p, i>> # k
  BY <1>2, Callers
<1>4. /\ \A h \in Handles \ {k} : ptr'[h] = ptr[h] /\ size'[h] = size[h]
      /\ misused => misused'
  BY <1>1 DEF kmalloc, kfree, IInv, TypeOK
<1>5. \A p \in Procs, i \in Indices : ptr'[<<p, i>>] = ptr[<<p, i>>]
                                      /\ size'[<<p, i>>] = size[<<p, i>>]
  BY <1>3, <1>4
<1>6. ProcessType'
  BY DEF ProcessInv, ProcessType
<1>7. LoopClears' /\ NoWholePages'
  BY <1>5 DEF ProcessInv, ProcessType, LoopClears, NoWholePages
<1>8. WritableIsOwned'
  BY <1>3, <1>4 DEF ProcessInv, WritableIsOwned
<1>. QED
  BY <1>2, <1>6, <1>7, <1>8 DEF ProcessInv

\* A step that leaves the allocations and the pages alone.
LEMMA QuietKeeps ==
  ASSUME ProcessInv, IInv', UNCHANGED <<ptr, size, pages, wholePages, misused>>,
         exiting' \in Procs \cup {NoProcess}, loop' \in 0..MaxAllocations,
         LoopClears'
  PROVE  ProcessInv'
<1>1. \A h : Owned(h)' = Owned(h)
  BY DEF Owned, Block
<1>2. ProcessType' /\ NoWholePages'
  BY DEF ProcessInv, ProcessType, NoWholePages
<1>3. WritableIsOwned'
  BY <1>1 DEF ProcessInv, WritableIsOwned
<1>. QED
  BY <1>2, <1>3 DEF ProcessInv

\* One round of the loop of exit frees the entry it stands at.
LEMMA FreeNextKeeps ==
  ASSUME ProcessInv, FreeNext
  PROVE  ProcessInv'
<1>1. /\ exiting # NoProcess /\ loop < MaxAllocations
      /\ loop' = loop + 1 /\ exiting' = exiting /\ wholePages' = wholePages
  BY DEF FreeNext
<1>2. exiting \in Procs /\ loop \in Nat /\ loop \in Indices /\ loop' \in 0..MaxAllocations
  BY <1>1, MaxAllocationsAssumption DEF ProcessInv, ProcessType, Indices
<1>3. \A i \in Indices : i \in Nat /\ (i < loop => ptr[<<exiting, i>>] = NULL)
  BY <1>1 DEF ProcessInv, LoopClears, Indices
<1>4. CASE /\ ptr[<<exiting, loop>>] = NULL
           /\ UNCHANGED <<heapVars, ptr, size, pages>>
  <2>1. IInv'
    BY <1>4, StutterStep DEF ProcessInv, heapVars, vars
  <2>2. LoopClears'
    BY <1>1, <1>2, <1>3, <1>4 DEF LoopClears
  <2>. QED
    BY <1>1, <1>2, <1>4, <2>1, <2>2, QuietKeeps DEF heapVars
<1>5. CASE /\ ptr[<<exiting, loop>>] # NULL
           /\ process_free_allocation(exiting, ptr[<<exiting, loop>>])
  <2>. PICK p, l, a : p = exiting /\ l = loop /\ a = ptr[<<exiting, loop>>]
    OBVIOUS
  <2>1. /\ IInv' /\ NoWholePages' /\ WritableIsOwned'
        /\ pages' \in [Procs -> [Table -> PageFlags]]
        /\ \E i \in Indices :
               /\ i = Min(Matches(p, a))
               /\ ptr[<<p, i>>] = a
               /\ kfree(<<p, i>>)
               /\ ptr' = [ptr EXCEPT ![<<p, i>>] = NULL]
    BY <1>1, <1>2, <1>5, FreeKeeps
  <2>2. PICK i \in Indices : /\ i = Min(Matches(p, a))
                             /\ ptr[<<p, i>>] = a
                             /\ ptr' = [ptr EXCEPT ![<<p, i>>] = NULL]
    BY <2>1
  <2>3. i = l
    <3>1. l \in Matches(p, a)
      BY <1>2 DEF Matches
    <3>2. i <= l
      BY <1>2, <2>2, <3>1, FirstMatch
    <3>3. ~(i < l)
      BY <1>3, <1>5, <2>2
    <3>. QED
      BY <1>2, <1>3, <3>2, <3>3
  <2>4. \A j \in Indices : <<p, j>> \in Handles
    BY <1>2, Callers
  <2>5. ptr \in [Handles -> Nat]
    BY DEF ProcessInv, IInv, TypeOK
  <2>6. \A j \in Indices : j < l + 1 => ptr'[<<p, j>>] = NULL
    BY <1>2, <1>3, <2>2, <2>3, <2>4, <2>5
  <2>7. LoopClears'
    BY <1>1, <2>6 DEF LoopClears
  <2>8. ProcessType'
    BY <1>1, <1>2, <2>1 DEF ProcessInv, ProcessType
  <2>. QED
    BY <2>1, <2>7, <2>8 DEF ProcessInv
<1>. QED
  BY <1>4, <1>5 DEF FreeNext

\* At the end of the loop the table is empty, and with the directory nothing
\* writable is lost.
LEMMA ExitDoneKeeps ==
  ASSUME ProcessInv, ExitDone
  PROVE  /\ ProcessInv'
         /\ FreeIndices(exiting) = Indices
<1>1. /\ exiting # NoProcess /\ loop = MaxAllocations
      /\ pages' = [pages EXCEPT ![exiting] = NewDirectory]
      /\ exiting' = NoProcess /\ loop' = 0
      /\ UNCHANGED <<heapVars, ptr, size, wholePages>>
  BY DEF ExitDone
<1>. PICK p : p = exiting
  OBVIOUS
<1>2. p \in Procs
  BY <1>1 DEF ProcessInv, ProcessType
<1>3. \A i \in Indices : ptr[<<p, i>>] = NULL
  BY <1>1, MaxAllocationsAssumption DEF ProcessInv, LoopClears, Indices
<1>4. FreeIndices(p) = Indices
  BY <1>3 DEF FreeIndices
<1>5. IInv'
  BY <1>1, StutterStep DEF ProcessInv, heapVars, vars
<1>6. ProcessType'
  <2>1. NewDirectory \in [Table -> PageFlags]
    BY DEF NewDirectory, PageFlags
  <2>. QED
    BY <1>1, <2>1, MaxAllocationsAssumption DEF ProcessInv, ProcessType
<1>7. LoopClears' /\ NoWholePages'
  BY <1>1 DEF ProcessInv, LoopClears, NoWholePages
<1>8. \A h : Owned(h)' = Owned(h)
  BY <1>1 DEF Owned, Block
<1>9. WritableIsOwned'
  <2>. SUFFICES ASSUME ~wholePages', ~misused', NEW q \in Procs, NEW b \in Table
                PROVE  pages'[q][b] = "rw" <=> \E j \in Indices : b \in Owned(<<q, j>>)'
    BY DEF WritableIsOwned, Table
  <2>1. pages[q][b] = "rw" <=> \E j \in Indices : b \in Owned(<<q, j>>)
    BY <1>1 DEF ProcessInv, WritableIsOwned, heapVars
  <2>2. CASE q = p
    <3>1. pages'[q][b] = "ro"
      BY <1>1, <1>2, <2>2 DEF ProcessInv, ProcessType, NewDirectory
    <3>2. \A j \in Indices : Owned(<<q, j>>) = {}
      BY <1>3, <2>2 DEF Owned
    <3>. QED
      BY <1>8, <3>1, <3>2
  <2>3. CASE q # p
    <3>1. pages'[q] = pages[q]
      BY <1>1, <2>3 DEF ProcessInv, ProcessType
    <3>. QED
      BY <1>8, <2>1, <3>1
  <2>. QED
    BY <2>2, <2>3
<1>. QED
  BY <1>4, <1>5, <1>6, <1>7, <1>9 DEF ProcessInv

\* Every step keeps the invariant, and is a call of the heap by one of its
\* callers or leaves the heap alone.
LEMMA ProcessStep ==
  ASSUME ProcessInv, [ProcessNext]_processVars
  PROVE  ProcessInv' /\ [Next]_vars
<1>0. IInv /\ ProcessType /\ LoopClears
  BY DEF ProcessInv
<1>1. ASSUME NEW p \in Procs, NEW bytes \in Sizes, process_malloc(p, bytes)
      PROVE  ProcessInv' /\ Next
  <2>1. PICK i : i = process_get_allocation(p)
    OBVIOUS
  <2>2. kmalloc(<<p, i>>, bytes) /\ <<p, i>> \in Handles
    BY <1>1, <2>1, EmptyEntry, Callers DEF process_malloc
  <2>. QED
    BY <1>1, <2>2, MallocKeeps DEF Next
<1>2. ASSUME NEW p \in Procs, NEW bytes \in Sizes, process_malloc_fails(p, bytes)
      PROVE  ProcessInv' /\ Next
  <2>1. PICK i : i = process_get_allocation(p)
    OBVIOUS
  <2>2. kmalloc_fails(<<p, i>>, bytes) /\ <<p, i>> \in Handles
    BY <1>2, <2>1, EmptyEntry, Callers DEF process_malloc_fails
  <2>3. /\ UNCHANGED <<ptr, size, misused>>
        /\ UNCHANGED <<pages, exiting, loop, wholePages>>
    BY <1>2, <2>2 DEF process_malloc_fails, kmalloc_fails
  <2>4. IInv'
    BY <1>0, <2>2, KmallocFailsStep
  <2>5. LoopClears' /\ exiting' \in Procs \cup {NoProcess} /\ loop' \in 0..MaxAllocations
    BY <1>0, <2>3 DEF LoopClears, ProcessType
  <2>. QED
    BY <2>2, <2>3, <2>4, <2>5, QuietKeeps DEF Next
<1>3. ASSUME NEW p \in Procs, NEW i \in Indices \ FreeIndices(p),
             isr80h_free_command(p, ptr[<<p, i>>])
      PROVE  ProcessInv' /\ Next
  <2>1. PICK a : a = ptr[<<p, i>>]
    OBVIOUS
  <2>2. /\ a # NULL /\ process_free_allocation(p, a)
        /\ exiting = NoProcess
        /\ UNCHANGED <<exiting, loop, wholePages>>
    BY <1>3, <2>1 DEF isr80h_free_command, FreeIndices
  <2>3. /\ IInv' /\ NoWholePages' /\ WritableIsOwned'
        /\ pages' \in [Procs -> [Table -> PageFlags]]
        /\ \E j \in Indices : kfree(<<p, j>>)
    BY <2>2, FreeKeeps
  <2>4. ProcessType' /\ LoopClears'
    BY <1>0, <2>2, <2>3 DEF ProcessType, LoopClears
  <2>. QED
    BY <2>3, <2>4, Callers DEF ProcessInv, Next
<1>4. ASSUME NEW bytes \in Sizes, kernel_kmalloc(bytes)
      PROVE  ProcessInv' /\ Next
  BY <1>4, KernelKeeps, Callers DEF kernel_kmalloc, Next
<1>5. CASE kernel_kfree
  BY <1>5, KernelKeeps, Callers DEF kernel_kfree, Next
<1>6. ASSUME NEW p \in Procs, Exit(p)
      PROVE  ProcessInv' /\ UNCHANGED vars
  <2>1. /\ UNCHANGED vars /\ UNCHANGED <<ptr, size, pages, wholePages, misused>>
        /\ exiting' = p /\ loop' = 0
    BY <1>6 DEF Exit, heapVars, vars
  <2>2. IInv'
    BY <1>0, <2>1, StutterStep
  <2>3. LoopClears' /\ loop' \in 0..MaxAllocations
    BY <2>1, MaxAllocationsAssumption DEF LoopClears, Indices
  <2>. QED
    BY <2>1, <2>2, <2>3, QuietKeeps
<1>7. CASE FreeNext
  <2>1. CASE /\ ptr[<<exiting, loop>>] = NULL
             /\ UNCHANGED <<heapVars, ptr, size, pages>>
    BY <1>7, <2>1, FreeNextKeeps DEF heapVars, vars
  <2>2. CASE /\ ptr[<<exiting, loop>>] # NULL
             /\ process_free_allocation(exiting, ptr[<<exiting, loop>>])
    <3>1. PICK p, a : p = exiting /\ a = ptr[<<exiting, loop>>]
      OBVIOUS
    <3>2. p \in Procs /\ wholePages' = wholePages
      BY <1>0, <1>7, <3>1 DEF FreeNext, ProcessType
    <3>3. \E j \in Indices : kfree(<<p, j>>)
      BY <2>2, <3>1, <3>2, FreeKeeps
    <3>. QED
      BY <1>7, <3>2, <3>3, FreeNextKeeps, Callers DEF Next
  <2>. QED
    BY <1>7, <2>1, <2>2 DEF FreeNext
<1>8. CASE ExitDone
  BY <1>8, ExitDoneKeeps DEF ExitDone, heapVars, vars
<1>9. CASE UNCHANGED processVars
  <2>1. /\ UNCHANGED vars
        /\ UNCHANGED <<ptr, size, pages, wholePages, misused, exiting, loop>>
    BY <1>9 DEF processVars, heapVars, vars
  <2>2. IInv'
    BY <1>0, <2>1, StutterStep
  <2>3. LoopClears' /\ exiting' \in Procs \cup {NoProcess} /\ loop' \in 0..MaxAllocations
    BY <1>0, <2>1 DEF LoopClears, ProcessType
  <2>. QED
    BY <2>1, <2>2, <2>3, QuietKeeps
<1>. QED
  BY <1>1, <1>2, <1>3, <1>4, <1>5, <1>6, <1>7, <1>8, <1>9 DEF ProcessNext

-----------------------------------------------------------------------------
(* The theorems.                                                           *)

\* The invariant holds in every reachable state.
THEOREM ProcessInvariant == ProcessSpec => []ProcessInv
<1>1. ProcessInv /\ [ProcessNext]_processVars => ProcessInv'
  BY ProcessStep
<1>. QED
  BY <1>1, ProcessInitInv, PTL DEF ProcessSpec

\* A program can write every byte malloc gave it until it frees it, unless
\* somebody asked for whole pages or misused a zero-byte pointer
\* (process.c:249-300, paging.c:46-104).
THEOREM ProcessAllocationsUsable == ProcessSpec => []AllocationsUsable
<1>1. ProcessInv => AllocationsUsable
  BY DEF ProcessInv, WritableIsOwned, AllocationsUsable
<1>. QED
  BY <1>1, ProcessInvariant, PTL

\* Under the same condition no program can write memory of the kernel or of
\* another program, also after the memory has changed hands (process.c:249-300,
\* paging.c:46-104).
THEOREM ProcessIsolation == ProcessSpec => []Isolation
<1>1. ProcessInv => Isolation
  <2>. SUFFICES ASSUME ProcessInv, ~wholePages, ~misused,
                       NEW p \in Procs, NEW h \in Handles, h[1] # p,
                       NEW b \in Owned(h) \cap Table, pages[p][b] = "rw"
                PROVE  FALSE
    BY DEF Isolation
  <2>1. PICK i \in Indices : b \in Owned(<<p, i>>)
    BY DEF ProcessInv, WritableIsOwned
  <2>2. <<p, i>> \in Handles /\ h # <<p, i>>
    BY Callers
  <2>. QED
    BY <2>1, <2>2 DEF ProcessInv, IInv, Disjoint
<1>. QED
  BY <1>1, ProcessInvariant, PTL

\* When the exit of a process is over, its table is empty and no block of the
\* heap is marked that is not somebody else's: the loop skips no entry and no
\* allocation is lost, whatever the program allocated and freed before
\* (process.c:186-193, 268-300).
THEOREM ProcessExitReturnsAll == ProcessSpec => ExitReturnsAll
<1>. DEFINE Gone == /\ FreeIndices(exiting) = Indices
                    /\ ~misused => \A b \in Table : entries[b] # FREE =>
                                      \E h \in Handles : h[1] # exiting /\ b \in Owned(h)
<1>1. ProcessInv /\ [ProcessNext]_processVars =>
        [exiting # NoProcess /\ exiting' = NoProcess => Gone]_processVars
  <2>. SUFFICES ASSUME ProcessInv, ProcessNext,
                       exiting # NoProcess, exiting' = NoProcess
                PROVE  Gone
    OBVIOUS
  <2>1. ExitDone
    BY DEF ProcessNext, process_malloc, process_malloc_fails, isr80h_free_command,
           kernel_kmalloc, kernel_kfree, Exit, FreeNext
  <2>2. FreeIndices(exiting) = Indices
    BY <2>1, ExitDoneKeeps
  <2>3. ASSUME ~misused, NEW b \in Table, entries[b] # FREE
        PROVE  \E h \in Handles : h[1] # exiting /\ b \in Owned(h)
    <3>1. PICK h \in Handles : b \in Owned(h)
      BY <2>3 DEF ProcessInv, IInv, NoLeak
    <3>2. ASSUME h[1] = exiting PROVE FALSE
      <4>1. exiting \in Procs
        BY DEF ProcessInv, ProcessType
      <4>2. PICK i \in Indices : h = <<exiting, i>>
        BY <3>2, <4>1, HandlesAssumption, OwnersAssumption
      <4>3. ptr[h] = NULL
        BY <2>2, <4>2 DEF FreeIndices
      <4>. QED
        BY <3>1, <4>3 DEF Owned
    <3>. QED
      BY <3>1, <3>2
  <2>. QED
    BY <2>2, <2>3
<1>. QED
  BY <1>1, ProcessInvariant, PTL DEF ProcessSpec, ExitReturnsAll
=============================================================================
