-------------------------------- MODULE Heap --------------------------------
(***************************************************************************)
(* The kernel heap (src/memory/heap/heap.c, kheap.c): a table with one     *)
(* byte of flags per 4096-byte block, a first-fit search for a run of free *)
(* blocks, and chains of HAS_NEXT flags that kfree follows.  kmalloc and   *)
(* kfree run with interrupts disabled and are one step each; HeapLoops     *)
(* splits them into the iterations of their loops.                         *)
(*                                                                         *)
(* The callers are the pointer variables in Handles.  A caller may free a  *)
(* pointer it holds, and, as free_path does with the parts of a path, free *)
(* it, or an address inside its first block, again before the next kmalloc. *)
(***************************************************************************)
EXTENDS Integers, FiniteSetsExt

CONSTANTS Total,     \* heap_table.total: number of blocks (25600 in the kernel)
          Sizes,     \* the sizes, in bytes, that callers ask for
          Offsets,   \* distances from a freed address at which it is freed again
          Handles    \* the pointer variables that hold heap addresses

ASSUME TotalAssumption == Total \in Nat \ {0}
ASSUME SizesAssumption == Sizes \subseteq Nat

BlockSize == 4096
ASSUME OffsetsAssumption == Offsets \subseteq 0..(BlockSize - 1)

HEAP_ADDRESS == 16777216       \* 0x01000000
NULL == 0
EMEM == -1                     \* stands for the negative status

Table == 0..(Total - 1)
Flags == {"TAKEN", "IS_FIRST", "HAS_NEXT"}
FREE == {}

VARIABLES entries,   \* heap_table.entries, each byte as the set of its flags
          spill,     \* entries written at and after the end of the table
          ptr,       \* ptr[h]: the address the caller h holds, or NULL
          size,      \* size[h]: the number of bytes it asked for
          recent,    \* addresses freed since the last kmalloc
          misused    \* a zero-byte pointer was freed over somebody's block

vars == <<entries, spill, ptr, size, recent, misused>>

-----------------------------------------------------------------------------
(* Pure functions of heap.c.                                               *)

heap_align_size(n) ==
  IF n % BlockSize = 0 THEN n ELSE n - (n % BlockSize) + BlockSize

NumBlocks(bytes) == heap_align_size(bytes) \div BlockSize

get_offset(block) == BlockSize * block

address_to_heap_block(address) == (address - HEAP_ADDRESS) \div BlockSize

IsFree(e, i) == "TAKEN" \notin e[i]

\* Mutants: a run one block too short passes; the run that ends the table is
\* taken to begin one block early.
FitsOneShort(e, n) == {s \in Table : /\ n > 0
                                     /\ s + n <= Total
                                     /\ \A i \in s..(s + n - 2) : IsFree(e, i)}
TailRunOneEarly(e) == {s \in Table : \A i \in (s + 1)..(Total - 1) : IsFree(e, i)}

\* Starts of runs of n free blocks, and of the free run that ends the table.
Fits(e, n) == {s \in Table : /\ n > 0
                             /\ s + n <= Total
                             /\ \A i \in s..(s + n - 1) : IsFree(e, i)}
TailRun(e) == {s \in Table : \A i \in s..(Total - 1) : IsFree(e, i)}

\* Mutant: the run that ends the table is preferred to one that fits.
TailFirst(e, n) ==
  IF TailRun(e) # {} THEN Min(TailRun(e))
  ELSE IF Fits(e, n) # {} THEN Min(Fits(e, n))
  ELSE EMEM

\* The scan leaves its loop at the first run that is long enough.  When it
\* reaches the end of the table instead, start_block still names the free run
\* it was counting, if there was one, and that is what it returns.
heap_get_free_block(e, n) ==
  IF Fits(e, n) # {} THEN Min(Fits(e, n))
  ELSE IF TailRun(e) # {} THEN Min(TailRun(e))
  ELSE EMEM

\* The flags of block i in an allocation of n blocks from s on.
Chain(s, n, i) == {"TAKEN"} \cup (IF i = s THEN {"IS_FIRST"} ELSE {})
                            \cup (IF i < s + n - 1 THEN {"HAS_NEXT"} ELSE {})

Extent(s, n) == s..(s + n - 1)

\* Mutant: the table is taken to be as long as the allocation needs.
AllocateGrowsTable(e, s, n) ==
  [i \in Table \cup Extent(s, n) |->
     IF i \in Extent(s, n) THEN Chain(s, n, i) ELSE e[i]]

heap_allocate_blocks(e, s, n) ==
  [i \in Table |-> IF i \in Extent(s, n) THEN Chain(s, n, i) ELSE e[i]]

\* kfree clears from b on, up to the first block without HAS_NEXT or the end.
ChainEnd(e, b) ==
  Min({i \in b..(Total - 1) : "HAS_NEXT" \notin e[i]} \cup {Total - 1})

\* Mutants: one block too many is cleared; only the first block is; only the
\* TAKEN flag is.
FreeOneMore(e, b) ==
  [i \in Table |-> IF i \in b..(ChainEnd(e, b) + 1) THEN FREE ELSE e[i]]
FreeFirstOnly(e, b) == [e EXCEPT ![b] = FREE]
FreeTakenOnly(e, b) ==
  [i \in Table |-> IF i \in b..ChainEnd(e, b) THEN e[i] \ {"TAKEN"} ELSE e[i]]

heap_free_blocks(e, b) ==
  [i \in Table |-> IF i \in b..ChainEnd(e, b) THEN FREE ELSE e[i]]

-----------------------------------------------------------------------------
\* The blocks that the bytes of the caller h lie in.
Block(h) == address_to_heap_block(ptr[h])
Owned(h) == IF ptr[h] = NULL THEN {}
            ELSE Block(h)..address_to_heap_block(ptr[h] + size[h] - 1)

TypeOK == /\ entries \in [Table -> SUBSET Flags]
          /\ spill \in SUBSET (Nat \ Table)
          /\ ptr \in [Handles -> Nat]
          /\ size \in [Handles -> Nat]
          /\ recent \in SUBSET Nat
          /\ misused \in BOOLEAN

\* kheap_init and heap_create: every entry is HEAP_BLOCK_FREE.
Init == /\ entries = [i \in Table |-> FREE]
        /\ spill = {}
        /\ ptr = [h \in Handles |-> NULL]
        /\ size = [h \in Handles |-> 0]
        /\ recent = {}
        /\ misused = FALSE

kmalloc(h, bytes) ==
  LET n     == NumBlocks(bytes)
      start == heap_get_free_block(entries, n)
  IN /\ ptr[h] = NULL
     /\ start >= 0
     /\ entries' = heap_allocate_blocks(entries, start, n)
     /\ spill' = spill \cup (Extent(start, n) \ Table)
     /\ ptr' = [ptr EXCEPT ![h] = HEAP_ADDRESS + get_offset(start)]
     /\ size' = [size EXCEPT ![h] = bytes]
     /\ recent' = {}
     /\ UNCHANGED misused

\* heap_malloc_blocks returns 0 and leaves the table alone.
kmalloc_fails(h, bytes) ==
  /\ ptr[h] = NULL
  /\ heap_get_free_block(entries, NumBlocks(bytes)) < 0
  /\ recent' = {}
  /\ UNCHANGED <<entries, spill, ptr, size, misused>>

kfree(h) ==
  /\ ptr[h] # NULL
  /\ entries' = heap_free_blocks(entries, Block(h))
  /\ ptr' = [ptr EXCEPT ![h] = NULL]
  /\ size' = [size EXCEPT ![h] = 0]
  /\ recent' = recent \cup {ptr[h]}
  /\ misused' = (misused \/ (size[h] = 0 /\ ~IsFree(entries, Block(h))))
  /\ UNCHANGED spill

kfree_again(a) ==
  /\ entries' = heap_free_blocks(entries, address_to_heap_block(a))
  /\ UNCHANGED <<spill, ptr, size, recent, misused>>

Next == \/ \E h \in Handles, bytes \in Sizes : kmalloc(h, bytes)
        \/ \E h \in Handles, bytes \in Sizes : kmalloc_fails(h, bytes)
        \/ \E h \in Handles : kfree(h)
        \/ \E a \in recent, off \in Offsets : kfree_again(a + off)

Spec == Init /\ [][Next]_vars

-----------------------------------------------------------------------------
(* Properties.                                                             *)

\* No byte is in the hands of two callers of kmalloc, not even past the end
\* of the heap, whatever was allocated and freed before (heap.c:51-118).
Disjoint ==
  ~misused => \A g, h \in Handles : g # h => Owned(g) \cap Owned(h) = {}

\* The table describes every live allocation exactly: kfree will follow the
\* chain of HAS_NEXT flags to its last block and no further (heap.c:87-147).
ChainsIntact ==
  ~misused =>
    \A h \in Handles : \A i \in Owned(h) \cap Table :
       entries[i] = Chain(Block(h), NumBlocks(size[h]), i)

\* kfree gives back everything kmalloc took: a block marked in the table
\* belongs to a caller (heap.c:136-147).
NoLeak ==
  ~misused => \A i \in Table : entries[i] # FREE =>
                                 \E h \in Handles : i \in Owned(h)

\* Freeing an address twice, or an address inside a block just freed, as
\* free_path does (path.c:103-115), changes nothing while no kmalloc comes
\* between: the block it names is free.
RecentIsFree ==
  ~misused => \A a \in recent, off \in Offsets :
                 entries[address_to_heap_block(a + off)] = FREE

\* heap_get_free_block hands out blocks past the end of the heap only where
\* it should have reported -EMEM: no run of free blocks was long enough.
SpillsOnlyWhenFull ==
  [][spill' # spill =>
       \E h \in Handles : /\ ptr[h] = NULL /\ ptr'[h] # NULL
                          /\ Fits(entries, NumBlocks(size'[h])) = {}]_vars

\* The heap implements the allocator its callers rely on.
Abstract == INSTANCE Allocator WITH Blocks <- Nat,
                                    owns <- [h \in Handles |-> Owned(h)]
ImplementsAllocator == Abstract!Spec
=============================================================================
