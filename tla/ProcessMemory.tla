--------------------------- MODULE ProcessMemory ---------------------------
(***************************************************************************)
(* Memory of user programs: the malloc and free commands (src/isr80h/      *)
(* memory.c), the allocation table of a process (src/task/process.c) and   *)
(* the page directory that map_page_range edits (src/memory/paging/        *)
(* paging.c), on top of the kernel heap.  The kernel itself is one more    *)
(* owner of heap memory, with one pointer; its allocations are not entered *)
(* in any directory.                                                       *)
(*                                                                         *)
(* A page of the heap is one block.  A directory maps it to itself, and    *)
(* the only thing that varies is its flags: "ro" in a new directory, "rw"  *)
(* after malloc, "none" (not present) after free.                          *)
(***************************************************************************)
EXTENDS Heap

CONSTANTS Procs,            \* the processes, as they follow each other in a slot
          KERNEL,           \* the kernel as an owner of memory
          NoProcess,        \* no process is being freed
          MaxAllocations    \* ZHIOS_PROCESS_MAX_ALLOCATIONS (1024 in the kernel)

ASSUME OwnersAssumption == KERNEL \notin Procs /\ NoProcess \notin Procs
ASSUME MaxAllocationsAssumption == MaxAllocations \in Nat

PAGE_SIZE == 4096
Indices == 0..(MaxAllocations - 1)

\* The callers of the heap: the entries of the allocation tables, in which
\* ptr and size are process.allocations[i].ptr and .size, and the kernel.
ASSUME HandlesAssumption == Handles = (Procs \X Indices) \cup {<<KERNEL, 0>>}

VARIABLES pages,                     \* the page directories
          exiting,                   \* the process that is being freed, and
          loop,                      \*   how far its loop has come
          wholePages                 \* ghost: a request was a multiple of a page

heapVars == <<entries, spill, misused, recent>>
processVars == <<heapVars, ptr, size, pages, exiting, loop, wholePages>>

NewDirectory == [b \in Table |-> "ro"]

ProcessInit ==
  /\ Init
  /\ pages = [p \in Procs |-> NewDirectory]
  /\ exiting = NoProcess
  /\ loop = 0
  /\ wholePages = FALSE

-----------------------------------------------------------------------------
(* paging.c.                                                               *)

\* Mutant: the address is rounded down.
AlignDown(a) == a - (a % PAGE_SIZE)

\* Rounds up, and an address that is already aligned goes to the next page.
align_to_paging_address(a) == a + (PAGE_SIZE - (a % PAGE_SIZE))

map_page_range(directory, a, bytes, flags) ==
  LET count == (align_to_paging_address(a + bytes) - a) \div PAGE_SIZE
      first == address_to_heap_block(a)
  IN [b \in Table |->
        IF b \in first..(first + count - 1) THEN flags ELSE directory[b]]

-----------------------------------------------------------------------------
(* The commands.  No user program runs while a process is being freed.     *)

FreeIndices(o) == {i \in Indices : ptr[<<o, i>>] = NULL}
process_get_allocation(o) == Min(FreeIndices(o))

\* kzalloc succeeds; the whole range is mapped for the program to write.
process_malloc(p, bytes) ==
  /\ exiting = NoProcess
  /\ FreeIndices(p) # {}
  /\ LET i == process_get_allocation(p) IN
       /\ kmalloc(<<p, i>>, bytes)
       /\ pages' = [pages EXCEPT ![p] =
                      map_page_range(@, ptr'[<<p, i>>], bytes, "rw")]
  /\ wholePages' = (wholePages \/ bytes % PAGE_SIZE = 0)
  /\ UNCHANGED <<exiting, loop>>

\* kzalloc fails: nothing is mapped and no entry is used.
process_malloc_fails(p, bytes) ==
  /\ exiting = NoProcess
  /\ FreeIndices(p) # {}
  /\ kmalloc_fails(<<p, process_get_allocation(p)>>, bytes)
  /\ UNCHANGED <<pages, exiting, loop, wholePages>>

\* The first entry that holds the address.
Matches(p, a) == {i \in Indices : ptr[<<p, i>>] = a}

\* Mutants: the pages stay mapped; the memory is not given back to the heap.
FreeKeepsPages(p, a) ==
  /\ Matches(p, a) # {}
  /\ kfree(<<p, Min(Matches(p, a))>>)
  /\ UNCHANGED pages
FreeKeepsMemory(p, a) ==
  /\ Matches(p, a) # {}
  /\ ptr' = [ptr EXCEPT ![<<p, Min(Matches(p, a))>>] = NULL]
  /\ size' = [size EXCEPT ![<<p, Min(Matches(p, a))>>] = 0]
  /\ UNCHANGED <<heapVars, pages>>

process_free_allocation(p, a) ==
  LET i == Min(Matches(p, a)) IN
  /\ Matches(p, a) # {}
  /\ pages' = [pages EXCEPT ![p] = map_page_range(@, a, size[<<p, i>>], "none")]
  /\ kfree(<<p, i>>)

\* The free command of a program, with an address it was given.  An address
\* it was not given matches no entry and nothing happens; the null pointer
\* matches the first empty entry, and neither page 0 nor the block number that
\* address_to_heap_block computes for it belongs to the heap.
isr80h_free_command(p, a) ==
  /\ exiting = NoProcess
  /\ process_free_allocation(p, a)
  /\ UNCHANGED <<exiting, loop, wholePages>>

\* The kernel's own kmalloc and kfree.
kernel_kmalloc(bytes) ==
  /\ exiting = NoProcess
  /\ kmalloc(<<KERNEL, 0>>, bytes)
  /\ UNCHANGED <<pages, exiting, loop, wholePages>>

kernel_kfree ==
  /\ exiting = NoProcess
  /\ kfree(<<KERNEL, 0>>)
  /\ UNCHANGED <<pages, exiting, loop, wholePages>>

\* process_free_all_allocations goes through the table.  An empty entry makes
\* it free the null pointer, which is no block of the heap.
Exit(p) ==
  /\ exiting = NoProcess
  /\ exiting' = p
  /\ loop' = 0
  /\ UNCHANGED <<heapVars, ptr, size, pages, wholePages>>

FreeNext ==
  /\ exiting # NoProcess /\ loop < MaxAllocations
  /\ \/ /\ ptr[<<exiting, loop>>] # NULL
        /\ process_free_allocation(exiting, ptr[<<exiting, loop>>])
     \/ /\ ptr[<<exiting, loop>>] = NULL
        /\ UNCHANGED <<heapVars, ptr, size, pages>>
  /\ loop' = loop + 1
  /\ UNCHANGED <<exiting, wholePages>>

\* The directory is freed; a later process starts with one of its own.
ExitDone ==
  /\ exiting # NoProcess /\ loop = MaxAllocations
  /\ pages' = [pages EXCEPT ![exiting] = NewDirectory]
  /\ exiting' = NoProcess
  /\ loop' = 0
  /\ UNCHANGED <<heapVars, ptr, size, wholePages>>

ProcessNext ==
  \/ \E p \in Procs, bytes \in Sizes : process_malloc(p, bytes)
  \/ \E p \in Procs, bytes \in Sizes : process_malloc_fails(p, bytes)
  \/ \E p \in Procs : \E i \in Indices \ FreeIndices(p) :
        isr80h_free_command(p, ptr[<<p, i>>])
  \/ \E bytes \in Sizes : kernel_kmalloc(bytes)
  \/ kernel_kfree
  \/ \E p \in Procs : Exit(p)
  \/ FreeNext
  \/ ExitDone

ProcessSpec == ProcessInit /\ [][ProcessNext]_processVars

-----------------------------------------------------------------------------
(* Properties.                                                             *)

\* Every byte malloc gave a program can be written by it, until it frees it:
\* freeing one allocation takes no page from another.  Requests of whole
\* pages break this, because map_page_range covers one page more.
AllocationsUsable ==
  ~wholePages /\ ~misused =>
     \A p \in Procs, i \in Indices :
        \A b \in Owned(<<p, i>>) \cap Table : pages[p][b] = "rw"

\* No program can write memory of the kernel or of another program, also
\* after memory has been freed and has changed hands.
Isolation ==
  ~wholePages /\ ~misused =>
     \A p \in Procs, h \in Handles : h[1] # p =>
        \A b \in Owned(h) \cap Table : pages[p][b] # "rw"

\* When a process is gone nothing of it is left: the loop has skipped no entry
\* of its table, even if two entries held one address, and every block still
\* marked in the heap belongs to another process or to the kernel, however
\* allocations and frees went before (process.c:186-193, 268-300).
ExitReturnsAll ==
  [][exiting # NoProcess /\ exiting' = NoProcess =>
       /\ FreeIndices(exiting) = Indices
       /\ ~misused => \A b \in Table : entries[b] # FREE =>
                         \E h \in Handles : h[1] # exiting /\ b \in Owned(h)]_processVars
=============================================================================
