-------------------------- MODULE MCProcessMemory --------------------------
(***************************************************************************)
(* Two programs with two allocations each, and the kernel with one.        *)
(***************************************************************************)
EXTENDS ProcessMemory, TLC

\* Nothing at all, one byte, a whole page, and two blocks that are no whole
\* number of pages.
MCSizes == {0, 1, 4096, 5000}

MCHandles == (Procs \X Indices) \cup {<<KERNEL, 0>>}

\* Without a request of zero bytes or whole pages the heap may fill up; after
\* one, at most MaxLive allocations are held at a time.  Once a zero-byte
\* pointer was freed over a live block nothing is promised any more.
MaxLive == 2
Bound == /\ ~misused
         /\ wholePages => Cardinality({h \in Handles : ptr[h] # NULL}) <= MaxLive

Symmetry == Permutations(Procs)
=============================================================================
