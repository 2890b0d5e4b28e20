----------------------------- MODULE Allocator -----------------------------
(***************************************************************************)
(* What the kernel heap promises its callers, without its table: a caller  *)
(* that asks for memory receives a run of blocks nobody else holds, or     *)
(* nothing, and keeps it until it gives it back.  The promise is           *)
(* conditional, as it is in heap.c: once a caller has freed a pointer whose *)
(* block belongs to somebody else ("misused"), nothing is promised.        *)
(***************************************************************************)
EXTENDS Integers

CONSTANTS Handles,   \* the pointer variables of the callers
          Blocks     \* the numbers of the heap blocks

VARIABLES owns,      \* owns[h]: the blocks the pointer h stands for
          misused    \* a foreign pointer has been freed

vars == <<owns, misused>>

TypeOK == /\ owns \in [Handles -> SUBSET Blocks]
          /\ misused \in BOOLEAN

Init == /\ owns = [h \in Handles |-> {}]
        /\ misused = FALSE

\* A contiguous run of blocks that nobody holds is given to h.
Acquire(h) ==
  /\ ~misused
  /\ owns[h] = {}
  /\ owns' \in [Handles -> SUBSET Blocks]
  /\ \A g \in Handles \ {h} : owns'[g] = owns[g] /\ owns[g] \cap owns'[h] = {}
  /\ \A i, j \in owns'[h] : i..j \subseteq owns'[h]
  /\ UNCHANGED misused

Release(h) ==
  /\ ~misused
  /\ owns' = [owns EXCEPT ![h] = {}]
  /\ UNCHANGED misused

\* The caller breaks its side: from here on anything may happen.
Misuse == misused'

Next == \/ \E h \in Handles : Acquire(h) \/ Release(h)
        \/ Misuse

Spec == Init /\ [][Next]_vars
=============================================================================
