------------------------------ MODULE HeapLoops ------------------------------
(***************************************************************************)
(* kmalloc and kfree one loop iteration at a time: the scan of             *)
(* heap_get_free_block with its block_count and start_block, the marking   *)
(* loop of heap_allocate_blocks with the entry byte it prepares for the    *)
(* next round, and the clearing loop of heap_free_blocks.  The module is   *)
(* shown to implement Heap, where each call is one step that says what the *)
(* loops compute.                                                          *)
(***************************************************************************)
EXTENDS Heap

\* entries and spill of Heap are what the last call that returned has left.
VARIABLES table,     \* heap_table.entries, while a call changes it
          beyond,    \* the entries written past the end, likewise
          call       \* the call in progress

callers == <<ptr, size, recent, misused>>
returned == <<entries, spill>>
loopVars == <<table, beyond, call, callers, returned>>

Idle == [pc |-> "idle"]

LoopInit == /\ Init
            /\ table = entries
            /\ beyond = spill
            /\ call = Idle

-----------------------------------------------------------------------------
Enter_kmalloc(h, bytes) ==
  /\ call.pc = "idle"
  /\ ptr[h] = NULL
  /\ call' = [pc |-> "scan", h |-> h, bytes |-> bytes,
              n |-> NumBlocks(bytes),
              i |-> 0, block_count |-> 0, start |-> -1]
  /\ UNCHANGED <<table, beyond, callers, returned>>

\* Mutant: a taken block does not reset start_block.
ScanKeepsStart ==
  /\ call.pc = "scan" /\ call.i < Total
  /\ call' =
       IF ~IsFree(table, call.i)
       THEN [call EXCEPT !.block_count = 0, !.i = @ + 1]
       ELSE [call EXCEPT !.start = IF @ = -1 THEN call.i ELSE @,
                         !.block_count = @ + 1,
                         !.pc = IF call.block_count + 1 = call.n
                                THEN "found" ELSE "scan",
                         !.i = @ + 1]
  /\ UNCHANGED <<table, beyond, callers, returned>>

\* One round of the loop in heap_get_free_block.
Scan ==
  /\ call.pc = "scan" /\ call.i < Total
  /\ call' =
       IF ~IsFree(table, call.i)
       THEN [call EXCEPT !.block_count = 0, !.start = -1, !.i = @ + 1]
       ELSE [call EXCEPT !.start = IF @ = -1 THEN call.i ELSE @,
                         !.block_count = @ + 1,
                         !.pc = IF call.block_count + 1 = call.n
                                THEN "found" ELSE "scan",
                         !.i = @ + 1]
  /\ UNCHANGED <<table, beyond, callers, returned>>

ScanEnds == call.pc = "found" \/ (call.pc = "scan" /\ call.i = Total)

\* start_block is -1: heap_malloc_blocks returns 0.
Return_NULL ==
  /\ ScanEnds /\ call.start = -1
  /\ call' = Idle
  /\ recent' = {}
  /\ UNCHANGED <<table, beyond, ptr, size, misused, returned>>

\* The prologue of heap_allocate_blocks.
Enter_mark ==
  /\ ScanEnds /\ call.start # -1
  /\ call' = [pc |-> "mark", h |-> call.h, bytes |-> call.bytes, n |-> call.n,
              start |-> call.start, i |-> call.start,
              entry |-> {"TAKEN", "IS_FIRST"}
                          \cup (IF call.n > 1 THEN {"HAS_NEXT"} ELSE {})]
  /\ UNCHANGED <<table, beyond, callers, returned>>

EndBlock == call.n + call.start - 1

\* Mutant: the loop does not advance.
MarkStays ==
  /\ call.pc = "mark" /\ call.i <= EndBlock
  /\ table' = [j \in Table |-> IF j = call.i THEN call.entry ELSE table[j]]
  /\ UNCHANGED <<beyond, call, callers, returned>>

\* One round of the loop in heap_allocate_blocks.  entries[i] is written
\* whether or not i is an index of the table.
Mark ==
  /\ call.pc = "mark" /\ call.i <= EndBlock
  /\ table' = [j \in Table |-> IF j = call.i THEN call.entry ELSE table[j]]
  /\ beyond' = beyond \cup ({call.i} \ Table)
  /\ call' = [call EXCEPT
                !.i = @ + 1,
                !.entry = {"TAKEN"} \cup (IF call.i # EndBlock - 1
                                          THEN {"HAS_NEXT"} ELSE {})]
  /\ UNCHANGED <<callers, returned>>

Return_kmalloc ==
  /\ call.pc = "mark" /\ call.i > EndBlock
  /\ ptr' = [ptr EXCEPT ![call.h] = HEAP_ADDRESS + get_offset(call.start)]
  /\ size' = [size EXCEPT ![call.h] = call.bytes]
  /\ recent' = {}
  /\ entries' = table /\ spill' = beyond
  /\ call' = Idle
  /\ UNCHANGED <<table, beyond, misused>>

Enter_clear(a, holders) ==
  /\ call.pc = "idle"
  /\ call' = [pc |-> "clear", holders |-> holders,
              i |-> address_to_heap_block(a)]
  /\ UNCHANGED <<table, beyond, callers, returned>>

Enter_kfree(h) == ptr[h] # NULL /\ Enter_clear(ptr[h], {h})

Enter_kfree_again(a) == Enter_clear(a, {})

\* One round of the loop in heap_free_blocks.
Clear ==
  /\ call.pc = "clear" /\ call.i < Total
  /\ table' = [table EXCEPT ![call.i] = FREE]
  /\ call' = [call EXCEPT !.i = @ + 1,
                          !.pc = IF "HAS_NEXT" \in table[call.i]
                                 THEN "clear" ELSE "cleared"]
  /\ UNCHANGED <<beyond, callers, returned>>

\* The caller of kfree(h) forgets the pointer; a second kfree changes nobody.
Return_kfree ==
  /\ call.pc = "cleared" \/ (call.pc = "clear" /\ call.i = Total)
  /\ ptr' = [h \in Handles |-> IF h \in call.holders THEN NULL ELSE ptr[h]]
  /\ size' = [h \in Handles |-> IF h \in call.holders THEN 0 ELSE size[h]]
  /\ recent' = recent \cup {ptr[h] : h \in call.holders}
  /\ misused' = (misused \/ \E h \in call.holders :
                     /\ size[h] = 0
                     /\ ~IsFree(entries, Block(h)))
  /\ entries' = table /\ spill' = beyond
  /\ call' = Idle
  /\ UNCHANGED <<table, beyond>>

Loops == \/ Scan \/ Return_NULL \/ Enter_mark \/ Mark \/ Return_kmalloc
         \/ Clear \/ Return_kfree

LoopNext ==
  \/ \E h \in Handles, bytes \in Sizes : Enter_kmalloc(h, bytes)
  \/ \E h \in Handles : Enter_kfree(h)
  \/ \E a \in recent, off \in Offsets : Enter_kfree_again(a + off)
  \/ Loops

\* The processor goes on executing a call that has begun.
LoopSpec == LoopInit /\ [][LoopNext]_loopVars /\ WF_loopVars(Loops)

-----------------------------------------------------------------------------
(* Properties.                                                             *)

\* The loops compute what Heap says they do: the first fit, else the run that
\* ends the table, else -EMEM; the chain of flags; and its removal
\* (heap.c:51-147).
ImplementsHeap == Spec

\* Every kmalloc and kfree returns: no loop runs past its bound
\* (heap.c:57, 95, 138).
CallsReturn == call.pc # "idle" ~> call.pc = "idle"
=============================================================================
