---------------------------- MODULE MCHeapLoops ----------------------------
(***************************************************************************)
(* Four blocks, three callers, requests of zero, one and three blocks.       *)
(***************************************************************************)
EXTENDS HeapLoops

MCSizes == {0, 4096, 8193}
MCOffsets == {0}
=============================================================================
