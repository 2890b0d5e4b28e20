------------------------------- MODULE MCHeap -------------------------------
(***************************************************************************)
(* A heap of five blocks, three callers, and requests of zero bytes, of    *)
(* one byte, of exactly one block, of one byte more, and of three blocks.  *)
(***************************************************************************)
EXTENDS Heap

MCSizes == {0, 1, 4096, 4097, 12288}
MCOffsets == {0, 8}
=============================================================================
