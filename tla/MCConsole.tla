----------------------------- MODULE MCConsole ------------------------------
(***************************************************************************)
(* A buffer of four characters, a screen five characters wide, the last of *)
(* which is cut by its edge, and four rows high, and at most nine keys:    *)
(* lines fill the buffer, wrap, are erased across the row's start, and the *)
(* rows run out.                                                           *)
(***************************************************************************)
EXTENDS Console
=============================================================================
