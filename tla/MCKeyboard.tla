---------------------------- MODULE MCKeyboard ----------------------------
(***************************************************************************)
(* A ring of three slots, up to five characters and seven reads, so that   *)
(* the buffer wraps, overflows and is read when empty.                     *)
(***************************************************************************)
EXTENDS Keyboard
=============================================================================
