------------------------------- MODULE MCBoot -------------------------------
(***************************************************************************)
(* Every disk, and requests of the timer and the keyboard at every point.  *)
(***************************************************************************)
EXTENDS Boot
=============================================================================
