------------------------------ MODULE MCKernel ------------------------------
(***************************************************************************)
(* Kernel with seven tasks, four process slots and one user step for each  *)
(* program: four programs can be alive at once and slots are used again.   *)
(***************************************************************************)
EXTENDS Kernel
=============================================================================
