------------------------------ MODULE MCLoader ------------------------------
(***************************************************************************)
(* Three loads over a descriptor table of one slot, so that a descriptor   *)
(* that is not given back is missed by the next open.                      *)
(***************************************************************************)
EXTENDS Loader
=============================================================================
