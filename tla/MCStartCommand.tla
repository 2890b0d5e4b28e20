--------------------------- MODULE MCStartCommand ---------------------------
(***************************************************************************)
(* Arrays of 9 characters and a path of 6 around the command, so that a    *)
(* command of 2 fits, one of 3 fills the array with its NUL outside, and   *)
(* lines of 9 and 10 are cut.  All lines up to 5 characters over two       *)
(* letters, the space and the slash; longer ones over a letter and the     *)
(* space.                                                                  *)
(***************************************************************************)
EXTENDS StartCommand

MCPrefix == <<48, 58, 47, 98, 47>>
MCSuffix == <<46>>
MCLines ==
  UNION {[1..n -> {97, 98, Space, Slash}] : n \in 0..5}
    \cup UNION {[1..n -> {97, Space}] : n \in 6..10}
=============================================================================
