------------------------------ MODULE MCPrintf ------------------------------
(***************************************************************************)
(* All formats of up to five characters out of a letter, the percent sign  *)
(* and the three conversions; ints of eight bits around every change of    *)
(* sign and length; a string that is printed in full and one that is cut.  *)
(***************************************************************************)
EXTENDS Printf

MCFormats == UNION {[1..n -> {97, 37, 100, 115, 99}] : n \in 0..5}
MCInts == {-128, -127, -100, -10, -9, -1, 0, 1, 9, 10, 99, 100, 127}
MCStrings == {<<>>, <<97, 37>>, <<97, 98, 99, 100, 101>>}
=============================================================================
