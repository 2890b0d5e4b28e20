--------------------------- MODULE MCProgramImage ---------------------------
(***************************************************************************)
(* Pages of 4 bytes, a stack of 2 pages and the program from page 8 on.    *)
(* ELF files of 4 pages and one byte with up to two PT_LOAD headers, which *)
(* begin on or within a page, cover up to two pages and a byte, carry bss  *)
(* or not, in either order and also overlapping, before the header for the *)
(* stack that the linker adds; plain files of 1 to 9 bytes.                *)
(***************************************************************************)
EXTENDS ProgramImage

Header(type, offset, vaddr, filesz, memsz, writable) ==
  [type |-> type, offset |-> offset, vaddr |-> vaddr, filesz |-> filesz,
   memsz |-> memsz, writable |-> writable]

\* A linker keeps offset and address congruent; page 0 holds the ELF header.
Segments ==
  {Header("LOAD", 4 + d, 32 + d, n - bss, n, w) :
     d \in {0, 1, 3, 4, 6, 8, 11}, n \in {1, 2, 4, 5, 7, 8, 9}, bss \in {0, 1}, w \in BOOLEAN}

GnuStack == Header("STACK", 0, 0, 0, 0, TRUE)

MCFiles ==
  {[valid |-> TRUE, size |-> 17, headers |-> hs] :
     hs \in {<<a>> : a \in Segments} \cup {<<a, b, GnuStack>> : a, b \in Segments}}
  \cup {[valid |-> FALSE, size |-> n, headers |-> <<>>] : n \in 1..9}
=============================================================================
