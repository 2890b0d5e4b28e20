---------------------------- MODULE ProgramImage ----------------------------
(***************************************************************************)
(* How a program's file and its stack get into its address space:          *)
(* elf_process_loaded (src/loaders/formats/elfloader.c), loader_map_memory *)
(* (src/loaders/loader.c), process_map_memory (src/task/process.c), the    *)
(* page directory (src/memory/paging/paging.c).                            *)
(*                                                                         *)
(* Addresses are byte numbers, physical and virtual alike.  A directory    *)
(* gives every virtual page a physical page and says whether the program   *)
(* may write it; it may read every page.  Nothing is copied: the pages of  *)
(* the file's buffer become the pages of the program.                      *)
(***************************************************************************)
EXTENDS Integers, FiniteSets, Sequences, SequencesExt

CONSTANTS
  Files,           \* what load_data may have read
  PageSize,        \* PAGING_PAGE_SIZE (4096 in the kernel)
  ProgramAddress,  \* ZHIOS_PROGRAM_VIRTUAL_ADDRESS
  StackSize,       \* ZHIOS_PROGRAM_STACK_SIZE, whole pages
  ImageAddress,    \* where kzalloc put the file's bytes
  StackMemory,     \* where kzalloc put the stack
  LastPage         \* bound: the number of the last page

ASSUME ImageAssumption ==
  /\ PageSize \in Nat \ {0}
  /\ \A a \in {ProgramAddress, StackSize, ImageAddress, StackMemory} :
        a \in Nat /\ a % PageSize = 0
  /\ LastPage \in Nat

\* There is room for the stack below the program.
ASSUME StackAssumption == StackSize + PageSize <= ProgramAddress

\* Mutant: the stack ends where the program begins.
StackBelowProgram == ProgramAddress

\* ZHIOS_PROGRAM_VIRTUAL_STACK_ADDRESS_START and _END.
StackTop == ProgramAddress - PageSize
StackEnd == StackTop - StackSize

Pages == 0..LastPage

VARIABLES
  pc,          \* the function that runs next
  file,        \* a buffer of file.size bytes; the program headers of an ELF file
  range,       \* ElfFile: the virtual addresses of the PT_LOAD headers
  next,        \* the header that process_map_memory_to_elf looks at
  directory    \* the page directory of the new task

vars == <<pc, file, range, next, directory>>

NewDirectory == [v \in Pages |-> [page |-> v, writable |-> FALSE]]

Init ==
  /\ pc = "loaded"
  /\ file \in Files
  /\ range = [base |-> 0, end |-> 0]
  /\ next = 1
  /\ directory = NewDirectory

-----------------------------------------------------------------------------
(* paging.c.                                                               *)

\* Rounds up, and an address that is already aligned goes to the next page.
align_to_paging_address(a) == a + (PageSize - (a % PageSize))

algin_to_lower_page(a) == a - (a % PageSize)

\* The virtual addresses are aligned here, so map_page never fails.
map_page_range(dir, virtual, physical, size, writable) ==
  LET count == (align_to_paging_address(physical + size) - physical) \div PageSize
      first == virtual \div PageSize
  IN [v \in Pages |->
        IF v \in first..(first + count - 1)
        THEN [page |-> physical \div PageSize + (v - first), writable |-> writable]
        ELSE dir[v]]

paging_get_physical_address(dir, virtual) ==
  dir[virtual \div PageSize].page * PageSize + (virtual % PageSize)

-----------------------------------------------------------------------------
(* Loading.                                                                *)

\* elf_process_pt_load: the lowest address and the end of the file's bytes.
elf_process_pt_load(r, h) ==
  [base |-> IF r.base >= h.vaddr \/ r.base = 0 THEN h.vaddr ELSE r.base,
   end |-> IF r.end <= h.vaddr + h.filesz \/ r.end = 0 THEN h.vaddr + h.filesz ELSE r.end]

\* elf_validate_load has only looked at the first byte of the signature, and
\* at class, encoding, type and entry point: file.valid is its answer.
elf_process_loaded ==
  /\ pc = "loaded"
  /\ IF file.valid
     THEN /\ range' = FoldLeft(elf_process_pt_load, range,
                               SelectSeq(file.headers, LAMBDA h : h.type = "LOAD"))
          /\ pc' = "elf"
     ELSE /\ pc' = "binary"
          /\ UNCHANGED range
  /\ UNCHANGED <<file, next, directory>>

\* Mutant: every segment is mapped with the flags of the stack.
ElfAllWritable ==
  /\ pc = "elf"
  /\ next <= Len(file.headers)
  /\ LET h == file.headers[next] IN
       directory' = map_page_range(directory, algin_to_lower_page(h.vaddr),
                      algin_to_lower_page(ImageAddress + h.offset), h.memsz, TRUE)
  /\ next' = next + 1
  /\ UNCHANGED <<pc, file, range>>

\* One header of the loop, of whatever type it is.
process_map_memory_to_elf ==
  /\ pc = "elf"
  /\ next <= Len(file.headers)
  /\ LET h == file.headers[next] IN
       directory' = map_page_range(directory, algin_to_lower_page(h.vaddr),
                      algin_to_lower_page(ImageAddress + h.offset), h.memsz, h.writable)
  /\ next' = next + 1
  /\ UNCHANGED <<pc, file, range>>

process_map_memory_to_binary ==
  /\ pc = "binary"
  /\ directory' = map_page_range(directory, ProgramAddress, ImageAddress, file.size, TRUE)
  /\ pc' = "stack"
  /\ UNCHANGED <<file, range, next>>

loader_map_memory_ends ==
  /\ pc = "elf"
  /\ next > Len(file.headers)
  /\ pc' = "stack"
  /\ UNCHANGED <<file, range, next, directory>>

\* The second half of process_map_memory.
process_map_memory ==
  /\ pc = "stack"
  /\ directory' = map_page_range(directory, StackEnd, StackMemory, StackSize, TRUE)
  /\ pc' = "main"
  /\ UNCHANGED <<file, range, next>>

Done == pc = "main" /\ UNCHANGED vars

Next == \/ elf_process_loaded
        \/ process_map_memory_to_elf \/ process_map_memory_to_binary
        \/ loader_map_memory_ends
        \/ process_map_memory
        \/ Done

Spec == Init /\ [][Next]_vars

-----------------------------------------------------------------------------
(* What the linker makes of a program (programs/*/linker.ld): segments lie *)
(* from ProgramAddress on, at addresses congruent to their offsets, and    *)
(* other headers, like the empty one for the stack, describe no memory     *)
(* there.  The rest of the layout is WellLaidOut below.                    *)

Headers == [type : STRING, offset : Nat, vaddr : Nat, filesz : Nat, memsz : Nat,
            writable : BOOLEAN]

SpaceEnd == (LastPage + 1) * PageSize

LinkedAt(h) ==
  /\ h.type = "LOAD" => /\ h.vaddr >= ProgramAddress
                        /\ h.vaddr + h.memsz <= SpaceEnd
                        /\ h.vaddr % PageSize = h.offset % PageSize
  /\ h.type # "LOAD" => h.vaddr + h.memsz + PageSize <= ProgramAddress

ASSUME FilesAssumption ==
  \A f \in Files : /\ f.valid \in BOOLEAN
                   /\ f.size \in Nat /\ ProgramAddress + f.size <= SpaceEnd
                   /\ f.headers \in Seq(Headers)
                   /\ \A i \in DOMAIN f.headers : LinkedAt(f.headers[i])

-----------------------------------------------------------------------------
(* Properties.                                                             *)

PagesOf(a, bytes) == {b \div PageSize : b \in a..(a + bytes - 1)}

Loaded == {i \in DOMAIN file.headers : file.headers[i].type = "LOAD"}

\* The linker has put the segments in ascending order and on pages of their
\* own, and no segment ends on a page that its length alone does not reach.
WellLaidOut ==
  /\ \A i, j \in Loaded : i < j =>
       LET h == file.headers[i]  k == file.headers[j]
       IN algin_to_lower_page(h.vaddr + h.memsz - 1) < algin_to_lower_page(k.vaddr)
  /\ \A i \in Loaded :
       (file.headers[i].vaddr % PageSize) + (file.headers[i].memsz % PageSize) <= PageSize

\* When a program starts, every address of its segments leads to the byte of
\* the file's buffer that belongs there and may be written if and only if
\* the segment may; every address of the stack leads to the stack.  The
\* surplus pages that map_page_range enters are entered again by whoever
\* they belong to, in the order of the calls.  Nobody clears bss: the byte
\* that belongs to one of its addresses is the next one of the file or, after
\* its end, of the heap (loader.c:28-49, paging.c:91-107, process.c:28-39).
ImageAndStackMapped ==
  pc = "main" =>
    /\ file.valid /\ WellLaidOut => \A i \in Loaded :
         LET h == file.headers[i] IN
         \A b \in 0..(h.memsz - 1) :
           /\ paging_get_physical_address(directory, h.vaddr + b) = ImageAddress + h.offset + b
           /\ directory[(h.vaddr + b) \div PageSize].writable = h.writable
    /\ ~file.valid => \A b \in 0..(file.size - 1) :
         paging_get_physical_address(directory, ProgramAddress + b) = ImageAddress + b
    /\ \A b \in 0..(StackSize - 1) :
         /\ paging_get_physical_address(directory, StackEnd + b) = StackMemory + b
         /\ directory[(StackEnd + b) \div PageSize].writable

\* A header that may be written reaches behind the file's last page: bss that
\* the file does not have, or a length of whole pages at its end.
OverhangsFile ==
  \/ file.valid /\ \E i \in DOMAIN file.headers :
       LET h == file.headers[i] IN
       h.writable /\ algin_to_lower_page(h.offset) + (h.memsz \div PageSize + 1) * PageSize
                       > algin_to_lower_page(file.size - 1) + PageSize
  \/ ~file.valid /\ file.size % PageSize = 0

\* What a new program may write are pages of its own file and of its own
\* stack, and the one page of the heap behind the stack, which the length of
\* whole pages costs; other pages only if a segment overhangs its file
\* (paging.c:93, 128-132, process.c:37-38).
WritesConfined ==
  pc = "main" => \A v \in Pages :
    directory[v].writable =>
      \/ directory[v].page \in PagesOf(ImageAddress, file.size)
      \/ directory[v].page \in PagesOf(StackMemory, StackSize + 1)
      \/ OverhangsFile
=============================================================================
