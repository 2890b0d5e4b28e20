------------------------------- MODULE Loader -------------------------------
(***************************************************************************)
(* What loading and ending a program does to the kernel's memory and file  *)
(* descriptors: load_process and process_free (src/task/process.c), the    *)
(* loaders (src/loaders), fopen and fclose (src/fs/file.c), fat16_open and *)
(* fat16_close.  Each function may fail on its own, so a load is a         *)
(* sequence of steps; programs end only between loads, because handlers    *)
(* are not interrupted.                                                    *)
(*                                                                         *)
(* Objects are counted by kind and by the load that allocated them.  The   *)
(* program's own allocations are the subject of ProcessMemory.             *)
(***************************************************************************)
EXTENDS Integers, FiniteSets

CONSTANTS MaxLoads,        \* bound: programs started
          MaxDescriptors   \* ZHIOS_MAX_FILE_DESCRIPTORS (256 in the kernel)

ASSUME MaxLoadsAssumption == MaxLoads \in Nat
ASSUME MaxDescriptorsAssumption == MaxDescriptors \in Nat \ {0}

Loads == 1..MaxLoads

\* What the file is: an ELF program, something else, nothing, or not there.
Files == {"elf", "raw", "empty", "missing"}

\* Allocated by fopen: the parsed path, the items of the directories on the
\* way, the Fat16Descriptor, the Fat16Item of the file, the FileDescriptor.
OpenKinds == {"path", "dirs", "handle", "item", "fd"}
Kinds == OpenKinds \cup {"process", "elf_file", "image", "data", "task",
                         "pages", "stack", "params", "arguments"}

VARIABLES
  pc,         \* the function that runs, "idle" between handlers, or "wild"
  loads,      \* number of loads begun; the last one is the current one
  file,       \* what the current load's file is
  status,     \* what became of each load
  live,       \* number of objects of each kind that a load has allocated
  open,       \* descriptors in use
  badFree,    \* history: an object was freed that was not allocated
  noStack     \* history: a load ended without a stack

vars == <<pc, loads, file, status, live, open, badFree, noStack>>

Init ==
  /\ pc = "idle"
  /\ loads = 0
  /\ file = "missing"
  /\ status = [p \in Loads |-> "none"]
  /\ live = [p \in Loads |-> [k \in Kinds |-> 0]]
  /\ open = 0
  /\ badFree = FALSE /\ noStack = FALSE

\* The objects of load p after those of new are allocated and old are freed.
Change(p, new, old) ==
  /\ live' = [live EXCEPT ![p] = [k \in Kinds |->
                @[k] + (IF k \in new THEN 1 ELSE 0)
                     - (IF k \in old /\ (@[k] > 0 \/ k \in new) THEN 1 ELSE 0)]]
  /\ badFree' = (badFree \/ \E k \in old \ new : live[p][k] = 0)

Become(s) == status' = [status EXCEPT ![loads] = s]

-----------------------------------------------------------------------------
(* Opening and closing.                                                    *)

\* Mutant: a closed descriptor keeps its slot.
CloseKeepsSlot == open' = open

\* What fclose frees: the Fat16Descriptor is not among it.
Closed == {"item", "fd"}
free_file_descriptor == open' = open - 1

\* fopen of a file that is there, once DescriptorsReturned is known.
fopen(new) ==
  /\ file # "missing"
  /\ open < MaxDescriptors
  /\ open' = open + 1
  /\ Change(loads, new \cup OpenKinds, {})

\* A missing file gets a descriptor without data, and fstat follows a null
\* pointer.
OpenMissing ==
  /\ pc = "elf_load"
  /\ file = "missing"
  /\ pc' = "wild"
  /\ UNCHANGED <<loads, file, status, live, open, badFree, noStack>>

-----------------------------------------------------------------------------
(* load_process.                                                           *)

load_process(f) ==
  /\ pc = "idle"
  /\ loads < MaxLoads
  /\ loads' = loads + 1
  /\ file' = f
  /\ status' = [status EXCEPT ![loads'] = "loading"]
  /\ Change(loads', {"process"}, {})
  /\ pc' = "elf_load"
  /\ UNCHANGED <<open, noStack>>

elf_load ==
  /\ pc = "elf_load"
  /\ fopen({"elf_file"})
  /\ pc' = "elf_read"
  /\ UNCHANGED <<loads, file, status, noStack>>

\* Mutant: the error path forgets the image.
ElfForgetsImage == {"elf_file"}

\* What elf_load frees when res < 0.
ElfCleanup == {"image", "elf_file"}

\* The image is read.  An ELF program is kept; of another file only the
\* first byte was looked at, and load_data tries it as a plain binary; an
\* empty file makes fread fail, and load_process frees the process.
elf_read ==
  /\ pc = "elf_read"
  /\ free_file_descriptor
  /\ \/ /\ file = "elf"
        /\ Change(loads, {"image"}, Closed)
        /\ pc' = "create"
        /\ UNCHANGED status
     \/ /\ file = "raw"
        /\ Change(loads, {"image"}, Closed \cup ElfCleanup)
        /\ pc' = "load_binary"
        /\ UNCHANGED status
     \/ /\ file = "empty"
        /\ Change(loads, {"image"}, Closed \cup ElfCleanup \cup {"process"})
        /\ pc' = "idle"
        /\ Become("failed")
  /\ UNCHANGED <<loads, file, noStack>>

\* The file is opened a second time.
load_binary ==
  /\ pc = "load_binary"
  /\ fopen({})
  /\ pc' = "binary_read"
  /\ UNCHANGED <<loads, file, status, noStack>>

\* The only allocation of a loader whose failure is handled.
binary_read ==
  /\ pc = "binary_read"
  /\ free_file_descriptor
  /\ \/ /\ Change(loads, {"data"}, Closed)
        /\ pc' = "create"
        /\ UNCHANGED status
     \/ /\ Change(loads, {}, Closed \cup {"process"})
        /\ pc' = "idle"
        /\ Become("failed")
  /\ UNCHANGED <<loads, file, noStack>>

\* create_task, the stack, the arguments if there are any.  Without memory
\* for the stack, load_process returns and leaves the task in the task list.
create ==
  /\ pc = "create"
  /\ \/ \E args \in {{}, {"params", "arguments"}} :
          /\ Change(loads, {"task", "pages", "stack"} \cup args, {})
          /\ Become("running")
          /\ UNCHANGED noStack
     \/ /\ Change(loads, {"task", "pages"}, {})
        /\ Become("zombie")
        /\ noStack' = TRUE
  /\ pc' = "idle"
  /\ UNCHANGED <<loads, file, open>>

\* Every other allocation is used without a look at the pointer.
OutOfMemory ==
  /\ pc \in {"elf_load", "elf_read", "load_binary", "create"}
  /\ pc' = "wild"
  /\ UNCHANGED <<loads, file, status, live, open, badFree, noStack>>

-----------------------------------------------------------------------------
(* process_free.                                                           *)

\* Mutant: the ELF case of the switch falls through to the binary one.
FreeFallsThrough(p) ==
  IF live[p]["data"] > 0 THEN {"data"} ELSE {"image", "elf_file", "data"}

\* loader_free_data with elf_close.
loader_free_data(p) ==
  IF live[p]["data"] > 0 THEN {"data"} ELSE {"image", "elf_file"}

\* The exit command or an exception.  The Task and the buffer of the
\* arguments are never freed; a process without a stack frees address 0.
process_free(p) ==
  /\ pc = "idle"
  /\ status[p] \in {"running", "zombie"}
  /\ Change(p, {}, loader_free_data(p) \cup {"pages", "stack", "process"}
                     \cup (IF live[p]["params"] > 0 THEN {"params"} ELSE {}))
  /\ status' = [status EXCEPT ![p] = "ended"]
  /\ UNCHANGED <<pc, loads, file, open, noStack>>

\* All programs have been started and have ended, or memory is corrupt.
Done == /\ \/ pc = "wild"
           \/ pc = "idle" /\ loads = MaxLoads
                 /\ \A p \in Loads : status[p] \in {"failed", "ended"}
        /\ UNCHANGED vars

Next == \/ \E f \in Files : load_process(f)
        \/ elf_load \/ OpenMissing \/ elf_read
        \/ load_binary \/ binary_read
        \/ create \/ OutOfMemory
        \/ \E p \in Loads : process_free(p)
        \/ Done

Spec == Init /\ [][Next]_vars

-----------------------------------------------------------------------------
(* Properties.                                                             *)

\* However a load goes, and although a plain binary is opened twice, it
\* leaves no descriptor in use.  So the table never fills up, load_binary
\* always finds a descriptor, and its fclose(0) does not happen
\* (elfloader.c:171-214, binary.c:7-39, file.c:60-80).
DescriptorsReturned ==
  pc # "wild" => open = IF pc \in {"elf_read", "binary_read"} THEN 1 ELSE 0

\* Nothing is freed that is not allocated, on any path, unless a program
\* without a stack ends (process.c:139-144, 221-233).
FreesAreSound == badFree => noStack

\* A load that failed or a program that has ended leaves behind the paths,
\* directory items and Fat16Descriptors of its opens, its Task and its
\* arguments' buffer, and nothing else: image, tables, stack and records are
\* back in the heap.
Leaks == {"path", "dirs", "handle", "task", "arguments"}
EndsClean ==
  \A p \in Loads : status[p] \in {"failed", "ended"} =>
     {k \in Kinds : live[p][k] > 0} \subseteq Leaks
=============================================================================
