-------------------------------- MODULE Boot --------------------------------
(***************************************************************************)
(* From the first instruction of the kernel to the shell: kernel_main      *)
(* (src/kernel.c) with init_gdt, fs_init, disk_search_and_init and         *)
(* fat16_resolve, init_interrupts, init_paging, register_system_commands,  *)
(* keyboard_init, init_terminal, the load of the shell and run_first_task. *)
(* The boot sector has switched interrupts off; they come on with the      *)
(* flags that restore_task gives the shell, and from then on the timer and *)
(* the keyboard may interrupt.                                             *)
(*                                                                         *)
(* The heap is new and of 25600 blocks, so small allocations succeed.      *)
(***************************************************************************)
EXTENDS Naturals, Sequences, FiniteSets

CONSTANTS Commands    \* the system calls of register_system_commands

\* What the disk may hold: a boot sector with FAT16's signature or another,
\* a shell or an empty file of its name or none.
Media == [signature : BOOLEAN, shell : {"there", "empty", "missing"}]

VARIABLES
  stage,     \* the call of kernel_main that is next; "user", "halted" or "wild"
  medium,    \* what is on the disk
  kernel,    \* the parts of the kernel that exist so far
  disk,      \* disk.fs and disk.fs_private, NULL or not
  private,   \* the Fat16Private: which of its parts have been filled in
  streams,   \* number of DiskStreams allocated
  pending,   \* interrupts that devices have asked for
  sti,       \* the processor's interrupt flag
  cause      \* history: what stopped the machine

bootVars == <<stage, medium, kernel, disk, private, streams, pending, sti, cause>>

Nothing == [gdt |-> FALSE, heap |-> FALSE, file_systems |-> FALSE, idt |-> FALSE,
            page |-> FALSE, routines |-> {}, commands |-> {}, terminal |-> FALSE,
            current_task |-> FALSE]

NoFileSystem == [fs |-> FALSE, fs_private |-> FALSE]

BootInit ==
  /\ stage = "init_gdt"
  /\ medium \in Media
  /\ kernel = Nothing
  /\ disk = NoFileSystem
  /\ private = {}
  /\ streams = 0
  /\ pending = {}
  /\ sti = FALSE
  /\ cause = "none"

\* One call of kernel_main that adds to the kernel.
Call(this, next, new) ==
  /\ stage = this
  /\ kernel' = new
  /\ stage' = next
  /\ UNCHANGED <<medium, disk, private, streams, pending, sti, cause>>

Stop(how, why) == stage' = how /\ cause' = why

-----------------------------------------------------------------------------
init_gdt == Call("init_gdt", "kheap_init", [kernel EXCEPT !.gdt = TRUE])

kheap_init == Call("kheap_init", "fs_init", [kernel EXCEPT !.heap = TRUE])

fs_init == Call("fs_init", "fat16_resolve", [kernel EXCEPT !.file_systems = TRUE])

\* disk_search_and_init asks the one file system there is.  fat16_resolve
\* opens the three streams of the private data and one for itself, and
\* enters itself in the disk before it has looked at the header.
fat16_resolve ==
  /\ stage = "fat16_resolve"
  /\ private' = {"streams"}
  /\ streams' = streams + 4
  /\ disk' = [fs |-> TRUE, fs_private |-> TRUE]
  /\ stage' = "verify_signature"
  /\ UNCHANGED <<medium, kernel, pending, sti, cause>>

\* Mutant: the error path leaves the private data in the disk.
ForgetsOnlyFs ==
  /\ private' = {}
  /\ streams' = streams - 1
  /\ disk' = [disk EXCEPT !.fs = FALSE]
  /\ stage' = "init_interrupts"
  /\ UNCHANGED <<medium, kernel, pending, sti, cause>>

\* The label out with res < 0: the private data are freed, their streams are
\* not, and fs_resolve returns 0.
resolve_fails ==
  /\ private' = {}
  /\ streams' = streams - 1
  /\ disk' = NoFileSystem
  /\ stage' = "init_interrupts"
  /\ UNCHANGED <<medium, kernel, pending, sti, cause>>

\* The header is read and its signature compared.
verify_signature ==
  /\ stage = "verify_signature"
  /\ \/ /\ medium.signature
        /\ private' = private \cup {"header"}
        /\ stage' = "init_root_directory"
        /\ UNCHANGED <<medium, kernel, disk, streams, pending, sti, cause>>
     \/ ~medium.signature /\ resolve_fails

\* The root directory is read and counted, with a stream that is closed
\* again; or there is no memory for as many entries as the header says.
init_root_directory ==
  /\ stage = "init_root_directory"
  /\ \/ /\ private' = private \cup {"root_directory"}
        /\ streams' = streams - 1
        /\ stage' = "init_interrupts"
        /\ UNCHANGED <<medium, kernel, disk, pending, sti, cause>>
     \/ resolve_fails

\* Mutant: interrupts are enabled as soon as there is something to find.
EnablesInterrupts ==
  /\ stage = "init_interrupts"
  /\ kernel' = [kernel EXCEPT !.idt = TRUE, !.routines = @ \cup {"exception"}]
  /\ sti' = TRUE
  /\ stage' = "init_paging"
  /\ UNCHANGED <<medium, disk, private, streams, pending, cause>>

\* All gates, and handle_exceptions for the first 32.
init_interrupts ==
  Call("init_interrupts", "init_paging",
       [kernel EXCEPT !.idt = TRUE, !.routines = @ \cup {"exception"}])

init_paging ==
  Call("init_paging", "register_system_commands", [kernel EXCEPT !.page = TRUE])

register_system_commands ==
  Call("register_system_commands", "keyboard_init", [kernel EXCEPT !.commands = Commands])

keyboard_init ==
  Call("keyboard_init", "init_terminal", [kernel EXCEPT !.routines = @ \cup {"keyboard"}])

init_terminal == Call("init_terminal", "load_shell", [kernel EXCEPT !.terminal = TRUE])

\* process_load_and_switch.  Without a file system fopen returns -EIO and
\* elf_load closes the descriptor of that number; of a file that is not
\* there fstat follows a null pointer.  create_task makes the shell's task
\* the current one.
load_shell ==
  /\ stage = "load_shell"
  /\ \/ /\ disk.fs /\ medium.shell = "there"
        /\ kernel' = [kernel EXCEPT !.current_task = TRUE]
        /\ stage' = "run_first_task"
        /\ UNCHANGED cause
     \/ disk.fs /\ medium.shell = "empty" /\ Stop("halted", "shell") /\ UNCHANGED kernel
     \/ disk.fs /\ medium.shell = "missing" /\ Stop("wild", "shell") /\ UNCHANGED kernel
     \/ ~disk.fs /\ Stop("wild", "disk") /\ UNCHANGED kernel
  /\ UNCHANGED <<medium, disk, private, streams, pending, sti>>

\* switch_task and restore_task: iretd into the user's segments with the
\* interrupt flag set.
run_first_task ==
  /\ stage = "run_first_task"
  /\ kernel.gdt /\ kernel.current_task
  /\ sti' = TRUE
  /\ stage' = "user"
  /\ UNCHANGED <<medium, kernel, disk, private, streams, pending, cause>>

-----------------------------------------------------------------------------
(* Interrupts.                                                             *)

\* A device asks.  The controller keeps the request, also through the boot.
Request(irq) ==
  /\ stage \notin {"halted", "wild"}
  /\ pending' = pending \cup {irq}
  /\ UNCHANGED <<stage, medium, kernel, disk, private, streams, sti, cause>>

\* isr_handler, as far as it depends on what exists: kernel_page follows
\* page, a routine needs a current task to save or it stops for good, and
\* current_task_page follows the current task.
HandlerEnds(irq) ==
  IF ~kernel.idt \/ ~kernel.page THEN "wild"
  ELSE IF kernel.current_task THEN stage
  ELSE IF irq \in kernel.routines THEN "halted"
  ELSE "wild"

isr_handler(irq) ==
  /\ sti
  /\ stage \notin {"halted", "wild"}
  /\ irq \in pending
  /\ pending' = pending \ {irq}
  /\ stage' = HandlerEnds(irq)
  /\ cause' = IF stage' = stage THEN cause ELSE "interrupt"
  /\ UNCHANGED <<medium, kernel, disk, private, streams, sti>>

Stopped == stage \in {"halted", "wild"} /\ UNCHANGED bootVars

BootNext ==
  \/ init_gdt \/ kheap_init \/ fs_init
  \/ fat16_resolve \/ verify_signature \/ init_root_directory
  \/ init_interrupts \/ init_paging \/ register_system_commands
  \/ keyboard_init \/ init_terminal \/ load_shell \/ run_first_task
  \/ \E irq \in {"timer", "keyboard"} : Request(irq) \/ isr_handler(irq)
  \/ Stopped

BootSpec == BootInit /\ [][BootNext]_bootVars

-----------------------------------------------------------------------------
(* Properties.                                                             *)

\* Although fat16_resolve enters itself in the disk first and looks at the
\* disk afterwards, the boot goes on with a disk that has a file system whose
\* header is verified, whose root directory is read and whose streams are
\* open, or with one that has neither file system nor private data
\* (fat16.c:219-300, file.c:82-94, disk.c:9-16).
FileSystemAllOrNothing ==
  stage \notin {"fat16_resolve", "verify_signature", "init_root_directory"} =>
    /\ disk.fs = disk.fs_private
    /\ disk.fs => private = {"streams", "header", "root_directory"}
    /\ ~disk.fs => private = {}

\* Whatever devices ask for during the boot, no interrupt is taken before
\* everything its handler relies on is there: isr_handler follows page and
\* current_task without a look, and the routines and system calls print and
\* read keys (kernel.c:24-57, interrupts.c:70-80, task.c:194-206, 74-83).
InterruptsFindKernelReady ==
  /\ cause # "interrupt"
  /\ sti => /\ kernel.gdt /\ kernel.heap /\ kernel.idt /\ kernel.page
            /\ kernel.terminal /\ kernel.current_task /\ disk.fs
            /\ kernel.commands = Commands
            /\ kernel.routines = {"exception", "keyboard"}
=============================================================================
