------------------------------- MODULE Kernel -------------------------------
(***************************************************************************)
(* Tasks, processes and the way in and out of the kernel: src/task/task.c, *)
(* src/task/process.c (process table), src/isr80h/process.c,               *)
(* src/interrupts/interrupts.c and kernel.c.  Interrupt gates keep         *)
(* interrupts off inside the kernel, so a handler runs to its end and is   *)
(* one action; between handlers the current task executes user code.  The  *)
(* timer has no routine, so it never changes the task.  A task and its     *)
(* process have the same number.                                           *)
(*                                                                         *)
(* Registers are abstracted to one number, how far the program has come.   *)
(***************************************************************************)
EXTENDS TaskList, FiniteSets, FiniteSetsExt

CONSTANTS MaxProcess,   \* ZHIOS_MAX_PROCESS (64 in the kernel)
          MaxSteps      \* bound: user steps of one program

ASSUME MaxProcessAssumption == MaxProcess \in Nat \ {0}
ASSUME MaxStepsAssumption == MaxSteps \in Nat

Slots == 0..(MaxProcess - 1)
KERNEL == 0             \* the kernel's page directory, in cr3
ENTRY == 0              \* registers.ip of a new task

VARIABLES
  tasks,             \* the task list (a record of TaskList)
  process_list,      \* slot -> process, or NULL
  current_process,   \* the process the keyboard talks to
  id,                \* process.id
  alive,             \* tasks whose process and page directory are not freed
  loads,             \* number of tasks created
  saved,             \* task.registers
  regs,              \* the processor's registers in user mode
  cr3,               \* whose page directory is loaded
  mode,              \* "boot", "user", "halted" (a while(1)) or "wild"
  progress,          \* ghost: how far each program has come
  zombied,           \* ghost: a stack allocation failed in load_process
  stale,             \* ghost: a task left whose prev field was stale
  peak               \* ghost: most tasks alive at once

procs == <<process_list, current_process, id, alive, loads>>
ghosts == <<zombied, stale, peak>>
vars == <<tasks, procs, saved, regs, cr3, mode, progress, ghosts>>

TypeOK ==
  /\ tasks \in List
  /\ process_list \in [Slots -> TaskPtr]
  /\ current_process \in TaskPtr
  /\ id \in [Tasks -> Slots]
  /\ alive \subseteq Tasks
  /\ loads \in 0..MaxTasks
  /\ saved \in [Tasks -> 0..MaxSteps]
  /\ regs \in 0..MaxSteps
  /\ cr3 \in TaskPtr
  /\ mode \in {"boot", "user", "halted", "wild"}
  /\ progress \in [Tasks -> 0..MaxSteps]
  /\ zombied \in BOOLEAN /\ stale \in BOOLEAN
  /\ peak \in 0..MaxTasks

Init ==
  /\ tasks = EmptyList
  /\ process_list = [s \in Slots |-> NULL]
  /\ current_process = NULL
  /\ id = [t \in Tasks |-> 0]
  /\ alive = {}
  /\ loads = 0
  /\ saved = [t \in Tasks |-> ENTRY]
  /\ regs = ENTRY
  /\ cr3 = KERNEL
  /\ mode = "boot"
  /\ progress = [t \in Tasks |-> ENTRY]
  /\ zombied = FALSE /\ stale = FALSE /\ peak = 0

-----------------------------------------------------------------------------
(* Loading a program.                                                      *)

FreeSlots == {s \in Slots : process_list[s] = NULL}

get_process_free_slot == Min(FreeSlots)

\* Mutant: only the first process becomes the current one.
SwitchOnce(p) ==
  current_process' = IF current_process = NULL THEN p ELSE current_process

process_switch(p) == current_process' = p

\* The task that load_process creates next.
NewTask == loads + 1

\* A Process and a Task come into being; list is the task list they leave.
Created(list) ==
  /\ FreeSlots # {}
  /\ loads < MaxTasks
  /\ loads' = NewTask
  /\ alive' = alive \cup {NewTask}
  /\ tasks' = list
  /\ peak' = Max({peak, Cardinality(alive) + 1})
  /\ UNCHANGED <<stale, progress>>

\* load_process succeeds, process_switch makes the new process current, and
\* its task is entered at its first instruction.
LoadAndRun ==
  /\ Created([create_task(tasks, NewTask) EXCEPT !.current = NewTask])
  /\ process_list' = [process_list EXCEPT ![get_process_free_slot] = NewTask]
  /\ id' = [id EXCEPT ![NewTask] = get_process_free_slot]
  /\ process_switch(NewTask)
  /\ cr3' = NewTask
  /\ regs' = saved[NewTask]
  /\ mode' = "user"
  /\ UNCHANGED zombied

\* The stack cannot be allocated: load_process returns -EMEM and forgets the
\* process, whose task stays in the task list with process id 0.
LoadWithoutStack ==
  /\ Created(create_task(tasks, NewTask))
  /\ zombied' = TRUE
  /\ UNCHANGED <<process_list, current_process, id, regs>>

\* kernel_main loads the shell and runs it, or prints and stops.
kernel_main ==
  /\ mode = "boot"
  /\ \/ LoadAndRun
     \/ LoadWithoutStack /\ mode' = "halted" /\ UNCHANGED cr3
     \/ /\ mode' = "halted"
        /\ UNCHANGED <<tasks, procs, regs, cr3, progress, ghosts>>
  /\ UNCHANGED saved

-----------------------------------------------------------------------------
(* User mode and the handlers.                                             *)

UserStep ==
  /\ mode = "user"
  /\ regs < MaxSteps
  /\ regs' = regs + 1
  /\ progress' = [progress EXCEPT ![tasks.current] = regs + 1]
  /\ UNCHANGED <<tasks, procs, saved, cr3, mode, ghosts>>

\* Mutant: the registers are not saved.
SaveNothing(t) == UNCHANGED saved

save_state(t) == saved' = [saved EXCEPT ![t] = regs]

\* Every handler that calls a registered routine saves the current task first.
task_save_current_state ==
  /\ mode = "user"
  /\ save_state(tasks.current)

\* Back to the interrupted program: current_task_page, then iret.
Return ==
  /\ cr3' = tasks.current
  /\ UNCHANGED <<regs, mode>>

\* A key, or a system call that leaves tasks alone.
isr_handler ==
  /\ task_save_current_state
  /\ Return
  /\ UNCHANGED <<tasks, procs, progress, ghosts>>

\* An interrupt without a routine, such as the timer's, saves nothing and
\* returns.
no_routine ==
  /\ mode = "user"
  /\ Return
  /\ UNCHANGED <<tasks, procs, saved, progress, ghosts>>

\* The gate of a division by zero is int0h, not isr_handler: it prints on the
\* program's own page directory and returns, and the program divides again.
divide_by_zero == mode = "user" /\ UNCHANGED vars

\* The start command: the new program runs, or the caller goes on because the
\* table is full, the file cannot be loaded, or memory ran out.
isr80h_load_process_command ==
  /\ task_save_current_state
  /\ \/ LoadAndRun
     \/ LoadWithoutStack /\ cr3' = tasks.current /\ UNCHANGED mode
     \/ Return /\ UNCHANGED <<tasks, procs, progress, ghosts>>

\* free_task and process_unlink, in that order.
AfterRemoval == remove_from_task_list(tasks, tasks.current)

\* Mutants: the slot is not cleared; slot 0 is cleared whatever the id.
SlotKept == process_list
SlotZeroCleared == [process_list EXCEPT ![0] = NULL]

AfterUnlink == [process_list EXCEPT ![id[tasks.current]] = NULL]

\* Mutant: the search for another process starts at slot 1.
OccupiedFromOne == {s \in Slots \ {0} : AfterUnlink[s] # NULL}

Occupied == {s \in Slots : AfterUnlink[s] # NULL}

\* The process in the lowest slot that is occupied.
process_switch_to_any == process_switch(AfterUnlink[Min(Occupied)])

\* A task whose predecessor is gone and that is not the head: its own prev
\* field names a removed task, and the real predecessor keeps naming it.
LeavesStale == /\ tasks.current # tasks.head
               /\ tasks.prev[tasks.current] \notin alive

\* process_free of the current task's process, whatever ends it.
process_free ==
  /\ alive' = alive \ {tasks.current}
  /\ process_list' = AfterUnlink
  /\ stale' = (stale \/ LeavesStale)
  /\ UNCHANGED <<id, loads, progress, zombied, peak>>

\* process_switch_to_any finds no process and spins.
ExitLast ==
  /\ task_save_current_state
  /\ current_process = tasks.current
  /\ Occupied = {}
  /\ process_free
  /\ tasks' = AfterRemoval
  /\ mode' = "halted"
  /\ cr3' = KERNEL
  /\ UNCHANGED <<current_process, regs>>

\* The exit command and handle_exceptions: process_free, then task_next.
\* current_task already moved on when the task was removed, and task_next
\* moves it once more.  ExitFindsTask shows that there is a task to move to.
ExitToNext ==
  /\ task_save_current_state
  /\ current_process = tasks.current => Occupied # {}
  /\ process_free
  /\ IF current_process = tasks.current
     THEN process_switch_to_any
     ELSE UNCHANGED current_process
  /\ AfterRemoval.current # NULL
  /\ LET resumed == get_next_task(AfterRemoval) IN
       /\ tasks' = [AfterRemoval EXCEPT !.current = resumed]
       /\ cr3' = resumed
       /\ regs' = saved[resumed]
       /\ mode' = IF resumed \in alive' THEN "user" ELSE "wild"

\* A while(1) with interrupts off, or a run on freed page tables.
Stopped == mode \in {"halted", "wild"} /\ UNCHANGED vars

Next == \/ kernel_main
        \/ UserStep
        \/ isr_handler
        \/ no_routine
        \/ divide_by_zero
        \/ isr80h_load_process_command
        \/ ExitLast
        \/ ExitToNext
        \/ Stopped

Spec == Init /\ [][Next]_vars

-----------------------------------------------------------------------------
(* Properties.                                                             *)

\* The program in user mode is one that has not ended, on its own page
\* directory, unless a task with a stale prev field has left the list
\* (task.c:94-112, 217-230).
RunsOnOwnPages ==
  mode # "boot" /\ ~stale =>
     /\ mode # "wild"
     /\ mode = "user" => tasks.current \in alive /\ cr3 = tasks.current

\* The task list holds exactly the tasks alive, in the order of their
\* creation, with the right ends.
Younger(t) == {u \in alive : u > t}
ListIsExact ==
  ~stale /\ alive # {} =>
     /\ tasks.head = Min(alive)
     /\ tasks.tail = Max(alive)
     /\ \A t \in alive :
          tasks.next[t] = IF Younger(t) = {} THEN NULL ELSE Min(Younger(t))

\* The keyboard never writes into a process that was freed, whatever else
\* went wrong (process.c:195-219, keyboard.c:45-59).
KeyboardTargetAlive ==
  /\ \A s \in Slots : process_list[s] # NULL => process_list[s] \in alive
  /\ mode = "user" => current_process \in alive

\* A live process has the slot its id says and no other, as long as no load
\* ran out of memory half-way (process.c:109-157, 212-219).
TableIsExact ==
  ~zombied => /\ \A t \in alive : process_list[id[t]] = t
              /\ \A s \in Slots : process_list[s] # NULL => id[process_list[s]] = s

\* A program that waits will go on exactly where it was interrupted, and the
\* running one does (task.c:147-161, task.asm:10-51).
ContextPreserved ==
  /\ \A t \in alive : t # tasks.current => saved[t] = progress[t]
  /\ mode = "user" => regs = progress[tasks.current]

\* With at most three programs nested, a program that ends gives control back
\* to the one that started it.  A fourth breaks this: task_next skips one.
StarterResumes ==
  mode = "user" /\ peak <= 3 /\ ~zombied => tasks.current = Max(alive)

\* With at most two, the program that reads keys is the one they are sent to:
\* keyboard_push uses current_process, keyboard_pop current_task.
KeysReachReader ==
  mode = "user" /\ peak <= 2 /\ ~zombied => current_process = tasks.current

\* An exit stops the machine only when the program that ends was the last
\* one; otherwise task_next has a task to go to, and its "No task to run" and
\* a read through a null current_task never happen (task.c:85-92, 217-226,
\* process.c:195-210).
ExitFindsTask ==
  mode = "user" =>
     \/ /\ current_process = tasks.current
        /\ Occupied = {}
        /\ ~zombied => alive = {tasks.current}
     \/ /\ current_process = tasks.current => Occupied # {}
        /\ AfterRemoval.current # NULL
        /\ get_next_task(AfterRemoval) # NULL
=============================================================================
