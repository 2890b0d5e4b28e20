------------------------------ MODULE TaskList ------------------------------
(***************************************************************************)
(* The doubly linked list of tasks of src/task/task.c, as functions from   *)
(* one state of the list to the next.  A list is a record of the three     *)
(* static pointers head_task, tail_task and current_task and the next and  *)
(* prev fields of every Task.  Task structures are never given back to the *)
(* heap, so a task has one number for ever, and the fields of a task that  *)
(* was removed can still be read and written through stale pointers.       *)
(***************************************************************************)
EXTENDS Integers

CONSTANT MaxTasks    \* bound: number of tasks created since boot

ASSUME MaxTasksAssumption == MaxTasks \in Nat \ {0}

Tasks == 1..MaxTasks
NULL == 0
TaskPtr == Tasks \cup {NULL}

List == [head: TaskPtr, tail: TaskPtr, current: TaskPtr,
         next: [Tasks -> TaskPtr], prev: [Tasks -> TaskPtr]]

EmptyList == [head |-> NULL, tail |-> NULL, current |-> NULL,
              next |-> [t \in Tasks |-> NULL], prev |-> [t \in Tasks |-> NULL]]

\* The first task becomes the current one; a later one joins the tail.
create_task(L, t) ==
  IF L.head = NULL
  THEN [L EXCEPT !.head = t, !.tail = t, !.current = t]
  ELSE [L EXCEPT !.next[L.tail] = t, !.prev[t] = L.tail, !.tail = t]

\* Mutant: the scheduler always goes back to the head.
NextIsHead(L) == L.head

\* The successor of the current task; the head after the last one.
get_next_task(L) ==
  IF L.next[L.current] = NULL THEN L.head ELSE L.next[L.current]

\* Mutants: the predecessor keeps its link; tail_task keeps the removed task.
UnlinkedKeepsNext(L, t) ==
  [L EXCEPT !.head = IF @ = t THEN L.next[t] ELSE @,
            !.tail = IF @ = t THEN L.prev[t] ELSE @]
UnlinkedKeepsTail(L, t) ==
  [L EXCEPT
     !.next = IF L.prev[t] = NULL THEN @ ELSE [@ EXCEPT ![L.prev[t]] = L.next[t]],
     !.head = IF @ = t THEN L.next[t] ELSE @]

\* The predecessor, the head, the tail and current_task are corrected.  The
\* prev field of the successor is not: it keeps naming the removed task.
Unlinked(L, t) ==
  [L EXCEPT
     !.next = IF L.prev[t] = NULL THEN @ ELSE [@ EXCEPT ![L.prev[t]] = L.next[t]],
     !.head = IF @ = t THEN L.next[t] ELSE @,
     !.tail = IF @ = t THEN L.prev[t] ELSE @]

remove_from_task_list(L, t) ==
  IF L.current = t
  THEN [Unlinked(L, t) EXCEPT !.current = get_next_task(Unlinked(L, t))]
  ELSE Unlinked(L, t)
=============================================================================
