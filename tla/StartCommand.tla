---------------------------- MODULE StartCommand ----------------------------
(***************************************************************************)
(* What happens to a command line between the program that asks for a      *)
(* process to be started and the main of the program that is started:      *)
(* isr80h_load_process_command (src/isr80h/process.c) with                 *)
(* copy_string_from_task (src/task/task.c), the path the file layer parses *)
(* (src/fs/path.c), process_init_arguments and process_map_args_to_stack   *)
(* (src/task/process.c).                                                   *)
(*                                                                         *)
(* The handler's arrays are neighbours on the kernel's stack and the       *)
(* library never looks at a size, so they are one memory here.  Addresses  *)
(* are numbers, characters are ASCII codes.                                *)
(***************************************************************************)
EXTENDS CString, FiniteSets

CONSTANTS
  Lines,          \* the command lines the asking program passes
  MaxPath,        \* ZHIOS_MAX_PATH (100 in the kernel)
  MaxArguments,   \* ZHIOS_MAX_PROCESS_ARGUMENTS (100 in the kernel)
  Prefix,         \* "0:/bin/"
  Suffix,         \* ".elf"
  StackTop        \* ZHIOS_PROGRAM_VIRTUAL_STACK_ADDRESS_START

ASSUME StartAssumption ==
  /\ MaxPath \in Nat \ {0} /\ MaxArguments \in Nat \ {0}
  /\ MaxArguments >= MaxPath
  /\ Lines \subseteq Seq(Byte)
  /\ Prefix \in Seq(Byte) /\ Suffix \in Seq(Byte)
  /\ Len(Prefix) >= 3 /\ Prefix[1] = 48 /\ Prefix[2] = Colon
  /\ Len(Prefix) + Len(Suffix) <= MaxPath

\* Addresses are words, and a line with its pointers fits on the stack.
ASSUME StackAssumption ==
  StackTop \in Nat /\ StackTop < 2147483647 /\ StackTop > 5 * MaxPath + 20

\* The frame of the handler, in ascending addresses: copy, path, buffer and
\* the variable res, which is assigned only when the process is loaded.
copy == 0
path == MaxPath
buffer == 2 * MaxPath
res == 3 * MaxPath

Junk == 120   \* what memory holds that nothing has written

VARIABLES
  pc,          \* the function that runs next; "wild" once memory is corrupt
  line,        \* the line as the program typed it
  frame,       \* the handler's arrays
  tokens,      \* arguments[]: addresses in frame
  root,        \* the path that fopen parsed
  parameters,  \* ProcessParameters.command_arguments, as strings
  stack,       \* the new program's stack, by virtual address
  esp,         \* the new task's stack pointer
  fault        \* history: "memory" or "file" if the one or the other was not there

vars == <<pc, line, frame, tokens, root, parameters, stack, esp, fault>>

NoRoot == [drive_number |-> -1, nodes |-> 0, names |-> <<>>]

Init ==
  /\ pc = "copy"
  /\ line \in Lines
  /\ frame = [i \in copy..res |-> Junk]
  /\ tokens = <<>>
  /\ root = NoRoot
  /\ parameters = <<>>
  /\ stack = [i \in 0..(StackTop - 1) |-> 0]
  /\ esp = StackTop
  /\ fault = "none"

-----------------------------------------------------------------------------
(* isr80h_load_process_command.                                            *)

\* The program's memory behind its line is not its business.
UserMemory == Append(line, NUL) \o [i \in 1..MaxPath |-> Junk]

\* Through tmp, which is one heap block.  Whoever calls does not look at the
\* result: without memory for tmp, buffer is read as it was found.
copy_string_from_task ==
  /\ pc = "copy"
  /\ \/ LET tmp == strncpy(UserMemory, 1, [i \in 0..MaxPath |-> 0], 0, MaxPath)
        IN frame' = strncpy(tmp, 0, frame, buffer, MaxPath)
        /\ pc' = "split"
        /\ UNCHANGED fault
     \/ /\ fault' = "memory"
        /\ pc' = "wild"
        /\ UNCHANGED frame
  /\ UNCHANGED <<line, tokens, root, parameters, stack, esp>>

\* A copy of the line is split at spaces.  A line of MaxPath characters puts
\* its NUL into path[0]; more tokens than arguments[] holds overwrite copy.
split ==
  LET copied == strcpy(frame, StringAt(frame, buffer), copy)
      split_ == str_token(copied, copy, Space)
  IN /\ pc = "split"
     /\ frame' = split_.mem
     /\ tokens' = split_.tokens
     /\ pc' = IF Len(split_.tokens) > MaxArguments THEN "wild" ELSE "name"
     /\ UNCHANGED <<line, root, parameters, stack, esp, fault>>

\* The two strcat.  When the first word fills copy, its NUL is path[0], the
\* first byte strcat writes, and strcat then reads what it has just written
\* for ever.  A path that is too long runs on into buffer.
name ==
  LET prefixed == Put(frame, path, Prefix)
      first == StringAt(frame, tokens[1])
      joined == strcat(frame, Prefix, first, path)
  IN /\ pc = "name"
     /\ IF Terminated(prefixed, tokens[1], path)
        THEN /\ frame' = strcat(joined, StringAt(joined, path), Suffix, path)
             /\ pc' = "parse"
        ELSE /\ pc' = "wild"
             /\ UNCHANGED frame
     /\ UNCHANGED <<line, tokens, root, parameters, stack, esp, fault>>

-----------------------------------------------------------------------------
(* parse_path.                                                             *)

Filename == StringAt(frame, path)

path_is_valid_format(p) ==
  /\ Len(p) <= MaxPath /\ Len(p) >= 3
  /\ is_digit(p[1])
  /\ MemoryEqual(SubSeq(p, 2, 3), <<Colon, Slash>>)

\* The number of Path nodes that create_path allocates.
get_path_depth(p) == 1 + Cardinality({i \in 2..Len(p) : p[i] = Slash})

\* What the loop knows: the part it is in, or -1, its last character so far,
\* and the names of the parts before.
AtStart == [start |-> -1, end |-> -1, names |-> <<>>]

\* One turn, for the character at i or the terminator, with get_subpath.
NextCharacter(s, p, i) ==
  IF i <= Len(p) /\ p[i] # Slash
  THEN [s EXCEPT !.start = IF @ = -1 THEN i ELSE @, !.end = i]
  ELSE IF s.start # -1
       THEN [s EXCEPT !.names = Append(@, SubSeq(p, s.start, s.end)), !.start = -1]
       ELSE s

\* After[i] is what i turns have done.
Scan(p) ==
  LET After[i \in 0..(Len(p) + 1)] ==
        IF i = 0 THEN AtStart ELSE NextCharacter(After[i - 1], p, i)
  IN  After

\* Mutant: the loop stops at the terminator instead of behind it.
PathsWithoutLast(p) == Scan(p)[Len(p)].names

\* The loop over the characters and the terminator.
create_path(p) == Scan(p)[Len(p) + 1].names

\* The paths array is indexed without a bound, so one node too many is a
\* write behind it.  A path that parse_path refuses makes fopen read
\* private_descriptor_data and disk uninitialised, and elf_load close a
\* descriptor of negative number: a null pointer is followed.
parse_path ==
  LET p == Filename
      below == SubSeq(p, 3, Len(p))
  IN /\ pc = "parse"
     /\ \/ /\ path_is_valid_format(p)
           /\ root' = [drive_number |-> atoi(p[1]),
                       nodes |-> get_path_depth(below),
                       names |-> create_path(below)]
           /\ pc' = "load"
        \/ /\ ~path_is_valid_format(p)
           /\ pc' = "wild"
           /\ UNCHANGED root
     /\ UNCHANGED <<line, frame, tokens, parameters, stack, esp, fault>>

-----------------------------------------------------------------------------
(* The rest of load_process, of which module Loader has the detail.        *)

\* The file is loaded; or it cannot be and the handler returns 0; or it is
\* not there, or there is no memory, and a null pointer is followed.
load_data ==
  /\ pc = "load"
  /\ \/ pc' \in {"arguments", "return"} /\ UNCHANGED fault
     \/ pc' = "wild" /\ fault' \in {"file", "memory"}
  /\ UNCHANGED <<line, frame, tokens, root, parameters, stack, esp>>

\* buffer is split again, now in place, and every token is copied.
process_init_arguments ==
  LET split_ == str_token(frame, buffer, Space)
  IN /\ pc = "arguments"
     /\ frame' = split_.mem
     /\ parameters' = [i \in DOMAIN split_.tokens |-> StringAt(split_.mem, split_.tokens[i])]
     /\ pc' = "map"
     /\ UNCHANGED <<line, tokens, root, stack, esp, fault>>

WordSize == 4
Word(v) == <<v % 256, (v \div 256) % 256, (v \div 65536) % 256, (v \div 16777216) % 256>>
WordAt(m, a) == m[a] + 256 * m[a + 1] + 65536 * m[a + 2] + 16777216 * m[a + 3]

\* current_addr and arg_start after i arguments: each string lies below the
\* one before it.
Addresses(args) ==
  LET After[i \in 0..Len(args)] ==
        IF i = 0 THEN StackTop ELSE After[i - 1] - Len(args[i]) - 1
  IN  After

\* The first loop: After[i] is the stack with i arguments.
WithStrings(args) ==
  LET After[i \in 0..Len(args)] ==
        IF i = 0 THEN stack
        ELSE memcpy(After[i - 1], Append(args[i], NUL), Addresses(args)[i])
  IN  After

\* The second loop: args_ptr is at address a of the stack m.
WithPointers(m, a, args) ==
  LET After[i \in 0..Len(args)] ==
        IF i = 0 THEN m
        ELSE memcpy(After[i - 1], Word(Addresses(args)[i]), a + (i - 1) * WordSize)
  IN  After

\* Below the strings the array of their addresses with a 0 at its end, below
\* it argv and argc, where the stack pointer ends.
process_map_args_to_stack ==
  LET count == Len(parameters)
      strings == WithStrings(parameters)[count]
      virt_arguments == Addresses(parameters)[count] - (count + 1) * WordSize
      virt_argv == virt_arguments - WordSize
      virt_argc == virt_argv - WordSize
      counted == memcpy(memcpy(strings, Word(count), virt_argc), Word(virt_arguments), virt_argv)
      pointers == WithPointers(counted, virt_arguments, parameters)[count]
  IN /\ pc = "map"
     /\ stack' = memcpy(pointers, Word(0), virt_arguments + count * WordSize)
     /\ esp' = virt_argc
     /\ pc' = "main"
     /\ UNCHANGED <<line, frame, tokens, root, parameters, fault>>

-----------------------------------------------------------------------------
Done == pc \in {"main", "return", "wild"} /\ UNCHANGED vars

Next == \/ copy_string_from_task \/ split \/ name
        \/ parse_path \/ load_data
        \/ process_init_arguments \/ process_map_args_to_stack
        \/ Done

Spec == Init /\ [][Next]_vars

-----------------------------------------------------------------------------
(* Properties.                                                             *)

\* What is left of the line: copy_string_from_task takes MaxPath characters.
Taken == SubSeq(line, 1, IF Len(line) < MaxPath THEN Len(line) ELSE MaxPath)

\* The command is the line up to its first space.
Command == rstrip(Taken)

\* The path with its NUL fits into its array.
PathFits == Len(Prefix) + Len(Command) + Len(Suffix) < MaxPath

\* What main receives: argc, and argv as the strings it points to.
argc == WordAt(stack, esp)
argv == [i \in 1..argc |->
           StringAt(stack, WordAt(stack, WordAt(stack, esp + WordSize) + (i - 1) * WordSize))]

\* Words with a space between any two; After[k] has the first k.
Joined(words) ==
  LET After[k \in 0..Len(words)] ==
        IF k = 0 THEN <<>>
        ELSE IF k = 1 THEN words[1]
        ELSE After[k - 1] \o <<Space>> \o words[k]
  IN  After

\* A program that is started finds in argv the words of its line, in order
\* and with the empty words that double spaces make: joined by spaces they
\* are the line again, and a null pointer ends them.  It takes both splits,
\* the copies between overlapping arrays and the layout of the stack
\* (isr80h/process.c:8-19, process.c:63-107).
ArgvMatches ==
  pc = "main" /\ PathFits =>
    /\ argc >= 1 /\ Joined(argv)[argc] = Taken
    /\ \A i \in 1..argc : \A k \in DOMAIN argv[i] : argv[i][k] # Space
    /\ WordAt(stack, WordAt(stack, esp + WordSize) + argc * WordSize) = 0

\* The nonempty parts of a path between slashes: where they begin, which of
\* them begins at i, and how far it goes.
Starts(p) == {i \in DOMAIN p : p[i] # Slash /\ (i = 1 \/ p[i - 1] = Slash)}
Rank(p, i) == Cardinality({j \in Starts(p) : j <= i})
Part(p, i) == SubSeq(p, i, CHOOSE j \in i..Len(p) :
                             /\ \A k \in i..j : p[k] # Slash
                             /\ j = Len(p) \/ p[j + 1] = Slash)
Parts(p) ==
  [k \in 1..Cardinality(Starts(p)) |-> Part(p, CHOOSE i \in Starts(p) : Rank(p, i) = k)]

\* The path that is looked up is the command in the directory of the
\* programs: drive 0, the nonempty parts between slashes and nothing else,
\* and never more of them than nodes were allocated for
\* (path.c:9-13, 28-95, isr80h/process.c:17-18).
ParsesPath ==
  root # NoRoot =>
    /\ root.drive_number = 0
    /\ root.names = Parts(SubSeq(Prefix \o Command \o Suffix, 3,
                                 Len(Prefix) + Len(Command) + Len(Suffix)))
    /\ Len(root.names) <= root.nodes

\* As many spaces as the handler takes characters, and so no command: the
\* only line with more words than arguments[] holds.
OnlySpaces == Taken = [i \in 1..MaxPath |-> Space]

\* A line whose command is short enough for its path never makes the handler
\* lose control, however long the line, unless it is OnlySpaces or the file
\* or memory is not there: the bytes written behind buffer, copy and path are
\* not in use at that time, the words fit in arguments[] and the path is not
\* refused (string.c:40-47, isr80h/process.c:8-28, path.c:9-13).
ShortCommandsAreSafe == pc = "wild" /\ PathFits /\ ~OnlySpaces => fault # "none"
=============================================================================
