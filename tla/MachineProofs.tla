--------------------------- MODULE MachineProofs ---------------------------
(***************************************************************************)
(* Proofs about three parts of the machine that share no state: the boot,  *)
(* for every set of system calls and every disk; the keyboard buffer, for  *)
(* every size of the buffer and any number of keys; what loads allocate    *)
(* and free, for any number of loads and of descriptors and for every      *)
(* order of the files' kinds and of failures.                              *)
(***************************************************************************)
EXTENDS Boot, Loader, Keyboard, SequenceTheorems, TLAPS

-----------------------------------------------------------------------------
(* THE BOOT.                                                               *)

-----------------------------------------------------------------------------
(* The inductive invariant: what exists before each call of kernel_main.   *)
(* Neither property is inductive by itself: that interrupts find all they  *)
(* need follows from how far kernel_main has come, and the state of the    *)
(* disk between fat16_resolve and its end says what the end will leave.    *)

BeforeHeap     == {"init_gdt", "kheap_init"}
BeforeDisk     == BeforeHeap \cup {"fs_init", "fat16_resolve"}
Resolving      == {"verify_signature", "init_root_directory"}
BeforeIdt      == BeforeDisk \cup Resolving \cup {"init_interrupts"}
BeforePaging   == BeforeIdt \cup {"init_paging"}
BeforeCommands == BeforePaging \cup {"register_system_commands"}
BeforeKeyboard == BeforeCommands \cup {"keyboard_init"}
BeforeTerminal == BeforeKeyboard \cup {"init_terminal"}
BeforeShell    == BeforeTerminal \cup {"load_shell"}
Ends           == {"halted", "wild"}

BootType ==
  /\ stage \in BeforeShell \cup {"run_first_task", "user"} \cup Ends
  /\ medium \in Media
  /\ kernel \in [gdt : BOOLEAN, heap : BOOLEAN, file_systems : BOOLEAN, idt : BOOLEAN,
                 page : BOOLEAN, routines : SUBSET {"exception", "keyboard"},
                 commands : SUBSET Commands, terminal : BOOLEAN,
                 current_task : BOOLEAN]
  /\ disk \in [fs : BOOLEAN, fs_private : BOOLEAN]
  /\ private \subseteq {"streams", "header", "root_directory"}
  /\ sti \in BOOLEAN

\* How far kernel_main has come says what there is.
KernelSoFar ==
  stage \notin Ends =>
    /\ stage \notin {"init_gdt"} => kernel.gdt
    /\ stage \notin BeforeHeap => kernel.heap
    /\ stage \notin BeforeIdt => kernel.idt
    /\ stage \notin BeforePaging => kernel.page
    /\ kernel.commands = IF stage \in BeforeCommands THEN {} ELSE Commands
    /\ kernel.routines = (IF stage \in BeforeIdt THEN {} ELSE {"exception"})
                           \cup (IF stage \in BeforeKeyboard THEN {} ELSE {"keyboard"})
    /\ stage \notin BeforeTerminal => kernel.terminal
    /\ stage \notin BeforeShell => kernel.current_task
    /\ stage \notin BeforeShell => disk.fs

\* What fat16_resolve has filled in when it looks at the header and at the
\* root directory.
DiskSoFar ==
  /\ stage \in BeforeDisk => disk = NoFileSystem /\ private = {}
  /\ stage \in Resolving => disk.fs /\ disk.fs_private
  /\ stage = "verify_signature" => private = {"streams"}
  /\ stage = "init_root_directory" => private = {"streams", "header"}

\* Interrupts are on in user mode only.
InterruptsOff == (sti => stage = "user") /\ cause # "interrupt"

BootInv == BootType /\ KernelSoFar /\ DiskSoFar /\ InterruptsOff /\ FileSystemAllOrNothing

\* Before kernel_main nothing is set up and no interrupt can come.
LEMMA BootInitially == BootInit => BootInv
<1>. SUFFICES ASSUME BootInit PROVE BootInv
  OBVIOUS
<1>. USE DEF BootInit, BeforeShell, BeforeTerminal, BeforeKeyboard, BeforeCommands,
             BeforePaging, BeforeIdt, BeforeDisk, BeforeHeap, Resolving, Ends
<1>1. BootType
  BY DEF BootType, Nothing, NoFileSystem
<1>2. KernelSoFar
  BY DEF KernelSoFar, Nothing
<1>3. DiskSoFar
  BY DEF DiskSoFar
<1>4. InterruptsOff
  BY DEF InterruptsOff
<1>5. FileSystemAllOrNothing
  BY DEF FileSystemAllOrNothing, NoFileSystem
<1>. QED
  BY <1>1, <1>2, <1>3, <1>4, <1>5 DEF BootInv

\* The error path of fat16_resolve leaves neither file system nor private
\* data, at whichever of its calls it begins.
LEMMA ResolveFails ==
  ASSUME BootInv, stage \in Resolving, resolve_fails
  PROVE  BootInv'
<1>1. /\ stage' = "init_interrupts" /\ disk' = NoFileSystem /\ private' = {}
      /\ UNCHANGED <<medium, kernel, sti, cause>>
  BY DEF resolve_fails
<1>. QED
  BY <1>1 DEF BootInv, BootType, KernelSoFar, DiskSoFar, InterruptsOff,
              FileSystemAllOrNothing, NoFileSystem, BeforeShell, BeforeTerminal,
              BeforeKeyboard, BeforeCommands, BeforePaging, BeforeIdt, BeforeDisk,
              BeforeHeap, Resolving, Ends

\* Every call, every request of a device and every interrupt keeps it.
LEMMA BootStep == ASSUME BootInv, [BootNext]_bootVars PROVE BootInv'
<1>. USE DEF BootInv, BootType, KernelSoFar, DiskSoFar, InterruptsOff,
             FileSystemAllOrNothing, BeforeShell, BeforeTerminal, BeforeKeyboard, BeforeCommands,
             BeforePaging, BeforeIdt, BeforeDisk, BeforeHeap, Resolving, Ends
<1>1. CASE init_gdt
  BY <1>1 DEF init_gdt, Call
<1>2. CASE kheap_init
  BY <1>2 DEF kheap_init, Call
<1>3. CASE fs_init
  BY <1>3 DEF fs_init, Call
<1>4. CASE fat16_resolve
  BY <1>4 DEF fat16_resolve
<1>5. CASE verify_signature
  <2>1. CASE medium.signature
    <3>1. /\ private' = {"streams", "header"}
          /\ stage = "verify_signature" /\ stage' = "init_root_directory"
          /\ UNCHANGED <<medium, kernel, disk, sti, cause>>
      BY <1>5, <2>1 DEF verify_signature, Media
    <3>. QED
      BY <3>1
  <2>2. CASE resolve_fails
    BY <1>5, <2>2, ResolveFails DEF verify_signature
  <2>. QED
    BY <1>5, <2>1, <2>2 DEF verify_signature
<1>6. CASE init_root_directory
  <2>1. CASE resolve_fails
    BY <1>6, <2>1, ResolveFails DEF init_root_directory
  <2>2. CASE ~resolve_fails
    <3>1. /\ private' = {"streams", "header", "root_directory"}
          /\ stage = "init_root_directory" /\ stage' = "init_interrupts"
          /\ UNCHANGED <<medium, kernel, disk, sti, cause>>
      BY <1>6, <2>2 DEF init_root_directory
    <3>. QED
      BY <3>1
  <2>. QED
    BY <2>1, <2>2
<1>7. CASE init_interrupts
  BY <1>7 DEF init_interrupts, Call
<1>8. CASE init_paging
  BY <1>8 DEF init_paging, Call
<1>9. CASE register_system_commands
  BY <1>9 DEF register_system_commands, Call
<1>10. CASE keyboard_init
  BY <1>10 DEF keyboard_init, Call
<1>11. CASE init_terminal
  BY <1>11 DEF init_terminal, Call
<1>12. CASE load_shell
  <2>1. /\ stage = "load_shell" /\ cause' # "interrupt"
        /\ UNCHANGED <<medium, disk, private, sti>>
        /\ \/ /\ disk.fs /\ stage' = "run_first_task"
              /\ kernel' = [kernel EXCEPT !.current_task = TRUE]
           \/ stage' \in Ends /\ UNCHANGED kernel
    BY <1>12 DEF load_shell, Stop
  <2>2. CASE stage' \in Ends /\ UNCHANGED kernel
    BY <2>1, <2>2
  <2>3. CASE disk.fs /\ stage' = "run_first_task" /\ kernel' = [kernel EXCEPT !.current_task = TRUE]
    BY <2>1, <2>3
  <2>. QED
    BY <2>1, <2>2, <2>3
<1>13. CASE run_first_task
  BY <1>13 DEF run_first_task
<1>14. ASSUME NEW irq \in {"timer", "keyboard"}, Request(irq) PROVE BootInv'
  BY <1>14 DEF Request
<1>15. ASSUME NEW irq \in {"timer", "keyboard"}, isr_handler(irq) PROVE BootInv'
  <2>1. sti /\ stage = "user"
    BY <1>15 DEF isr_handler
  <2>2. kernel.idt /\ kernel.page /\ kernel.current_task
    BY <2>1
  <2>3. stage' = stage
    BY <1>15, <2>2 DEF isr_handler, HandlerEnds
  <2>4. UNCHANGED <<stage, medium, kernel, disk, private, sti, cause>>
    BY <1>15, <2>3 DEF isr_handler
  <2>. QED
    BY <2>4
<1>16. CASE Stopped \/ UNCHANGED bootVars
  <2>1. UNCHANGED <<stage, medium, kernel, disk, private, sti, cause>>
    BY <1>16 DEF Stopped, bootVars
  <2>. QED
    BY <2>1
<1>. QED
  BY <1>1, <1>2, <1>3, <1>4, <1>5, <1>6, <1>7, <1>8, <1>9,
     <1>10, <1>11, <1>12, <1>13, <1>14, <1>15, <1>16 DEF BootNext

-----------------------------------------------------------------------------
(* The theorems.                                                           *)

\* What each call of kernel_main can rely on, at every moment of the boot.
THEOREM BootInvariant == BootSpec => []BootInv
<1>1. BootInit => BootInv
  BY BootInitially
<1>2. BootInv /\ [BootNext]_bootVars => BootInv'
  BY BootStep
<1>. QED
  BY <1>1, <1>2, PTL DEF BootSpec

\* The boot goes on with a whole file system or with none, for every disk and
\* wherever fat16_resolve fails (fat16.c:219-300).
THEOREM BootFileSystem == BootSpec => []FileSystemAllOrNothing
<1>1. BootInv => FileSystemAllOrNothing
  BY DEF BootInv
<1>. QED
  BY <1>1, BootInvariant, PTL

\* No interrupt is taken before all that its handler relies on exists
\* (kernel.c:24-57, interrupts.c:70-80).
THEOREM BootInterrupts == BootSpec => []InterruptsFindKernelReady
<1>1. BootInv => InterruptsFindKernelReady
  BY DEF BootInv, BootType, KernelSoFar, InterruptsOff, InterruptsFindKernelReady,
         BeforeShell, BeforeTerminal, BeforeKeyboard, BeforeCommands, BeforePaging,
         BeforeIdt, BeforeDisk, BeforeHeap, Resolving, Ends
<1>. QED
  BY <1>1, BootInvariant, PTL

-----------------------------------------------------------------------------
(* THE KEYBOARD.                                                           *)

-----------------------------------------------------------------------------
(* Indices.                                                                *)

\* An index modulo the size names a slot.
LEMMA SlotOfIndex == ASSUME NEW k \in Nat PROVE k % Size \in Slots
BY SizeAssumption DEF Slots

\* The modulo leaves an index of the buffer alone.
LEMMA SmallIndex == ASSUME NEW k \in Slots PROVE k % Size = k
BY SizeAssumption DEF Slots

\* Two indices less than one buffer apart name different slots.
LEMMA SlotsDiffer ==
  ASSUME NEW j \in Nat, NEW k \in Nat, j < k, k - j < Size
  PROVE  j % Size # k % Size
<1>. DEFINE N == Size  p == j \div N  q == k \div N
<1>1. /\ N \in Nat /\ N > 0 /\ p \in Int /\ q \in Int
      /\ j = N * p + (j % N) /\ k = N * q + (k % N)
  BY SizeAssumption
<1>. SUFFICES ASSUME j % N = k % N PROVE FALSE
  OBVIOUS
<1>2. k - j = N * q - N * p
  BY <1>1
<1>3. CASE q <= p
  BY <1>1, <1>2, <1>3
<1>4. CASE q >= p + 1
  BY <1>1, <1>2, <1>4
<1>. QED
  BY <1>1, <1>3, <1>4

-----------------------------------------------------------------------------
(* The inductive invariant.  UnreadIntact is not inductive: a reader that  *)
(* has run past the tail comes to be behind it again when keys are pushed, *)
(* so the last Size characters have to be known whether read or not.       *)

KeyboardType ==
  /\ buffer \in [Slots -> Chars \cup {NUL}]
  /\ head \in Nat /\ head <= MaxReads
  /\ tail \in Nat /\ tail <= MaxKeys
  /\ capslock_on \in BOOLEAN
  /\ pushed \in Seq(Chars) /\ Len(pushed) = tail
  /\ got \in Seq(Chars)

\* The last Size characters pushed are in the slots of their indices.
LastInPlace ==
  \A k \in 0..(tail - 1) : tail - k <= Size => buffer[k % Size] = pushed[k + 1]

\* A slot no character was pushed into is still 0.
RestIsZero == \A i \in Slots : i >= tail => buffer[i] = NUL

KeyboardInv == KeyboardType /\ LastInPlace /\ RestIsZero /\ ReadsInOrder

\* The buffer is empty.
LEMMA KeyboardInitially == KeyboardInit => KeyboardInv
<1>. SUFFICES ASSUME KeyboardInit PROVE KeyboardInv
  OBVIOUS
<1>1. KeyboardType
  BY EmptySeq, BoundsAssumption DEF KeyboardInit, KeyboardType
<1>2. LastInPlace /\ RestIsZero
  BY DEF KeyboardInit, LastInPlace, RestIsZero
<1>3. ReadsInOrder
  <2>1. SubSeq(pushed, 1, head) = <<>>
    BY SubSeqEmpty DEF KeyboardInit
  <2>. QED
    BY <2>1 DEF KeyboardInit, ReadsInOrder
<1>. QED
  BY <1>1, <1>2, <1>3 DEF KeyboardInv

\* What no part of the buffer is changed by changes nothing, caps lock or not.
LEMMA CapsLockStep ==
  ASSUME KeyboardInv, capslock_on' \in BOOLEAN, UNCHANGED <<buffer, head, tail, pushed, got>>
  PROVE  KeyboardInv'
BY DEF KeyboardInv, KeyboardType, LastInPlace, RestIsZero, ReadsInOrder

\* A key that is released, or an empty buffer, changes nothing.
LEMMA UnchangedStep == ASSUME KeyboardInv, UNCHANGED keyboardVars PROVE KeyboardInv'
BY CapsLockStep DEF keyboardVars, KeyboardInv, KeyboardType

\* A character goes into the slot of its index and into no other of the last
\* Size characters.
LEMMA PushStep ==
  ASSUME KeyboardInv, NEW c \in Chars, tail < MaxKeys,
         keyboard_push(c), capslock_on' \in BOOLEAN, UNCHANGED <<head, got>>
  PROVE  KeyboardInv'
<1>1. /\ buffer' = [buffer EXCEPT ![tail % Size] = c]
      /\ tail' = tail + 1
      /\ pushed' = Append(pushed, c)
  BY DEF keyboard_push, keyboard_get_tail_index, Chars, NUL
<1>2. tail % Size \in Slots
  BY SlotOfIndex DEF KeyboardInv, KeyboardType
<1>3. /\ pushed' \in Seq(Chars) /\ Len(pushed') = tail + 1
      /\ \A i \in 1..tail : pushed'[i] = pushed[i]
      /\ pushed'[tail + 1] = c
  BY <1>1, AppendProperties DEF KeyboardInv, KeyboardType
<1>4. KeyboardType'
  BY <1>1, <1>2, <1>3, BoundsAssumption DEF KeyboardInv, KeyboardType
<1>5. LastInPlace'
  <2>. SUFFICES ASSUME NEW k \in 0..tail, tail + 1 - k <= Size
                PROVE  buffer'[k % Size] = pushed'[k + 1]
    BY <1>1 DEF LastInPlace, KeyboardInv, KeyboardType
  <2>1. CASE k = tail
    BY <1>1, <1>2, <1>3, <2>1 DEF KeyboardInv, KeyboardType
  <2>2. CASE k < tail
    <3>. /\ k \in Nat /\ tail \in Nat /\ tail - k < Size
         /\ k \in 0..(tail - 1) /\ tail - k <= Size
      BY <2>2, SizeAssumption DEF KeyboardInv, KeyboardType
    <3>1. k % Size # tail % Size /\ k % Size \in Slots
      BY <2>2, SlotsDiffer, SlotOfIndex
    <3>2. buffer[k % Size] = pushed[k + 1]
      BY Zenon DEF KeyboardInv, LastInPlace
    <3>. QED
      BY <1>1, <1>3, <2>2, <3>1, <3>2 DEF KeyboardInv, KeyboardType
  <2>. QED
    BY <2>1, <2>2 DEF KeyboardInv, KeyboardType
<1>6. RestIsZero'
  <2>. SUFFICES ASSUME NEW i \in Slots, i >= tail + 1
                PROVE  buffer'[i] = NUL
    BY <1>1 DEF RestIsZero
  <2>1. tail \in Slots /\ tail % Size = tail
    BY SmallIndex, SizeAssumption DEF Slots, KeyboardInv, KeyboardType
  <2>. QED
    BY <1>1, <2>1 DEF KeyboardInv, KeyboardType, RestIsZero, Slots
<1>7. ReadsInOrder'
  <2>. SUFFICES ASSUME tail + 1 < Size
                PROVE  head <= tail + 1 /\ got = SubSeq(pushed', 1, head)
    BY <1>1 DEF ReadsInOrder
  <2>1. head <= tail /\ got = SubSeq(pushed, 1, head)
    BY SizeAssumption DEF KeyboardInv, KeyboardType, ReadsInOrder
  <2>2. \A i \in 1..head : pushed'[i] = pushed[i] /\ pushed[i] \in Chars
    BY <1>3, <2>1, ElementOfSeq DEF KeyboardInv, KeyboardType
  <2>3. SubSeq(pushed', 1, head) = SubSeq(pushed, 1, head)
    BY <2>2, SubSeqProperties, SeqEqual DEF KeyboardInv, KeyboardType
  <2>. QED
    BY <2>1, <2>3 DEF KeyboardInv, KeyboardType
<1>. QED
  BY <1>4, <1>5, <1>6, <1>7 DEF KeyboardInv

\* The interrupt handler, with any scancode.
LEMMA HandlerStep ==
  ASSUME KeyboardInv, NEW code \in Scancodes, classic_keyboard_interrupt_handler(code)
  PROVE  KeyboardInv'
<1>1. CASE code = "released"
  BY <1>1, UnchangedStep DEF classic_keyboard_interrupt_handler
<1>2. CASE code # "released"
  <2>. DEFINE c == classic_get_key_from_scancode(code, capslock_on')
  <2>1. /\ tail < MaxKeys /\ keyboard_push(c) /\ UNCHANGED <<head, got>>
        /\ capslock_on' \in BOOLEAN
    BY <1>2 DEF classic_keyboard_interrupt_handler, KeyboardInv, KeyboardType
  <2>2. c \in Chars \cup {NUL}
    BY DEF classic_get_key_from_scancode, Chars, Scancodes
  <2>. HIDE DEF c
  <2>3. CASE c = NUL
    BY <2>1, <2>3, CapsLockStep DEF keyboard_push
  <2>4. CASE c \in Chars
    BY <2>1, <2>4, PushStep
  <2>. QED
    BY <2>2, <2>3, <2>4
<1>. QED
  BY <1>1, <1>2

\* The reader takes the character at its index, if there is one.
LEMMA PopStep == ASSUME KeyboardInv, keyboard_pop PROVE KeyboardInv'
<1>1. CASE buffer[head % Size] = NUL
  BY <1>1, CapsLockStep DEF keyboard_pop, keyboard_get_head_index, KeyboardInv, KeyboardType
<1>2. CASE buffer[head % Size] # NUL
  <2>. DEFINE c == buffer[head % Size]
  <2>1. /\ head < MaxReads /\ head' = head + 1 /\ got' = Append(got, c)
        /\ UNCHANGED <<buffer, tail, capslock_on, pushed>>
    BY <1>2 DEF keyboard_pop, keyboard_get_head_index
  <2>2. c \in Chars
    BY <1>2, SlotOfIndex DEF KeyboardInv, KeyboardType
  <2>3. KeyboardType'
    BY <2>1, <2>2, AppendProperties, BoundsAssumption DEF KeyboardInv, KeyboardType
  <2>4. LastInPlace' /\ RestIsZero'
    BY <2>1 DEF KeyboardInv, LastInPlace, RestIsZero
  <2>5. ReadsInOrder'
    <3>. SUFFICES ASSUME tail < Size
                  PROVE  head + 1 <= tail /\ Append(got, c) = SubSeq(pushed, 1, head + 1)
      BY <2>1 DEF ReadsInOrder
    <3>1. head <= tail /\ got = SubSeq(pushed, 1, head)
      BY DEF KeyboardInv, ReadsInOrder
    <3>2. head \in Slots /\ head % Size = head
      BY <3>1, SmallIndex, SizeAssumption DEF Slots, KeyboardInv, KeyboardType
    <3>3. head < tail
      BY <1>2, <3>1, <3>2 DEF KeyboardInv, KeyboardType, RestIsZero
    <3>4. c = pushed[head + 1]
      BY <3>3, SizeAssumption DEF KeyboardInv, KeyboardType, LastInPlace
    <3>5. SubSeq(pushed, 1, head + 1) = SubSeq(pushed, 1, head) \o <<pushed[head + 1]>>
      BY <3>3, SubSeqRecursiveSecond DEF KeyboardInv, KeyboardType
    <3>6. Append(got, c) = got \o <<c>>
      BY <2>2, AppendIsConcat DEF KeyboardInv, KeyboardType
    <3>. QED
      BY <3>1, <3>3, <3>4, <3>5, <3>6 DEF KeyboardInv, KeyboardType
  <2>. QED
    BY <2>3, <2>4, <2>5 DEF KeyboardInv
<1>. QED
  BY <1>1, <1>2

-----------------------------------------------------------------------------
(* The theorems.                                                           *)

\* What the buffer holds at every moment, read or not.
THEOREM KeyboardInvariant == KeyboardSpec => []KeyboardInv
<1>1. KeyboardInit => KeyboardInv
  BY KeyboardInitially
<1>2. KeyboardInv /\ [KeyboardNext]_keyboardVars => KeyboardInv'
  BY HandlerStep, PopStep, UnchangedStep DEF KeyboardNext
<1>. QED
  BY <1>1, <1>2, PTL DEF KeyboardSpec

\* The buffer holds characters in its own slots only, and head and tail count
\* no further than the reads and the keys (keyboard.c:45-79).
THEOREM KeyboardTypeCorrect == KeyboardSpec => []TypeOK
<1>1. KeyboardInv => TypeOK
  BY BoundsAssumption DEF KeyboardInv, KeyboardType, TypeOK
<1>. QED
  BY <1>1, KeyboardInvariant, PTL

\* A push overwrites nothing unread while the reader is at most one buffer
\* behind, for every buffer size (keyboard.c:45-59).
THEOREM KeyboardUnreadIntact == KeyboardSpec => []UnreadIntact
<1>1. ASSUME KeyboardInv PROVE UnreadIntact
  <2>. SUFFICES ASSUME head <= tail, tail - head <= Size,
                       NEW k \in head..(tail - 1)
                PROVE  buffer[k % Size] = pushed[k + 1]
    BY DEF UnreadIntact
  <2>1. k \in 0..(tail - 1) /\ tail - k <= Size
    BY <1>1, SizeAssumption DEF KeyboardInv, KeyboardType
  <2>. QED
    BY <1>1, <2>1, Zenon DEF KeyboardInv, LastInPlace
<1>. QED
  BY <1>1, KeyboardInvariant, PTL

\* Until the buffer has wrapped, keys are read once and in order, for every
\* buffer size and whatever the order of interrupts and reads
\* (keyboard.c:45-79).
THEOREM KeyboardReadsInOrder == KeyboardSpec => []ReadsInOrder
<1>1. KeyboardInv => ReadsInOrder
  BY DEF KeyboardInv
<1>. QED
  BY <1>1, KeyboardInvariant, PTL

-----------------------------------------------------------------------------
(* THE LOADER.                                                             *)

-----------------------------------------------------------------------------
(* The inductive invariant.  What a load still holds is known exactly, up  *)
(* to the kinds in Leaks, at every function of a load and for every status *)
(* of an earlier one: only then do the frees that follow fit.              *)

Steps == {"elf_load", "elf_read", "load_binary", "binary_read", "create"}
Statuses == {"none", "loading", "running", "zombie", "failed", "ended"}

LoaderType ==
  /\ pc \in Steps \cup {"idle", "wild"}
  /\ loads \in 0..MaxLoads
  /\ file \in Files
  /\ status \in [Loads -> Statuses]
  /\ live \in [Loads -> [Kinds -> Nat]]
  /\ open \in Nat
  /\ badFree \in BOOLEAN /\ noStack \in BOOLEAN

\* A load is in progress while its functions run, and only the last one is.
StatusFits ==
  /\ pc \in Steps => loads \in Loads /\ status[loads] = "loading"
  /\ \A p \in Loads : /\ status[p] = "loading" => p = loads /\ pc # "idle"
                      /\ p > loads => status[p] = "none"
                      /\ status[p] = "zombie" => noStack

\* What the loader of a program keeps: an ELF file or a plain binary.
Programs == {{"image", "elf_file"}, {"data"}}

\* What a load of status s may hold, beside leaks, at the function at.
Possible(s, at) ==
  IF s = "loading" THEN
    IF at = "elf_load" THEN {{"process"}}
    ELSE IF at = "elf_read" THEN {{"process", "elf_file"} \cup Closed}
    ELSE IF at = "load_binary" THEN {{"process"}}
    ELSE IF at = "binary_read" THEN {{"process"} \cup Closed}
    ELSE {{"process"} \cup program : program \in Programs}
  ELSE IF s = "running" THEN
    {{"process", "pages", "stack"} \cup program \cup params :
        program \in Programs, params \in {{}, {"params"}}}
  ELSE IF s = "zombie" THEN
    {{"process", "pages"} \cup program : program \in Programs}
  ELSE {{}}

Holds(l, H) == \A k \in Kinds \ Leaks : l[k] = IF k \in H THEN 1 ELSE 0

Accounted ==
  \A p \in Loads : (status[p] = "loading" => pc # "wild") =>
                      \E H \in Possible(status[p], pc) : Holds(live[p], H)

LoaderInv == LoaderType /\ StatusFits /\ Accounted /\ DescriptorsReturned /\ FreesAreSound

-----------------------------------------------------------------------------
(* The bookkeeping.                                                        *)

\* Allocating new and freeing old turns the holdings H into H and new without
\* old, and touches no other load.
LEMMA ChangeHolds ==
  ASSUME LoaderType, NEW p \in Loads, NEW H, Holds(live[p], H),
         NEW new \in SUBSET Kinds, NEW old \in SUBSET Kinds,
         old \cap Leaks = {}, new \cap H = {},
         Change(p, new, old)
  PROVE  /\ live' \in [Loads -> [Kinds -> Nat]]
         /\ Holds(live'[p], (H \cup new) \ old)
         /\ \A q \in Loads \ {p} : live'[q] = live[q]
         /\ badFree' \in BOOLEAN
<1>. DEFINE L == [k \in Kinds |->
                    live[p][k] + (IF k \in new THEN 1 ELSE 0)
                      - (IF k \in old /\ (live[p][k] > 0 \/ k \in new) THEN 1 ELSE 0)]
<1>1. live' = [live EXCEPT ![p] = L]
  BY DEF Change
<1>2. L \in [Kinds -> Nat]
  BY DEF LoaderType
<1>3. live' \in [Loads -> [Kinds -> Nat]]
  BY <1>1, <1>2 DEF LoaderType
<1>4. live'[p] = L /\ \A q \in Loads \ {p} : live'[q] = live[q]
  BY <1>1 DEF LoaderType
<1>5. ASSUME NEW k \in Kinds \ Leaks
      PROVE  L[k] = IF k \in (H \cup new) \ old THEN 1 ELSE 0
  BY DEF Holds, LoaderType
<1>6. Holds(live'[p], (H \cup new) \ old)
  BY <1>4, <1>5 DEF Holds
<1>7. badFree' \in BOOLEAN
  BY DEF Change
<1>. QED
  BY <1>3, <1>4, <1>6, <1>7

\* Nothing is freed that is not allocated if all of old is held or new.
LEMMA FreesFit ==
  ASSUME LoaderType, NEW p \in Loads, NEW H, Holds(live[p], H),
         NEW new \in SUBSET Kinds, NEW old \in SUBSET Kinds,
         old \cap Leaks = {}, old \subseteq H \cup new,
         Change(p, new, old)
  PROVE  badFree' = badFree
<1>1. ~ \E k \in old \ new : live[p][k] = 0
  BY DEF Holds
<1>. QED
  BY <1>1 DEF Change, LoaderType

\* Both, for a change that leaves the holdings G.
Fits(H, new, old, G) ==
  /\ new \in SUBSET Kinds /\ old \in SUBSET Kinds
  /\ new \cap H = {} /\ old \cap Leaks = {} /\ old \subseteq H \cup new
  /\ \A k \in Kinds \ Leaks : k \in G <=> k \in (H \cup new) \ old

\* A step that allocates new and frees old leaves a load with G.
LEMMA ChangeFits ==
  ASSUME LoaderType, NEW p \in Loads, NEW H, NEW G, NEW new, NEW old,
         Holds(live[p], H), Change(p, new, old), Fits(H, new, old, G)
  PROVE  /\ live' \in [Loads -> [Kinds -> Nat]]
         /\ Holds(live'[p], G)
         /\ \A q \in Loads \ {p} : live'[q] = live[q]
         /\ badFree' = badFree
<1>1. Holds(live'[p], (H \cup new) \ old)
  BY ChangeHolds DEF Fits
<1>2. Holds(live'[p], G)
  BY <1>1 DEF Holds, Fits
<1>. QED
  BY <1>2, ChangeHolds, FreesFit DEF Fits

\* What an earlier load holds does not depend on the one in progress.
LEMMA OthersAccounted ==
  ASSUME LoaderInv, NEW q \in Loads, status[q] # "loading",
         status'[q] = status[q], live'[q] = live[q]
  PROVE  \E H \in Possible(status'[q], pc') : Holds(live'[q], H)
<1>1. Possible(status'[q], pc') = Possible(status[q], pc)
  BY DEF Possible
<1>2. PICK H \in Possible(status[q], pc) : Holds(live[q], H)
  BY DEF LoaderInv, Accounted
<1>3. Holds(live'[q], H)
  BY <1>2 DEF Holds
<1>. QED
  BY <1>1, <1>2, <1>3

\* One function of a load in progress: it keeps the invariant if the frees
\* fit and what it leaves is one of the possible holdings.
LEMMA LoadStep ==
  ASSUME LoaderInv, loads \in Loads, status[loads] = "loading", loads' = loads,
         LoaderType', DescriptorsReturned',
         \/ pc' \in Steps /\ status' = status
         \/ /\ pc' = "idle"
            /\ \E s \in {"failed", "running", "zombie"} : Become(s)
            /\ status'[loads] = "zombie" => noStack',
         \A q \in Loads \ {loads} : live'[q] = live[q],
         badFree' = badFree, noStack => noStack',
         \E H \in Possible(status'[loads], pc') : Holds(live'[loads], H)
  PROVE  LoaderInv'
<1>1. \A q \in Loads \ {loads} : status'[q] = status[q]
  BY DEF Become, LoaderInv, LoaderType
<1>2. StatusFits'
  <2>1. \/ pc' \in Steps /\ status' = status
        \/ /\ pc' = "idle" /\ status'[loads] \in {"failed", "running", "zombie"}
           /\ status'[loads] = "zombie" => noStack'
    BY DEF Become, LoaderInv, LoaderType
  <2>2. \A q \in Loads : q > loads => q # loads
    BY DEF Loads, LoaderInv, LoaderType
  <2>. QED
    BY <1>1, <2>1, <2>2 DEF StatusFits, LoaderInv, Steps
<1>3. Accounted'
  <2>. SUFFICES ASSUME NEW q \in Loads PROVE \E H \in Possible(status'[q], pc') : Holds(live'[q], H)
    BY DEF Accounted
  <2>1. CASE q = loads
    BY <2>1
  <2>2. CASE q # loads
    BY <1>1, <2>2, OthersAccounted DEF LoaderInv, StatusFits
  <2>. QED
    BY <2>1, <2>2
<1>4. FreesAreSound'
  BY DEF LoaderInv, FreesAreSound
<1>. QED
  BY <1>2, <1>3, <1>4 DEF LoaderInv

-----------------------------------------------------------------------------
(* The steps.                                                              *)

\* No load has begun.
LEMMA LoaderInit == Init => LoaderInv
<1>. SUFFICES ASSUME Init PROVE LoaderInv
  OBVIOUS
<1>1. LoaderType
  <2>1. 0 \in 0..MaxLoads
    BY MaxLoadsAssumption
  <2>. QED
    BY <2>1 DEF Init, LoaderType, Statuses, Files
<1>2. StatusFits
  BY DEF Init, StatusFits, Steps
<1>3. Accounted
  <2>. SUFFICES ASSUME NEW p \in Loads PROVE \E H \in Possible(status[p], pc) : Holds(live[p], H)
    BY DEF Accounted
  <2>1. {} \in Possible(status[p], pc)
    BY DEF Init, Possible
  <2>2. Holds(live[p], {})
    BY DEF Init, Holds
  <2>. QED
    BY <2>1, <2>2
<1>4. DescriptorsReturned /\ FreesAreSound
  BY DEF Init, DescriptorsReturned, FreesAreSound
<1>. QED
  BY <1>1, <1>2, <1>3, <1>4 DEF LoaderInv

\* A new load holds its Process.
LEMMA LoadProcessStep ==
  ASSUME LoaderInv, NEW f \in Files, load_process(f)
  PROVE  LoaderInv'
<1>0. PICK p \in Loads : p = loads + 1
  BY MaxLoadsAssumption DEF load_process, Loads, LoaderInv, LoaderType
<1>1. /\ pc = "idle" /\ pc' = "elf_load" /\ loads' = p /\ file' = f
      /\ status' = [status EXCEPT ![p] = "loading"]
      /\ Change(p, {"process"}, {}) /\ UNCHANGED <<open, noStack>>
  BY <1>0 DEF load_process
<1>2. p > loads /\ p \in 0..MaxLoads /\ loads \in Nat
  BY <1>0, MaxLoadsAssumption DEF Loads, LoaderInv, LoaderType
<1>3. status[p] = "none"
  BY <1>2 DEF LoaderInv, StatusFits
<1>4. Holds(live[p], {})
  <2>1. Possible(status[p], pc) = {{}}
    BY <1>3 DEF Possible
  <2>. QED
    BY <1>3, <2>1 DEF LoaderInv, Accounted
<1>5. /\ live' \in [Loads -> [Kinds -> Nat]]
      /\ Holds(live'[p], {"process"})
      /\ \A q \in Loads \ {p} : live'[q] = live[q]
      /\ badFree' = badFree
  <2>1. PICK had, new, old, has : had = {} /\ new = {"process"} /\ old = {} /\ has = {"process"}
    OBVIOUS
  <2>2. Holds(live[p], had) /\ Change(p, new, old)
    BY <1>1, <1>4, <2>1
  <2>3. Fits(had, new, old, has)
    BY <2>1 DEF Fits, Kinds
  <2>. QED
    BY <2>1, <2>2, <2>3, ChangeFits DEF LoaderInv
<1>6. LoaderType'
  BY <1>1, <1>2, <1>5 DEF LoaderInv, LoaderType, Statuses, Steps
<1>7. StatusFits'
  <2>1. \A q \in Loads : /\ q # p => status'[q] = status[q]
                         /\ q > p => q > loads /\ q # p
    BY <1>1, <1>2 DEF LoaderInv, LoaderType, Loads
  <2>2. status'[p] = "loading"
    BY <1>1, <1>2 DEF LoaderInv, LoaderType
  <2>3. \A q \in Loads : status[q] # "loading"
    BY <1>1 DEF LoaderInv, StatusFits
  <2>. QED
    BY <1>1, <1>2, <2>1, <2>2, <2>3 DEF LoaderInv, StatusFits, Steps
<1>8. Accounted'
  <2>. SUFFICES ASSUME NEW q \in Loads PROVE \E H \in Possible(status'[q], pc') : Holds(live'[q], H)
    BY DEF Accounted
  <2>1. CASE q = p
    <3>1. {"process"} \in Possible(status'[p], pc')
      BY <1>1 DEF Possible, LoaderInv, LoaderType
    <3>. QED
      BY <1>5, <2>1, <3>1
  <2>2. CASE q # p
    BY <1>1, <1>2, <1>5, <2>2, OthersAccounted DEF LoaderInv, StatusFits, LoaderType
  <2>. QED
    BY <2>1, <2>2
<1>9. DescriptorsReturned' /\ FreesAreSound'
  BY <1>1, <1>5 DEF LoaderInv, DescriptorsReturned, FreesAreSound
<1>. QED
  BY <1>6, <1>7, <1>8, <1>9 DEF LoaderInv
\* What the load in progress holds.
LEMMA LoadingHolds ==
  ASSUME LoaderInv, pc \in Steps
  PROVE  /\ loads \in Loads /\ status[loads] = "loading"
         /\ \E H \in Possible("loading", pc) : Holds(live[loads], H)
<1>1. loads \in Loads /\ status[loads] = "loading" /\ pc # "wild"
  BY DEF LoaderInv, StatusFits, Steps
<1>. QED
  BY <1>1 DEF LoaderInv, Accounted

\* A function of a load that opens the file: a descriptor is in use after it.
LEMMA OpenStep ==
  ASSUME LoaderInv, NEW had, NEW new, NEW has,
         pc \in {"elf_load", "load_binary"}, Holds(live[loads], had),
         fopen(new), Fits(had, new \cup OpenKinds, {}, has),
         pc' \in {"elf_read", "binary_read"}, has \in Possible("loading", pc'),
         UNCHANGED <<loads, file, status, noStack>>
  PROVE  LoaderInv'
<1>1. loads \in Loads /\ status[loads] = "loading" /\ open = 0
  BY DEF LoaderInv, StatusFits, Steps, DescriptorsReturned
<1>2. PICK all, none : all = new \cup OpenKinds /\ none = {}
  OBVIOUS
<1>3. Change(loads, all, none) /\ Fits(had, all, none, has) /\ open' = 1
  BY <1>1, <1>2 DEF fopen
<1>4. /\ live' \in [Loads -> [Kinds -> Nat]]
      /\ Holds(live'[loads], has)
      /\ \A q \in Loads \ {loads} : live'[q] = live[q]
      /\ badFree' = badFree
  BY <1>1, <1>3, ChangeFits DEF LoaderInv
<1>5. LoaderType'
  BY <1>3, <1>4 DEF LoaderInv, LoaderType, Steps
<1>6. DescriptorsReturned'
  BY <1>3 DEF DescriptorsReturned
<1>7. pc' \in Steps
  BY DEF Steps
<1>. QED
  BY <1>1, <1>4, <1>5, <1>6, <1>7, LoadStep DEF LoaderInv

\* elf_load allocates its ElfFile and opens the file.
LEMMA ElfLoadStep == ASSUME LoaderInv, elf_load PROVE LoaderInv'
<1>1. /\ pc = "elf_load" /\ pc' = "elf_read" /\ fopen({"elf_file"})
      /\ UNCHANGED <<loads, file, status, noStack>>
  BY DEF elf_load
<1>2. Holds(live[loads], {"process"})
  BY <1>1 DEF LoaderInv, StatusFits, Accounted, Possible, Steps
<1>3. PICK had, new, has : /\ had = {"process"} /\ new = {"elf_file"}
                           /\ has = {"process", "elf_file"} \cup Closed
  OBVIOUS
<1>4. Fits(had, new \cup OpenKinds, {}, has)
  BY <1>3 DEF Fits, Kinds, OpenKinds, Closed, Leaks
<1>5. has \in Possible("loading", pc')
  BY <1>1, <1>3 DEF Possible
<1>. QED
  BY <1>1, <1>2, <1>3, <1>4, <1>5, OpenStep

\* load_binary opens the file a second time.
LEMMA LoadBinaryStep == ASSUME LoaderInv, load_binary PROVE LoaderInv'
<1>1. /\ pc = "load_binary" /\ pc' = "binary_read" /\ fopen({})
      /\ UNCHANGED <<loads, file, status, noStack>>
  BY DEF load_binary
<1>2. Holds(live[loads], {"process"})
  BY <1>1 DEF LoaderInv, StatusFits, Accounted, Possible, Steps
<1>3. PICK had, new, has : /\ had = {"process"} /\ new = {}
                           /\ has = {"process"} \cup Closed
  OBVIOUS
<1>4. Fits(had, new \cup OpenKinds, {}, has)
  BY <1>3 DEF Fits, Kinds, OpenKinds, Closed, Leaks
<1>5. has \in Possible("loading", pc')
  BY <1>1, <1>3 DEF Possible
<1>. QED
  BY <1>1, <1>2, <1>3, <1>4, <1>5, OpenStep

\* A function of a load that leaves no descriptor in use, and goes on with the
\* next function or ends the load.
LEMMA FunctionStep ==
  ASSUME LoaderInv, NEW had, NEW new, NEW old, NEW has,
         pc \in {"elf_read", "binary_read", "create"}, Holds(live[loads], had),
         Change(loads, new, old), Fits(had, new, old, has),
         open' = 0, UNCHANGED <<loads, file>>,
         noStack' \in BOOLEAN, noStack => noStack',
         \/ /\ pc' \in {"load_binary", "create"} /\ UNCHANGED status
            /\ has \in Possible("loading", pc')
         \/ /\ pc' = "idle"
            /\ \E s \in {"failed", "running", "zombie"} :
                  /\ Become(s) /\ has \in Possible(s, pc')
                  /\ s = "zombie" => noStack'
  PROVE  LoaderInv'
<1>1. loads \in Loads /\ status[loads] = "loading"
  BY DEF LoaderInv, StatusFits, Steps
<1>2. /\ live' \in [Loads -> [Kinds -> Nat]]
      /\ Holds(live'[loads], has)
      /\ \A q \in Loads \ {loads} : live'[q] = live[q]
      /\ badFree' = badFree
  BY <1>1, ChangeFits DEF LoaderInv
<1>3. DescriptorsReturned'
  BY DEF DescriptorsReturned
<1>4. CASE pc' \in {"load_binary", "create"} /\ UNCHANGED status
           /\ has \in Possible("loading", pc')
  <2>1. LoaderType'
    BY <1>2, <1>4 DEF LoaderInv, LoaderType, Steps
  <2>2. pc' \in Steps
    BY <1>4 DEF Steps
  <2>. QED
    BY <1>1, <1>2, <1>3, <1>4, <2>1, <2>2, LoadStep
<1>5. ASSUME pc' = "idle", NEW s \in {"failed", "running", "zombie"},
             Become(s), has \in Possible(s, pc'), s = "zombie" => noStack'
      PROVE  LoaderInv'
  <2>1. status' \in [Loads -> Statuses] /\ status'[loads] = s
    BY <1>1, <1>5 DEF Become, LoaderInv, LoaderType, Statuses
  <2>2. LoaderType'
    BY <1>2, <1>5, <2>1 DEF LoaderInv, LoaderType
  <2>. QED
    BY <1>1, <1>2, <1>3, <1>5, <2>1, <2>2, LoadStep
<1>. QED
  BY <1>4, <1>5

\* The image is read: a program to keep, a file to try as a plain binary, or a
\* failed load.
LEMMA ElfReadStep == ASSUME LoaderInv, elf_read PROVE LoaderInv'
<1>1. /\ pc = "elf_read" /\ open' = 0
      /\ UNCHANGED <<loads, file, noStack>> /\ noStack \in BOOLEAN
  BY DEF elf_read, free_file_descriptor, LoaderInv, DescriptorsReturned, LoaderType
<1>2. PICK had : had = {"process", "elf_file"} \cup Closed
  OBVIOUS
<1>3. Holds(live[loads], had)
  <2>1. loads \in Loads /\ status[loads] = "loading"
    BY <1>1 DEF LoaderInv, StatusFits, Steps
  <2>2. Possible("loading", "elf_read") = {had}
    BY <1>2 DEF Possible
  <2>3. \E H \in Possible(status[loads], pc) : Holds(live[loads], H)
    BY <1>1, <2>1 DEF LoaderInv, Accounted
  <2>. QED
    BY <1>1, <2>1, <2>2, <2>3
<1>4. CASE file = "elf"
  <2>1. PICK new, old, has : /\ new = {"image"} /\ old = Closed
                             /\ has = {"process"} \cup {"image", "elf_file"}
    OBVIOUS
  <2>2. Fits(had, new, old, has)
    BY <1>2, <2>1 DEF Fits, Kinds, OpenKinds, Closed, Leaks
  <2>3. Change(loads, new, old) /\ pc' = "create" /\ UNCHANGED status
    BY <1>4, <2>1 DEF elf_read
  <2>4. has \in Possible("loading", pc')
    BY <2>1, <2>3 DEF Possible, Programs
  <2>. QED
    BY <1>1, <1>3, <2>2, <2>3, <2>4, FunctionStep
<1>5. CASE file = "raw"
  <2>1. PICK new, old, has : /\ new = {"image"} /\ old = Closed \cup ElfCleanup
                             /\ has = {"process"}
    OBVIOUS
  <2>2. Fits(had, new, old, has)
    BY <1>2, <2>1 DEF Fits, Kinds, OpenKinds, Closed, Leaks, ElfCleanup
  <2>3. Change(loads, new, old) /\ pc' = "load_binary" /\ UNCHANGED status
    BY <1>5, <2>1 DEF elf_read
  <2>4. has \in Possible("loading", pc')
    BY <2>1, <2>3 DEF Possible
  <2>. QED
    BY <1>1, <1>3, <2>2, <2>3, <2>4, FunctionStep
<1>6. CASE file = "empty"
  <2>1. PICK new, old, has : /\ new = {"image"} /\ has = {}
                             /\ old = Closed \cup ElfCleanup \cup {"process"}
    OBVIOUS
  <2>2. Fits(had, new, old, has)
    BY <1>2, <2>1 DEF Fits, Kinds, OpenKinds, Closed, Leaks, ElfCleanup
  <2>3. Change(loads, new, old) /\ pc' = "idle" /\ Become("failed")
    BY <1>6, <2>1 DEF elf_read
  <2>4. has \in Possible("failed", pc')
    BY <2>1, <2>3 DEF Possible
  <2>. QED
    BY <1>1, <1>3, <2>2, <2>3, <2>4, FunctionStep
<1>. QED
  BY <1>4, <1>5, <1>6 DEF elf_read

\* load_binary reads the file, or has no memory for it.
LEMMA BinaryReadStep == ASSUME LoaderInv, binary_read PROVE LoaderInv'
<1>1. /\ pc = "binary_read" /\ open' = 0
      /\ UNCHANGED <<loads, file, noStack>> /\ noStack \in BOOLEAN
  BY DEF binary_read, free_file_descriptor, LoaderInv, DescriptorsReturned, LoaderType
<1>2. PICK had : had = {"process"} \cup Closed
  OBVIOUS
<1>3. Holds(live[loads], had)
  BY <1>1, <1>2, LoadingHolds DEF Possible, Steps
<1>4. CASE Change(loads, {"data"}, Closed) /\ pc' = "create" /\ UNCHANGED status
  <2>1. PICK new, old, has : /\ new = {"data"} /\ old = Closed
                             /\ has = {"process"} \cup {"data"}
    OBVIOUS
  <2>2. Fits(had, new, old, has)
    BY <1>2, <2>1 DEF Fits, Kinds, OpenKinds, Closed, Leaks
  <2>3. Change(loads, new, old) /\ pc' = "create" /\ UNCHANGED status
    BY <1>4, <2>1
  <2>4. has \in Possible("loading", pc')
    BY <2>1, <2>3 DEF Possible, Programs
  <2>. QED
    BY <1>1, <1>3, <2>2, <2>3, <2>4, FunctionStep
<1>5. CASE Change(loads, {}, Closed \cup {"process"}) /\ pc' = "idle" /\ Become("failed")
  <2>1. PICK new, old, has : /\ new = {} /\ old = Closed \cup {"process"} /\ has = {}
    OBVIOUS
  <2>2. Fits(had, new, old, has)
    BY <1>2, <2>1 DEF Fits, Kinds, OpenKinds, Closed, Leaks
  <2>3. Change(loads, new, old) /\ pc' = "idle" /\ Become("failed")
    BY <1>5, <2>1
  <2>4. has \in Possible("failed", pc')
    BY <2>1, <2>3 DEF Possible
  <2>. QED
    BY <1>1, <1>3, <2>2, <2>3, <2>4, FunctionStep
<1>. QED
  BY <1>4, <1>5 DEF binary_read

\* The task, its stack and its arguments, or a task without a stack.
LEMMA CreateStep == ASSUME LoaderInv, create PROVE LoaderInv'
<1>1. /\ pc = "create" /\ pc' = "idle" /\ open' = 0 /\ UNCHANGED <<loads, file>>
      /\ noStack \in BOOLEAN
  BY DEF create, LoaderInv, DescriptorsReturned, LoaderType
<1>2. PICK program \in Programs : Holds(live[loads], {"process"} \cup program)
  <2>1. PICK H \in Possible("loading", pc) : Holds(live[loads], H)
    BY <1>1, LoadingHolds DEF Steps
  <2>2. Possible("loading", pc) = {{"process"} \cup program : program \in Programs}
    BY <1>1 DEF Possible
  <2>. QED
    BY <2>1, <2>2
<1>3. PICK had : had = {"process"} \cup program
  OBVIOUS
<1>4. ASSUME NEW args \in {{}, {"params", "arguments"}},
             Change(loads, {"task", "pages", "stack"} \cup args, {}),
             Become("running"), UNCHANGED noStack
      PROVE  LoaderInv'
  <2>0. PICK params \in {{}, {"params"}} : params = args \ Leaks
    BY <1>4 DEF Leaks
  <2>1. PICK new, old, has :
             /\ new = {"task", "pages", "stack"} \cup args /\ old = {}
             /\ has = {"process", "pages", "stack"} \cup program \cup params
    OBVIOUS
  <2>2. Fits(had, new, old, has)
    BY <1>3, <1>4, <2>0, <2>1 DEF Fits, Kinds, OpenKinds, Leaks, Programs
  <2>3. Change(loads, new, old)
    BY <1>4, <2>1
  <2>4. has \in Possible("running", pc')
    BY <2>1 DEF Possible
  <2>. QED
    BY <1>1, <1>2, <1>3, <1>4, <2>2, <2>3, <2>4, FunctionStep
<1>5. CASE /\ Change(loads, {"task", "pages"}, {})
           /\ Become("zombie") /\ noStack' = TRUE
  <2>1. PICK new, old, has :
             /\ new = {"task", "pages"} /\ old = {}
             /\ has = {"process", "pages"} \cup program
    OBVIOUS
  <2>2. Fits(had, new, old, has)
    BY <1>3, <2>1 DEF Fits, Kinds, OpenKinds, Leaks, Programs
  <2>3. Change(loads, new, old)
    BY <1>5, <2>1
  <2>4. has \in Possible("zombie", pc')
    BY <2>1 DEF Possible
  <2>. QED
    BY <1>1, <1>2, <1>3, <1>5, <2>2, <2>3, <2>4, FunctionStep
<1>. QED
  BY <1>4, <1>5 DEF create

\* A pointer that is not looked at: nothing is known of the load any more,
\* and everything of the others.
LEMMA WildStep ==
  ASSUME LoaderInv, pc' = "wild",
         UNCHANGED <<loads, file, status, live, open, badFree, noStack>>
  PROVE  LoaderInv'
<1>1. LoaderType' /\ StatusFits' /\ DescriptorsReturned' /\ FreesAreSound'
  BY DEF LoaderInv, LoaderType, StatusFits, DescriptorsReturned, FreesAreSound, Steps
<1>2. Accounted'
  BY OthersAccounted DEF LoaderInv, Accounted
<1>. QED
  BY <1>1, <1>2 DEF LoaderInv

\* The end of a program frees what it holds, and the stack whether it has one
\* or not.
LEMMA ProcessFreeStep == ASSUME LoaderInv, NEW p \in Loads, process_free(p) PROVE LoaderInv'
<1>1. PICK params : params = IF live[p]["params"] > 0 THEN {"params"} ELSE {}
  OBVIOUS
<1>2. PICK none, old : /\ none = {}
                       /\ old = loader_free_data(p) \cup {"pages", "stack", "process"} \cup params
  OBVIOUS
<1>3. /\ pc = "idle" /\ status[p] \in {"running", "zombie"}
      /\ Change(p, none, old)
      /\ status' = [status EXCEPT ![p] = "ended"]
      /\ UNCHANGED <<pc, loads, file, open, noStack>>
  BY <1>1, <1>2 DEF process_free
<1>4. PICK H \in Possible(status[p], pc) : Holds(live[p], H)
  BY <1>3 DEF LoaderInv, Accounted
<1>5. PICK program \in Programs, extra \in {{}, {"params"}} :
           \/ status[p] = "running" /\ H = {"process", "pages", "stack"} \cup program \cup extra
           \/ status[p] = "zombie" /\ H = {"process", "pages"} \cup program /\ extra = {}
  BY <1>3, <1>4 DEF Possible
<1>6. loader_free_data(p) = program
  <2>1. live[p]["data"] > 0 <=> "data" \in H
    BY <1>4 DEF Holds, Kinds, Leaks
  <2>2. "data" \in H <=> program = {"data"}
    BY <1>5 DEF Programs
  <2>. QED
    BY <1>5, <2>1, <2>2 DEF loader_free_data, Programs
<1>7. params = extra
  <2>1. live[p]["params"] > 0 <=> "params" \in H
    BY <1>4 DEF Holds, Kinds, Leaks
  <2>2. "params" \in H <=> extra = {"params"}
    BY <1>5 DEF Programs
  <2>. QED
    BY <1>1, <2>1, <2>2
<1>8. /\ none \in SUBSET Kinds /\ old \in SUBSET Kinds
      /\ none \cap H = {} /\ old \cap Leaks = {}
  BY <1>2, <1>5, <1>6, <1>7 DEF Kinds, OpenKinds, Leaks, Programs
<1>9. /\ live' \in [Loads -> [Kinds -> Nat]]
      /\ Holds(live'[p], (H \cup none) \ old)
      /\ \A q \in Loads \ {p} : live'[q] = live[q]
      /\ badFree' \in BOOLEAN
  BY <1>3, <1>4, <1>8, ChangeHolds DEF LoaderInv
<1>10. Holds(live'[p], {})
  <2>1. (H \cup none) \ old = {}
    BY <1>2, <1>5, <1>6, <1>7
  <2>. QED
    BY <1>9, <2>1
<1>11. LoaderType'
  BY <1>3, <1>9 DEF LoaderInv, LoaderType, Statuses
<1>12. StatusFits'
  <2>1. \A q \in Loads : status'[q] = IF q = p THEN "ended" ELSE status[q]
    BY <1>3 DEF LoaderInv, LoaderType
  <2>2. \A q \in Loads : status[q] # "loading"
    BY <1>3 DEF LoaderInv, StatusFits
  <2>3. ~(p > loads)
    BY <1>3 DEF LoaderInv, StatusFits
  <2>. QED
    BY <1>3, <2>1, <2>2, <2>3 DEF LoaderInv, StatusFits, Steps
<1>13. Accounted'
  <2>. SUFFICES ASSUME NEW q \in Loads
                PROVE  \E G \in Possible(status'[q], pc') : Holds(live'[q], G)
    BY DEF Accounted
  <2>1. CASE q = p
    <3>1. status'[p] = "ended"
      BY <1>3 DEF LoaderInv, LoaderType
    <3>2. {} \in Possible(status'[p], pc')
      BY <3>1 DEF Possible
    <3>. QED
      BY <1>10, <2>1, <3>2
  <2>2. CASE q # p
    BY <1>3, <1>9, <2>2, OthersAccounted DEF LoaderInv, StatusFits, LoaderType
  <2>. QED
    BY <2>1, <2>2
<1>14. DescriptorsReturned'
  BY <1>3 DEF LoaderInv, DescriptorsReturned
<1>15. FreesAreSound'
  <2>1. CASE status[p] = "running"
    <3>1. old \subseteq H \cup none
      BY <1>2, <1>5, <1>6, <1>7, <2>1
    <3>2. badFree' = badFree
      BY <1>3, <1>4, <1>8, <3>1, FreesFit DEF LoaderInv
    <3>. QED
      BY <1>3, <3>2 DEF LoaderInv, FreesAreSound
  <2>2. CASE status[p] = "zombie"
    BY <1>3, <2>2 DEF LoaderInv, StatusFits, FreesAreSound
  <2>. QED
    BY <1>3, <2>1, <2>2
<1>. QED
  BY <1>11, <1>12, <1>13, <1>14, <1>15 DEF LoaderInv

\* A step of nobody.
LEMMA LoaderUnchanged == ASSUME LoaderInv, UNCHANGED vars PROVE LoaderInv'
<1>1. UNCHANGED <<pc, loads, file, status, live, open, badFree, noStack>>
  BY DEF vars
<1>2. LoaderType' /\ StatusFits' /\ DescriptorsReturned' /\ FreesAreSound'
  BY <1>1 DEF LoaderInv, LoaderType, StatusFits, DescriptorsReturned, FreesAreSound
<1>3. Accounted'
  BY <1>1 DEF LoaderInv, Accounted
<1>. QED
  BY <1>2, <1>3 DEF LoaderInv

-----------------------------------------------------------------------------
(* The theorems.                                                           *)

\* What every load holds is known at every step of every load.
THEOREM LoaderInvariant == Spec => []LoaderInv
<1>1. Init => LoaderInv
  BY LoaderInit
<1>2. LoaderInv /\ [Next]_vars => LoaderInv'
  <2>. SUFFICES ASSUME LoaderInv, [Next]_vars PROVE LoaderInv'
    OBVIOUS
  <2>1. CASE \E f \in Files : load_process(f)
    BY <2>1, LoadProcessStep
  <2>2. CASE elf_load \/ elf_read \/ load_binary \/ binary_read \/ create
    BY <2>2, ElfLoadStep, ElfReadStep, LoadBinaryStep, BinaryReadStep, CreateStep
  <2>3. CASE OpenMissing \/ OutOfMemory
    BY <2>3, WildStep DEF OpenMissing, OutOfMemory
  <2>4. CASE \E p \in Loads : process_free(p)
    BY <2>4, ProcessFreeStep
  <2>5. CASE Done \/ UNCHANGED vars
    BY <2>5, LoaderUnchanged DEF Done
  <2>. QED
    BY <2>1, <2>2, <2>3, <2>4, <2>5 DEF Next
<1>. QED
  BY <1>1, <1>2, PTL DEF Spec

\* No load leaves a descriptor in use, however many there are
\* (elfloader.c:171-214, binary.c:7-39, file.c:60-80).
THEOREM LoaderDescriptors == Spec => []DescriptorsReturned
<1>1. LoaderInv => DescriptorsReturned
  BY DEF LoaderInv
<1>. QED
  BY <1>1, LoaderInvariant, PTL

\* Only the end of a program without a stack frees what is not allocated
\* (process.c:139-144, 221-233).
THEOREM LoaderFrees == Spec => []FreesAreSound
<1>1. LoaderInv => FreesAreSound
  BY DEF LoaderInv
<1>. QED
  BY <1>1, LoaderInvariant, PTL

\* A failed load and an ended program leave nothing but the known leaks
\* (process.c:127-157, 221-233, elfloader.c:171-224).
THEOREM LoaderEndsClean == Spec => []EndsClean
<1>1. ASSUME LoaderInv PROVE EndsClean
  <2>. SUFFICES ASSUME NEW p \in Loads, status[p] \in {"failed", "ended"},
                       NEW k \in Kinds, live[p][k] > 0
                PROVE  k \in Leaks
    BY DEF EndsClean
  <2>1. Possible(status[p], pc) = {{}} /\ status[p] # "loading"
    BY DEF Possible
  <2>2. Holds(live[p], {})
    BY <1>1, <2>1 DEF LoaderInv, Accounted
  <2>. QED
    BY <2>2 DEF Holds
<1>. QED
  BY <1>1, LoaderInvariant, PTL
=============================================================================
