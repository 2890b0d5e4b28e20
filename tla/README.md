# A TLA+ model of zhios

zhios is a small 32-bit x86 kernel in C: a boot sector, a protected-mode
kernel with its own heap, paging, a FAT16 reader, an ELF loader, user
processes reached through `int 0x80`, a keyboard and a pixel terminal, and a
shell. This directory models its own logic in TLA+, checks it with TLC and
proves, with TLAPS and for every value of the constants, every safety property
that TLC checks. Paths below are relative to the repository.

## 1. Inventory

| Part | State | Operations | Talks to |
|---|---|---|---|
| Kernel heap `src/memory/heap` | one flag byte for each 4096-byte block | `kmalloc`, `kzalloc`, `kfree` | everything |
| Task list `src/task/task.c` | `head_task`, `tail_task`, `current_task`, `next`/`prev`, saved registers | create, remove, next, switch, save | processes, interrupts |
| Process table `src/task/process.c` | `process_list`, `current_process`, ids | load, switch, free | loaders, tasks, keyboard |
| Kernel entry `src/interrupts`, `src/isr80h`, `src/kernel.c` | page directory in use | interrupt, system call, exception, exit, start | tasks |
| Process memory `process.c`, `src/memory/paging` | allocation table, page directories | `malloc`, `free`, exit | heap |
| Keyboard `src/keyboard` | ring buffer of each process, caps lock | interrupt, push, pop | `current_process`, `current_task` |
| Files `src/fs`, `src/disk` | descriptor table, shared streams, positions | open, read, seek, stat, close | heap, disk |
| Loaders `src/loaders` | image of each process | `elf_load`, `load_binary`, free | files, heap, paging |
| Terminal `src/terminal`, `src/font` | cursor | write, erase | framebuffer |
| Shell input `syslib/src/stdio`, `programs/shell` | line buffer | `read_line` | keyboard, terminal |
| Libraries `lib`, `syslib` | text of `itoa` | strings, memory, `printf`, system call stubs | terminal |
| Command lines `src/isr80h/process.c`, `src/fs/path.c`, `process.c` | arrays on the kernel's stack, the new stack | copy, split, parse, lay out `argv` | files, loaders |
| Boot `src/kernel.c`, `src/kernel.asm`, `src/gdt` | what exists of the kernel so far, `disk` | one call after another | everything |
| VESA, examples | none | | |

What makes it hard:

* *Order of calls.* The timer's interrupt has no routine and handlers run with
  interrupts off, so nothing runs at the same time as kernel code. But programs nest (a program
  starts another and waits), end in any order by exit or by an exception, and
  key interrupts come between any two instructions of a program. The task
  list, the process table, the keyboard's target and the page directory in use
  are four pieces of state kept in step by hand.
* *Failure half-way.* A load has many steps; some check for failure, some do
  not.
* *Limits.* The heap, process table, descriptor table, key ring, line buffer and
  screen are all of fixed size, and most of the code that fills them does not
  look.
* *Boundary arithmetic.* Blocks, pages, sectors, clusters, columns.
* *Strings in arrays.* No copy looks at a size, arrays are neighbours, and
  fields of fixed length are read as if they were terminated.
* *Start-up.* Pointers that every handler follows are null until the boot is
  nearly over.

The repository has no tests and no documentation of behaviour, and its comments
claim nothing the models contradict; so there are no findings, and the
conditions under which the code is right are part of the properties
(`~misused`, `~stale`, `peak <= 3`, ...). Each such condition was found by
removing it and seeing TLC produce a counterexample.

## 2. Modules

| Module | Models | Used by |
|---|---|---|
| `Allocator` | what the heap promises: runs of blocks with one owner | instantiated and refined by `Heap` |
| `Heap` | `heap.c`, one step for each call | refined by `HeapLoops`; extended by `HeapLoops` and `ProcessMemory` |
| `HeapLoops` | `heap.c`, one step for each iteration of its loops | |
| `HeapProofs` | theorems about `Heap` and `HeapLoops` | `ProcessMemoryProofs` |
| `TaskList` | `task.c`'s list as functions on a record | `Kernel` |
| `Kernel` | processes, tasks, interrupts, start and exit | |
| `ProcessMemory` | `malloc`/`free` of programs, page flags, exit | |
| `Keyboard` | scan codes and the key ring | |
| `CString` | the string and memory library, as operators on memory | `StartCommand`, `Fat16`, `Printf` |
| `Fat16` | descriptors, directory entries and paths, cluster walk, stream | |
| `Loader` | memory and descriptors of a load and of an exit | |
| `Console` | `read_line`, the cursor, the shell's loop | |
| `StartCommand` | a command line from the asking program to the new one's `argv` | |
| `ProgramImage` | a program's file and stack in its page directory | |
| `Boot` | `kernel_main` call by call, `fat16_resolve`, interrupts during the boot | |
| `Printf` | `printf` and `itoa` | |
| `KernelProofs`, `ProcessMemoryProofs`, `ProgramImageProofs`, `ConsoleProofs`, `Fat16Proofs` | theorems about the module in their name | |
| `MachineProofs` | theorems about `Boot`, `Keyboard` and `Loader` | |
| `StringProofs` | theorems about `StartCommand` and `Printf`, which share the lemmas about `CString` | |

`MC*` modules give the constants of the runs. Operators introduced by a comment
that begins with "Mutant" are deliberately wrong variants of the definition
after them. They are used by nothing; putting one in the place of its original
must make TLC report the property it is paired with in `PROJECT.json`.

### How state and actions correspond to the code

*Heap.* `entries` is `heap_table.entries`, each byte as its set of flags. The
callers are abstract pointer variables (`Handles`), each holding an address and
the size it asked for. `heap_get_free_block` is the first fit, else the free run
at the end of the table, else `-EMEM`: that is what the loop computes, and
`HeapLoops` checks it against the loop. Entries written beyond the table are
recorded in `spill`. `kfree_again` is a second `kfree` of an address just freed,
or of one inside its block, as `free_path` does. `misused` records that a pointer
from a zero-byte request was freed while somebody else had its block; nothing is
promised afterwards.

*HeapLoops.* Extends `Heap`. `call` holds the local variables of the function that
runs, `table` and `beyond` are the heap's table while that function changes it.
`Heap`'s own `entries` and `spill` are what the last call that returned has left,
so the property `ImplementsHeap` is `Heap`'s `Spec` as it stands.

*Kernel.* A task and its process have one number. `isr_handler`,
`isr80h_load_process_command`, `ExitLast` and `ExitToNext` are whole handlers;
`no_routine` is an interrupt without a
routine, `divide_by_zero` the gate that returns to the division; `UserStep` is an
instruction of the program. Registers are one number, how far
the program has come. Removed tasks keep their fields, because their memory is
never freed and stale `prev` pointers reach it. Ghosts: `zombied` (a load failed
after `create_task`), `stale` (a task with a stale `prev` field has left),
`peak` (most programs alive).

*ProcessMemory.* `ptr[<<p, i>>]` and `size[<<p, i>>]` are
`process->allocations[i]`: the module extends `Heap`, and `HandlesAssumption` says
that its callers are these entries and one pointer of the kernel. A page directory maps each heap page to its
flags. Exit is a loop of steps because it looks entries up by address.

*Keyboard.* One process's ring with unbounded `head` and `tail` and the index
taken modulo the size. The second `insb` of the handler, which may lose a byte
of the controller, is not modelled.

*Fat16.* A byte of the disk is its address. `disk_stream_read` copies from a
one-sector buffer, and bytes beyond it are `GARBAGE`. The two recursions, of the
stream and of the cluster walk, are recursive functions of what is left to read, and
the search along a path one of how far it has come. A directory is a row of slots on
the disk (`slots`, by address); a slot has the fields of `Fat16Entry` that matter and,
in `rest`, the bytes behind the attribute that a name may run on into. The entries of
long names are slots like any other, as they are to the code. `load_directory` counts
along the sectors and reads through `read_entries`, which follows the FAT and moves
the stream that all descriptors share. A path is the list of names that `create_path`
makes. `fopen_out_of_memory` is `fopen` when an allocation fails: a descriptor without
data, one that looks like a directory, or a null pointer that is followed. `"wild"` is
reached there, when the code uses a missing file or a missing directory on the way, or
takes a directory for a file. An empty directory is freed and still searched; it stays
empty in the model, which is right until its block is given out again.

*Loader.* A load is a sequence of steps, each with its failures; objects are
counted by kind and load. `"wild"` is a missing file or an allocation whose
failure is not noticed.

*Console.* `cursor` is the terminal's position with 16-bit arithmetic, `shown` the
letters drawn since the prompt and still on the screen, `line` what the user means. A
letter is on the screen if all of it is: rows below the last one and a last column that
overhangs the right edge are drawn all the same, but not counted. Ghosts: `overErased`
(erase on an empty line), `unwrapped` (erase at the start of a row of this line),
`crossed` (the cursor has gone back a row, in this line or an earlier one).

*CString.* Memory is a function from addresses to bytes; a function that writes
returns the new memory. `memcmp` compares first bytes only, `strncpy` writes a
byte more than it is told, `rstrip` stops at the first space: as in the source.

*StartCommand.* The handler's three arrays and the variable behind them are one
memory, in the order that the build (`i686-elf-gcc -O0`) gives them: `copy`, `path`,
`buffer`, `res`. So what a call writes behind its array is seen by the next one.
Each action is one call of the handler or of `load_process`; `load_data` stands
for the part that `Loader` details. `create_path`'s loop is `Scan`, a recursive
function of the number of turns. `"wild"` is a handler that runs away or
follows a null pointer; `fault` remembers if the reason was a missing file or
missing memory.

*ProgramImage.* Physical and virtual addresses are byte numbers. A page
directory is a function from virtual pages to a physical page and a flag. The
program headers of `file` are mapped one by one, in the order of the file, then
the stack. `range`, what `elf_process_pt_load` computes, is kept because the handler
computes it; no property depends on it, nor on `streams` of `Boot`.

*Boot.* `stage` is the call of `kernel_main` that is next. `kernel` has one field for each part that a call of `kernel_main`
creates; `fat16_resolve` is four steps, since it enters the file system in the
disk before it knows whether there is one. Devices may ask for an interrupt at
any time; whether it is taken depends on `sti`.

*Printf.* One turn of `printf`'s loop is one action; `text` is `itoa`'s static
array, `out` what the terminal was given. `Left` is `itoa`'s `num` after each turn of
its loop, `Digits` what the loop writes until `num` is 0.

## 3. Runs

| Run | Checks | Bounds and why they suffice |
|---|---|---|
| `heap` | `Disjoint`, `ChainsIntact`, `NoLeak`, `RecentIsFree`, `SpillsOnlyWhenFull`, refinement of `Allocator` | 5 blocks, 3 callers, sizes 0, 1, 4096, 4097, 12288: fragmentation, exact fit, no fit with and without a free tail, spill, zero-byte misuse all occur. The theorems remove the bounds. |
| `heap_loops` | refinement of `Heap`, every call returns | 4 blocks, 3 callers; chains of 0, 1 and 3 blocks |
| `kernel` | see below | 7 tasks, 4 slots, 1 step each: slots are used again, four programs nest, tasks leave from the head, the middle and the tail |
| `process_memory` | `AllocationsUsable`, `Isolation`, `ExitReturnsAll` | 3 blocks, two programs with two allocations, the kernel with one, sizes 0, 1, one page and 5000; after a request of zero bytes or whole pages at most two allocations at a time; symmetry in the programs. Duplicate addresses and misuse occur. |
| `keyboard` | `UnreadIntact`, `ReadsInOrder`, `TypedIsRead` | ring of 3, 5 keys, 7 reads: wraps, overflows, runs empty |
| `fat16` | `ReadsOwnBytes`, `OpensRightFile` | sectors of 4 bytes, clusters of 2 sectors, entries of one byte (8 to a cluster), at most 12 slots in a directory, two descriptors, six disks, twelve paths; reads of 0, 3 and 8 bytes up to position 11: within, across and at the edge of sectors and clusters; long names as vfat writes them, nested directories and the parent's entry, deleted entries before and inside a directory, names and extensions that fill their fields, a long name that reads like a file, a directory of two clusters, an empty one |
| `loader` | `DescriptorsReturned`, `FreesAreSound`, `EndsClean` | 3 loads, a descriptor table of one slot |
| `console` | `ReturnsEditedLine`, `ShowsEditedLine`, `CursorOnScreen` | buffer of 4, five columns of which the right edge cuts the last, four rows, 9 keys: lines wrap and run off the bottom |
| `start_command` | `ArgvMatches`, `ParsesPath`, `ShortCommandsAreSafe` | arrays of 9 characters; all lines of up to 5 characters over two letters, space and slash, of 6 to 10 over a letter and space: words that fit, that fill the array exactly and that exceed it, double and trailing spaces and slashes, lines that are cut, lines of nothing but spaces |
| `program_image` | `ImageAndStackMapped`, `WritesConfined` | pages of 4 bytes; one or two segments at 7 offsets, of 7 lengths, with and without bss, in both orders, overlapping too; plain files of 1 to 9 bytes |
| `boot` | `FileSystemAllOrNothing`, `InterruptsFindKernelReady` | every kind of disk, timer and keyboard requests at every point |
| `printf` | `PrintsMeaning` | all formats of up to 5 characters over a letter, `%` and the conversions; 8-bit ints around every change of length and sign |

What the results say:

* The heap never gives a block to two callers and its table is exact, for every
  sequence of calls, until a zero-byte pointer is freed over somebody's block.
  It does hand out memory past its end instead of failing, but only when it
  should have failed.
* `kernel`: the program in user mode runs on its own page directory and the list
  is exact until a task with a stale `prev` field leaves (`RunsOnOwnPages`,
  `ListIsExact`); the keyboard never writes to a freed process, whatever
  happened (`KeyboardTargetAlive`); registers survive (`ContextPreserved`);
  every exit finds a task to resume, or was the last program's
  (`ExitFindsTask`). A program that ends returns to its starter up to three
  programs nested (`StarterResumes`), and keys reach the program that reads them
  up to two (`KeysReachReader`); one program more and TLC finds a
  counterexample.
* Programs are isolated and can use what they were given, for requests that are
  not a multiple of a page. An exit empties the allocation table even if two entries
  hold one address, and no block of the process stays marked (`ExitReturnsAll`).
* A reader not more than one buffer behind gets what was typed; after a wrap an
  empty ring replays old keys.
* Reads in a file's first cluster are right when they start on a sector boundary
  or stay in a sector, although all descriptors share a stream; that covers the
  loaders, which read a whole file from position 0, for files of up to 64 KiB.
* No load loses a descriptor, so the table cannot fill and `load_binary`'s
  `fclose(0)` cannot happen. Nothing is freed twice unless a program without a
  stack ends. The known leaks are exactly those in `Leaks`.
* `fopen` finds the file a path denotes and no other, through nested directories
  and in any case of letters, on a disk with long names too (`OpensRightFile`). The
  conditions are those of `WayIsClear`, for the directories on the way: they end in
  their first cluster, names end before their fields do, nothing was deleted, and no
  long name or label reads like the name that is looked up. A missing file or
  directory, and memory that runs out, are not handled by the code and not by the
  property.
* A program that was started finds the words of its line in `argv`, for every
  command whose path fits its array. Such a command never makes the handler lose
  control, however long the line around it is, with three exceptions: the file is
  missing, memory runs out, or the line begins with `MaxPath` (100) spaces, which make
  one word more than `arguments[]` holds (`OnlySpaces`). A longer command may: its path
  runs into the line, or `strcat` never ends. The path is always parsed into the names it contains, although
  `memcmp` looks at one byte and nodes are counted by a rule of their own.
* A program sees its bytes where it was linked, with the right permissions, and
  its stack, if its segments ascend on pages of their own and none spills onto a
  page by its offset alone. It may write its own file's pages, its stack and the
  one heap page behind the stack; more only if a segment is longer than the file. Its
  bss is not cleared: it holds what follows in the file or in the heap.
* After the boot the disk has a complete file system or none, and no interrupt is
  taken before all that handlers need exists.
* What is printed is what the format says, except for the least int and for a
  format that ends with `%`; a `%s` longer than the buffer of `print` is cut, and
  `PrintsMeaning` takes the cut text for its meaning.
* The shell's string is the user's line unless erase was pressed on an empty line. The
  screen shows that line over as many rows as it takes, less what is below the last
  row (nothing scrolls) or cut by the right edge, until erase is pressed on an empty
  line or at the start of a row.

### Fairness

* `HeapLoops`: weak fairness of the loops. A call that has begun goes on, because
  interrupts are off and nothing else runs.
* `Keyboard`: weak fairness of `keyboard_pop`. `getchar`
  (`syslib/src/stdio/stdio.c:14-22`) asks again until it gets a key.

All other specifications are safety only. Deadlock is checked in every run;
states in which the machine spins or memory is corrupt have an explicit
stuttering action (`Stopped`, `Wild`, `Done`, `Waiting`).

## 4. Proofs

Each proof module has one inductive invariant, one lemma for each action that
shows it is kept, and the properties of the runs as consequences. TLC checked
every invariant on its run before it was proved.

| Module | Theorems | For every |
|---|---|---|
| `HeapProofs` | `HeapTypeCorrect`, `HeapDisjoint`, `HeapChains`, `HeapNoLeak`, `HeapDoubleFree`; the action property `HeapSpills`; the refinements `HeapImplementsAllocator` and `LoopsImplementHeap` | number of blocks, set of callers, of sizes, of offsets in a block |
| `KernelProofs` | `KernelOwnPages`, `KernelListIsExact`, `KernelKeyboardTarget`, `KernelTable`, `KernelContext`, `KernelStarterResumes`, `KernelKeysReachReader`, `KernelExitFindsTask` | number of tasks, process slots, steps |
| `ProcessMemoryProofs` | `ProcessAllocationsUsable`, `ProcessIsolation`, `ProcessExitReturnsAll` (an action property) | heap, set of programs, table length, set of sizes |
| `ProgramImageProofs` | `ImageStackMapped`, `ImageWritesConfined` | page size, addresses, set of files that `FilesAssumption` admits |
| `MachineProofs` | `KeyboardTypeCorrect`, `KeyboardUnreadIntact`, `KeyboardReadsInOrder` | ring size, number of keys and reads |
| | `LoaderDescriptors`, `LoaderFrees`, `LoaderEndsClean` | number of loads and of descriptors |
| | `BootFileSystem`, `BootInterrupts` | kind of disk, order of requests |
| `ConsoleProofs` | `ConsoleReturnsLine`, `ConsoleShowsLine`, `ConsoleCursorOnScreen` | buffer, screen and font size within 16 bits |
| `Fat16Proofs` | `FilesReadOwnBytes`, `FilesOpenRightFile` | sector and cluster size, number of descriptors, lengths of reads, disks that `DiskAssumption` admits, paths of any depth |
| `StringProofs` | `StartCommandSafe`, `StartParsesPath`, `StartArgvMatches` | line, size of the arrays, directory and suffix of programs, address of the stack |
| | `PrintfPrintsMeaning` | format, string, int, width of an int, size of `itoa`'s text |

### Invariants, and why they are needed

*Heap.* `Disjoint` is not inductive: `kmalloc` chooses free blocks by looking at the
flags, so the proof needs that an owned block is marked (`ChainsIntact`), and
`kfree` follows the flags, so it needs that the chain of a pointer ends where its
allocation does; that in turn needs that a free block has no flag left (`NoLeak`)
and that pointers are block addresses (`Aligned`). `IInv` is the conjunction of
these with `TypeOK` and `RecentIsFree`. The lemmas rest on `FreeBlock` (a block that
is returned is free, and so are all that follow within the table),
`ChainEndProperty` and `FreedBlocks` (what `kfree` clears is what the caller owned).
An allocation that spills owns the last block of the table (`OwnedIsTaken`), so no
second one can spill over it; this is why `Disjoint` holds past the end of the heap.

*HeapLoops.* `LoopInv` has one disjunct for each place a call can stand at. During
the search, `RunAt` says that the free run counted so far is maximal to the left and
that no long enough run begins before it, which makes the block it returns the first
fit of `Heap`. While it marks, the table is the old one with the chain written so
far; while it clears, the old one with the blocks of the chain so far freed. At the
return these are `Heap`'s table after the call.

*Kernel.* `ListIsExact` and `RunsOnOwnPages` hold only until a task with a stale
`prev` field leaves, and `ExitFindsTask` holds even afterwards; so the invariant must
say what is left of the list then. `ListInv` says: `next` fields go up and `prev`
fields down, a live task's `prev` is `NULL` or a task, live or not, whose `next` is
that task, and the list from `head` is exact up to some task `d` that has left (up to
the end while nothing is stale). `create_task` and `remove_from_task_list` keep it;
the lemmas are about these two operators alone, with no other state. The rest of
`KernelInv` ties the table (`IdIsSlot`, `HasSlot`), the saved registers and the nesting
(`Counted`, `Nested`) to the live tasks.

*ProcessMemory.* Being able to write one's own memory and no other are the two halves
of `WritableIsOwned`, and neither is inductive alone: `free` takes the pages of one
allocation away only if no other has them, which is `HeapDisjoint`. `LoopClears` says
that the loop of the exit leaves no entry behind it; without it the directory would
be dropped while memory is held. That a block still marked then has another owner is
`HeapNoLeak`, since the process has no entry left. The steps of the heap come from
`HeapStep`.

*ProgramImage.* The two properties speak of the moment a program starts. `ImageInv`
says which mappings are in the directory so far, in pages, and that later ones leave
them alone: segments because the linker has put them on ascending pages, the stack
because it ends below the program. `SegmentBytes` and `PieceBytes` translate to bytes.

*Keyboard.* `UnreadIntact` is not inductive: a reader that has run past the tail comes
to be behind it again, so the last `Size` characters are described whether read or not
(`LastInPlace`), and slots never used are still 0 (`RestIsZero`).

*Loader.* `Accounted` gives, for each step a load can stand at, exactly the objects it
holds. *Console.* `BufferHoldsLine` and `ScreenHoldsLine` tie buffer and screen to the
line in the middle of editing: letter k of the line is drawn in `Cell(home, k + 1)` and
the cursor stands at the next cell, also across the end of a row. The cells do not
overlap (`CellsApart`), so an erase takes away the last letter and no other. `OnGrid` says which rows and columns the cursor can
stand at. *Boot.* `KernelSoFar` and `DiskSoFar` give, for each call of `kernel_main`,
what exists before it, and `InterruptsOff` that they are off until the first program.

*Fat16.* `FileInv` is small, because a read depends on nothing that other descriptors
have done: the stream is sought before every sector. The work is in what the
recursions compute. `StreamReads` says which bytes a read of the stream delivers, and
that bytes of the stack are among them only if it begins inside a sector and crosses
its end; `FirstClusterRead` carries that to the cluster walk. For `OpensRightFile` the
invariant keeps what the last `fopen` got as the result of the search on this disk,
from some position of the stream (`LastOpen`). The search is then followed level by
level (`FindAgrees`): the item found and the set of entries the rules of FAT lead to
agree (`Agrees`). A directory that ends in its first cluster and has nothing deleted is
loaded whole, from wherever the stream stands (`LoadIs`, from `FirstClusterRead` with
reads of whole entries; `RootLoadIs` for the root), so what is searched is what the
directory holds (`Holds`). In it at most one entry means the name asked for, the labels
and long names do not read like it, and the names that `get_fat16_filename` joins and
strips are what the other entries mean if they end before their fields do
(`FilenameIs`, `MatchingIs`).

*StartCommand.* `HandlerInv` says, for every function, which string it finds in which
array of the frame. What is in `buffer` counts only for a path that fits: a longer one
has been written over it, which is why `ShortCommandsAreSafe` and `ArgvMatches` are about
fitting paths, and why the invariant must carry the line in `buffer` from the copy to
the split after `parse_path`. `WordsInv` ties the arguments to the line: word i is what
stands between the delimiters i - 1 and i (`IsWords`), and after the last step the
stack holds the strings, the pointers to them, `argv` and `argc` without overlap
(`Delivered`, from `StringsStored`, `PointersStored` and `Layout`). `ParsesPath` rests on
`ScanStep`: after i turns the loop has named the parts that end before i and knows
where the open one began. `DepthSuffices` shows that the nodes are enough, although
`get_path_depth` counts slashes and `create_path` counts parts.

*Printf.* `PrintsMeaning` speaks of the end of `printf`; `PrintfInv` says after every turn
that a reader of the format, stopped at `pos`, would have produced `out` and used all
arguments taken so far (`Printed`). Taking one more argument must not change what was
read before (`TraceKept`). `NumeralIs` shows that dividing by ten until nothing is left
gives the decimal numeral, and `ItoaIs` that it is what is read back from `text`,
whatever text held before.

### Induction over data

The provers have no induction, and the library's induction theorems take a predicate
as a parameter, which they cannot instantiate. `UpTo` is induction stated for a *set*
of numbers; it follows from the existence of least elements, which the library has for
subsets of `Nat`. `Recursion` derives from it that a recursive definition whose steps stay in a
set has a solution, without which nothing at all follows from the definition. Each
recursive function of `Fat16`, `CString`, `StartCommand` and `Printf` has its own lemma
on top of these two. For this the recursions of those modules are recursive functions
over an interval of numbers, never `RECURSIVE` operators or folds.

### Assumptions

They are the `ASSUME`s of the modules; TLC evaluates them in the runs. Most say that a
constant is a (positive) natural number. The others: request sizes are naturals and
offsets lie inside a block (`Heap`); the tables' entries and the kernel are the callers
(`ProcessMemory`); the prompt fits in a row and coordinates fit in 16 bits (`Console`), without which `move_to_next_col` compares a column that has already
wrapped around; the stack fits below the program (`StackAssumption` of `ProgramImage`); a file's headers
are what the linker scripts of `programs/` produce (`FilesAssumption`): loadable
segments from the program's address on, at addresses congruent to their file offsets,
and other headers below. The last is needed because `process_map_memory_to_elf` maps
every header, of whatever type.

`GeometryAssumption` and `DiskAssumption` say what a FAT16 disk is: positive sizes, a whole
number of entries in a sector, fields of eight and three bytes, a root directory that
is not full, and directories that end within `MaxSlots` slots; a full root or a
directory without an end makes `get_total_entries_for_directory` count on into what
follows. Names are not restricted: that a directory holds a name once, without which
"the file a path denotes" has no meaning, is a condition of the property (`Orderly`).
`StartAssumption`: as many arguments may be given as a line has characters, a
program's path begins with drive and colon, and prefix and suffix alone fit their array
(`0:/bin/` and `.elf` in 100 characters). `StackAssumption` of `StartCommand`: addresses
on the stack fit in a word, and a line with a pointer for each of its characters fits
below the stack's top. `PrintfAssumption`: the longest numeral with sign and NUL fits
in `itoa`'s text and in `print`'s buffer (12 and 1024 characters for 32 bits), and formats
and strings do not hold a NUL.

### Only model-checked

Liveness: `CallsReturn` and `TypedIsRead` need fairness, which is out of the
prover's reach. Every invariant and every action property of the runs is proved.

Two definitions changed when they were proved about: `Boot`'s `HandlerEnds` and
`Console`'s `terminal_backspace` had a `CASE` with overlapping arms, which TLC
resolves in order but TLA+ leaves open; both are `IF`s now, as in the code. Folds over
strings and directories became recursive functions (`Fat16`, `CString`'s `Tokens`, `Scan`,
`WithStrings`, `Meaning`), and powers a table (`Powers`), because the provers know nothing
of folds and of `^`.

## 5. Not modelled

* Out of memory in `create_task`, `init_process`, `parse_path`, `elf_load`: the
  result is used unchecked and address 0 is written, where the heap's own
  descriptor lies. `Loader` and `StartCommand` stop there.
* `kfree(0)`, which clears bytes before the heap's table, and `realloc`,
  `keyboard_backspace`, `arg_parse`, `digit_to_char` and the accessors of ELF
  section headers, which have no caller.
* Lines that hold a character other than letters, spaces and slashes: the code
  between the line and `argv` does not look at them.
* The modes other than `"r"` of `fopen` and drives other than 0, which no caller
  passes.
* The contents of the GDT, TSS and interrupt descriptors, the real-mode boot
  sector, the remapping of the interrupt controller: bits that hardware reads.
  `Boot` has their order only.
* The heap is fresh during `Boot`; small allocations succeed there. The root
  directory's may fail.
* Pixels and glyphs (`vesa.c`, `psf_putc`): that a letter overhanging the right edge
  goes on at the left edge one pixel row lower, and what is hit by letters drawn
  behind the framebuffer. The loop of `psf_init` over the font's
  unicode table never runs: its start is computed by pointer arithmetic on
  `psf_font_t` and lies behind the font.
* The wait for the disk controller, and the byte that the keyboard handler's
  second `insb` may lose.
* `examples/`, `programs/blank`.

## 6. Plan

Done: all modules of section 2, their runs, and the proofs of section 4. What is left:

1. Input composed: `Kernel` with one `Keyboard` ring for each process, to see which
   keys a user loses when `current_process` and `current_task` differ.
   `KeysReachReader` says when they do not.
