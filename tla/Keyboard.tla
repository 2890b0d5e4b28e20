------------------------------ MODULE Keyboard ------------------------------
(***************************************************************************)
(* The keyboard: the interrupt handler of src/keyboard/classic.c, which    *)
(* translates scan codes and keeps the caps lock state, and the ring       *)
(* buffer of a process (src/keyboard/keyboard.c).  The handler pushes, the *)
(* get-key command of the program pops; each runs with interrupts off and  *)
(* is one step, in any order.                                              *)
(*                                                                         *)
(* Scan codes are reduced to the cases the handler tells apart: a letter,  *)
(* another key with a character, caps lock, a key without a character, and *)
(* the release of a key.                                                   *)
(***************************************************************************)
EXTENDS Integers, Sequences

CONSTANTS Size,       \* ZHIOS_MAX_KEYBOARD_BUFFER_SIZE (1024 in the kernel)
          MaxKeys,    \* bound: characters pushed
          MaxReads    \* bound: how far the reader's index goes

ASSUME SizeAssumption == Size \in Nat \ {0}
ASSUME BoundsAssumption == MaxKeys \in Nat /\ MaxReads \in Nat

Scancodes == {"letter", "other", "capslock", "blank", "released"}
Chars == {"a", "A", "1"}
NUL == "NUL"          \* the character 0

VARIABLES buffer, head, tail,   \* process.keyboard_buffer
          capslock_on,          \* classic.capslock_on
          pushed,               \* ghost: all characters pushed
          got                   \* ghost: all characters popped

keyboardVars == <<buffer, head, tail, capslock_on, pushed, got>>

Slots == 0..(Size - 1)

TypeOK == /\ buffer \in [Slots -> Chars \cup {NUL}]
          /\ head \in 0..MaxReads
          /\ tail \in 0..MaxKeys
          /\ capslock_on \in BOOLEAN
          /\ pushed \in Seq(Chars)
          /\ got \in Seq(Chars)

\* The Process is zeroed when it is loaded; capslock_on survives processes.
KeyboardInit ==
  /\ buffer = [i \in Slots |-> NUL]
  /\ head = 0 /\ tail = 0
  /\ capslock_on \in BOOLEAN
  /\ pushed = <<>> /\ got = <<>>

\* Mutants: both indices one slot further.
HeadOneOff == (head + 1) % Size
TailOneOff == (tail + 1) % Size

keyboard_get_head_index == head % Size
keyboard_get_tail_index == tail % Size

classic_get_key_from_scancode(code, caps) ==
  CASE code = "letter" -> IF caps THEN "A" ELSE "a"
    [] code = "other"  -> "1"
    [] OTHER           -> NUL

\* tail runs on without looking at head: a full buffer is overwritten.
keyboard_push(c) ==
  IF c = NUL THEN UNCHANGED <<buffer, tail, pushed>>
  ELSE /\ buffer' = [buffer EXCEPT ![keyboard_get_tail_index] = c]
       /\ tail' = tail + 1
       /\ pushed' = Append(pushed, c)

\* The release of a key returns at once; caps lock changes the case of the
\* letters that follow and has no character of its own.
classic_keyboard_interrupt_handler(code) ==
  \/ code = "released" /\ UNCHANGED keyboardVars
  \/ /\ code # "released"
     /\ tail < MaxKeys
     /\ capslock_on' = IF code = "capslock" THEN ~capslock_on ELSE capslock_on
     /\ keyboard_push(classic_get_key_from_scancode(code, capslock_on'))
     /\ UNCHANGED <<head, got>>

\* Mutant: the character is returned but head stays.
PopStays ==
  /\ head < MaxReads
  /\ buffer[keyboard_get_head_index] # NUL
  /\ got' = Append(got, buffer[keyboard_get_head_index])
  /\ Len(got) < MaxReads
  /\ UNCHANGED <<head, buffer, tail, capslock_on, pushed>>

\* pop does not look at tail: it takes the slot unless it holds 0, and leaves
\* the character there.
keyboard_pop ==
  /\ head < MaxReads
  /\ IF buffer[keyboard_get_head_index] = NUL
     THEN UNCHANGED <<head, got>>
     ELSE /\ head' = head + 1
          /\ got' = Append(got, buffer[keyboard_get_head_index])
  /\ UNCHANGED <<buffer, tail, capslock_on, pushed>>

KeyboardNext ==
  \/ \E code \in Scancodes : classic_keyboard_interrupt_handler(code)
  \/ keyboard_pop

\* The program asks for keys again and again (getchar, stdio.c:14-22).
KeyboardSpec == KeyboardInit /\ [][KeyboardNext]_keyboardVars /\ WF_keyboardVars(keyboard_pop)

-----------------------------------------------------------------------------
(* Properties.                                                             *)

\* While the reader is no more than one buffer behind, every character it has
\* not read is still in its slot: a push overwrites nothing unread.
UnreadIntact ==
  head <= tail /\ tail - head <= Size =>
     \A k \in head..(tail - 1) : buffer[k % Size] = pushed[k + 1]

\* Until the buffer has wrapped once, the reader gets the characters in the
\* order they were typed, each once, and nothing else.  The bound is exact:
\* after Size characters a read of the empty buffer finds an old one, because
\* pop does not clear slots.
ReadsInOrder == tail < Size => head <= tail /\ got = SubSeq(pushed, 1, head)

\* What was typed before the buffer wrapped is read in the end.
TypedIsRead ==
  \A n \in 1..MaxKeys :
     (tail = n /\ n < Size) ~> (head >= n)
=============================================================================
