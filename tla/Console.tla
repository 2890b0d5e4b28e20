------------------------------ MODULE Console -------------------------------
(***************************************************************************)
(* The shell reads a line: read_line (syslib/src/stdio/stdio.c) edits its  *)
(* buffer and echoes every key, and the terminal (src/terminal/terminal.c) *)
(* moves its cursor and draws.  Neither knows of the other: the line the   *)
(* user sees and the line the shell gets are kept equal by the echo alone. *)
(***************************************************************************)
EXTENDS Integers, Sequences, SequencesExt, FiniteSetsExt

CONSTANTS
  BufferSize,                \* length of the shell's buffer (1024)
  Margin,                    \* TERMINAL_MARGIN
  Width, Height,             \* of the video mode, in pixels
  FontWidth, FontHeight,     \* of the font, in pixels
  MaxKeys                    \* bound: keys pressed

Word == 65536                \* terminal_col and terminal_row are uint16_t

\* The prompt fits in a row.  width and height are uint16_t too, and no mode is
\* so wide that the column after the last one would not be.
ASSUME ConsoleAssumption ==
  /\ {BufferSize, Margin, Width, Height, FontWidth, FontHeight} \subseteq Nat \ {0}
  /\ Margin + 2 * (FontWidth + 1) < Width
  /\ Width + FontWidth < Word /\ Height < Word

NUL == "NUL"                 \* the character 0
BS == "BS"                   \* 0x08
CR == "CR"                   \* 13, the enter key
Letters == {"a", "b"}

VARIABLES
  buffer, i,       \* of read_line; buffer[BufferSize] is the byte after the buffer
  reading,         \* read_line runs, otherwise the shell
  cursor,          \* terminal_col and terminal_row
  shown,           \* what the screen shows of what was drawn since the prompt
  line,            \* ghost: the line a user means to have typed
  home,            \* ghost: the cursor after the prompt
  overErased,      \* ghost: erase was pressed on an empty line
  unwrapped,       \* ghost: erase was pressed at the start of a row of this line
  crossed,         \* ghost: the cursor went back to a previous row
  rows,            \* ghost: rows begun
  keys             \* ghost: keys pressed

screen == <<cursor, shown, unwrapped, crossed, rows>>
vars == <<buffer, i, reading, line, home, overErased, keys, screen>>

Cursors == [col : 0..(Word - 1), row : 0..(Word - 1)]

-----------------------------------------------------------------------------
(* The terminal's cursor.                                                  *)

StepX == FontWidth + 1

move_to_next_row(c) ==
  [col |-> Margin, row |-> (c.row + FontHeight + 1) % Word]

\* Moves up by less than move_to_next_row moves down.
move_to_prev_row(c) == [c EXCEPT !.row = (@ - (FontHeight - 1)) % Word]

\* Mutant: one column is as wide as a character, without the gap.
NextColNoGap(c) == [c EXCEPT !.col = (@ + FontWidth) % Word]

move_to_next_col(c) == [c EXCEPT !.col = (@ + StepX) % Word]
move_to_prev_col(c) == [c EXCEPT !.col = (@ - StepX) % Word]

AtOrigin(c) == c = [col |-> Margin, row |-> Margin]
AtRowStart(c) == c.col = Margin

\* Where the cursor goes and which cell is cleared.
terminal_backspace(c) ==
  IF AtOrigin(c) THEN c
  ELSE IF AtRowStart(c) THEN move_to_prev_col([move_to_prev_row(c) EXCEPT !.col = Width])
  ELSE move_to_prev_col(c)

\* Mutant: the end of the row is not looked at.
NeverFull(c) == FALSE

RowFull(c) == c.col >= Width

\* Where the cursor goes when a character is drawn.
terminal_writechar(c) ==
  LET n == move_to_next_col(c) IN IF RowFull(n) THEN move_to_next_row(n) ELSE n

\* write_to_screen looks at no bounds.  A letter is on the screen if all of it
\* is; what is drawn below the last pixel row is behind the framebuffer.
OnScreen(c) == c.col + FontWidth <= Width /\ c.row + FontHeight <= Height

\* The letter at d has pixels among those that psf_clear_char clears at c.
Covers(c, d) == /\ d.col \in (c.col - FontWidth + 1)..(c.col + FontWidth - 1)
                /\ d.row \in (c.row - FontHeight + 1)..(c.row + FontHeight - 1)

\* The prompt, "> ".
Prompt(c) == terminal_writechar(terminal_writechar(c))

-----------------------------------------------------------------------------

Init ==
  /\ \E c \in {NUL, "a"} : buffer = [k \in 0..BufferSize |-> c]   \* not initialised
  /\ i = 0
  /\ reading = TRUE
  /\ home = Prompt([col |-> Margin, row |-> Margin])
  /\ cursor = home
  /\ shown = {} /\ line = <<>>
  /\ overErased = FALSE /\ unwrapped = FALSE /\ crossed = FALSE
  /\ rows = 1 /\ keys = 0

Key == /\ reading
       /\ i < BufferSize
       /\ keys < MaxKeys
       /\ keys' = keys + 1

\* The echo of a letter.
Echo(key) ==
  /\ shown' = shown \cup {s \in {[at |-> cursor, char |-> key]} : OnScreen(s.at)}
  /\ cursor' = terminal_writechar(cursor)
  /\ rows' = IF RowFull(move_to_next_col(cursor)) THEN rows + 1 ELSE rows
  /\ UNCHANGED <<unwrapped, crossed>>

\* The echo of 0x08.
EchoErase ==
  /\ cursor' = terminal_backspace(cursor)
  /\ shown' = IF AtOrigin(cursor) THEN shown ELSE {s \in shown : ~Covers(cursor', s.at)}
  /\ unwrapped' = (unwrapped \/ AtRowStart(cursor))
  /\ crossed' = (crossed \/ (AtRowStart(cursor) /\ ~AtOrigin(cursor)))
  /\ UNCHANGED rows

read_line_letter(key) ==
  /\ Key
  /\ Echo(key)
  /\ buffer' = [buffer EXCEPT ![i] = key]
  /\ i' = i + 1
  /\ line' = Append(line, key)
  /\ UNCHANGED <<reading, home, overErased>>

\* Mutant: the index stays.
BackNone == i

\* i -= 2, and the increment of the loop.
Back == i - 1

\* On an empty line the erase key is echoed and stored like a letter.
read_line_erase ==
  /\ Key
  /\ EchoErase
  /\ \/ /\ i >= 1
        /\ buffer' = [buffer EXCEPT ![i - 1] = NUL]
        /\ i' = Back
        /\ line' = IF line = <<>> THEN <<>> ELSE Front(line)
        /\ UNCHANGED overErased
     \/ /\ i = 0
        /\ buffer' = [buffer EXCEPT ![i] = BS]
        /\ i' = i + 1
        /\ overErased' = TRUE
        /\ UNCHANGED line
  /\ UNCHANGED <<reading, home>>

\* The terminating 0 goes to buffer[i], also when i = BufferSize.
Terminate ==
  /\ buffer' = [buffer EXCEPT ![i] = NUL]
  /\ reading' = FALSE
  /\ UNCHANGED <<i, line, home, overErased, screen>>

read_line_enter == Key /\ Terminate

read_line_full == reading /\ i = BufferSize /\ UNCHANGED keys /\ Terminate

\* The shell starts the program, which prints nothing here, prints two line
\* feeds and the prompt, and calls read_line with the same buffer.
shell_main ==
  /\ ~reading
  /\ reading' = TRUE
  /\ i' = 0
  /\ home' = Prompt(move_to_next_row(move_to_next_row(cursor)))
  /\ cursor' = home'
  /\ rows' = rows + 2
  /\ shown' = {} /\ line' = <<>>
  /\ overErased' = FALSE /\ unwrapped' = FALSE
  /\ UNCHANGED <<buffer, crossed, keys>>

\* No more keys are pressed.
Waiting == reading /\ i < BufferSize /\ keys = MaxKeys /\ UNCHANGED vars

Next == \/ \E key \in Letters : read_line_letter(key)
        \/ read_line_erase
        \/ read_line_enter
        \/ read_line_full
        \/ shell_main
        \/ Waiting

Spec == Init /\ [][Next]_vars

-----------------------------------------------------------------------------
(* Properties.                                                             *)

\* The string in a buffer: up to the first 0.
Ends == {k \in 0..BufferSize : buffer[k] = NUL}
String == [k \in 1..Min(Ends) |-> buffer[k - 1]]

\* When read_line returns, the shell's string is the line the user edited,
\* although the buffer still holds the previous line, unless erase was
\* pressed on the empty line (stdio.c:63-86).
ReturnsEditedLine == ~reading /\ ~overErased => String = line

\* Characters in a row, and the cell of the j-th one after the start of the
\* row of the cursor h, from 0: the prompt has the first two.
Columns == (Width - Margin + FontWidth) \div StepX
Cell(h, j) == [col |-> Margin + (j % Columns) * StepX,
               row |-> h.row + (j \div Columns) * (FontHeight + 1)]

\* The screen shows the line, every letter in its place, in as many rows as
\* it takes, and nothing that was erased: all letters but those below the
\* screen, which does not scroll, and those cut by its right edge.  Not so
\* when erase was pressed on the empty line or at the start of a row, or when
\* the row does not fit in 16 bits (terminal.c:33-87, vesa.c:6-13).
ShowsEditedLine ==
  ~unwrapped /\ ~overErased /\ Cell(home, Len(line) + 2).row < Word =>
    shown = {s \in {[at |-> Cell(home, k + 1), char |-> line[k]] : k \in DOMAIN line} :
               OnScreen(s.at)}

\* The cursor stays on the screen as long as it is never moved back to a
\* previous row and no more rows are begun than fit: there is no scrolling.
Rows == (Height - Margin) \div (FontHeight + 1)
CursorOnScreen ==
  ~crossed /\ rows <= Rows =>
    /\ cursor.col >= Margin /\ cursor.col < Width
    /\ cursor.row >= Margin /\ cursor.row + FontHeight <= Height
=============================================================================
