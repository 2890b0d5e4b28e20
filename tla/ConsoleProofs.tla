--------------------------- MODULE ConsoleProofs ---------------------------
(***************************************************************************)
(* Proofs about the shell's line and the screen, for any size of buffer,   *)
(* font and screen and any number of keys.                                 *)
(***************************************************************************)
EXTENDS Console, SequenceTheorems, TLAPS

-----------------------------------------------------------------------------
(* The cursor.                                                             *)

\* Arithmetic on 16 bits; the number itself is not needed.
LEMMA Remainder ==
  /\ Word \in Nat \ {0}
  /\ \A x \in 0..(Word - 1) : x % Word = x
  /\ \A x \in Int : x % Word \in 0..(Word - 1)
<1>1. Word \in Nat \ {0}
  BY DEF Word
<1>2. ASSUME NEW w \in Nat \ {0}
      PROVE  /\ \A x \in 0..(w - 1) : x % w = x
             /\ \A x \in Int : x % w \in 0..(w - 1)
  OBVIOUS
<1>. QED
  BY <1>1, <1>2

\* The widths and heights are numbers.
LEMMA Dimensions ==
  /\ BufferSize \in Nat /\ BufferSize > 0
  /\ Margin \in Nat /\ Margin > 0 /\ Width \in Nat /\ Height \in Nat
  /\ FontWidth \in Nat /\ FontHeight \in Nat /\ StepX \in Nat /\ StepX > 0
  /\ StepX = FontWidth + 1 /\ Margin + 2 * StepX < Width
  /\ Width + StepX <= Word /\ Height < Word
BY ConsoleAssumption, Remainder DEF StepX

\* Left of the screen's edge the next column is one step to the right.
LEMMA NextCol ==
  ASSUME NEW c \in Cursors, c.col < Width
  PROVE  move_to_next_col(c) = [col |-> c.col + StepX, row |-> c.row]
<1>1. c.col \in 0..(Word - 1) /\ c = [col |-> c.col, row |-> c.row]
  BY DEF Cursors
<1>2. (c.col + StepX) % Word = c.col + StepX
  <2>1. c.col + StepX \in 0..(Word - 1)
    BY <1>1, Dimensions, Remainder
  <2>. QED
    BY <2>1, Remainder
<1>. QED
  BY <1>1, <1>2 DEF move_to_next_col, Cursors

\* The previous column is one step to the left if there is one.
LEMMA PrevCol ==
  ASSUME NEW c \in Cursors, c.col >= StepX
  PROVE  move_to_prev_col(c) = [col |-> c.col - StepX, row |-> c.row]
<1>1. c.col \in 0..(Word - 1) /\ c = [col |-> c.col, row |-> c.row]
  BY DEF Cursors
<1>2. (c.col - StepX) % Word = c.col - StepX
  <2>1. c.col - StepX \in 0..(Word - 1)
    BY <1>1, Dimensions, Remainder
  <2>. QED
    BY <2>1, Remainder
<1>. QED
  BY <1>1, <1>2 DEF move_to_prev_col, Cursors

\* A cursor stays two numbers of 16 bits.
LEMMA CursorTypes ==
  ASSUME NEW c \in Cursors
  PROVE  /\ move_to_next_col(c) \in Cursors
         /\ move_to_next_row(c) \in Cursors
         /\ terminal_writechar(c) \in Cursors
         /\ terminal_backspace(c) \in Cursors
<1>1. \A x \in Int : x % Word \in 0..(Word - 1)
  BY Remainder
<1>2. /\ c.col \in Int /\ c.row \in Int /\ c.col \in 0..(Word - 1) /\ c.row \in 0..(Word - 1)
      /\ c = [col |-> c.col, row |-> c.row]
  BY Remainder DEF Cursors
<1>3. move_to_next_col(c) \in Cursors
  <2>1. (c.col + StepX) % Word \in 0..(Word - 1)
    BY <1>1, <1>2, Dimensions
  <2>. QED
    BY <1>2, <2>1 DEF move_to_next_col, Cursors
<1>4. ASSUME NEW d \in Cursors PROVE move_to_next_row(d) \in Cursors
  <2>1. (d.row + FontHeight + 1) % Word \in 0..(Word - 1) /\ Margin \in 0..(Word - 1)
    BY <1>1, Dimensions, Remainder DEF Cursors
  <2>. QED
    BY <2>1 DEF move_to_next_row, Cursors
<1>5. move_to_prev_col(c) \in Cursors
  <2>1. (c.col - StepX) % Word \in 0..(Word - 1)
    BY <1>1, <1>2, Dimensions
  <2>. QED
    BY <1>2, <2>1 DEF move_to_prev_col, Cursors
<1>6. move_to_prev_col([move_to_prev_row(c) EXCEPT !.col = Width]) \in Cursors
  <2>1. PICK y : y = (c.row - (FontHeight - 1)) % Word
    OBVIOUS
  <2>2. y \in 0..(Word - 1)
    BY <1>1, <1>2, <2>1, Dimensions
  <2>3. move_to_prev_row(c) = [col |-> c.col, row |-> y]
    BY <1>2, <2>1 DEF move_to_prev_row, Cursors
  <2>4. [move_to_prev_row(c) EXCEPT !.col = Width] = [col |-> Width, row |-> y]
    BY <2>3
  <2>5. move_to_prev_col([col |-> Width, row |-> y]) = [col |-> (Width - StepX) % Word, row |-> y]
    BY DEF move_to_prev_col
  <2>6. (Width - StepX) % Word \in 0..(Word - 1)
    BY <1>1, Dimensions
  <2>. QED
    BY <2>2, <2>4, <2>5, <2>6 DEF Cursors
<1>. QED
  BY <1>3, <1>4, <1>5, <1>6 DEF terminal_writechar, terminal_backspace

\* A letter drawn left of the last column of its row.
LEMMA WriteInRow ==
  ASSUME NEW c \in Cursors, c.col < Width
  PROVE  /\ RowFull(move_to_next_col(c)) <=> c.col + StepX >= Width
         /\ c.col + StepX < Width =>
              terminal_writechar(c) = [col |-> c.col + StepX, row |-> c.row]
         /\ c.col + StepX >= Width =>
              terminal_writechar(c) = [col |-> Margin, row |-> (c.row + FontHeight + 1) % Word]
<1>1. move_to_next_col(c) = [col |-> c.col + StepX, row |-> c.row]
  BY NextCol
<1>2. RowFull(move_to_next_col(c)) <=> c.col + StepX >= Width
  BY <1>1 DEF RowFull
<1>3. c.col + StepX >= Width <=> ~(c.col + StepX < Width)
  <2>1. c.col \in Int
    BY Remainder DEF Cursors
  <2>. QED
    BY <2>1, Dimensions
<1>. QED
  BY <1>1, <1>2, <1>3 DEF terminal_writechar, move_to_next_row

\* The prompt is drawn in the row that it begins.
LEMMA PromptInRow ==
  ASSUME NEW c \in Cursors, c.col = Margin
  PROVE  Prompt(c) \in Cursors /\ Prompt(c) = [col |-> Margin + 2 * StepX, row |-> c.row]
<1>1. PICK d : d = terminal_writechar(c)
  OBVIOUS
<1>2. d \in Cursors /\ d = [col |-> Margin + StepX, row |-> c.row]
  BY <1>1, WriteInRow, CursorTypes, Dimensions
<1>3. d.col = Margin + StepX /\ d.row = c.row
  BY <1>2
<1>4. d.col < Width /\ d.col + StepX < Width /\ d.col + StepX = Margin + 2 * StepX
  BY <1>3, Dimensions
<1>5. terminal_writechar(d) \in Cursors
  BY <1>2, CursorTypes
<1>6. terminal_writechar(d) = [col |-> d.col + StepX, row |-> d.row]
  BY <1>2, <1>4, WriteInRow
<1>. QED
  BY <1>1, <1>3, <1>4, <1>5, <1>6 DEF Prompt

-----------------------------------------------------------------------------
(* The letters on the screen.                                              *)

\* Multiples of a step.
LEMMA Multiples ==
  ASSUME NEW s \in Nat, s > 0
  PROVE  /\ 0 * s = 0
         /\ \A n \in Nat : n * s \in Nat /\ (n + 1) * s = n * s + s
         /\ \A n \in Nat : n > 0 => (n - 1) * s = n * s - s /\ n * s >= s
         /\ \A j, k \in Nat : j < k => j * s + s <= k * s
<1>1. 0 * s = 0 /\ \A n \in Nat : n * s \in Nat /\ (n + 1) * s = n * s + s
  OBVIOUS
<1>2. ASSUME NEW n \in Nat, n > 0 PROVE (n - 1) * s = n * s - s /\ n * s >= s
  <2>1. n - 1 \in Nat /\ (n - 1) * s \in Nat
    BY <1>1, <1>2
  <2>2. ((n - 1) + 1) * s = (n - 1) * s + s
    BY <1>1, <2>1
  <2>3. (n - 1) + 1 = n
    OBVIOUS
  <2>. QED
    BY <2>1, <2>2, <2>3
<1>3. ASSUME NEW j \in Nat, NEW k \in Nat, j < k PROVE j * s + s <= k * s
  <2>1. PICK m \in Nat : k = (j + 1) + m
    <3>1. k - (j + 1) \in Nat /\ k = (j + 1) + (k - (j + 1))
      BY <1>3
    <3>. QED
      BY <3>1
  <2>2. k * s = (j + 1) * s + m * s
    BY <2>1
  <2>3. (j + 1) * s = j * s + s /\ m * s \in Nat /\ j * s \in Nat
    BY <1>1
  <2>. QED
    BY <2>2, <2>3
<1>. QED
  BY <1>1, <1>2, <1>3

\* Quotient and remainder, and what they are of a multiple and a rest.
LEMMA Division ==
  ASSUME NEW c \in Nat, c > 0
  PROVE  /\ \A j \in Nat : \E q \in Nat, r \in Nat :
               q = j \div c /\ r = j % c /\ r < c /\ j = q * c + r
         /\ \A j, q, r \in Nat : r < c /\ j = q * c + r => j \div c = q /\ j % c = r
<1>1. ASSUME NEW j \in Nat
      PROVE  /\ j \div c \in Nat /\ j % c \in Nat /\ j % c < c /\ j = (j \div c) * c + (j % c)
  <2>0. j \div c \in Int /\ j = c * (j \div c) + (j % c) /\ j % c \in 0..(c - 1)
    OBVIOUS
  <2>1. /\ j \div c \in Int /\ j % c \in Nat /\ j % c < c /\ j = c * (j \div c) + (j % c)
    BY <2>0
  <2>2. PICK q \in Int : q = j \div c
    BY <2>1
  <2>3. c * q = q * c
    OBVIOUS
  <2>4. q >= 0
    <3>1. SUFFICES ASSUME q < 0 PROVE FALSE
      OBVIOUS
    <3>2. PICK n \in Nat : n = 0 - q /\ n > 0
      BY <3>1
    <3>3. n * c >= c /\ n * c \in Nat
      BY <3>2, Multiples
    <3>4. c * q = 0 - n * c
      BY <3>2
    <3>. QED
      BY <2>1, <2>2, <3>3, <3>4
  <2>5. q \in Nat
    BY <2>4
  <2>. QED
    BY <2>1, <2>2, <2>3, <2>5, Zenon
<1>2. ASSUME NEW j \in Nat, NEW q \in Nat, NEW r \in Nat, r < c, j = q * c + r
      PROVE  j \div c = q /\ j % c = r
  <2>1. q * c \in Nat
    BY Multiples
  <2>3. PICK k \in Nat, t \in Nat : k = j \div c /\ t = j % c /\ t < c /\ j = k * c + t
    BY <1>1
  <2>4. k * c \in Nat /\ (k < q => k * c + c <= q * c) /\ (q < k => q * c + c <= k * c)
    BY Multiples
  <2>5. PICK x \in Nat, y \in Nat : x = q * c /\ y = k * c
    BY <2>1, <2>4
  <2>6. /\ x + r = y + t /\ (k < q => y + c <= x) /\ (q < k => x + c <= y)
    BY <1>2, <2>3, <2>4, <2>5
  <2>7. k = q
    BY <1>2, <2>3, <2>6
  <2>8. r = t
    BY <2>5, <2>6, <2>7
  <2>. QED
    BY <2>3, <2>7, <2>8
<1>3. ASSUME NEW j \in Nat
      PROVE  \E q \in Nat, r \in Nat : q = j \div c /\ r = j % c /\ r < c /\ j = q * c + r
  <2>1. /\ j \div c \in Nat /\ j % c \in Nat /\ j % c < c /\ j = (j \div c) * c + (j % c)
    BY <1>1
  <2>. QED
    BY <2>1, Zenon
<1>. QED
  BY <1>2, <1>3

RowHeight == FontHeight + 1

\* The last column begins left of the edge, and no column after it does.
LEMMA GridColumns ==
  /\ Columns \in Nat /\ Columns > 2
  /\ (Columns - 1) * StepX \in Nat /\ Columns * StepX \in Nat
  /\ Columns * StepX = (Columns - 1) * StepX + StepX
  /\ Margin + (Columns - 1) * StepX < Width /\ Width <= Margin + Columns * StepX
<1>1. PICK x \in Nat, c \in Nat : /\ x = Width - Margin + FontWidth /\ c = StepX /\ c > 0
                                  /\ c = FontWidth + 1
  BY Dimensions
<1>a. c > 0
  BY <1>1
<1>2. PICK q \in Nat, r \in Nat : q = x \div c /\ r = x % c /\ r < c /\ x = q * c + r
  BY <1>a, Division, Zenon
<1>3. Columns = q
  BY <1>1, <1>2 DEF Columns
<1>4. PICK p \in Nat : p = q * c
  BY <1>1, Multiples
<1>5. Width - Margin <= p /\ p - c < Width - Margin /\ 2 * c < p
  BY <1>1, <1>2, <1>4, Dimensions
<1>6. q > 2
  <2>1. q * c \in Nat /\ (q < 2 => q * c + c <= 2 * c)
    BY <1>1, Multiples
  <2>. QED
    BY <1>4, <1>5, <2>1
<1>7. (q - 1) * c = q * c - c /\ q * c >= c
  BY <1>1, <1>6, Multiples
<1>8. (q - 1) * c = p - c /\ p >= c
  BY <1>4, <1>7
<1>9. (q - 1) * c \in Nat /\ p = (q - 1) * c + c /\ Margin + (q - 1) * c < Width
  BY <1>1, <1>4, <1>5, <1>8, Dimensions
<1>10. Width <= Margin + p
  BY <1>5, <1>4, Dimensions
<1>. QED
  BY <1>1, <1>3, <1>4, <1>6, <1>9, <1>10

\* Column and row of a cell.
LEMMA CellIs ==
  ASSUME NEW h \in Cursors, NEW j \in Nat
  PROVE  \E m \in Nat, q \in Nat :
           /\ m = j % Columns /\ q = j \div Columns /\ m < Columns /\ j = q * Columns + m
           /\ m * StepX \in Nat /\ m * StepX <= (Columns - 1) * StepX
           /\ q * RowHeight \in Nat /\ RowHeight \in Nat /\ RowHeight > 0
           /\ Cell(h, j) = [col |-> Margin + m * StepX, row |-> h.row + q * RowHeight]
           /\ h.row \in Nat /\ Cell(h, j).col \in Nat /\ Cell(h, j).col < Width
           /\ Cell(h, j).row \in Nat
<1>1. PICK c \in Nat : c = Columns /\ c > 2
  BY GridColumns
<1>2. PICK m \in Nat, q \in Nat : m = j % c /\ q = j \div c /\ m < c /\ j = q * c + m
  BY <1>1, Division
<1>3. RowHeight \in Nat /\ RowHeight > 0 /\ h.row \in Nat
  BY Dimensions, Remainder DEF RowHeight, Cursors
<1>4. q * RowHeight \in Nat
  BY <1>3, Multiples
<1>5. m * StepX \in Nat /\ m * StepX <= (c - 1) * StepX
  <2>1. c - 1 \in Nat /\ (m < c - 1 \/ m = c - 1)
    BY <1>1, <1>2
  <2>2. m * StepX \in Nat /\ (m < c - 1 => m * StepX + StepX <= (c - 1) * StepX)
    BY <2>1, Multiples, Dimensions
  <2>3. (c - 1) * StepX \in Nat
    BY <1>1, GridColumns
  <2>. QED
    BY <2>1, <2>2, <2>3, Dimensions
<1>6. Cell(h, j) = [col |-> Margin + m * StepX, row |-> h.row + q * RowHeight]
  BY <1>1, <1>2 DEF Cell, RowHeight
<1>7. Margin + m * StepX < Width /\ Margin + m * StepX \in Nat
  <2>1. PICK x \in Nat, y \in Nat : x = m * StepX /\ y = (c - 1) * StepX
    BY <1>1, <1>5, GridColumns
  <2>2. x <= y /\ Margin + y < Width
    BY <1>1, <1>5, <2>1, GridColumns
  <2>. QED
    BY <2>1, <2>2, Dimensions
<1>8. h.row + q * RowHeight \in Nat
  BY <1>3, <1>4
<1>9. Cell(h, j).col = Margin + m * StepX /\ Cell(h, j).row = h.row + q * RowHeight
  BY <1>6
<1>. QED
  BY <1>1, <1>2, <1>3, <1>4, <1>5, <1>6, <1>7, <1>8, <1>9

\* A character drawn at a cell moves the cursor to the next one.
LEMMA WriteCell ==
  ASSUME NEW h \in Cursors, NEW j \in Nat, Cell(h, j + 1).row < Word
  PROVE  /\ Cell(h, j).row <= Cell(h, j + 1).row /\ Cell(h, j) \in Cursors
         /\ terminal_writechar(Cell(h, j)) = Cell(h, j + 1)
<1>1. PICK m \in Nat, q \in Nat :
           /\ m = j % Columns /\ q = j \div Columns /\ m < Columns /\ j = q * Columns + m
           /\ m * StepX \in Nat /\ m * StepX <= (Columns - 1) * StepX
           /\ q * RowHeight \in Nat /\ RowHeight \in Nat /\ RowHeight > 0
           /\ Cell(h, j) = [col |-> Margin + m * StepX, row |-> h.row + q * RowHeight]
           /\ h.row \in Nat /\ Cell(h, j).col \in Nat /\ Cell(h, j).col < Width
           /\ Cell(h, j).row \in Nat
  BY CellIs
<1>2. PICK c \in Nat : c = Columns /\ c > 2
  BY GridColumns
<1>3. PICK x \in Nat, y \in Nat, z \in Nat, s \in Nat, w \in Nat :
        x = m * StepX /\ y = q * RowHeight /\ z = RowHeight /\ s = StepX /\ w = h.row
  BY <1>1, Dimensions
<1>4. /\ (m + 1) * StepX = x + s /\ (q + 1) * RowHeight = y + z /\ 0 * StepX = 0
  BY <1>1, <1>3, Multiples, Dimensions
<1>5. Cell(h, j) = [col |-> Margin + x, row |-> w + y]
  BY <1>1, <1>3
<1>6. /\ Cell(h, j + 1) = [col |-> Margin + ((j + 1) % c) * StepX,
                           row |-> w + ((j + 1) \div c) * RowHeight]
  BY <1>2, <1>3 DEF Cell, RowHeight
<1>7. CASE m + 1 < c
  <2>1. j + 1 = q * c + (m + 1) /\ m + 1 \in Nat
    <3>1. q * c \in Nat
      BY <1>2, Multiples
    <3>. QED
      BY <1>1, <1>2, <3>1
  <2>2. (j + 1) \div c = q /\ (j + 1) % c = m + 1
    BY <1>2, <1>7, <2>1, Division
  <2>3. Cell(h, j + 1) = [col |-> Margin + (x + s), row |-> w + y]
    BY <1>3, <1>4, <1>6, <2>2
  <2>4. Cell(h, j).row < Word
    BY <1>5, <2>3
  <2>5. Cell(h, j) \in Cursors
    <3>0. PICK a \in Nat, b \in Nat : a = Cell(h, j).col /\ b = Cell(h, j).row
      BY <1>1
    <3>1. a \in 0..(Word - 1) /\ b \in 0..(Word - 1)
      <4>1. a < Width /\ b < Word
        BY <1>1, <2>4, <3>0
      <4>. QED
        BY <4>1, Dimensions, Remainder
    <3>2. Cell(h, j) = [col |-> Cell(h, j).col, row |-> Cell(h, j).row]
      BY <1>5
    <3>. QED
      BY <3>0, <3>1, <3>2 DEF Cursors
  <2>6. Margin + (x + s) < Width
    <3>1. Cell(h, j + 1).col < Width
      BY CellIs
    <3>. QED
      BY <2>3, <3>1
  <2>7. Cell(h, j).col + StepX = Margin + (x + s) /\ Cell(h, j).row = w + y
    BY <1>3, <1>5, Dimensions
  <2>8. terminal_writechar(Cell(h, j)) = [col |-> Margin + (x + s), row |-> w + y]
    BY <1>1, <2>5, <2>6, <2>7, WriteInRow
  <2>. QED
    BY <1>1, <1>5, <2>3, <2>5, <2>8
<1>8. CASE ~(m + 1 < c)
  <2>1. m + 1 = c
    BY <1>1, <1>2, <1>8
  <2>2. j + 1 = (q + 1) * c + 0
    <3>1. q * c \in Nat /\ (q + 1) * c = q * c + c
      BY <1>2, Multiples
    <3>. QED
      BY <1>1, <1>2, <2>1, <3>1
  <2>3. (j + 1) \div c = q + 1 /\ (j + 1) % c = 0
    <3>1. PICK n \in Nat, p \in Nat, o \in Nat : n = j + 1 /\ p = q + 1 /\ o = 0
      OBVIOUS
    <3>2. o < c /\ c > 0
      BY <1>2, <3>1
    <3>3. n = p * c + o
      BY <2>2, <3>1
    <3>4. n \div c = p /\ n % c = o
      BY <3>2, <3>3, Division, Zenon
    <3>. QED
      BY <3>1, <3>4
  <2>4. Cell(h, j + 1) = [col |-> Margin, row |-> w + (y + z)]
    <3>1. Margin + 0 * StepX = Margin
      BY <1>4, Dimensions
    <3>. QED
      BY <1>3, <1>4, <1>6, <2>3, <3>1
  <2>5. w + (y + z) < Word
    BY <2>4
  <2>6. Cell(h, j).row = w + y /\ Cell(h, j).row < Word
    BY <1>5, <2>5, Remainder
  <2>7. Cell(h, j) \in Cursors
    <3>0. PICK a \in Nat, b \in Nat : a = Cell(h, j).col /\ b = Cell(h, j).row
      BY <1>1
    <3>1. a \in 0..(Word - 1) /\ b \in 0..(Word - 1)
      <4>1. a < Width /\ b < Word
        BY <1>1, <2>6, <3>0
      <4>. QED
        BY <4>1, Dimensions, Remainder
    <3>2. Cell(h, j) = [col |-> Cell(h, j).col, row |-> Cell(h, j).row]
      BY <1>5
    <3>. QED
      BY <3>0, <3>1, <3>2 DEF Cursors
  <2>8. Cell(h, j).col + StepX >= Width
    <3>1. x + s = Columns * StepX
      BY <1>2, <1>4, <2>1
    <3>2. Cell(h, j).col + StepX = Margin + (x + s)
      BY <1>3, <1>5, Dimensions
    <3>. QED
      BY <3>1, <3>2, GridColumns, Dimensions
  <2>9. (Cell(h, j).row + FontHeight + 1) % Word = w + (y + z)
    <3>1. Cell(h, j).row + FontHeight + 1 = w + (y + z)
      BY <1>3, <2>6, Dimensions DEF RowHeight
    <3>2. w + (y + z) \in 0..(Word - 1)
      BY <2>5, Remainder
    <3>. QED
      BY <3>1, <3>2, Remainder
  <2>10. terminal_writechar(Cell(h, j)) = [col |-> Margin, row |-> w + (y + z)]
    BY <1>1, <2>7, <2>8, <2>9, WriteInRow
  <2>. QED
    BY <2>4, <2>6, <2>7, <2>10
<1>. QED
  BY <1>7, <1>8

\* An erase that is not at the start of a row moves the cursor to the cell
\* before it.
LEMMA EraseCell ==
  ASSUME NEW h \in Cursors, NEW j \in Nat, Cell(h, j + 1) \in Cursors,
         ~AtRowStart(Cell(h, j + 1))
  PROVE  /\ terminal_backspace(Cell(h, j + 1)) = Cell(h, j)
         /\ Cell(h, j).row = Cell(h, j + 1).row
<1>1. PICK m \in Nat, q \in Nat :
           /\ m = (j + 1) % Columns /\ q = (j + 1) \div Columns /\ m < Columns
           /\ j + 1 = q * Columns + m
           /\ m * StepX \in Nat
           /\ Cell(h, j + 1) = [col |-> Margin + m * StepX, row |-> h.row + q * RowHeight]
  BY CellIs
<1>2. PICK c \in Nat : c = Columns /\ c > 2
  BY GridColumns
<1>3. m > 0
  <2>1. SUFFICES ASSUME m = 0 PROVE FALSE
    OBVIOUS
  <2>2. m * StepX = 0
    BY <2>1, Multiples, Dimensions
  <2>3. Cell(h, j + 1).col = Margin
    BY <1>1, <2>2, Dimensions
  <2>. QED
    BY <2>3 DEF AtRowStart
<1>4. (m - 1) * StepX = m * StepX - StepX /\ m * StepX >= StepX
  BY <1>3, Multiples, Dimensions
<1>5. m - 1 \in Nat /\ m - 1 < c /\ j = q * c + (m - 1)
  <2>1. q * c \in Nat
    BY <1>2, Multiples
  <2>. QED
    BY <1>1, <1>2, <1>3, <2>1
<1>6. j \div c = q /\ j % c = m - 1
  BY <1>2, <1>5, Division
<1>7. Cell(h, j) = [col |-> Margin + (m - 1) * StepX, row |-> h.row + q * RowHeight]
  BY <1>2, <1>6 DEF Cell, RowHeight
<1>8. PICK x \in Nat, s \in Nat : x = m * StepX /\ s = StepX /\ x >= s
  BY <1>1, <1>4, Dimensions
<1>9. Cell(h, j + 1).col = Margin + x /\ Cell(h, j + 1).col >= StepX
  BY <1>1, <1>8, Dimensions
<1>10. Cell(h, j + 1).col - StepX = Margin + (m - 1) * StepX
  BY <1>4, <1>8, <1>9, Dimensions
<1>11. ~AtOrigin(Cell(h, j + 1))
  BY DEF AtRowStart, AtOrigin
<1>12. terminal_backspace(Cell(h, j + 1)) = [col |-> Cell(h, j + 1).col - StepX,
                                             row |-> Cell(h, j + 1).row]
  BY <1>9, <1>11, PrevCol DEF terminal_backspace
<1>. QED
  BY <1>1, <1>7, <1>10, <1>12

\* Clearing one cell touches no other.
LEMMA CellsApart ==
  ASSUME NEW h \in Cursors, NEW j \in Nat, NEW k \in Nat
  PROVE  Covers(Cell(h, k), Cell(h, j)) <=> j = k
<1>1. PICK m \in Nat, q \in Nat :
           /\ m = j % Columns /\ q = j \div Columns /\ m < Columns /\ j = q * Columns + m
           /\ m * StepX \in Nat /\ m * StepX <= (Columns - 1) * StepX
           /\ q * RowHeight \in Nat /\ RowHeight \in Nat /\ RowHeight > 0
           /\ Cell(h, j) = [col |-> Margin + m * StepX, row |-> h.row + q * RowHeight]
           /\ h.row \in Nat /\ Cell(h, j).col \in Nat /\ Cell(h, j).col < Width
           /\ Cell(h, j).row \in Nat
  BY CellIs
<1>2. PICK n \in Nat, r \in Nat :
           /\ n = k % Columns /\ r = k \div Columns /\ n < Columns /\ k = r * Columns + n
           /\ n * StepX \in Nat /\ n * StepX <= (Columns - 1) * StepX
           /\ r * RowHeight \in Nat /\ RowHeight \in Nat /\ RowHeight > 0
           /\ Cell(h, k) = [col |-> Margin + n * StepX, row |-> h.row + r * RowHeight]
           /\ h.row \in Nat /\ Cell(h, k).col \in Nat /\ Cell(h, k).col < Width
           /\ Cell(h, k).row \in Nat
  BY CellIs
<1>3. /\ m < n => m * StepX + StepX <= n * StepX
      /\ n < m => n * StepX + StepX <= m * StepX
      /\ q < r => q * RowHeight + RowHeight <= r * RowHeight
      /\ r < q => r * RowHeight + RowHeight <= q * RowHeight
  BY <1>1, Multiples, Dimensions
<1>4. PICK x \in Nat, y \in Nat, u \in Nat, v \in Nat, s \in Nat, t \in Nat, w \in Nat :
           /\ x = m * StepX /\ y = q * RowHeight /\ u = n * StepX /\ v = r * RowHeight
           /\ s = StepX /\ t = RowHeight /\ w = h.row
  BY <1>1, <1>2, Dimensions
<1>5. s = FontWidth + 1 /\ t = FontHeight + 1 /\ FontWidth > 0 /\ FontHeight > 0
      /\ FontWidth \in Nat /\ FontHeight \in Nat
  BY <1>4, Dimensions, ConsoleAssumption DEF RowHeight
<1>6. /\ m < n => x + s <= u
      /\ n < m => u + s <= x
      /\ q < r => y + t <= v
      /\ r < q => v + t <= y
  BY <1>3, <1>4
<1>7. /\ Cell(h, j).col = Margin + x /\ Cell(h, j).row = w + y
      /\ Cell(h, k).col = Margin + u /\ Cell(h, k).row = w + v
  <2>1. /\ Cell(h, j) = [col |-> Margin + x, row |-> w + y]
        /\ Cell(h, k) = [col |-> Margin + u, row |-> w + v]
    BY <1>1, <1>2, <1>4, Zenon
  <2>. QED
    BY <2>1
<1>8. Covers(Cell(h, k), Cell(h, j)) <=>
        /\ Margin + x >= Margin + u - FontWidth + 1 /\ Margin + x <= Margin + u + FontWidth - 1
        /\ w + y >= w + v - FontHeight + 1 /\ w + y <= w + v + FontHeight - 1
  BY <1>5, <1>7, Dimensions DEF Covers
<1>9. ASSUME Covers(Cell(h, k), Cell(h, j)) PROVE j = k
  <2>1. PICK a \in Nat, f \in Nat, g \in Nat : a = Margin /\ f = FontWidth /\ g = FontHeight
    BY <1>5, Dimensions
  <2>2. /\ a + x >= a + u - f + 1 /\ a + x <= a + u + f - 1
        /\ w + y >= w + v - g + 1 /\ w + y <= w + v + g - 1
        /\ s = f + 1 /\ t = g + 1
    BY <1>5, <1>8, <1>9, <2>1
  <2>3. ~(x + s <= u) /\ ~(u + s <= x) /\ ~(y + t <= v) /\ ~(v + t <= y)
    BY <2>2
  <2>4. m = n /\ q = r
    BY <1>6, <2>3
  <2>. QED
    BY <1>1, <1>2, <2>4
<1>10. ASSUME j = k PROVE Covers(Cell(h, k), Cell(h, j))
  <2>1. x = u /\ y = v
    BY <1>7, <1>10, Dimensions
  <2>. QED
    BY <1>5, <1>8, <2>1, Dimensions
<1>. QED
  BY <1>9, <1>10

\* The column alone, whatever the row: a cursor in a cell's column moves to the
\* next one's when a character is drawn, and back unless it starts a row.
LEMMA ColumnOf ==
  ASSUME NEW h \in Cursors, NEW j \in Nat, NEW c \in Cursors
  PROVE  /\ c.col = Cell(h, j).col => terminal_writechar(c).col = Cell(h, j + 1).col
         /\ c.col = Cell(h, j + 1).col /\ ~AtRowStart(c) =>
              /\ terminal_backspace(c).col = Cell(h, j).col
              /\ Cell(h, j + 1).row = Cell(h, j).row
<1>1. PICK m \in Nat, q \in Nat :
           /\ m = j % Columns /\ q = j \div Columns /\ m < Columns /\ j = q * Columns + m
           /\ m * StepX \in Nat
           /\ Cell(h, j) = [col |-> Margin + m * StepX, row |-> h.row + q * RowHeight]
           /\ Cell(h, j).col \in Nat /\ Cell(h, j).col < Width
  BY CellIs
<1>2. PICK d \in Nat : d = Columns /\ d > 2
  BY GridColumns
<1>3. PICK x \in Nat, s \in Nat : x = m * StepX /\ s = StepX /\ (m + 1) * StepX = x + s
  BY <1>1, Multiples, Dimensions
<1>4. /\ Cell(h, j + 1) = [col |-> Margin + ((j + 1) % d) * StepX,
                           row |-> h.row + ((j + 1) \div d) * RowHeight]
  BY <1>2 DEF Cell, RowHeight
<1>5. Cell(h, j).col = Margin + x /\ Cell(h, j).row = h.row + q * RowHeight
  BY <1>1, <1>3
<1>6. CASE m + 1 < d
  <2>1. j + 1 = q * d + (m + 1) /\ m + 1 \in Nat
    <3>1. q * d \in Nat
      BY <1>2, Multiples
    <3>. QED
      BY <1>1, <1>2, <3>1
  <2>2. (j + 1) \div d = q /\ (j + 1) % d = m + 1
    BY <1>2, <1>6, <2>1, Division
  <2>3. Cell(h, j + 1).col = Margin + (x + s) /\ Cell(h, j + 1).row = Cell(h, j).row
    <3>1. Cell(h, j + 1) = [col |-> Margin + (x + s), row |-> h.row + q * RowHeight]
      BY <1>3, <1>4, <2>2, Zenon
    <3>2. /\ Cell(h, j + 1).col = Margin + (x + s)
          /\ Cell(h, j + 1).row = h.row + q * RowHeight
      BY <3>1
    <3>. QED
      BY <1>5, <3>2, Zenon
  <2>4. Margin + (x + s) < Width
    <3>1. Cell(h, j + 1).col < Width
      BY CellIs
    <3>. QED
      BY <2>3, <3>1
  <2>5. ASSUME c.col = Cell(h, j).col PROVE terminal_writechar(c).col = Cell(h, j + 1).col
    <3>1. c.col + StepX = Margin + (x + s) /\ c.col < Width
      BY <1>1, <1>3, <1>5, <2>5, Dimensions
    <3>2. terminal_writechar(c) = [col |-> c.col + StepX, row |-> c.row]
      BY <2>4, <3>1, WriteInRow
    <3>. QED
      BY <2>3, <3>1, <3>2
  <2>6. ASSUME c.col = Cell(h, j + 1).col PROVE terminal_backspace(c).col = Cell(h, j).col
    <3>1. /\ c.col = Margin + (x + s) /\ c.col >= StepX /\ c.col - StepX = Margin + x
          /\ c.col # Margin
      BY <1>3, <2>3, <2>6, Dimensions
    <3>2. ~AtRowStart(c) /\ ~AtOrigin(c)
      BY <3>1 DEF AtRowStart, AtOrigin
    <3>3. terminal_backspace(c) = [col |-> c.col - StepX, row |-> c.row]
      BY <3>1, <3>2, PrevCol DEF terminal_backspace
    <3>. QED
      BY <1>5, <3>1, <3>3
  <2>. QED
    BY <2>3, <2>5, <2>6
<1>7. CASE ~(m + 1 < d)
  <2>1. m + 1 = d
    BY <1>1, <1>2, <1>7
  <2>2. j + 1 = (q + 1) * d + 0
    <3>1. q * d \in Nat /\ (q + 1) * d = q * d + d
      BY <1>2, Multiples
    <3>. QED
      BY <1>1, <1>2, <2>1, <3>1
  <2>3. (j + 1) % d = 0
    <3>1. PICK n \in Nat, p \in Nat, o \in Nat : n = j + 1 /\ p = q + 1 /\ o = 0
      OBVIOUS
    <3>2. o < d /\ d > 0
      BY <1>2, <3>1
    <3>3. n = p * d + o
      BY <2>2, <3>1
    <3>4. n \div d = p /\ n % d = o
      BY <3>2, <3>3, Division, Zenon
    <3>. QED
      BY <3>1, <3>4
  <2>4. Cell(h, j + 1).col = Margin
    <3>1. Margin + 0 * StepX = Margin
      BY Multiples, Dimensions
    <3>. QED
      BY <1>4, <2>3, <3>1
  <2>5. ASSUME c.col = Cell(h, j).col PROVE terminal_writechar(c).col = Margin
    <3>1. x + s = Columns * StepX
      BY <1>2, <1>3, <2>1
    <3>2. c.col + StepX = Margin + (x + s) /\ c.col < Width
      BY <1>1, <1>3, <1>5, <2>5, Dimensions
    <3>3. c.col + StepX >= Width
      BY <3>1, <3>2, GridColumns, Dimensions
    <3>4. terminal_writechar(c) = [col |-> Margin, row |-> (c.row + FontHeight + 1) % Word]
      BY <3>2, <3>3, WriteInRow
    <3>. QED
      BY <3>4
  <2>. QED
    BY <2>4, <2>5 DEF AtRowStart
<1>. QED
  BY <1>6, <1>7

\* The prompt ends where the first letter goes.
LEMMA FirstCell ==
  ASSUME NEW h \in Cursors, h.col = Margin + 2 * StepX
  PROVE  Cell(h, 0 + 2) = h
<1>1. PICK c \in Nat : c = Columns /\ c > 2
  BY GridColumns
<1>2. 0 * c + 2 = 2 /\ (0 * c + 2) \div c = 0 /\ (0 * c + 2) % c = 2
  BY <1>1, Division, Multiples
<1>3. Cell(h, 2) = [col |-> Margin + 2 * StepX, row |-> h.row + 0 * RowHeight]
  BY <1>1, <1>2 DEF Cell, RowHeight
<1>4. 0 * RowHeight = 0 /\ h.row \in Nat /\ h = [col |-> h.col, row |-> h.row]
  BY Dimensions, Multiples, Remainder DEF RowHeight, Cursors
<1>. QED
  BY <1>3, <1>4

\* The letters of a line that the screen shows.
Drawn(h, l) ==
  {s \in {[at |-> Cell(h, k + 1), char |-> l[k]] : k \in DOMAIN l} : OnScreen(s.at)}

\* One letter more.
LEMMA DrawnAppend ==
  ASSUME NEW h \in Cursors, NEW l \in Seq(Letters), NEW key \in Letters
  PROVE  Drawn(h, Append(l, key)) =
           Drawn(h, l) \cup {s \in {[at |-> Cell(h, Len(l) + 2), char |-> key]} : OnScreen(s.at)}
<1>1. PICK m : m = Append(l, key)
  OBVIOUS
<1>2. /\ Len(l) \in Nat /\ DOMAIN l = 1..Len(l) /\ DOMAIN m = 1..(Len(l) + 1)
      /\ \A k \in 1..Len(l) : m[k] = l[k]
      /\ m[Len(l) + 1] = key
  BY <1>1, LenProperties, AppendProperties
<1>3. DOMAIN m = DOMAIN l \cup {Len(l) + 1}
  BY <1>2
<1>4. \A k \in DOMAIN l : m[k] = l[k]
  BY <1>2
<1>5. PICK n : n = Len(l) + 1
  OBVIOUS
<1>6. \A k : k \in DOMAIN m <=> k \in DOMAIN l \/ k = n
  BY <1>3, <1>5
<1>7. n + 1 = Len(l) + 2
  BY <1>2, <1>5
<1>8. {[at |-> Cell(h, k + 1), char |-> m[k]] : k \in DOMAIN m} =
        {[at |-> Cell(h, k + 1), char |-> l[k]] : k \in DOMAIN l}
          \cup {[at |-> Cell(h, n + 1), char |-> key]}
  BY <1>2, <1>4, <1>5, <1>6
<1>. QED
  BY <1>1, <1>7, <1>8 DEF Drawn

\* The last letter erased.
LEMMA DrawnFront ==
  ASSUME NEW h \in Cursors, NEW l \in Seq(Letters), l # <<>>
  PROVE  /\ Front(l) \in Seq(Letters) /\ Len(Front(l)) = Len(l) - 1
         /\ \A k \in 1..(Len(l) - 1) : Front(l)[k] = l[k]
         /\ Drawn(h, Front(l)) = {s \in Drawn(h, l) : ~Covers(Cell(h, Len(l) + 1), s.at)}
<1>1. Len(l) \in Nat \ {0} /\ DOMAIN l = 1..Len(l) /\ \A k \in 1..Len(l) : l[k] \in Letters
  BY LenProperties, EmptySeq, ElementOfSeq
<1>2. PICK m, n : m = Front(l) /\ n = Len(l)
  OBVIOUS
<1>3. \A k \in 1..(n - 1) : l[k] \in Letters
  BY <1>1, <1>2
<1>4. m = SubSeq(l, 1, n - 1) /\ n - 1 \in Int /\ 1 \in Int
  BY <1>1, <1>2 DEF Front
<1>5. /\ m \in Seq(Letters) /\ Len(m) = IF 1 <= n - 1 THEN n - 1 - 1 + 1 ELSE 0
      /\ \A k \in 1..(n - 1 - 1 + 1) : m[k] = l[1 + k - 1]
  BY <1>3, <1>4, SubSeqProperties
<1>6. Len(m) = n - 1 /\ \A k \in 1..(n - 1) : m[k] = l[k]
  <2>1. n \in Nat \ {0}
    BY <1>1, <1>2
  <2>2. Len(m) = n - 1 /\ n - 1 - 1 + 1 = n - 1
    BY <1>5, <2>1
  <2>3. \A k \in 1..(n - 1) : 1 + k - 1 = k
    BY <2>1
  <2>. QED
    BY <1>5, <2>2, <2>3
<1>7. DOMAIN m = 1..(n - 1)
  BY <1>5, <1>6, LenProperties
<1>8. \A k : k \in DOMAIN m <=> k \in DOMAIN l /\ k # n
  BY <1>1, <1>2, <1>7
<1>9. \A k \in DOMAIN l : Covers(Cell(h, n + 1), Cell(h, k + 1)) <=> k = n
  <2>. SUFFICES ASSUME NEW k \in DOMAIN l
                PROVE  Covers(Cell(h, n + 1), Cell(h, k + 1)) <=> k = n
    OBVIOUS
  <2>1. k + 1 \in Nat /\ n + 1 \in Nat /\ (k + 1 = n + 1 <=> k = n)
    BY <1>1, <1>2
  <2>. QED
    BY <2>1, CellsApart
<1>10. Drawn(h, m) = {s \in Drawn(h, l) : ~Covers(Cell(h, n + 1), s.at)}
  <2>1. ASSUME NEW s \in Drawn(h, m) PROVE s \in Drawn(h, l) /\ ~Covers(Cell(h, n + 1), s.at)
    <3>1. PICK k \in DOMAIN m : s = [at |-> Cell(h, k + 1), char |-> m[k]] /\ OnScreen(s.at)
      BY DEF Drawn
    <3>2. k \in DOMAIN l /\ k # n /\ m[k] = l[k]
      BY <1>6, <1>7, <1>8
    <3>3. s.at = Cell(h, k + 1)
      BY <3>1
    <3>. QED
      BY <1>9, <3>1, <3>2, <3>3 DEF Drawn
  <2>2. ASSUME NEW s \in Drawn(h, l), ~Covers(Cell(h, n + 1), s.at) PROVE s \in Drawn(h, m)
    <3>1. PICK k \in DOMAIN l : s = [at |-> Cell(h, k + 1), char |-> l[k]] /\ OnScreen(s.at)
      BY DEF Drawn
    <3>2. k # n
      BY <1>9, <2>2, <3>1
    <3>3. k \in DOMAIN m /\ m[k] = l[k]
      BY <1>6, <1>7, <1>8, <3>2
    <3>. QED
      BY <3>1, <3>3 DEF Drawn
  <2>. QED
    BY <2>1, <2>2
<1>. QED
  BY <1>2, <1>5, <1>6, <1>10

-----------------------------------------------------------------------------
(* The invariant.  The line that read_line keeps and the line the screen   *)
(* shows are tied to the ghost line one by one; the cursor is tied to the  *)
(* last letter until erase is pressed at the start of a row, and to a grid *)
(* of columns and rows in the other lines.                                 *)

Chars == Letters \cup {NUL, BS}

ConsoleType ==
  /\ buffer \in [0..BufferSize -> Chars] /\ i \in 0..BufferSize
  /\ line \in Seq(Letters)
  /\ cursor \in Cursors /\ home \in Cursors
  /\ rows \in Nat \ {0}

\* The characters up to i are the line, and a line that is returned ends there.
BufferHoldsLine ==
  /\ ~overErased => Len(line) = i /\ \A k \in 1..i : buffer[k - 1] = line[k]
  /\ ~reading => buffer[i] = NUL

AfterPrompt == home.col = Margin + 2 * StepX

ScreenHoldsLine ==
  ~unwrapped /\ ~overErased =>
     /\ cursor.col = Cell(home, Len(line) + 2).col
     /\ Cell(home, Len(line) + 2).row < Word =>
          /\ shown = Drawn(home, line)
          /\ cursor = Cell(home, Len(line) + 2)

\* The top of the r-th row.
RowTop(r) == Margin + (r - 1) * RowHeight

OnGrid ==
  ~crossed => /\ cursor.col < Width
              /\ \E n \in Nat : cursor.col = Margin + n * StepX
              /\ rows <= Rows => cursor.row = RowTop(rows)

ConsoleInv == /\ ConsoleType
              /\ BufferHoldsLine
              /\ AfterPrompt
              /\ ScreenHoldsLine
              /\ OnGrid

\* r rows fit on the screen.
LEMMA RowsFit ==
  ASSUME NEW r \in Nat, r <= Rows
  PROVE  /\ RowHeight \in Nat /\ RowHeight > 0 /\ RowHeight = FontHeight + 1
         /\ r * RowHeight \in Nat /\ Margin + r * RowHeight <= Height
<1>1. RowHeight \in Nat /\ RowHeight > 0 /\ RowHeight = FontHeight + 1
  BY Dimensions DEF RowHeight
<1>2. PICK x \in Int, h \in Nat : x = Height - Margin /\ h = RowHeight
  BY <1>1, Dimensions
<1>3. Rows = x \div h
  BY <1>1, <1>2 DEF Rows
<1>4. (x \div h) \in Int /\ x = h * (x \div h) + (x % h) /\ x % h \in 0..(h - 1)
  BY <1>1, <1>2
<1>5. PICK q \in Nat : q = x \div h
  BY <1>3, <1>4
<1>6. h * q = q * h /\ q * h \in Nat
  OBVIOUS
<1>7. q * h <= x
  BY <1>2, <1>4, <1>5, <1>6
<1>8. r * h \in Nat /\ r * h <= q * h
  <2>1. r * h \in Nat /\ (r < q => r * h + h <= q * h)
    BY <1>1, <1>2, Multiples
  <2>2. r < q \/ r = q
    BY <1>3, <1>5
  <2>. QED
    BY <1>6, <2>1, <2>2
<1>. QED
  BY <1>1, <1>2, <1>7, <1>8, Dimensions

\* A new row, if it fits on the screen.
LEMMA NextRow ==
  ASSUME NEW c \in Cursors, NEW r \in Nat \ {0},
         r <= Rows => c.row = RowTop(r)
  PROVE  /\ move_to_next_row(c) \in Cursors /\ move_to_next_row(c).col = Margin
         /\ r + 1 <= Rows => move_to_next_row(c).row = RowTop(r + 1)
<1>1. move_to_next_row(c) = [col |-> Margin, row |-> (c.row + FontHeight + 1) % Word]
  BY DEF move_to_next_row
<1>2. move_to_next_row(c) \in Cursors
  BY CursorTypes
<1>3. ASSUME r + 1 <= Rows PROVE (c.row + FontHeight + 1) % Word = RowTop(r + 1)
  <2>1. r + 1 \in Nat /\ r <= Rows
    <3>1. Rows \in Int
      BY Dimensions DEF Rows
    <3>. QED
      BY <1>3, <3>1
  <2>2. /\ RowHeight \in Nat /\ RowHeight > 0 /\ RowHeight = FontHeight + 1
        /\ (r + 1) * RowHeight \in Nat /\ Margin + (r + 1) * RowHeight <= Height
    BY <1>3, <2>1, RowsFit
  <2>3. /\ (r - 1) * RowHeight = r * RowHeight - RowHeight
        /\ (r + 1) * RowHeight = r * RowHeight + RowHeight /\ r * RowHeight \in Nat
    <3>1. r \in Nat /\ r > 0
      OBVIOUS
    <3>2. PICK h \in Nat : h = RowHeight /\ h > 0
      BY <2>2
    <3>3. (r - 1) * h = r * h - h /\ (r + 1) * h = r * h + h /\ r * h \in Nat
      BY <3>1, <3>2, Multiples
    <3>. QED
      BY <3>2, <3>3
  <2>4. r + 1 - 1 = r
    OBVIOUS
  <2>5. c.row + FontHeight + 1 = Margin + r * RowHeight
    <3>1. c.row = Margin + (r * RowHeight - RowHeight)
      BY <2>1, <2>3 DEF RowTop
    <3>2. PICK p \in Nat, q \in Nat : p = r * RowHeight /\ q = RowHeight
      BY <2>2, <2>3
    <3>3. c.row = Margin + (p - q) /\ q = FontHeight + 1
      BY <2>2, <3>1, <3>2
    <3>4. c.row + FontHeight + 1 = Margin + p
      BY <3>3, Dimensions
    <3>. QED
      BY <3>2, <3>4
  <2>6. Margin + r * RowHeight \in 0..(Word - 1)
    <3>1. PICK p \in Nat, q \in Nat : p = r * RowHeight /\ q = RowHeight
      BY <2>2, <2>3
    <3>2. Margin + (p + q) <= Height
      BY <2>2, <2>3, <3>1
    <3>3. Margin + p \in 0..(Word - 1)
      <4>1. /\ Word \in Nat /\ Margin \in Nat /\ Height \in Nat /\ Height < Word
        BY Dimensions, Remainder
      <4>. QED
        BY <3>2, <4>1
    <3>. QED
      BY <3>1, <3>3
  <2>. QED
    BY <2>4, <2>5, <2>6, Remainder DEF RowTop
<1>. QED
  BY <1>1, <1>2, <1>3

\* The shell has just been started, with an empty buffer and screen.
LEMMA ConsoleInit == Init => ConsoleInv
<1>. SUFFICES ASSUME Init PROVE ConsoleInv
  OBVIOUS
<1>1. PICK c : c = [col |-> Margin, row |-> Margin]
  OBVIOUS
<1>2. c \in Cursors /\ c.col = Margin /\ c.row = Margin
  BY <1>1, Dimensions, Remainder DEF Cursors
<1>3. home = Prompt(c) /\ cursor = home
  BY <1>1 DEF Init
<1>4. home \in Cursors /\ home = [col |-> Margin + 2 * StepX, row |-> Margin]
  BY <1>2, <1>3, PromptInRow
<1>5. line = <<>> /\ line \in Seq(Letters) /\ Len(line) = 0 /\ DOMAIN line = {} /\ shown = {}
  BY EmptySeq DEF Init
<1>6. ConsoleType
  BY <1>3, <1>4, <1>5, Dimensions DEF Init, ConsoleType, Chars, Letters
<1>7. BufferHoldsLine
  BY <1>5 DEF Init, BufferHoldsLine
<1>8. AfterPrompt
  BY <1>4 DEF AfterPrompt
<1>9. ScreenHoldsLine
  <2>1. home.col = Margin + 2 * StepX
    BY <1>4
  <2>2. Cell(home, 0 + 2) = home
    BY <1>4, <2>1, FirstCell
  <2>3. shown = Drawn(home, line)
    BY <1>5 DEF Drawn
  <2>. QED
    BY <1>3, <1>5, <2>2, <2>3 DEF ScreenHoldsLine
<1>10. OnGrid
  <2>1. cursor.col = Margin + 2 * StepX /\ cursor.col < Width /\ cursor.row = Margin
    BY <1>3, <1>4, Dimensions
  <2>2. rows = 1 /\ RowTop(1) = Margin
    <3>1. (1 - 1) * RowHeight = 0
      BY Multiples, Dimensions DEF RowHeight
    <3>. QED
      BY <3>1, Dimensions DEF Init, RowTop
  <2>. QED
    BY <2>1, <2>2, Dimensions DEF OnGrid
<1>. QED
  BY <1>6, <1>7, <1>8, <1>9, <1>10 DEF ConsoleInv

\* A letter.
LEMMA LetterKeeps ==
  ASSUME ConsoleInv, NEW key \in Letters, read_line_letter(key)
  PROVE  ConsoleInv'
<1>1. /\ i < BufferSize /\ reading /\ reading' = reading
      /\ buffer' = [buffer EXCEPT ![i] = key] /\ i' = i + 1 /\ line' = Append(line, key)
      /\ home' = home /\ overErased' = overErased /\ crossed' = crossed
      /\ shown' = shown \cup {s \in {[at |-> cursor, char |-> key]} : OnScreen(s.at)}
      /\ cursor' = terminal_writechar(cursor)
      /\ unwrapped' = unwrapped
      /\ rows' = IF RowFull(move_to_next_col(cursor)) THEN rows + 1 ELSE rows
  BY DEF read_line_letter, Key, Echo
<1>2. /\ buffer \in [0..BufferSize -> Chars] /\ i \in 0..BufferSize /\ line \in Seq(Letters)
      /\ cursor \in Cursors /\ home \in Cursors /\ rows \in Nat \ {0} /\ BufferSize \in Nat
  BY Dimensions DEF ConsoleInv, ConsoleType
<1>3. /\ line' \in Seq(Letters) /\ Len(line') = Len(line) + 1 /\ Len(line) \in Nat
      /\ \A k \in 1..Len(line) : line'[k] = line[k]
      /\ line'[Len(line) + 1] = key
  BY <1>1, <1>2, AppendProperties, LenProperties
<1>4. ConsoleType'
  <2>1. cursor' \in Cursors
    BY <1>1, <1>2, CursorTypes
  <2>2. key \in Chars
    BY DEF Chars
  <2>. QED
    BY <1>1, <1>2, <1>3, <2>1, <2>2 DEF ConsoleType
<1>5. BufferHoldsLine'
  <2>. SUFFICES ASSUME ~overErased
                PROVE  Len(line') = i + 1 /\ \A k \in 1..(i + 1) : buffer'[k - 1] = line'[k]
    BY <1>1 DEF BufferHoldsLine
  <2>1. Len(line) = i /\ \A k \in 1..i : buffer[k - 1] = line[k]
    BY DEF ConsoleInv, BufferHoldsLine
  <2>2. \A k \in 0..BufferSize : buffer'[k] = IF k = i THEN key ELSE buffer[k]
    BY <1>1, <1>2
  <2>3. ASSUME NEW k \in 1..(i + 1) PROVE buffer'[k - 1] = line'[k]
    <3>1. k - 1 \in 0..BufferSize /\ (k = i + 1 \/ (k \in 1..i /\ k - 1 # i))
      <4>1. i \in Nat /\ k \in Nat /\ 1 <= k /\ k <= i + 1 /\ i < BufferSize
        BY <1>1, <1>2
      <4>. QED
        BY <1>2, <4>1
    <3>2. CASE k = i + 1
      BY <1>2, <1>3, <2>1, <2>2, <3>1, <3>2
    <3>3. CASE k \in 1..i /\ k - 1 # i
      BY <1>3, <2>1, <2>2, <3>1, <3>3
    <3>. QED
      BY <3>1, <3>2, <3>3
  <2>. QED
    BY <1>3, <2>1, <2>3
<1>6. AfterPrompt'
  BY <1>1 DEF ConsoleInv, AfterPrompt
<1>7. ScreenHoldsLine'
  <2>. SUFFICES ASSUME ~unwrapped, ~overErased
                PROVE  /\ cursor'.col = Cell(home, Len(line') + 2).col
                       /\ Cell(home, Len(line') + 2).row < Word =>
                            /\ shown' = Drawn(home, line')
                            /\ cursor' = Cell(home, Len(line') + 2)
    BY <1>1 DEF ScreenHoldsLine
  <2>1. PICK j \in Nat : j = Len(line) + 2 /\ Len(line') + 2 = j + 1
    BY <1>3
  <2>a. cursor'.col = Cell(home, j + 1).col
    <3>1. cursor.col = Cell(home, j).col
      BY <2>1 DEF ConsoleInv, ScreenHoldsLine
    <3>. QED
      BY <1>1, <1>2, <3>1, ColumnOf
  <2>. SUFFICES ASSUME Cell(home, Len(line') + 2).row < Word
                PROVE  /\ shown' = Drawn(home, line')
                       /\ cursor' = Cell(home, Len(line') + 2)
    BY <2>1, <2>a
  <2>2. /\ Cell(home, j).row <= Cell(home, j + 1).row
        /\ terminal_writechar(Cell(home, j)) = Cell(home, j + 1)
    BY <1>2, <2>1, WriteCell
  <2>3. Cell(home, j).row < Word
    <3>0. ASSUME NEW n \in Nat PROVE Cell(home, n).row \in Nat
      BY <1>2, CellIs, Zenon
    <3>1. Cell(home, j).row \in Nat /\ Cell(home, j + 1).row \in Nat
      BY <3>0
    <3>2. PICK a \in Nat, b \in Nat : a = Cell(home, j).row /\ b = Cell(home, j + 1).row
      BY <3>1
    <3>3. a <= b /\ b < Word
      BY <2>1, <2>2, <3>2
    <3>4. Word \in Nat
      BY Remainder
    <3>5. a < Word
      BY <3>3, <3>4
    <3>. QED
      BY <3>2, <3>5
  <2>4. shown = Drawn(home, line) /\ cursor = Cell(home, j)
    BY <2>1, <2>3 DEF ConsoleInv, ScreenHoldsLine
  <2>5. shown' = Drawn(home, line')
    BY <1>1, <1>2, <2>1, <2>4, DrawnAppend
  <2>. QED
    BY <1>1, <2>1, <2>2, <2>4, <2>5
<1>8. OnGrid'
  <2>. SUFFICES ASSUME ~crossed
                PROVE  /\ cursor'.col < Width
                       /\ \E n \in Nat : cursor'.col = Margin + n * StepX
                       /\ rows' <= Rows => cursor'.row = RowTop(rows')
    BY <1>1 DEF OnGrid
  <2>1. PICK n \in Nat : cursor.col = Margin + n * StepX
    BY DEF ConsoleInv, OnGrid
  <2>2. cursor.col < Width /\ (rows <= Rows => cursor.row = RowTop(rows))
    BY DEF ConsoleInv, OnGrid
  <2>3. cursor.col \in Int /\ StepX \in Int /\ Width \in Int
    BY <1>2, Dimensions, Remainder DEF Cursors
  <2>4. CASE cursor.col + StepX < Width
    <3>1. ~(cursor.col + StepX >= Width)
      BY <2>3, <2>4
    <3>2. cursor' = [col |-> cursor.col + StepX, row |-> cursor.row] /\ rows' = rows
      BY <1>1, <1>2, <2>2, <2>4, <3>1, WriteInRow
    <3>3. (n + 1) * StepX = n * StepX + StepX /\ n * StepX \in Nat
      BY Multiples, Dimensions
    <3>4. cursor.col + StepX = Margin + (n + 1) * StepX
      BY <2>1, <3>3, Dimensions
    <3>. QED
      BY <2>2, <2>4, <3>2, <3>4
  <2>5. CASE cursor.col + StepX >= Width
    <3>1. cursor' = move_to_next_row(cursor) /\ rows' = rows + 1
      BY <1>1, <1>2, <2>2, <2>5, WriteInRow DEF move_to_next_row
    <3>2. cursor'.col = Margin /\ (rows' <= Rows => cursor'.row = RowTop(rows'))
      BY <1>2, <2>2, <3>1, NextRow
    <3>3. Margin < Width /\ Margin = Margin + 0 * StepX
      BY Multiples, Dimensions
    <3>. QED
      BY <3>2, <3>3
  <2>. QED
    BY <2>3, <2>4, <2>5
<1>. QED
  BY <1>4, <1>5, <1>6, <1>7, <1>8 DEF ConsoleInv

\* The erase key.
LEMMA EraseKeeps ==
  ASSUME ConsoleInv, read_line_erase
  PROVE  ConsoleInv'
<1>1. /\ i < BufferSize /\ reading /\ reading' = reading /\ home' = home
      /\ cursor' = terminal_backspace(cursor)
      /\ shown' = IF AtOrigin(cursor) THEN shown ELSE {s \in shown : ~Covers(cursor', s.at)}
      /\ crossed' = (crossed \/ (AtRowStart(cursor) /\ ~AtOrigin(cursor)))
      /\ unwrapped' = (unwrapped \/ AtRowStart(cursor)) /\ rows' = rows
  BY DEF read_line_erase, Key, EchoErase
<1>2. \/ /\ i >= 1 /\ buffer' = [buffer EXCEPT ![i - 1] = NUL] /\ i' = i - 1
         /\ line' = (IF line = <<>> THEN <<>> ELSE Front(line)) /\ overErased' = overErased
      \/ /\ i = 0 /\ buffer' = [buffer EXCEPT ![i] = BS] /\ i' = i + 1
         /\ overErased' = TRUE /\ line' = line
  BY DEF read_line_erase, Back
<1>3. /\ buffer \in [0..BufferSize -> Chars] /\ i \in 0..BufferSize /\ line \in Seq(Letters)
      /\ cursor \in Cursors /\ home \in Cursors /\ rows \in Nat \ {0} /\ BufferSize \in Nat
  BY Dimensions DEF ConsoleInv, ConsoleType
<1>4. line' \in Seq(Letters)
  BY <1>2, <1>3, DrawnFront, EmptySeq
<1>5. ConsoleType'
  <2>1. cursor' \in Cursors
    BY <1>1, <1>3, CursorTypes
  <2>2. i' \in 0..BufferSize /\ buffer' \in [0..BufferSize -> Chars]
    BY <1>1, <1>2, <1>3 DEF Chars
  <2>. QED
    BY <1>1, <1>3, <1>4, <2>1, <2>2 DEF ConsoleType
<1>6. AfterPrompt'
  BY <1>1 DEF ConsoleInv, AfterPrompt
<1>7. ASSUME ~overErased'
      PROVE  /\ i >= 1 /\ ~overErased /\ Len(line) = i /\ line # <<>> /\ line' = Front(line)
             /\ buffer' = [buffer EXCEPT ![i - 1] = NUL] /\ i' = i - 1
             /\ \A k \in 1..i : buffer[k - 1] = line[k]
  <2>1. i >= 1 /\ ~overErased
    BY <1>2, <1>7
  <2>2. Len(line) = i /\ \A k \in 1..i : buffer[k - 1] = line[k]
    BY <2>1 DEF ConsoleInv, BufferHoldsLine
  <2>3. line # <<>>
    BY <1>3, <2>1, <2>2, EmptySeq
  <2>. QED
    BY <1>2, <1>7, <2>1, <2>2, <2>3
<1>8. BufferHoldsLine'
  <2>. SUFFICES ASSUME ~overErased'
                PROVE  Len(line') = i' /\ \A k \in 1..i' : buffer'[k - 1] = line'[k]
    BY <1>1 DEF BufferHoldsLine
  <2>1. Len(line') = i - 1 /\ \A k \in 1..(i - 1) : line'[k] = line[k]
    <3>1. line # <<>> /\ line' = Front(line) /\ Len(line) = i
      BY <1>7
    <3>2. /\ Len(Front(line)) = Len(line) - 1
          /\ \A k \in 1..(Len(line) - 1) : Front(line)[k] = line[k]
      BY <1>3, <3>1, DrawnFront
    <3>. QED
      BY <3>1, <3>2
  <2>2. ASSUME NEW k \in 1..(i - 1) PROVE buffer'[k - 1] = line'[k]
    <3>1. k - 1 \in 0..BufferSize /\ k \in 1..i /\ k - 1 # i - 1
      BY <1>3
    <3>2. buffer'[k - 1] = buffer[k - 1]
      BY <1>3, <1>7, <3>1
    <3>. QED
      BY <1>7, <2>1, <3>1, <3>2
  <2>. QED
    BY <1>7, <2>1, <2>2
<1>9. ScreenHoldsLine'
  <2>. SUFFICES ASSUME ~unwrapped', ~overErased'
                PROVE  /\ cursor'.col = Cell(home, Len(line') + 2).col
                       /\ Cell(home, Len(line') + 2).row < Word =>
                            /\ shown' = Drawn(home, line')
                            /\ cursor' = Cell(home, Len(line') + 2)
    BY <1>1 DEF ScreenHoldsLine
  <2>1. ~unwrapped /\ ~AtRowStart(cursor)
    BY <1>1
  <2>2. PICK j \in Nat : j = Len(line) + 1 /\ Len(line') + 2 = j
    <3>1. line # <<>> /\ line' = Front(line)
      BY <1>7
    <3>2. Len(line') = Len(line) - 1 /\ Len(line) \in Nat
      BY <1>3, <3>1, DrawnFront, LenProperties
    <3>. QED
      BY <3>2
  <2>a. j + 1 = Len(line) + 2
    BY <1>3, <2>2, LenProperties
  <2>b. cursor'.col = Cell(home, j).col /\ Cell(home, j + 1).row = Cell(home, j).row
    <3>1. cursor.col = Cell(home, j + 1).col
      BY <1>7, <2>1, <2>a DEF ConsoleInv, ScreenHoldsLine
    <3>. QED
      BY <1>1, <1>3, <2>1, <3>1, ColumnOf
  <2>. SUFFICES ASSUME Cell(home, j).row < Word
                PROVE  shown' = Drawn(home, line') /\ cursor' = Cell(home, j)
    BY <2>2, <2>b
  <2>3. shown = Drawn(home, line) /\ cursor = Cell(home, j + 1)
    BY <1>7, <2>1, <2>a, <2>b DEF ConsoleInv, ScreenHoldsLine
  <2>4. terminal_backspace(Cell(home, j + 1)) = Cell(home, j)
    BY <1>3, <2>1, <2>3, EraseCell
  <2>5. cursor' = Cell(home, j) /\ ~AtOrigin(cursor)
    BY <1>1, <2>1, <2>3, <2>4 DEF AtRowStart, AtOrigin
  <2>6. shown' = {s \in Drawn(home, line) : ~Covers(Cell(home, Len(line) + 1), s.at)}
    BY <1>1, <2>2, <2>3, <2>5
  <2>7. shown' = Drawn(home, line')
    BY <1>3, <1>7, <2>6, DrawnFront
  <2>. QED
    BY <2>2, <2>5, <2>7
<1>10. OnGrid'
  <2>. SUFFICES ASSUME ~crossed'
                PROVE  /\ cursor'.col < Width
                       /\ \E n \in Nat : cursor'.col = Margin + n * StepX
                       /\ rows <= Rows => cursor'.row = RowTop(rows)
    BY <1>1 DEF OnGrid
  <2>1. ~crossed /\ (AtRowStart(cursor) => AtOrigin(cursor))
    BY <1>1
  <2>2. PICK n \in Nat : cursor.col = Margin + n * StepX
    BY <2>1 DEF ConsoleInv, OnGrid
  <2>3. cursor.col < Width /\ (rows <= Rows => cursor.row = RowTop(rows))
    BY <2>1 DEF ConsoleInv, OnGrid
  <2>4. CASE AtOrigin(cursor)
    BY <1>1, <2>2, <2>3, <2>4 DEF terminal_backspace
  <2>5. CASE ~AtOrigin(cursor)
    <3>1. ~AtRowStart(cursor) /\ cursor.col # Margin
      BY <2>1, <2>5 DEF AtRowStart
    <3>2. n # 0
      BY <2>2, <3>1, Multiples, Dimensions
    <3>3. PICK p \in Nat : p = n * StepX /\ (n - 1) * StepX = p - StepX /\ p >= StepX
      BY <3>2, Multiples, Dimensions
    <3>4. cursor.col = Margin + p
      BY <2>2, <3>3
    <3>5. cursor.col >= StepX
      BY <3>3, <3>4, Dimensions
    <3>6. cursor' = [col |-> cursor.col - StepX, row |-> cursor.row]
      BY <1>1, <1>3, <2>5, <3>1, <3>5, PrevCol DEF terminal_backspace
    <3>7. n - 1 \in Nat /\ cursor.col - StepX = Margin + (n - 1) * StepX
      BY <3>2, <3>3, <3>4, Dimensions
    <3>8. cursor.col - StepX < Width
      BY <2>3, <3>3, <3>4, Dimensions
    <3>. QED
      BY <2>3, <3>6, <3>7, <3>8
  <2>. QED
    BY <2>4, <2>5
<1>. QED
  BY <1>5, <1>6, <1>8, <1>9, <1>10 DEF ConsoleInv

\* The end of a line, and the shell's next prompt.
LEMMA TerminateKeeps ==
  ASSUME ConsoleInv, Terminate
  PROVE  ConsoleInv'
<1>1. /\ buffer' = [buffer EXCEPT ![i] = NUL] /\ reading' = FALSE
      /\ UNCHANGED <<i, line, home, overErased, cursor, shown, unwrapped, crossed, rows>>
  BY DEF Terminate, screen
<1>2. /\ buffer \in [0..BufferSize -> Chars] /\ i \in 0..BufferSize /\ BufferSize \in Nat
  BY Dimensions DEF ConsoleInv, ConsoleType
<1>3. ConsoleType'
  BY <1>1, <1>2 DEF ConsoleInv, ConsoleType, Chars
<1>4. BufferHoldsLine'
  <2>1. buffer'[i'] = NUL
    BY <1>1, <1>2
  <2>2. ASSUME ~overErased PROVE Len(line) = i /\ \A k \in 1..i : buffer'[k - 1] = line[k]
    <3>1. Len(line) = i /\ \A k \in 1..i : buffer[k - 1] = line[k]
      BY <2>2 DEF ConsoleInv, BufferHoldsLine
    <3>2. ASSUME NEW k \in 1..i PROVE buffer'[k - 1] = buffer[k - 1]
      <4>1. k - 1 \in 0..BufferSize /\ k - 1 # i
        BY <1>2
      <4>. QED
        BY <1>1, <1>2, <4>1
    <3>. QED
      BY <3>1, <3>2
  <2>. QED
    BY <1>1, <2>1, <2>2 DEF BufferHoldsLine
<1>5. AfterPrompt' /\ ScreenHoldsLine' /\ OnGrid'
  BY <1>1 DEF ConsoleInv, AfterPrompt, ScreenHoldsLine, OnGrid
<1>. QED
  BY <1>3, <1>4, <1>5 DEF ConsoleInv

\* A new prompt: two new rows, an empty line, a buffer with old bytes.
LEMMA ShellKeeps ==
  ASSUME ConsoleInv, shell_main
  PROVE  ConsoleInv'
<1>1. PICK c : c = move_to_next_row(move_to_next_row(cursor))
  OBVIOUS
<1>2. /\ reading' = TRUE /\ i' = 0 /\ home' = Prompt(c) /\ cursor' = home' /\ rows' = rows + 2
      /\ shown' = {} /\ line' = <<>> /\ overErased' = FALSE /\ unwrapped' = FALSE
      /\ buffer' = buffer /\ crossed' = crossed
  BY <1>1 DEF shell_main
<1>3. cursor \in Cursors /\ rows \in Nat \ {0}
  BY DEF ConsoleInv, ConsoleType
<1>4. c \in Cursors /\ c.col = Margin
  BY <1>1, <1>3, CursorTypes DEF move_to_next_row
<1>5. home' \in Cursors /\ home' = [col |-> Margin + 2 * StepX, row |-> c.row]
  BY <1>2, <1>4, PromptInRow
<1>6. line' \in Seq(Letters) /\ Len(line') = 0 /\ DOMAIN line' = {}
  BY <1>2, EmptySeq
<1>7. ConsoleType'
  BY <1>2, <1>3, <1>5, <1>6, Dimensions DEF ConsoleInv, ConsoleType
<1>8. BufferHoldsLine' /\ AfterPrompt'
  BY <1>2, <1>5, <1>6 DEF BufferHoldsLine, AfterPrompt
<1>9. home'.col = Margin + 2 * StepX /\ home'.col < Width /\ home'.row = c.row
  BY <1>5, Dimensions
<1>10. ScreenHoldsLine'
  <2>1. PICK h \in Cursors : h = home'
    BY <1>5
  <2>2. Cell(h, 0 + 2) = h
    BY <1>9, <2>1, FirstCell
  <2>3. shown' = Drawn(h, line')
    BY <1>2, <1>6 DEF Drawn
  <2>. QED
    BY <1>2, <1>6, <2>1, <2>2, <2>3 DEF ScreenHoldsLine
<1>11. OnGrid'
  <2>. SUFFICES ASSUME ~crossed
                PROVE  rows + 2 <= Rows => c.row = RowTop(rows + 2)
    <3>1. \E n \in Nat : cursor'.col = Margin + n * StepX
      BY <1>2, <1>9
    <3>. QED
      BY <1>2, <1>9, <3>1 DEF OnGrid
  <2>1. PICK d : d = move_to_next_row(cursor)
    OBVIOUS
  <2>2. rows <= Rows => cursor.row = RowTop(rows)
    BY DEF ConsoleInv, OnGrid
  <2>3. d \in Cursors /\ (rows + 1 <= Rows => d.row = RowTop(rows + 1))
    BY <1>3, <2>1, <2>2, NextRow
  <2>4. PICK q \in Nat \ {0} : q = rows + 1
    BY <1>3
  <2>5. q <= Rows => d.row = RowTop(q)
    BY <2>3, <2>4
  <2>6. q + 1 <= Rows => c.row = RowTop(q + 1)
    BY <1>1, <2>1, <2>3, <2>5, NextRow
  <2>7. q + 1 = rows + 2
    BY <1>3, <2>4
  <2>. QED
    BY <2>6, <2>7
<1>. QED
  BY <1>7, <1>8, <1>10, <1>11 DEF ConsoleInv

\* Every key, every return and every prompt keeps the invariant.
LEMMA ConsoleStep == ConsoleInv /\ [Next]_vars => ConsoleInv'
<1>. SUFFICES ASSUME ConsoleInv, [Next]_vars PROVE ConsoleInv'
  OBVIOUS
<1>1. CASE \E key \in Letters : read_line_letter(key)
  BY <1>1, LetterKeeps
<1>2. CASE read_line_erase
  BY <1>2, EraseKeeps
<1>3. CASE read_line_enter \/ read_line_full
  BY <1>3, TerminateKeeps DEF read_line_enter, read_line_full
<1>4. CASE shell_main
  BY <1>4, ShellKeeps
<1>5. CASE UNCHANGED vars
  <2>1. UNCHANGED <<buffer, i, reading, line, home, overErased, cursor, shown, unwrapped, crossed, rows>>
    BY <1>5 DEF vars, screen
  <2>. QED
    BY <2>1 DEF ConsoleInv, ConsoleType, BufferHoldsLine, AfterPrompt, ScreenHoldsLine, OnGrid
<1>. QED
  BY <1>1, <1>2, <1>3, <1>4, <1>5 DEF Next, Waiting

\* The invariant holds for ever.
THEOREM ConsoleInvariant == Spec => []ConsoleInv
BY ConsoleInit, ConsoleStep, PTL DEF Spec

\* The shell gets the line that was edited, in a buffer of any length and
\* whatever it held before (stdio.c:63-86).
THEOREM ConsoleReturnsLine == Spec => []ReturnsEditedLine
<1>1. ASSUME ConsoleInv PROVE ReturnsEditedLine
  <2>. SUFFICES ASSUME ~reading, ~overErased PROVE String = line
    BY DEF ReturnsEditedLine
  <2>1. /\ buffer \in [0..BufferSize -> Chars] /\ i \in 0..BufferSize /\ line \in Seq(Letters)
        /\ BufferSize \in Nat
    BY <1>1, Dimensions DEF ConsoleInv, ConsoleType
  <2>2. buffer[i] = NUL /\ Len(line) = i /\ \A k \in 1..i : buffer[k - 1] = line[k]
    BY <1>1 DEF ConsoleInv, BufferHoldsLine
  <2>3. \A k \in 1..i : line[k] # NUL
    <3>. SUFFICES ASSUME NEW k \in 1..i PROVE line[k] # NUL
      OBVIOUS
    <3>1. line[k] \in Letters
      BY <2>1, <2>2, ElementOfSeq
    <3>. QED
      BY <3>1 DEF Letters, NUL
  <2>4. i \in Ends /\ Ends \subseteq Nat
    BY <2>1, <2>2 DEF Ends
  <2>5. ASSUME NEW k \in Ends PROVE i <= k
    <3>1. k \in Nat /\ i \in Nat /\ buffer[k] = NUL
      BY <2>1 DEF Ends
    <3>2. SUFFICES ASSUME k < i PROVE FALSE
      BY <3>1
    <3>3. k + 1 \in 1..i /\ (k + 1) - 1 = k
      BY <3>1, <3>2
    <3>. QED
      BY <2>2, <2>3, <3>1, <3>3
  <2>6. Min(Ends) = i
    <3>1. Min(Ends) \in Ends /\ \A y \in Ends : Min(Ends) <= y
      BY <2>4, <2>5 DEF Min
    <3>2. Min(Ends) \in Nat /\ i \in Nat /\ Min(Ends) <= i /\ i <= Min(Ends)
      BY <2>1, <2>4, <2>5, <3>1
    <3>. QED
      BY <3>2
  <2>7. line \in [1..i -> Letters]
    BY <2>1, <2>2, LenProperties
  <2>. QED
    BY <2>2, <2>6, <2>7 DEF String
<1>. QED
  BY <1>1, ConsoleInvariant, PTL

\* On a screen of any size, with any font, the screen shows exactly the letters
\* of that line that lie on it, each in its place, over all rows of the line,
\* until erase is pressed on the empty line or at the start of a row or the
\* row overflows (terminal.c:33-87, vesa.c:6-13).
THEOREM ConsoleShowsLine == Spec => []ShowsEditedLine
<1>1. ConsoleInv => ShowsEditedLine
  BY DEF ConsoleInv, ScreenHoldsLine, ShowsEditedLine, Drawn
<1>. QED
  BY <1>1, ConsoleInvariant, PTL

\* The cursor stays on a screen of any size until it has gone back a row or
\* the rows run out (terminal.c:33-87).
THEOREM ConsoleCursorOnScreen == Spec => []CursorOnScreen
<1>1. ASSUME ConsoleInv PROVE CursorOnScreen
  <2>. SUFFICES ASSUME ~crossed, rows <= Rows
                PROVE  /\ cursor.col >= Margin /\ cursor.col < Width
                       /\ cursor.row >= Margin /\ cursor.row + FontHeight <= Height
    BY DEF CursorOnScreen
  <2>1. PICK n \in Nat : cursor.col = Margin + n * StepX
    BY <1>1 DEF ConsoleInv, OnGrid
  <2>2. n * StepX \in Nat
    BY Multiples, Dimensions
  <2>3. cursor.col >= Margin /\ cursor.col < Width
    BY <1>1, <2>1, <2>2, Dimensions DEF ConsoleInv, OnGrid
  <2>4. cursor.row = Margin + (rows - 1) * RowHeight
    BY <1>1 DEF ConsoleInv, OnGrid, RowTop
  <2>5. rows \in Nat /\ rows > 0
    BY <1>1 DEF ConsoleInv, ConsoleType
  <2>6. /\ RowHeight \in Nat /\ RowHeight > 0 /\ RowHeight = FontHeight + 1
        /\ rows * RowHeight \in Nat /\ Margin + rows * RowHeight <= Height
    BY <2>5, RowsFit
  <2>7. (rows - 1) * RowHeight = rows * RowHeight - RowHeight /\ rows * RowHeight >= RowHeight
    <3>1. PICK r \in Nat, h \in Nat : r = rows /\ h = RowHeight /\ r > 0 /\ h > 0
      BY <2>5, <2>6
    <3>2. (r - 1) * h = r * h - h /\ r * h >= h
      BY <3>1, Multiples
    <3>. QED
      BY <3>1, <3>2
  <2>8. cursor.row >= Margin /\ cursor.row + FontHeight <= Height
    <3>1. PICK p \in Nat, h \in Nat : p = rows * RowHeight /\ h = RowHeight
      BY <2>6
    <3>2. cursor.row = Margin + (p - h) /\ p >= h /\ Margin + p <= Height /\ h = FontHeight + 1
      BY <2>4, <2>6, <2>7, <3>1
    <3>. QED
      BY <3>2, Dimensions
  <2>. QED
    BY <2>3, <2>8
<1>. QED
  BY <1>1, ConsoleInvariant, PTL
=============================================================================
