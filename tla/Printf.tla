------------------------------- MODULE Printf -------------------------------
(***************************************************************************)
(* Formatted output of a program: printf (syslib/src/stdio/stdio.c) and    *)
(* itoa (syslib/src/stdlib/stdlib.c), down to the characters that the      *)
(* print and putchar commands (src/isr80h/io.c) hand to the terminal.      *)
(*                                                                         *)
(* Characters are ASCII codes.  An int has Bits bits.  itoa's static text  *)
(* is kept from call to call, as in the program.                           *)
(***************************************************************************)
EXTENDS CString

CONSTANTS
  Formats,     \* the format strings
  Ints,        \* the ints passed for %d
  Strings,     \* the strings passed for %s
  Bits,        \* width of an int (32)
  TextSize,    \* length of itoa's text (12)
  PrintSize    \* length of terminal_output's buffer (1024)

\* The powers of b, up to the nth.
Powers(b, n) ==
  LET Power[k \in 0..n] == IF k = 0 THEN 1 ELSE b * Power[k - 1] IN Power

Tens == Powers(10, TextSize)
IntLimit == Powers(2, Bits - 1)[Bits - 1]
IntMin == -IntLimit

\* Every int has a place in text, with its sign and a NUL, and is printed in
\* full.
ASSUME PrintfAssumption ==
  /\ {Bits, TextSize, PrintSize} \subseteq Nat \ {0}
  /\ TextSize >= 3 /\ IntLimit <= Tens[TextSize - 2] /\ TextSize - 1 <= PrintSize
  /\ Ints \subseteq IntMin..(IntLimit - 1)
  /\ Formats \subseteq Seq(Byte) /\ Strings \subseteq Seq(Byte)

Percent == 37
Minus == 45
Zero == 48
Chars == {97, 37}   \* the chars passed for %c

VARIABLES
  loop,     \* "printf", "done", or "wild" once the format's end is passed
  fmt, pos, \* the format and the position of p in it
  taken,    \* history: the arguments va_arg has taken, each a sequence
  text,     \* of itoa
  out       \* what the terminal was given

printfVars == <<loop, fmt, pos, taken, text, out>>

PrintfInit ==
  /\ loop = "printf"
  /\ fmt \in Formats
  /\ pos = 1
  /\ taken = <<>>
  /\ text = [i \in 0..(TextSize - 1) |-> NUL]
  /\ out = <<>>

-----------------------------------------------------------------------------
(* itoa.                                                                   *)

\* num = -num: the least int is its own negation.
Negated(n) == IF n = IntMin THEN n ELSE -n

\* C's division truncates, so that a negative remainder is possible.
Quotient(n) == IF n < 0 THEN -((-n) \div 10) ELSE n \div 10
Remainder(n) == n - 10 * Quotient(n)

\* num before the loop and after each turn.
Left(n) ==
  LET After[k \in 0..TextSize] == IF k = 0 THEN n ELSE Quotient(After[k - 1]) IN After

\* The loop, which writes from the last digit to the first until num is 0.
Digits(n) ==
  LET turns == Min({k \in 0..TextSize : Left(n)[k] = 0})
  IN [k \in 1..turns |-> Zero + Remainder(Left(n)[turns - k])]

\* Mutant: the zero has no digit.
NumeralWithoutZero(n) ==
  (IF n < 0 THEN <<Minus>> ELSE <<>>) \o Digits(IF n < 0 THEN Negated(n) ELSE n)

\* The characters that itoa leaves at the end of text.
Numeral(n) ==
  LET digits == Digits(IF n < 0 THEN Negated(n) ELSE n)
  IN (IF n < 0 THEN <<Minus>> ELSE <<>>) \o (IF digits = <<>> THEN <<Zero>> ELSE digits)

itoa(n) == Put([text EXCEPT ![TextSize - 1] = NUL], TextSize - 1 - Len(Numeral(n)), Numeral(n))

-----------------------------------------------------------------------------
(* printf.                                                                 *)

\* print: the command copies PrintSize characters of the string.
Cut(s) == SubSeq(s, 1, IF Len(s) < PrintSize THEN Len(s) ELSE PrintSize)
print(s) == out' = out \o Cut(s)
putchar(c) == out' = Append(out, c)

At(i) == IF i <= Len(fmt) THEN fmt[i] ELSE NUL

\* One turn of the loop at a character that is no conversion.
Plain ==
  /\ loop = "printf"
  /\ At(pos) \notin {NUL, Percent}
  /\ putchar(At(pos))
  /\ pos' = pos + 1
  /\ UNCHANGED <<loop, fmt, taken, text>>

\* One turn at a conversion: the character behind the percent sign is c.
Conversion(c) ==
  /\ loop = "printf"
  /\ At(pos) = Percent
  /\ At(pos + 1) = c
  /\ pos' = pos + 2
  /\ UNCHANGED fmt

Decimal(n) ==
  /\ Conversion(100)
  /\ taken' = Append(taken, <<n>>)
  /\ text' = itoa(n)
  /\ print(StringAt(text', TextSize - 1 - Len(Numeral(n))))
  /\ UNCHANGED loop

String(s) ==
  /\ Conversion(115)
  /\ taken' = Append(taken, s)
  /\ print(s)
  /\ UNCHANGED <<loop, text>>

Character(c) ==
  /\ Conversion(99)
  /\ taken' = Append(taken, <<c>>)
  /\ putchar(c)
  /\ UNCHANGED <<loop, text>>

\* Any other character is printed.  So is the NUL of a format that ends with
\* a percent sign, and the loop goes on behind it.
Other ==
  /\ Conversion(At(pos + 1))
  /\ At(pos + 1) \notin {100, 115, 99}
  /\ putchar(At(pos + 1))
  /\ loop' = IF At(pos + 1) = NUL THEN "wild" ELSE loop
  /\ UNCHANGED <<taken, text>>

Return ==
  /\ loop = "printf"
  /\ At(pos) = NUL
  /\ loop' = "done"
  /\ UNCHANGED <<fmt, pos, taken, text, out>>

Returned == loop \in {"done", "wild"} /\ UNCHANGED printfVars

PrintfNext == \/ Plain
        \/ \E n \in Ints : Decimal(n)
        \/ \E s \in Strings : String(s)
        \/ \E c \in Chars : Character(c)
        \/ Other
        \/ Return
        \/ Returned

PrintfSpec == PrintfInit /\ [][PrintfNext]_printfVars

-----------------------------------------------------------------------------
(* Properties.                                                             *)

\* The decimal numeral of n, digit by digit from the front.
Abs(n) == IF n < 0 THEN -n ELSE n
Length(n) == CHOOSE l \in 1..TextSize : Abs(n) < Tens[l] /\ (l = 1 \/ Abs(n) >= Tens[l - 1])
InDecimal(n) ==
  (IF n < 0 THEN <<Minus>> ELSE <<>>)
    \o [k \in 1..Length(n) |-> Zero + ((Abs(n) \div Tens[Length(n) - k]) % 10)]

\* What a format means, read by an automaton that remembers whether the last
\* character was an open percent sign and how many arguments were used.
Unread == [open |-> FALSE, used |-> 0, text |-> <<>>]
Read(s, c, args) ==
  CASE ~s.open /\ c = Percent -> [s EXCEPT !.open = TRUE]
    [] ~s.open /\ c # Percent -> [s EXCEPT !.text = Append(@, c)]
    [] s.open /\ c = 100 -> [open |-> FALSE, used |-> s.used + 1,
                             text |-> s.text \o InDecimal(args[s.used + 1][1])]
    [] s.open /\ c = 115 -> [open |-> FALSE, used |-> s.used + 1,
                             text |-> s.text \o Cut(args[s.used + 1])]
    [] s.open /\ c = 99 -> [open |-> FALSE, used |-> s.used + 1,
                            text |-> Append(s.text, args[s.used + 1][1])]
    [] OTHER -> [s EXCEPT !.open = FALSE, !.text = Append(@, c)]
Meaning(format, args) ==
  LET After[k \in 0..Len(format)] ==
        IF k = 0 THEN Unread ELSE Read(After[k - 1], format[k], args)
  IN After[Len(format)]

\* What reaches the terminal is what the format and the arguments mean, and
\* every argument is used once, although all numbers pass through one static
\* text that is filled from its end.  The exceptions: a format that ends with
\* a percent sign is read past its end, and the least int is printed with
\* characters that are no digits.  A string longer than the buffer of print
\* means its first characters here (Cut) (stdio.c:24-61, stdlib.c:8-33).
PrintsMeaning ==
  /\ loop = "done" /\ (\A k \in DOMAIN taken : taken[k] # <<IntMin>>) =>
       LET meaning == Meaning(fmt, taken)
       IN out = meaning.text /\ meaning.used = Len(taken)
  /\ loop = "wild" => fmt[Len(fmt)] = Percent
=============================================================================
