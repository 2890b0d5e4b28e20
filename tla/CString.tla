------------------------------ MODULE CString -------------------------------
(***************************************************************************)
(* The string and memory library that the kernel and the programs share    *)
(* (lib/src/string.c, lib/src/memory.c), as operators over memory: a       *)
(* function from addresses to bytes.  A string is a sequence of bytes none *)
(* of which is NUL; in memory it begins at an address and ends at the next *)
(* NUL.  A function that would write sees its result returned as the new   *)
(* memory.                                                                 *)
(***************************************************************************)
EXTENDS Integers, Sequences, FiniteSets, SequencesExt

NUL == 0
Space == 32
Slash == 47
Colon == 58
Byte == 1..255       \* a byte that is not NUL

\* The bytes of sequence s stored in memory m from address a on; what falls
\* outside of m is lost.
Put(m, a, s) ==
  [i \in DOMAIN m |-> IF i - a + 1 \in DOMAIN s THEN s[i - a + 1] ELSE m[i]]

\* A string that begins at a has its NUL before the address limit.
Terminated(m, a, limit) == \E i \in DOMAIN m : i >= a /\ i < limit /\ m[i] = NUL

strlen(m, a) ==
  CHOOSE n \in 0..Cardinality(DOMAIN m) :
     /\ m[a + n] = NUL
     /\ \A k \in 0..(n - 1) : m[a + k] # NUL

StringAt(m, a) == [k \in 1..strlen(m, a) |-> m[a + k - 1]]

memcpy(m, bytes, dest) == Put(m, dest, bytes)

strcpy(m, s, dest) == Put(m, dest, Append(s, NUL))

\* strncpy copies n bytes, whatever they are, and then writes a NUL: n + 1
\* bytes of dest change.
strncpy(from, src, m, dest, n) ==
  Put(m, dest, Append([k \in 1..n |-> from[src + k - 1]], NUL))

strcat(m, s1, s2, dest) == Put(m, dest, s1 \o s2 \o <<NUL>>)

\* The addresses of the string at a and of what is behind its delimiters, in
\* order; After[k] is the array after k characters.
Tokens(m, a, delimiter) ==
  LET After[k \in 0..strlen(m, a)] ==
        IF k = 0 THEN <<a>>
        ELSE IF m[a + k - 1] = delimiter THEN Append(After[k - 1], a + k)
        ELSE After[k - 1]
  IN  After[strlen(m, a)]

\* Mutant: the delimiters are left in the string.
TokensNotCut(m, a, delimiter) == [mem |-> m, tokens |-> Tokens(m, a, delimiter)]

\* Mutant: of delimiters in a row only the last begins a token.
SkipsEmptyTokens(m, a, delimiter) ==
  [mem |-> [i \in DOMAIN m |->
              IF i \in a..(a + strlen(m, a)) /\ m[i] = delimiter THEN NUL ELSE m[i]],
   tokens |-> SelectSeq(Tokens(m, a, delimiter), LAMBDA i : i = a \/ m[i] # delimiter)]

\* Every delimiter becomes a NUL and begins a token, also an empty one.
str_token(m, a, delimiter) ==
  [mem |-> [i \in DOMAIN m |->
              IF i \in a..(a + strlen(m, a)) /\ m[i] = delimiter THEN NUL ELSE m[i]],
   tokens |-> Tokens(m, a, delimiter)]

\* memcmp(p, q, n) = 0 for n > 0: the pointers are never advanced, so only
\* the first bytes are compared.
MemoryEqual(s1, s2) == s1[1] = s2[1]

is_digit(ch) == ch \in 48..57
atoi(ch) == ch - 48

to_lower_char(ch) == IF ch \in 65..90 THEN ch + 32 ELSE ch

\* istrncmp(s1, s2, n) = 0, for strings: the first n characters agree or
\* both strings end before.
EqualIgnoringCase(s1, s2, n) ==
  LET c(s, i) == IF i <= Len(s) THEN to_lower_char(s[i]) ELSE NUL
  IN \A i \in 1..n : c(s1, i) = c(s2, i) \/ \E j \in 1..(i - 1) : c(s1, j) = NUL

\* rstrip: the string up to its first space.
rstrip(s) == SubSeq(s, 1, SelectInSeq(Append(s, Space), LAMBDA ch : ch = Space) - 1)
=============================================================================
