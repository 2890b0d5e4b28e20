---------------------------- MODULE StringProofs ----------------------------
(***************************************************************************)
(* Proofs about the two specifications that follow strings through memory. *)
(* StartCommand: for every line, every size of the arrays and every        *)
(* directory and suffix of programs.  Printf: for every format, every int  *)
(* of every width that has a place in itoa's text, and every string.       *)
(***************************************************************************)
EXTENDS StartCommand, Printf, FiniteSetTheorems, SequenceTheorems,
        WellFoundedInduction, TLAPS

-----------------------------------------------------------------------------
(* Induction and recursion over numbers.                                   *)

\* Induction, for a set: what has 0 and with a number the next one, as far
\* as N, has all numbers up to N.
LEMMA UpTo ==
  ASSUME NEW N \in Nat, NEW S, 0 \in S, \A n \in 0..(N - 1) : n \in S => n + 1 \in S
  PROVE  0..N \subseteq S
<1>. DEFINE T == {n \in 0..N : n \notin S}
<1>1. SUFFICES ASSUME T # {} PROVE FALSE
  OBVIOUS
<1>2. T \in SUBSET Nat
  OBVIOUS
<1>3. PICK m \in T : \A y \in T : ~(<<y, m>> \in OpToRel(<, Nat))
  BY <1>1, <1>2, NatLessThanWellFounded, WFMin
<1>4. \A y \in T : ~(y < m)
  <2>. SUFFICES ASSUME NEW y \in T, y < m PROVE FALSE
    OBVIOUS
  <2>1. y \in Nat /\ m \in Nat
    BY <1>2
  <2>. HIDE DEF T
  <2>2. <<y, m>> \in OpToRel(<, Nat)
    BY <2>1 DEF OpToRel
  <2>. QED
    BY <1>3, <2>2
<1>5. m \in 1..N /\ m \notin S /\ m - 1 \in 0..(N - 1)
  OBVIOUS
<1>6. m - 1 \in S
  BY <1>4, <1>5
<1>. QED
  BY <1>5, <1>6

\* g is what N steps make of a, in the set V.
Solves(g, N, V, a, F) ==
  g \in [0..N -> V] /\ g[0] = a /\ \A n \in 1..N : g[n] = F[n][g[n - 1]]

\* A recursion whose steps are functions on a set V has a solution ...
LEMMA Recursion ==
  ASSUME NEW N \in Nat, NEW V, NEW a \in V, NEW F \in [1..N -> [V -> V]]
  PROVE  \E g : Solves(g, N, V, a, F)
<1>. DEFINE Sol(m, g) == g[0] = a /\ \A n \in 1..m : g[n] = F[n][g[n - 1]]
            S == {m \in 0..N : \E g \in [0..m -> V] : Sol(m, g)}
<1>1. 0 \in S
  <2>1. PICK g : g = [n \in 0..0 |-> a]
    OBVIOUS
  <2>2. g \in [0..0 -> V] /\ g[0] = a /\ 1..0 = {}
    BY <2>1
  <2>3. Sol(0, g)
    BY <2>2
  <2>. QED
    BY <2>2, <2>3
<1>2. ASSUME NEW m \in 0..(N - 1), m \in S PROVE m + 1 \in S
  <2>1. PICK g \in [0..m -> V] : Sol(m, g)
    BY <1>2
  <2>2. g[m] \in V /\ F[m + 1] \in [V -> V] /\ m + 1 \in 1..N
    OBVIOUS
  <2>. DEFINE h == [n \in 0..(m + 1) |-> IF n <= m THEN g[n] ELSE F[m + 1][g[m]]]
  <2>3. h \in [0..(m + 1) -> V]
    BY <2>2
  <2>4. h[0] = a
    BY <2>1
  <2>5. ASSUME NEW n \in 1..(m + 1) PROVE h[n] = F[n][h[n - 1]]
    <3>1. h[n - 1] = g[n - 1]
      OBVIOUS
    <3>2. CASE n <= m
      BY <2>1, <3>1, <3>2
    <3>3. CASE n = m + 1
      BY <3>1, <3>3
    <3>. QED
      BY <3>2, <3>3
  <2>. HIDE DEF h
  <2>6. Sol(m + 1, h)
    BY <2>4, <2>5
  <2>7. m + 1 \in 0..N
    OBVIOUS
  <2>. HIDE DEF Sol
  <2>. QED
    BY <2>3, <2>6, <2>7
<1>. HIDE DEF S
<1>3. 0..N \subseteq S
  BY <1>1, <1>2, UpTo
<1>4. N \in S
  BY <1>3
<1>. QED
  BY <1>4 DEF S, Solves

\* ... and every solution stays in V.
LEMMA RecursionType ==
  ASSUME NEW N \in Nat, NEW V, NEW g, g[0] \in V,
         \A n \in 1..N : g[n - 1] \in V => g[n] \in V
  PROVE  \A n \in 0..N : g[n] \in V
<1>. DEFINE S == {n \in 0..N : g[n] \in V}
<1>1. 0 \in S
  OBVIOUS
<1>2. ASSUME NEW n \in 0..(N - 1), n \in S PROVE n + 1 \in S
  <2>1. n + 1 \in 1..N /\ (n + 1) - 1 = n
    OBVIOUS
  <2>. QED
    BY <2>1, <1>2
<1>. HIDE DEF S
<1>3. 0..N \subseteq S
  BY <1>1, <1>2, UpTo
<1>. QED
  BY <1>3 DEF S

-----------------------------------------------------------------------------
(* Least elements.                                                         *)

\* A non-empty set of naturals has a least element, and Min names it.
LEMMA MinOfSet ==
  ASSUME NEW S \in SUBSET Nat, S # {}
  PROVE  Min(S) \in S /\ \A y \in S : Min(S) <= y
<1>1. PICK x \in S : \A y \in S : ~(<<y, x>> \in OpToRel(<, Nat))
  BY NatLessThanWellFounded, WFMin
<1>2. \A y \in S : ~(y < x)
  BY <1>1 DEF OpToRel
<1>3. \A y \in S : x <= y
  BY <1>2
<1>. QED
  BY <1>3 DEF Min

\* A least element is the Min of its set.
LEMMA MinIs ==
  ASSUME NEW S \in SUBSET Nat, NEW m \in S, \A y \in S : m <= y
  PROVE  Min(S) = m
<1>1. Min(S) \in S /\ \A y \in S : Min(S) <= y
  BY MinOfSet
<1>2. Min(S) \in Nat /\ m \in Nat /\ Min(S) <= m /\ m <= Min(S)
  BY <1>1
<1>. QED
  BY <1>2

-----------------------------------------------------------------------------
(* Strings in memory.                                                      *)

\* Memory m, of addresses from 0 to n, holds the string s at address a.
Holds(m, n, a, s) ==
  /\ a + Len(s) <= n
  /\ \A k \in 1..Len(s) : m[a + k - 1] = s[k]
  /\ m[a + Len(s)] = NUL

\* A memory of bytes at the addresses from 0 to n.
Memory(m, n) == m \in [0..n -> Int]

\* What a string is.
LEMMA StringBytes ==
  ASSUME NEW s \in Seq(Byte)
  PROVE  /\ Len(s) \in Nat /\ DOMAIN s = 1..Len(s) /\ s \in Seq(Int)
         /\ \A k \in 1..Len(s) : s[k] \in Int /\ s[k] \in 1..255 /\ s[k] # NUL
<1>1. Len(s) \in Nat /\ DOMAIN s = 1..Len(s)
  BY LenProperties
<1>2. ASSUME NEW k \in 1..Len(s) PROVE s[k] \in Int /\ s[k] \in 1..255 /\ s[k] # NUL
  <2>1. s[k] \in Byte
    BY ElementOfSeq
  <2>2. PICK x : x = s[k]
    OBVIOUS
  <2>3. x \in 1..255
    BY <2>1, <2>2 DEF Byte
  <2>4. x \in Int /\ x # NUL
    BY <2>3 DEF NUL
  <2>. QED
    BY <2>2, <2>3, <2>4
<1>3. Byte \subseteq Int
  BY DEF Byte
<1>4. s \in Seq(Int)
  BY <1>3, SeqMonotonic
<1>. QED
  BY <1>1, <1>2, <1>4

\* c is the k characters of a and the m characters of b.
Composed(c, S, a, k, b, m) ==
  /\ c \in Seq(S) /\ Len(c) = k + m
  /\ \A i \in 1..k : c[i] = a[i]
  /\ \A i \in 1..m : c[k + i] = b[i]

\* Concatenation, by the lengths of its parts.
LEMMA ConcatIs ==
  ASSUME NEW S, NEW a \in Seq(S), NEW b \in Seq(S), NEW k \in Nat, NEW m \in Nat,
         Len(a) = k, Len(b) = m, NEW c, c = a \o b
  PROVE  Composed(c, S, a, k, b, m)
<1>1. /\ c \in Seq(S) /\ Len(c) = Len(a) + Len(b)
      /\ \A i \in 1..(Len(a) + Len(b)) : c[i] = IF i <= Len(a) THEN a[i] ELSE b[i - Len(a)]
  BY ConcatProperties
<1>2. Len(c) = k + m /\ \A i \in 1..(k + m) : c[i] = IF i <= k THEN a[i] ELSE b[i - k]
  BY <1>1
<1>3. \A i \in 1..k : i \in 1..(k + m) /\ i <= k
  OBVIOUS
<1>4. \A i \in 1..m : k + i \in 1..(k + m) /\ ~(k + i <= k) /\ (k + i) - k = i
  OBVIOUS
<1>. QED
  BY <1>1, <1>2, <1>3, <1>4 DEF Composed

\* A string that memory holds is what is read there.
LEMMA ReadBack ==
  ASSUME NEW n \in Nat, NEW m, Memory(m, n), NEW a \in Nat, NEW s \in Seq(Byte), Holds(m, n, a, s)
  PROVE  strlen(m, a) = Len(s) /\ StringAt(m, a) = s
<1>1. /\ Len(s) \in Nat /\ DOMAIN s = 1..Len(s)
      /\ \A k \in 1..Len(s) : s[k] # NUL
      /\ a + Len(s) <= n /\ m[a + Len(s)] = NUL
      /\ \A k \in 1..Len(s) : m[a + k - 1] = s[k]
  BY StringBytes DEF Holds
<1>2. DOMAIN m = 0..n /\ Cardinality(0..n) = n + 1
  BY FS_Interval DEF Memory
<1>3. PICK l \in Nat : l = Len(s)
  BY <1>1
<1>3a. l \in 0..(n + 1)
  BY <1>1, <1>3
<1>4. \A k \in 0..(l - 1) : m[a + k] # NUL
  <2>. SUFFICES ASSUME NEW k \in 0..(l - 1) PROVE m[a + k] # NUL
    OBVIOUS
  <2>1. k + 1 \in 1..Len(s) /\ a + (k + 1) - 1 = a + k
    BY <1>3
  <2>. QED
    BY <1>1, <2>1
<1>5. m[a + l] = NUL
  BY <1>1, <1>3
<1>6. ASSUME NEW x \in 0..(n + 1), m[a + x] = NUL, \A k \in 0..(x - 1) : m[a + k] # NUL
      PROVE  x = l
  <2>1. ~(x < l) /\ ~(l < x)
    BY <1>4, <1>5, <1>6
  <2>. QED
    BY <2>1
<1>7. strlen(m, a) = l
  BY <1>2, <1>3a, <1>4, <1>5, <1>6 DEF strlen
<1>8. StringAt(m, a) = [k \in 1..l |-> m[a + k - 1]]
  BY <1>7 DEF StringAt
<1>9. s = [k \in 1..l |-> s[k]]
  BY <1>1, <1>3, SeqDef
<1>. QED
  BY <1>1, <1>3, <1>7, <1>8, <1>9

\* Put changes the bytes it is given, and no other.
LEMMA PutIs ==
  ASSUME NEW n \in Nat, NEW m, Memory(m, n), NEW a \in Int, NEW t \in Seq(Int)
  PROVE  /\ Memory(Put(m, a, t), n)
         /\ \A k \in 1..Len(t) : a + k - 1 \in 0..n => Put(m, a, t)[a + k - 1] = t[k]
         /\ \A i \in 0..n : i < a \/ a + Len(t) <= i => Put(m, a, t)[i] = m[i]
<1>1. DOMAIN m = 0..n /\ DOMAIN t = 1..Len(t) /\ Len(t) \in Nat
  BY LenProperties DEF Memory
<1>2. Put(m, a, t) = [i \in 0..n |-> IF i - a + 1 \in 1..Len(t) THEN t[i - a + 1] ELSE m[i]]
  BY <1>1 DEF Put
<1>3. \A k \in 1..Len(t) : t[k] \in Int
  BY ElementOfSeq
<1>4. \A i \in 0..n : m[i] \in Int
  BY DEF Memory
<1>5. Memory(Put(m, a, t), n)
  BY <1>2, <1>3, <1>4 DEF Memory
<1>6. ASSUME NEW k \in 1..Len(t), a + k - 1 \in 0..n
      PROVE  Put(m, a, t)[a + k - 1] = t[k]
  <2>1. (a + k - 1) - a + 1 = k
    BY <1>1
  <2>. QED
    BY <1>2, <1>6, <2>1
<1>7. ASSUME NEW i \in 0..n, i < a \/ a + Len(t) <= i
      PROVE  Put(m, a, t)[i] = m[i]
  <2>1. i - a + 1 \notin 1..Len(t)
    BY <1>1, <1>7
  <2>. QED
    BY <1>2, <2>1
<1>. QED
  BY <1>5, <1>6, <1>7

\* A string and the NUL that ends it.
LEMMA WithNul ==
  ASSUME NEW s \in Seq(Byte)
  PROVE  /\ Append(s, NUL) \in Seq(Int)
         /\ Len(Append(s, NUL)) = Len(s) + 1
         /\ \A k \in 1..Len(s) : Append(s, NUL)[k] = s[k]
         /\ Append(s, NUL)[Len(s) + 1] = NUL
BY StringBytes, AppendProperties DEF NUL

\* What is stored with its NUL is held.
LEMMA WritesString ==
  ASSUME NEW n \in Nat, NEW m, Memory(m, n), NEW a \in Nat, NEW s \in Seq(Byte),
         a + Len(s) <= n
  PROVE  Holds(Put(m, a, Append(s, NUL)), n, a, s)
<1>1. PICK t : t = Append(s, NUL)
  OBVIOUS
<1>2. /\ t \in Seq(Int) /\ Len(t) = Len(s) + 1 /\ Len(s) \in Nat
      /\ \A k \in 1..Len(s) : t[k] = s[k]
      /\ t[Len(s) + 1] = NUL
  BY <1>1, WithNul, StringBytes
<1>3. \A k \in 1..Len(t) : a + k - 1 \in 0..n => Put(m, a, t)[a + k - 1] = t[k]
  <2>1. a \in Int
    OBVIOUS
  <2>2. t \in Seq(Int)
    BY <1>2
  <2>. QED
    BY <2>1, <2>2, PutIs
<1>4. \A k \in 1..Len(s) : Put(m, a, t)[a + k - 1] = s[k]
  <2>1. PICK l \in Nat : l = Len(s) /\ Len(t) = l + 1
    BY <1>2
  <2>2. a + l <= n
    BY <2>1
  <2>3. \A k \in 1..l : k \in 1..(l + 1) /\ a + k - 1 \in 0..n
    BY <2>2
  <2>. QED
    BY <1>2, <1>3, <2>1, <2>3
<1>5. Len(s) + 1 \in 1..Len(t) /\ a + (Len(s) + 1) - 1 = a + Len(s) /\ a + Len(s) \in 0..n
  <2>1. PICK l \in Nat : l = Len(s)
    BY <1>2
  <2>2. l + 1 \in 1..(l + 1) /\ a + (l + 1) - 1 = a + l /\ a + l \in 0..n
    BY <2>1
  <2>. QED
    BY <1>2, <2>1, <2>2
<1>6. Put(m, a, t)[a + Len(s)] = NUL
  BY <1>2, <1>3, <1>5
<1>. QED
  BY <1>1, <1>4, <1>6 DEF Holds

\* A string stays where nothing is stored.
LEMMA KeepsString ==
  ASSUME NEW n \in Nat, NEW m, Memory(m, n), NEW a \in Nat, NEW s \in Seq(Byte),
         Holds(m, n, a, s), NEW b \in Int, NEW t \in Seq(Int),
         a + Len(s) < b \/ b + Len(t) <= a
  PROVE  Holds(Put(m, b, t), n, a, s)
<1>1. Len(s) \in Nat /\ Len(t) \in Nat
  BY LenProperties
<1>2. \A i \in 0..n : i < b \/ b + Len(t) <= i => Put(m, b, t)[i] = m[i]
  BY PutIs
<1>3. a + Len(s) <= n
  BY DEF Holds
<1>4. \A i \in a..(a + Len(s)) : Put(m, b, t)[i] = m[i]
  BY <1>1, <1>2, <1>3
<1>5. \A k \in 1..Len(s) : Put(m, b, t)[a + k - 1] = m[a + k - 1]
  BY <1>1, <1>4
<1>6. Put(m, b, t)[a + Len(s)] = m[a + Len(s)]
  BY <1>1, <1>4
<1>. QED
  BY <1>5, <1>6 DEF Holds

\* strncpy copies what it finds, and a NUL behind it.
LEMMA StrncpyIs ==
  ASSUME NEW n \in Nat, NEW m, Memory(m, n), NEW dest \in Int,
         NEW from, NEW src \in Int, NEW c \in Nat,
         \A k \in 1..c : from[src + k - 1] \in Int
  PROVE  /\ Memory(strncpy(from, src, m, dest, c), n)
         /\ \A k \in 1..c : dest + k - 1 \in 0..n =>
              strncpy(from, src, m, dest, c)[dest + k - 1] = from[src + k - 1]
         /\ dest + c \in 0..n => strncpy(from, src, m, dest, c)[dest + c] = NUL
<1>1. PICK b : b = [k \in 1..c |-> from[src + k - 1]]
  OBVIOUS
<1>2. b \in Seq(Int) /\ Len(b) = c /\ \A k \in 1..c : b[k] = from[src + k - 1]
  BY <1>1
<1>3. PICK t : t = Append(b, NUL)
  OBVIOUS
<1>4. /\ t \in Seq(Int) /\ Len(t) = c + 1 /\ t[c + 1] = NUL
      /\ \A k \in 1..c : t[k] = b[k]
  BY <1>2, <1>3, AppendProperties DEF NUL
<1>5. strncpy(from, src, m, dest, c) = Put(m, dest, t)
  BY <1>1, <1>3 DEF strncpy
<1>6. /\ Memory(Put(m, dest, t), n)
      /\ \A k \in 1..Len(t) : dest + k - 1 \in 0..n => Put(m, dest, t)[dest + k - 1] = t[k]
  BY <1>4, PutIs
<1>7. ASSUME NEW k \in 1..c, dest + k - 1 \in 0..n
      PROVE  Put(m, dest, t)[dest + k - 1] = from[src + k - 1]
  <2>1. k \in 1..Len(t)
    BY <1>4
  <2>. QED
    BY <1>2, <1>4, <1>6, <1>7, <2>1
<1>8. c + 1 \in 1..Len(t) /\ dest + (c + 1) - 1 = dest + c
  BY <1>4
<1>9. dest + c \in 0..n => Put(m, dest, t)[dest + c] = NUL
  BY <1>4, <1>6, <1>8
<1>. QED
  BY <1>5, <1>6, <1>7, <1>9

-----------------------------------------------------------------------------
(* The line arrives.                                                       *)

\* What the constants are.
LEMMA Sizes ==
  /\ MaxPath \in Nat /\ MaxPath >= 1
  /\ copy = 0 /\ path = MaxPath /\ buffer = 2 * MaxPath /\ res = 3 * MaxPath
  /\ path \in Nat /\ buffer \in Nat /\ res \in Nat
  /\ Prefix \in Seq(Byte) /\ Suffix \in Seq(Byte)
  /\ Len(Prefix) \in Nat /\ Len(Suffix) \in Nat
  /\ Len(Prefix) >= 3 /\ Len(Prefix) + Len(Suffix) <= MaxPath
BY StartAssumption, LenProperties DEF copy, path, buffer, res

\* The beginning of a string.
LEMMA CutString ==
  ASSUME NEW s \in Seq(Byte), NEW u \in 0..Len(s)
  PROVE  /\ SubSeq(s, 1, u) \in Seq(Byte)
         /\ Len(SubSeq(s, 1, u)) = u
         /\ \A i \in 1..u : SubSeq(s, 1, u)[i] = s[i]
<1>1. Len(s) \in Nat /\ \A i \in 1..Len(s) : s[i] \in Byte
  BY LenProperties, ElementOfSeq
<1>2. \A i \in 1..u : s[i] \in Byte
  BY <1>1
<1>. QED
  BY <1>2, SubSeqProperties

\* What is left of a line.
LEMMA TakenIs ==
  ASSUME line \in Seq(Byte)
  PROVE  /\ Taken \in Seq(Byte) /\ Len(Taken) \in Nat
         /\ Len(Taken) <= MaxPath /\ Len(Taken) <= Len(line)
         /\ Len(Taken) = Len(line) \/ Len(Taken) = MaxPath
         /\ \A k \in 1..Len(Taken) : Taken[k] = line[k]
<1>1. PICK l \in Nat : l = Len(line)
  BY LenProperties
<1>2. PICK u \in Nat : u = IF l < MaxPath THEN l ELSE MaxPath
  BY Sizes
<1>3. u \in 0..l /\ u <= MaxPath /\ (u = l \/ u = MaxPath)
  BY <1>2, Sizes
<1>4. Taken = SubSeq(line, 1, u)
  BY <1>1, <1>2 DEF Taken
<1>5. /\ SubSeq(line, 1, u) \in Seq(Byte) /\ Len(SubSeq(line, 1, u)) = u
      /\ \A i \in 1..u : SubSeq(line, 1, u)[i] = line[i]
  BY <1>1, <1>3, CutString
<1>. QED
  BY <1>1, <1>3, <1>4, <1>5

\* The asking program's memory.
LEMMA UserMemoryIs ==
  ASSUME line \in Seq(Byte)
  PROVE  /\ \A k \in 1..MaxPath : UserMemory[k] \in Int
         /\ \A k \in 1..Len(line) : UserMemory[k] = line[k]
         /\ UserMemory[Len(line) + 1] = NUL
<1>1. PICK l \in Nat : l = Len(line)
  BY LenProperties
<1>2. PICK t : t = Append(line, NUL)
  OBVIOUS
<1>3. /\ t \in Seq(Int) /\ Len(t) = l + 1 /\ t[l + 1] = NUL
      /\ \A k \in 1..l : t[k] = line[k]
  BY <1>1, <1>2, WithNul
<1>4. PICK M \in Nat : M = MaxPath
  BY Sizes
<1>5. PICK j : j = [i \in 1..M |-> Junk]
  OBVIOUS
<1>6. j \in Seq(Int) /\ Len(j) = M
  BY <1>5 DEF Junk
<1>7. PICK w : w = t \o j
  OBVIOUS
<1>8. UserMemory = w
  BY <1>2, <1>4, <1>5, <1>7 DEF UserMemory
<1>9. Composed(w, Int, t, l + 1, j, M)
  <2>1. l + 1 \in Nat
    OBVIOUS
  <2>. QED
    BY <1>3, <1>6, <1>7, <2>1, ConcatIs
<1>10. w \in Seq(Int) /\ Len(w) = l + 1 + M /\ \A i \in 1..(l + 1) : w[i] = t[i]
  BY <1>9 DEF Composed
<1>11. \A i \in 1..Len(w) : w[i] \in Int
  BY <1>10, ElementOfSeq
<1>12. \A k \in 1..M : w[k] \in Int
  BY <1>10, <1>11
<1>13. \A k \in 1..l : w[k] = line[k]
  BY <1>3, <1>10
<1>14. w[l + 1] = NUL
  BY <1>3, <1>10
<1>. QED
  BY <1>1, <1>4, <1>8, <1>12, <1>13, <1>14

\* After copy_string_from_task, buffer holds what is left of the line.
LEMMA LineArrives ==
  ASSUME line \in Seq(Byte), Memory(frame, res)
  PROVE  LET tmp == strncpy(UserMemory, 1, [i \in 0..MaxPath |-> 0], 0, MaxPath)
             new == strncpy(tmp, 0, frame, buffer, MaxPath)
         IN  Memory(new, res) /\ Holds(new, res, buffer, Taken)
<1>1. PICK M \in Nat : M = MaxPath
  BY Sizes
<1>2. PICK u : u = UserMemory
  OBVIOUS
<1>3. PICK z : z = [i \in 0..M |-> 0]
  OBVIOUS
<1>4. Memory(z, M)
  BY <1>3 DEF Memory
<1>5. PICK tmp : tmp = strncpy(u, 1, z, 0, M)
  OBVIOUS
<1>6. \A k \in 1..M : u[1 + k - 1] \in Int
  <2>1. \A k \in 1..M : u[k] \in Int
    BY <1>1, <1>2, UserMemoryIs
  <2>2. \A k \in 1..M : 1 + k - 1 = k
    OBVIOUS
  <2>. QED
    BY <2>1, <2>2
<1>7. \A k \in 1..M : 0 + k - 1 \in 0..M => tmp[0 + k - 1] = u[1 + k - 1]
  BY <1>4, <1>5, <1>6, StrncpyIs
<1>8. \A k \in 1..M : tmp[0 + k - 1] = u[k]
  <2>1. \A k \in 1..M : 0 + k - 1 \in 0..M /\ 1 + k - 1 = k
    OBVIOUS
  <2>. QED
    BY <1>7, <2>1
<1>9. \A k \in 1..M : tmp[0 + k - 1] \in Int
  <2>1. \A k \in 1..M : 1 + k - 1 = k
    OBVIOUS
  <2>. QED
    BY <1>6, <1>8, <2>1
<1>10. PICK new : new = strncpy(tmp, 0, frame, buffer, M)
  OBVIOUS
<1>11. PICK R \in Nat, b \in Int : R = res /\ b = buffer /\ R = b + M /\ b >= 0
  BY <1>1, Sizes
<1>12. /\ Memory(new, R)
       /\ \A k \in 1..M : b + k - 1 \in 0..R => new[b + k - 1] = tmp[0 + k - 1]
       /\ b + M \in 0..R => new[b + M] = NUL
  BY <1>9, <1>10, <1>11, StrncpyIs
<1>13. \A k \in 1..M : new[b + k - 1] = u[k]
  <2>1. \A k \in 1..M : b + k - 1 \in 0..R
    BY <1>11
  <2>. QED
    BY <1>8, <1>12, <2>1
<1>14. new[b + M] = NUL
  BY <1>11, <1>12
<1>15. PICK s \in Seq(Byte), l \in Nat : s = Taken /\ l = Len(s)
  BY TakenIs
<1>16. /\ l <= M /\ (l = Len(line) \/ l = M)
       /\ \A k \in 1..l : s[k] = line[k]
       /\ \A k \in 1..l : u[k] = line[k]
  <2>1. l <= Len(line) /\ Len(line) \in Nat
    BY <1>15, TakenIs, LenProperties
  <2>2. \A k \in 1..Len(line) : u[k] = line[k]
    BY <1>2, UserMemoryIs
  <2>. QED
    BY <1>1, <1>15, <2>1, <2>2, TakenIs
<1>17. \A k \in 1..l : new[b + k - 1] = s[k]
  BY <1>13, <1>16
<1>18. new[b + l] = NUL
  <2>1. CASE l = M
    BY <1>14, <2>1
  <2>2. CASE l # M
    <3>1. l + 1 \in 1..M /\ b + (l + 1) - 1 = b + l
      BY <1>16, <2>2
    <3>2. u[l + 1] = NUL
      BY <1>2, <1>16, <2>2, UserMemoryIs
    <3>. QED
      BY <1>13, <3>1, <3>2
  <2>. QED
    BY <2>1, <2>2
<1>19. Holds(new, R, b, s)
  BY <1>11, <1>15, <1>16, <1>17, <1>18 DEF Holds
<1>. QED
  BY <1>1, <1>2, <1>3, <1>5, <1>10, <1>11, <1>12, <1>15, <1>19

-----------------------------------------------------------------------------
(* str_token.                                                              *)

\* A part of a string.
LEMMA PartString ==
  ASSUME NEW s \in Seq(Byte), NEW v \in 0..Len(s), NEW u \in v..Len(s)
  PROVE  /\ SubSeq(s, v + 1, u) \in Seq(Byte)
         /\ Len(SubSeq(s, v + 1, u)) = u - v
         /\ \A i \in 1..(u - v) : SubSeq(s, v + 1, u)[i] = s[v + i]
<1>1. Len(s) \in Nat /\ \A i \in 1..Len(s) : s[i] \in Byte
  BY LenProperties, ElementOfSeq
<1>2. \A i \in (v + 1)..u : s[i] \in Byte
  BY <1>1
<1>3. v + 1 \in Int /\ u \in Int
  BY <1>1
<1>4. PICK w : w = SubSeq(s, v + 1, u)
  OBVIOUS
<1>5. /\ w \in Seq(Byte)
      /\ Len(w) = IF v + 1 <= u THEN u - (v + 1) + 1 ELSE 0
      /\ \A i \in 1..(u - (v + 1) + 1) : w[i] = s[v + 1 + i - 1]
  BY <1>2, <1>3, <1>4, SubSeqProperties
<1>6. Len(w) = u - v
  BY <1>1, <1>5
<1>7. ASSUME NEW i \in 1..(u - v) PROVE w[i] = s[v + i]
  <2>1. i \in 1..(u - (v + 1) + 1) /\ v + 1 + i - 1 = v + i
    BY <1>1
  <2>. QED
    BY <1>5, <2>1
<1>. QED
  BY <1>4, <1>5, <1>6, <1>7

\* c is m with the delimiters d of the string s at a cut out.
CutAt(c, m, n, a, s, d) ==
  /\ Memory(c, n)
  /\ \A i \in 0..n : i < a \/ a + Len(s) < i => c[i] = m[i]
  /\ \A k \in 1..Len(s) : c[a + k - 1] = IF s[k] = d THEN NUL ELSE s[k]
  /\ c[a + Len(s)] = NUL

\* str_token cuts.
LEMMA Cuts ==
  ASSUME NEW n \in Nat, NEW m, Memory(m, n), NEW a \in Nat, NEW s \in Seq(Byte),
         Holds(m, n, a, s), NEW d
  PROVE  CutAt(str_token(m, a, d).mem, m, n, a, s, d)
<1>1. PICK l \in Nat : l = Len(s)
  BY LenProperties
<1>2. strlen(m, a) = l /\ DOMAIN m = 0..n
  BY <1>1, ReadBack DEF Memory
<1>3. PICK c : c = str_token(m, a, d).mem
  OBVIOUS
<1>4. c = [i \in 0..n |-> IF i \in a..(a + l) /\ m[i] = d THEN NUL ELSE m[i]]
  BY <1>2, <1>3 DEF str_token
<1>5. a + l <= n /\ m[a + l] = NUL /\ \A k \in 1..l : m[a + k - 1] = s[k]
  BY <1>1 DEF Holds
<1>6. \A i \in 0..n : m[i] \in Int
  BY DEF Memory
<1>7. Memory(c, n)
  BY <1>4, <1>6 DEF Memory, NUL
<1>8. \A i \in 0..n : i < a \/ a + l < i => c[i] = m[i]
  BY <1>4
<1>9. ASSUME NEW k \in 1..l PROVE c[a + k - 1] = IF s[k] = d THEN NUL ELSE s[k]
  <2>1. a + k - 1 \in a..(a + l) /\ a + k - 1 \in 0..n
    BY <1>5
  <2>. QED
    BY <1>4, <1>5, <2>1
<1>10. c[a + l] = NUL
  <2>1. a + l \in 0..n
    BY <1>5
  <2>. QED
    BY <1>4, <1>5, <2>1
<1>. QED
  BY <1>1, <1>3, <1>7, <1>8, <1>9, <1>10 DEF CutAt

\* Between two cuts there is a string.
LEMMA CutHolds ==
  ASSUME NEW n \in Nat, NEW m, NEW a \in Nat, NEW s \in Seq(Byte), NEW d, NEW c,
         CutAt(c, m, n, a, s, d), a + Len(s) <= n,
         NEW v \in 0..Len(s), NEW u \in v..Len(s),
         \A j \in (v + 1)..u : s[j] # d,
         u = Len(s) \/ s[u + 1] = d
  PROVE  Holds(c, n, a + v, SubSeq(s, v + 1, u))
<1>1. PICK l \in Nat : l = Len(s)
  BY LenProperties
<1>2. PICK w : w = SubSeq(s, v + 1, u)
  OBVIOUS
<1>3. Len(w) = u - v /\ \A i \in 1..(u - v) : w[i] = s[v + i]
  BY <1>2, PartString
<1>4. v \in Nat /\ u \in Nat /\ v <= u /\ u <= l
  BY <1>1
<1>5. /\ \A k \in 1..l : c[a + k - 1] = IF s[k] = d THEN NUL ELSE s[k]
      /\ c[a + l] = NUL
  BY <1>1 DEF CutAt
<1>6. ASSUME NEW i \in 1..(u - v) PROVE c[a + v + i - 1] = w[i]
  <2>1. v + i \in 1..l /\ a + (v + i) - 1 = a + v + i - 1 /\ v + i \in (v + 1)..u
    BY <1>4
  <2>2. s[v + i] # d
    BY <2>1
  <2>3. c[a + (v + i) - 1] = s[v + i]
    BY <1>5, <2>1, <2>2
  <2>. QED
    BY <1>3, <2>1, <2>3
<1>7. c[a + u] = NUL
  <2>1. CASE u = l
    BY <1>5, <2>1
  <2>2. CASE u # l
    <3>1. u + 1 \in 1..l /\ a + (u + 1) - 1 = a + u
      BY <1>4, <2>2
    <3>2. s[u + 1] = d
      BY <1>1, <2>2
    <3>. QED
      BY <1>5, <3>1, <3>2
  <2>. QED
    BY <2>1, <2>2
<1>8. a + v + (u - v) = a + u /\ a + u <= n
  BY <1>1, <1>4
<1>. QED
  BY <1>2, <1>3, <1>6, <1>7, <1>8 DEF Holds

\* T is where the words of the first k characters of s, at address a, begin.
Split(T, s, a, d, k) ==
  /\ T \in Seq(Int) /\ Len(T) \in 1..(k + 1) /\ T[1] = a
  /\ \A i \in 1..Len(T) : T[i] \in a..(a + k)
  /\ \A i \in 1..(Len(T) - 1) :
       /\ T[i] < T[i + 1] /\ s[T[i + 1] - a] = d
       /\ \A j \in (T[i] - a + 1)..(T[i + 1] - a - 1) : s[j] # d
  /\ \A j \in (T[Len(T)] - a + 1)..k : s[j] # d

\* A character that is no delimiter prolongs the last word.
LEMMA SplitGoesOn ==
  ASSUME NEW a \in Nat, NEW k \in Nat, NEW s, NEW d, NEW T,
         Split(T, s, a, d, k), s[k + 1] # d
  PROVE  Split(T, s, a, d, k + 1)
<1>1. PICK l \in Nat : l = Len(T) /\ l >= 1 /\ l <= k + 1
  BY DEF Split
<1>2. T[l] \in Int /\ T \in Seq(Int) /\ T[1] = a
  BY <1>1, ElementOfSeq DEF Split
<1>3. \A i \in 1..l : T[i] \in a..(a + k)
  BY <1>1 DEF Split
<1>4. \A i \in 1..l : T[i] \in a..(a + (k + 1))
  BY <1>3
<1>5. \A j \in (T[l] - a + 1)..k : s[j] # d
  BY <1>1 DEF Split
<1>6. \A j \in (T[l] - a + 1)..(k + 1) : s[j] # d
  BY <1>2, <1>5
<1>7. l \in 1..((k + 1) + 1)
  BY <1>1
<1>8. \A i \in 1..(l - 1) :
       /\ T[i] < T[i + 1] /\ s[T[i + 1] - a] = d
       /\ \A j \in (T[i] - a + 1)..(T[i + 1] - a - 1) : s[j] # d
  BY <1>1 DEF Split
<1>. QED
  BY <1>1, <1>2, <1>4, <1>6, <1>7, <1>8 DEF Split

\* A delimiter begins the next word.
LEMMA SplitBegins ==
  ASSUME NEW a \in Nat, NEW k \in Nat, NEW s, NEW d, NEW T,
         Split(T, s, a, d, k), s[k + 1] = d
  PROVE  Split(Append(T, a + (k + 1)), s, a, d, k + 1)
<1>1. PICK l \in Nat : l = Len(T) /\ l >= 1 /\ l <= k + 1
  BY DEF Split
<1>2. T \in Seq(Int) /\ T[1] = a
  BY DEF Split
<1>3. PICK e \in Int : e = a + (k + 1)
  OBVIOUS
<1>4. PICK U : U = Append(T, e)
  OBVIOUS
<1>5. /\ U \in Seq(Int) /\ Len(U) = l + 1 /\ U[l + 1] = e
      /\ \A i \in 1..l : U[i] = T[i]
  BY <1>1, <1>2, <1>4, AppendProperties
<1>6. \A i \in 1..l : T[i] \in Int /\ T[i] \in a..(a + k)
  BY <1>1, <1>2, ElementOfSeq DEF Split
<1>7. l + 1 \in 1..((k + 1) + 1)
  BY <1>1
<1>8. U[1] = a
  BY <1>1, <1>2, <1>5
<1>9. ASSUME NEW i \in 1..(l + 1) PROVE U[i] \in a..(a + (k + 1))
  <2>1. CASE i \in 1..l
    BY <1>5, <1>6, <2>1
  <2>2. CASE i = l + 1
    BY <1>3, <1>5, <2>2
  <2>. QED
    BY <2>1, <2>2
<1>10. ASSUME NEW i \in 1..l
       PROVE  /\ U[i] < U[i + 1] /\ s[U[i + 1] - a] = d
              /\ \A j \in (U[i] - a + 1)..(U[i + 1] - a - 1) : s[j] # d
  <2>1. CASE i < l
    <3>1. i \in 1..(l - 1) /\ i + 1 \in 1..l
      BY <2>1
    <3>2. /\ T[i] < T[i + 1] /\ s[T[i + 1] - a] = d
          /\ \A j \in (T[i] - a + 1)..(T[i + 1] - a - 1) : s[j] # d
      BY <1>1, <3>1 DEF Split
    <3>3. U[i] = T[i] /\ U[i + 1] = T[i + 1]
      BY <1>5, <3>1
    <3>. QED
      BY <3>2, <3>3
  <2>2. CASE i = l
    <3>1. U[i] = T[l] /\ U[i + 1] = e /\ T[l] \in a..(a + k) /\ T[l] \in Int
      BY <1>5, <1>6, <2>2
    <3>2. T[l] < e /\ e - a = k + 1 /\ e - a - 1 = k
      BY <1>3, <3>1
    <3>3. \A j \in (T[l] - a + 1)..k : s[j] # d
      BY <1>1 DEF Split
    <3>. QED
      BY <3>1, <3>2, <3>3
  <2>. QED
    BY <2>1, <2>2
<1>11. \A j \in (e - a + 1)..(k + 1) : s[j] # d
  <2>1. (e - a + 1)..(k + 1) = {}
    BY <1>3
  <2>. QED
    BY <2>1
<1>12. l + 1 - 1 = l
  OBVIOUS
<1>. QED
  BY <1>3, <1>4, <1>5, <1>7, <1>8, <1>9, <1>10, <1>11, <1>12, SMTT(30) DEF Split

\* The loop of str_token.
IsTokens(g, m, a, d, l) ==
  g = [k \in 0..l |-> IF k = 0 THEN <<a>>
                      ELSE IF m[a + k - 1] = d THEN Append(g[k - 1], a + k)
                      ELSE g[k - 1]]

\* It ends.
LEMMA TokensExist ==
  ASSUME NEW m, NEW a \in Nat, NEW d, NEW l \in Nat
  PROVE  \E g : IsTokens(g, m, a, d, l)
<1>. DEFINE V == Seq(Int)
            F == [k \in 1..l |-> [v \in V |-> IF m[a + k - 1] = d THEN Append(v, a + k) ELSE v]]
<1>1. <<a>> \in V
  OBVIOUS
<1>2. ASSUME NEW k \in 1..l PROVE F[k] \in [V -> V]
  <2>1. ASSUME NEW v \in V PROVE Append(v, a + k) \in V
    <3>1. a + k \in Int
      OBVIOUS
    <3>. QED
      BY <3>1, AppendProperties
  <2>. HIDE DEF V
  <2>. QED
    BY <2>1
<1>3. F \in [1..l -> [V -> V]]
  BY <1>2
<1>. HIDE DEF V
<1>4. \A k \in 1..l : \A v \in V : F[k][v] = IF m[a + k - 1] = d THEN Append(v, a + k) ELSE v
  OBVIOUS
<1>. HIDE DEF F
<1>0. PICK b \in V : b = <<a>>
  BY <1>1, Zenon
<1>50. PICK g : Solves(g, l, V, b, F)
  BY <1>3, Recursion
<1>5. g \in [0..l -> V] /\ g[0] = b /\ \A k \in 1..l : g[k] = F[k][g[k - 1]]
  BY <1>50 DEF Solves
<1>6. ASSUME NEW k \in 1..l
      PROVE  g[k] = IF m[a + k - 1] = d THEN Append(g[k - 1], a + k) ELSE g[k - 1]
  <2>1. k - 1 \in 0..l
    OBVIOUS
  <2>2. g[k - 1] \in V
    BY <1>5, <2>1
  <2>. QED
    BY <1>4, <1>5, <2>2
<1>7. g = [k \in 0..l |-> g[k]]
  BY <1>5
<1>8. ASSUME NEW k \in 0..l
      PROVE  g[k] = IF k = 0 THEN b
                    ELSE IF m[a + k - 1] = d THEN Append(g[k - 1], a + k)
                    ELSE g[k - 1]
  <2>1. k = 0 \/ k \in 1..l
    OBVIOUS
  <2>. QED
    BY <1>5, <1>6, <2>1
<1>9. IsTokens(g, m, a, d, l)
  BY <1>0, <1>7, <1>8 DEF IsTokens
<1>. QED
  BY <1>9

\* str_token finds the words.
LEMMA TokensAre ==
  ASSUME NEW n \in Nat, NEW m, Memory(m, n), NEW a \in Nat, NEW s \in Seq(Byte),
         Holds(m, n, a, s), NEW d
  PROVE  Split(str_token(m, a, d).tokens, s, a, d, Len(s))
<1>1. PICK l \in Nat : l = Len(s)
  BY LenProperties
<1>2. strlen(m, a) = l
  BY <1>1, ReadBack
<1>3. str_token(m, a, d).tokens = (CHOOSE g : IsTokens(g, m, a, d, l))[l]
  BY <1>2 DEF str_token, Tokens, IsTokens
<1>4. PICK g : IsTokens(g, m, a, d, l) /\ str_token(m, a, d).tokens = g[l]
  BY <1>3, TokensExist, Zenon
<1>5. \A k \in 0..l : g[k] = IF k = 0 THEN <<a>>
                              ELSE IF m[a + k - 1] = d THEN Append(g[k - 1], a + k)
                              ELSE g[k - 1]
  BY <1>4 DEF IsTokens
<1>. DEFINE S == {k \in 0..l : Split(g[k], s, a, d, k)}
<1>6. 0 \in S
  <2>1. g[0] = <<a>>
    BY <1>5
  <2>2. PICK b : b = <<a>>
    OBVIOUS
  <2>3. b \in Seq(Int) /\ Len(b) = 1 /\ b[1] = a
    BY <2>2
  <2>4. Split(b, s, a, d, 0)
    <3>1. 1 \in 1..(0 + 1) /\ a \in a..(a + 0) /\ 1..(1 - 1) = {} /\ (a - a + 1)..0 = {}
      OBVIOUS
    <3>2. \A i \in 1..1 : b[i] \in a..(a + 0)
      BY <2>3, <3>1
    <3>. QED
      BY <2>3, <3>1, <3>2 DEF Split
  <2>. QED
    BY <2>1, <2>2, <2>4
<1>7. ASSUME NEW k \in 0..(l - 1), k \in S PROVE k + 1 \in S
  <2>1. k \in Nat /\ k + 1 \in 0..l /\ k + 1 # 0 /\ (k + 1) - 1 = k /\ k + 1 \in 1..l
    OBVIOUS
  <2>2. g[k + 1] = IF m[a + (k + 1) - 1] = d THEN Append(g[k], a + (k + 1)) ELSE g[k]
    BY <1>5, <2>1
  <2>3. m[a + (k + 1) - 1] = s[k + 1]
    BY <1>1, <2>1 DEF Holds
  <2>4. Split(g[k], s, a, d, k)
    BY <1>7
  <2>5. Split(g[k + 1], s, a, d, k + 1)
    <3>1. CASE s[k + 1] = d
      BY <2>1, <2>2, <2>3, <2>4, <3>1, SplitBegins
    <3>2. CASE s[k + 1] # d
      BY <2>1, <2>2, <2>3, <2>4, <3>2, SplitGoesOn
    <3>. QED
      BY <3>1, <3>2
  <2>. QED
    BY <2>1, <2>5
<1>. HIDE DEF S
<1>8. 0..l \subseteq S
  BY <1>6, <1>7, UpTo
<1>9. l \in S
  BY <1>8
<1>. QED
  BY <1>1, <1>4, <1>9 DEF S

\* rstrip ends where the first space is, or where the string ends.
LEMMA RstripIs ==
  ASSUME NEW s \in Seq(Byte)
  PROVE  \E u \in 0..Len(s) : /\ rstrip(s) = SubSeq(s, 1, u)
                              /\ \A i \in 1..u : s[i] # Space
                              /\ u = Len(s) \/ s[u + 1] = Space
<1>1. PICK t : t = Append(s, Space)
  OBVIOUS
<1>2. PICK l \in Nat : l = Len(s)
  BY LenProperties
<1>3. /\ t \in Seq(Byte) /\ Len(t) = l + 1 /\ t[l + 1] = Space
      /\ \A i \in 1..l : t[i] = s[i]
  <2>1. Space \in Byte
    BY DEF Space, Byte
  <2>. QED
    BY <1>1, <1>2, <2>1, AppendProperties
<1>4. PICK I : I = {i \in 1..Len(t) : t[i] = Space}
  OBVIOUS
<1>5. I \in SUBSET Nat /\ I # {}
  <2>1. l + 1 \in I
    BY <1>3, <1>4
  <2>. QED
    BY <1>4, <2>1
<1>6. Min(I) \in I /\ \A y \in I : Min(I) <= y
  BY <1>5, MinOfSet
<1>7. rstrip(s) = SubSeq(s, 1, (IF I # {} THEN Min(I) ELSE 0) - 1)
  BY <1>1, <1>4, Zenon DEF rstrip, SelectInSeq
<1>8. PICK x \in I : x = Min(I)
  BY <1>6
<1>9. x \in 1..(l + 1) /\ t[x] = Space /\ x - 1 \in 0..l
  BY <1>3, <1>4, <1>8
<1>10. rstrip(s) = SubSeq(s, 1, x - 1)
  BY <1>5, <1>7, <1>8
<1>11. ASSUME NEW i \in 1..(x - 1) PROVE s[i] # Space
  <2>1. i \in 1..l /\ i \in 1..(l + 1) /\ ~(x <= i)
    BY <1>9
  <2>2. i \notin I
    BY <1>6, <1>8, <2>1
  <2>3. t[i] # Space
    BY <1>3, <1>4, <2>1, <2>2
  <2>. QED
    BY <1>3, <2>1, <2>3
<1>12. x - 1 = l \/ s[(x - 1) + 1] = Space
  <2>1. x = l + 1 \/ x \in 1..l
    BY <1>9
  <2>2. (x - 1) + 1 = x
    BY <1>9
  <2>. QED
    BY <1>3, <1>9, <2>1, <2>2
<1>. QED
  BY <1>2, <1>9, <1>10, <1>11, <1>12

\* The command is the first word.
LEMMA CommandIs ==
  ASSUME line \in Seq(Byte)
  PROVE  \E u \in 0..Len(Taken) : /\ Command = SubSeq(Taken, 0 + 1, u)
                                  /\ \A i \in (0 + 1)..u : Taken[i] # Space
                                  /\ u = Len(Taken) \/ Taken[u + 1] = Space
                                  /\ Command \in Seq(Byte) /\ Len(Command) = u
<1>1. PICK s \in Seq(Byte) : s = Taken
  BY TakenIs
<1>2. PICK u \in 0..Len(s) : /\ rstrip(s) = SubSeq(s, 1, u)
                             /\ \A i \in 1..u : s[i] # Space
                             /\ u = Len(s) \/ s[u + 1] = Space
  BY RstripIs
<1>3. SubSeq(s, 1, u) \in Seq(Byte) /\ Len(SubSeq(s, 1, u)) = u
  BY CutString
<1>4. 0 + 1 = 1
  OBVIOUS
<1>. QED
  BY <1>1, <1>2, <1>3, <1>4 DEF Command

-----------------------------------------------------------------------------
(* Paths: how many parts begin up to a character.                          *)

\* The parts of a path are finitely many.
LEMMA StartsFinite ==
  ASSUME NEW p \in Seq(Byte), NEW i
  PROVE  /\ Starts(p) \subseteq 1..Len(p) /\ IsFiniteSet(Starts(p))
         /\ IsFiniteSet({j \in Starts(p) : j <= i})
         /\ Rank(p, i) \in Nat
<1>1. DOMAIN p = 1..Len(p) /\ Len(p) \in Nat
  BY LenProperties
<1>2. Starts(p) \subseteq 1..Len(p)
  BY <1>1 DEF Starts
<1>3. IsFiniteSet(1..Len(p))
  BY <1>1, FS_Interval
<1>4. IsFiniteSet(Starts(p))
  BY <1>2, <1>3, FS_Subset
<1>5. IsFiniteSet({j \in Starts(p) : j <= i})
  BY <1>4, FS_Subset
<1>. QED
  BY <1>2, <1>4, <1>5, FS_CardinalityType DEF Rank

\* None begins before the first character.
LEMMA RankZero == ASSUME NEW p \in Seq(Byte) PROVE Rank(p, 0) = 0
<1>1. Starts(p) \subseteq 1..Len(p) /\ Len(p) \in Nat
  BY StartsFinite, LenProperties
<1>2. {j \in Starts(p) : j <= 0} = {}
  BY <1>1
<1>. QED
  BY <1>2, FS_EmptySet DEF Rank

\* One more at each start.
LEMMA RankNext ==
  ASSUME NEW p \in Seq(Byte), NEW i \in Nat
  PROVE  /\ i + 1 \in Starts(p) => Rank(p, i + 1) = Rank(p, i) + 1
         /\ i + 1 \notin Starts(p) => Rank(p, i + 1) = Rank(p, i)
<1>1. Starts(p) \subseteq 1..Len(p) /\ Len(p) \in Nat
  BY StartsFinite, LenProperties
<1>2. PICK A : A = {j \in Starts(p) : j <= i}
  OBVIOUS
<1>3. PICK B : B = {j \in Starts(p) : j <= i + 1}
  OBVIOUS
<1>4. Rank(p, i) = Cardinality(A) /\ Rank(p, i + 1) = Cardinality(B) /\ IsFiniteSet(A)
  BY <1>2, <1>3, StartsFinite DEF Rank
<1>5. \A j \in Starts(p) : j \in Nat
  BY <1>1
<1>6. ASSUME i + 1 \in Starts(p) PROVE Rank(p, i + 1) = Rank(p, i) + 1
  <2>1. B = A \cup {i + 1} /\ i + 1 \notin A
    BY <1>2, <1>3, <1>5, <1>6
  <2>2. Cardinality(A \cup {i + 1}) = Cardinality(A) + 1
    BY <1>4, <2>1, FS_AddElement
  <2>. QED
    BY <1>4, <2>1, <2>2
<1>7. ASSUME i + 1 \notin Starts(p) PROVE Rank(p, i + 1) = Rank(p, i)
  <2>1. B = A
    BY <1>2, <1>3, <1>5, <1>7
  <2>. QED
    BY <1>4, <2>1
<1>. QED
  BY <1>6, <1>7

\* All of them at the end.
LEMMA RankAll == ASSUME NEW p \in Seq(Byte) PROVE Rank(p, Len(p)) = Cardinality(Starts(p))
<1>1. Starts(p) \subseteq 1..Len(p) /\ Len(p) \in Nat
  BY StartsFinite, LenProperties
<1>2. {j \in Starts(p) : j <= Len(p)} = Starts(p)
  BY <1>1
<1>. QED
  BY <1>2 DEF Rank

\* Every number up to the rank is the rank of a start.
LEMMA RankTaken ==
  ASSUME NEW p \in Seq(Byte), NEW k \in 1..Cardinality(Starts(p))
  PROVE  \E s \in Starts(p) : Rank(p, s) = k
<1>1. PICK l \in Nat : l = Len(p)
  BY LenProperties
<1>. DEFINE Reached(i) == \A x \in 1..Rank(p, i) : \E s \in Starts(p) : Rank(p, s) = x
            S == {i \in 0..l : Reached(i)}
<1>2. 0 \in S
  <2>1. 1..Rank(p, 0) = {}
    BY RankZero
  <2>. QED
    BY <2>1
<1>3. ASSUME NEW i \in 0..(l - 1), i \in S PROVE i + 1 \in S
  <2>1. PICK r \in Nat : r = Rank(p, i)
    BY StartsFinite
  <2>2. \A x \in 1..r : \E s \in Starts(p) : Rank(p, s) = x
    BY <1>3, <2>1
  <2>3. CASE i + 1 \in Starts(p)
    <3>1. Rank(p, i + 1) = r + 1
      BY <2>1, <2>3, RankNext
    <3>2. ASSUME NEW x \in 1..(r + 1) PROVE \E s \in Starts(p) : Rank(p, s) = x
      <4>1. CASE x \in 1..r
        BY <2>2, <4>1
      <4>2. CASE x = r + 1
        BY <2>3, <3>1, <4>2
      <4>. QED
        BY <4>1, <4>2
    <3>3. Reached(i + 1)
      BY <3>1, <3>2
    <3>. HIDE DEF Reached
    <3>. QED
      BY <3>3
  <2>4. CASE i + 1 \notin Starts(p)
    <3>1. Rank(p, i + 1) = r
      BY <2>1, <2>4, RankNext
    <3>2. Reached(i + 1)
      BY <2>2, <3>1
    <3>. HIDE DEF Reached
    <3>. QED
      BY <3>2
  <2>. QED
    BY <2>3, <2>4
<1>. HIDE DEF S
<1>4. 0..l \subseteq S
  BY <1>2, <1>3, UpTo
<1>5. l \in S
  BY <1>4
<1>6. Reached(l)
  BY <1>5 DEF S
<1>7. Rank(p, l) = Cardinality(Starts(p))
  BY <1>1, RankAll
<1>. QED
  BY <1>6, <1>7

\* The slashes up to a character that get_path_depth counts.
Slashes(p, i) == {j \in 2..i : p[j] = Slash}

\* One more at each slash but the first character.
LEMMA SlashesNext ==
  ASSUME NEW p, NEW i \in Nat, i >= 1
  PROVE  /\ Cardinality(Slashes(p, i)) \in Nat
         /\ p[i + 1] = Slash => Cardinality(Slashes(p, i + 1)) = Cardinality(Slashes(p, i)) + 1
         /\ p[i + 1] # Slash => Cardinality(Slashes(p, i + 1)) = Cardinality(Slashes(p, i))
<1>1. PICK A : A = Slashes(p, i)
  OBVIOUS
<1>2. PICK B : B = Slashes(p, i + 1)
  OBVIOUS
<1>3. IsFiniteSet(2..i)
  BY FS_Interval
<1>4. A \subseteq 2..i
  BY <1>1 DEF Slashes
<1>5. IsFiniteSet(A) /\ Cardinality(A) \in Nat
  BY <1>3, <1>4, FS_Subset, FS_CardinalityType
<1>6. ASSUME p[i + 1] = Slash PROVE Cardinality(B) = Cardinality(A) + 1
  <2>1. B = A \cup {i + 1} /\ i + 1 \notin A
    BY <1>1, <1>2, <1>6 DEF Slashes
  <2>2. Cardinality(A \cup {i + 1}) = Cardinality(A) + 1
    BY <1>5, <2>1, FS_AddElement
  <2>. QED
    BY <2>1, <2>2
<1>7. ASSUME p[i + 1] # Slash PROVE B = A
  BY <1>1, <1>2, <1>7 DEF Slashes
<1>. QED
  BY <1>1, <1>2, <1>5, <1>6, <1>7

\* A path has no more parts than get_path_depth says.
LEMMA DepthSuffices ==
  ASSUME NEW p \in Seq(Byte)
  PROVE  Cardinality(Starts(p)) <= get_path_depth(p) /\ get_path_depth(p) \in Nat
<1>1. PICK l \in Nat : l = Len(p)
  BY LenProperties
<1>2. \A i \in 2..l : i \in Starts(p) <=> p[i] # Slash /\ p[i - 1] = Slash
  <2>1. DOMAIN p = 1..l
    BY <1>1, LenProperties
  <2>. QED
    BY <2>1 DEF Starts
<1>. DEFINE C(i) == Cardinality(Slashes(p, i))
            Enough(i) == /\ C(i) \in Nat
                         /\ Rank(p, i) <= 1 + C(i)
                         /\ i >= 2 /\ p[i] = Slash => Rank(p, i) <= C(i)
                         /\ i = 1 /\ p[i] = Slash => Rank(p, i) = 0
            S == {n \in 0..(l - 1) : Enough(n + 1)}
<1>3. get_path_depth(p) = 1 + C(l)
  BY <1>1 DEF get_path_depth, Slashes
<1>4. CASE l = 0
  <2>1. Cardinality(Starts(p)) = 0
    BY <1>1, <1>4, RankAll, RankZero
  <2>2. Slashes(p, 0) = {}
    BY DEF Slashes
  <2>3. C(l) = 0
    BY <1>4, <2>2, FS_EmptySet
  <2>. HIDE DEF C
  <2>. QED
    BY <1>3, <2>1, <2>3
<1>5. CASE l # 0
  <2>1. 0 \in S
    <3>1. C(1) = 0
      <4>1. Slashes(p, 1) = {}
        BY DEF Slashes
      <4>. QED
        BY <4>1, FS_EmptySet
    <3>2. /\ 0 + 1 \in Starts(p) => Rank(p, 0 + 1) = Rank(p, 0) + 1
          /\ 0 + 1 \notin Starts(p) => Rank(p, 0 + 1) = Rank(p, 0)
      BY RankNext
    <3>3. Rank(p, 1) <= 1 /\ (1 \notin Starts(p) => Rank(p, 1) = 0)
      BY <3>2, RankZero
    <3>4. p[1] = Slash => 1 \notin Starts(p)
      BY DEF Starts
    <3>5. Enough(1)
      BY <3>1, <3>3, <3>4
    <3>. HIDE DEF Enough
    <3>. QED
      BY <1>5, <3>5
  <2>2. ASSUME NEW n \in 0..((l - 1) - 1), n \in S PROVE n + 1 \in S
    <3>1. PICK i \in Nat : i = n + 1
      OBVIOUS
    <3>2. i >= 1 /\ i + 1 \in 2..l /\ (i + 1) - 1 = i /\ n + 1 \in 0..(l - 1)
      BY <3>1
    <3>3. Enough(i)
      BY <2>2, <3>1
    <3>4. PICK r \in Nat, c \in Nat : r = Rank(p, i) /\ c = C(i)
      BY <3>3, StartsFinite
    <3>5. /\ r <= 1 + c
          /\ i >= 2 /\ p[i] = Slash => r <= c
          /\ i = 1 /\ p[i] = Slash => r = 0
      BY <3>3, <3>4
    <3>6. /\ p[i + 1] = Slash => C(i + 1) = c + 1
          /\ p[i + 1] # Slash => C(i + 1) = c
      BY <3>2, <3>4, SlashesNext
    <3>7. /\ i + 1 \in Starts(p) => Rank(p, i + 1) = r + 1
          /\ i + 1 \notin Starts(p) => Rank(p, i + 1) = r
      BY <3>4, RankNext
    <3>8. i + 1 \in Starts(p) <=> p[i + 1] # Slash /\ p[i] = Slash
      BY <1>2, <3>2
    <3>. HIDE DEF C
    <3>9. Enough(i + 1)
      <4>1. CASE p[i + 1] = Slash
        BY <3>2, <3>5, <3>6, <3>7, <3>8, <4>1
      <4>2. CASE p[i + 1] # Slash /\ p[i] = Slash
        BY <3>2, <3>5, <3>6, <3>7, <3>8, <4>2
      <4>3. CASE p[i + 1] # Slash /\ p[i] # Slash
        BY <3>2, <3>5, <3>6, <3>7, <3>8, <4>3
      <4>. QED
        BY <4>1, <4>2, <4>3
    <3>. HIDE DEF Enough
    <3>. QED
      BY <3>1, <3>2, <3>9
  <2>. HIDE DEF S
  <2>3. l - 1 \in Nat
    BY <1>5
  <2>4. 0..(l - 1) \subseteq S
    BY <2>1, <2>2, <2>3, UpTo
  <2>5. l - 1 \in S
    BY <2>3, <2>4
  <2>6. (l - 1) + 1 = l
    BY <1>5
  <2>. HIDE DEF Enough
  <2>7. Enough(l)
    BY <2>5, <2>6 DEF S
  <2>8. C(l) \in Nat /\ Rank(p, l) <= 1 + C(l)
    BY <2>7 DEF Enough
  <2>. HIDE DEF C
  <2>9. Rank(p, l) = Cardinality(Starts(p))
    BY <1>1, RankAll
  <2>. QED
    BY <1>3, <2>8, <2>9
<1>. QED
  BY <1>4, <1>5

-----------------------------------------------------------------------------
(* Paths: create_path.                                                     *)

\* What get_subpath can return, and the loop's states.
Subpaths(p) == UNION {{SubSeq(p, i, j) : j \in Int} : i \in Int}
Scans(p) == [start : Int, end : Int, names : Seq(Subpaths(p))]

\* The loop.
IsScan(g, p, l) ==
  g = [i \in 0..(l + 1) |-> IF i = 0 THEN AtStart ELSE NextCharacter(g[i - 1], p, i)]

\* It returns one of them.
LEMMA SubpathOf ==
  ASSUME NEW p, NEW a \in Int, NEW b \in Int
  PROVE  SubSeq(p, a, b) \in Subpaths(p)
<1>1. PICK x : x = SubSeq(p, a, b)
  OBVIOUS
<1>2. x \in {SubSeq(p, a, j) : j \in Int}
  BY <1>1
<1>3. \E i \in Int : x \in {SubSeq(p, i, j) : j \in Int}
  BY <1>2
<1>4. x \in UNION {{SubSeq(p, i, j) : j \in Int} : i \in Int}
  BY <1>3
<1>. QED
  BY <1>1, <1>4 DEF Subpaths

\* A turn stays within these states.
LEMMA ScanType ==
  ASSUME NEW p, NEW s \in Scans(p), NEW i \in Int
  PROVE  NextCharacter(s, p, i) \in Scans(p)
<1>1. PICK W : W = Subpaths(p)
  OBVIOUS
<1>2. Scans(p) = [start : Int, end : Int, names : Seq(W)]
  BY <1>1 DEF Scans
<1>3. s.start \in Int /\ s.end \in Int /\ s.names \in Seq(W)
  BY <1>2
<1>4. SubSeq(p, s.start, s.end) \in W
  BY <1>1, <1>3, SubpathOf
<1>5. PICK w \in W : w = SubSeq(p, s.start, s.end)
  BY <1>4
<1>6. Append(s.names, w) \in Seq(W)
  BY <1>3, AppendProperties
<1>7. s = [start |-> s.start, end |-> s.end, names |-> s.names]
  BY <1>2
<1>8. CASE i <= Len(p) /\ p[i] # Slash
  <2>1. PICK x \in Int : x = IF s.start = -1 THEN i ELSE s.start
    BY <1>3
  <2>2. NextCharacter(s, p, i) = [s EXCEPT !.start = x, !.end = i]
    BY <1>8, <2>1 DEF NextCharacter
  <2>. QED
    BY <1>2, <1>3, <1>7, <2>2
<1>9. CASE ~(i <= Len(p) /\ p[i] # Slash) /\ s.start # -1
  <2>1. NextCharacter(s, p, i) = [s EXCEPT !.names = Append(s.names, w), !.start = -1]
    BY <1>5, <1>9 DEF NextCharacter
  <2>2. PICK q \in Seq(W) : q = Append(s.names, w)
    BY <1>6
  <2>3. NextCharacter(s, p, i) = [start |-> -1, end |-> s.end, names |-> q]
    BY <1>7, <2>1, <2>2
  <2>. QED
    BY <1>2, <1>3, <2>3
<1>10. CASE ~(i <= Len(p) /\ p[i] # Slash) /\ s.start = -1
  BY <1>10 DEF NextCharacter
<1>. QED
  BY <1>8, <1>9, <1>10

\* The loop ends.
LEMMA ScanExists ==
  ASSUME NEW p, NEW l \in Nat
  PROVE  \E g : IsScan(g, p, l)
<1>. DEFINE V == Scans(p)
            F == [i \in 1..(l + 1) |-> [v \in V |-> NextCharacter(v, p, i)]]
<1>1. AtStart \in V
  <2>1. PICK W : W = Subpaths(p)
    OBVIOUS
  <2>2. <<>> \in Seq(W)
    OBVIOUS
  <2>. QED
    BY <2>1, <2>2 DEF AtStart, Scans
<1>2. ASSUME NEW i \in 1..(l + 1) PROVE F[i] \in [V -> V]
  <2>1. ASSUME NEW v \in V PROVE NextCharacter(v, p, i) \in V
    BY ScanType
  <2>. HIDE DEF V
  <2>. QED
    BY <2>1
<1>3. F \in [1..(l + 1) -> [V -> V]] /\ l + 1 \in Nat
  BY <1>2
<1>. HIDE DEF V
<1>4. \A i \in 1..(l + 1) : \A v \in V : F[i][v] = NextCharacter(v, p, i)
  OBVIOUS
<1>. HIDE DEF F
<1>5. PICK g : Solves(g, l + 1, V, AtStart, F)
  BY <1>1, <1>3, Recursion
<1>6. g \in [0..(l + 1) -> V] /\ g[0] = AtStart /\ \A i \in 1..(l + 1) : g[i] = F[i][g[i - 1]]
  BY <1>5 DEF Solves
<1>7. ASSUME NEW i \in 0..(l + 1)
      PROVE  g[i] = IF i = 0 THEN AtStart ELSE NextCharacter(g[i - 1], p, i)
  <2>1. CASE i = 0
    BY <1>6, <2>1
  <2>2. CASE i # 0
    <3>1. i \in 1..(l + 1) /\ i - 1 \in 0..(l + 1)
      BY <2>2
    <3>2. g[i - 1] \in V
      BY <1>6, <3>1
    <3>3. F[i][g[i - 1]] = NextCharacter(g[i - 1], p, i)
      BY <1>4, <3>1, <3>2
    <3>. QED
      BY <1>6, <2>2, <3>1, <3>3
  <2>. QED
    BY <2>1, <2>2
<1>8. g = [i \in 0..(l + 1) |-> g[i]]
  BY <1>6
<1>9. IsScan(g, p, l)
  BY <1>7, <1>8 DEF IsScan
<1>. QED
  BY <1>9

\* What the loop knows after i characters: it is in the part that began at
\* start, if any, and has the names of all parts that began before.
Scanned(st, p, i) ==
  /\ st.names \in Seq(Subpaths(p))
  /\ st.start # -1 <=> i >= 1 /\ p[i] # Slash
  /\ st.start # -1 =>
       /\ st.start \in Starts(p) /\ st.start <= i /\ st.end = i
       /\ \A k \in st.start..i : p[k] # Slash
       /\ Rank(p, st.start) = Len(st.names) + 1
  /\ Rank(p, i) = Len(st.names) + (IF st.start # -1 THEN 1 ELSE 0)
  /\ \A s \in Starts(p) : s <= i /\ s # st.start =>
       /\ Rank(p, s) \in 1..Len(st.names)
       /\ st.names[Rank(p, s)] = Part(p, s)

\* A part ends before a slash or the end of the path.
LEMMA PartEnds ==
  ASSUME NEW p \in Seq(Byte), NEW s \in Starts(p), NEW i \in s..Len(p),
         \A k \in s..i : p[k] # Slash,
         i = Len(p) \/ p[i + 1] = Slash
  PROVE  Part(p, s) = SubSeq(p, s, i)
<1>1. PICK l \in Nat : l = Len(p)
  BY LenProperties
<1>2. s \in 1..l
  BY <1>1, StartsFinite
<1>. DEFINE Ends(j) == /\ \A k \in s..j : p[k] # Slash
                       /\ j = l \/ p[j + 1] = Slash
<1>3. Ends(i) /\ i \in s..l
  BY <1>1
<1>4. ASSUME NEW j \in s..l, Ends(j) PROVE j = i
  <2>1. ~(j < i)
    <3>. SUFFICES ASSUME j < i PROVE FALSE
      OBVIOUS
    <3>1. j + 1 \in s..i /\ j # l
      BY <1>2, <1>3
    <3>. QED
      BY <1>4, <3>1
  <2>2. ~(i < j)
    <3>. SUFFICES ASSUME i < j PROVE FALSE
      OBVIOUS
    <3>1. i + 1 \in s..j /\ i # l
      BY <1>2, <1>3
    <3>. QED
      BY <1>3, <1>4, <3>1
  <2>. QED
    BY <1>2, <2>1, <2>2
<1>5. (CHOOSE j \in s..l : Ends(j)) = i
  BY <1>3, <1>4
<1>. QED
  BY <1>1, <1>5 DEF Part

\* The names of all parts that began up to i, and no others.
Named(names, p, i) ==
  /\ names \in Seq(Subpaths(p))
  /\ Len(names) = Rank(p, i)
  /\ \A s \in Starts(p) : s <= i =>
       /\ Rank(p, s) \in 1..Len(names)
       /\ names[Rank(p, s)] = Part(p, s)

\* Where a part ends, its name is added.
LEMMA ScanEnds ==
  ASSUME NEW p \in Seq(Byte), NEW i \in 0..Len(p), i = Len(p) \/ p[i + 1] = Slash,
         NEW st \in Scans(p), Scanned(st, p, i), st.start # -1
  PROVE  Named(Append(st.names, SubSeq(p, st.start, st.end)), p, i)
<1>1. PICK l \in Nat : l = Len(p)
  BY LenProperties
<1>2. PICK b : b = st.start
  OBVIOUS
<1>3. /\ b \in Starts(p) /\ b <= i /\ st.end = i
      /\ \A k \in b..i : p[k] # Slash
      /\ Rank(p, b) = Len(st.names) + 1
      /\ Rank(p, i) = Len(st.names) + 1
  BY <1>2 DEF Scanned
<1>4. b \in Nat /\ b \in Int /\ i \in Int /\ i \in b..Len(p)
  <2>1. b \in 1..l
    BY <1>1, <1>3, StartsFinite
  <2>. QED
    BY <1>1, <1>3, <2>1
<1>5. Part(p, b) = SubSeq(p, b, i)
  BY <1>3, <1>4, PartEnds
<1>6. PICK w \in Subpaths(p) : w = SubSeq(p, b, i)
  BY <1>4, SubpathOf
<1>7. PICK N \in Seq(Subpaths(p)), n \in Nat : N = st.names /\ n = Len(N)
  BY LenProperties DEF Scanned
<1>8. PICK M : M = Append(N, w)
  OBVIOUS
<1>9. /\ M \in Seq(Subpaths(p)) /\ Len(M) = n + 1 /\ M[n + 1] = w
      /\ \A k \in 1..n : M[k] = N[k]
  BY <1>7, <1>8, AppendProperties
<1>10. ASSUME NEW s \in Starts(p), s <= i
       PROVE  Rank(p, s) \in 1..(n + 1) /\ M[Rank(p, s)] = Part(p, s)
  <2>1. CASE s = b
    <3>1. Rank(p, s) = n + 1 /\ Part(p, s) = w
      BY <1>3, <1>5, <1>6, <1>7, <2>1
    <3>2. n + 1 \in 1..(n + 1)
      BY <1>7
    <3>. QED
      BY <1>9, <3>1, <3>2
  <2>2. CASE s # b
    <3>1. Rank(p, s) \in 1..n /\ N[Rank(p, s)] = Part(p, s)
      BY <1>2, <1>7, <1>10, <2>2 DEF Scanned
    <3>2. Rank(p, s) \in 1..(n + 1)
      BY <3>1
    <3>. QED
      BY <1>9, <3>1, <3>2
  <2>. QED
    BY <2>1, <2>2
<1>11. Named(M, p, i)
  BY <1>3, <1>7, <1>9, <1>10 DEF Named
<1>. QED
  BY <1>2, <1>3, <1>6, <1>7, <1>8, <1>11

\* One turn of the loop at a character.
LEMMA ScanStep ==
  ASSUME NEW p \in Seq(Byte), NEW i \in 0..(Len(p) - 1), NEW st \in Scans(p), Scanned(st, p, i)
  PROVE  Scanned(NextCharacter(st, p, i + 1), p, i + 1)
<1>1. PICK l \in Nat : l = Len(p)
  BY LenProperties
<1>2. /\ i \in Nat /\ i + 1 \in 1..l /\ i + 1 <= Len(p) /\ i \in 0..Len(p)
      /\ (i + 1) - 1 = i /\ i + 1 >= 1
  BY <1>1
<1>3. i + 1 \in Starts(p) <=> p[i + 1] # Slash /\ (i + 1 = 1 \/ p[i] = Slash)
  <2>1. DOMAIN p = 1..l
    BY <1>1, LenProperties
  <2>. QED
    BY <1>2, <2>1 DEF Starts
<1>4. /\ i + 1 \in Starts(p) => Rank(p, i + 1) = Rank(p, i) + 1
      /\ i + 1 \notin Starts(p) => Rank(p, i + 1) = Rank(p, i)
  BY <1>2, RankNext
<1>5. \A s \in Starts(p) : s \in Nat
  <2>1. Starts(p) \subseteq 1..l
    BY <1>1, StartsFinite
  <2>. QED
    BY <2>1
<1>6. \A s \in Starts(p) : s <= i + 1 => s <= i \/ s = i + 1
  BY <1>2, <1>5
<1>7. PICK r \in Nat, N \in Seq(Subpaths(p)), n \in Nat :
        r = Rank(p, i) /\ N = st.names /\ n = Len(N)
  BY StartsFinite, LenProperties DEF Scanned
<1>8. st.start # -1 <=> i >= 1 /\ p[i] # Slash
  BY DEF Scanned
<1>9. \A s \in Starts(p) : s <= i /\ s # st.start =>
        Rank(p, s) \in 1..n /\ N[Rank(p, s)] = Part(p, s)
  BY <1>7 DEF Scanned
<1>10. PICK new : new = NextCharacter(st, p, i + 1)
  OBVIOUS
<1>11. CASE p[i + 1] # Slash /\ st.start = -1
  <2>1. new.start = i + 1 /\ new.end = i + 1 /\ new.names = N
    BY <1>2, <1>7, <1>10, <1>11 DEF NextCharacter, Scans
  <2>2. i + 1 \in Starts(p)
    BY <1>2, <1>3, <1>8, <1>11
  <2>3. r = n /\ Rank(p, i + 1) = n + 1
    BY <1>4, <1>7, <1>11, <2>2 DEF Scanned
  <2>4. \A s \in Starts(p) : s <= i + 1 /\ s # i + 1 =>
          Rank(p, s) \in 1..n /\ N[Rank(p, s)] = Part(p, s)
    <3>1. -1 \notin Starts(p)
      BY <1>5
    <3>. QED
      BY <1>6, <1>9, <1>11, <3>1
  <2>5. i + 1 # -1 /\ (i + 1)..(i + 1) = {i + 1} /\ i + 1 <= i + 1
    BY <1>2
  <2>6. Scanned(new, p, i + 1)
    BY <1>2, <1>7, <1>11, <2>1, <2>2, <2>3, <2>4, <2>5 DEF Scanned
  <2>. QED
    BY <1>10, <2>6
<1>12. CASE p[i + 1] # Slash /\ st.start # -1
  <2>1. new.start = st.start /\ new.end = i + 1 /\ new.names = N
    BY <1>2, <1>7, <1>10, <1>12 DEF NextCharacter, Scans
  <2>2. i + 1 \notin Starts(p)
    BY <1>2, <1>3, <1>8, <1>12
  <2>3. /\ st.start \in Starts(p) /\ st.start <= i
        /\ \A k \in st.start..i : p[k] # Slash
        /\ Rank(p, st.start) = n + 1 /\ r = n + 1
    BY <1>7, <1>12 DEF Scanned
  <2>4. st.start \in Nat /\ st.start <= i + 1
    BY <1>2, <1>5, <2>3
  <2>5. \A k \in st.start..(i + 1) : p[k] # Slash
    <3>1. \A k \in st.start..(i + 1) : k \in st.start..i \/ k = i + 1
      BY <1>2, <2>4
    <3>. QED
      BY <1>12, <2>3, <3>1
  <2>6. Rank(p, i + 1) = n + 1
    BY <1>4, <1>7, <2>2, <2>3
  <2>7. \A s \in Starts(p) : s <= i + 1 /\ s # st.start =>
          Rank(p, s) \in 1..n /\ N[Rank(p, s)] = Part(p, s)
    BY <1>6, <1>9, <2>2
  <2>8. Scanned(new, p, i + 1)
    BY <1>2, <1>7, <1>12, <2>1, <2>3, <2>4, <2>5, <2>6, <2>7 DEF Scanned
  <2>. QED
    BY <1>10, <2>8
<1>13. CASE p[i + 1] = Slash /\ st.start # -1
  <2>1. PICK M : M = Append(st.names, SubSeq(p, st.start, st.end))
    OBVIOUS
  <2>2. new.start = -1 /\ new.names = M
    BY <1>10, <1>13, <2>1 DEF NextCharacter, Scans
  <2>3. Named(M, p, i)
    BY <1>2, <1>13, <2>1, ScanEnds
  <2>4. i + 1 \notin Starts(p)
    BY <1>3, <1>13
  <2>5. /\ M \in Seq(Subpaths(p)) /\ Len(M) = r
        /\ \A s \in Starts(p) : s <= i => Rank(p, s) \in 1..Len(M) /\ M[Rank(p, s)] = Part(p, s)
    BY <1>7, <2>3 DEF Named
  <2>6. Rank(p, i + 1) = Len(M) + 0
    BY <1>4, <1>7, <2>4, <2>5
  <2>7. \A s \in Starts(p) : s <= i + 1 =>
          Rank(p, s) \in 1..Len(M) /\ M[Rank(p, s)] = Part(p, s)
    BY <1>6, <2>4, <2>5
  <2>8. Scanned(new, p, i + 1)
    BY <1>2, <1>13, <2>2, <2>5, <2>6, <2>7 DEF Scanned
  <2>. QED
    BY <1>10, <2>8
<1>14. CASE p[i + 1] = Slash /\ st.start = -1
  <2>1. new = st
    BY <1>10, <1>14 DEF NextCharacter
  <2>2. i + 1 \notin Starts(p)
    BY <1>3, <1>14
  <2>3. Rank(p, i + 1) = n + 0
    BY <1>4, <1>7, <1>14, <2>2 DEF Scanned
  <2>4. \A s \in Starts(p) : s <= i + 1 /\ s # -1 =>
          Rank(p, s) \in 1..n /\ N[Rank(p, s)] = Part(p, s)
    BY <1>6, <1>9, <1>14, <2>2
  <2>5. Scanned(new, p, i + 1)
    BY <1>2, <1>7, <1>14, <2>1, <2>3, <2>4 DEF Scanned
  <2>. QED
    BY <1>10, <2>5
<1>. QED
  BY <1>11, <1>12, <1>13, <1>14

\* The turn at the terminator: all parts are named.
LEMMA ScanLast ==
  ASSUME NEW p \in Seq(Byte), NEW st \in Scans(p), Scanned(st, p, Len(p))
  PROVE  Named(NextCharacter(st, p, Len(p) + 1).names, p, Len(p))
<1>1. PICK l \in Nat : l = Len(p)
  BY LenProperties
<1>2. ~(l + 1 <= l) /\ l \in 0..l
  BY <1>1
<1>3. CASE st.start # -1
  <2>1. PICK M : M = Append(st.names, SubSeq(p, st.start, st.end))
    OBVIOUS
  <2>2. NextCharacter(st, p, l + 1).names = M
    BY <1>1, <1>2, <1>3, <2>1 DEF NextCharacter, Scans
  <2>3. Named(M, p, l)
    BY <1>1, <1>2, <1>3, <2>1, ScanEnds
  <2>. QED
    BY <1>1, <2>2, <2>3
<1>4. CASE st.start = -1
  <2>1. NextCharacter(st, p, l + 1) = st
    BY <1>1, <1>2, <1>4 DEF NextCharacter
  <2>2. PICK N \in Seq(Subpaths(p)), n \in Nat : N = st.names /\ n = Len(N)
    BY LenProperties DEF Scanned
  <2>3. Rank(p, l) = n
    BY <1>1, <1>4, <2>2 DEF Scanned
  <2>4. \A s \in Starts(p) : s # -1
    <3>1. Starts(p) \subseteq 1..l
      BY <1>1, StartsFinite
    <3>. QED
      BY <3>1
  <2>5. \A s \in Starts(p) : s <= l =>
          Rank(p, s) \in 1..n /\ N[Rank(p, s)] = Part(p, s)
    BY <1>1, <1>4, <2>2, <2>4 DEF Scanned
  <2>6. Named(N, p, l)
    BY <2>2, <2>3, <2>5 DEF Named
  <2>. QED
    BY <1>1, <2>1, <2>2, <2>6
<1>. QED
  BY <1>3, <1>4

\* create_path names all parts of the path.
LEMMA CreateNames ==
  ASSUME NEW p \in Seq(Byte)
  PROVE  Named(create_path(p), p, Len(p))
<1>1. PICK l \in Nat : l = Len(p)
  BY LenProperties
<1>2. PICK g : g = CHOOSE h : IsScan(h, p, l)
  OBVIOUS
<1>3. IsScan(g, p, l)
  BY <1>1, <1>2, ScanExists
<1>4. create_path(p) = g[l + 1].names
  BY <1>1, <1>2 DEF create_path, Scan, IsScan
<1>5. g[0] = AtStart /\ \A i \in 1..(l + 1) : g[i] = NextCharacter(g[i - 1], p, i)
  <2>1. \A i \in 0..(l + 1) : g[i] = IF i = 0 THEN AtStart ELSE NextCharacter(g[i - 1], p, i)
    BY <1>3 DEF IsScan
  <2>2. 0 \in 0..(l + 1) /\ \A i \in 1..(l + 1) : i \in 0..(l + 1) /\ i # 0
    BY <1>1
  <2>. QED
    BY <2>1, <2>2
<1>. DEFINE S == {i \in 0..l : g[i] \in Scans(p) /\ Scanned(g[i], p, i)}
<1>6. 0 \in S
  <2>1. PICK W : W = Subpaths(p)
    OBVIOUS
  <2>2. <<>> \in Seq(W) /\ Len(<<>>) = 0
    OBVIOUS
  <2>3. AtStart \in Scans(p)
    BY <2>1, <2>2 DEF AtStart, Scans
  <2>4. AtStart.start = -1 /\ AtStart.names = <<>>
    BY DEF AtStart
  <2>5. \A s \in Starts(p) : ~(s <= 0)
    <3>1. Starts(p) \subseteq 1..l
      BY <1>1, StartsFinite
    <3>. QED
      BY <3>1
  <2>6. Rank(p, 0) = 0
    BY RankZero
  <2>7. PICK e : e = <<>>
    OBVIOUS
  <2>8. e \in Seq(Subpaths(p)) /\ Len(e) = 0 /\ AtStart.names = e
    BY <2>1, <2>2, <2>4, <2>7
  <2>9. Scanned(AtStart, p, 0)
    BY <2>4, <2>5, <2>6, <2>8 DEF Scanned
  <2>. QED
    BY <1>1, <1>5, <2>3, <2>9
<1>7. ASSUME NEW i \in 0..(l - 1), i \in S PROVE i + 1 \in S
  <2>1. i + 1 \in 1..(l + 1) /\ i + 1 \in 0..l /\ (i + 1) - 1 = i /\ i + 1 \in Int
    BY <1>1
  <2>2. g[i + 1] = NextCharacter(g[i], p, i + 1)
    BY <1>5, <2>1
  <2>3. PICK st \in Scans(p) : st = g[i] /\ Scanned(st, p, i)
    BY <1>7
  <2>4. NextCharacter(st, p, i + 1) \in Scans(p)
    BY <2>1, ScanType
  <2>5. Scanned(NextCharacter(st, p, i + 1), p, i + 1)
    BY <1>1, <2>3, ScanStep
  <2>. QED
    BY <2>1, <2>2, <2>3, <2>4, <2>5
<1>8. 0..l \subseteq S
  <2>. HIDE DEF S
  <2>. QED
    BY <1>1, <1>6, <1>7, UpTo
<1>9. l \in S
  BY <1>1, <1>8
<1>10. PICK st \in Scans(p) : st = g[l] /\ Scanned(st, p, l)
  BY <1>9
<1>11. l + 1 \in 1..(l + 1) /\ (l + 1) - 1 = l
  BY <1>1
<1>12. g[l + 1] = NextCharacter(st, p, l + 1)
  BY <1>5, <1>10, <1>11
<1>13. Named(NextCharacter(st, p, l + 1).names, p, l)
  BY <1>1, <1>10, ScanLast
<1>. QED
  BY <1>1, <1>4, <1>12, <1>13

\* create_path finds the parts of the path, and no more than it has nodes for.
LEMMA CreatePath ==
  ASSUME NEW p \in Seq(Byte)
  PROVE  /\ create_path(p) = Parts(p)
         /\ Len(create_path(p)) <= get_path_depth(p)
<1>1. PICK l \in Nat : l = Len(p)
  BY LenProperties
<1>2. PICK N : N = create_path(p)
  OBVIOUS
<1>3. Named(N, p, l)
  BY <1>1, <1>2, CreateNames
<1>4. PICK c \in Nat : c = Cardinality(Starts(p)) /\ c = Rank(p, l)
  BY <1>1, RankAll, StartsFinite
<1>5. N \in Seq(Subpaths(p)) /\ Len(N) = c
  BY <1>3, <1>4 DEF Named
<1>6. DOMAIN N = 1..c /\ N = [k \in 1..c |-> N[k]]
  BY <1>5, LenProperties
<1>7. ASSUME NEW k \in 1..c
      PROVE  N[k] = Part(p, CHOOSE i \in Starts(p) : Rank(p, i) = k)
  <2>1. \E i \in Starts(p) : Rank(p, i) = k
    BY <1>4, RankTaken
  <2>2. PICK i \in Starts(p) : Rank(p, i) = k /\ i = CHOOSE j \in Starts(p) : Rank(p, j) = k
    BY <2>1
  <2>3. i <= l
    <3>1. Starts(p) \subseteq 1..l
      BY <1>1, StartsFinite
    <3>. QED
      BY <2>2, <3>1
  <2>4. N[k] = Part(p, i)
    BY <1>3, <2>2, <2>3 DEF Named
  <2>. QED
    BY <2>2, <2>4
<1>8. N = [k \in 1..c |-> Part(p, CHOOSE i \in Starts(p) : Rank(p, i) = k)]
  BY <1>6, <1>7
<1>9. N = Parts(p)
  BY <1>4, <1>8 DEF Parts
<1>10. c <= get_path_depth(p)
  BY <1>4, DepthSuffices
<1>. QED
  BY <1>2, <1>5, <1>9, <1>10

-----------------------------------------------------------------------------
(* The steps of the handler.                                               *)

\* The path the handler means.
FullPath == Prefix \o Command \o Suffix

\* strcat writes the two strings and a NUL.
LEMMA StrcatIs ==
  ASSUME NEW s1 \in Seq(Byte), NEW s2 \in Seq(Byte), NEW m, NEW dest
  PROVE  /\ s1 \o s2 \in Seq(Byte) /\ Len(s1 \o s2) = Len(s1) + Len(s2)
         /\ strcat(m, s1, s2, dest) = Put(m, dest, Append(s1 \o s2, NUL))
<1>1. s1 \o s2 \in Seq(Byte) /\ Len(s1 \o s2) = Len(s1) + Len(s2)
  BY ConcatProperties
<1>2. PICK s \in Seq(Byte) : s = s1 \o s2
  BY <1>1
<1>3. s \in Seq(Int) /\ NUL \in Int
  BY StringBytes DEF NUL
<1>4. Append(s, NUL) = s \o <<NUL>>
  BY <1>3, AppendIsConcat
<1>. QED
  BY <1>1, <1>2, <1>4 DEF strcat

\* The path is a string that begins with the prefix.
LEMMA FullPathIs ==
  ASSUME line \in Seq(Byte)
  PROVE  /\ Command \in Seq(Byte) /\ Len(Command) \in Nat /\ Len(Command) <= MaxPath
         /\ Prefix \o Command \in Seq(Byte) /\ Len(Prefix \o Command) = Len(Prefix) + Len(Command)
         /\ FullPath \in Seq(Byte)
         /\ Len(FullPath) = Len(Prefix) + Len(Command) + Len(Suffix)
         /\ FullPath[1] = 48 /\ FullPath[2] = Colon
<1>1. Command \in Seq(Byte) /\ Len(Command) \in Nat /\ Len(Command) <= MaxPath
  <2>1. PICK u \in 0..Len(Taken) : Command \in Seq(Byte) /\ Len(Command) = u
    BY CommandIs
  <2>2. Len(Taken) \in Nat /\ Len(Taken) <= MaxPath
    BY TakenIs
  <2>. QED
    BY Sizes, <2>1, <2>2
<1>2. PICK a \in Seq(Byte), b \in Seq(Byte), c \in Seq(Byte) :
        a = Prefix /\ b = Command /\ c = Suffix
  BY <1>1, Sizes
<1>3. PICK x \in Nat, y \in Nat, z \in Nat : x = Len(a) /\ y = Len(b) /\ z = Len(c)
  BY LenProperties
<1>4. PICK d : d = a \o b
  OBVIOUS
<1>5. Composed(d, Byte, a, x, b, y)
  BY <1>3, <1>4, ConcatIs
<1>6. d \in Seq(Byte) /\ Len(d) = x + y /\ (\A i \in 1..x : d[i] = a[i]) /\ x + y \in Nat
  BY <1>3, <1>5 DEF Composed
<1>7. PICK e : e = d \o c
  OBVIOUS
<1>8. Composed(e, Byte, d, x + y, c, z)
  BY <1>3, <1>6, <1>7, ConcatIs
<1>9. e \in Seq(Byte) /\ Len(e) = (x + y) + z /\ (\A i \in 1..(x + y) : e[i] = d[i])
  BY <1>8 DEF Composed
<1>10. x >= 3 /\ a[1] = 48 /\ a[2] = Colon
  BY <1>2, <1>3, StartAssumption
<1>11. 1 \in 1..x /\ 2 \in 1..x /\ 1 \in 1..(x + y) /\ 2 \in 1..(x + y)
  BY <1>3, <1>10
<1>12. e[1] = 48 /\ e[2] = Colon
  BY <1>6, <1>9, <1>10, <1>11
<1>13. e = FullPath /\ d = Prefix \o Command
  BY <1>2, <1>4, <1>7 DEF FullPath
<1>. QED
  BY <1>1, <1>2, <1>3, <1>6, <1>9, <1>12, <1>13

\* split finds the command at the beginning of copy and leaves buffer alone.
LEMMA SplitStep ==
  ASSUME line \in Seq(Byte), Memory(frame, res), Holds(frame, res, buffer, Taken),
         NEW new, new = str_token(strcpy(frame, StringAt(frame, buffer), copy), copy, Space)
  PROVE  /\ Memory(new.mem, res)
         /\ Holds(new.mem, res, buffer, Taken)
         /\ Holds(new.mem, res, copy, Command)
         /\ new.tokens[1] = copy /\ Split(new.tokens, Taken, 0, Space, Len(Taken))
<1>1. PICK s \in Seq(Byte), l \in Nat : s = Taken /\ l = Len(s) /\ l <= MaxPath
  BY TakenIs
<1>2. PICK u \in 0..l : /\ Command = SubSeq(s, 0 + 1, u)
                        /\ \A i \in (0 + 1)..u : s[i] # Space
                        /\ u = l \/ s[u + 1] = Space
  BY <1>1, CommandIs
<1>3. StringAt(frame, buffer) = s
  BY <1>1, ReadBack, Sizes
<1>4. PICK t \in Seq(Int) : t = Append(s, NUL) /\ Len(t) = l + 1
  BY <1>1, WithNul
<1>5. PICK m : m = Put(frame, 0, t)
  OBVIOUS
<1>6. Memory(m, res)
  BY <1>5, PutIs, Sizes
<1>7. Holds(m, res, 0, s)
  <2>1. 0 + Len(s) <= res
    BY <1>1, Sizes
  <2>. QED
    BY <1>4, <1>5, <2>1, WritesString, Sizes
<1>8. Holds(m, res, buffer, s)
  <2>1. 0 + Len(t) <= buffer
    BY <1>1, <1>4, Sizes
  <2>. QED
    BY <1>1, <1>5, <2>1, KeepsString, Sizes
<1>9. new = str_token(m, 0, Space)
  BY <1>3, <1>4, <1>5, Sizes DEF strcpy
<1>10. PICK c : c = new.mem
  OBVIOUS
<1>11. CutAt(c, m, res, 0, s, Space)
  BY <1>6, <1>7, <1>9, <1>10, Cuts, Sizes
<1>12. Memory(c, res)
  BY <1>11 DEF CutAt
<1>13. Holds(c, res, 0, Command)
  <2>1. 0 + Len(s) <= res /\ 0 \in 0..Len(s) /\ u \in 0..Len(s) /\ 0 + 0 = 0
    BY <1>1, Sizes
  <2>2. Holds(c, res, 0 + 0, SubSeq(s, 0 + 1, u))
    BY <1>1, <1>2, <1>11, <2>1, CutHolds, Sizes
  <2>. QED
    BY <1>2, <2>1, <2>2
<1>14. Holds(c, res, buffer, s)
  <2>1. \A i \in 0..res : 0 + l < i => c[i] = m[i]
    BY <1>1, <1>11 DEF CutAt
  <2>2. buffer + l <= res /\ m[buffer + l] = NUL /\ \A k \in 1..l : m[buffer + k - 1] = s[k]
    BY <1>1, <1>8 DEF Holds
  <2>3. buffer + l \in 0..res /\ 0 + l < buffer + l
    BY <1>1, <2>2, Sizes
  <2>4. ASSUME NEW k \in 1..l PROVE c[buffer + k - 1] = s[k]
    <3>1. buffer + k - 1 \in 0..res /\ 0 + l < buffer + k - 1
      BY <1>1, <2>2, Sizes
    <3>. QED
      BY <2>1, <2>2, <3>1
  <2>. QED
    BY <1>1, <2>1, <2>2, <2>3, <2>4 DEF Holds
<1>15. new.tokens[1] = 0 /\ Split(new.tokens, s, 0, Space, Len(s))
  <2>1. Split(new.tokens, s, 0, Space, Len(s))
    BY <1>6, <1>7, <1>9, TokensAre, Sizes
  <2>. QED
    BY <2>1 DEF Split
<1>. QED
  BY <1>1, <1>10, <1>12, <1>13, <1>14, <1>15, Sizes

\* Only a string of delimiters has as many words as characters and one more.
LEMMA ManyTokens ==
  ASSUME NEW T, NEW s, NEW a \in Nat, NEW d, NEW l \in Nat, Split(T, s, a, d, l), Len(T) > l
  PROVE  Len(T) = l + 1 /\ \A k \in 1..l : s[k] = d
<1>1. PICK n \in Nat : n = Len(T)
  BY LenProperties DEF Split
<1>2. /\ n \in 1..(l + 1) /\ T[1] = a /\ \A i \in 1..n : T[i] \in a..(a + l)
      /\ \A i \in 1..(n - 1) : T[i] < T[i + 1] /\ s[T[i + 1] - a] = d
  BY <1>1 DEF Split
<1>3. n = l + 1
  BY <1>1, <1>2
<1>. DEFINE Low == {k \in 0..l : T[k + 1] >= a + k}
            High == {k \in 0..l : T[l + 1 - k] <= a + l - k}
<1>4. 0..l \subseteq Low
  <2>1. 0 \in Low
    BY <1>2
  <2>2. ASSUME NEW k \in 0..(l - 1), k \in Low PROVE k + 1 \in Low
    <3>1. k + 1 \in 1..(n - 1) /\ k + 1 \in 1..n /\ (k + 1) + 1 \in 1..n /\ k + 1 \in 0..l
      BY <1>3
    <3>2. T[k + 1] \in Int /\ T[(k + 1) + 1] \in Int /\ T[k + 1] < T[(k + 1) + 1]
      BY <1>2, <3>1
    <3>. QED
      BY <2>2, <3>1, <3>2
  <2>. HIDE DEF Low
  <2>. QED
    BY <2>1, <2>2, UpTo
<1>5. 0..l \subseteq High
  <2>1. 0 \in High
    BY <1>2, <1>3
  <2>2. ASSUME NEW k \in 0..(l - 1), k \in High PROVE k + 1 \in High
    <3>1. PICK j \in Int : j = l + 1 - (k + 1)
      OBVIOUS
    <3>2. j \in 1..(n - 1) /\ j \in 1..n /\ j + 1 \in 1..n /\ k + 1 \in 0..l /\ j + 1 = l + 1 - k
      BY <1>3, <3>1
    <3>3. T[j] \in Int /\ T[j + 1] \in Int /\ T[j] < T[j + 1]
      BY <1>2, <3>2
    <3>. QED
      BY <2>2, <3>1, <3>2, <3>3
  <2>. HIDE DEF High
  <2>. QED
    BY <2>1, <2>2, UpTo
<1>6. ASSUME NEW k \in 1..l PROVE s[k] = d
  <2>1. k \in 0..l /\ l - k \in 0..l /\ l + 1 - (l - k) = k + 1 /\ a + l - (l - k) = a + k
    OBVIOUS
  <2>2. T[k + 1] >= a + k
    BY <1>4, <2>1
  <2>3. T[l + 1 - (l - k)] <= a + l - (l - k)
    BY <1>5, <2>1
  <2>4. k \in 1..(n - 1) /\ k + 1 \in 1..n
    BY <1>3
  <2>5. T[k + 1] \in Int
    BY <1>2, <2>4
  <2>6. T[k + 1] - a = k
    BY <2>1, <2>2, <2>3, <2>5
  <2>. QED
    BY <1>2, <2>4, <2>6
<1>. QED
  BY <1>1, <1>3, <1>6

\* A line with more words than arguments[] holds is nothing but spaces.
LEMMA TooManyWords ==
  ASSUME line \in Seq(Byte), NEW T, Split(T, Taken, 0, Space, Len(Taken)), Len(T) > MaxArguments
  PROVE  OnlySpaces
<1>1. PICK s \in Seq(Byte), l \in Nat : s = Taken /\ l = Len(s) /\ l <= MaxPath
  BY TakenIs
<1>2. PICK n \in Nat : n = Len(T)
  BY LenProperties DEF Split
<1>3. MaxArguments \in Nat /\ MaxPath \in Nat /\ MaxArguments >= MaxPath
  BY StartAssumption
<1>4. Split(T, s, 0, Space, l) /\ Len(T) > l
  BY <1>1, <1>2, <1>3
<1>5. n = l + 1 /\ \A k \in 1..l : s[k] = Space
  BY <1>2, <1>4, ManyTokens
<1>6. l = MaxPath
  BY <1>1, <1>2, <1>3, <1>5
<1>7. s \in [1..l -> Byte]
  BY <1>1, LenProperties
<1>8. s = [i \in 1..MaxPath |-> Space]
  BY <1>5, <1>6, <1>7
<1>. QED
  BY <1>1, <1>8 DEF OnlySpaces

\* The first strcat goes well exactly when the command leaves room for its
\* NUL in copy.
LEMMA NameStops ==
  ASSUME line \in Seq(Byte), Memory(frame, res), Holds(frame, res, copy, Command)
  PROVE  Terminated(Put(frame, path, Prefix), copy, path) <=> Len(Command) < MaxPath
<1>1. PICK s \in Seq(Byte), l \in Nat : s = Command /\ l = Len(s) /\ l <= MaxPath
  BY FullPathIs
<1>2. PICK t \in Seq(Int) : t = Prefix
  BY Sizes, StringBytes
<1>3. PICK m : m = Put(frame, path, t)
  OBVIOUS
<1>4. Memory(m, res) /\ \A i \in 0..res : i < path => m[i] = frame[i]
  <2>1. path \in Int
    BY Sizes
  <2>. QED
    BY <1>3, <2>1, PutIs, Sizes
<1>5. DOMAIN m = 0..res
  BY <1>4 DEF Memory
<1>6. frame[0 + l] = NUL /\ \A k \in 1..l : frame[0 + k - 1] = s[k]
  BY <1>1, Sizes DEF Holds
<1>7. CASE l < MaxPath
  <2>1. l \in 0..res /\ l >= 0 /\ l < path /\ 0 + l = l
    BY <1>1, <1>7, Sizes
  <2>2. m[l] = NUL
    BY <1>4, <1>6, <2>1
  <2>3. Terminated(m, 0, path)
    BY <1>5, <2>1, <2>2 DEF Terminated
  <2>. QED
    BY <1>1, <1>2, <1>3, <1>7, <2>3, Sizes
<1>8. CASE ~(l < MaxPath)
  <2>1. ASSUME NEW i \in 0..res, i >= 0, i < path PROVE m[i] # NUL
    <3>1. i + 1 \in 1..l /\ 0 + (i + 1) - 1 = i
      BY <1>1, <1>8, <2>1, Sizes
    <3>2. m[i] = s[i + 1]
      BY <1>4, <1>6, <2>1, <3>1
    <3>3. s[i + 1] # NUL
      BY <1>1, <3>1, StringBytes
    <3>. QED
      BY <3>2, <3>3
  <2>2. ~Terminated(m, 0, path)
    BY <1>5, <2>1 DEF Terminated
  <2>. QED
    BY <1>1, <1>2, <1>3, <1>8, <2>2, Sizes
<1>. QED
  BY <1>7, <1>8

\* name makes the path, and one that fits leaves buffer alone.
LEMMA NameStep ==
  ASSUME line \in Seq(Byte), Memory(frame, res), Holds(frame, res, copy, Command),
         Len(Command) < MaxPath,
         NEW joined, joined = strcat(frame, Prefix, StringAt(frame, copy), path),
         NEW new, new = strcat(joined, StringAt(joined, path), Suffix, path)
  PROVE  /\ Memory(new, res) /\ Holds(new, res, path, FullPath)
         /\ PathFits /\ Holds(frame, res, buffer, Taken) => Holds(new, res, buffer, Taken)
<1>1. PICK s \in Seq(Byte), l \in Nat : s = Command /\ l = Len(s) /\ l < MaxPath
  BY FullPathIs
<1>2. PICK d \in Seq(Byte), x \in Nat :
        d = Prefix \o Command /\ x = Len(d) /\ x = Len(Prefix) + l
  BY <1>1, FullPathIs, LenProperties
<1>3. PICK e \in Seq(Byte), y \in Nat :
        e = FullPath /\ y = Len(e) /\ y = Len(Prefix) + l + Len(Suffix)
  BY <1>1, FullPathIs, LenProperties
<1>4. e = d \o Suffix
  BY <1>2, <1>3 DEF FullPath
<1>5. PICK td \in Seq(Int) : td = Append(d, NUL) /\ Len(td) = x + 1
  BY <1>2, WithNul
<1>6. PICK te \in Seq(Int) : te = Append(e, NUL) /\ Len(te) = y + 1
  BY <1>3, WithNul
<1>7. path + x <= res /\ path + y <= res /\ path \in Int /\ path \in Nat /\ res \in Nat
  BY <1>1, <1>2, <1>3, Sizes
<1>8. StringAt(frame, copy) = s
  <2>1. copy \in Nat
    BY Sizes
  <2>. QED
    BY <1>1, <2>1, ReadBack, Sizes
<1>9. joined = Put(frame, path, td)
  <2>1. joined = strcat(frame, Prefix, s, path)
    BY <1>8
  <2>2. strcat(frame, Prefix, s, path) = Put(frame, path, Append(Prefix \o s, NUL))
    BY StrcatIs, Sizes
  <2>. QED
    BY <1>1, <1>2, <1>5, <2>1, <2>2
<1>10. Memory(joined, res)
  BY <1>7, <1>9, PutIs
<1>11. Holds(joined, res, path, d)
  BY <1>2, <1>5, <1>7, <1>9, WritesString, Sizes
<1>12. StringAt(joined, path) = d
  BY <1>10, <1>11, ReadBack, Sizes
<1>13. new = Put(joined, path, te)
  <2>1. new = strcat(joined, d, Suffix, path)
    BY <1>12
  <2>2. strcat(joined, d, Suffix, path) = Put(joined, path, Append(d \o Suffix, NUL))
    BY StrcatIs, Sizes
  <2>. QED
    BY <1>4, <1>6, <2>1, <2>2
<1>14. Memory(new, res)
  BY <1>7, <1>10, <1>13, PutIs, Sizes
<1>15. Holds(new, res, path, e)
  BY <1>3, <1>6, <1>7, <1>10, <1>13, WritesString, Sizes
<1>16. ASSUME PathFits, Holds(frame, res, buffer, Taken) PROVE Holds(new, res, buffer, Taken)
  <2>1. y < MaxPath
    BY <1>1, <1>3, <1>16 DEF PathFits
  <2>2. path + Len(td) <= buffer /\ path + Len(te) <= buffer
    <3>1. x <= y /\ x \in Int /\ y \in Int
      BY <1>1, <1>2, <1>3, Sizes
    <3>2. x + 1 <= MaxPath /\ y + 1 <= MaxPath
      BY <2>1, <3>1, Sizes
    <3>. QED
      BY <1>5, <1>6, <3>1, <3>2, Sizes
  <2>3. Taken \in Seq(Byte)
    BY TakenIs
  <2>4. res \in Nat /\ buffer \in Nat /\ path \in Int
    BY Sizes
  <2>5. Holds(joined, res, buffer, Taken)
    BY <1>9, <1>16, <2>2, <2>3, <2>4, KeepsString
  <2>. QED
    BY <1>10, <1>13, <2>2, <2>3, <2>4, <2>5, KeepsString
<1>. QED
  BY <1>3, <1>14, <1>15, <1>16

\* parse_path takes a path that fits, and finds its parts.
LEMMA ParseStep ==
  ASSUME line \in Seq(Byte), Memory(frame, res), Holds(frame, res, path, FullPath)
  PROVE  /\ Filename = FullPath
         /\ PathFits => path_is_valid_format(Filename)
         /\ atoi(Filename[1]) = 0
         /\ LET below == SubSeq(Filename, 3, Len(Filename)) IN
              /\ create_path(below) = Parts(SubSeq(FullPath, 3, Len(Prefix) + Len(Command) + Len(Suffix)))
              /\ Len(create_path(below)) <= get_path_depth(below)
<1>1. PICK e \in Seq(Byte), y \in Nat :
        /\ e = FullPath /\ y = Len(e) /\ y = Len(Prefix) + Len(Command) + Len(Suffix)
        /\ y >= 3 /\ e[1] = 48 /\ e[2] = Colon
  <2>1. Len(FullPath) \in Nat /\ Len(Command) \in Nat
    BY FullPathIs, LenProperties
  <2>2. Len(Prefix) + Len(Command) + Len(Suffix) >= 3
    BY <2>1, Sizes
  <2>3. PICK e \in Seq(Byte) : e = FullPath
    BY FullPathIs
  <2>4. PICK y \in Nat : y = Len(e)
    BY LenProperties
  <2>5. y = Len(Prefix) + Len(Command) + Len(Suffix) /\ e[1] = 48 /\ e[2] = Colon
    BY <2>3, <2>4, FullPathIs
  <2>. QED
    BY <2>2, <2>3, <2>4, <2>5
<1>2. Filename = e
  BY <1>1, ReadBack, Sizes DEF Filename
<1>3. ASSUME PathFits PROVE path_is_valid_format(e)
  <2>1. y <= MaxPath
    BY <1>1, <1>3, Sizes DEF PathFits
  <2>2. is_digit(e[1])
    BY <1>1 DEF is_digit
  <2>3. PICK q : q = SubSeq(e, 3 - 1, 3)
    OBVIOUS
  <2>4. q[1] = e[2]
    <3>1. 1 \in 0..Len(e) /\ 3 \in 1..Len(e)
      BY <1>1
    <3>2. \A i \in 1..(3 - 1) : SubSeq(e, 1 + 1, 3)[i] = e[1 + i]
      BY <3>1, PartString
    <3>3. 1 \in 1..(3 - 1) /\ 1 + 1 = 2 /\ 3 - 1 = 2
      OBVIOUS
    <3>. QED
      BY <2>3, <3>2, <3>3
  <2>5. MemoryEqual(SubSeq(e, 2, 3), <<Colon, Slash>>)
    <3>1. 3 - 1 = 2
      OBVIOUS
    <3>2. q = SubSeq(e, 2, 3)
      BY <2>3, <3>1
    <3>3. <<Colon, Slash>>[1] = Colon
      OBVIOUS
    <3>. QED
      BY <1>1, <2>4, <3>2, <3>3 DEF MemoryEqual
  <2>. QED
    BY <1>1, <2>1, <2>2, <2>5 DEF path_is_valid_format
<1>4. atoi(e[1]) = 0
  BY <1>1 DEF atoi
<1>5. PICK b : b = SubSeq(e, 2 + 1, y)
  OBVIOUS
<1>6. b \in Seq(Byte)
  <2>1. 2 \in 0..Len(e) /\ y \in 2..Len(e)
    BY <1>1
  <2>. QED
    BY <1>5, <2>1, PartString
<1>7. create_path(b) = Parts(b) /\ Len(create_path(b)) <= get_path_depth(b)
  BY <1>6, CreatePath
<1>8. b = SubSeq(e, 3, y)
  <2>1. 2 + 1 = 3
    OBVIOUS
  <2>. QED
    BY <1>5, <2>1
<1>. QED
  BY <1>1, <1>2, <1>3, <1>4, <1>7, <1>8

-----------------------------------------------------------------------------
(* The arguments.                                                          *)

\* The strings P are the words of s: word i ends before position e[i], where
\* s has a space or ends.
IsWords(P, n, s, l, e) ==
  /\ P \in Seq(Seq(Byte)) /\ n \in Nat /\ Len(P) = n /\ n >= 1 /\ n <= l + 1
  /\ e \in [0..n -> 0..(l + 1)] /\ e[0] = 0 /\ e[n] = l + 1
  /\ \A i \in 1..n : /\ e[i - 1] < e[i] /\ Len(P[i]) = e[i] - e[i - 1] - 1
                     /\ P[i] = SubSeq(s, e[i - 1] + 1, e[i] - 1)
                     /\ \A k \in 1..Len(P[i]) : P[i][k] # Space
  /\ \A i \in 1..(n - 1) : s[e[i]] = Space

\* Both splits are done alike: process_init_arguments copies the words of
\* the line.
LEMMA ArgumentsStep ==
  ASSUME line \in Seq(Byte), Memory(frame, res), Holds(frame, res, buffer, Taken),
         NEW new, new = str_token(frame, buffer, Space),
         NEW P, P = [i \in DOMAIN new.tokens |-> StringAt(new.mem, new.tokens[i])]
  PROVE  /\ Memory(new.mem, res)
         /\ \E n, e : IsWords(P, n, Taken, Len(Taken), e)
<1>1. PICK s \in Seq(Byte), l \in Nat : s = Taken /\ l = Len(s)
  BY TakenIs
<1>2. PICK a \in Nat : a = buffer
  BY Sizes
<1>3. PICK c, T : c = new.mem /\ T = new.tokens
  OBVIOUS
<1>4. CutAt(c, frame, res, a, s, Space)
  BY <1>1, <1>2, <1>3, Cuts, Sizes
<1>5. Split(T, s, a, Space, l)
  BY <1>1, <1>2, <1>3, TokensAre, Sizes
<1>6. Memory(c, res) /\ a + l <= res
  BY <1>1, <1>2, <1>4 DEF CutAt, Holds
<1>7. PICK n \in Nat : n = Len(T)
  BY <1>5, LenProperties DEF Split
<1>8. /\ n >= 1 /\ n <= l + 1 /\ DOMAIN T = 1..n /\ T[1] = a
      /\ \A i \in 1..n : T[i] \in Int /\ a <= T[i] /\ T[i] <= a + l
  <2>1. /\ T \in Seq(Int) /\ Len(T) \in 1..(l + 1) /\ T[1] = a
        /\ \A i \in 1..Len(T) : T[i] \in a..(a + l)
    BY <1>5 DEF Split
  <2>2. DOMAIN T = 1..n
    BY <1>7, <2>1, LenProperties
  <2>. QED
    BY <1>1, <1>2, <1>7, <2>1, <2>2
<1>9. \A i \in 1..(n - 1) : /\ T[i] < T[i + 1] /\ s[T[i + 1] - a] = Space
                            /\ \A j \in (T[i] - a + 1)..(T[i + 1] - a - 1) : s[j] # Space
  BY <1>5, <1>7 DEF Split
<1>10. \A j \in (T[n] - a + 1)..l : s[j] # Space
  BY <1>5, <1>7 DEF Split
<1>11. PICK e : e = [i \in 0..n |-> IF i < n THEN T[i + 1] - a ELSE l + 1]
  OBVIOUS
<1>12. \A i \in 0..n : e[i] = IF i < n THEN T[i + 1] - a ELSE l + 1
  BY <1>11
<1>13. ASSUME NEW i \in 1..n
       PROVE  /\ e[i - 1] = T[i] - a /\ e[i - 1] \in 0..l
              /\ e[i] \in 1..(l + 1) /\ e[i - 1] < e[i]
              /\ \A j \in (e[i - 1] + 1)..(e[i] - 1) : s[j] # Space
              /\ e[i] - 1 = l \/ s[(e[i] - 1) + 1] = Space
              /\ i < n => s[e[i]] = Space
  <2>1. i - 1 \in 0..n /\ i - 1 < n /\ (i - 1) + 1 = i /\ i \in 0..n
    BY <1>7
  <2>2. e[i - 1] = T[i] - a
    BY <1>12, <2>1
  <2>3. T[i] \in Int /\ a <= T[i] /\ T[i] <= a + l
    BY <1>8
  <2>4. e[i - 1] \in 0..l
    BY <1>1, <1>2, <2>2, <2>3
  <2>5. CASE i < n
    <3>1. i \in 1..(n - 1) /\ i + 1 \in 1..n
      BY <1>7, <2>5
    <3>2. e[i] = T[i + 1] - a
      BY <1>12, <2>1, <2>5
    <3>3. T[i + 1] \in Int /\ T[i + 1] <= a + l /\ T[i] < T[i + 1] /\ s[T[i + 1] - a] = Space
      BY <1>8, <1>9, <3>1
    <3>4. e[i] \in 1..(l + 1) /\ e[i - 1] < e[i] /\ (e[i] - 1) + 1 = e[i]
      <4>1. PICK x \in Int, y \in Int : x = T[i] /\ y = T[i + 1]
        BY <2>3, <3>3
      <4>2. e[i - 1] = x - a /\ e[i] = y - a /\ a <= x /\ x < y /\ y <= a + l
        BY <2>2, <2>3, <3>2, <3>3, <4>1
      <4>3. y - a \in 1..(l + 1) /\ x - a < y - a /\ ((y - a) - 1) + 1 = y - a
        BY <1>1, <1>2, <4>2
      <4>. QED
        BY <4>2, <4>3
    <3>5. \A j \in (T[i] - a + 1)..(T[i + 1] - a - 1) : s[j] # Space
      BY <1>9, <3>1
    <3>. QED
      BY <2>2, <2>4, <3>2, <3>3, <3>4, <3>5
  <2>6. CASE i = n
    <3>1. e[i] = l + 1
      BY <1>12, <2>1, <2>6
    <3>2. e[i] \in 1..(l + 1) /\ e[i - 1] < e[i] /\ e[i] - 1 = l
      BY <1>1, <2>4, <3>1
    <3>3. \A j \in (e[i - 1] + 1)..(e[i] - 1) : s[j] # Space
      BY <1>10, <2>2, <2>6, <3>2
    <3>. QED
      BY <1>7, <2>2, <2>4, <2>6, <3>2, <3>3
  <2>. QED
    BY <1>7, <2>5, <2>6
<1>14. ASSUME NEW i \in 1..n
       PROVE  /\ StringAt(c, T[i]) = SubSeq(s, e[i - 1] + 1, e[i] - 1)
              /\ SubSeq(s, e[i - 1] + 1, e[i] - 1) \in Seq(Byte)
              /\ Len(SubSeq(s, e[i - 1] + 1, e[i] - 1)) = e[i] - e[i - 1] - 1
              /\ \A k \in 1..(e[i] - e[i - 1] - 1) : SubSeq(s, e[i - 1] + 1, e[i] - 1)[k] # Space
  <2>1. PICK v \in 0..l, u \in Int : v = e[i - 1] /\ u = e[i] - 1
    BY <1>13
  <2>2. u \in v..l /\ u - v = e[i] - e[i - 1] - 1 /\ a + v = T[i] /\ a + v \in Nat
    <3>1. T[i] \in Int /\ e[i] \in Int /\ e[i - 1] = T[i] - a /\ e[i - 1] < e[i] /\ e[i] <= l + 1
      <4>1. e[i] \in 1..(l + 1) /\ e[i - 1] = T[i] - a /\ e[i - 1] < e[i]
        BY <1>13
      <4>2. T[i] \in Int
        BY <1>8
      <4>. QED
        BY <1>1, <4>1, <4>2
    <3>2. PICK x \in Int, y \in Int : x = T[i] /\ y = e[i]
      BY <3>1
    <3>3. v = x - a /\ u = y - 1 /\ v < y /\ y <= l + 1 /\ v \in Int /\ v >= 0
      BY <2>1, <3>1, <3>2
    <3>4. u \in v..l /\ u - v = y - v - 1 /\ a + v = x /\ a + v \in Nat
      BY <1>1, <1>2, <3>3
    <3>. QED
      BY <2>1, <3>2, <3>4
  <2>3. (\A j \in (v + 1)..u : s[j] # Space) /\ (u = l \/ s[u + 1] = Space)
    BY <1>13, <2>1
  <2>4. PICK w : w = SubSeq(s, v + 1, u)
    OBVIOUS
  <2>5. Holds(c, res, a + v, w)
    <3>1. v \in 0..Len(s) /\ u \in v..Len(s) /\ a + Len(s) <= res /\ res \in Nat
      BY <1>1, <1>6, <2>1, <2>2, Sizes
    <3>2. u = Len(s) \/ s[u + 1] = Space
      BY <1>1, <2>3
    <3>3. Holds(c, res, a + v, SubSeq(s, v + 1, u))
      BY <1>4, <2>3, <3>1, <3>2, CutHolds
    <3>. QED
      BY <2>4, <3>3
  <2>6. w \in Seq(Byte) /\ Len(w) = u - v /\ \A k \in 1..(u - v) : w[k] = s[v + k]
    BY <1>1, <2>1, <2>2, <2>4, PartString
  <2>7. StringAt(c, a + v) = w
    BY <1>6, <2>2, <2>5, <2>6, ReadBack, Sizes
  <2>8. ASSUME NEW k \in 1..(u - v) PROVE w[k] # Space
    <3>1. v \in Int /\ u \in Int /\ k \in Int /\ 1 <= k /\ k <= u - v
      BY <2>1, <2>8
    <3>2. v + k \in (v + 1)..u
      BY <3>1
    <3>. QED
      BY <2>3, <2>6, <3>2
  <2>. QED
    BY <2>1, <2>2, <2>4, <2>6, <2>7, <2>8
<1>15. P = [i \in 1..n |-> StringAt(c, T[i])]
  BY <1>3, <1>8
<1>16. \A i \in 1..n : P[i] = StringAt(c, T[i]) /\ P[i] \in Seq(Byte)
  BY <1>14, <1>15
<1>17. P \in Seq(Seq(Byte)) /\ Len(P) = n
  <2>1. P \in [1..n -> Seq(Byte)]
    BY <1>15, <1>16
  <2>2. PICK B : B = Seq(Byte)
    OBVIOUS
  <2>3. P \in Seq(B)
    <3>1. P \in [1..n -> B]
      BY <2>1, <2>2
    <3>2. P \in UNION {[1..m -> B] : m \in Nat}
      BY <1>7, <3>1
    <3>. QED
      BY <3>2, SeqDef
  <2>4. PICK x \in Nat : x = Len(P) /\ DOMAIN P = 1..x
    BY <2>3, LenProperties
  <2>5. 1..x = 1..n
    BY <2>1, <2>4
  <2>6. x = n
    BY <1>7, <2>5
  <2>. QED
    BY <2>2, <2>3, <2>4, <2>6
<1>18. e \in [0..n -> 0..(l + 1)] /\ e[0] = 0 /\ e[n] = l + 1
  <2>1. 0 \in 0..n /\ n \in 0..n /\ 0 < n /\ ~(n < n) /\ 0 + 1 = 1
    BY <1>7, <1>8
  <2>2. e[0] = 0 /\ e[n] = l + 1
    <3>1. e[0] = T[1] - a /\ e[n] = l + 1
      BY <1>12, <2>1
    <3>. QED
      BY <1>2, <1>8, <3>1
  <2>3. ASSUME NEW i \in 0..n PROVE e[i] \in 0..(l + 1)
    <3>1. CASE i = 0
      BY <1>1, <2>2, <3>1
    <3>2. CASE i \in 1..n
      BY <1>1, <1>13, <3>2
    <3>. QED
      BY <3>1, <3>2
  <2>. QED
    BY <1>11, <2>2, <2>3
<1>19. ASSUME NEW i \in 1..n
       PROVE  /\ e[i - 1] < e[i] /\ Len(P[i]) = e[i] - e[i - 1] - 1
              /\ P[i] = SubSeq(s, e[i - 1] + 1, e[i] - 1)
              /\ \A k \in 1..Len(P[i]) : P[i][k] # Space
  <2>1. PICK w, x : w = SubSeq(s, e[i - 1] + 1, e[i] - 1) /\ x = e[i] - e[i - 1] - 1
    OBVIOUS
  <2>2. P[i] = w /\ Len(w) = x /\ \A k \in 1..x : w[k] # Space
    BY <1>14, <1>16, <2>1
  <2>3. e[i - 1] < e[i]
    BY <1>13
  <2>. QED
    BY <2>1, <2>2, <2>3
<1>20. \A i \in 1..(n - 1) : s[e[i]] = Space
  <2>1. \A i \in 1..(n - 1) : i \in 1..n /\ i < n
    BY <1>7
  <2>. QED
    BY <1>13, <2>1
<1>21. IsWords(P, n, s, l, e)
  BY <1>7, <1>8, <1>17, <1>18, <1>19, <1>20 DEF IsWords
<1>. QED
  BY <1>1, <1>3, <1>6, <1>21

\* Two words and the space between them.
Spaced(v, w) == v \o <<Space>> \o w

\* A space and what is before it and behind it.
LEMMA Rejoined ==
  ASSUME NEW s \in Seq(Byte), NEW x \in 1..Len(s), s[x] = Space, NEW u \in x..Len(s)
  PROVE  Spaced(SubSeq(s, 1, x - 1), SubSeq(s, x + 1, u)) = SubSeq(s, 1, u)
<1>1. PICK l \in Nat : l = Len(s)
  BY LenProperties
<1>2. /\ 1 \in 1..(Len(s) + 1) /\ x - 1 \in (1 - 1)..Len(s) /\ x \in (x - 1)..Len(s)
      /\ x \in (1 - 1)..Len(s) /\ (x - 1) + 1 = x
      /\ x - 1 \in 0..Len(s) /\ x \in (x - 1)..Len(s) /\ x - (x - 1) = 1
  BY <1>1
<1>3. SubSeq(s, 1, x - 1) \o SubSeq(s, (x - 1) + 1, x) = SubSeq(s, 1, x)
  BY <1>2, ConcatAdjacentSubSeq
<1>4. SubSeq(s, 1, x) \o SubSeq(s, x + 1, u) = SubSeq(s, 1, u)
  BY <1>2, ConcatAdjacentSubSeq
<1>5. SubSeq(s, (x - 1) + 1, x) = <<Space>>
  <2>1. PICK q \in Seq(Byte) : q = SubSeq(s, (x - 1) + 1, x) /\ Len(q) = 1 /\ q[1] = s[(x - 1) + 1]
    <3>1. PICK v \in 0..Len(s) : v = x - 1
      BY <1>2
    <3>2. x \in v..Len(s) /\ x - v = 1 /\ 1 \in 1..(x - v)
      BY <1>2, <3>1
    <3>3. PICK q \in Seq(Byte) : q = SubSeq(s, v + 1, x)
      BY <3>2, PartString
    <3>4. Len(q) = x - v /\ \A i \in 1..(x - v) : q[i] = s[v + i]
      BY <3>2, <3>3, PartString
    <3>. QED
      BY <3>1, <3>2, <3>3, <3>4
  <2>2. q[1] = Space
    BY <1>2, <2>1
  <2>3. PICK b \in Byte : b = Space
    BY DEF Byte, Space
  <2>4. PICK r : r = <<b>>
    OBVIOUS
  <2>5. r \in Seq(Byte) /\ Len(r) = 1 /\ r[1] = b
    BY <2>4
  <2>6. \A i \in 1..Len(q) : q[i] = r[i]
    BY <2>1, <2>2, <2>3, <2>5
  <2>7. q = r
    BY <2>1, <2>5, <2>6, SeqEqual
  <2>. QED
    BY <2>1, <2>3, <2>4, <2>7
<1>. QED
  BY <1>3, <1>4, <1>5 DEF Spaced

\* The loop of Joined.
IsJoined(g, P, n) ==
  g = [k \in 0..n |-> IF k = 0 THEN <<>>
                      ELSE IF k = 1 THEN P[1]
                      ELSE Spaced(g[k - 1], P[k])]

\* The words, joined, are the line.
LEMMA JoinedWords ==
  ASSUME NEW s \in Seq(Byte), NEW P, NEW n, NEW e, IsWords(P, n, s, Len(s), e)
  PROVE  Joined(P)[n] = s
<1>1. PICK l \in Nat : l = Len(s)
  BY LenProperties
<1>2. /\ n \in Nat /\ Len(P) = n /\ n >= 1 /\ e[0] = 0 /\ e[n] = l + 1
      /\ \A i \in 0..n : e[i] \in 0..(l + 1)
      /\ \A i \in 1..n : e[i - 1] < e[i] /\ P[i] = SubSeq(s, e[i - 1] + 1, e[i] - 1)
      /\ \A i \in 1..(n - 1) : s[e[i]] = Space
  BY <1>1 DEF IsWords
<1>. DEFINE Upto(k) == IF k = 0 THEN <<>> ELSE SubSeq(s, 1, e[k] - 1)
<1>3. P[1] = Upto(1)
  <2>1. 1 \in 1..n /\ 1 - 1 = 0 /\ 0 + 1 = 1 /\ 1 # 0
    BY <1>2
  <2>2. P[1] = SubSeq(s, e[1 - 1] + 1, e[1] - 1)
    BY <1>2, <2>1
  <2>. QED
    BY <1>2, <2>1, <2>2
<1>4. ASSUME NEW k \in 2..n PROVE Spaced(Upto(k - 1), P[k]) = Upto(k)
  <2>1. k \in 1..n /\ k - 1 \in 1..(n - 1) /\ k - 1 \in 0..n /\ k \in 0..n /\ k # 0 /\ k - 1 # 0
        /\ k - 1 \in 1..n /\ (k - 1) - 1 \in 0..n
    BY <1>2
  <2>2. PICK x \in Int, y \in Int : x = e[k - 1] /\ y = e[k]
    <3>1. e[k - 1] \in 0..(l + 1) /\ e[k] \in 0..(l + 1)
      BY <1>2, <2>1
    <3>. QED
      BY <3>1
  <2>3. e[(k - 1) - 1] < x /\ e[(k - 1) - 1] \in 0..(l + 1)
    BY <1>2, <2>1, <2>2
  <2>4. x >= 1
    BY <2>2, <2>3
  <2>5. x < y /\ y \in 0..(l + 1) /\ s[x] = Space /\ P[k] = SubSeq(s, x + 1, y - 1)
    BY <1>2, <2>1, <2>2
  <2>6. x \in 1..Len(s) /\ y - 1 \in x..Len(s)
    <3>1. x < y /\ y \in 0..(l + 1)
      BY <2>5
    <3>. QED
      BY <1>1, <2>2, <2>4, <3>1
  <2>7. Spaced(SubSeq(s, 1, x - 1), SubSeq(s, x + 1, y - 1)) = SubSeq(s, 1, y - 1)
    BY <2>5, <2>6, Rejoined
  <2>8. Upto(k - 1) = SubSeq(s, 1, x - 1) /\ Upto(k) = SubSeq(s, 1, y - 1)
    BY <2>1, <2>2
  <2>. HIDE DEF Upto
  <2>. QED
    BY <2>5, <2>7, <2>8
<1>5. Upto(0) = <<>> /\ Upto(n) = s
  <2>1. n # 0 /\ (l + 1) - 1 = l
    BY <1>1, <1>2
  <2>2. SubSeq(s, 1, l) = s
    BY <1>1, SubSeqFull
  <2>3. Upto(n) = SubSeq(s, 1, (l + 1) - 1)
    BY <1>2, <2>1
  <2>4. Upto(0) = <<>>
    OBVIOUS
  <2>. QED
    BY <2>1, <2>2, <2>3, <2>4
<1>. HIDE DEF Upto
<1>6. IsJoined([k \in 0..n |-> Upto(k)], P, n)
  <2>1. PICK g : g = [k \in 0..n |-> Upto(k)]
    OBVIOUS
  <2>2. \A k \in 0..n : g[k] = Upto(k)
    BY <2>1
  <2>3. ASSUME NEW k \in 0..n
        PROVE  Upto(k) = IF k = 0 THEN <<>>
                         ELSE IF k = 1 THEN P[1]
                         ELSE Spaced(g[k - 1], P[k])
    <3>1. CASE k = 0
      BY <1>5, <3>1
    <3>2. CASE k = 1
      BY <1>3, <3>2
    <3>3. CASE k \in 2..n
      <4>1. k - 1 \in 0..n /\ k # 0 /\ k # 1
        <5>1. n \in Nat
          BY <1>2
        <5>. QED
          BY <3>3, <5>1
      <4>2. g[k - 1] = Upto(k - 1)
        BY <2>2, <4>1
      <4>. QED
        BY <1>4, <3>3, <4>1, <4>2
    <3>. QED
      BY <1>2, <3>1, <3>2, <3>3
  <2>4. g = [k \in 0..n |-> IF k = 0 THEN <<>>
                            ELSE IF k = 1 THEN P[1]
                            ELSE Spaced(g[k - 1], P[k])]
    BY <2>1, <2>3
  <2>. QED
    BY <2>1, <2>4 DEF IsJoined
<1>7. PICK h : h = CHOOSE g : IsJoined(g, P, n)
  OBVIOUS
<1>8. IsJoined(h, P, n)
  BY <1>6, <1>7
<1>9. Joined(P) = h
  BY <1>2, <1>7 DEF Joined, IsJoined, Spaced
<1>10. /\ h[0] = <<>>
       /\ \A k \in 1..n : h[k] = IF k = 1 THEN P[1] ELSE Spaced(h[k - 1], P[k])
  BY <1>2, <1>8 DEF IsJoined
<1>. DEFINE S == {k \in 0..n : h[k] = Upto(k)}
<1>11. 0 \in S
  BY <1>2, <1>5, <1>10
<1>12. ASSUME NEW k \in 0..(n - 1), k \in S PROVE k + 1 \in S
  <2>1. k + 1 \in 1..n /\ k + 1 \in 0..n /\ (k + 1) - 1 = k
    BY <1>2
  <2>2. CASE k = 0
    <3>1. k + 1 = 1
      BY <2>2
    <3>. QED
      BY <1>3, <1>10, <2>1, <3>1
  <2>3. CASE k # 0
    <3>1. k + 1 \in 2..n /\ k + 1 # 1
      <4>1. n \in Nat
        BY <1>2
      <4>. QED
        BY <2>3, <4>1
    <3>2. h[k + 1] = Spaced(h[k], P[k + 1])
      BY <1>10, <2>1, <3>1
    <3>3. Spaced(Upto(k), P[k + 1]) = Upto(k + 1)
      BY <1>4, <2>1, <3>1
    <3>. QED
      BY <1>12, <2>1, <3>2, <3>3
  <2>. QED
    BY <2>2, <2>3
<1>13. 0..n \subseteq S
  <2>. HIDE DEF S
  <2>. QED
    BY <1>2, <1>11, <1>12, UpTo
<1>14. n \in S
  BY <1>2, <1>13
<1>. QED
  BY <1>5, <1>9, <1>14

-----------------------------------------------------------------------------
(* The stack.                                                              *)

\* n times a sequence is stored: T[i] at address B[i].
IsPuts(g, n, m, B, T) ==
  g = [i \in 0..n |-> IF i = 0 THEN m ELSE Put(g[i - 1], B[i], T[i])]

\* h is memory m after the first i of them: each is there, and nothing else
\* has changed.
Stored(h, i, N, m, B, T) ==
  /\ Memory(h, N)
  /\ \A j \in 1..i : \A k \in 1..Len(T[j]) : h[B[j] + k - 1] = T[j][k]
  /\ \A x \in 0..N : (\A j \in 1..i : x < B[j] \/ B[j] + Len(T[j]) <= x) => h[x] = m[x]

\* Sequences that lie side by side.
Apart(n, N, B, T) ==
  /\ \A i \in 1..n : /\ B[i] \in Nat /\ T[i] \in Seq(Int) /\ Len(T[i]) \in Nat
                     /\ B[i] + Len(T[i]) <= N + 1
  /\ \A i \in 1..n : \A j \in 1..n : i < j =>
       B[i] + Len(T[i]) <= B[j] \/ B[j] + Len(T[j]) <= B[i]

\* The loop that stores them ends.
LEMMA PutsExist ==
  ASSUME NEW N \in Nat, NEW n \in Nat, NEW m, Memory(m, N), NEW B, NEW T, Apart(n, N, B, T)
  PROVE  \E g : IsPuts(g, n, m, B, T)
<1>. DEFINE V == [0..N -> Int]
            F == [i \in 1..n |-> [v \in V |-> Put(v, B[i], T[i])]]
<1>1. m \in V
  BY DEF Memory
<1>2. ASSUME NEW i \in 1..n, NEW v \in V PROVE Put(v, B[i], T[i]) \in V
  <2>1. PICK b \in Int, t \in Seq(Int) : b = B[i] /\ t = T[i]
    BY DEF Apart
  <2>2. Memory(v, N)
    BY DEF Memory
  <2>3. Memory(Put(v, b, t), N)
    BY <2>2, PutIs
  <2>. QED
    BY <2>1, <2>3 DEF Memory
<1>. HIDE DEF V
<1>3. ASSUME NEW i \in 1..n PROVE [v \in V |-> Put(v, B[i], T[i])] \in [V -> V]
  BY <1>2
<1>4. F \in [1..n -> [V -> V]]
  BY <1>3
<1>5. \A i \in 1..n : \A v \in V : F[i][v] = Put(v, B[i], T[i])
  OBVIOUS
<1>. HIDE DEF F
<1>6. PICK g : Solves(g, n, V, m, F)
  BY <1>1, <1>4, Recursion
<1>7. g \in [0..n -> V] /\ g[0] = m /\ \A i \in 1..n : g[i] = F[i][g[i - 1]]
  BY <1>6 DEF Solves
<1>8. ASSUME NEW i \in 0..n PROVE g[i] = IF i = 0 THEN m ELSE Put(g[i - 1], B[i], T[i])
  <2>1. CASE i = 0
    BY <1>7, <2>1
  <2>2. CASE i # 0
    <3>1. i \in 1..n /\ i - 1 \in 0..n
      BY <2>2
    <3>2. g[i - 1] \in V
      BY <1>7, <3>1
    <3>3. F[i][g[i - 1]] = Put(g[i - 1], B[i], T[i])
      BY <1>5, <3>1, <3>2
    <3>. QED
      BY <1>7, <2>2, <3>1, <3>3
  <2>. QED
    BY <2>1, <2>2
<1>9. g = [i \in 0..n |-> g[i]]
  BY <1>7
<1>10. IsPuts(g, n, m, B, T)
  BY <1>8, <1>9 DEF IsPuts
<1>. QED
  BY <1>10

\* One more is stored.
LEMMA PutsNext ==
  ASSUME NEW N \in Nat, NEW n \in Nat, NEW m, NEW B, NEW T, Apart(n, N, B, T),
         NEW i \in 0..(n - 1), NEW h, Stored(h, i, N, m, B, T)
  PROVE  Stored(Put(h, B[i + 1], T[i + 1]), i + 1, N, m, B, T)
<1>1. i + 1 \in 1..n /\ i \in Nat
  OBVIOUS
<1>2. PICK b \in Nat, t \in Seq(Int), l \in Nat :
        b = B[i + 1] /\ t = T[i + 1] /\ l = Len(t) /\ b + l <= N + 1
  BY <1>1 DEF Apart
<1>3. PICK c : c = Put(h, b, t)
  OBVIOUS
<1>4. Memory(h, N) /\ b \in Int
  BY <1>2 DEF Stored
<1>5. /\ Memory(c, N)
      /\ \A k \in 1..l : b + k - 1 \in 0..N => c[b + k - 1] = t[k]
      /\ \A x \in 0..N : x < b \/ b + l <= x => c[x] = h[x]
  <2>1. PICK lt \in Nat : lt = Len(t)
    BY <1>2
  <2>2. /\ Memory(c, N)
        /\ \A k \in 1..lt : b + k - 1 \in 0..N => c[b + k - 1] = t[k]
        /\ \A x \in 0..N : x < b \/ b + lt <= x => c[x] = h[x]
    BY <1>3, <1>4, <2>1, PutIs
  <2>. QED
    BY <1>2, <2>1, <2>2
<1>6. ASSUME NEW j \in 1..(i + 1), NEW k \in 1..Len(T[j]) PROVE c[B[j] + k - 1] = T[j][k]
  <2>1. CASE j = i + 1
    <3>1. k \in 1..l
      BY <1>2, <1>6, <2>1
    <3>2. b + k - 1 \in 0..N
      <4>1. b + l <= N + 1
        BY <1>2
      <4>. QED
        BY <3>1, <4>1
    <3>. QED
      BY <1>2, <1>5, <2>1, <3>1, <3>2
  <2>2. CASE j # i + 1
    <3>1. j \in 1..i /\ j \in 1..n /\ j < i + 1
      BY <1>1, <1>6, <2>2
    <3>2. PICK y \in Nat, z \in Nat : y = B[j] /\ z = Len(T[j]) /\ y + z <= N + 1
      <4>1. B[j] \in Nat /\ Len(T[j]) \in Nat /\ B[j] + Len(T[j]) <= N + 1
        BY <3>1 DEF Apart
      <4>. QED
        BY <4>1
    <3>3. y + z <= b \/ b + l <= y
      BY <1>1, <1>2, <3>1, <3>2 DEF Apart
    <3>4. h[y + k - 1] = T[j][k]
      BY <3>1, <3>2 DEF Stored
    <3>5. k \in 1..z
      BY <1>6, <3>2
    <3>6. y + k - 1 \in 0..N /\ (y + k - 1 < b \/ b + l <= y + k - 1)
      <4>1. y + z <= N + 1
        BY <3>2
      <4>. QED
        BY <3>3, <3>5, <4>1
    <3>7. c[y + k - 1] = h[y + k - 1]
      BY <1>5, <3>6
    <3>. QED
      BY <3>2, <3>4, <3>7
  <2>. QED
    BY <2>1, <2>2
<1>7. ASSUME NEW x \in 0..N, \A j \in 1..(i + 1) : x < B[j] \/ B[j] + Len(T[j]) <= x
      PROVE  c[x] = m[x]
  <2>1. i + 1 \in 1..(i + 1) /\ 1..i \subseteq 1..(i + 1)
    BY <1>1
  <2>2. x < b \/ b + l <= x
    BY <1>2, <1>7, <2>1
  <2>3. \A j \in 1..i : x < B[j] \/ B[j] + Len(T[j]) <= x
    BY <1>7, <2>1
  <2>4. h[x] = m[x]
    BY <2>3 DEF Stored
  <2>5. c[x] = h[x]
    BY <1>5, <2>2
  <2>. QED
    BY <2>4, <2>5
<1>8. Stored(c, i + 1, N, m, B, T)
  BY <1>5, <1>6, <1>7 DEF Stored
<1>. QED
  BY <1>2, <1>3, <1>8

\* All of them are stored.
LEMMA PutsAll ==
  ASSUME NEW N \in Nat, NEW n \in Nat, NEW m, Memory(m, N), NEW B, NEW T, Apart(n, N, B, T),
         NEW g, IsPuts(g, n, m, B, T)
  PROVE  Stored(g[n], n, N, m, B, T)
<1>1. g[0] = m /\ \A i \in 1..n : g[i] = Put(g[i - 1], B[i], T[i])
  BY DEF IsPuts
<1>. DEFINE S == {i \in 0..n : Stored(g[i], i, N, m, B, T)}
<1>2. 0 \in S
  <2>1. 1..0 = {}
    OBVIOUS
  <2>2. Stored(m, 0, N, m, B, T)
    BY <2>1 DEF Stored
  <2>. QED
    BY <1>1, <2>2
<1>3. ASSUME NEW i \in 0..(n - 1), i \in S PROVE i + 1 \in S
  <2>1. i + 1 \in 0..n /\ i + 1 \in 1..n /\ (i + 1) - 1 = i
    OBVIOUS
  <2>2. PICK h : h = g[i] /\ Stored(h, i, N, m, B, T)
    BY <1>3
  <2>3. Stored(Put(h, B[i + 1], T[i + 1]), i + 1, N, m, B, T)
    BY <2>2, PutsNext
  <2>4. g[i + 1] = Put(h, B[i + 1], T[i + 1])
    BY <1>1, <2>1, <2>2
  <2>. QED
    BY <2>1, <2>3, <2>4
<1>4. 0..n \subseteq S
  <2>. HIDE DEF S
  <2>. QED
    BY <1>2, <1>3, UpTo
<1>. QED
  BY <1>4

\* What a word holds.
WordLimit == 2147483648

\* The word v is stored at address a.
HoldsWord(m, a, v) == \A k \in 1..4 : m[a + k - 1] = Word(v)[k]

\* Four bytes.
LEMMA WordIs ==
  ASSUME NEW v \in Int
  PROVE  Word(v) \in Seq(Int) /\ Len(Word(v)) = 4
<1>1. PICK a \in Int, b \in Int, c \in Int, d \in Int :
        /\ a = v % 256 /\ b = (v \div 256) % 256
        /\ c = (v \div 65536) % 256 /\ d = (v \div 16777216) % 256
  OBVIOUS
<1>2. PICK q : q = <<a, b, c, d>>
  OBVIOUS
<1>3. q \in Seq(Int) /\ Len(q) = 4
  BY <1>2
<1>. QED
  BY <1>1, <1>2, <1>3 DEF Word

\* Addresses are words.
LEMMA StackIs ==
  /\ StackTop \in Nat /\ StackTop > 5 * MaxPath + 20 /\ StackTop < WordLimit
  /\ 0 < WordLimit /\ WordLimit \in Nat
BY StackAssumption, SMT DEF WordLimit

\* Of a word below 2^31 the four bytes are the number.
LEMMA ReadWord ==
  ASSUME NEW m, NEW a \in Int, NEW v \in Nat, v < WordLimit, HoldsWord(m, a, v)
  PROVE  WordAt(m, a) = v
<1>1. PICK b0 \in Int, b1 \in Int, b2 \in Int, b3 \in Int :
        /\ b0 = v % 256 /\ b1 = (v \div 256) % 256
        /\ b2 = (v \div 65536) % 256 /\ b3 = (v \div 16777216) % 256
  OBVIOUS
<1>2. Word(v) = <<b0, b1, b2, b3>>
  BY <1>1 DEF Word
<1>3. /\ 1 \in 1..4 /\ 2 \in 1..4 /\ 3 \in 1..4 /\ 4 \in 1..4
      /\ a + 1 - 1 = a /\ a + 2 - 1 = a + 1 /\ a + 3 - 1 = a + 2 /\ a + 4 - 1 = a + 3
  OBVIOUS
<1>4. m[a] = Word(v)[1] /\ m[a + 1] = Word(v)[2] /\ m[a + 2] = Word(v)[3] /\ m[a + 3] = Word(v)[4]
  BY <1>3 DEF HoldsWord
<1>5. m[a] = b0 /\ m[a + 1] = b1 /\ m[a + 2] = b2 /\ m[a + 3] = b3
  BY <1>2, <1>4
<1>6. b0 + 256 * b1 + 65536 * b2 + 16777216 * b3 = v
  <2>1. PICK q1 \in Nat, q2 \in Nat, q3 \in Nat :
          q1 = v \div 256 /\ q2 = q1 \div 256 /\ q3 = q2 \div 256
    OBVIOUS
  <2>2. v = 256 * q1 + b0
    BY <1>1, <2>1
  <2>3. v \div 65536 = q2 /\ v \div 16777216 = q3
    BY <2>1
  <2>4. q1 = 256 * q2 + b1 /\ q2 = 256 * q3 + b2
    BY <1>1, <2>1, <2>3
  <2>5. q3 < 256
    BY <2>1, SMT DEF WordLimit
  <2>6. b3 = q3
    BY <1>1, <2>3, <2>5
  <2>. QED
    BY <2>2, <2>4, <2>6
<1>. QED
  BY <1>5, <1>6 DEF WordAt

\* Where the strings lie: word i is as far below the top of the stack as it
\* ends in the line.
LEMMA AddressesAre ==
  ASSUME NEW P, NEW n, NEW s, NEW l \in Nat, NEW e, IsWords(P, n, s, l, e)
  PROVE  \A i \in 0..n : Addresses(P)[i] = StackTop - e[i]
<1>1. /\ n \in Nat /\ Len(P) = n /\ e[0] = 0
      /\ \A i \in 0..n : e[i] \in 0..(l + 1)
      /\ \A i \in 1..n : Len(P[i]) = e[i] - e[i - 1] - 1
  BY DEF IsWords
<1>2. n \in Nat /\ StackTop \in Nat
  BY <1>1, StackIs
<1>. DEFINE Loop(g) == g = [i \in 0..n |-> IF i = 0 THEN StackTop ELSE g[i - 1] - Len(P[i]) - 1]
            G == [i \in 0..n |-> StackTop - e[i]]
<1>3. ASSUME NEW i \in 1..n PROVE (StackTop - e[i - 1]) - Len(P[i]) - 1 = StackTop - e[i]
  <2>1. i \in 0..n /\ i - 1 \in 0..n
    BY <1>2
  <2>2. e[i] \in 0..(l + 1) /\ e[i - 1] \in 0..(l + 1)
    BY <1>1, <2>1
  <2>3. PICK x \in Int, y \in Int : x = e[i] /\ y = e[i - 1]
    BY <2>2
  <2>4. Len(P[i]) = x - y - 1
    BY <1>1, <2>3
  <2>5. (StackTop - y) - (x - y - 1) - 1 = StackTop - x
    BY <1>2
  <2>. QED
    BY <2>3, <2>4, <2>5
<1>4. Loop(G)
  <2>1. \A i \in 0..n : G[i] = StackTop - e[i]
    OBVIOUS
  <2>2. G = [i \in 0..n |-> G[i]]
    OBVIOUS
  <2>. HIDE DEF G
  <2>3. ASSUME NEW i \in 0..n
        PROVE  G[i] = IF i = 0 THEN StackTop ELSE G[i - 1] - Len(P[i]) - 1
    <3>1. CASE i = 0
      <4>1. G[0] = StackTop - 0
        BY <1>1, <2>1, <3>1
      <4>2. StackTop - 0 = StackTop
        BY <1>2
      <4>. QED
        BY <3>1, <4>1, <4>2
    <3>2. CASE i # 0
      <4>1. i \in 1..n /\ i - 1 \in 0..n
        BY <1>2, <3>2
      <4>2. G[i] = StackTop - e[i] /\ G[i - 1] = StackTop - e[i - 1]
        BY <2>1, <4>1
      <4>3. (StackTop - e[i - 1]) - Len(P[i]) - 1 = StackTop - e[i]
        BY <1>3, <4>1
      <4>. QED
        BY <3>2, <4>2, <4>3
    <3>. QED
      BY <3>1, <3>2
  <2>4. G = [i \in 0..n |-> IF i = 0 THEN StackTop ELSE G[i - 1] - Len(P[i]) - 1]
    BY <2>2, <2>3
  <2>. QED
    BY <2>4
<1>. HIDE DEF G
<1>5. PICK h : h = CHOOSE g : Loop(g)
  OBVIOUS
<1>6. Loop(h)
  <2>. HIDE DEF Loop
  <2>. QED
    BY <1>4, <1>5
<1>7. Addresses(P) = h
  BY <1>1, <1>5 DEF Addresses
<1>8. h[0] = StackTop /\ \A i \in 1..n : h[i] = h[i - 1] - Len(P[i]) - 1
  BY <1>2, <1>6
<1>. DEFINE S == {i \in 0..n : h[i] = StackTop - e[i]}
<1>9. 0 \in S
  <2>1. StackTop - 0 = StackTop /\ 0 \in 0..n
    BY <1>2
  <2>. QED
    BY <1>1, <1>8, <2>1
<1>10. ASSUME NEW i \in 0..(n - 1), i \in S PROVE i + 1 \in S
  <2>1. i + 1 \in 1..n /\ i + 1 \in 0..n /\ (i + 1) - 1 = i
    BY <1>2
  <2>2. h[i + 1] = h[i] - Len(P[i + 1]) - 1
    BY <1>8, <2>1
  <2>3. h[i] = StackTop - e[i]
    BY <1>10
  <2>4. (StackTop - e[i]) - Len(P[i + 1]) - 1 = StackTop - e[i + 1]
    BY <1>3, <2>1
  <2>. QED
    BY <2>1, <2>2, <2>3, <2>4
<1>11. 0..n \subseteq S
  <2>. HIDE DEF S
  <2>. QED
    BY <1>2, <1>9, <1>10, UpTo
<1>. QED
  BY <1>7, <1>11

\* The ends of the words ascend.
LEMMA EndsAscend ==
  ASSUME NEW P, NEW n, NEW s, NEW l \in Nat, NEW e, IsWords(P, n, s, l, e)
  PROVE  \A j \in 0..n : \A i \in 0..j : e[i] <= e[j]
<1>1. n \in Nat
  BY DEF IsWords
<1>2. (\A i \in 0..n : e[i] \in 0..(l + 1)) /\ (\A i \in 1..n : e[i - 1] < e[i])
  BY DEF IsWords
<1>3. \A i \in 0..n : e[i] \in Int
  BY <1>2
<1>. DEFINE S == {j \in 0..n : \A i \in 0..j : e[i] <= e[j]}
<1>4. 0 \in S
  <2>1. 0 \in 0..n /\ \A i \in 0..0 : i = 0
    BY <1>1
  <2>2. e[0] <= e[0]
    BY <1>3, <2>1
  <2>. QED
    BY <2>1, <2>2
<1>5. ASSUME NEW j \in 0..(n - 1), j \in S PROVE j + 1 \in S
  <2>1. j + 1 \in 1..n /\ j + 1 \in 0..n /\ (j + 1) - 1 = j /\ j \in 0..n
    BY <1>1
  <2>2. PICK x \in Int, y \in Int : x = e[j] /\ y = e[j + 1] /\ x < y
    BY <1>2, <1>3, <2>1
  <2>3. ASSUME NEW i \in 0..(j + 1) PROVE e[i] <= e[j + 1]
    <3>1. CASE i = j + 1
      BY <2>2, <3>1
    <3>2. CASE i # j + 1
      <4>1. i \in 0..j /\ i \in 0..n
        BY <1>1, <3>2
      <4>2. e[i] <= x
        BY <1>5, <2>2, <4>1
      <4>3. PICK z \in Int : z = e[i]
        BY <1>3, <4>1
      <4>. QED
        BY <2>2, <4>2, <4>3
    <3>. QED
      BY <3>1, <3>2
  <2>. QED
    BY <2>1, <2>3
<1>6. 0..n \subseteq S
  <2>. HIDE DEF S
  <2>. QED
    BY <1>1, <1>4, <1>5, UpTo
<1>. QED
  BY <1>6

\* The first loop: every word is on the stack, and ends above the last.
LEMMA StringsStored ==
  ASSUME NEW N \in Nat, N = StackTop - 1, Memory(stack, N),
         NEW P, NEW n, NEW s, NEW l \in Nat, NEW e, IsWords(P, n, s, l, e), l + 1 <= StackTop
  PROVE  /\ Memory(WithStrings(P)[n], N)
         /\ \A i \in 1..n : /\ Holds(WithStrings(P)[n], N, Addresses(P)[i], P[i])
                            /\ Addresses(P)[i] \in Nat /\ P[i] \in Seq(Byte)
                            /\ Addresses(P)[n] <= Addresses(P)[i] /\ Addresses(P)[i] < StackTop
<1>1. n \in Nat /\ n >= 1 /\ Len(P) = n /\ StackTop \in Nat
  BY StackIs DEF IsWords
<1>2. /\ \A i \in 0..n : e[i] \in 0..(l + 1)
      /\ \A i \in 1..n : e[i - 1] < e[i] /\ Len(P[i]) = e[i] - e[i - 1] - 1
  BY DEF IsWords
<1>3. PICK A : A = Addresses(P)
  OBVIOUS
<1>4. \A i \in 0..n : A[i] = StackTop - e[i]
  <2>1. \A i \in 0..n : Addresses(P)[i] = StackTop - e[i]
    BY AddressesAre
  <2>. QED
    BY <1>3, <2>1
<1>5. PICK T : T = [i \in 1..n |-> Append(P[i], NUL)]
  OBVIOUS
<1>6. ASSUME NEW i \in 1..n
      PROVE  /\ P[i] \in Seq(Byte) /\ T[i] = Append(P[i], NUL) /\ T[i] \in Seq(Int)
             /\ Len(T[i]) = Len(P[i]) + 1 /\ Len(T[i]) \in Nat
             /\ A[i] \in Nat /\ A[i] < StackTop /\ A[i] + Len(T[i]) = A[i - 1]
             /\ A[i - 1] <= StackTop /\ A[i - 1] \in Nat
  <2>1. P[i] \in Seq(Byte)
    <3>1. PICK W : W = Seq(Byte)
      OBVIOUS
    <3>2. P \in Seq(W) /\ i \in 1..Len(P)
      BY <1>1, <3>1 DEF IsWords
    <3>3. P[i] \in W
      BY <3>2, ElementOfSeq
    <3>. QED
      BY <3>1, <3>3
  <2>2. T[i] = Append(P[i], NUL)
    BY <1>5
  <2>3. T[i] \in Seq(Int) /\ Len(T[i]) = Len(P[i]) + 1
    BY <2>1, <2>2, WithNul
  <2>4. i \in 0..n /\ i - 1 \in 0..n
    BY <1>1
  <2>5. PICK x \in 0..(l + 1), y \in 0..(l + 1) : x = e[i] /\ y = e[i - 1]
    BY <1>2, <2>4
  <2>6. Len(P[i]) = x - y - 1 /\ y < x
    BY <1>2, <2>5
  <2>7. A[i] = StackTop - x /\ A[i - 1] = StackTop - y
    BY <1>4, <2>4, <2>5
  <2>8. /\ StackTop - x \in Nat /\ StackTop - x < StackTop /\ StackTop - y <= StackTop
        /\ StackTop - y \in Nat /\ (StackTop - x) + ((x - y - 1) + 1) = StackTop - y
        /\ (x - y - 1) + 1 \in Nat
    BY <1>1, <2>6
  <2>. QED
    BY <2>1, <2>2, <2>3, <2>6, <2>7, <2>8
<1>7. ASSUME NEW j \in 0..n, NEW i \in 0..j PROVE A[j] <= A[i]
  <2>1. e[i] <= e[j]
    BY EndsAscend
  <2>2. i \in 0..n
    BY <1>1
  <2>3. PICK x \in Int, y \in Int : x = e[i] /\ y = e[j]
    <3>1. e[i] \in 0..(l + 1) /\ e[j] \in 0..(l + 1)
      BY <1>2, <2>2
    <3>. QED
      BY <3>1
  <2>4. A[i] = StackTop - x /\ A[j] = StackTop - y
    BY <1>4, <2>2, <2>3
  <2>. QED
    BY <1>1, <2>1, <2>3, <2>4
<1>8. Apart(n, N, A, T)
  <2>1. ASSUME NEW i \in 1..n PROVE A[i] + Len(T[i]) <= N + 1
    <3>1. N + 1 = StackTop
      BY <1>1
    <3>. QED
      BY <1>6, <3>1
  <2>2. ASSUME NEW i \in 1..n, NEW j \in 1..n, i < j PROVE A[j] + Len(T[j]) <= A[i]
    <3>1. j - 1 \in 0..n /\ i \in 0..(j - 1)
      BY <1>1, <2>2
    <3>2. A[j - 1] <= A[i]
      BY <1>7, <3>1
    <3>. QED
      BY <1>6, <3>2
  <2>. QED
    BY <1>6, <2>1, <2>2 DEF Apart
<1>. DEFINE Loop(g) == g = [i \in 0..n |-> IF i = 0 THEN stack
                                          ELSE Put(g[i - 1], A[i], Append(P[i], NUL))]
<1>9. ASSUME NEW g PROVE Loop(g) <=> IsPuts(g, n, stack, A, T)
  <2>1. ASSUME NEW i \in 0..n
        PROVE  (IF i = 0 THEN stack ELSE Put(g[i - 1], A[i], Append(P[i], NUL)))
               = (IF i = 0 THEN stack ELSE Put(g[i - 1], A[i], T[i]))
    <3>1. CASE i = 0
      BY <3>1
    <3>2. CASE i # 0
      <4>1. i \in 1..n
        BY <1>1, <3>2
      <4>2. T[i] = Append(P[i], NUL)
        BY <1>6, <4>1
      <4>. QED
        BY <3>2, <4>2
    <3>. QED
      BY <3>1, <3>2
  <2>2. [i \in 0..n |-> IF i = 0 THEN stack ELSE Put(g[i - 1], A[i], Append(P[i], NUL))]
        = [i \in 0..n |-> IF i = 0 THEN stack ELSE Put(g[i - 1], A[i], T[i])]
    BY <2>1
  <2>. QED
    BY <2>2 DEF IsPuts
<1>10. PICK h : h = CHOOSE g : Loop(g)
  OBVIOUS
<1>11. WithStrings(P) = h
  BY <1>1, <1>3, <1>10 DEF WithStrings, memcpy
<1>. HIDE DEF Loop
<1>12. IsPuts(h, n, stack, A, T)
  <2>1. PICK g : IsPuts(g, n, stack, A, T)
    BY <1>1, <1>8, PutsExist
  <2>2. Loop(h)
    BY <1>9, <1>10, <2>1
  <2>. QED
    BY <1>9, <2>2
<1>13. PICK m : m = h[n]
  OBVIOUS
<1>14. Stored(m, n, N, stack, A, T)
  BY <1>1, <1>8, <1>12, <1>13, PutsAll
<1>15. ASSUME NEW i \in 1..n PROVE Holds(m, N, A[i], P[i])
  <2>1. PICK w \in Seq(Byte), k \in Nat, b \in Nat : w = P[i] /\ k = Len(w) /\ b = A[i]
    BY <1>6, LenProperties
  <2>2. PICK t \in Seq(Int) : t = Append(w, NUL)
    BY WithNul
  <2>3. T[i] = t /\ Len(t) = k + 1
    BY <1>6, <2>1, <2>2
  <2>4. \A q \in 1..(k + 1) : m[b + q - 1] = t[q]
    BY <1>14, <2>1, <2>3 DEF Stored
  <2>5. (\A q \in 1..k : t[q] = w[q]) /\ t[k + 1] = NUL
    BY <2>1, <2>2, WithNul
  <2>6. b + (k + 1) <= N + 1
    BY <1>8, <2>1, <2>3 DEF Apart
  <2>7. b + k <= N
    BY <2>6
  <2>8. k + 1 \in 1..(k + 1) /\ b + (k + 1) - 1 = b + k /\ 1..k \subseteq 1..(k + 1)
    OBVIOUS
  <2>9. m[b + k] = NUL
    BY <2>4, <2>5, <2>8
  <2>10. \A q \in 1..k : m[b + q - 1] = w[q]
    BY <2>4, <2>5, <2>8
  <2>. QED
    BY <2>1, <2>7, <2>9, <2>10 DEF Holds
<1>16. ASSUME NEW i \in 1..n PROVE A[n] <= A[i]
  <2>1. n \in 0..n /\ i \in 0..n
    BY <1>1
  <2>. QED
    BY <1>7, <2>1
<1>17. Memory(m, N)
  BY <1>14 DEF Stored
<1>. QED
  BY <1>3, <1>6, <1>11, <1>13, <1>15, <1>16, <1>17

\* The second loop: the addresses are in the array, and nothing else changes.
LEMMA PointersStored ==
  ASSUME NEW N \in Nat, NEW m, Memory(m, N), NEW P, NEW n \in Nat, Len(P) = n,
         \A i \in 1..n : Addresses(P)[i] \in Nat,
         NEW a \in Nat, a + n * 4 <= N + 1,
         NEW new, new = WithPointers(m, a, P)[n]
  PROVE  /\ Memory(new, N)
         /\ \A i \in 1..n : HoldsWord(new, a + (i - 1) * 4, Addresses(P)[i])
         /\ \A x \in 0..N : x < a \/ a + n * 4 <= x => new[x] = m[x]
<1>1. PICK A : A = Addresses(P)
  OBVIOUS
<1>2. PICK B, T : /\ B = [i \in 1..n |-> a + (i - 1) * 4]
                  /\ T = [i \in 1..n |-> Word(A[i])]
  OBVIOUS
<1>3. ASSUME NEW i \in 1..n
      PROVE  /\ B[i] = a + (i - 1) * 4 /\ B[i] \in Nat
             /\ a <= B[i] /\ B[i] + 4 <= a + n * 4
             /\ T[i] = Word(A[i]) /\ T[i] \in Seq(Int) /\ Len(T[i]) = 4
  <2>1. B[i] = a + (i - 1) * 4 /\ T[i] = Word(A[i])
    BY <1>2
  <2>2. A[i] \in Int
    <3>1. A[i] \in Nat
      BY <1>1
    <3>. QED
      BY <3>1
  <2>3. Word(A[i]) \in Seq(Int) /\ Len(Word(A[i])) = 4
    BY <2>2, WordIs
  <2>4. a + (i - 1) * 4 \in Nat /\ a <= a + (i - 1) * 4 /\ (a + (i - 1) * 4) + 4 <= a + n * 4
    OBVIOUS
  <2>. QED
    BY <2>1, <2>3, <2>4
<1>4. Apart(n, N, B, T)
  <2>1. ASSUME NEW i \in 1..n PROVE B[i] + Len(T[i]) <= N + 1
    <3>1. PICK b \in Nat : b = B[i] /\ b + 4 <= a + n * 4
      BY <1>3
    <3>2. b + 4 <= N + 1
      BY <3>1
    <3>. QED
      BY <1>3, <3>1, <3>2
  <2>2. ASSUME NEW i \in 1..n, NEW j \in 1..n, i < j PROVE B[i] + Len(T[i]) <= B[j]
    <3>1. (a + (i - 1) * 4) + 4 <= a + (j - 1) * 4
      BY <2>2
    <3>. QED
      BY <1>3, <3>1
  <2>3. 4 \in Nat
    OBVIOUS
  <2>. QED
    BY <1>3, <2>1, <2>2, <2>3 DEF Apart
<1>. DEFINE Loop(g) == g = [i \in 0..n |-> IF i = 0 THEN m
                                          ELSE Put(g[i - 1], a + (i - 1) * 4, Word(A[i]))]
<1>5. ASSUME NEW g PROVE Loop(g) <=> IsPuts(g, n, m, B, T)
  <2>1. ASSUME NEW i \in 0..n
        PROVE  (IF i = 0 THEN m ELSE Put(g[i - 1], a + (i - 1) * 4, Word(A[i])))
               = (IF i = 0 THEN m ELSE Put(g[i - 1], B[i], T[i]))
    <3>1. CASE i = 0
      BY <3>1
    <3>2. CASE i # 0
      <4>1. i \in 1..n
        BY <3>2
      <4>2. T[i] = Word(A[i]) /\ B[i] = a + (i - 1) * 4
        BY <1>3, <4>1
      <4>. QED
        BY <3>2, <4>2
    <3>. QED
      BY <3>1, <3>2
  <2>2. [i \in 0..n |-> IF i = 0 THEN m ELSE Put(g[i - 1], a + (i - 1) * 4, Word(A[i]))]
        = [i \in 0..n |-> IF i = 0 THEN m ELSE Put(g[i - 1], B[i], T[i])]
    BY <2>1
  <2>. QED
    BY <2>2 DEF IsPuts
<1>6. PICK h : h = CHOOSE g : Loop(g)
  OBVIOUS
<1>7. WithPointers(m, a, P) = h
  BY <1>1, <1>6 DEF WithPointers, memcpy, WordSize
<1>. HIDE DEF Loop
<1>8. IsPuts(h, n, m, B, T)
  <2>1. PICK g : IsPuts(g, n, m, B, T)
    BY <1>4, PutsExist
  <2>2. Loop(h)
    BY <1>5, <1>6, <2>1
  <2>. QED
    BY <1>5, <2>2
<1>9. Stored(new, n, N, m, B, T)
  <2>1. Stored(h[n], n, N, m, B, T)
    BY <1>4, <1>8, PutsAll
  <2>. QED
    BY <1>7, <2>1
<1>10. ASSUME NEW i \in 1..n PROVE HoldsWord(new, a + (i - 1) * 4, A[i])
  <2>1. \A k \in 1..4 : new[B[i] + k - 1] = T[i][k]
    BY <1>3, <1>9 DEF Stored
  <2>. QED
    BY <1>3, <2>1 DEF HoldsWord
<1>11. ASSUME NEW x \in 0..N, x < a \/ a + n * 4 <= x PROVE new[x] = m[x]
  <2>1. ASSUME NEW j \in 1..n PROVE x < B[j] \/ B[j] + Len(T[j]) <= x
    <3>1. PICK b \in Nat : b = B[j] /\ a <= b /\ b + 4 <= a + n * 4 /\ Len(T[j]) = 4
      BY <1>3
    <3>2. x < b \/ b + 4 <= x
      BY <1>11, <3>1
    <3>. QED
      BY <3>1, <3>2
  <2>. QED
    BY <1>9, <2>1 DEF Stored
<1>12. Memory(new, N)
  BY <1>9 DEF Stored
<1>. QED
  BY <1>1, <1>10, <1>11, <1>12

\* c is memory m with the word v stored at address a.
Wrote(c, m, N, a, v) ==
  /\ Memory(c, N) /\ HoldsWord(c, a, v)
  /\ \A x \in 0..N : x < a \/ a + 4 <= x => c[x] = m[x]

\* A word that is stored is there.
LEMMA WritesWord ==
  ASSUME NEW N \in Nat, NEW m, Memory(m, N), NEW a \in Nat, a + 4 <= N + 1, NEW v \in Int,
         NEW c, c = Put(m, a, Word(v))
  PROVE  Wrote(c, m, N, a, v)
<1>1. PICK t \in Seq(Int) : t = Word(v) /\ Len(t) = 4
  BY WordIs
<1>2. a \in Int
  OBVIOUS
<1>3. c = Put(m, a, t)
  BY <1>1
<1>4. /\ Memory(Put(m, a, t), N)
      /\ \A k \in 1..Len(t) : a + k - 1 \in 0..N => Put(m, a, t)[a + k - 1] = t[k]
      /\ \A i \in 0..N : i < a \/ a + Len(t) <= i => Put(m, a, t)[i] = m[i]
  <2>1. Memory(Put(m, a, t), N)
    BY <1>2, PutIs
  <2>2. \A k \in 1..Len(t) : a + k - 1 \in 0..N => Put(m, a, t)[a + k - 1] = t[k]
    BY <1>2, PutIs
  <2>3. \A i \in 0..N : i < a \/ a + Len(t) <= i => Put(m, a, t)[i] = m[i]
    BY <1>2, PutIs
  <2>. QED
    BY <2>1, <2>2, <2>3
<1>5. \A k \in 1..4 : a + k - 1 \in 0..N
  OBVIOUS
<1>6. HoldsWord(c, a, v)
  BY <1>1, <1>3, <1>4, <1>5 DEF HoldsWord
<1>. QED
  BY <1>1, <1>3, <1>4, <1>6 DEF Wrote

\* c is memory m from lo up to hi.
Same(c, m, N, lo, hi) == \A x \in 0..N : lo <= x /\ x < hi => c[x] = m[x]

\* A word stays where memory stays.
LEMMA KeepsWord ==
  ASSUME NEW N \in Nat, NEW m, NEW c, NEW a \in Nat, a + 4 <= N + 1, NEW v, HoldsWord(m, a, v),
         Same(c, m, N, a, a + 4)
  PROVE  HoldsWord(c, a, v)
<1>1. \A k \in 1..4 : a + k - 1 \in 0..N /\ a <= a + k - 1 /\ a + k - 1 < a + 4
  OBVIOUS
<1>. QED
  BY <1>1 DEF HoldsWord, Same

\* A string stays where memory stays.
LEMMA KeepsAbove ==
  ASSUME NEW N \in Nat, NEW m, NEW c, NEW a \in Nat, NEW q \in Int, q <= a, NEW s \in Seq(Byte),
         Holds(m, N, a, s), Same(c, m, N, q, N + 1)
  PROVE  Holds(c, N, a, s)
<1>1. PICK l \in Nat : l = Len(s)
  BY LenProperties
<1>2. a + l <= N /\ m[a + l] = NUL /\ \A k \in 1..l : m[a + k - 1] = s[k]
  BY <1>1 DEF Holds
<1>3. a + l \in 0..N /\ q <= a + l /\ a + l < N + 1
  <2>1. a + l <= N
    BY <1>2
  <2>. QED
    BY <2>1
<1>4. \A k \in 1..l : a + k - 1 \in 0..N /\ q <= a + k - 1 /\ a + k - 1 < N + 1
  <2>1. a + l <= N
    BY <1>2
  <2>. QED
    BY <2>1
<1>. QED
  BY <1>1, <1>2, <1>3, <1>4 DEF Holds, Same

\* Stack m as main finds it with the stack pointer at sp: the number n of the
\* arguments, the address of the array, their addresses, a 0, their strings.
Delivered(m, sp, P, n) ==
  /\ Memory(m, StackTop - 1) /\ sp \in Nat /\ sp + 8 < StackTop
  /\ HoldsWord(m, sp, n) /\ HoldsWord(m, sp + 4, sp + 8)
  /\ \A i \in 1..n : /\ HoldsWord(m, (sp + 8) + (i - 1) * 4, Addresses(P)[i])
                     /\ Holds(m, StackTop - 1, Addresses(P)[i], P[i])
                     /\ Addresses(P)[i] \in Nat /\ Addresses(P)[i] < StackTop
                     /\ P[i] \in Seq(Byte)
  /\ HoldsWord(m, (sp + 8) + n * 4, 0)

\* The stack below the words: argc at u, argv at w, the array from a on, its 0
\* at z, the words from q on.
Places(N, n, u, w, a, z, q) ==
  u + 4 = w /\ w + 4 = a /\ z = a + n * 4 /\ z + 4 = q /\ q <= N

\* The words are on stack m, not below q.
WordsAbove(m, N, P, n, q) ==
  \A i \in 1..n : /\ Holds(m, N, Addresses(P)[i], P[i]) /\ P[i] \in Seq(Byte)
                  /\ Addresses(P)[i] \in Nat /\ q <= Addresses(P)[i]

\* Everything is where it belongs.
LaidOut(c, N, P, n, u, w, a, z) ==
  /\ Memory(c, N)
  /\ HoldsWord(c, u, n) /\ HoldsWord(c, w, a) /\ HoldsWord(c, z, 0)
  /\ \A i \in 1..n : /\ HoldsWord(c, a + (i - 1) * 4, Addresses(P)[i])
                     /\ Holds(c, N, Addresses(P)[i], P[i])

\* What is written below the words leaves them and each other alone.
LEMMA Layout ==
  ASSUME NEW N \in Nat, NEW n \in Nat, NEW P, Len(P) = n, NEW m, Memory(m, N),
         NEW u \in Nat, NEW w \in Nat, NEW a \in Nat, NEW z \in Nat, NEW q \in Nat,
         Places(N, n, u, w, a, z, q), WordsAbove(m, N, P, n, q),
         NEW c1, c1 = Put(m, u, Word(n)),
         NEW c2, c2 = Put(c1, w, Word(a)),
         NEW c3, c3 = WithPointers(c2, a, P)[n],
         NEW c4, c4 = Put(c3, z, Word(0))
  PROVE  LaidOut(c4, N, P, n, u, w, a, z)
<1>1. /\ u + 4 = w /\ w + 4 = a /\ z = a + n * 4 /\ z + 4 = q /\ q <= N
      /\ u + 4 <= N + 1 /\ w + 4 <= N + 1 /\ z + 4 <= N + 1 /\ a <= z /\ a + n * 4 <= N + 1
      /\ u \in Int /\ w \in Int /\ a \in Int /\ z \in Int /\ q \in Int /\ n \in Int /\ 0 \in Int
  BY DEF Places
<1>2. Wrote(c1, m, N, u, n)
  BY <1>1, WritesWord
<1>3. Wrote(c2, c1, N, w, a)
  <2>1. Memory(c1, N)
    BY <1>2 DEF Wrote
  <2>. QED
    BY <1>1, <2>1, WritesWord
<1>4. /\ Memory(c3, N)
      /\ \A i \in 1..n : HoldsWord(c3, a + (i - 1) * 4, Addresses(P)[i])
      /\ \A x \in 0..N : x < a \/ a + n * 4 <= x => c3[x] = c2[x]
  <2>1. \A i \in 1..n : Addresses(P)[i] \in Nat
    BY DEF WordsAbove
  <2>2. Memory(c2, N) /\ a + n * 4 <= N + 1
    BY <1>1, <1>3 DEF Wrote
  <2>. QED
    BY <2>1, <2>2, PointersStored
<1>5. Wrote(c4, c3, N, z, 0)
  BY <1>1, <1>4, WritesWord
<1>6. HoldsWord(c4, u, n)
  <2>1. ASSUME NEW x \in 0..N, u <= x, x < u + 4 PROVE c4[x] = c1[x]
    <3>1. x < w /\ x < a /\ x < z
      BY <1>1, <2>1
    <3>2. c4[x] = c3[x] /\ c2[x] = c1[x]
      BY <1>3, <1>5, <3>1 DEF Wrote
    <3>. QED
      BY <1>4, <3>1, <3>2
  <2>2. HoldsWord(c1, u, n)
    BY <1>2 DEF Wrote
  <2>. QED
    <3>1. Same(c4, c1, N, u, u + 4)
      BY <2>1 DEF Same
    <3>. QED
      BY <1>1, <2>2, <3>1, KeepsWord
<1>7. HoldsWord(c4, w, a)
  <2>1. ASSUME NEW x \in 0..N, w <= x, x < w + 4 PROVE c4[x] = c2[x]
    <3>1. x < a /\ x < z
      BY <1>1, <2>1
    <3>2. c4[x] = c3[x]
      BY <1>5, <3>1 DEF Wrote
    <3>. QED
      BY <1>4, <3>1, <3>2
  <2>2. HoldsWord(c2, w, a)
    BY <1>3 DEF Wrote
  <2>. QED
    <3>1. Same(c4, c2, N, w, w + 4)
      BY <2>1 DEF Same
    <3>. QED
      BY <1>1, <2>2, <3>1, KeepsWord
<1>8. ASSUME NEW i \in 1..n PROVE HoldsWord(c4, a + (i - 1) * 4, Addresses(P)[i])
  <2>1. PICK b \in Nat : b = a + (i - 1) * 4 /\ b + 4 <= z
    BY <1>1
  <2>2. b + 4 <= N + 1
    BY <1>1, <2>1
  <2>3. ASSUME NEW x \in 0..N, b <= x, x < b + 4 PROVE c4[x] = c3[x]
    <3>1. x < z
      BY <1>1, <2>1, <2>3
    <3>. QED
      BY <1>5, <3>1 DEF Wrote
  <2>4. PICK v : v = Addresses(P)[i]
    OBVIOUS
  <2>5. HoldsWord(c3, b, v)
    BY <1>4, <2>1, <2>4
  <2>6. HoldsWord(c4, b, v)
    <3>1. Same(c4, c3, N, b, b + 4)
      BY <2>3 DEF Same
    <3>. QED
      BY <2>2, <2>5, <3>1, KeepsWord
  <2>. QED
    BY <2>1, <2>4, <2>6
<1>9. ASSUME NEW x \in 0..N, q <= x PROVE c4[x] = m[x]
  <2>1. z + 4 <= x /\ a + n * 4 <= x /\ w + 4 <= x /\ u + 4 <= x
    BY <1>1, <1>9
  <2>2. c4[x] = c3[x] /\ c2[x] = c1[x] /\ c1[x] = m[x]
    BY <1>2, <1>3, <1>5, <2>1 DEF Wrote
  <2>. QED
    BY <1>4, <2>1, <2>2
<1>10. ASSUME NEW i \in 1..n PROVE Holds(c4, N, Addresses(P)[i], P[i])
  <2>1. PICK t \in Seq(Byte), b \in Nat :
          t = P[i] /\ b = Addresses(P)[i] /\ q <= b /\ Holds(m, N, b, t)
    BY DEF WordsAbove
  <2>2. Same(c4, m, N, q, N + 1)
    BY <1>9 DEF Same
  <2>3. q <= b /\ Holds(m, N, b, t) /\ q \in Int
    BY <1>1, <2>1
  <2>4. Holds(c4, N, b, t)
    BY <2>2, <2>3, KeepsAbove
  <2>. QED
    BY <2>1, <2>4
<1>11. Memory(c4, N) /\ HoldsWord(c4, z, 0)
  BY <1>5 DEF Wrote
<1>. QED
  BY <1>6, <1>7, <1>8, <1>10, <1>11 DEF LaidOut

\* process_map_args_to_stack lays the stack out like that.
LEMMA MapStep ==
  ASSUME Memory(stack, StackTop - 1),
         NEW P, NEW n, NEW s, NEW l \in Nat, NEW e, IsWords(P, n, s, l, e), l <= MaxPath,
         NEW a, a = Addresses(P)[n] - (n + 1) * 4,
         NEW c1, c1 = Put(WithStrings(P)[n], a - 4 - 4, Word(n)),
         NEW c2, c2 = Put(c1, a - 4, Word(a)),
         NEW c3, c3 = WithPointers(c2, a, P)[n],
         NEW c4, c4 = Put(c3, a + n * 4, Word(0))
  PROVE  Delivered(c4, a - 4 - 4, P, n)
<1>1. /\ n \in Nat /\ n >= 1 /\ n <= l + 1 /\ Len(P) = n
      /\ StackTop \in Nat /\ StackTop > 5 * MaxPath + 20 /\ MaxPath \in Nat
  BY StackIs, Sizes DEF IsWords
<1>2. PICK N \in Nat : N = StackTop - 1 /\ N + 1 = StackTop
  BY <1>1
<1>3. l + 1 <= StackTop
  BY <1>1
<1>4. PICK A : A = Addresses(P)
  OBVIOUS
<1>5. PICK m : m = WithStrings(P)[n]
  OBVIOUS
<1>6. /\ Memory(m, N)
      /\ \A i \in 1..n : /\ Holds(m, N, A[i], P[i]) /\ A[i] \in Nat /\ P[i] \in Seq(Byte)
                         /\ A[n] <= A[i] /\ A[i] < StackTop
  BY <1>2, <1>3, <1>4, <1>5, StringsStored
<1>7. PICK q \in Nat : q = A[n] /\ q = StackTop - (l + 1)
  <2>1. n \in 0..n /\ e[n] = l + 1
    BY <1>1 DEF IsWords
  <2>2. \A i \in 0..n : Addresses(P)[i] = StackTop - e[i]
    BY AddressesAre
  <2>3. A[n] = StackTop - (l + 1)
    BY <1>4, <2>1, <2>2
  <2>4. StackTop - (l + 1) \in Nat
    BY <1>1, <1>3
  <2>. QED
    BY <2>3, <2>4
<1>8. q = StackTop - (l + 1) /\ a = q - (n + 1) * 4
  BY <1>4, <1>7
<1>9. n \in Nat /\ n <= l + 1 /\ StackTop \in Nat /\ StackTop > 5 * MaxPath + 20 /\ MaxPath \in Nat
  BY <1>1
<1>10. PICK u \in Nat, w \in Nat, b \in Nat, z \in Nat :
         /\ b = a /\ u = a - 4 - 4 /\ w = a - 4 /\ z = a + n * 4
         /\ u + 4 = w /\ w + 4 = b /\ z = b + n * 4 /\ z + 4 = q /\ q <= N /\ q < StackTop
         /\ u + 8 = b /\ u + 8 < StackTop
  <2>1. q >= 4 * n + 12
    BY <1>8, <1>9
  <2>2. a = q - 4 * n - 4 /\ a \in Int
    BY <1>8, <1>9
  <2>3. a \in Nat /\ a - 4 \in Nat /\ a - 4 - 4 \in Nat /\ a + n * 4 \in Nat
    BY <1>9, <2>1, <2>2
  <2>4. q <= N /\ q < StackTop
    BY <1>2, <1>8, <1>9
  <2>5. /\ (a - 4 - 4) + 4 = a - 4 /\ (a - 4) + 4 = a /\ (a + n * 4) + 4 = q
        /\ (a - 4 - 4) + 8 = a /\ a < StackTop
    BY <1>9, <2>2, <2>4
  <2>. QED
    BY <2>3, <2>4, <2>5
<1>11. WordsAbove(m, N, P, n, q)
  BY <1>4, <1>6, <1>7 DEF WordsAbove
<1>12. /\ c1 = Put(m, u, Word(n)) /\ c2 = Put(c1, w, Word(b))
       /\ c3 = WithPointers(c2, b, P)[n] /\ c4 = Put(c3, z, Word(0))
  BY <1>5, <1>10
<1>13. Places(N, n, u, w, b, z, q) /\ n \in Nat /\ Len(P) = n /\ Memory(m, N)
  BY <1>1, <1>6, <1>10 DEF Places
<1>14. LaidOut(c4, N, P, n, u, w, b, z)
  BY <1>11, <1>12, <1>13, Layout
<1>15. /\ w = u + 4 /\ b = u + 8 /\ z = (u + 8) + n * 4 /\ u + 8 < StackTop /\ N = StackTop - 1
       /\ u = a - 4 - 4
  BY <1>2, <1>10
<1>16. \A i \in 1..n : /\ Addresses(P)[i] \in Nat /\ Addresses(P)[i] < StackTop
                       /\ P[i] \in Seq(Byte)
  BY <1>4, <1>6
<1>17. Delivered(c4, u, P, n)
  BY <1>14, <1>15, <1>16 DEF Delivered, LaidOut
<1>. QED
  BY <1>15, <1>17

\* What main reads from such a stack.
LEMMA ArgvIs ==
  ASSUME NEW P, NEW n \in Nat, n < WordLimit, P = [i \in 1..n |-> P[i]],
         Delivered(stack, esp, P, n)
  PROVE  /\ argc = n /\ argv = P
         /\ WordAt(stack, WordAt(stack, esp + WordSize) + n * WordSize) = 0
<1>1. PICK sp \in Nat : sp = esp
  BY DEF Delivered
<1>2. PICK A, N : A = Addresses(P) /\ N = StackTop - 1
  OBVIOUS
<1>3. N \in Nat /\ StackTop \in Nat /\ StackTop < WordLimit /\ WordLimit \in Nat /\ 0 < WordLimit
  <2>1. MaxPath \in Nat
    BY Sizes
  <2>2. /\ StackTop \in Nat /\ StackTop > 5 * MaxPath + 20 /\ StackTop < WordLimit
        /\ WordLimit \in Nat /\ 0 < WordLimit
    BY StackIs
  <2>. QED
    BY <1>2, <2>1, <2>2
<1>4. /\ Memory(stack, N) /\ sp + 8 < StackTop
      /\ HoldsWord(stack, sp, n) /\ HoldsWord(stack, sp + 4, sp + 8)
      /\ HoldsWord(stack, (sp + 8) + n * 4, 0)
  BY <1>1, <1>2 DEF Delivered
<1>5. \A i \in 1..n : /\ HoldsWord(stack, (sp + 8) + (i - 1) * 4, A[i]) /\ Holds(stack, N, A[i], P[i])
                      /\ A[i] \in Nat /\ A[i] < StackTop /\ P[i] \in Seq(Byte)
  BY <1>1, <1>2 DEF Delivered
<1>6. sp \in Int /\ sp + 4 \in Int /\ sp + 8 \in Nat /\ sp + 8 < WordLimit /\ (sp + 8) + n * 4 \in Int
  <2>1. sp + 8 < StackTop
    BY <1>4
  <2>. QED
    BY <1>3, <2>1
<1>7. WordAt(stack, sp) = n
  BY <1>4, <1>6, ReadWord
<1>8. WordAt(stack, sp + 4) = sp + 8
  BY <1>4, <1>6, ReadWord
<1>9. WordAt(stack, (sp + 8) + n * 4) = 0
  <2>1. 0 \in Nat /\ 0 < WordLimit
    BY <1>3
  <2>. QED
    BY <1>4, <1>6, <2>1, ReadWord
<1>10. ASSUME NEW i \in 1..n PROVE StringAt(stack, WordAt(stack, (sp + 8) + (i - 1) * 4)) = P[i]
  <2>1. PICK b \in Nat, w \in Seq(Byte) :
          /\ b = A[i] /\ w = P[i] /\ b < StackTop
          /\ HoldsWord(stack, (sp + 8) + (i - 1) * 4, b) /\ Holds(stack, N, b, w)
    BY <1>5
  <2>2. (sp + 8) + (i - 1) * 4 \in Int
    OBVIOUS
  <2>3. b < WordLimit
    BY <1>3, <2>1
  <2>4. WordAt(stack, (sp + 8) + (i - 1) * 4) = b
    BY <2>1, <2>2, <2>3, ReadWord
  <2>5. StringAt(stack, b) = w
    BY <1>3, <1>4, <2>1, ReadBack
  <2>. QED
    BY <2>1, <2>4, <2>5
<1>11. argc = n
  BY <1>1, <1>7 DEF argc
<1>12. argv = [i \in 1..n |-> StringAt(stack, WordAt(stack, (sp + 8) + (i - 1) * 4))]
  BY <1>1, <1>8, <1>11 DEF argv, WordSize
<1>13. argv = P
  BY <1>10, <1>12
<1>. QED
  BY <1>1, <1>8, <1>9, <1>11, <1>13 DEF WordSize

-----------------------------------------------------------------------------
(* The invariant.                                                          *)

Steps == {"copy", "split", "name", "parse", "load", "arguments", "map", "main", "return", "wild"}

\* What each function finds where the one before it has left it.  Only a
\* command whose path fits can count on buffer once the path is written.
HandlerInv ==
  /\ line \in Seq(Byte) /\ pc \in Steps /\ Memory(frame, res)
  /\ pc = "split" => Holds(frame, res, buffer, Taken)
  /\ pc = "name" => /\ Holds(frame, res, buffer, Taken)
                    /\ Holds(frame, res, copy, Command) /\ tokens[1] = copy
  /\ pc = "parse" => Holds(frame, res, path, FullPath)
  /\ pc \in {"parse", "load", "arguments"} /\ PathFits => Holds(frame, res, buffer, Taken)

\* What becomes of the words.
WordsInv ==
  /\ pc # "main" => Memory(stack, StackTop - 1)
  /\ pc = "map" /\ PathFits => \E n, e : IsWords(parameters, n, Taken, Len(Taken), e)
  /\ pc = "main" /\ PathFits =>
       \E n, e : /\ IsWords(parameters, n, Taken, Len(Taken), e)
                 /\ Delivered(stack, esp, parameters, n)

StartInv == HandlerInv /\ WordsInv /\ ParsesPath /\ ShortCommandsAreSafe

\* What is said of the line stays as long as the line does.
LEMMA SameLine ==
  ASSUME line' = line
  PROVE  /\ Taken' = Taken /\ Command' = Command /\ FullPath' = FullPath
         /\ (PathFits' <=> PathFits) /\ (OnlySpaces' <=> OnlySpaces)
<1>1. Taken' = Taken
  BY DEF Taken
<1>2. Command' = Command
  BY <1>1 DEF Command
<1>. QED
  BY <1>1, <1>2 DEF FullPath, PathFits, OnlySpaces

\* str_token keeps to bytes.
LEMMA TokenMemory ==
  ASSUME NEW n \in Nat, NEW m, Memory(m, n), NEW a, NEW d
  PROVE  Memory(str_token(m, a, d).mem, n)
<1>1. DOMAIN m = 0..n /\ (\A i \in 0..n : m[i] \in Int) /\ NUL \in Int
  BY DEF Memory, NUL
<1>2. PICK R : R = a..(a + strlen(m, a))
  OBVIOUS
<1>3. str_token(m, a, d).mem = [i \in 0..n |-> IF i \in R /\ m[i] = d THEN NUL ELSE m[i]]
  BY <1>1, <1>2 DEF str_token
<1>. QED
  BY <1>1, <1>3 DEF Memory

\* At the beginning nothing is said but where the line is from.
LEMMA StartInit == Init => StartInv
<1>. SUFFICES ASSUME Init PROVE StartInv
  OBVIOUS
<1>1. line \in Seq(Byte) /\ pc = "copy" /\ root = NoRoot
  BY StartAssumption DEF Init
<1>2. Memory(frame, res)
  <2>1. copy = 0
    BY Sizes
  <2>2. frame = [i \in 0..res |-> Junk]
    BY <2>1 DEF Init
  <2>. QED
    BY <2>2 DEF Memory, Junk
<1>3. Memory(stack, StackTop - 1)
  BY DEF Init, Memory
<1>4. HandlerInv
  BY <1>1, <1>2 DEF HandlerInv, Steps
<1>5. WordsInv
  BY <1>1, <1>3 DEF WordsInv
<1>6. ParsesPath /\ ShortCommandsAreSafe
  BY <1>1 DEF ParsesPath, ShortCommandsAreSafe
<1>. QED
  BY <1>4, <1>5, <1>6 DEF StartInv

\* Every function leaves behind what the next one needs.
LEMMA StartNext == StartInv /\ [Next]_vars => StartInv'
<1>. SUFFICES ASSUME StartInv, [Next]_vars PROVE StartInv'
  OBVIOUS
<1>1. /\ line \in Seq(Byte) /\ pc \in Steps /\ Memory(frame, res)
      /\ ParsesPath /\ ShortCommandsAreSafe
  BY DEF StartInv, HandlerInv
<1>2. res \in Nat
  BY Sizes
<1>3. ASSUME line' = line, root' = root PROVE ParsesPath'
  BY <1>1, <1>3, SameLine DEF ParsesPath
<1>4. ASSUME line' = line, pc' # "wild" PROVE ShortCommandsAreSafe'
  BY <1>4 DEF ShortCommandsAreSafe
<1>5. ASSUME line' = line, line \in Seq(Byte)
      PROVE  /\ line' \in Seq(Byte) /\ Taken' = Taken /\ Command' = Command
             /\ FullPath' = FullPath
             /\ (PathFits' <=> PathFits) /\ (OnlySpaces' <=> OnlySpaces)
             /\ res' = res /\ buffer' = buffer /\ path' = path /\ copy' = copy
  BY <1>5, SameLine DEF res, buffer, path, copy
<1>6. CASE copy_string_from_task
  <2>1. line' = line /\ root' = root /\ stack' = stack /\ pc = "copy"
    BY <1>6 DEF copy_string_from_task
  <2>2. WordsInv'
    <3>1. Memory(stack, StackTop - 1)
      BY <2>1 DEF StartInv, WordsInv
    <3>2. pc' \in {"split", "wild"}
      BY <1>6 DEF copy_string_from_task
    <3>. QED
      BY <2>1, <3>1, <3>2 DEF WordsInv
  <2>3. CASE pc' = "split"
    <3>1. frame' = strncpy(strncpy(UserMemory, 1, [i \in 0..MaxPath |-> 0], 0, MaxPath),
                           0, frame, buffer, MaxPath)
      BY <1>6, <2>3 DEF copy_string_from_task
    <3>2. Memory(frame', res) /\ Holds(frame', res, buffer, Taken)
      BY <1>1, <3>1, LineArrives
    <3>3. HandlerInv'
      BY <1>1, <1>5, <2>1, <2>3, <3>2 DEF HandlerInv, Steps
    <3>4. ShortCommandsAreSafe'
      BY <1>4, <2>1, <2>3
    <3>. QED
      BY <1>3, <2>1, <2>2, <3>3, <3>4 DEF StartInv
  <2>4. CASE pc' = "wild"
    <3>1. frame' = frame /\ fault' = "memory"
      BY <1>6, <2>4 DEF copy_string_from_task
    <3>2. HandlerInv'
      BY <1>1, <1>5, <2>1, <2>4, <3>1 DEF HandlerInv, Steps
    <3>3. ShortCommandsAreSafe'
      BY <3>1 DEF ShortCommandsAreSafe
    <3>. QED
      BY <1>3, <2>1, <2>2, <3>2, <3>3 DEF StartInv
  <2>. QED
    BY <1>6, <2>3, <2>4 DEF copy_string_from_task
<1>7. CASE split
  <2>1. PICK new : new = str_token(strcpy(frame, StringAt(frame, buffer), copy), copy, Space)
    OBVIOUS
  <2>2. /\ line' = line /\ root' = root /\ stack' = stack /\ pc = "split"
        /\ frame' = new.mem /\ tokens' = new.tokens
        /\ pc' = IF Len(new.tokens) > MaxArguments THEN "wild" ELSE "name"
    BY <1>7, <2>1 DEF split
  <2>3. Holds(frame, res, buffer, Taken)
    BY <2>2 DEF StartInv, HandlerInv
  <2>4. /\ Memory(frame', res) /\ Holds(frame', res, buffer, Taken)
        /\ Holds(frame', res, copy, Command) /\ tokens'[1] = copy
        /\ Split(new.tokens, Taken, 0, Space, Len(Taken))
    BY <1>1, <2>1, <2>2, <2>3, SplitStep
  <2>5. HandlerInv'
    BY <1>1, <1>5, <2>2, <2>4 DEF HandlerInv, Steps
  <2>6. WordsInv'
    <3>1. Memory(stack, StackTop - 1)
      BY <2>2 DEF StartInv, WordsInv
    <3>. QED
      BY <2>2, <3>1 DEF WordsInv
  <2>7. ShortCommandsAreSafe'
    <3>1. pc' = "wild" => OnlySpaces
      BY <1>1, <2>2, <2>4, TooManyWords
    <3>. QED
      BY <1>1, <1>5, <2>2, <3>1 DEF ShortCommandsAreSafe
  <2>. QED
    BY <1>3, <2>2, <2>5, <2>6, <2>7 DEF StartInv
<1>8. CASE name
  <2>1. PICK joined, new : /\ joined = strcat(frame, Prefix, StringAt(frame, copy), path)
                           /\ new = strcat(joined, StringAt(joined, path), Suffix, path)
    OBVIOUS
  <2>2. line' = line /\ root' = root /\ stack' = stack /\ pc = "name"
    BY <1>8 DEF name
  <2>3. /\ Holds(frame, res, buffer, Taken)
        /\ Holds(frame, res, copy, Command) /\ tokens[1] = copy
    BY <2>2 DEF StartInv, HandlerInv
  <2>4. WordsInv'
    <3>1. Memory(stack, StackTop - 1)
      BY <2>2 DEF StartInv, WordsInv
    <3>2. pc' \in {"parse", "wild"}
      BY <1>8 DEF name
    <3>. QED
      BY <2>2, <3>1, <3>2 DEF WordsInv
  <2>5. CASE Terminated(Put(frame, path, Prefix), copy, path)
    <3>1. frame' = new /\ pc' = "parse"
      BY <1>8, <2>1, <2>3, <2>5 DEF name
    <3>2. Len(Command) < MaxPath
      BY <1>1, <2>3, <2>5, NameStops
    <3>3. /\ Memory(new, res) /\ Holds(new, res, path, FullPath)
          /\ PathFits /\ Holds(frame, res, buffer, Taken) => Holds(new, res, buffer, Taken)
      BY <1>1, <2>1, <2>3, <3>2, NameStep
    <3>4. HandlerInv'
      BY <1>1, <1>5, <2>2, <2>3, <3>1, <3>3 DEF HandlerInv, Steps
    <3>5. ShortCommandsAreSafe'
      BY <1>4, <2>2, <3>1
    <3>. QED
      BY <1>3, <2>2, <2>4, <3>4, <3>5 DEF StartInv
  <2>6. CASE ~Terminated(Put(frame, path, Prefix), copy, path)
    <3>1. frame' = frame /\ pc' = "wild"
      BY <1>8, <2>3, <2>6 DEF name
    <3>2. ~PathFits
      <4>1. ~(Len(Command) < MaxPath)
        BY <1>1, <2>3, <2>6, NameStops
      <4>2. Len(Command) \in Nat
        BY <1>1, FullPathIs
      <4>. QED
        BY <4>1, <4>2, Sizes DEF PathFits
    <3>3. HandlerInv'
      BY <1>1, <1>5, <2>2, <3>1 DEF HandlerInv, Steps
    <3>4. ShortCommandsAreSafe'
      BY <1>1, <1>5, <2>2, <3>2 DEF ShortCommandsAreSafe
    <3>. QED
      BY <1>3, <2>2, <2>4, <3>3, <3>4 DEF StartInv
  <2>. QED
    BY <2>5, <2>6
<1>9. CASE parse_path
  <2>1. line' = line /\ frame' = frame /\ stack' = stack /\ pc = "parse"
    BY <1>9 DEF parse_path
  <2>2. /\ Holds(frame, res, path, FullPath)
        /\ PathFits => Holds(frame, res, buffer, Taken)
    BY <2>1 DEF StartInv, HandlerInv
  <2>3. PICK p, below : p = Filename /\ below = SubSeq(p, 3, Len(p))
    OBVIOUS
  <2>4. /\ PathFits => path_is_valid_format(p)
        /\ atoi(p[1]) = 0
        /\ create_path(below) = Parts(SubSeq(FullPath, 3, Len(Prefix) + Len(Command) + Len(Suffix)))
        /\ Len(create_path(below)) <= get_path_depth(below)
    BY <1>1, <2>2, <2>3, ParseStep
  <2>5. WordsInv'
    <3>1. Memory(stack, StackTop - 1)
      BY <2>1 DEF StartInv, WordsInv
    <3>2. pc' \in {"load", "wild"}
      BY <1>9 DEF parse_path
    <3>. QED
      BY <2>1, <3>1, <3>2 DEF WordsInv
  <2>6. CASE path_is_valid_format(p)
    <3>1. PICK dn, nd, nm : dn = atoi(p[1]) /\ nd = get_path_depth(below) /\ nm = create_path(below)
      OBVIOUS
    <3>2. root' = [drive_number |-> dn, nodes |-> nd, names |-> nm] /\ pc' = "load"
      BY <1>9, <2>3, <2>6, <3>1 DEF parse_path
    <3>3. root'.drive_number = dn /\ root'.nodes = nd /\ root'.names = nm
      BY <3>2
    <3>4. HandlerInv'
      BY <1>1, <1>5, <2>1, <2>2, <3>2 DEF HandlerInv, Steps
    <3>5. ParsesPath'
      BY <1>1, <1>5, <2>1, <2>4, <3>1, <3>3 DEF ParsesPath, FullPath
    <3>6. ShortCommandsAreSafe'
      BY <1>4, <2>1, <3>2
    <3>. QED
      BY <2>5, <3>4, <3>5, <3>6 DEF StartInv
  <2>7. CASE ~path_is_valid_format(p)
    <3>1. root' = root /\ pc' = "wild"
      BY <1>9, <2>3, <2>7 DEF parse_path
    <3>2. HandlerInv'
      BY <1>1, <1>5, <2>1, <3>1 DEF HandlerInv, Steps
    <3>3. ShortCommandsAreSafe'
      BY <1>1, <1>5, <2>1, <2>4, <2>7 DEF ShortCommandsAreSafe
    <3>. QED
      BY <1>3, <2>1, <2>5, <3>1, <3>2, <3>3 DEF StartInv
  <2>. QED
    BY <2>6, <2>7
<1>10. CASE load_data
  <2>1. line' = line /\ root' = root /\ frame' = frame /\ stack' = stack /\ pc = "load"
    BY <1>10 DEF load_data
  <2>2. pc' \in {"arguments", "return", "wild"} /\ (pc' = "wild" => fault' # "none")
    BY <1>10 DEF load_data
  <2>3. PathFits => Holds(frame, res, buffer, Taken)
    BY <2>1 DEF StartInv, HandlerInv
  <2>4. HandlerInv'
    BY <1>1, <1>5, <2>1, <2>2, <2>3 DEF HandlerInv, Steps
  <2>5. WordsInv'
    <3>1. Memory(stack, StackTop - 1)
      BY <2>1 DEF StartInv, WordsInv
    <3>. QED
      BY <2>1, <2>2, <3>1 DEF WordsInv
  <2>6. ShortCommandsAreSafe'
    BY <2>2 DEF ShortCommandsAreSafe
  <2>. QED
    BY <1>3, <2>1, <2>4, <2>5, <2>6 DEF StartInv
<1>11. CASE process_init_arguments
  <2>1. PICK new : new = str_token(frame, buffer, Space)
    OBVIOUS
  <2>2. /\ line' = line /\ root' = root /\ stack' = stack /\ pc = "arguments" /\ pc' = "map"
        /\ frame' = new.mem
        /\ parameters' = [i \in DOMAIN new.tokens |-> StringAt(new.mem, new.tokens[i])]
    BY <1>11, <2>1 DEF process_init_arguments
  <2>3. Memory(frame', res)
    BY <1>1, <1>2, <2>1, <2>2, TokenMemory
  <2>4. HandlerInv'
    BY <1>1, <1>5, <2>2, <2>3 DEF HandlerInv, Steps
  <2>5. ASSUME PathFits PROVE \E n, e : IsWords(parameters', n, Taken, Len(Taken), e)
    <3>1. Holds(frame, res, buffer, Taken)
      BY <2>2, <2>5 DEF StartInv, HandlerInv
    <3>. QED
      BY <1>1, <2>1, <2>2, <3>1, ArgumentsStep
  <2>6. WordsInv'
    <3>1. Memory(stack, StackTop - 1)
      BY <2>2 DEF StartInv, WordsInv
    <3>. QED
      BY <1>1, <1>5, <2>2, <2>5, <3>1 DEF WordsInv
  <2>7. ShortCommandsAreSafe'
    BY <1>4, <2>2
  <2>. QED
    BY <1>3, <2>2, <2>4, <2>6, <2>7 DEF StartInv
<1>12. CASE process_map_args_to_stack
  <2>1. line' = line /\ root' = root /\ frame' = frame /\ parameters' = parameters
        /\ pc = "map" /\ pc' = "main"
    BY <1>12 DEF process_map_args_to_stack
  <2>2. HandlerInv'
    BY <1>1, <1>5, <2>1 DEF HandlerInv, Steps
  <2>3. ASSUME PathFits
        PROVE  \E n, e : /\ IsWords(parameters, n, Taken, Len(Taken), e)
                         /\ Delivered(stack', esp', parameters, n)
    <3>1. PICK n, e : IsWords(parameters, n, Taken, Len(Taken), e)
      BY <2>1, <2>3 DEF StartInv, WordsInv
    <3>2. PICK l \in Nat : l = Len(Taken) /\ l <= MaxPath
      BY <1>1, TakenIs
    <3>3. Memory(stack, StackTop - 1)
      BY <2>1 DEF StartInv, WordsInv
    <3>4. Len(parameters) = n
      BY <3>1 DEF IsWords
    <3>5. PICK a : a = Addresses(parameters)[n] - (n + 1) * 4
      OBVIOUS
    <3>6. PICK c1 : c1 = Put(WithStrings(parameters)[n], a - 4 - 4, Word(n))
      OBVIOUS
    <3>7. PICK c2 : c2 = Put(c1, a - 4, Word(a))
      OBVIOUS
    <3>8. PICK c3 : c3 = WithPointers(c2, a, parameters)[n]
      OBVIOUS
    <3>9. PICK c4 : c4 = Put(c3, a + n * 4, Word(0))
      OBVIOUS
    <3>10. stack' = c4 /\ esp' = a - 4 - 4
      BY <1>12, <3>4, <3>5, <3>6, <3>7, <3>8, <3>9 DEF process_map_args_to_stack, memcpy, WordSize
    <3>11. Delivered(c4, a - 4 - 4, parameters, n)
      BY <3>1, <3>2, <3>3, <3>5, <3>6, <3>7, <3>8, <3>9, MapStep
    <3>. QED
      BY <3>1, <3>10, <3>11
  <2>4. WordsInv'
    <3>1. pc' # "map"
      BY <2>1
    <3>2. ASSUME PathFits
          PROVE  (\E n, e : /\ IsWords(parameters, n, Taken, Len(Taken), e)
                            /\ Delivered(stack, esp, parameters, n))'
      BY <1>1, <1>5, <2>1, <2>3, <3>2
    <3>. QED
      BY <1>1, <1>5, <2>1, <3>1, <3>2 DEF WordsInv
  <2>5. ShortCommandsAreSafe'
    BY <1>4, <2>1
  <2>. QED
    BY <1>3, <2>1, <2>2, <2>4, <2>5 DEF StartInv
<1>13. CASE Done \/ UNCHANGED vars
  <2>1. UNCHANGED vars
    BY <1>13 DEF Done
  <2>2. /\ line' = line /\ pc' = pc /\ frame' = frame /\ tokens' = tokens /\ root' = root
        /\ parameters' = parameters /\ stack' = stack /\ esp' = esp /\ fault' = fault
    BY <2>1 DEF vars
  <2>3. HandlerInv'
    BY <1>1, <1>5, <2>2 DEF HandlerInv, StartInv
  <2>4. WordsInv'
    BY <1>1, <1>5, <2>2 DEF WordsInv, StartInv
  <2>5. ShortCommandsAreSafe'
    BY <1>1, <1>5, <2>2 DEF ShortCommandsAreSafe
  <2>. QED
    BY <1>3, <2>2, <2>3, <2>4, <2>5 DEF StartInv
<1>. QED
  BY <1>6, <1>7, <1>8, <1>9, <1>10, <1>11, <1>12, <1>13 DEF Next

\* The invariant.
THEOREM StartInvariant == Spec => []StartInv
BY StartInit, StartNext, PTL DEF Spec

\* A line whose command leaves room for the path never makes the handler lose
\* control while the file and memory are there, unless it is nothing but
\* spaces, at least MaxPath of them; for every line, every size of the arrays
\* and whatever else the stack holds (isr80h/process.c:8-28, string.c:40-47).
THEOREM StartCommandSafe == Spec => []ShortCommandsAreSafe
<1>1. StartInv => ShortCommandsAreSafe
  BY DEF StartInv
<1>. QED
  BY <1>1, StartInvariant, PTL

\* The path that is looked up has exactly the nonempty parts of the command's
\* path, for which there are nodes enough (path.c:9-13, 28-95).
THEOREM StartParsesPath == Spec => []ParsesPath
<1>1. StartInv => ParsesPath
  BY DEF StartInv
<1>. QED
  BY <1>1, StartInvariant, PTL

\* main finds in argv the words of the line (process.c:63-107).
THEOREM StartArgvMatches == Spec => []ArgvMatches
<1>1. StartInv => ArgvMatches
  <2>. SUFFICES ASSUME StartInv, pc = "main", PathFits
                PROVE  /\ argc >= 1 /\ Joined(argv)[argc] = Taken
                       /\ \A i \in 1..argc : \A k \in DOMAIN argv[i] : argv[i][k] # Space
                       /\ WordAt(stack, WordAt(stack, esp + WordSize) + argc * WordSize) = 0
    BY DEF ArgvMatches
  <2>1. PICK n, e : /\ IsWords(parameters, n, Taken, Len(Taken), e)
                    /\ Delivered(stack, esp, parameters, n)
    BY DEF StartInv, WordsInv
  <2>2. PICK P : P = parameters
    OBVIOUS
  <2>3. PICK s \in Seq(Byte), l \in Nat : s = Taken /\ l = Len(s) /\ l <= MaxPath
    BY TakenIs DEF StartInv, HandlerInv
  <2>4. IsWords(P, n, s, Len(s), e)
    BY <2>1, <2>2, <2>3
  <2>5. n \in Nat /\ n >= 1 /\ n < WordLimit
    <3>1. n \in Nat /\ n >= 1 /\ n <= l + 1
      BY <2>3, <2>4 DEF IsWords
    <3>. QED
      BY <2>3, <3>1, StackIs, Sizes
  <2>6. P = [i \in 1..n |-> P[i]]
    <3>1. PICK W : W = Seq(Byte)
      OBVIOUS
    <3>2. P \in Seq(W) /\ Len(P) = n
      BY <2>4, <3>1 DEF IsWords
    <3>. QED
      BY <3>2, LenProperties
  <2>7. /\ argc = n /\ argv = P
        /\ WordAt(stack, WordAt(stack, esp + WordSize) + n * WordSize) = 0
    BY <2>1, <2>2, <2>5, <2>6, ArgvIs
  <2>8. Joined(P)[n] = s
    BY <2>4, JoinedWords
  <2>9. ASSUME NEW i \in 1..n, NEW k \in DOMAIN P[i] PROVE P[i][k] # Space
    <3>1. PICK W : W = Seq(Byte)
      OBVIOUS
    <3>2. P \in Seq(W) /\ i \in 1..Len(P)
      BY <2>4, <3>1 DEF IsWords
    <3>3. P[i] \in W
      BY <3>2, ElementOfSeq
    <3>4. DOMAIN P[i] = 1..Len(P[i])
      BY <3>1, <3>3, LenProperties
    <3>. QED
      BY <2>4, <3>4 DEF IsWords
  <2>. QED
    BY <2>3, <2>5, <2>7, <2>8, <2>9
<1>. QED
  BY <1>1, StartInvariant, PTL

-----------------------------------------------------------------------------
(* The numerals of itoa.                                                   *)

\* The table of powers is what its definition says.
LEMMA PowersAre ==
  ASSUME NEW b \in Nat \ {0}, NEW n \in Nat
  PROVE  /\ Powers(b, n) \in [0..n -> Nat \ {0}]
         /\ Powers(b, n)[0] = 1
         /\ \A k \in 1..n : Powers(b, n)[k] = b * Powers(b, n)[k - 1]
<1>. DEFINE V == Nat \ {0}
            F == [k \in 1..n |-> [v \in V |-> b * v]]
<1>1. F \in [1..n -> [V -> V]] /\ 1 \in V
  OBVIOUS
<1>. HIDE DEF F, V
<1>2. PICK g : Solves(g, n, V, 1, F)
  BY <1>1, Recursion
<1>3. /\ g \in [0..n -> V] /\ g[0] = 1
      /\ \A k \in 1..n : g[k] = F[k][g[k - 1]]
  BY <1>2 DEF Solves
<1>4. \A k \in 1..n : g[k] = b * g[k - 1]
  <2>. SUFFICES ASSUME NEW k \in 1..n PROVE g[k] = b * g[k - 1]
    OBVIOUS
  <2>1. k - 1 \in 0..n
    OBVIOUS
  <2>2. g[k - 1] \in V
    BY <1>3, <2>1
  <2>3. F[k][g[k - 1]] = b * g[k - 1]
    BY <2>2 DEF F
  <2>. QED
    BY <1>3, <2>3
<1>5. g = [k \in 0..n |-> IF k = 0 THEN 1 ELSE b * g[k - 1]]
  <2>1. ASSUME NEW k \in 0..n PROVE g[k] = IF k = 0 THEN 1 ELSE b * g[k - 1]
    <3>1. CASE k = 0
      BY <1>3, <3>1
    <3>2. CASE k # 0
      <4>1. k \in 1..n
        BY <3>2
      <4>. QED
        BY <1>4, <3>2, <4>1
    <3>. QED
      BY <3>1, <3>2
  <2>2. g = [k \in 0..n |-> g[k]]
    BY <1>3
  <2>. QED
    BY <2>1, <2>2
<1>. DEFINE P == Powers(b, n)
<1>6. P = [k \in 0..n |-> IF k = 0 THEN 1 ELSE b * P[k - 1]]
  BY <1>5 DEF Powers
<1>. HIDE DEF P
<1>7. P[0] = 1 /\ \A k \in 1..n : P[k] = b * P[k - 1]
  BY <1>6
<1>8. \A k \in 0..n : P[k] \in V
  <2>1. P[0] \in V
    BY <1>7 DEF V
  <2>2. \A k \in 1..n : P[k - 1] \in V => P[k] \in V
    BY <1>7 DEF V
  <2>. QED
    BY <2>1, <2>2, RecursionType
<1>9. P \in [0..n -> V]
  <2>1. P = [k \in 0..n |-> P[k]]
    BY <1>6
  <2>. QED
    BY <1>8, <2>1
<1>. QED
  BY <1>7, <1>9 DEF P, V

\* The sizes that itoa depends on.
LEMMA TextSizes ==
  /\ TextSize \in Nat /\ TextSize >= 3 /\ PrintSize \in Nat /\ TextSize - 1 <= PrintSize
  /\ IntLimit \in Nat /\ IntLimit <= Tens[TextSize - 2]
  /\ Ints \subseteq IntMin..(IntLimit - 1)
<1>1. Bits \in Nat \ {0} /\ Bits - 1 \in Nat /\ Bits - 1 \in 0..(Bits - 1) /\ 2 \in Nat \ {0}
  BY PrintfAssumption
<1>2. Powers(2, Bits - 1) \in [0..(Bits - 1) -> Nat \ {0}]
  BY <1>1, PowersAre
<1>3. IntLimit \in Nat
  BY <1>1, <1>2 DEF IntLimit
<1>. QED
  BY <1>3, PrintfAssumption

\* The powers of ten.
LEMMA TensAre ==
  /\ \A k \in 0..TextSize : Tens[k] \in Nat \ {0}
  /\ Tens[0] = 1
  /\ \A k \in 1..TextSize : Tens[k] = 10 * Tens[k - 1]
<1>1. TextSize \in Nat /\ 10 \in Nat \ {0}
  BY TextSizes
<1>. QED
  BY <1>1, PowersAre DEF Tens

\* They ascend.
LEMMA TensAscend ==
  ASSUME NEW i \in 0..TextSize, NEW j \in i..TextSize
  PROVE  Tens[i] <= Tens[j]
<1>. DEFINE S == {d \in 0..(TextSize - i) : Tens[i] <= Tens[i + d]}
<1>1. TextSize \in Nat /\ TextSize - i \in Nat
  BY TextSizes
<1>2. 0 \in S
  <2>1. i + 0 = i /\ Tens[i] <= Tens[i]
    BY TensAre
  <2>. QED
    BY <1>1, <2>1
<1>3. ASSUME NEW d \in 0..(TextSize - i - 1), d \in S PROVE d + 1 \in S
  <2>1. i + d \in 0..TextSize /\ i + (d + 1) \in 1..TextSize /\ (i + (d + 1)) - 1 = i + d
        /\ d + 1 \in 0..(TextSize - i)
    BY <1>1
  <2>2. PICK x \in Nat, y \in Nat, z \in Nat :
          x = Tens[i] /\ y = Tens[i + d] /\ z = Tens[i + (d + 1)] /\ z = 10 * y
    BY <2>1, TensAre
  <2>3. x <= y
    BY <1>3, <2>2
  <2>4. x <= z
    BY <2>2, <2>3
  <2>5. Tens[i] <= Tens[i + (d + 1)]
    BY <2>2, <2>4
  <2>. QED
    BY <2>1, <2>5
<1>. HIDE DEF S
<1>4. 0..(TextSize - i) \subseteq S
  BY <1>1, <1>2, <1>3, UpTo
<1>5. j - i \in 0..(TextSize - i) /\ i + (j - i) = j
  BY <1>1
<1>6. j - i \in S
  BY <1>4, <1>5
<1>. QED
  BY <1>5, <1>6 DEF S

\* A quotient and a remainder are those of the division.
LEMMA Division ==
  ASSUME NEW d \in Nat \ {0}, NEW m \in Nat
  PROVE  \E q \in Nat, r \in 0..(d - 1) : q = m \div d /\ r = m % d /\ m = d * q + r
<1>1. PICK q \in Int, r \in 0..(d - 1) : q = m \div d /\ r = m % d
  OBVIOUS
<1>2. m = d * q + r
  BY <1>1
<1>3. q >= 0
  <2>. SUFFICES ASSUME q <= -1 PROVE FALSE
    OBVIOUS
  <2>1. d * q <= d * (-1)
    OBVIOUS
  <2>. QED
    BY <1>2, <2>1
<1>4. q \in Nat
  BY <1>3
<1>. QED
  BY <1>1, <1>2, <1>4, Zenon

\* There is one such quotient.
LEMMA DivisionIs ==
  ASSUME NEW d \in Nat \ {0}, NEW q \in Nat, NEW r \in 0..(d - 1), NEW m, m = d * q + r
  PROVE  m \div d = q
<1>1. m \in Nat
  OBVIOUS
<1>2. PICK x \in Nat, y \in 0..(d - 1) : x = m \div d /\ m = d * x + y
  BY <1>1, Division
<1>3. ~(x < q)
  <2>. SUFFICES ASSUME x + 1 <= q PROVE FALSE
    OBVIOUS
  <2>1. d * (x + 1) <= d * q /\ d * (x + 1) = d * x + d
    OBVIOUS
  <2>. QED
    BY <1>2, <2>1
<1>4. ~(q < x)
  <2>. SUFFICES ASSUME q + 1 <= x PROVE FALSE
    OBVIOUS
  <2>1. d * (q + 1) <= d * x /\ d * (q + 1) = d * q + d
    OBVIOUS
  <2>. QED
    BY <1>2, <2>1
<1>. QED
  BY <1>2, <1>3, <1>4

\* Dividing twice divides by the product.
LEMMA DivideTwice ==
  ASSUME NEW d \in Nat \ {0}, NEW m \in Nat
  PROVE  (m \div d) \div 10 = m \div (10 * d)
<1>1. PICK q \in Nat, r \in 0..(d - 1) : q = m \div d /\ m = d * q + r
  BY Division
<1>2. PICK s \in Nat, t \in 0..9 : s = q \div 10 /\ q = 10 * s + t
  BY Division
<1>3. m = (10 * d) * s + (d * t + r)
  <2>1. d * (10 * s + t) = (10 * d) * s + d * t
    OBVIOUS
  <2>2. d * q = (10 * d) * s + d * t
    BY <1>2, <2>1
  <2>3. PICK x \in Nat, y \in Nat : x = (10 * d) * s /\ y = d * t
    OBVIOUS
  <2>4. m = x + (y + r)
    BY <1>1, <2>2, <2>3
  <2>. QED
    BY <2>3, <2>4
<1>4. d * t + r \in 0..(10 * d - 1)
  <2>1. d * t <= d * 9 /\ d * t \in Nat
    OBVIOUS
  <2>. QED
    BY <2>1
<1>5. 10 * d \in Nat \ {0}
  OBVIOUS
<1>6. m \div (10 * d) = s
  BY <1>3, <1>4, <1>5, DivisionIs
<1>. QED
  BY <1>1, <1>2, <1>6

\* A quotient is 0 if and only if the divisor is larger.
LEMMA QuotientZero ==
  ASSUME NEW d \in Nat \ {0}, NEW m \in Nat
  PROVE  m \div d = 0 <=> m < d
<1>1. PICK q \in Nat, r \in 0..(d - 1) : q = m \div d /\ m = d * q + r
  BY Division
<1>2. ASSUME q = 0 PROVE m < d
  <2>1. d * q = 0
    BY <1>2
  <2>. QED
    BY <1>1, <2>1
<1>3. ASSUME m < d PROVE q = 0
  <2>1. m \in 0..(d - 1) /\ m = d * 0 + m /\ 0 \in Nat
    BY <1>3
  <2>. QED
    BY <1>1, <2>1, DivisionIs
<1>. QED
  BY <1>1, <1>2, <1>3

\* What a turn of itoa's loop does with a number that is not negative.
LEMMA OneTurn ==
  ASSUME NEW x \in Nat
  PROVE  Quotient(x) = x \div 10 /\ Remainder(x) = x % 10
<1>1. Quotient(x) = x \div 10
  BY DEF Quotient
<1>2. PICK q \in Nat, r \in 0..9 : q = x \div 10 /\ r = x % 10 /\ x = 10 * q + r
  BY Division
<1>3. Remainder(x) = x - 10 * q
  BY <1>1, <1>2 DEF Remainder
<1>. QED
  BY <1>1, <1>2, <1>3

\* After k turns num has lost its last k digits.
LEMMA LeftIs ==
  ASSUME NEW m \in Nat
  PROVE  \A k \in 0..TextSize : Left(m)[k] = m \div Tens[k]
<1>. DEFINE g == [k \in 0..TextSize |-> m \div Tens[k]]
<1>1. TextSize \in Nat
  BY TextSizes
<1>2. \A k \in 0..TextSize : g[k] \in Nat
  <2>. SUFFICES ASSUME NEW k \in 0..TextSize PROVE g[k] \in Nat
    OBVIOUS
  <2>1. PICK d \in Nat \ {0} : d = Tens[k]
    BY TensAre
  <2>2. m \div d \in Nat
    BY Division
  <2>. QED
    BY <2>1, <2>2
<1>3. g[0] = m
  <2>1. m \div 1 = m
    OBVIOUS
  <2>. QED
    BY <1>1, <2>1, TensAre
<1>4. ASSUME NEW k \in 1..TextSize PROVE g[k] = Quotient(g[k - 1])
  <2>1. k \in 0..TextSize /\ k - 1 \in 0..TextSize
    BY <1>1
  <2>2. PICK d \in Nat \ {0} : d = Tens[k - 1] /\ Tens[k] = 10 * d
    BY <2>1, TensAre
  <2>3. g[k - 1] = m \div d /\ g[k] = m \div (10 * d)
    BY <2>1, <2>2
  <2>4. Quotient(g[k - 1]) = g[k - 1] \div 10
    BY <1>2, <2>1, OneTurn
  <2>. QED
    BY <2>3, <2>4, DivideTwice
<1>5. g = [k \in 0..TextSize |-> g[k]]
  OBVIOUS
<1>. HIDE DEF g
<1>6. g = [k \in 0..TextSize |-> IF k = 0 THEN m ELSE Quotient(g[k - 1])]
  <2>1. ASSUME NEW k \in 0..TextSize
        PROVE  g[k] = IF k = 0 THEN m ELSE Quotient(g[k - 1])
    <3>1. CASE k = 0
      BY <1>3, <3>1
    <3>2. CASE k # 0
      <4>1. k \in 1..TextSize
        BY <1>1, <3>2
      <4>. QED
        BY <1>4, <3>2, <4>1
    <3>. QED
      BY <3>1, <3>2
  <2>. QED
    BY <1>5, <2>1
<1>. DEFINE L == Left(m)
<1>7. L = [k \in 0..TextSize |-> IF k = 0 THEN m ELSE Quotient(L[k - 1])]
  BY <1>6 DEF Left
<1>. HIDE DEF L
<1>8. L[0] = m /\ \A k \in 1..TextSize : L[k] = Quotient(L[k - 1])
  BY <1>1, <1>7
<1>. DEFINE S == {k \in 0..TextSize : L[k] = g[k]}
<1>9. 0 \in S
  BY <1>1, <1>3, <1>8
<1>10. ASSUME NEW k \in 0..(TextSize - 1), k \in S PROVE k + 1 \in S
  <2>1. k + 1 \in 1..TextSize /\ (k + 1) - 1 = k /\ k + 1 \in 0..TextSize
    BY <1>1
  <2>2. L[k + 1] = Quotient(L[k]) /\ g[k + 1] = Quotient(g[k])
    BY <1>4, <1>8, <2>1
  <2>. QED
    BY <1>10, <2>1, <2>2
<1>. HIDE DEF S
<1>11. 0..TextSize \subseteq S
  BY <1>1, <1>9, <1>10, UpTo
<1>. QED
  BY <1>11 DEF S, L, g

\* m has T digits, the first of which is not 0.
HasDigits(m, T) ==
  /\ T \in 0..(TextSize - 2)
  /\ m < Tens[T]
  /\ \A k \in 0..(T - 1) : Tens[k] <= m

\* The loop ends when all digits are written.
LEMMA DigitsAre ==
  ASSUME NEW m \in Nat, m < Tens[TextSize - 2]
  PROVE  \E T : /\ HasDigits(m, T)
                /\ Digits(m) = [k \in 1..T |-> Zero + ((m \div Tens[T - k]) % 10)]
<1>1. TextSize \in Nat /\ TextSize >= 3
  BY TextSizes
<1>. DEFINE S == {k \in 0..TextSize : Left(m)[k] = 0}
<1>2. S \in SUBSET Nat /\ S \subseteq 0..TextSize
  BY <1>1
<1>3. \A k \in 0..TextSize : k \in S <=> m < Tens[k]
  <2>. SUFFICES ASSUME NEW k \in 0..TextSize PROVE k \in S <=> m < Tens[k]
    OBVIOUS
  <2>1. PICK d \in Nat \ {0} : d = Tens[k]
    BY TensAre
  <2>2. m \div d = 0 <=> m < d
    BY QuotientZero
  <2>3. k \in S <=> Left(m)[k] = 0
    OBVIOUS
  <2>4. Left(m)[k] = m \div d
    BY <2>1, LeftIs
  <2>. HIDE DEF S
  <2>. QED
    BY <2>1, <2>2, <2>3, <2>4
<1>4. TextSize - 2 \in S
  BY <1>1, <1>3
<1>5. PICK T : T = Min(S)
  OBVIOUS
<1>6. Digits(m) = [k \in 1..T |-> Zero + Remainder(Left(m)[T - k])]
  BY <1>5 DEF Digits
<1>. HIDE DEF S
<1>7. T \in S /\ \A y \in S : T <= y
  BY <1>2, <1>4, <1>5, MinOfSet
<1>8. T \in 0..(TextSize - 2)
  BY <1>1, <1>2, <1>4, <1>7
<1>9. HasDigits(m, T)
  <2>1. m < Tens[T]
    BY <1>2, <1>3, <1>7
  <2>2. ASSUME NEW k \in 0..(T - 1) PROVE Tens[k] <= m
    <3>1. k \in 0..TextSize /\ ~(T <= k)
      BY <1>1, <1>8
    <3>2. k \notin S
      BY <1>7, <3>1
    <3>3. PICK d \in Nat : d = Tens[k]
      BY <3>1, TensAre
    <3>4. ~(m < d)
      BY <1>3, <3>1, <3>2, <3>3
    <3>5. d <= m
      BY <3>4
    <3>. QED
      BY <3>3, <3>5
  <2>. QED
    BY <1>8, <2>1, <2>2 DEF HasDigits
<1>10. ASSUME NEW k \in 1..T
       PROVE  Remainder(Left(m)[T - k]) = (m \div Tens[T - k]) % 10
  <2>1. T - k \in 0..TextSize
    BY <1>1, <1>8
  <2>2. PICK d \in Nat \ {0} : d = Tens[T - k]
    BY <2>1, TensAre
  <2>3. m \div d \in Nat
    BY Division
  <2>4. Left(m)[T - k] = m \div d
    BY <2>1, <2>2, LeftIs
  <2>. QED
    BY <2>2, <2>3, <2>4, OneTurn
<1>11. [k \in 1..T |-> Zero + Remainder(Left(m)[T - k])] =
         [k \in 1..T |-> Zero + ((m \div Tens[T - k]) % 10)]
  BY <1>10
<1>. QED
  BY <1>6, <1>9, <1>11

\* The length of the numeral is what the property takes it to be; 0 has a
\* digit, too.
LEMMA LengthIs ==
  ASSUME NEW n \in Int, NEW m \in Nat, m = Abs(n), NEW T, HasDigits(m, T)
  PROVE  Length(n) = IF T = 0 THEN 1 ELSE T
<1>1. TextSize \in Nat /\ TextSize >= 3
  BY TextSizes
<1>2. T \in 0..(TextSize - 2) /\ m < Tens[T] /\ \A k \in 0..(T - 1) : Tens[k] <= m
  BY DEF HasDigits
<1>3. PICK D : D = IF T = 0 THEN 1 ELSE T
  OBVIOUS
<1>4. D \in 1..TextSize /\ D \in Nat /\ T <= D
  BY <1>1, <1>2, <1>3
<1>. DEFINE Fits(l) == m < Tens[l] /\ (l = 1 \/ m >= Tens[l - 1])
<1>5. Fits(D)
  <2>1. m < Tens[D]
    <3>1. T \in 0..TextSize /\ D \in T..TextSize /\ D \in 0..TextSize
      BY <1>1, <1>2, <1>4
    <3>2. PICK x \in Nat, y \in Nat : x = Tens[T] /\ y = Tens[D]
      BY <3>1, TensAre
    <3>3. x <= y
      BY <3>1, <3>2, TensAscend
    <3>4. m < y
      BY <1>2, <3>2, <3>3
    <3>. QED
      BY <3>2, <3>4
  <2>2. ASSUME D # 1 PROVE m >= Tens[D - 1]
    <3>1. D = T /\ D - 1 \in 0..(T - 1) /\ D - 1 \in 0..TextSize
      BY <1>1, <1>2, <1>3, <2>2
    <3>2. PICK x \in Nat : x = Tens[D - 1]
      BY <3>1, TensAre
    <3>3. x <= m
      BY <1>2, <3>1, <3>2
    <3>4. m >= x
      BY <3>3
    <3>. QED
      BY <3>2, <3>4
  <2>. QED
    BY <2>1, <2>2
<1>6. ASSUME NEW l \in 1..TextSize, Fits(l) PROVE l = D
  <2>1. l \in Nat /\ l \in 0..TextSize /\ l - 1 \in 0..TextSize
    BY <1>1
  <2>2. PICK x \in Nat, y \in Nat : x = Tens[l] /\ y = Tens[l - 1]
    BY <2>1, TensAre
  <2>3. m < x /\ (l = 1 \/ y <= m)
    BY <1>6, <2>2
  <2>4. ~(l < T)
    <3>. SUFFICES ASSUME l < T PROVE FALSE
      OBVIOUS
    <3>1. l \in 0..(T - 1)
      BY <1>2
    <3>2. x <= m
      BY <1>2, <2>2, <3>1
    <3>. QED
      BY <2>3, <3>2
  <2>5. ~(D < l)
    <3>. SUFFICES ASSUME D < l PROVE FALSE
      OBVIOUS
    <3>1. l # 1 /\ T \in 0..TextSize /\ l - 1 \in T..TextSize
      BY <1>1, <1>2, <1>4
    <3>2. PICK z \in Nat : z = Tens[T]
      BY <3>1, TensAre
    <3>3. z <= y
      BY <2>2, <3>1, <3>2, TensAscend
    <3>4. m < z
      BY <1>2, <3>2
    <3>. QED
      BY <2>3, <3>1, <3>3, <3>4
  <2>. QED
    BY <1>2, <1>3, <2>1, <2>4, <2>5
<1>7. Length(n) = CHOOSE l \in 1..TextSize : Fits(l)
  BY DEF Length
<1>. HIDE DEF Fits
<1>8. Length(n) = D
  BY <1>4, <1>5, <1>6, <1>7
<1>. QED
  BY <1>3, <1>8

\* The digits that itoa writes, at least one, are those of the numeral.
LEMMA DigitsOf ==
  ASSUME NEW n \in Int, NEW m \in Nat, m = Abs(n), m < Tens[TextSize - 2]
  PROVE  LET written == IF Digits(m) = <<>> THEN <<Zero>> ELSE Digits(m) IN
         /\ Length(n) \in 1..(TextSize - 2)
         /\ written = [k \in 1..Length(n) |-> Zero + ((Abs(n) \div Tens[Length(n) - k]) % 10)]
<1>1. TextSize \in Nat /\ TextSize >= 3
  BY TextSizes
<1>2. PICK T : /\ HasDigits(m, T)
               /\ Digits(m) = [k \in 1..T |-> Zero + ((m \div Tens[T - k]) % 10)]
  BY DigitsAre
<1>3. PICK l : l = Length(n) /\ l = IF T = 0 THEN 1 ELSE T
  BY <1>2, LengthIs
<1>4. T \in 0..(TextSize - 2) /\ m < Tens[T]
  BY <1>2 DEF HasDigits
<1>5. l \in 1..(TextSize - 2)
  BY <1>1, <1>3, <1>4
<1>6. CASE T = 0
  <2>1. 1..0 = {} /\ Tens[0] = 1 /\ l = 1
    BY <1>3, <1>6, TensAre
  <2>2. Digits(m) = <<>> /\ m = 0
    BY <1>2, <1>4, <1>6, <2>1
  <2>3. ASSUME NEW k \in 1..1 PROVE Zero + ((m \div Tens[1 - k]) % 10) = Zero
    <3>1. k = 1 /\ 1 - k = 0 /\ (0 \div 1) % 10 = 0
      OBVIOUS
    <3>. QED
      BY <2>1, <2>2, <3>1 DEF Zero
  <2>4. <<Zero>> = [k \in 1..1 |-> Zero]
    BY DEF Zero
  <2>. QED
    BY <1>3, <1>5, <2>1, <2>2, <2>3, <2>4
<1>7. CASE T # 0
  <2>1. l = T /\ T \in Nat /\ 1 \in 1..T
    BY <1>3, <1>4, <1>7
  <2>2. DOMAIN Digits(m) = 1..T /\ DOMAIN <<>> = {}
    BY <1>2
  <2>3. Digits(m) # <<>>
    BY <2>1, <2>2
  <2>. QED
    BY <1>2, <1>3, <1>5, <2>1, <2>3
<1>. QED
  BY <1>6, <1>7

\* The int without its sign.
LEMMA Unsigned ==
  ASSUME NEW n \in Ints, n # IntMin
  PROVE  /\ n \in Int /\ Abs(n) \in Nat /\ Abs(n) < Tens[TextSize - 2]
         /\ (IF n < 0 THEN Negated(n) ELSE n) = Abs(n)
<1>1. PICK L \in Nat : L = IntLimit /\ IntMin = -L
  BY TextSizes DEF IntMin
<1>2. n \in (-L)..(L - 1) /\ n # -L
  BY <1>1, TextSizes
<1>3. n \in Int /\ Abs(n) \in Nat /\ Abs(n) < L /\ (IF n < 0 THEN Negated(n) ELSE n) = Abs(n)
  BY <1>1, <1>2 DEF Abs, Negated
<1>4. TextSize - 2 \in 0..TextSize
  BY TextSizes
<1>5. PICK t \in Nat : t = Tens[TextSize - 2]
  BY <1>4, TensAre
<1>6. L <= t
  BY <1>1, <1>5, TextSizes
<1>7. Abs(n) < t
  BY <1>3, <1>6
<1>. QED
  BY <1>3, <1>5, <1>7

\* itoa writes the decimal numeral, and it fits.
LEMMA NumeralIs ==
  ASSUME NEW n \in Ints, n # IntMin
  PROVE  /\ Numeral(n) = InDecimal(n)
         /\ Numeral(n) \in Seq(Byte)
         /\ Len(Numeral(n)) <= TextSize - 1
<1>. DEFINE digits == Digits(Abs(n))
            written == IF digits = <<>> THEN <<Zero>> ELSE digits
            figures == [k \in 1..Length(n) |-> Zero + ((Abs(n) \div Tens[Length(n) - k]) % 10)]
            sign == IF n < 0 THEN <<Minus>> ELSE <<>>
<1>1. /\ n \in Int /\ Abs(n) \in Nat /\ Abs(n) < Tens[TextSize - 2]
      /\ (IF n < 0 THEN Negated(n) ELSE n) = Abs(n)
  BY Unsigned
<1>2. Length(n) \in 1..(TextSize - 2) /\ written = figures
  BY <1>1, DigitsOf
<1>3. Numeral(n) = sign \o written
  BY <1>1 DEF Numeral
<1>4. InDecimal(n) = sign \o figures
  BY DEF InDecimal
<1>5. PICK l \in Nat, m \in Nat : l = Length(n) /\ m = Abs(n)
  BY <1>1, <1>2
<1>6. figures = [k \in 1..l |-> Zero + ((m \div Tens[l - k]) % 10)]
  BY <1>5
<1>7. figures \in Seq(Byte) /\ Len(figures) = l
  <2>1. ASSUME NEW k \in 1..l PROVE Zero + ((m \div Tens[l - k]) % 10) \in Byte
    <3>1. l - k \in 0..TextSize
      BY <1>2, <1>5, TextSizes
    <3>2. PICK d \in Nat \ {0} : d = Tens[l - k]
      BY <3>1, TensAre
    <3>3. PICK q \in Nat : q = m \div d
      BY Division
    <3>4. q % 10 \in 0..9
      OBVIOUS
    <3>5. 48 + (q % 10) \in 1..255
      BY <3>4
    <3>. QED
      BY <3>2, <3>3, <3>5 DEF Zero, Byte
  <2>. HIDE DEF figures
  <2>2. figures \in [1..l -> Byte]
    BY <1>6, <2>1
  <2>. QED
    BY <2>2
<1>8. sign \in Seq(Byte) /\ (Len(sign) = 0 \/ Len(sign) = 1)
  <2>1. 45 \in Byte
    BY DEF Byte
  <2>2. <<45>> \in Seq(Byte) /\ Len(<<45>>) = 1
    BY <2>1
  <2>3. <<>> \in Seq(Byte) /\ Len(<<>>) = 0
    OBVIOUS
  <2>4. sign = <<45>> \/ sign = <<>>
    BY DEF Minus
  <2>. HIDE DEF sign
  <2>. QED
    BY <2>2, <2>3, <2>4, Zenon
<1>. HIDE DEF sign, figures, written
<1>9. PICK s \in Nat : s = Len(sign) /\ s <= 1
  <2>1. 0 \in Nat /\ 0 <= 1 /\ 1 \in Nat /\ 1 <= 1
    OBVIOUS
  <2>. QED
    BY <1>8, <2>1, Zenon
<1>10. PICK c : c = sign \o figures
  OBVIOUS
<1>11. c \in Seq(Byte) /\ Len(c) = s + l
  <2>1. Composed(c, Byte, sign, s, figures, l)
    BY <1>7, <1>8, <1>9, <1>10, ConcatIs
  <2>. QED
    BY <2>1 DEF Composed
<1>12. Len(c) <= TextSize - 1
  BY <1>2, <1>5, <1>9, <1>11, TextSizes
<1>13. Numeral(n) = c /\ InDecimal(n) = c
  BY <1>2, <1>3, <1>4, <1>10
<1>. QED
  BY <1>11, <1>12, <1>13

\* A string that is stored before a NUL is held.
LEMMA WritesBefore ==
  ASSUME NEW n \in Nat, NEW m, Memory(m, n), NEW a \in Nat, NEW s \in Seq(Byte),
         a + Len(s) = n, m[n] = NUL
  PROVE  Memory(Put(m, a, s), n) /\ Holds(Put(m, a, s), n, a, s)
<1>1. a \in Int /\ s \in Seq(Int)
  BY StringBytes
<1>2. Memory(Put(m, a, s), n)
  BY <1>1, PutIs
<1>3. \A k \in 1..Len(s) : a + k - 1 \in 0..n => Put(m, a, s)[a + k - 1] = s[k]
  BY <1>1, PutIs
<1>4. \A i \in 0..n : i < a \/ a + Len(s) <= i => Put(m, a, s)[i] = m[i]
  BY <1>1, PutIs
<1>5. PICK l \in Nat : l = Len(s) /\ a + l = n
  BY LenProperties
<1>6. n \in 0..n /\ a + Len(s) <= n
  BY <1>5
<1>7. Put(m, a, s)[a + Len(s)] = NUL
  BY <1>4, <1>6
<1>8. \A k \in 1..l : a + k - 1 \in 0..n
  BY <1>5
<1>9. \A k \in 1..Len(s) : Put(m, a, s)[a + k - 1] = s[k]
  BY <1>3, <1>5, <1>8
<1>. QED
  BY <1>2, <1>6, <1>7, <1>9 DEF Holds

\* What is read where itoa points to is the numeral, whatever text held.
LEMMA ItoaIs ==
  ASSUME NEW n \in Ints, n # IntMin, Memory(text, TextSize - 1)
  PROVE  /\ Memory(itoa(n), TextSize - 1)
         /\ StringAt(itoa(n), TextSize - 1 - Len(Numeral(n))) = Numeral(n)
<1>1. PICK z \in Nat : z = TextSize - 1
  BY TextSizes
<1>2. PICK s \in Seq(Byte), l \in Nat : s = Numeral(n) /\ l = Len(s) /\ l <= z
  BY <1>1, NumeralIs, LenProperties
<1>3. PICK a \in Nat : a = z - l /\ a + l = z
  BY <1>2
<1>4. PICK m : m = [text EXCEPT ![TextSize - 1] = NUL]
  OBVIOUS
<1>5. Memory(m, z) /\ m[z] = NUL
  BY <1>1, <1>4 DEF Memory, NUL
<1>6. PICK t : t = Put(m, a, s) /\ t = itoa(n)
  BY <1>1, <1>2, <1>3, <1>4 DEF itoa
<1>7. a + Len(s) = z
  BY <1>2, <1>3
<1>8. Memory(t, z) /\ Holds(t, z, a, s)
  BY <1>5, <1>6, <1>7, WritesBefore
<1>10. StringAt(t, a) = s
  BY <1>8, ReadBack
<1>11. a = TextSize - 1 - Len(Numeral(n))
  BY <1>1, <1>2, <1>3
<1>. QED
  BY <1>1, <1>2, <1>6, <1>8, <1>10, <1>11

-----------------------------------------------------------------------------
(* What a format means.                                                    *)

\* The reader of the format between two characters, with and without an open
\* percent sign, after u arguments and the text o.
Between(u, o) == [open |-> FALSE, used |-> u, text |-> o]
Behind(u, o) == [open |-> TRUE, used |-> u, text |-> o]

\* What the reader does with a character where no percent sign is open ...
LEMMA ReadsPlain ==
  ASSUME NEW u \in Nat, NEW o, NEW args, NEW c, c # Percent
  PROVE  Read(Between(u, o), c, args) = Between(u, Append(o, c))
BY DEF Read, Between

\* ... with the percent sign and what is behind it, if it takes an argument ...
LEMMA ReadsPercent ==
  ASSUME NEW u \in Nat, NEW o, NEW args
  PROVE  /\ Read(Between(u, o), Percent, args) = Behind(u, o)
         /\ Read(Behind(u, o), 100, args) = Between(u + 1, o \o InDecimal(args[u + 1][1]))
         /\ Read(Behind(u, o), 115, args) = Between(u + 1, o \o Cut(args[u + 1]))
         /\ Read(Behind(u, o), 99, args) = Between(u + 1, Append(o, args[u + 1][1]))
<1>1. Read(Between(u, o), Percent, args) = Behind(u, o)
  BY DEF Read, Between, Behind
<1>2. Read(Behind(u, o), 100, args) = Between(u + 1, o \o InDecimal(args[u + 1][1]))
  BY DEF Read, Between, Behind
<1>3. Read(Behind(u, o), 115, args) = Between(u + 1, o \o Cut(args[u + 1]))
  BY DEF Read, Between, Behind
<1>4. Read(Behind(u, o), 99, args) = Between(u + 1, Append(o, args[u + 1][1]))
  BY DEF Read, Between, Behind
<1>. QED
  BY <1>1, <1>2, <1>3, <1>4

\* ... or if it takes none.
LEMMA ReadsOther ==
  ASSUME NEW u \in Nat, NEW o, NEW args, NEW c, c \notin {100, 115, 99}
  PROVE  Read(Behind(u, o), c, args) = Between(u, Append(o, c))
BY DEF Read, Between, Behind

\* t is what the reader was after each of the first N characters of format.
Trace(t, N, format, args) ==
  t = [k \in 0..N |-> IF k = 0 THEN Unread ELSE Read(t[k - 1], format[k], args)]

\* It has used only arguments that there are.
Uses(t, N, args) == \A k \in 0..N : t[k].used \in 0..Len(args)

\* The first N characters of format and all arguments give the text o.
Printed(format, args, N, o) ==
  \E t : /\ Trace(t, N, format, args)
         /\ Uses(t, N, args)
         /\ t[N] = Between(Len(args), o)

\* A further argument changes nothing that was read without it ...
LEMMA ReadKept ==
  ASSUME NEW A, NEW args \in Seq(A), NEW x \in A, NEW s, NEW c,
         s.used \in 0..Len(args), Read(s, c, args).used \in 0..Len(args)
  PROVE  Read(s, c, Append(args, x)) = Read(s, c, args)
<1>1. PICK l \in Nat : l = Len(args)
  BY LenProperties
<1>2. PICK u \in Nat : u = s.used
  BY <1>1
<1>3. CASE u + 1 <= l
  <2>1. u + 1 \in 1..Len(args)
    BY <1>1, <1>3
  <2>2. Append(args, x)[u + 1] = args[u + 1]
    BY <2>1, AppendProperties
  <2>. QED
    BY <1>2, <2>2 DEF Read
<1>4. CASE ~(u + 1 <= l)
  <2>1. Read(s, c, args).used # u + 1
    BY <1>1, <1>4
  <2>2. ~(s.open /\ c \in {100, 115, 99})
    BY <1>2, <2>1 DEF Read
  <2>. QED
    BY <2>2 DEF Read
<1>. QED
  BY <1>3, <1>4

\* ... so the trace remains one.
LEMMA TraceKept ==
  ASSUME NEW A, NEW args \in Seq(A), NEW x \in A, NEW N \in Nat, NEW format,
         NEW t, Trace(t, N, format, args), Uses(t, N, args)
  PROVE  Trace(t, N, format, Append(args, x)) /\ Uses(t, N, Append(args, x))
<1>1. Len(args) \in Nat /\ Len(Append(args, x)) = Len(args) + 1
  BY AppendProperties, LenProperties
<1>2. PICK b : b = Append(args, x)
  OBVIOUS
<1>3. Uses(t, N, b)
  BY <1>1, <1>2 DEF Uses
<1>4. ASSUME NEW k \in 0..N, k # 0
      PROVE  Read(t[k - 1], format[k], b) = Read(t[k - 1], format[k], args)
  <2>1. k - 1 \in 0..N
    BY <1>4
  <2>2. PICK s, c : s = t[k - 1] /\ c = format[k]
    OBVIOUS
  <2>3. t[k] = Read(s, c, args)
    BY <1>4, <2>2 DEF Trace
  <2>4. s.used \in 0..Len(args) /\ Read(s, c, args).used \in 0..Len(args)
    BY <2>1, <2>2, <2>3 DEF Uses
  <2>5. Read(s, c, b) = Read(s, c, args)
    BY <1>2, <2>4, ReadKept
  <2>. QED
    BY <2>2, <2>5
<1>5. Trace(t, N, format, b)
  BY <1>4 DEF Trace
<1>. QED
  BY <1>2, <1>3, <1>5

\* One character more.
LEMMA TraceGrows ==
  ASSUME NEW N \in Nat, NEW format, NEW args, NEW t, Trace(t, N, format, args), Uses(t, N, args),
         NEW s, s = Read(t[N], format[N + 1], args), s.used \in 0..Len(args)
  PROVE  \E g : /\ Trace(g, N + 1, format, args) /\ Uses(g, N + 1, args)
                /\ g[N + 1] = s
<1>. DEFINE g == [k \in 0..(N + 1) |-> IF k = N + 1 THEN s ELSE t[k]]
<1>1. g[N + 1] = s /\ \A k \in 0..N : g[k] = t[k] /\ k # N + 1
  OBVIOUS
<1>2. g = [k \in 0..(N + 1) |-> g[k]]
  OBVIOUS
<1>. HIDE DEF g
<1>3. Uses(g, N + 1, args)
  <2>. SUFFICES ASSUME NEW k \in 0..(N + 1) PROVE g[k].used \in 0..Len(args)
    BY DEF Uses
  <2>1. k = N + 1 \/ k \in 0..N
    OBVIOUS
  <2>. QED
    BY <1>1, <2>1 DEF Uses
<1>4. ASSUME NEW k \in 0..(N + 1)
      PROVE  g[k] = IF k = 0 THEN Unread ELSE Read(g[k - 1], format[k], args)
  <2>1. CASE k = N + 1
    <3>1. k # 0 /\ k - 1 = N /\ N \in 0..N
      BY <2>1
    <3>. QED
      BY <1>1, <2>1, <3>1
  <2>2. CASE k \in 0..N
    <3>1. t[k] = IF k = 0 THEN Unread ELSE Read(t[k - 1], format[k], args)
      BY <2>2 DEF Trace
    <3>2. CASE k = 0
      BY <1>1, <2>2, <3>1, <3>2
    <3>3. CASE k # 0
      <4>1. k - 1 \in 0..N
        BY <2>2, <3>3
      <4>. QED
        BY <1>1, <2>2, <3>1, <3>3, <4>1
    <3>. QED
      BY <3>2, <3>3
  <2>. QED
    BY <2>1, <2>2
<1>5. Trace(g, N + 1, format, args)
  BY <1>2, <1>4 DEF Trace
<1>. QED
  BY <1>1, <1>3, <1>5

\* A character that is no percent sign.
LEMMA PrintedPlain ==
  ASSUME NEW N \in Nat, NEW format, NEW args, Len(args) \in Nat, NEW o, Printed(format, args, N, o),
         NEW c, c = format[N + 1], c # Percent
  PROVE  Printed(format, args, N + 1, Append(o, c))
<1>1. PICK u \in Nat : u = Len(args)
  OBVIOUS
<1>2. PICK t : Trace(t, N, format, args) /\ Uses(t, N, args) /\ t[N] = Between(u, o)
  BY <1>1 DEF Printed
<1>3. PICK s : s = Between(u, Append(o, c))
  OBVIOUS
<1>4. s = Read(t[N], format[N + 1], args)
  <2>1. Read(Between(u, o), c, args) = Between(u, Append(o, c))
    BY ReadsPlain
  <2>. QED
    BY <1>2, <1>3, <2>1, Zenon
<1>5. s.used \in 0..Len(args)
  BY <1>1, <1>3 DEF Between
<1>6. PICK g : Trace(g, N + 1, format, args) /\ Uses(g, N + 1, args) /\ g[N + 1] = s
  BY <1>2, <1>4, <1>5, TraceGrows
<1>. QED
  BY <1>1, <1>3, <1>6 DEF Printed

\* A percent sign and the character behind it, for the arguments after it.
LEMMA PrintedConversion ==
  ASSUME NEW N \in Nat, NEW format, NEW args, NEW v \in Nat, v = Len(args), NEW u \in 0..v,
         NEW o, NEW r,
         NEW t, Trace(t, N, format, args), Uses(t, N, args), t[N] = Between(u, o),
         format[N + 1] = Percent,
         Read(Behind(u, o), format[N + 2], args) = Between(v, r)
  PROVE  Printed(format, args, N + 2, r)
<1>1. PICK s : s = Behind(u, o)
  OBVIOUS
<1>2. s = Read(t[N], format[N + 1], args)
  BY <1>1, ReadsPercent
<1>3. s.used \in 0..Len(args)
  BY <1>1 DEF Behind
<1>4. PICK g : Trace(g, N + 1, format, args) /\ Uses(g, N + 1, args) /\ g[N + 1] = s
  BY <1>2, <1>3, TraceGrows
<1>5. PICK M, z : M \in Nat /\ M = N + 1 /\ M + 1 = N + 2 /\ z = Between(v, r)
  OBVIOUS
<1>6. z = Read(g[M], format[M + 1], args)
  BY <1>1, <1>4, <1>5
<1>7. z.used \in 0..Len(args)
  BY <1>5 DEF Between
<1>8. PICK h : Trace(h, M + 1, format, args) /\ Uses(h, M + 1, args) /\ h[M + 1] = z
  BY <1>4, <1>5, <1>6, <1>7, TraceGrows
<1>. QED
  BY <1>5, <1>8 DEF Printed

\* One that takes no argument.
LEMMA PrintedOther ==
  ASSUME NEW N \in Nat, NEW format, NEW args, Len(args) \in Nat, NEW o, Printed(format, args, N, o),
         format[N + 1] = Percent, NEW c, c = format[N + 2], c \notin {100, 115, 99}
  PROVE  Printed(format, args, N + 2, Append(o, c))
<1>1. PICK u \in Nat : u = Len(args)
  OBVIOUS
<1>2. PICK t : Trace(t, N, format, args) /\ Uses(t, N, args) /\ t[N] = Between(u, o)
  BY <1>1 DEF Printed
<1>3. PICK r : r = Append(o, c)
  OBVIOUS
<1>4. Read(Behind(u, o), format[N + 2], args) = Between(u, r)
  <2>1. Read(Behind(u, o), c, args) = Between(u, Append(o, c))
    BY ReadsOther
  <2>. QED
    BY <1>3, <2>1, Zenon
<1>5. u \in 0..u
  OBVIOUS
<1>6. Printed(format, args, N + 2, r)
  BY <1>1, <1>2, <1>4, <1>5, PrintedConversion
<1>. QED
  BY <1>3, <1>6

\* One that takes the argument x and prints r.
LEMMA PrintedArgument ==
  ASSUME NEW A, NEW args \in Seq(A), NEW x \in A, NEW N \in Nat, NEW format, NEW o,
         Printed(format, args, N, o), format[N + 1] = Percent, NEW r, NEW u, u = Len(args),
         Read(Behind(u, o), format[N + 2], Append(args, x)) = Between(u + 1, r)
  PROVE  Printed(format, Append(args, x), N + 2, r)
<1>1. u \in Nat
  BY LenProperties
<1>2. PICK t : Trace(t, N, format, args) /\ Uses(t, N, args) /\ t[N] = Between(u, o)
  BY DEF Printed
<1>3. PICK b : b = Append(args, x)
  OBVIOUS
<1>4. Trace(t, N, format, b) /\ Uses(t, N, b)
  BY <1>2, <1>3, TraceKept
<1>5. Len(b) = u + 1
  BY <1>1, <1>3, AppendProperties
<1>6. Read(Behind(u, o), format[N + 2], b) = Between(u + 1, r)
  BY <1>3
<1>7. PICK v \in Nat : v = u + 1 /\ u \in 0..v
  BY <1>1
<1>8. Printed(format, b, N + 2, r)
  BY <1>2, <1>4, <1>5, <1>6, <1>7, PrintedConversion
<1>. QED
  BY <1>3, <1>8

\* At the end of the format the trace gives its meaning.
LEMMA MeaningIs ==
  ASSUME NEW format, NEW N \in Nat, N = Len(format), NEW args, NEW o, Printed(format, args, N, o)
  PROVE  Meaning(format, args).text = o /\ Meaning(format, args).used = Len(args)
<1>1. PICK t : Trace(t, N, format, args) /\ t[N] = Between(Len(args), o)
  BY DEF Printed
<1>2. PICK f : Trace(f, N, format, args) /\ Meaning(format, args) = f[N]
  <2>. DEFINE After[k \in 0..Len(format)] ==
                IF k = 0 THEN Unread ELSE Read(After[k - 1], format[k], args)
  <2>1. Meaning(format, args) = After[N]
    BY DEF Meaning
  <2>2. \E g : g = [k \in 0..Len(format) |->
                      IF k = 0 THEN Unread ELSE Read(g[k - 1], format[k], args)]
    BY <1>1 DEF Trace
  <2>3. After = [k \in 0..Len(format) |->
                   IF k = 0 THEN Unread ELSE Read(After[k - 1], format[k], args)]
    BY <2>2
  <2>. HIDE DEF After
  <2>4. Trace(After, N, format, args)
    BY <2>3 DEF Trace
  <2>. QED
    BY <2>1, <2>4
<1>. DEFINE S == {k \in 0..N : f[k] = t[k]}
<1>3. 0 \in S
  BY <1>1, <1>2 DEF Trace
<1>4. ASSUME NEW k \in 0..(N - 1), k \in S PROVE k + 1 \in S
  <2>1. k + 1 \in 0..N /\ k + 1 # 0 /\ (k + 1) - 1 = k
    OBVIOUS
  <2>2. /\ f[k + 1] = Read(f[k], format[k + 1], args)
        /\ t[k + 1] = Read(t[k], format[k + 1], args)
    BY <1>1, <1>2, <2>1 DEF Trace
  <2>. QED
    BY <1>4, <2>1, <2>2
<1>. HIDE DEF S
<1>5. 0..N \subseteq S
  BY <1>3, <1>4, UpTo
<1>6. f[N] = t[N]
  BY <1>5 DEF S
<1>. QED
  BY <1>1, <1>2, <1>6 DEF Between

-----------------------------------------------------------------------------
(* The invariant of printf.                                                *)

\* The least int was not printed.
NoLeast(args) == \A k \in DOMAIN args : args[k] # <<IntMin>>

\* What has been printed is the meaning of the format so far.
PrintfInv ==
  /\ fmt \in Formats /\ taken \in Seq(Seq(Int))
  /\ loop \in {"printf", "done", "wild"}
  /\ loop # "wild" => pos \in 1..(Len(fmt) + 1)
  /\ loop = "done" => pos = Len(fmt) + 1
  /\ loop = "wild" => fmt[Len(fmt)] = Percent
  /\ NoLeast(taken) => /\ Memory(text, TextSize - 1)
                       /\ loop # "wild" => Printed(fmt, taken, pos - 1, out)

\* The characters of the format, and its end.
LEMMA AtIs ==
  ASSUME fmt \in Formats, NEW k \in Nat \ {0}
  PROVE  /\ Len(fmt) \in Nat
         /\ At(k) # NUL => k <= Len(fmt) /\ fmt[k] = At(k)
         /\ At(k) = NUL => k > Len(fmt)
<1>1. fmt \in Seq(Byte)
  BY PrintfAssumption
<1>2. Len(fmt) \in Nat /\ \A j \in 1..Len(fmt) : fmt[j] # NUL
  BY <1>1, StringBytes
<1>3. CASE k <= Len(fmt)
  <2>1. k \in 1..Len(fmt) /\ At(k) = fmt[k]
    BY <1>2, <1>3 DEF At
  <2>. QED
    BY <1>2, <1>3, <2>1
<1>4. CASE ~(k <= Len(fmt))
  <2>1. At(k) = NUL
    BY <1>4 DEF At
  <2>. QED
    BY <1>2, <1>4, <2>1
<1>. QED
  BY <1>3, <1>4

\* Where the loop stands at a conversion.
LEMMA ConversionAt ==
  ASSUME PrintfInv, NEW c, c # NUL, Conversion(c)
  PROVE  /\ Len(fmt) \in Nat /\ pos - 1 \in Nat /\ pos \in Nat /\ pos + 1 <= Len(fmt)
         /\ fmt[(pos - 1) + 1] = Percent /\ fmt[(pos - 1) + 2] = c
         /\ pos' = pos + 2 /\ pos' - 1 = (pos - 1) + 2 /\ pos' \in 1..(Len(fmt) + 1)
         /\ fmt' = fmt /\ loop = "printf"
<1>1. /\ loop = "printf" /\ At(pos) = Percent /\ At(pos + 1) = c
      /\ pos' = pos + 2 /\ fmt' = fmt
  BY DEF Conversion
<1>2. fmt \in Formats /\ pos \in 1..(Len(fmt) + 1)
  BY <1>1 DEF PrintfInv
<1>3. Len(fmt) \in Nat
  <2>1. 1 \in Nat \ {0}
    OBVIOUS
  <2>. QED
    BY <1>2, <2>1, AtIs
<1>4. pos \in Nat \ {0} /\ pos + 1 \in Nat \ {0}
  BY <1>2, <1>3
<1>5. fmt[pos] = Percent
  <2>1. Percent # NUL
    BY DEF Percent, NUL
  <2>. QED
    BY <1>1, <1>2, <1>4, <2>1, AtIs
<1>6. pos + 1 <= Len(fmt) /\ fmt[pos + 1] = c
  BY <1>1, <1>2, <1>4, AtIs
<1>7. (pos - 1) + 1 = pos /\ (pos - 1) + 2 = pos + 1
  BY <1>4
<1>. QED
  BY <1>1, <1>3, <1>4, <1>5, <1>6, <1>7

\* An argument more.
LEMMA OneMore ==
  ASSUME NEW args \in Seq(Seq(Int)), NEW x \in Seq(Int)
  PROVE  /\ Append(args, x) \in Seq(Seq(Int))
         /\ NoLeast(Append(args, x)) => NoLeast(args) /\ x # <<IntMin>>
         /\ Len(args) \in Nat /\ Append(args, x)[Len(args) + 1] = x
<1>1. PICK b, l : b = Append(args, x) /\ l = Len(args) /\ l \in Nat
  BY LenProperties
<1>2. /\ b \in Seq(Seq(Int)) /\ Len(b) = l + 1 /\ b[l + 1] = x
      /\ \A k \in 1..l : b[k] = args[k]
  BY <1>1, AppendProperties
<1>3. DOMAIN b = 1..(l + 1) /\ DOMAIN args = 1..l
  BY <1>1, <1>2, LenProperties
<1>4. NoLeast(b) => NoLeast(args) /\ x # <<IntMin>>
  <2>. SUFFICES ASSUME NoLeast(b) PROVE NoLeast(args) /\ x # <<IntMin>>
    OBVIOUS
  <2>1. l + 1 \in 1..(l + 1) /\ \A k \in 1..l : k \in 1..(l + 1)
    BY <1>1
  <2>2. \A k \in 1..(l + 1) : b[k] # <<IntMin>>
    BY <1>3 DEF NoLeast
  <2>3. \A k \in 1..l : args[k] # <<IntMin>>
    BY <1>2, <2>1, <2>2
  <2>. QED
    BY <1>2, <1>3, <2>1, <2>2, <2>3 DEF NoLeast
<1>. QED
  BY <1>1, <1>2, <1>4

\* A conversion that takes the argument x keeps the invariant, if it prints
\* what it should and keeps itoa's text a text.
LEMMA ArgumentStep ==
  ASSUME PrintfInv, NEW c \in {100, 115, 99}, Conversion(c), NEW x \in Seq(Int),
         taken' = Append(taken, x), loop' = loop,
         NoLeast(taken) /\ x # <<IntMin>> =>
           /\ Memory(text, TextSize - 1) => Memory(text', TextSize - 1)
           /\ Read(Behind(Len(taken), out), c, taken') = Between(Len(taken) + 1, out')
  PROVE  PrintfInv'
<1>1. c # NUL
  BY DEF NUL
<1>2. /\ pos - 1 \in Nat /\ fmt[(pos - 1) + 1] = Percent /\ fmt[(pos - 1) + 2] = c
      /\ pos' - 1 = (pos - 1) + 2 /\ pos' \in 1..(Len(fmt) + 1)
      /\ fmt' = fmt /\ loop = "printf"
  BY <1>1, ConversionAt
<1>3. fmt \in Formats /\ taken \in Seq(Seq(Int))
  BY DEF PrintfInv
<1>4. /\ taken' \in Seq(Seq(Int)) /\ Len(taken) \in Nat
      /\ NoLeast(taken') => NoLeast(taken) /\ x # <<IntMin>>
  BY <1>3, OneMore
<1>5. ASSUME NoLeast(taken')
      PROVE  Memory(text', TextSize - 1) /\ Printed(fmt, taken', pos' - 1, out')
  <2>1. Memory(text, TextSize - 1) /\ Printed(fmt, taken, pos - 1, out)
    BY <1>2, <1>4, <1>5 DEF PrintfInv
  <2>2. /\ Memory(text', TextSize - 1)
        /\ Read(Behind(Len(taken), out), c, taken') = Between(Len(taken) + 1, out')
    BY <1>4, <1>5, <2>1
  <2>3. PICK N, r, o, u : N = pos - 1 /\ r = out' /\ o = out /\ u = Len(taken)
    BY Zenon
  <2>4. Printed(fmt, Append(taken, x), N + 2, r)
    <3>1. Printed(fmt, taken, N, o) /\ fmt[N + 1] = Percent
      BY <1>2, <2>1, <2>3
    <3>2. Read(Behind(u, o), fmt[N + 2], Append(taken, x)) = Between(u + 1, r)
      BY <1>2, <2>2, <2>3
    <3>. QED
      <4>1. N \in Nat /\ x \in Seq(Int) /\ taken \in Seq(Seq(Int)) /\ u = Len(taken)
        BY <1>2, <1>3, <2>3
      <4>. QED
        BY <3>1, <3>2, <4>1, PrintedArgument, Zenon
  <2>. QED
    BY <1>2, <2>2, <2>3, <2>4
<1>6. loop' = "printf"
  BY <1>2
<1>. QED
  BY <1>2, <1>3, <1>4, <1>5, <1>6 DEF PrintfInv

\* A string that the buffer of the print command holds is not cut.
LEMMA NotCut ==
  ASSUME NEW s \in Seq(Byte), Len(s) <= PrintSize
  PROVE  Cut(s) = s
<1>1. PICK l \in Nat : l = Len(s) /\ (l < PrintSize \/ l = PrintSize)
  BY LenProperties, TextSizes
<1>2. Cut(s) = SubSeq(s, 1, l)
  BY <1>1 DEF Cut
<1>3. SubSeq(s, 1, l) = [k \in 1..l |-> s[k]]
  BY <1>1
<1>4. s = [k \in 1..l |-> s[k]]
  BY <1>1, SeqDef
<1>. QED
  BY <1>2, <1>3, <1>4

\* %d keeps it.
LEMMA DecimalStep == ASSUME PrintfInv, NEW n \in Ints, Decimal(n) PROVE PrintfInv'
<1>1. /\ Conversion(100) /\ taken' = Append(taken, <<n>>) /\ text' = itoa(n) /\ loop' = loop
      /\ out' = out \o Cut(StringAt(text', TextSize - 1 - Len(Numeral(n))))
  BY DEF Decimal, print
<1>2. <<n>> \in Seq(Int) /\ taken \in Seq(Seq(Int)) /\ <<n>>[1] = n
  <2>1. n \in Int
    BY TextSizes DEF IntMin
  <2>. QED
    BY <2>1 DEF PrintfInv
<1>3. ASSUME <<n>> # <<IntMin>>, Memory(text, TextSize - 1)
      PROVE  Memory(text', TextSize - 1) /\ out' = out \o InDecimal(n)
  <2>1. n # IntMin
    BY <1>3
  <2>2. /\ Memory(text', TextSize - 1)
        /\ StringAt(text', TextSize - 1 - Len(Numeral(n))) = Numeral(n)
    BY <1>1, <1>3, <2>1, ItoaIs
  <2>3. Numeral(n) = InDecimal(n) /\ Numeral(n) \in Seq(Byte) /\ Len(Numeral(n)) <= TextSize - 1
    BY <2>1, NumeralIs
  <2>4. Len(Numeral(n)) <= PrintSize
    <3>1. Len(Numeral(n)) \in Nat
      BY <2>3, LenProperties
    <3>. QED
      BY <2>3, <3>1, TextSizes
  <2>5. Cut(Numeral(n)) = Numeral(n)
    BY <2>3, <2>4, NotCut
  <2>. QED
    BY <1>1, <2>2, <2>3, <2>5
<1>4. Len(taken) \in Nat /\ taken'[Len(taken) + 1] = <<n>>
  BY <1>1, <1>2, OneMore
<1>5. Read(Behind(Len(taken), out), 100, taken')
        = Between(Len(taken) + 1, out \o InDecimal(n))
  <2>1. Read(Behind(Len(taken), out), 100, taken')
          = Between(Len(taken) + 1, out \o InDecimal(taken'[Len(taken) + 1][1]))
    BY <1>4, ReadsPercent
  <2>. QED
    BY <1>2, <1>4, <2>1
<1>6. ASSUME NoLeast(taken), <<n>> # <<IntMin>>
      PROVE  /\ Memory(text, TextSize - 1) => Memory(text', TextSize - 1)
             /\ Read(Behind(Len(taken), out), 100, taken') = Between(Len(taken) + 1, out')
  <2>1. Memory(text, TextSize - 1)
    BY <1>6 DEF PrintfInv
  <2>. QED
    BY <1>3, <1>5, <1>6, <2>1
<1>. QED
  BY <1>1, <1>2, <1>6, ArgumentStep

\* %s keeps it.
LEMMA StringStep == ASSUME PrintfInv, NEW s \in Strings, String(s) PROVE PrintfInv'
<1>1. /\ Conversion(115) /\ taken' = Append(taken, s) /\ text' = text /\ loop' = loop
      /\ out' = out \o Cut(s)
  BY DEF String, print
<1>2. s \in Seq(Int) /\ taken \in Seq(Seq(Int))
  <2>1. s \in Seq(Byte)
    BY PrintfAssumption
  <2>. QED
    BY <2>1, StringBytes DEF PrintfInv
<1>3. Len(taken) \in Nat /\ taken'[Len(taken) + 1] = s
  BY <1>1, <1>2, OneMore
<1>4. Read(Behind(Len(taken), out), 115, taken') = Between(Len(taken) + 1, out')
  <2>1. Read(Behind(Len(taken), out), 115, taken')
          = Between(Len(taken) + 1, out \o Cut(taken'[Len(taken) + 1]))
    BY <1>3, ReadsPercent
  <2>. QED
    BY <1>1, <1>3, <2>1
<1>. QED
  BY <1>1, <1>2, <1>4, ArgumentStep

\* %c keeps it.
LEMMA CharacterStep == ASSUME PrintfInv, NEW c \in Chars, Character(c) PROVE PrintfInv'
<1>1. /\ Conversion(99) /\ taken' = Append(taken, <<c>>) /\ text' = text /\ loop' = loop
      /\ out' = Append(out, c)
  BY DEF Character, putchar
<1>2. <<c>> \in Seq(Int) /\ <<c>>[1] = c /\ taken \in Seq(Seq(Int))
  BY DEF Chars, PrintfInv
<1>3. Len(taken) \in Nat /\ taken'[Len(taken) + 1] = <<c>>
  BY <1>1, <1>2, OneMore
<1>4. Read(Behind(Len(taken), out), 99, taken') = Between(Len(taken) + 1, out')
  <2>1. Read(Behind(Len(taken), out), 99, taken')
          = Between(Len(taken) + 1, Append(out, taken'[Len(taken) + 1][1]))
    BY <1>3, ReadsPercent
  <2>. QED
    BY <1>1, <1>2, <1>3, <2>1
<1>. QED
  BY <1>1, <1>2, <1>4, ArgumentStep

\* A plain character keeps it.
LEMMA PlainStep == ASSUME PrintfInv, Plain PROVE PrintfInv'
<1>1. /\ loop = "printf" /\ At(pos) \notin {NUL, Percent} /\ out' = Append(out, At(pos))
      /\ pos' = pos + 1 /\ UNCHANGED <<loop, fmt, taken, text>>
  BY DEF Plain, putchar
<1>2. fmt \in Formats /\ pos \in 1..(Len(fmt) + 1) /\ taken \in Seq(Seq(Int))
  BY <1>1 DEF PrintfInv
<1>3. Len(fmt) \in Nat
  <2>1. 1 \in Nat \ {0}
    OBVIOUS
  <2>. QED
    BY <1>2, <2>1, AtIs
<1>4. pos \in Nat \ {0} /\ pos - 1 \in Nat /\ (pos - 1) + 1 = pos /\ pos' - 1 = (pos - 1) + 1
  BY <1>1, <1>2, <1>3
<1>5. pos <= Len(fmt) /\ fmt[pos] = At(pos)
  BY <1>1, <1>2, <1>4, AtIs
<1>6. pos' \in 1..(Len(fmt) + 1)
  BY <1>1, <1>3, <1>4, <1>5
<1>7. ASSUME NoLeast(taken) PROVE Printed(fmt, taken, pos' - 1, out')
  <2>1. Printed(fmt, taken, pos - 1, out) /\ Len(taken) \in Nat
    BY <1>1, <1>2, <1>7, LenProperties DEF PrintfInv
  <2>2. PICK N, c : N \in Nat /\ N = pos - 1 /\ c = At(pos)
    BY <1>4
  <2>3. c = fmt[N + 1] /\ c # Percent
    BY <1>1, <1>4, <1>5, <2>2
  <2>4. Printed(fmt, taken, N + 1, Append(out, c))
    BY <2>1, <2>2, <2>3, PrintedPlain
  <2>. QED
    BY <1>1, <1>4, <2>2, <2>4
<1>. QED
  BY <1>1, <1>2, <1>6, <1>7 DEF PrintfInv

\* A percent sign and any other character keep it; a format that ends with
\* the percent sign is left.
LEMMA OtherStep == ASSUME PrintfInv, Other PROVE PrintfInv'
<1>1. PICK c : c = At(pos + 1)
  OBVIOUS
<1>2. /\ Conversion(c) /\ c \notin {100, 115, 99} /\ out' = Append(out, c)
      /\ loop' = IF c = NUL THEN "wild" ELSE loop
      /\ UNCHANGED <<taken, text>>
  BY <1>1 DEF Other, putchar
<1>3. fmt \in Formats /\ taken \in Seq(Seq(Int)) /\ Len(taken) \in Nat
  BY LenProperties DEF PrintfInv
<1>4. CASE c = NUL
  <2>1. loop = "printf" /\ At(pos) = Percent /\ fmt' = fmt /\ loop' = "wild"
    BY <1>2, <1>4 DEF Conversion
  <2>2. pos \in 1..(Len(fmt) + 1)
    BY <2>1 DEF PrintfInv
  <2>3. Len(fmt) \in Nat
    <3>1. 1 \in Nat \ {0}
      OBVIOUS
    <3>. QED
      BY <1>3, <3>1, AtIs
  <2>4. pos \in Nat \ {0} /\ pos + 1 \in Nat \ {0}
    BY <2>2, <2>3
  <2>5. pos <= Len(fmt) /\ fmt[pos] = Percent
    <3>1. Percent # NUL
      BY DEF Percent, NUL
    <3>. QED
      BY <1>3, <2>1, <2>4, <3>1, AtIs
  <2>6. pos + 1 > Len(fmt)
    BY <1>1, <1>3, <1>4, <2>4, AtIs
  <2>7. pos = Len(fmt)
    BY <2>3, <2>4, <2>5, <2>6
  <2>8. fmt[Len(fmt)] = Percent
    BY <2>5, <2>7
  <2>. QED
    BY <1>2, <1>3, <2>1, <2>8 DEF PrintfInv
<1>5. CASE c # NUL
  <2>1. /\ pos - 1 \in Nat /\ fmt[(pos - 1) + 1] = Percent /\ fmt[(pos - 1) + 2] = c
        /\ pos' - 1 = (pos - 1) + 2 /\ pos' \in 1..(Len(fmt) + 1)
        /\ fmt' = fmt /\ loop = "printf"
    BY <1>2, <1>5, ConversionAt
  <2>2. loop' = "printf"
    BY <1>2, <1>5, <2>1
  <2>3. ASSUME NoLeast(taken) PROVE Printed(fmt, taken, pos' - 1, out')
    <3>1. Printed(fmt, taken, pos - 1, out)
      BY <2>1, <2>3 DEF PrintfInv
    <3>2. PICK N \in Nat : N = pos - 1
      BY <2>1
    <3>3. Printed(fmt, taken, N, out) /\ fmt[N + 1] = Percent /\ c = fmt[N + 2]
      BY <2>1, <3>1, <3>2
    <3>4. Printed(fmt, taken, N + 2, Append(out, c))
      BY <1>2, <1>3, <3>2, <3>3, PrintedOther
    <3>. QED
      BY <1>2, <2>1, <3>2, <3>4
  <2>. QED
    BY <1>2, <1>3, <2>1, <2>2, <2>3 DEF PrintfInv
<1>. QED
  BY <1>4, <1>5

\* Nothing has been read at first.
LEMMA PrintfInitially == PrintfInit => PrintfInv
<1>. SUFFICES ASSUME PrintfInit PROVE PrintfInv
  OBVIOUS
<1>1. /\ loop = "printf" /\ fmt \in Formats /\ pos = 1 /\ taken = <<>>
      /\ text = [k \in 0..(TextSize - 1) |-> NUL] /\ out = <<>>
  BY DEF PrintfInit
<1>2. taken \in Seq(Seq(Int)) /\ Len(taken) = 0
  BY <1>1
<1>3. pos \in 1..(Len(fmt) + 1) /\ pos - 1 = 0
  <2>1. 1 \in Nat \ {0}
    OBVIOUS
  <2>2. Len(fmt) \in Nat
    BY <1>1, <2>1, AtIs
  <2>. QED
    BY <1>1, <2>2
<1>4. Memory(text, TextSize - 1)
  BY <1>1 DEF Memory, NUL
<1>5. Printed(fmt, taken, 0, out)
  <2>1. PICK t : t = [k \in 0..0 |-> Unread]
    OBVIOUS
  <2>2. \A k \in 0..0 : k = 0 /\ t[k] = Unread
    BY <2>1
  <2>3. Trace(t, 0, fmt, taken)
    BY <2>1 DEF Trace
  <2>4. Unread = Between(0, <<>>) /\ Unread.used = 0 /\ 0 \in 0..0
    BY DEF Unread, Between
  <2>5. Uses(t, 0, taken)
    BY <1>2, <2>2, <2>4 DEF Uses
  <2>6. t[0] = Between(Len(taken), out)
    BY <1>1, <1>2, <2>2, <2>4
  <2>. QED
    BY <2>3, <2>5, <2>6 DEF Printed
<1>. QED
  BY <1>1, <1>2, <1>3, <1>4, <1>5 DEF PrintfInv

\* Every turn of printf's loop keeps the invariant.
LEMMA PrintfStep == PrintfInv /\ [PrintfNext]_printfVars => PrintfInv'
<1>. SUFFICES ASSUME PrintfInv, [PrintfNext]_printfVars PROVE PrintfInv'
  OBVIOUS
<1>1. CASE Return
  <2>1. /\ loop = "printf" /\ At(pos) = NUL /\ loop' = "done"
        /\ UNCHANGED <<fmt, pos, taken, text, out>>
    BY <1>1 DEF Return
  <2>2. fmt \in Formats /\ pos \in 1..(Len(fmt) + 1)
    BY <2>1 DEF PrintfInv
  <2>3. Len(fmt) \in Nat
    <3>1. 1 \in Nat \ {0}
      OBVIOUS
    <3>. QED
      BY <2>2, <3>1, AtIs
  <2>4. pos \in Nat \ {0}
    BY <2>2, <2>3
  <2>5. pos > Len(fmt)
    BY <2>1, <2>2, <2>4, AtIs
  <2>6. pos = Len(fmt) + 1
    BY <2>2, <2>3, <2>5
  <2>. QED
    BY <2>1, <2>6 DEF PrintfInv
<1>2. CASE Returned \/ UNCHANGED printfVars
  BY <1>2 DEF Returned, printfVars, PrintfInv
<1>. QED
  BY <1>1, <1>2, PlainStep, DecimalStep, StringStep, CharacterStep, OtherStep DEF PrintfNext

\* printf keeps its invariant for every set of formats, ints and strings and
\* every width of an int that has a place in itoa's text.
THEOREM PrintfInvariant == PrintfSpec => []PrintfInv
BY PrintfInitially, PrintfStep, PTL DEF PrintfSpec

\* What reaches the terminal is what the format and its arguments mean: for
\* every format that does not end with a percent sign and every argument but
\* the least int (stdio.c:24-61, stdlib.c:8-33).
THEOREM PrintfPrintsMeaning == PrintfSpec => []PrintsMeaning
<1>1. PrintfInv => PrintsMeaning
  <2>. SUFFICES ASSUME PrintfInv PROVE PrintsMeaning
    OBVIOUS
  <2>1. loop = "wild" => fmt[Len(fmt)] = Percent
    BY DEF PrintfInv
  <2>2. ASSUME loop = "done", NoLeast(taken)
        PROVE  Meaning(fmt, taken).text = out /\ Meaning(fmt, taken).used = Len(taken)
    <3>1. fmt \in Formats /\ pos = Len(fmt) + 1 /\ Printed(fmt, taken, pos - 1, out)
      BY <2>2 DEF PrintfInv
    <3>2. PICK N \in Nat : N = Len(fmt)
      <4>1. 1 \in Nat \ {0}
        OBVIOUS
      <4>. QED
        BY <3>1, <4>1, AtIs
    <3>3. pos - 1 = N
      BY <3>1, <3>2
    <3>. QED
      BY <3>1, <3>2, <3>3, MeaningIs
  <2>. QED
    BY <2>1, <2>2 DEF PrintsMeaning, NoLeast
<1>. QED
  BY <1>1, PrintfInvariant, PTL
=============================================================================
