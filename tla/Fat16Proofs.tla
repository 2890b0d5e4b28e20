---------------------------- MODULE Fat16Proofs -----------------------------
(***************************************************************************)
(* Proofs about open files, for every geometry of the disk, every disk,    *)
(* any number of descriptors and all paths.                                *)
(*                                                                         *)
(* The recursive functions of the code are recursive functions here.  That *)
(* such a function exists, and what it computes, is shown through the      *)
(* least argument at which it would be wrong.                              *)
(***************************************************************************)
EXTENDS Fat16, FiniteSetTheorems, SequenceTheorems, WellFoundedInduction, TLAPS

-----------------------------------------------------------------------------
(* Least and greatest elements.                                            *)

\* A non-empty set of naturals has a least element, and Min names it.
LEMMA MinOfSet ==
  ASSUME NEW S \in SUBSET Nat, S # {}
  PROVE  Min(S) \in S /\ \A y \in S : Min(S) <= y
<1>1. PICK x \in S : \A y \in S : ~(<<y, x>> \in OpToRel(<, Nat))
  BY NatLessThanWellFounded, WFMin
<1>2. \A y \in S : ~(y < x)
  BY <1>1 DEF OpToRel
<1>3. \A y \in S : x <= y
  BY <1>2
<1>. QED
  BY <1>3 DEF Min

\* A least element is the Min of its set.
LEMMA MinIs ==
  ASSUME NEW S \in SUBSET Nat, NEW m \in S, \A y \in S : m <= y
  PROVE  Min(S) = m
<1>1. Min(S) \in S /\ \A y \in S : Min(S) <= y
  BY MinOfSet
<1>2. Min(S) \in Nat /\ m \in Nat /\ Min(S) <= m /\ m <= Min(S)
  BY <1>1
<1>. QED
  BY <1>2

\* A greatest element is the Max of its set.
LEMMA MaxIs ==
  ASSUME NEW S \in SUBSET Nat, NEW m \in S, \A y \in S : y <= m
  PROVE  Max(S) = m
<1>1. \A y \in S : m >= y
  OBVIOUS
<1>2. Max(S) \in S /\ \A y \in S : Max(S) >= y
  BY <1>1 DEF Max
<1>3. Max(S) \in Nat /\ m \in Nat /\ Max(S) <= m /\ m <= Max(S)
  BY <1>1, <1>2
<1>. QED
  BY <1>3

\* The smaller of two naturals.
LEMMA MinOfTwo ==
  ASSUME NEW a \in Nat, NEW b \in Nat
  PROVE  /\ Min({a, b}) \in {a, b}
         /\ Min({a, b}) \in Nat
         /\ Min({a, b}) <= a /\ Min({a, b}) <= b
<1>1. {a, b} \in SUBSET Nat /\ {a, b} # {}
  OBVIOUS
<1>2. Min({a, b}) \in {a, b} /\ \A y \in {a, b} : Min({a, b}) <= y
  BY <1>1, MinOfSet
<1>. QED
  BY <1>2

\* Induction, for a set of naturals: what begins with 0 and goes on with the
\* next number has no first gap.
LEMMA SetInduction ==
  ASSUME NEW S, 0 \in S, \A n \in Nat : n \in S => n + 1 \in S
  PROVE  Nat \subseteq S
<1>1. SUFFICES ASSUME Nat \ S # {} PROVE FALSE
  OBVIOUS
<1>2. PICK m \in Nat \ S : \A y \in Nat \ S : m <= y
  BY <1>1, MinOfSet
<1>3. m # 0 /\ m - 1 \in Nat
  BY <1>2
<1>4. m - 1 \in S
  BY <1>2, <1>3
<1>5. (m - 1) + 1 \in S
  BY <1>3, <1>4
<1>. QED
  BY <1>2, <1>5

\* The same with all smaller numbers at hand.
LEMMA StrongInduction ==
  ASSUME NEW S, \A n \in Nat : (\A m \in 0..(n - 1) : m \in S) => n \in S
  PROVE  Nat \subseteq S
<1>1. SUFFICES ASSUME Nat \ S # {} PROVE FALSE
  OBVIOUS
<1>2. PICK m \in Nat \ S : \A y \in Nat \ S : m <= y
  BY <1>1, MinOfSet
<1>3. \A k \in 0..(m - 1) : k \in S
  BY <1>2
<1>. QED
  BY <1>2, <1>3

-----------------------------------------------------------------------------
(* disk_stream_read.                                                       *)

\* The recursion of disk_stream_read down from `total' bytes.
IsLeft(g, pos, total) ==
  g = [n \in 0..total |->
         LET k == Min({n, SectorSize}) IN
         IF n = 0 THEN <<>> ELSE ReadSector(pos + total - n, k) \o g[n - k]]

\* What the call with n bytes to go does, given the calls with fewer.
LeftStep(g, pos, total, n) ==
  LET k == Min({n, SectorSize}) IN
  IF n = 0 THEN <<>> ELSE ReadSector(pos + total - n, k) \o g[n - k]

\* A sector is not empty, so every call has fewer bytes to go.
LEMMA StepIsSmaller ==
  ASSUME NEW n \in Nat \ {0}
  PROVE  /\ Min({n, SectorSize}) \in 1..n
         /\ n - Min({n, SectorSize}) \in 0..(n - 1)
BY MinOfTwo, GeometryAssumption

\* The recursion ends: up to every m there is a function that satisfies it.
LEMMA LeftUpTo ==
  ASSUME NEW pos, NEW total \in Nat
  PROVE  \A m \in Nat : \E g : g = [n \in 0..m |-> LeftStep(g, pos, total, n)]
<1>. DEFINE S == {m \in Nat : \E g : g = [n \in 0..m |-> LeftStep(g, pos, total, n)]}
<1>1. 0 \in S
  <2>. DEFINE g == [n \in 0..0 |-> <<>>]
  <2>1. \A n \in 0..0 : LeftStep(g, pos, total, n) = <<>>
    BY DEF LeftStep
  <2>2. g = [n \in 0..0 |-> LeftStep(g, pos, total, n)]
    BY <2>1
  <2>. QED
    BY <2>2
<1>2. ASSUME NEW m \in Nat, m \in S PROVE m + 1 \in S
  <2>1. PICK g : g = [n \in 0..m |-> LeftStep(g, pos, total, n)]
    BY <1>2
  <2>. DEFINE h == [n \in 0..(m + 1) |->
                      IF n <= m THEN g[n] ELSE LeftStep(g, pos, total, m + 1)]
  <2>2. ASSUME NEW n \in 0..(m + 1)
        PROVE  LeftStep(h, pos, total, n) = LeftStep(g, pos, total, n)
    <3>1. CASE n = 0
      BY <3>1 DEF LeftStep
    <3>2. CASE n # 0
      <4>1. n - Min({n, SectorSize}) \in 0..(n - 1)
        BY <3>2, StepIsSmaller
      <4>2. n - Min({n, SectorSize}) \in 0..m
        BY <4>1
      <4>3. h[n - Min({n, SectorSize})] = g[n - Min({n, SectorSize})]
        BY <4>2
      <4>. HIDE DEF h
      <4>. QED
        BY <4>3 DEF LeftStep
    <3>. QED
      BY <3>1, <3>2
  <2>3. ASSUME NEW n \in 0..(m + 1) PROVE h[n] = LeftStep(g, pos, total, n)
    <3>1. CASE n <= m
      BY <3>1, <2>1
    <3>2. CASE n = m + 1
      BY <3>2
    <3>. QED
      BY <3>1, <3>2
  <2>4. h = [n \in 0..(m + 1) |-> LeftStep(h, pos, total, n)]
    <3>1. \A n \in 0..(m + 1) : h[n] = LeftStep(h, pos, total, n)
      BY <2>2, <2>3
    <3>2. h = [n \in 0..(m + 1) |-> h[n]]
      OBVIOUS
    <3>. HIDE DEF h
    <3>. QED
      BY <3>1, <3>2
  <2>. HIDE DEF h
  <2>. QED
    BY <2>4
<1>. HIDE DEF S
<1>3. Nat \subseteq S
  BY <1>1, <1>2, SetInduction
<1>. QED
  BY <1>3 DEF S

\* So disk_stream_read is what such a function gives for all the bytes.
LEMMA ReadUnfolds ==
  ASSUME NEW pos, NEW total \in Nat
  PROVE  \E g : /\ \A n \in 0..total : g[n] = LeftStep(g, pos, total, n)
                /\ disk_stream_read(pos, total) = g[total]
<1>1. disk_stream_read(pos, total) = (CHOOSE g : IsLeft(g, pos, total))[total]
  BY DEF disk_stream_read, IsLeft
<1>2. \E g : IsLeft(g, pos, total)
  <2>1. PICK g : g = [n \in 0..total |-> LeftStep(g, pos, total, n)]
    BY LeftUpTo
  <2>2. IsLeft(g, pos, total)
    BY <2>1 DEF IsLeft, LeftStep
  <2>. QED
    BY <2>2
<1>3. PICK g : IsLeft(g, pos, total) /\ disk_stream_read(pos, total) = g[total]
  BY <1>1, <1>2, Zenon
<1>4. g = [n \in 0..total |-> LeftStep(g, pos, total, n)]
  BY <1>3 DEF IsLeft, LeftStep
<1>5. \A n \in 0..total : g[n] = LeftStep(g, pos, total, n)
  BY <1>4
<1>. QED
  BY <1>3, <1>5

\* Whole sectors do not move the offset.
LEMMA OffsetShift ==
  ASSUME NEW c \in Int, NEW p \in Int
  PROVE  /\ Offset(SectorSize * c + p) = Offset(p)
         /\ Offset(p) \in 0..(SectorSize - 1)
<1>1. SectorSize \in Nat /\ SectorSize > 0
  BY GeometryAssumption
<1>2. PICK q \in Int, r \in 0..(SectorSize - 1) : q = p \div SectorSize /\ r = p % SectorSize
  BY <1>1
<1>3. p = SectorSize * q + r
  BY <1>1, <1>2
<1>4. SectorSize * c + p = SectorSize * (c + q) + r
  BY <1>1, <1>3
<1>5. c + q \in Int
  OBVIOUS
<1>6. (SectorSize * (c + q) + r) % SectorSize = r
  BY <1>1, <1>5
<1>. QED
  BY <1>2, <1>4, <1>6 DEF Offset

\* The call with n bytes to go has delivered what it should.
ReadsWell(s, pos, total, n) ==
  /\ s \in Seq(Int)
  /\ Len(s) = n
  /\ \A i \in 1..n :
       \/ s[i] = pos + total - n + i - 1
       \/ /\ s[i] = GARBAGE
          /\ Offset(pos) # 0 /\ Offset(pos) + total > SectorSize

\* One sector's worth of it: k bytes from position at on.
PieceWell(s, pos, at, total, k) ==
  /\ s \in Seq(Int)
  /\ Len(s) = k
  /\ \A i \in 1..k :
       \/ s[i] = at + i - 1
       \/ s[i] = GARBAGE /\ Offset(pos) # 0 /\ Offset(pos) + total > SectorSize

\* disk_stream_read_sector delivers it.
LEMMA SectorReadsWell ==
  ASSUME NEW pos \in Int, NEW at \in Int, NEW total \in Nat, NEW k \in 1..total,
         k <= SectorSize, Offset(at) = Offset(pos)
  PROVE  PieceWell(ReadSector(at, k), pos, at, total, k)
<1>1. SectorSize \in Nat /\ Offset(pos) \in Int
  <2>1. SectorSize \in Nat \ {0}
    BY GeometryAssumption
  <2>. QED
    BY <2>1 DEF Offset
<1>2. PICK s : s = ReadSector(at, k)
  OBVIOUS
<1>3. PICK f \in Int : f = Offset(pos)
  BY <1>1
<1>4. s = [i \in 1..k |-> IF f + i <= SectorSize THEN at + i - 1 ELSE -1]
  BY <1>2, <1>3 DEF ReadSector, GARBAGE
<1>5. s \in Seq(Int) /\ Len(s) = k
  BY <1>4
<1>6. ASSUME NEW i \in 1..k
      PROVE  s[i] = at + i - 1 \/ (s[i] = -1 /\ f # 0 /\ f + total > SectorSize)
  <2>1. CASE f + i <= SectorSize
    BY <1>4, <2>1
  <2>2. CASE ~(f + i <= SectorSize)
    <3>1. f # 0 /\ f + total > SectorSize
      BY <1>1, <2>2
    <3>. QED
      BY <1>4, <2>2, <3>1
  <2>. QED
    BY <2>1, <2>2
<1>. QED
  BY <1>2, <1>3, <1>5, <1>6 DEF PieceWell, GARBAGE

\* The recursion delivers the bytes in order, and bytes of the stack in
\* place of some only when a part of a sector is read across its end.
LEMMA StreamReads ==
  ASSUME NEW pos \in Int, NEW total \in Nat
  PROVE  ReadsWell(disk_stream_read(pos, total), pos, total, total)
<1>1. PICK g : /\ \A n \in 0..total : g[n] = LeftStep(g, pos, total, n)
               /\ disk_stream_read(pos, total) = g[total]
  BY ReadUnfolds
<1>. DEFINE Due(n) == n <= total /\ (n = 0 \/ Offset(pos + total - n) = Offset(pos))
            S == {n \in Nat : Due(n) => ReadsWell(g[n], pos, total, n)}
<1>2. ASSUME NEW n \in Nat, \A m \in 0..(n - 1) : m \in S
      PROVE  n \in S
  <2>. SUFFICES ASSUME Due(n) PROVE ReadsWell(g[n], pos, total, n)
    OBVIOUS
  <2>1. CASE n = 0
    <3>1. n \in 0..total /\ g[n] = LeftStep(g, pos, total, n)
      BY <1>1, <2>1
    <3>2. LeftStep(g, pos, total, n) = <<>>
      BY <2>1 DEF LeftStep
    <3>. QED
      <4>1. g[n] = <<>>
        BY <3>1, <3>2
      <4>2. <<>> \in Seq(Int) /\ Len(<<>>) = 0 /\ 1..0 = {}
        OBVIOUS
      <4>. QED
        BY <2>1, <4>1, <4>2, Zenon DEF ReadsWell
  <2>2. CASE n # 0
    <3>1. PICK k : k = Min({n, SectorSize})
      OBVIOUS
    <3>2. k \in 1..n /\ n - k \in 0..(n - 1)
      BY <2>2, <3>1, StepIsSmaller
    <3>3. k \in {n, SectorSize} /\ k <= SectorSize /\ SectorSize \in Nat
      BY <3>1, MinOfTwo, GeometryAssumption
    <3>4. n \in 1..total /\ Offset(pos + total - n) = Offset(pos)
      BY <2>2
    <3>5. PICK s : s = ReadSector(pos + total - n, k)
      OBVIOUS
    <3>6. /\ s \in Seq(Int) /\ Len(s) = k
          /\ \A i \in 1..k :
               \/ s[i] = pos + total - n + i - 1
               \/ s[i] = GARBAGE /\ Offset(pos) # 0 /\ Offset(pos) + total > SectorSize
      <4>1. PICK at \in Int : at = pos + total - n
        OBVIOUS
      <4>2. k \in 1..total /\ k <= SectorSize /\ Offset(at) = Offset(pos)
        BY <3>2, <3>3, <3>4, <4>1
      <4>3. PieceWell(s, pos, at, total, k)
        BY <3>5, <4>1, <4>2, SectorReadsWell
      <4>. QED
        BY <4>1, <4>3 DEF PieceWell
    <3>7. g[n] = s \o g[n - k]
      <4>1. n \in 0..total
        BY <3>4
      <4>2. g[n] = LeftStep(g, pos, total, n)
        BY <1>1, <4>1
      <4>3. LeftStep(g, pos, total, n) = s \o g[n - k]
        BY <2>2, <3>1, <3>5 DEF LeftStep
      <4>. QED
        BY <4>2, <4>3
    <3>8. Due(n - k)
      <4>1. CASE k = n
        BY <4>1, <3>2
      <4>2. CASE k = SectorSize
        <5>1. Offset(SectorSize * 1 + (pos + total - n)) = Offset(pos + total - n)
          BY OffsetShift, <3>4
        <5>2. SectorSize * 1 + (pos + total - n) = pos + total - (n - k)
          BY <4>2, <3>3, <3>4
        <5>. QED
          BY <5>1, <5>2, <3>2, <3>4
      <4>. QED
        BY <3>3, <4>1, <4>2
    <3>9. ReadsWell(g[n - k], pos, total, n - k)
      BY <1>2, <3>2, <3>8
    <3>10. PICK t : t = g[n - k]
      OBVIOUS
    <3>11. /\ t \in Seq(Int) /\ Len(t) = n - k
           /\ \A i \in 1..(n - k) :
                \/ t[i] = pos + total - (n - k) + i - 1
                \/ t[i] = GARBAGE /\ Offset(pos) # 0 /\ Offset(pos) + total > SectorSize
      BY <3>9, <3>10 DEF ReadsWell
    <3>12. s \o t \in Seq(Int) /\ Len(s \o t) = n
      <4>1. s \in Seq(Int) /\ Len(s) = k /\ t \in Seq(Int) /\ Len(t) = n - k
        BY <3>6, <3>11
      <4>2. k + (n - k) = n
        BY <3>2
      <4>. QED
        BY <4>1, <4>2, ConcatProperties
    <3>13. ASSUME NEW i \in 1..n
           PROVE  \/ (s \o t)[i] = pos + total - n + i - 1
                  \/ /\ (s \o t)[i] = GARBAGE
                     /\ Offset(pos) # 0 /\ Offset(pos) + total > SectorSize
      <4>1. CASE i <= k
        <5>1. (s \o t)[i] = s[i] /\ i \in 1..k
          BY <4>1, <3>2, <3>6, <3>11
        <5>. QED
          BY <5>1, <3>6
      <4>2. CASE i > k
        <5>1. (s \o t)[i] = t[i - k] /\ i - k \in 1..(n - k)
          <6>1. /\ s \in Seq(Int) /\ Len(s) = k
                /\ t \in Seq(Int) /\ Len(t) = n - k
            BY <3>6, <3>11
          <6>2. i \in 1..(Len(s) + Len(t)) /\ i - k \in 1..(n - k) /\ ~(i <= Len(s))
            BY <4>2, <3>2, <6>1
          <6>. QED
            BY <6>1, <6>2, ConcatProperties
        <5>2. pos + total - (n - k) + (i - k) - 1 = pos + total - n + i - 1
          BY <3>2
        <5>. QED
          BY <5>1, <5>2, <3>11
      <4>3. i <= k \/ i > k
        BY <3>2
      <4>. QED
        BY <4>1, <4>2, <4>3
    <3>. QED
      BY <3>7, <3>10, <3>12, <3>13 DEF ReadsWell
  <2>. QED
    BY <2>1, <2>2
<1>. HIDE DEF S
<1>3. Nat \subseteq S
  BY <1>2, StrongInduction
<1>4. Due(total)
  <2>1. pos + total - total = pos
    OBVIOUS
  <2>. QED
    BY <2>1
<1>. QED
  BY <1>1, <1>3, <1>4 DEF S

-----------------------------------------------------------------------------
(* read_entries, in the first cluster of a file.                           *)

\* Division below the divisor, and below twice the divisor.
LEMMA SmallDiv ==
  ASSUME NEW C \in Nat \ {0}, NEW x \in Nat
  PROVE  /\ x < C => x \div C = 0 /\ x % C = x
         /\ x < C + C => x \div C \in {0, 1}
<1>1. PICK q \in Int, r \in 0..(C - 1) : q = x \div C /\ r = x % C
  OBVIOUS
<1>2. x = C * q + r
  BY <1>1
<1>3. q >= 0
  BY <1>1
<1>4. x < C + C => ~(q >= 2)
  <2>. SUFFICES ASSUME q >= 2, x < C + C PROVE FALSE
    OBVIOUS
  <2>1. PICK d \in Nat : q = 2 + d
    BY <1>3
  <2>2. C * q = C + C + C * d /\ C * d >= 0
    BY <2>1
  <2>. QED
    BY <1>2, <2>2
<1>5. x < C => ~(q >= 1)
  <2>. SUFFICES ASSUME q >= 1, x < C PROVE FALSE
    OBVIOUS
  <2>1. PICK d \in Nat : q = 1 + d
    BY <1>3
  <2>2. C * q = C + C * d /\ C * d >= 0
    BY <2>1
  <2>. QED
    BY <1>2, <2>2
<1>6. x < C => q = 0
  BY <1>3, <1>5
<1>7. x < C => r = x
  BY <1>2, <1>6
<1>8. x < C + C => q \in {0, 1}
  BY <1>3, <1>4
<1>. QED
  BY <1>1, <1>6, <1>7, <1>8

\* A cluster holds at least one byte.
LEMMA ClusterSizeType == ClusterSize \in Nat \ {0}
BY GeometryAssumption DEF ClusterSize

\* What fits into a cluster is read by one level of the recursion.
LEMMA OneLevel ==
  ASSUME NEW size \in Nat, size <= ClusterSize
  PROVE  Levels(size) = 1
<1>1. PICK C \in Nat \ {0} : C = ClusterSize
  BY ClusterSizeType
<1>2. PICK x \in Nat : x = size + C - 1
  OBVIOUS
<1>3. x \div C \in {0, 1}
  BY <1>1, <1>2, SmallDiv
<1>4. PICK q \in {0, 1} : q = x \div C
  BY <1>3
<1>5. {1, q} \in SUBSET Nat /\ 1 \in {1, q} /\ \A y \in {1, q} : y <= 1
  OBVIOUS
<1>6. Max({1, q}) = 1
  BY <1>5, MaxIs
<1>. QED
  BY <1>1, <1>2, <1>4, <1>6 DEF Levels

\* The walk along the FAT.
WalkStep(g, cluster, k) ==
  IF k = 0 THEN cluster
  ELSE LET c == g[k - 1] IN
       CASE c = -EIO                  -> -EIO
         [] get_fat_entry(c) \in Stops -> -EIO
         [] OTHER                     -> get_fat_entry(c)

IsWalk(g, cluster, offset) ==
  g = [k \in 0..(offset \div ClusterSize) |->
         IF k = 0 THEN cluster
         ELSE LET c == g[k - 1] IN
              CASE c = -EIO                  -> -EIO
                [] get_fat_entry(c) \in Stops -> -EIO
                [] OTHER                     -> get_fat_entry(c)]

\* It does not leave the first cluster for a position in it.
LEMMA FirstCluster ==
  ASSUME NEW cluster, NEW offset \in Nat, offset < ClusterSize
  PROVE  get_cluster_for_offset(cluster, offset) = cluster
<1>1. offset \div ClusterSize = 0
  BY ClusterSizeType, SmallDiv
<1>2. get_cluster_for_offset(cluster, offset)
        = (CHOOSE g : IsWalk(g, cluster, offset))[offset \div ClusterSize]
  BY DEF get_cluster_for_offset, IsWalk
<1>3. \A g, k : k \in 0..0 => WalkStep(g, cluster, k) = cluster
  BY DEF WalkStep
<1>4. \A g : IsWalk(g, cluster, offset) <=> g = [k \in 0..0 |-> WalkStep(g, cluster, k)]
  BY <1>1 DEF IsWalk, WalkStep
<1>5. \A g : [k \in 0..0 |-> WalkStep(g, cluster, k)] = [k \in 0..0 |-> cluster]
  BY <1>3
<1>6. \A g : IsWalk(g, cluster, offset) <=> g = [k \in 0..0 |-> cluster]
  BY <1>4, <1>5
<1>7. PICK g : /\ IsWalk(g, cluster, offset)
               /\ get_cluster_for_offset(cluster, offset) = g[offset \div ClusterSize]
  BY <1>2, <1>6, Zenon
<1>8. g = [k \in 0..0 |-> cluster]
  BY <1>6, <1>7
<1>. QED
  BY <1>1, <1>7, <1>8

\* Where the file's first cluster begins on the disk.
Base(first) == (DataStart + (first - 2) * SectorsPerCluster) * SectorSize

\* So the stream is put where the file has the byte at that position.
LEMMA FirstStart ==
  ASSUME NEW cluster \in Nat, NEW offset \in Nat, offset < ClusterSize
  PROVE  /\ StartPos(cluster, offset) = Base(cluster) + offset
         /\ Base(cluster) \in Int
         /\ Offset(Base(cluster) + offset) = Offset(offset)
<1>1. get_cluster_for_offset(cluster, offset) = cluster /\ offset % ClusterSize = offset
  BY FirstCluster, SmallDiv, ClusterSizeType
<1>2. SectorSize \in Nat /\ SectorsPerCluster \in Nat /\ DataStart \in Nat
  BY GeometryAssumption
<1>3. PICK c \in Int : c = DataStart + (cluster - 2) * SectorsPerCluster
  BY <1>2
<1>4. Base(cluster) = SectorSize * c
  BY <1>2, <1>3 DEF Base
<1>5. Base(cluster) \in Int
  BY <1>2, <1>4
<1>6. Offset(SectorSize * c + offset) = Offset(offset)
  BY OffsetShift
<1>. QED
  BY <1>1, <1>4, <1>5, <1>6 DEF StartPos, cluster_to_sector, Base

\* The recursion of read_entries.
Before(pos, size) == [bytes |-> <<>>, left |-> size, pos |-> pos]

IsAfter(g, pos, cluster, offset, size) ==
  g = [k \in 0..Levels(size) |->
         IF k = 0 THEN [bytes |-> <<>>, left |-> size, pos |-> pos]
         ELSE ReadCluster(g[k - 1], cluster, offset + size)]

\* With one level it is one call of ReadCluster.
LEMMA ReadOnce ==
  ASSUME NEW pos, NEW cluster, NEW offset \in Nat, NEW size \in Nat, size <= ClusterSize
  PROVE  read_entries(pos, cluster, offset, size)
           = ReadCluster(Before(pos, size), cluster, offset + size)
<1>1. Levels(size) = 1
  BY OneLevel
<1>2. read_entries(pos, cluster, offset, size)
        = (CHOOSE g : IsAfter(g, pos, cluster, offset, size))[Levels(size)]
  BY DEF read_entries, IsAfter
<1>. DEFINE Step(x) == ReadCluster(x, cluster, offset + size)
            h == [k \in 0..1 |-> IF k = 0 THEN Before(pos, size) ELSE Step(Before(pos, size))]
<1>3. \A g : IsAfter(g, pos, cluster, offset, size)
              <=> g = [k \in 0..1 |-> IF k = 0 THEN Before(pos, size) ELSE Step(g[k - 1])]
  BY <1>1 DEF IsAfter, Before
<1>. HIDE DEF Step
<1>4. h = [k \in 0..1 |-> IF k = 0 THEN Before(pos, size) ELSE Step(h[k - 1])]
  <2>1. \A k \in 0..1 : k = 0 \/ (k = 1 /\ k - 1 = 0)
    OBVIOUS
  <2>2. h[0] = Before(pos, size)
    OBVIOUS
  <2>3. \A k \in 0..1 : (IF k = 0 THEN Before(pos, size) ELSE Step(h[k - 1]))
                          = (IF k = 0 THEN Before(pos, size) ELSE Step(Before(pos, size)))
    BY <2>1, <2>2
  <2>. QED
    BY <2>3
<1>5. IsAfter(h, pos, cluster, offset, size)
  BY <1>3, <1>4
<1>6. PICK g : /\ IsAfter(g, pos, cluster, offset, size)
               /\ read_entries(pos, cluster, offset, size) = g[Levels(size)]
  BY <1>2, <1>5, Zenon
<1>7. g = [k \in 0..1 |-> IF k = 0 THEN Before(pos, size) ELSE Step(g[k - 1])]
  BY <1>3, <1>6
<1>8. g[0] = Before(pos, size) /\ g[1] = Step(g[1 - 1]) /\ 1 - 1 = 0
  BY <1>7
<1>9. g[1] = Step(Before(pos, size))
  BY <1>8
<1>. QED
  BY <1>1, <1>6, <1>9 DEF Step

\* The bytes of a cluster from an offset on, or of the stack where the read
\* begins inside a sector and crosses its end.
FromCluster(b, cluster, offset, size) ==
  /\ Len(b) = size
  /\ \A i \in 1..size :
       \/ b[i] = Base(cluster) + offset + i - 1
       \/ b[i] = GARBAGE /\ Offset(offset) # 0 /\ Offset(offset) + size > SectorSize

\* A read in the first cluster, whatever the stream was used for before.
LEMMA FirstClusterRead ==
  ASSUME NEW pos, NEW cluster \in Nat, NEW offset \in Nat, NEW size \in Nat,
         offset + size <= ClusterSize,
         NEW b, b = read_entries(pos, cluster, offset, size).bytes
  PROVE  FromCluster(b, cluster, offset, size)
<1>1. PICK C \in Nat \ {0} : C = ClusterSize
  BY ClusterSizeType
<1>2. PICK at : at = StartPos(cluster, (offset + size) - size)
  OBVIOUS
<1>3. Min({size, C}) = size
  <2>1. {size, C} \in SUBSET Nat /\ size \in {size, C} /\ \A y \in {size, C} : size <= y
    BY <1>1
  <2>. QED
    BY <2>1, MinIs
<1>4. b = <<>> \o disk_stream_read(at, size)
  <2>1. size <= ClusterSize
    BY <1>1
  <2>2. b = ReadCluster(Before(pos, size), cluster, offset + size).bytes
    BY <2>1, ReadOnce
  <2>3. Before(pos, size).left = size /\ Before(pos, size).bytes = <<>>
    BY DEF Before
  <2>. QED
    BY <1>1, <1>2, <1>3, <2>2, <2>3 DEF ReadCluster, disk_stream_seek
<1>5. CASE size = 0
  <2>1. PICK g : /\ \A n \in 0..0 : g[n] = LeftStep(g, at, 0, n)
                 /\ disk_stream_read(at, 0) = g[0]
    BY ReadUnfolds
  <2>2. LeftStep(g, at, 0, 0) = <<>> /\ 0 \in 0..0
    BY DEF LeftStep
  <2>3. disk_stream_read(at, 0) = <<>>
    BY <2>1, <2>2
  <2>4. b = <<>> \o <<>> /\ 1..0 = {}
    BY <1>4, <1>5, <2>3
  <2>5. b = <<>> /\ Len(b) = 0
    BY <2>4
  <2>. QED
    BY <1>5, <2>4, <2>5 DEF FromCluster
<1>6. CASE size # 0
  <2>1. offset < ClusterSize /\ (offset + size) - size = offset
    BY <1>1, <1>6
  <2>2. at = Base(cluster) + offset /\ Base(cluster) \in Int /\ Offset(at) = Offset(offset)
    BY <1>2, <2>1, FirstStart
  <2>3. PICK p \in Int : p = at
    BY <2>2
  <2>4. PICK r : r = disk_stream_read(p, size)
    OBVIOUS
  <2>5. ReadsWell(r, p, size, size)
    BY <2>4, StreamReads
  <2>6. r \in Seq(Int) /\ Len(r) = size
    BY <2>5 DEF ReadsWell
  <2>7. b = r
    BY <1>4, <2>3, <2>4, <2>6, ConcatEmptySeq
  <2>8. \A i \in 1..size : p + size - size + i - 1 = p + i - 1
    BY <2>3
  <2>9. \A i \in 1..size :
              \/ b[i] = p + i - 1
              \/ /\ b[i] = GARBAGE
                 /\ Offset(p) # 0 /\ Offset(p) + size > SectorSize
    BY <2>5, <2>7, <2>8 DEF ReadsWell
  <2>. QED
    BY <2>2, <2>3, <2>6, <2>7, <2>9 DEF FromCluster
<1>. QED
  BY <1>5, <1>6

-----------------------------------------------------------------------------
(* Names.                                                                  *)

\* The beginning of a sequence.
LEMMA CutProperties ==
  ASSUME NEW s \in Seq(Int), NEW u \in 0..Len(s)
  PROVE  /\ SubSeq(s, 1, u) \in Seq(Int)
         /\ Len(SubSeq(s, 1, u)) = u
         /\ \A i \in 1..u : SubSeq(s, 1, u)[i] = s[i]
<1>1. Len(s) \in Nat /\ \A i \in 1..Len(s) : s[i] \in Int
  BY LenProperties, ElementOfSeq
<1>2. \A i \in 1..u : s[i] \in Int
  BY <1>1
<1>. QED
  BY <1>2, SubSeqProperties

\* rstrip ends where the first space is, or where the string ends.
LEMMA RstripIs ==
  ASSUME NEW s \in Seq(Int), NEW u \in 0..Len(s),
         \A i \in 1..u : s[i] # Space,
         u = Len(s) \/ s[u + 1] = Space
  PROVE  rstrip(s) = SubSeq(s, 1, u)
<1>1. PICK t : t = Append(s, Space)
  OBVIOUS
<1>2. /\ t \in Seq(Int) /\ Len(t) = Len(s) + 1 /\ Len(s) \in Nat
      /\ \A i \in 1..Len(s) : t[i] = s[i]
      /\ t[Len(s) + 1] = Space
  BY <1>1, AppendProperties, LenProperties DEF Space
<1>3. PICK I : I = {i \in 1..Len(t) : t[i] = Space}
  OBVIOUS
<1>4. t[u + 1] = Space /\ u + 1 \in 1..Len(t)
  <2>1. CASE u = Len(s)
    BY <1>2, <2>1
  <2>2. CASE u # Len(s)
    <3>1. u + 1 \in 1..Len(s)
      BY <1>2, <2>2
    <3>. QED
      BY <1>2, <2>2, <3>1
  <2>. QED
    BY <2>1, <2>2
<1>5. \A i \in 1..u : t[i] # Space
  <2>1. \A i \in 1..u : i \in 1..Len(s)
    BY <1>2
  <2>. QED
    BY <1>2, <2>1
<1>6. I \in SUBSET Nat /\ u + 1 \in I /\ \A y \in I : u + 1 <= y
  BY <1>2, <1>3, <1>4, <1>5
<1>7. Min(I) = u + 1 /\ I # {}
  BY <1>6, MinIs
<1>8. u + 1 - 1 = u
  OBVIOUS
<1>. QED
  <2>1. rstrip(s) = SubSeq(s, 1, (IF I # {} THEN Min(I) ELSE 0) - 1)
    BY <1>1, <1>3, Zenon DEF rstrip, SelectInSeq
  <2>. QED
    BY <1>7, <1>8, <2>1

\* UpToNul ends before the first NUL.
LEMMA UpToNulIs ==
  ASSUME NEW s \in Seq(Int), NEW u \in 0..(Len(s) - 1),
         \A i \in 1..u : s[i] # NUL, s[u + 1] = NUL
  PROVE  UpToNul(s) = SubSeq(s, 1, u)
<1>1. Len(s) \in Nat
  BY LenProperties
<1>2. PICK I : I = {i \in 1..Len(s) : s[i] = NUL}
  OBVIOUS
<1>3. I \in SUBSET Nat /\ u + 1 \in I /\ \A y \in I : u + 1 <= y
  BY <1>1, <1>2
<1>4. Min(I) = u + 1 /\ I # {}
  BY <1>3, MinIs
<1>5. u + 1 - 1 = u
  OBVIOUS
<1>. QED
  <2>1. UpToNul(s) = SubSeq(s, 1, (IF I # {} THEN Min(I) ELSE 0) - 1)
    BY <1>2, Zenon DEF UpToNul, SelectInSeq
  <2>. QED
    BY <1>4, <1>5, <2>1

\* A field without the spaces at its end.
LEMMA UnpaddedIs ==
  ASSUME NEW n \in Nat, NEW field \in [1..n -> Byte]
  PROVE  \E u \in 0..n : /\ Unpadded(field) = SubSeq(field, 1, u)
                         /\ \A i \in (u + 1)..n : field[i] = Space
<1>1. PICK used : used = {i \in DOMAIN field : field[i] # Space}
  OBVIOUS
<1>2. used \subseteq 1..n
  BY <1>1
<1>3. CASE used = {}
  <2>1. \A i \in (0 + 1)..n : field[i] = Space
    BY <1>1, <1>3
  <2>2. Unpadded(field) = SubSeq(field, 1, 0)
    BY <1>1, <1>3 DEF Unpadded
  <2>. QED
    BY <2>1, <2>2
<1>4. CASE used # {}
  <2>. DEFINE back == {d \in Nat : n - d \in used}
  <2>1. back \in SUBSET Nat /\ back # {}
    <3>1. PICK i \in used : TRUE
      BY <1>4
    <3>2. n - i \in Nat /\ n - (n - i) = i
      BY <1>2, <3>1
    <3>. QED
      BY <3>1, <3>2
  <2>. HIDE DEF back
  <2>2. PICK d \in back : \A y \in back : d <= y
    BY <2>1, MinOfSet
  <2>3. d \in Nat /\ n - d \in used
    BY <2>2 DEF back
  <2>4. ASSUME NEW i \in used PROVE i <= n - d
    <3>1. n - i \in back
      <4>1. n - i \in Nat /\ n - (n - i) = i
        BY <1>2, <2>4
      <4>. QED
        BY <4>1 DEF back
    <3>2. d <= n - i /\ i \in Int
      BY <2>2, <3>1, <1>2
    <3>. QED
      BY <3>2, <2>3
  <2>5. PICK u \in used : u = n - d
    BY <2>3
  <2>6. used \in SUBSET Nat /\ \A y \in used : y <= u
    BY <1>2, <2>4, <2>5
  <2>7. Max(used) = u
    BY <2>6, MaxIs
  <2>8. Unpadded(field) = SubSeq(field, 1, u)
    BY <1>1, <1>4, <2>7 DEF Unpadded
  <2>9. u \in 0..n /\ \A i \in (u + 1)..n : i \in 1..n /\ ~(i <= u)
    BY <1>2
  <2>10. \A i \in (u + 1)..n : field[i] = Space
    BY <1>1, <2>6, <2>9
  <2>. QED
    BY <2>8, <2>9, <2>10
<1>. QED
  BY <1>3, <1>4

\* A field is a string.
LEMMA FieldIsSeq ==
  ASSUME NEW n \in Nat, NEW field \in [1..n -> Byte]
  PROVE  /\ field \in Seq(Int) /\ Len(field) = n
         /\ \A i \in 1..n : field[i] \in Int /\ field[i] # NUL
<1>1. \A i \in 1..n : field[i] \in Byte
  OBVIOUS
<1>2. \A b \in Byte : b \in Int /\ b # NUL
  BY DEF Byte, NUL
<1>3. field = [i \in 1..n |-> field[i]] /\ \A i \in 1..n : field[i] \in Int
  BY <1>1, <1>2
<1>4. field \in [1..n -> Int]
  BY <1>3
<1>5. field \in Seq(Int) /\ Len(field) = n
  BY <1>4
<1>. QED
  BY <1>1, <1>2, <1>5

\* Two strings with the same characters.
LEMMA SameString ==
  ASSUME NEW s \in Seq(Int), NEW t \in Seq(Int), NEW n \in Nat,
         Len(s) = n, Len(t) = n, \A i \in 1..n : s[i] = t[i]
  PROVE  s = t
BY SeqEqual

\* z begins with the attribute a, and a NUL ends it.
TailOf(z, a) == /\ z \in Seq(Int) /\ Len(z) >= 2
                /\ z[1] = a /\ z[Len(z)] = NUL

\* So do the bytes of an entry from its attribute on.
LEMMA FromAttributeIs ==
  ASSUME NEW e \in Entry
  PROVE  TailOf(FromAttribute(e), e.attribute)
<1>1. PICK a, r : a = e.attribute /\ r = e.rest /\ a \in 0..255 /\ r \in Seq(Byte)
  BY DEF Entry
<1>2. PICK x : x = <<a>> /\ x \in Seq(Int) /\ Len(x) = 1 /\ x[1] = a
  <2>1. <<a>> \in Seq(Int) /\ Len(<<a>>) = 1 /\ <<a>>[1] = a
    BY <1>1
  <2>. QED
    BY <2>1, Zenon
<1>3. PICK y : y = <<NUL>> /\ y \in Seq(Int) /\ Len(y) = 1 /\ y[1] = NUL
  <2>1. PICK v \in Int : v = NUL
    BY DEF NUL
  <2>2. <<v>> \in Seq(Int) /\ Len(<<v>>) = 1 /\ <<v>>[1] = v
    OBVIOUS
  <2>. QED
    BY <2>1, <2>2, Zenon
<1>4. PICK m \in Nat : m = Len(r) /\ r \in Seq(Int)
  <2>1. Len(r) \in Nat /\ r \in [1..Len(r) -> Byte]
    BY <1>1, LenProperties
  <2>2. Byte \subseteq Int
    BY DEF Byte
  <2>3. r \in [1..Len(r) -> Int]
    BY <2>1, <2>2
  <2>4. r \in Seq(Int)
    BY <2>1, <2>3
  <2>. QED
    BY <2>1, <2>4
<1>5. PICK q : q = x \o r
  OBVIOUS
<1>6. Len(q) = 1 + m /\ q \in Seq(Int) /\ q[1] = a
  <2>1. /\ q \in Seq(Int) /\ Len(q) = Len(x) + Len(r)
        /\ \A i \in 1..(Len(x) + Len(r)) : q[i] = IF i <= Len(x) THEN x[i] ELSE r[i - Len(x)]
    BY <1>2, <1>4, <1>5, ConcatProperties
  <2>2. 1 \in 1..(Len(x) + Len(r)) /\ 1 <= Len(x)
    BY <1>2, <1>4
  <2>. QED
    BY <1>2, <1>4, <2>1, <2>2
<1>7. PICK z : z = q \o y
  OBVIOUS
<1>8. Len(z) = m + 2 /\ z \in Seq(Int) /\ z[1] = a /\ z[m + 2] = NUL
  <2>1. /\ z \in Seq(Int) /\ Len(z) = Len(q) + Len(y)
        /\ \A i \in 1..(Len(q) + Len(y)) : z[i] = IF i <= Len(q) THEN q[i] ELSE y[i - Len(q)]
    BY <1>3, <1>6, <1>7, ConcatProperties
  <2>2. \A i \in 1..(m + 2) : z[i] = IF i <= m + 1 THEN q[i] ELSE y[i - (m + 1)]
    BY <1>3, <1>6, <2>1
  <2>3. /\ 1 \in 1..(m + 2) /\ 1 <= m + 1
        /\ m + 2 \in 1..(m + 2) /\ ~(m + 2 <= m + 1) /\ (m + 2) - (m + 1) = 1
    OBVIOUS
  <2>. QED
    BY <1>3, <1>6, <2>1, <2>2, <2>3
<1>. QED
  BY <1>1, <1>2, <1>3, <1>5, <1>7, <1>8 DEF TailOf, FromAttribute

\* s is n bytes long, and none is NUL.
FieldsOf(s, n) == s \in Seq(Int) /\ Len(s) = n /\ \A i \in 1..n : s[i] # NUL

\* w is s, or goes on with the attribute a if that is not 0.
Continued(w, s, n, a) ==
  /\ w \in Seq(Int)
  /\ \A i \in 1..n : w[i] = s[i]
  /\ a = 0 => Len(w) = n
  /\ a # 0 => Len(w) >= n + 1 /\ w[n + 1] = a

\* A string of fields that runs on into the attribute ends before it, if it
\* is 0, or behind it.
LEMMA RunsOn ==
  ASSUME NEW s, NEW n \in Nat, FieldsOf(s, n), NEW a, NEW z, TailOf(z, a),
         NEW w, w = UpToNul(s \o z)
  PROVE  Continued(w, s, n, a)
<1>. s \in Seq(Int) /\ Len(s) = n /\ \A i \in 1..n : s[i] # NUL
  BY DEF FieldsOf
<1>0. PICK m \in Nat : z \in Seq(Int) /\ Len(z) = m /\ m >= 2 /\ z[1] = a /\ z[m] = NUL
  <2>1. z \in Seq(Int) /\ Len(z) \in Nat /\ Len(z) >= 2 /\ z[1] = a /\ z[Len(z)] = NUL
    BY LenProperties DEF TailOf
  <2>. QED
    BY <2>1
<1>1. PICK b : b = s \o z /\ w = UpToNul(b)
  OBVIOUS
<1>2. /\ b \in Seq(Int) /\ Len(b) = n + m
      /\ \A i \in 1..(n + m) : b[i] = IF i <= n THEN s[i] ELSE z[i - n]
  <2>1. /\ b \in Seq(Int) /\ Len(b) = Len(s) + Len(z)
        /\ \A i \in 1..(Len(s) + Len(z)) : b[i] = IF i <= Len(s) THEN s[i] ELSE z[i - Len(s)]
    BY <1>0, <1>1, ConcatProperties
  <2>2. Len(s) = n /\ Len(z) = m
    BY <1>0
  <2>. QED
    BY <2>1, <2>2
<1>3. \A i \in 1..n : b[i] = s[i]
  BY <1>2
<1>4. \A j \in 1..m : b[n + j] = z[j]
  <2>1. \A j \in 1..m : n + j \in 1..(n + m) /\ ~(n + j <= n) /\ (n + j) - n = j
    OBVIOUS
  <2>. QED
    BY <1>2, <2>1
<1>5. PICK Z : Z = {j \in 1..m : z[j] = NUL}
  OBVIOUS
<1>6. PICK J \in Z : \A y \in Z : J <= y
  <2>1. Z \in SUBSET Nat /\ m \in Z
    BY <1>0, <1>5
  <2>. QED
    BY <2>1, MinOfSet
<1>7. J \in 1..m /\ z[J] = NUL /\ \A j \in 1..(J - 1) : z[j] # NUL
  <2>1. J \in 1..m /\ z[J] = NUL
    BY <1>5, <1>6
  <2>2. ASSUME NEW j \in 1..(J - 1) PROVE z[j] # NUL
    <3>1. j \in 1..m /\ ~(J <= j)
      BY <2>1
    <3>. QED
      BY <1>5, <1>6, <3>1
  <2>. QED
    BY <2>1, <2>2
<1>8. PICK u \in Nat : u = n + J - 1
  BY <1>7
<1>9. \A i \in 1..u : b[i] # NUL
  <2>1. ASSUME NEW i \in 1..u PROVE b[i] # NUL
    <3>1. CASE i \in 1..n
      BY <1>3, <3>1
    <3>2. CASE i > n
      <4>1. PICK j \in 1..(J - 1) : i = n + j
        <5>1. i - n \in 1..(J - 1) /\ i = n + (i - n)
          BY <1>7, <1>8, <3>2
        <5>. QED
          BY <5>1
      <4>2. j \in 1..m
        BY <1>7
      <4>. QED
        BY <1>4, <1>7, <4>1, <4>2
    <3>. QED
      BY <3>1, <3>2
  <2>. QED
    BY <2>1
<1>10. u \in 0..(Len(b) - 1) /\ u \in 0..Len(b) /\ b[u + 1] = NUL
  <2>1. u + 1 = n + J /\ u < n + m
    BY <1>7, <1>8
  <2>. QED
    BY <1>2, <1>4, <1>7, <2>1
<1>11. w = SubSeq(b, 1, u)
  BY <1>1, <1>2, <1>9, <1>10, UpToNulIs
<1>12. w \in Seq(Int) /\ Len(w) = u /\ \A i \in 1..u : w[i] = b[i]
  BY <1>2, <1>10, <1>11, CutProperties
<1>13. \A i \in 1..n : w[i] = s[i]
  <2>1. \A i \in 1..n : i \in 1..u
    BY <1>7, <1>8
  <2>. QED
    BY <1>3, <1>12, <2>1
<1>14. a = 0 => Len(w) = n
  <2>. SUFFICES ASSUME a = 0 PROVE Len(w) = n
    OBVIOUS
  <2>1. 1 \in Z
    BY <1>0, <1>5 DEF NUL
  <2>2. J = 1
    BY <1>6, <1>7, <2>1
  <2>. QED
    BY <1>8, <1>12, <2>2
<1>15. a # 0 => Len(w) >= n + 1 /\ w[n + 1] = a
  <2>. SUFFICES ASSUME a # 0 PROVE Len(w) >= n + 1 /\ w[n + 1] = a
    OBVIOUS
  <2>1. J # 1
    BY <1>0, <1>7 DEF NUL
  <2>2. n + 1 \in 1..u /\ u >= n + 1 /\ 1 \in 1..m
    BY <1>7, <1>8, <2>1
  <2>3. b[n + 1] = a
    BY <1>0, <1>4, <2>2
  <2>4. w[n + 1] = b[n + 1]
    BY <1>12, <2>2
  <2>. QED
    BY <1>12, <2>2, <2>3, <2>4, Zenon
<1>. QED
  BY <1>12, <1>13, <1>14, <1>15 DEF Continued

\* A readable entry has fields of eight and three characters.
LEMMA ReadableBytes ==
  ASSUME NEW e \in Entry, Readable(e)
  PROVE  e.filename \in [1..8 -> Byte] /\ e.extension \in [1..3 -> Byte]
<1>1. PICK f, x : f = e.filename /\ x = e.extension
  OBVIOUS
<1>2. f \in [1..8 -> 0..255] /\ x \in [1..3 -> 0..255]
  BY <1>1 DEF Entry
<1>3. NUL \notin Range(f) /\ NUL \notin Range(x)
  BY <1>1 DEF Readable
<1>4. (\A i \in 1..8 : f[i] # NUL) /\ (\A i \in 1..3 : x[i] # NUL)
  BY <1>2, <1>3 DEF Range
<1>5. \A b \in 0..255 : b # NUL => b \in Byte
  BY DEF NUL, Byte
<1>6. f \in [1..8 -> Byte]
  <2>1. \A i \in 1..8 : f[i] \in 0..255
    BY <1>2
  <2>2. \A i \in 1..8 : f[i] \in Byte
    BY <1>4, <1>5, <2>1, Zenon
  <2>. QED
    BY <1>2, <2>2
<1>7. x \in [1..3 -> Byte]
  <2>1. \A i \in 1..3 : x[i] \in 0..255
    BY <1>2
  <2>2. \A i \in 1..3 : x[i] \in Byte
    BY <1>4, <1>5, <2>1, Zenon
  <2>. QED
    BY <1>2, <2>2
<1>. QED
  BY <1>1, <1>6, <1>7, Zenon

\* So they are strings of these lengths.
LEMMA EntryFields ==
  ASSUME NEW e \in Entry, Readable(e)
  PROVE  /\ e.filename \in Seq(Int) /\ Len(e.filename) = 8
         /\ \A i \in 1..8 : e.filename[i] \in Int /\ e.filename[i] # NUL
         /\ e.extension \in Seq(Int) /\ Len(e.extension) = 3
         /\ \A i \in 1..3 : e.extension[i] \in Int /\ e.extension[i] # NUL
         /\ e.attribute \in 0..255
<1>1. e.filename \in [1..8 -> Byte] /\ e.extension \in [1..3 -> Byte] /\ e.attribute \in 0..255
  <2>1. e.filename \in [1..8 -> Byte] /\ e.extension \in [1..3 -> Byte]
    BY ReadableBytes, Zenon
  <2>2. e.attribute \in 0..255
    BY DEF Entry
  <2>. QED
    BY <2>1, <2>2, Zenon
<1>2. 8 \in Nat /\ 3 \in Nat
  OBVIOUS
<1>. QED
  BY <1>1, <1>2, FieldIsSeq

\* The name before the dot is read to its end, if a space follows it.
LEMMA BaseNameIs ==
  ASSUME NEW e \in Entry, Readable(e), NEW u \in 0..8,
         \A i \in 1..u : e.filename[i] # Space,
         IF u < 8 THEN e.filename[u + 1] = Space ELSE e.extension[1] = Space
  PROVE  rstrip(UpToNul(NameBytes(e))) = SubSeq(e.filename, 1, u)
<1>1. PICK f \in Seq(Int), x \in Seq(Int), a \in 0..255 :
           f = e.filename /\ x = e.extension /\ a = e.attribute
  BY EntryFields
<1>2. /\ Len(f) = 8 /\ Len(x) = 3
      /\ (\A i \in 1..8 : f[i] # NUL) /\ (\A i \in 1..3 : x[i] # NUL)
  BY <1>1, EntryFields
<1>3. PICK s : s = f \o x
  OBVIOUS
<1>4. /\ s \in Seq(Int) /\ Len(s) = 11
      /\ \A i \in 1..8 : s[i] = f[i]
      /\ \A i \in 1..3 : s[8 + i] = x[i]
  <2>1. /\ s \in Seq(Int) /\ Len(s) = Len(f) + Len(x)
        /\ \A i \in 1..(Len(f) + Len(x)) :
             s[i] = IF i <= Len(f) THEN f[i] ELSE x[i - Len(f)]
    BY <1>3, ConcatProperties
  <2>2. Len(f) + Len(x) = 11
    BY <1>2
  <2>3. \A i \in 1..11 : s[i] = IF i <= 8 THEN f[i] ELSE x[i - 8]
    BY <1>2, <2>1, <2>2
  <2>4. \A i \in 1..8 : i \in 1..11 /\ i <= 8
    OBVIOUS
  <2>5. \A i \in 1..3 : 8 + i \in 1..11 /\ ~(8 + i <= 8) /\ (8 + i) - 8 = i
    OBVIOUS
  <2>. QED
    BY <2>1, <2>2, <2>3, <2>4, <2>5
<1>5. \A i \in 1..11 : s[i] # NUL
  <2>1. ASSUME NEW i \in 1..11 PROVE s[i] # NUL
    <3>1. CASE i \in 1..8
      BY <1>2, <1>4, <3>1
    <3>2. CASE \E k \in 1..3 : i = 8 + k
      BY <1>2, <1>4, <3>2
    <3>3. i \in 1..8 \/ (i - 8 \in 1..3 /\ i = 8 + (i - 8))
      OBVIOUS
    <3>. QED
      BY <3>1, <3>2, <3>3
  <2>. QED
    BY <2>1
<1>6. PICK t, w : t = FromAttribute(e) /\ w = UpToNul(s \o t)
  OBVIOUS
<1>7. w \in Seq(Int) /\ (\A i \in 1..11 : w[i] = s[i]) /\ Len(w) \in Nat /\ Len(w) >= 11
  <2>1. PICK n \in Nat : n = 11
    OBVIOUS
  <2>2. FieldsOf(s, n)
    BY <1>4, <1>5, <2>1 DEF FieldsOf
  <2>3. TailOf(t, a)
    BY <1>1, <1>6, FromAttributeIs, Zenon
  <2>4. Continued(w, s, n, a)
    BY <1>6, <2>2, <2>3, RunsOn, Zenon
  <2>5. /\ w \in Seq(Int) /\ \A i \in 1..n : w[i] = s[i]
        /\ Len(w) = n \/ Len(w) >= n + 1
    BY <2>4 DEF Continued
  <2>6. Len(w) \in Nat
    BY <2>5, LenProperties
  <2>7. PICK l \in Nat : l = Len(w)
    BY <2>6, Zenon
  <2>8. l >= 11
    <3>1. l = n \/ l >= n + 1
      BY <2>5, <2>7, Zenon
    <3>. QED
      BY <2>1, <3>1
  <2>9. \A i \in 1..11 : w[i] = s[i]
    BY <2>1, <2>5, Zenon
  <2>. QED
    BY <2>5, <2>6, <2>7, <2>8, <2>9, Zenon
<1>8. (\A i \in 1..u : w[i] = f[i] /\ w[i] # Space) /\ w[u + 1] = Space
  <2>1. \A i \in 1..u : i \in 1..11 /\ i \in 1..8
    OBVIOUS
  <2>2. \A i \in 1..u : w[i] = f[i] /\ f[i] # Space
    BY <1>1, <1>4, <1>7, <2>1
  <2>3. CASE u < 8
    <3>1. u + 1 \in 1..8 /\ u + 1 \in 1..11
      BY <2>3
    <3>2. w[u + 1] = f[u + 1]
      BY <1>4, <1>7, <3>1
    <3>3. f[u + 1] = Space
      BY <1>1, <2>3
    <3>. QED
      BY <2>2, <3>2, <3>3
  <2>4. CASE u = 8
    <3>1. 8 + 1 \in 1..11 /\ 1 \in 1..3
      OBVIOUS
    <3>2. w[8 + 1] = x[1]
      BY <1>4, <1>7, <3>1
    <3>3. x[1] = Space
      BY <1>1, <2>4
    <3>. QED
      BY <2>2, <2>4, <3>2, <3>3
  <2>5. u < 8 \/ u = 8
    OBVIOUS
  <2>. QED
    BY <2>3, <2>4, <2>5
<1>9. u \in 0..Len(w) /\ u \in 0..Len(f)
  <2>1. Len(w) \in Nat /\ Len(w) >= 11 /\ Len(f) = 8
    BY <1>2, <1>7
  <2>. QED
    BY <2>1
<1>10. rstrip(w) = SubSeq(w, 1, u)
  BY <1>7, <1>8, <1>9, RstripIs
<1>11. SubSeq(w, 1, u) = SubSeq(f, 1, u)
  <2>1. PICK y, z : y = SubSeq(w, 1, u) /\ z = SubSeq(f, 1, u)
    OBVIOUS
  <2>2. /\ y \in Seq(Int) /\ Len(y) = u /\ z \in Seq(Int) /\ Len(z) = u
        /\ (\A i \in 1..u : y[i] = w[i]) /\ (\A i \in 1..u : z[i] = f[i])
    BY <1>1, <1>7, <1>9, <2>1, CutProperties
  <2>3. \A i \in 1..u : y[i] = z[i]
    BY <1>8, <2>2
  <2>4. y = z
    BY <2>2, <2>3, SameString
  <2>. QED
    BY <2>1, <2>4
<1>. QED
  BY <1>1, <1>3, <1>6, <1>10, <1>11 DEF NameBytes

\* c is the k characters of a and the m characters of b.
Joined(c, a, k, b, m) ==
  /\ c \in Seq(Int) /\ Len(c) = k + m
  /\ \A i \in 1..k : c[i] = a[i]
  /\ \A i \in 1..m : c[k + i] = b[i]

\* Concatenation, by the lengths of its parts.
LEMMA JoinIs ==
  ASSUME NEW a \in Seq(Int), NEW b \in Seq(Int), NEW k \in Nat, NEW m \in Nat,
         Len(a) = k, Len(b) = m, NEW c, c = a \o b
  PROVE  Joined(c, a, k, b, m)
<1>1. /\ c \in Seq(Int) /\ Len(c) = Len(a) + Len(b)
      /\ \A i \in 1..(Len(a) + Len(b)) : c[i] = IF i <= Len(a) THEN a[i] ELSE b[i - Len(a)]
  BY ConcatProperties
<1>2. Len(c) = k + m /\ \A i \in 1..(k + m) : c[i] = IF i <= k THEN a[i] ELSE b[i - k]
  BY <1>1
<1>3. \A i \in 1..k : i \in 1..(k + m) /\ i <= k
  OBVIOUS
<1>4. \A i \in 1..m : k + i \in 1..(k + m) /\ ~(k + i <= k) /\ (k + i) - k = i
  OBVIOUS
<1>. QED
  BY <1>1, <1>2, <1>3, <1>4 DEF Joined

\* The dot is a string.
LEMMA DotIsString == <<Dot>> \in Seq(Int) /\ Len(<<Dot>>) = 1 /\ <<Dot>>[1] # Space
BY DEF Dot, Space

\* u of the n characters of a field are its name, spaces follow.
EndsAt(field, n, u) ==
  /\ \A i \in 1..u : field[i] # Space
  /\ \A i \in (u + 1)..n : field[i] = Space

\* Where the fields of a readable entry end.
LEMMA ReadableFields ==
  ASSUME NEW e \in Entry, Readable(e)
  PROVE  \E u \in 0..8, v \in 0..3 :
           /\ Unpadded(e.filename) = SubSeq(e.filename, 1, u)
           /\ Unpadded(e.extension) = SubSeq(e.extension, 1, v)
           /\ EndsAt(e.filename, 8, u)
           /\ EndsAt(e.extension, 3, v)
           /\ u < 8 \/ v = 0
           /\ v < 3 \/ e.attribute \in {0, Space}
<1>1. PICK f, x : f = e.filename /\ x = e.extension
  OBVIOUS
<1>2. /\ f \in Seq(Int) /\ Len(f) = 8 /\ x \in Seq(Int) /\ Len(x) = 3
      /\ f \in [1..8 -> Byte] /\ x \in [1..3 -> Byte]
  BY <1>1, EntryFields, ReadableBytes
<1>3. PICK u \in 0..8 : /\ Unpadded(f) = SubSeq(f, 1, u)
                        /\ \A i \in (u + 1)..8 : f[i] = Space
  <2>1. 8 \in Nat
    OBVIOUS
  <2>. QED
    BY <1>2, <2>1, UnpaddedIs
<1>4. PICK v \in 0..3 : /\ Unpadded(x) = SubSeq(x, 1, v)
                        /\ \A i \in (v + 1)..3 : x[i] = Space
  <2>1. 3 \in Nat
    OBVIOUS
  <2>. QED
    BY <1>2, <2>1, UnpaddedIs
<1>5. PICK y \in Seq(Int), z \in Seq(Int) :
           /\ y = SubSeq(f, 1, u) /\ Len(y) = u /\ \A i \in 1..u : y[i] = f[i]
           /\ z = SubSeq(x, 1, v) /\ Len(z) = v /\ \A i \in 1..v : z[i] = x[i]
  <2>1. u \in 0..Len(f) /\ v \in 0..Len(x)
    BY <1>2
  <2>2. /\ SubSeq(f, 1, u) \in Seq(Int) /\ Len(SubSeq(f, 1, u)) = u
        /\ \A i \in 1..u : SubSeq(f, 1, u)[i] = f[i]
    BY <1>2, <2>1, CutProperties
  <2>3. /\ SubSeq(x, 1, v) \in Seq(Int) /\ Len(SubSeq(x, 1, v)) = v
        /\ \A i \in 1..v : SubSeq(x, 1, v)[i] = x[i]
    BY <1>2, <2>1, CutProperties
  <2>. QED
    BY <2>2, <2>3, Zenon
<1>6. /\ Space \notin Range(y) /\ Space \notin Range(z)
      /\ Len(y) < Len(f) \/ z = <<>>
      /\ Len(z) < Len(x) \/ e.attribute \in {0, Space}
  BY <1>1, <1>3, <1>4, <1>5 DEF Readable, ARCHIVED, Space
<1>7. DOMAIN y = 1..u /\ DOMAIN z = 1..v
  BY <1>5, LenProperties
<1>8. (\A i \in 1..u : y[i] # Space) /\ (\A i \in 1..v : z[i] # Space)
  BY <1>6, <1>7 DEF Range
<1>9. u < 8 \/ v = 0
  BY <1>2, <1>5, <1>6
<1>10. v < 3 \/ e.attribute \in {0, Space}
  BY <1>2, <1>5, <1>6
<1>. QED
  <2>1. (\A i \in 1..u : f[i] # Space) /\ (\A i \in 1..v : x[i] # Space)
    BY <1>5, <1>8
  <2>2. EndsAt(f, 8, u) /\ EndsAt(x, 3, v)
    BY <1>3, <1>4, <2>1 DEF EndsAt
  <2>. QED
    BY <1>1, <1>3, <1>4, <1>9, <1>10, <2>2, Zenon

\* y is a name of u characters.
NameOf(y, u) == y \in Seq(Int) /\ u \in Nat /\ Len(y) = u /\ EndsAt(y, u, u)

\* x is the field of an extension of v characters, and t what is read for it
\* up to the attribute a.
ExtensionOf(x, v, a, t) ==
  /\ x \in Seq(Int) /\ Len(x) = 3 /\ v \in 1..3 /\ EndsAt(x, 3, v)
  /\ a \in 0..255 /\ Continued(t, x, 3, a)
  /\ v < 3 \/ a \in {0, Space}

\* The name, the dot and the extension, as get_fat16_filename joins them.
LEMMA JoinedIs ==
  ASSUME NEW y, NEW u, NameOf(y, u),
         NEW x, NEW v, NEW a, NEW t, ExtensionOf(x, v, a, t)
  PROVE  rstrip(y \o <<Dot>> \o t) = y \o <<Dot>> \o SubSeq(x, 1, v)
<1>. /\ y \in Seq(Int) /\ u \in Nat /\ Len(y) = u
     /\ x \in Seq(Int) /\ Len(x) = 3 /\ v \in 1..3
     /\ a \in 0..255 /\ Continued(t, x, 3, a)
     /\ v < 3 \/ a \in {0, Space}
     /\ \A i \in 1..u : y[i] # Space
     /\ \A i \in 1..v : x[i] # Space
     /\ \A i \in (v + 1)..3 : x[i] = Space
  BY DEF NameOf, ExtensionOf, EndsAt
<1>1. PICK m \in Nat : t \in Seq(Int) /\ Len(t) = m /\ m >= 3
  <2>1. t \in Seq(Int) /\ (Len(t) = 3 \/ Len(t) >= 3 + 1)
    BY DEF Continued
  <2>2. PICK m \in Nat : m = Len(t)
    BY <2>1, LenProperties
  <2>3. m = 3 \/ m >= 3 + 1
    BY <2>1, <2>2, Zenon
  <2>4. m >= 3
    BY ONLY <2>3
  <2>. QED
    BY <2>1, <2>2, <2>4
<1>2. (\A i \in 1..v : t[i] = x[i] /\ t[i] # Space) /\ (v = m \/ t[v + 1] = Space)
  <2>1. \A i \in 1..3 : t[i] = x[i]
    BY DEF Continued
  <2>2. \A i \in 1..v : i \in 1..3
    OBVIOUS
  <2>3. CASE v < 3
    <3>1. v + 1 \in 1..3 /\ v + 1 \in (v + 1)..3
      BY <2>3
    <3>. QED
      BY <2>1, <2>2, <3>1
  <2>4. CASE v = 3
    <3>1. a = 0 => Len(t) = 3
      BY DEF Continued
    <3>2. a # 0 => t[3 + 1] = Space
      BY <2>4 DEF Continued
    <3>. QED
      BY <1>1, <2>1, <2>2, <2>4, <3>1, <3>2
  <2>. QED
    BY <2>3, <2>4
<1>3. PICK d : d = <<Dot>> /\ d \in Seq(Int) /\ Len(d) = 1 /\ d[1] # Space
  BY DotIsString, Zenon
<1>4. PICK q : q = y \o d
  OBVIOUS
<1>5. PICK k \in Nat : k = u + 1 /\ q \in Seq(Int) /\ Len(q) = k /\ \A i \in 1..k : q[i] # Space
  <2>1. Joined(q, y, u, d, 1)
    <3>1. 1 \in Nat
      OBVIOUS
    <3>. QED
      BY <1>3, <1>4, <3>1, JoinIs, Zenon
  <2>2. q[u + 1] = d[1] /\ \A i \in 1..u : q[i] = y[i]
    <3>1. 1 \in 1..1
      OBVIOUS
    <3>. QED
      BY <2>1, <3>1 DEF Joined
  <2>3. \A i \in 1..(u + 1) : i \in 1..u \/ i = u + 1
    OBVIOUS
  <2>4. \A i \in 1..(u + 1) : q[i] # Space
    BY <1>3, <2>2, <2>3
  <2>. QED
    BY <2>1, <2>4 DEF Joined
<1>6. PICK r : r = q \o t
  OBVIOUS
<1>7. Joined(r, q, k, t, m)
  <2>1. q \in Seq(Int) /\ Len(q) = k /\ t \in Seq(Int) /\ Len(t) = m
    BY <1>1, <1>5, Zenon
  <2>2. k \in Nat /\ m \in Nat
    OBVIOUS
  <2>. QED
    BY ONLY <1>6, <2>1, <2>2, JoinIs, Zenon
<1>8. /\ r \in Seq(Int) /\ Len(r) = k + m
      /\ \A i \in 1..k : r[i] = q[i]
      /\ \A i \in 1..m : r[k + i] = t[i]
  BY <1>7, Zenon DEF Joined
<1>9. PICK w \in 0..Len(r) : w = k + v
  <2>1. v <= m /\ m \in Nat /\ v \in Nat
    BY <1>1
  <2>2. k + v \in 0..(k + m)
    BY <2>1
  <2>. QED
    BY <1>8, <2>2
<1>10. ASSUME NEW i \in 1..w PROVE r[i] # Space
  <2>1. CASE i \in 1..k
    BY <1>5, <1>7, <1>8, <2>1
  <2>2. CASE \E j \in 1..v : i = k + j
    <3>1. PICK j \in 1..v : i = k + j
      BY <2>2
    <3>2. j \in 1..m
      BY <1>1
    <3>3. r[i] = t[j]
      BY <1>8, <3>1, <3>2
    <3>. QED
      BY <1>2, <3>3
  <2>3. i \in 1..k \/ (i - k \in 1..v /\ i = k + (i - k))
    BY <1>9
  <2>. QED
    BY <2>1, <2>2, <2>3
<1>11. w = Len(r) \/ r[w + 1] = Space
  <2>1. CASE v = m
    BY <1>8, <1>9, <2>1
  <2>2. CASE v # m
    <3>1. v + 1 \in 1..m /\ k + (v + 1) = w + 1
      BY <1>1, <1>9, <2>2
    <3>2. r[w + 1] = t[v + 1]
      BY <1>8, <3>1
    <3>. QED
      BY <1>2, <2>2, <3>2
  <2>. QED
    BY <2>1, <2>2
<1>12. rstrip(r) = SubSeq(r, 1, w)
  BY <1>8, <1>10, <1>11, RstripIs
<1>13. PICK z : z = SubSeq(x, 1, v)
  OBVIOUS
<1>14. z \in Seq(Int) /\ Len(z) = v /\ \A i \in 1..v : z[i] = x[i]
  <2>1. v \in 0..Len(x)
    OBVIOUS
  <2>. QED
    BY <1>13, <2>1, CutProperties
<1>15. PICK p : p = q \o z
  OBVIOUS
<1>16. /\ p \in Seq(Int) /\ Len(p) = w
       /\ \A i \in 1..k : p[i] = q[i]
       /\ \A i \in 1..v : p[k + i] = z[i]
  <2>1. v \in Nat
    OBVIOUS
  <2>2. Joined(p, q, k, z, v)
    BY <1>5, <1>14, <1>15, <2>1, JoinIs, Zenon
  <2>. QED
    BY <1>9, <2>2, Zenon DEF Joined
<1>17. PICK o : o = SubSeq(r, 1, w)
  OBVIOUS
<1>18. o \in Seq(Int) /\ Len(o) = w /\ \A i \in 1..w : o[i] = r[i]
  BY <1>8, <1>17, CutProperties
<1>19. ASSUME NEW i \in 1..w PROVE o[i] = p[i]
  <2>1. CASE i \in 1..k
    BY <1>8, <1>16, <1>18, <2>1
  <2>2. CASE \E j \in 1..v : i = k + j
    <3>1. PICK j \in 1..v : i = k + j
      BY <2>2
    <3>2. j \in 1..m
      BY <1>1
    <3>3. r[i] = t[j] /\ p[i] = z[j]
      BY <1>8, <1>16, <3>1, <3>2
    <3>4. t[j] = z[j]
      BY <1>2, <1>14
    <3>. QED
      BY <1>18, <3>3, <3>4
  <2>3. i \in 1..k \/ (i - k \in 1..v /\ i = k + (i - k))
    BY <1>9
  <2>. QED
    BY <2>1, <2>2, <2>3
<1>20. o = p
  <2>1. w \in Nat
    BY <1>9, <1>8
  <2>. QED
    BY <2>1, <1>16, <1>18, <1>19, SameString
<1>. QED
  BY <1>3, <1>4, <1>6, <1>12, <1>13, <1>15, <1>17, <1>20

\* get_fat16_filename finds the name that a readable entry means.
LEMMA FilenameIs ==
  ASSUME NEW e \in Entry, Readable(e)
  PROVE  get_fat16_filename(e) = Meant(e)
<1>1. PICK f \in Seq(Int), x \in Seq(Int), a \in 0..255 :
           f = e.filename /\ x = e.extension /\ a = e.attribute
  BY EntryFields
<1>2. /\ Len(f) = 8 /\ Len(x) = 3
      /\ (\A i \in 1..8 : f[i] # NUL) /\ (\A i \in 1..3 : x[i] # NUL)
  BY <1>1, EntryFields
<1>3. PICK u \in 0..8, v \in 0..3 :
           /\ Unpadded(f) = SubSeq(f, 1, u)
           /\ Unpadded(x) = SubSeq(x, 1, v)
           /\ EndsAt(f, 8, u) /\ EndsAt(x, 3, v)
           /\ u < 8 \/ v = 0
           /\ v < 3 \/ a \in {0, Space}
  BY <1>1, ReadableFields, Zenon
<1>4. PICK y : y = SubSeq(f, 1, u)
  OBVIOUS
<1>5. y \in Seq(Int) /\ Len(y) = u /\ \A i \in 1..u : y[i] = f[i]
  <2>1. u \in 0..Len(f)
    BY <1>2
  <2>. QED
    BY <1>4, <2>1, CutProperties
<1>6. rstrip(UpToNul(NameBytes(e))) = y
  <2>1. IF u < 8 THEN f[u + 1] = Space ELSE x[1] = Space
    <3>1. CASE u < 8
      <4>1. u + 1 \in (u + 1)..8
        BY <3>1
      <4>. QED
        BY <1>3, <3>1, <4>1 DEF EndsAt
    <3>2. CASE ~(u < 8)
      <4>1. v = 0
        BY <1>3, <3>2
      <4>2. 1 \in (v + 1)..3
        BY <4>1
      <4>. QED
        BY <1>3, <3>2, <4>2 DEF EndsAt
    <3>. QED
      BY <3>1, <3>2
  <2>2. \A i \in 1..u : f[i] # Space
    BY <1>3 DEF EndsAt
  <2>. QED
    BY <1>1, <1>4, <2>1, <2>2, BaseNameIs
<1>7. CASE v = 0
  <2>1. 1 \in (v + 1)..3
    BY <1>7
  <2>2. x[1] = Space
    BY <1>3, <2>1 DEF EndsAt
  <2>3. get_fat16_filename(e) = y
    BY <1>1, <1>6, <2>2 DEF get_fat16_filename
  <2>4. SubSeq(x, 1, v) = <<>>
    <3>1. v \in Int /\ v < 1
      BY <1>7
    <3>. QED
      BY <3>1, SubSeqEmpty
  <2>5. Meant(e) = y
    BY <1>1, <1>3, <1>4, <2>4 DEF Meant
  <2>. QED
    BY <2>3, <2>5
<1>8. CASE v # 0
  <2>1. v \in 1..3 /\ 1 \in 1..v /\ 1 \in 1..3
    BY <1>8
  <2>2. x[1] # Space /\ x[1] # NUL
    BY <1>2, <1>3, <2>1 DEF EndsAt
  <2>3. PICK z, t : z = FromAttribute(e) /\ t = UpToNul(x \o z)
    OBVIOUS
  <2>4. Continued(t, x, 3, a)
    <3>1. FieldsOf(x, 3) /\ 3 \in Nat
      BY <1>2 DEF FieldsOf
    <3>2. TailOf(z, a)
      BY <1>1, <2>3, FromAttributeIs, Zenon
    <3>. QED
      BY <2>3, <3>1, <3>2, RunsOn, Zenon
  <2>5. get_fat16_filename(e) = rstrip(y \o <<Dot>> \o t)
    <3>1. e.extension[1] \notin {NUL, Space}
      BY <1>1, <2>2
    <3>. QED
      BY <1>1, <1>6, <2>3, <3>1, Zenon DEF get_fat16_filename
  <2>6. u \in Nat /\ EndsAt(y, u, u)
    <3>1. u \in Nat /\ (u + 1)..u = {}
      OBVIOUS
    <3>2. \A i \in 1..u : y[i] # Space
      BY <1>3, <1>5 DEF EndsAt
    <3>. QED
      BY <3>1, <3>2, Zenon DEF EndsAt
  <2>7. rstrip(y \o <<Dot>> \o t) = y \o <<Dot>> \o SubSeq(x, 1, v)
    <3>1. y \in Seq(Int) /\ Len(y) = u
      BY <1>5
    <3>2. EndsAt(x, 3, v) /\ (v < 3 \/ a \in {0, Space}) /\ Len(x) = 3
      BY <1>2, <1>3
    <3>3. v \in 1..3
      BY <2>1
    <3>4. NameOf(y, u) /\ ExtensionOf(x, v, a, t)
      BY <2>4, <2>6, <3>1, <3>2, <3>3 DEF NameOf, ExtensionOf
    <3>. QED
      BY <3>4, JoinedIs, Zenon
  <2>8. Meant(e) = y \o <<Dot>> \o SubSeq(x, 1, v)
    <3>1. v \in 0..Len(x)
      BY <1>2
    <3>2. Len(SubSeq(x, 1, v)) = v
      BY <3>1, CutProperties
    <3>3. SubSeq(x, 1, v) # <<>>
      BY <1>8, <3>2
    <3>. QED
      BY <1>1, <1>3, <1>4, <3>3, Zenon DEF Meant
  <2>. QED
    BY <2>5, <2>7, <2>8
<1>. QED
  BY <1>7, <1>8

\* A field without its padding has no NUL either.
LEMMA UnpaddedType ==
  ASSUME NEW n \in Nat, NEW field \in [1..n -> Byte]
  PROVE  Unpadded(field) \in Seq(Byte)
<1>1. PICK u \in 0..n : Unpadded(field) = SubSeq(field, 1, u)
  BY UnpaddedIs
<1>2. \A i \in 1..u : field[i] \in Byte
  <2>1. \A i \in 1..u : i \in 1..n
    OBVIOUS
  <2>. QED
    BY <2>1
<1>3. 1 \in Int /\ u \in Int
  OBVIOUS
<1>. QED
  BY <1>1, <1>2, <1>3, SubSeqProperties

\* The name of an entry is a string.
LEMMA MeantType ==
  ASSUME NEW e \in Entry, Readable(e)
  PROVE  Meant(e) \in Seq(Byte)
<1>1. e.filename \in [1..8 -> Byte] /\ e.extension \in [1..3 -> Byte] /\ 8 \in Nat /\ 3 \in Nat
  BY ReadableBytes
<1>2. PICK y, z : y = Unpadded(e.filename) /\ z = Unpadded(e.extension)
  OBVIOUS
<1>3. y \in Seq(Byte) /\ z \in Seq(Byte)
  BY <1>1, <1>2, UnpaddedType
<1>4. PICK d : d = <<Dot>> /\ d \in Seq(Byte)
  <2>1. <<Dot>> \in Seq(Byte)
    BY DEF Dot, Byte
  <2>. QED
    BY <2>1, Zenon
<1>5. PICK q : q = y \o d /\ q \in Seq(Byte)
  BY <1>3, <1>4, ConcatProperties
<1>6. q \o z \in Seq(Byte)
  BY <1>3, <1>5, ConcatProperties
<1>. QED
  BY <1>2, <1>3, <1>4, <1>5, <1>6, Zenon DEF Meant

\* Lower case does not make a NUL.
LEMMA LowerType ==
  ASSUME NEW b \in Byte
  PROVE  to_lower_char(b) # NUL
BY DEF Byte, to_lower_char, NUL

\* istrncmp on strings of one length compares them in lower case.
LEMMA MatchStrings ==
  ASSUME NEW s \in Seq(Byte), NEW t \in Seq(Byte)
  PROVE  (Len(s) = Len(t) /\ EqualIgnoringCase(s, t, Len(s))) <=> Lower(s) = Lower(t)
<1>1. PICK n \in Nat, m \in Nat : n = Len(s) /\ m = Len(t) /\ DOMAIN s = 1..n /\ DOMAIN t = 1..m
  BY LenProperties
<1>2. /\ \A i \in 1..n : s[i] \in Byte
      /\ \A i \in 1..m : t[i] \in Byte
  BY <1>1, ElementOfSeq
<1>3. \A i \in 1..n : to_lower_char(s[i]) # NUL
  BY <1>2, LowerType
<1>4. /\ Lower(s) = [i \in 1..n |-> to_lower_char(s[i])]
      /\ Lower(t) = [i \in 1..m |-> to_lower_char(t[i])]
  BY <1>1 DEF Lower
<1>5. CASE n = m
  <2>. DEFINE c(w, i) == IF i <= Len(w) THEN to_lower_char(w[i]) ELSE NUL
  <2>1. EqualIgnoringCase(s, t, Len(s))
          <=> \A i \in 1..n : c(s, i) = c(t, i) \/ \E j \in 1..(i - 1) : c(s, j) = NUL
    BY <1>1 DEF EqualIgnoringCase
  <2>2. \A i \in 1..n : c(s, i) = to_lower_char(s[i]) /\ c(t, i) = to_lower_char(t[i])
    BY <1>1, <1>5
  <2>3. \A i \in 1..n : \A j \in 1..(i - 1) : c(s, j) # NUL
    <3>1. \A i \in 1..n : \A j \in 1..(i - 1) : j \in 1..n
      OBVIOUS
    <3>. QED
      BY <1>3, <2>2, <3>1
  <2>. HIDE DEF c
  <2>4. EqualIgnoringCase(s, t, Len(s))
          <=> \A i \in 1..n : to_lower_char(s[i]) = to_lower_char(t[i])
    BY <2>1, <2>2, <2>3
  <2>5. Lower(s) = Lower(t) <=> \A i \in 1..n : to_lower_char(s[i]) = to_lower_char(t[i])
    BY <1>4, <1>5
  <2>. QED
    BY <1>1, <1>5, <2>4, <2>5
<1>6. CASE n # m
  <2>1. DOMAIN Lower(s) = 1..n /\ DOMAIN Lower(t) = 1..m
    BY <1>4
  <2>2. 1..n # 1..m
    BY <1>6
  <2>. QED
    BY <1>1, <1>6, <2>1, <2>2
<1>. QED
  BY <1>5, <1>6

\* The length and case-blind comparison of find_item_in_directory.
LEMMA SameNameIs ==
  ASSUME NEW x \in Entry, Readable(x), NEW name \in Seq(Byte)
  PROVE  SameName(get_fat16_filename(x), name) <=> Lower(Meant(x)) = Lower(name)
<1>1. get_fat16_filename(x) = Meant(x)
  BY FilenameIs
<1>2. PICK s \in Seq(Byte) : s = Meant(x)
  BY MeantType
<1>3. (Len(s) = Len(name) /\ EqualIgnoringCase(s, name, Len(s))) <=> Lower(s) = Lower(name)
  BY MatchStrings
<1>. QED
  BY <1>1, <1>2, <1>3 DEF SameName

-----------------------------------------------------------------------------
(* The slots of a directory.                                               *)

\* Every slot holds an entry, if only zeros.
LEMMA SlotType ==
  ASSUME disk \in Layouts, NEW a
  PROVE  SlotAt(disk, a) \in Entry
<1>1. BLANK \in Entry
  <2>1. [i \in 1..8 |-> NUL] \in [1..8 -> 0..255] /\ [i \in 1..3 |-> NUL] \in [1..3 -> 0..255]
    BY DEF NUL
  <2>2. <<>> \in Seq(Byte) /\ 0 \in 0..255 /\ 0 \in Nat
    OBVIOUS
  <2>. QED
    BY <2>1, <2>2 DEF BLANK, Entry
<1>2. a \in DOMAIN disk.slots => disk.slots[a] \in Entry
  BY DiskAssumption
<1>. QED
  BY <1>1, <1>2 DEF SlotAt

\* The slots of a directory are the first ones.
LEMMA SlotsAreFirst ==
  ASSUME NEW d, NEW start
  PROVE  \E n \in Nat : Slots(d, start) = 0..(n - 1)
<1>. DEFINE G(j) == SlotAt(d, start + j * EntrySize).filename[1] # NUL
<1>1. PICK T : T = Slots(d, start)
  OBVIOUS
<1>2. T = {k \in 0..MaxSlots : \A j \in 0..k : G(j)}
  BY <1>1 DEF Slots
<1>. HIDE DEF G
<1>3. MaxSlots \in Nat
  BY GeometryAssumption
<1>4. PICK Out : Out = Nat \ T
  OBVIOUS
<1>5. Out \in SUBSET Nat /\ Out # {}
  <2>1. MaxSlots + 1 \in Nat /\ MaxSlots + 1 \notin 0..MaxSlots
    BY <1>3
  <2>. QED
    BY <1>2, <1>4, <2>1
<1>6. PICK n \in Out : \A y \in Out : n <= y
  BY <1>5, MinOfSet
<1>7. n \in Nat /\ n \notin T
  BY <1>4, <1>6
<1>8. ASSUME NEW k \in 0..(n - 1) PROVE k \in T
  <2>1. k \in Nat /\ ~(n <= k)
    BY <1>7
  <2>. QED
    BY <1>4, <1>6, <2>1
<1>9. ASSUME NEW k \in T PROVE k \in 0..(n - 1)
  <2>1. k \in 0..MaxSlots /\ \A j \in 0..k : G(j)
    BY <1>2
  <2>2. CASE n <= k
    <3>1. n \in 0..MaxSlots /\ \A j \in 0..n : j \in 0..k
      BY <1>3, <1>7, <2>1, <2>2
    <3>2. n \in T
      BY <1>2, <2>1, <3>1
    <3>. QED
      BY <1>7, <3>2
  <2>3. CASE ~(n <= k)
    BY <1>3, <1>7, <2>1, <2>3
  <2>. QED
    BY <2>2, <2>3
<1>10. T = 0..(n - 1)
  BY <1>8, <1>9
<1>. QED
  BY <1>1, <1>7, <1>10

\* The number of entries is a number.
LEMMA TotalType ==
  ASSUME NEW sector
  PROVE  get_total_entries_for_directory(sector) \in Nat
<1>1. PICK s : s = sector * SectorSize
  OBVIOUS
<1>2. PICK n \in Nat : Slots(disk, s) = 0..(n - 1)
  BY SlotsAreFirst
<1>3. PICK L : L = {k \in Slots(disk, s) : SlotAt(disk, s + k * EntrySize).filename[1] # DELETED}
  OBVIOUS
<1>4. L \subseteq 0..(n - 1)
  BY <1>2, <1>3
<1>5. IsFiniteSet(0..(n - 1))
  BY FS_Interval
<1>6. IsFiniteSet(L)
  BY <1>4, <1>5, FS_Subset
<1>7. Cardinality(L) \in Nat
  BY <1>6, FS_CardinalityType
<1>. QED
  BY <1>1, <1>3, <1>7 DEF get_total_entries_for_directory

\* When none is deleted, all slots are counted.
LEMMA TotalIs ==
  ASSUME NEW sector, NEW n \in Nat, Slots(disk, sector * SectorSize) = 0..(n - 1),
         \A k \in 0..(n - 1) : ~Deleted(SlotAt(disk, sector * SectorSize + k * EntrySize))
  PROVE  get_total_entries_for_directory(sector) = n
<1>1. PICK s : s = sector * SectorSize
  OBVIOUS
<1>2. {k \in Slots(disk, s) : SlotAt(disk, s + k * EntrySize).filename[1] # DELETED} = 0..(n - 1)
  BY <1>1 DEF Deleted
<1>3. Cardinality(0..(n - 1)) = n
  <2>1. 0 \in Int /\ n - 1 \in Int
    OBVIOUS
  <2>2. Cardinality(0..(n - 1)) = IF 0 > n - 1 THEN 0 ELSE n - 1 - 0 + 1
    BY <2>1, FS_Interval
  <2>. QED
    BY <2>2
<1>. QED
  BY <1>1, <1>2, <1>3 DEF get_total_entries_for_directory

\* These are the entries of the directory that e stands for.
Holds(entries, e) ==
  \E n \in Nat : /\ Slots(disk, DirectoryPos(e)) = 0..(n - 1)
                 /\ entries = [i \in 1..n |-> SlotOf(e, i - 1)]

\* Multiples: the first byte of slot i is one of the bytes of n slots.
LEMMA SlotInside ==
  ASSUME NEW E \in Nat \ {0}, NEW n \in Nat, NEW i \in 1..n
  PROVE  /\ (i - 1) * E \in Nat /\ n * E \in Nat
         /\ (i - 1) * E + 1 \in 1..(n * E)
<1>1. PICK a \in Nat, b \in Nat : a = i - 1 /\ b = n - i /\ n = a + b + 1
  <2>1. i - 1 \in Nat /\ n - i \in Nat /\ n = (i - 1) + (n - i) + 1
    OBVIOUS
  <2>. QED
    BY <2>1
<1>2. a * E \in Nat /\ b * E \in Nat
  OBVIOUS
<1>3. (a + b + 1) * E = a * E + b * E + E
  OBVIOUS
<1>4. PICK x \in Nat, y \in Nat, z \in Nat : x = a * E /\ y = b * E /\ z = n * E /\ z = x + y + E
  BY <1>1, <1>2, <1>3
<1>5. x + 1 \in 1..z
  BY <1>4
<1>. QED
  BY <1>1, <1>4, <1>5

\* load_directory gets the slots of a directory that ends in its first
\* cluster, wherever the shared stream is.
LEMMA LoadIs ==
  ASSUME disk \in Layouts, NEW e \in Entry, NEW p, InOneCluster(e),
         \A k \in Slots(disk, DirectoryPos(e)) : ~Deleted(SlotOf(e, k))
  PROVE  Holds(load_directory(e, p).entries, e)
<1>1. e.first \in Nat /\ e.first # 0
  BY DEF Entry, InOneCluster
<1>2a. PICK c \in Nat : c = e.first
  BY <1>1
<1>2b. PICK sector : sector = cluster_to_sector(c)
  OBVIOUS
<1>2. c = e.first /\ sector = cluster_to_sector(c)
  BY <1>2a, <1>2b
<1>3. DirectoryPos(e) = sector * SectorSize /\ sector * SectorSize = Base(c)
  BY <1>1, <1>2 DEF DirectoryPos, cluster_to_sector, Base
<1>4. PICK n \in Nat : Slots(disk, DirectoryPos(e)) = 0..(n - 1)
  BY SlotsAreFirst
<1>5. \A k \in 0..(n - 1) : ~Deleted(SlotAt(disk, sector * SectorSize + k * EntrySize))
  BY <1>3, <1>4 DEF SlotOf
<1>6. get_total_entries_for_directory(sector) = n
  BY <1>3, <1>4, <1>5, TotalIs
<1>7. PICK E \in Nat \ {0} : E = EntrySize
  BY GeometryAssumption
<1>8. PICK m \in Nat : m = n * E
  BY <1>7
<1>9. m <= ClusterSize
  <2>1. CASE n = 0
    BY <1>8, <2>1, ClusterSizeType
  <2>2. CASE n # 0
    <3>1. n - 1 \in 0..(n - 1) /\ (n - 1) + 1 = n
      BY <2>2
    <3>2. ((n - 1) + 1) * EntrySize < ClusterSize
      BY <1>4, <3>1 DEF InOneCluster
    <3>. QED
      BY <1>7, <1>8, <3>1, <3>2, ClusterSizeType
  <2>. QED
    BY <2>1, <2>2
<1>10. PICK b : b = read_entries(p, c, 0, m).bytes
  OBVIOUS
<1>11. load_directory(e, p).entries = [i \in 1..n |-> SlotAt(disk, b[(i - 1) * E + 1])]
  BY <1>2, <1>6, <1>7, <1>8, <1>10 DEF load_directory
<1>12. Offset(0) = 0
  BY GeometryAssumption DEF Offset
<1>13. \A i \in 1..m : b[i] = Base(c) + 0 + i - 1
  <2>1. PICK o \in Nat : o = 0 /\ o + m <= ClusterSize
    BY <1>9, ClusterSizeType
  <2>2. b = read_entries(p, c, o, m).bytes
    BY <1>10, <2>1
  <2>3. FromCluster(b, c, o, m)
    <3>1. c \in Nat /\ m \in Nat /\ o \in Nat /\ o + m <= ClusterSize
      BY <2>1
    <3>. QED
      BY <2>2, <3>1, FirstClusterRead
  <2>4. Offset(o) = 0
    BY <1>12, <2>1
  <2>5. \A i \in 1..m : b[i] = Base(c) + o + i - 1
    BY <2>3, <2>4 DEF FromCluster
  <2>. QED
    BY <2>1, <2>5
<1>14. PICK B \in Int : B = Base(c)
  <2>1. c \in Nat /\ DataStart \in Nat /\ SectorsPerCluster \in Nat /\ SectorSize \in Nat
    BY GeometryAssumption
  <2>. QED
    BY <2>1 DEF Base
<1>15. ASSUME NEW i \in 1..n
       PROVE  SlotAt(disk, b[(i - 1) * E + 1]) = SlotOf(e, i - 1)
  <2>1. PICK x \in Nat : x = (i - 1) * E /\ x + 1 \in 1..m
    BY <1>8, SlotInside
  <2>2. b[x + 1] = B + 0 + (x + 1) - 1
    BY <1>13, <1>14, <2>1
  <2>3. b[x + 1] = B + x
    BY <2>2
  <2>. QED
    BY <1>3, <1>7, <1>14, <2>1, <2>3 DEF SlotOf
<1>16. load_directory(e, p).entries = [i \in 1..n |-> SlotOf(e, i - 1)]
  BY <1>11, <1>15
<1>. QED
  BY <1>4, <1>16 DEF Holds

\* The root directory is an entry of its own.
LEMMA RootFields == ROOT \in Entry /\ IsDirectory(ROOT) /\ DirectoryPos(ROOT) = RootPos
<1>1. [i \in 1..8 |-> NUL] \in [1..8 -> 0..255] /\ [i \in 1..3 |-> NUL] \in [1..3 -> 0..255]
  BY DEF NUL
<1>2. <<>> \in Seq(Byte) /\ 0 \in Nat /\ 16 \in 0..255
  OBVIOUS
<1>3. ROOT \in Entry
  BY <1>1, <1>2 DEF ROOT, BLANK, Entry
<1>4. ROOT.attribute = 16 /\ ROOT.first = 0
  BY DEF ROOT, BLANK
<1>5. (16 \div 16) % 2 = 1
  OBVIOUS
<1>. QED
  BY <1>3, <1>4, <1>5 DEF IsDirectory, DirectoryPos

\* And init_root_directory gets its slots.
LEMMA RootLoadIs ==
  ASSUME \A k \in Slots(disk, DirectoryPos(ROOT)) : ~Deleted(SlotOf(ROOT, k))
  PROVE  Holds(init_root_directory, ROOT)
<1>1. DirectoryPos(ROOT) = RootPos /\ RootPos = RootStart * SectorSize
  BY RootFields DEF RootPos
<1>2. PICK n \in Nat : Slots(disk, DirectoryPos(ROOT)) = 0..(n - 1)
  BY SlotsAreFirst
<1>3. \A k \in 0..(n - 1) : ~Deleted(SlotAt(disk, RootStart * SectorSize + k * EntrySize))
  BY <1>1, <1>2 DEF SlotOf
<1>4. get_total_entries_for_directory(RootStart) = n
  BY <1>1, <1>2, <1>3, TotalIs
<1>5. init_root_directory = [i \in 1..n |-> SlotOf(ROOT, i - 1)]
  BY <1>1, <1>4 DEF init_root_directory, SlotOf
<1>. QED
  BY <1>2, <1>5 DEF Holds

\* What matches a name in an orderly directory: the slots of its contents
\* that have it, at most one.
LEMMA MatchingIs ==
  ASSUME disk \in Layouts, NEW e, NEW entries, Holds(entries, e),
         NEW name \in Seq(Byte), Orderly(e, name)
  PROVE  /\ Matching(entries, name) \subseteq DOMAIN entries
         /\ Matching(entries, name) \in SUBSET Nat
         /\ {entries[i] : i \in Matching(entries, name)}
              = {x \in Contents(e) : Lower(Meant(x)) = Lower(name)}
         /\ \A i, j \in Matching(entries, name) : i = j
<1>1. PICK n \in Nat : /\ Slots(disk, DirectoryPos(e)) = 0..(n - 1)
                       /\ entries = [i \in 1..n |-> SlotOf(e, i - 1)]
  BY DEF Holds
<1>2. PICK M : M = Matching(entries, name)
  OBVIOUS
<1>3. DOMAIN entries = 1..n /\ \A i \in 1..n : entries[i] = SlotOf(e, i - 1)
  BY <1>1
<1>4. M = {i \in 1..n : SameName(get_fat16_filename(SlotOf(e, i - 1)), name)}
  BY <1>2, <1>3 DEF Matching
<1>5. \A k \in 0..(n - 1) : SlotOf(e, k) \in Entry
  BY SlotType DEF SlotOf
<1>6. \A k \in 0..(n - 1) : ~Deleted(SlotOf(e, k))
  BY <1>1 DEF Orderly
<1>7. ASSUME NEW k \in 0..(n - 1)
      PROVE  SameName(get_fat16_filename(SlotOf(e, k)), name)
               <=> ~IsLabel(SlotOf(e, k)) /\ Lower(Meant(SlotOf(e, k))) = Lower(name)
  <2>1. PICK x \in Entry : x = SlotOf(e, k)
    BY <1>5
  <2>2. IF IsLabel(x) THEN ~SameName(get_fat16_filename(x), name) ELSE Readable(x)
    BY <1>1, <2>1 DEF Orderly
  <2>3. CASE IsLabel(x)
    BY <2>1, <2>2, <2>3
  <2>4. CASE ~IsLabel(x)
    <3>1. Readable(x)
      BY <2>2, <2>4
    <3>2. SameName(get_fat16_filename(x), name) <=> Lower(Meant(x)) = Lower(name)
      BY <3>1, SameNameIs
    <3>. QED
      BY <2>1, <2>4, <3>2
  <2>. QED
    BY <2>3, <2>4
<1>8. \A i \in 1..n : i - 1 \in 0..(n - 1)
  OBVIOUS
<1>9. \A k \in 0..(n - 1) : k + 1 \in 1..n /\ (k + 1) - 1 = k
  OBVIOUS
<1>10. M = {i \in 1..n : /\ ~IsLabel(SlotOf(e, i - 1))
                         /\ Lower(Meant(SlotOf(e, i - 1))) = Lower(name)}
  BY <1>4, <1>7, <1>8
<1>11. Contents(e) = {x \in {SlotOf(e, k) : k \in 0..(n - 1)} : ~IsLabel(x)}
  <2>1. Contents(e) = {x \in {SlotOf(e, k) : k \in 0..(n - 1)} : ~Deleted(x) /\ ~IsLabel(x)}
    BY <1>1 DEF Contents
  <2>2. \A x \in {SlotOf(e, k) : k \in 0..(n - 1)} : ~Deleted(x)
    BY <1>6
  <2>. QED
    BY <2>1, <2>2
<1>12. ASSUME NEW i \in M
       PROVE  entries[i] \in {x \in Contents(e) : Lower(Meant(x)) = Lower(name)}
  <2>1. i \in 1..n /\ i - 1 \in 0..(n - 1) /\ entries[i] = SlotOf(e, i - 1)
    BY <1>3, <1>8, <1>10
  <2>2. ~IsLabel(SlotOf(e, i - 1)) /\ Lower(Meant(SlotOf(e, i - 1))) = Lower(name)
    BY <1>10
  <2>. QED
    BY <1>11, <2>1, <2>2
<1>13. ASSUME NEW x \in Contents(e), Lower(Meant(x)) = Lower(name)
       PROVE  \E i \in M : x = entries[i]
  <2>1. PICK k \in 0..(n - 1) : x = SlotOf(e, k) /\ ~IsLabel(x)
    BY <1>11
  <2>2. k + 1 \in M
    BY <1>9, <1>10, <1>13, <2>1
  <2>3. entries[k + 1] = x
    BY <1>3, <1>9, <2>1
  <2>. QED
    BY <2>2, <2>3
<1>14. {entries[i] : i \in M} = {x \in Contents(e) : Lower(Meant(x)) = Lower(name)}
  BY <1>12, <1>13
<1>15. ASSUME NEW i \in M, NEW j \in M PROVE i = j
  <2>1. PICK a \in 0..(n - 1), b \in 0..(n - 1) : a = i - 1 /\ b = j - 1
    BY <1>8, <1>10
  <2>2. /\ ~IsLabel(SlotOf(e, a)) /\ ~IsLabel(SlotOf(e, b))
        /\ Lower(Meant(SlotOf(e, a))) = Lower(Meant(SlotOf(e, b)))
    BY <1>10, <2>1
  <2>3. a = b
    BY <1>1, <2>2 DEF Orderly
  <2>. QED
    BY <1>10, <2>1, <2>3
<1>16. M \subseteq DOMAIN entries /\ M \in SUBSET Nat
  BY <1>3, <1>10
<1>. QED
  BY <1>2, <1>14, <1>15, <1>16

-----------------------------------------------------------------------------
(* The search.                                                             *)

\* An item that was found comes from the disk.
SearchItem(item) ==
  /\ item.kind = "file" => item.entry \in Entry
  /\ item.kind = "directory" =>
       \E n \in Nat : /\ DOMAIN item.entries = 1..n
                      /\ \A i \in 1..n : item.entries[i] \in Entry

\* What new_fat16_item makes of an entry.
LEMMA NewItem ==
  ASSUME NEW e, NEW p
  PROVE  /\ IsDirectory(e) => /\ new_fat16_item(e, p).kind = "directory"
                              /\ new_fat16_item(e, p).entries = load_directory(e, p).entries
         /\ ~IsDirectory(e) => /\ new_fat16_item(e, p).kind = "file"
                               /\ new_fat16_item(e, p).entry = e
BY DEF new_fat16_item

\* It comes from the disk if the entry does, whatever load_directory reads.
LEMMA NewItemType ==
  ASSUME disk \in Layouts, NEW e \in Entry, NEW p
  PROVE  SearchItem(new_fat16_item(e, p))
<1>1. PICK n \in Nat : n = get_total_entries_for_directory(cluster_to_sector(e.first))
  BY TotalType
<1>2. PICK b : b = read_entries(p, e.first, 0, n * EntrySize).bytes
  OBVIOUS
<1>3. load_directory(e, p).entries = [i \in 1..n |-> SlotAt(disk, b[(i - 1) * EntrySize + 1])]
  BY <1>1, <1>2 DEF load_directory
<1>4. PICK l : l = load_directory(e, p).entries
  OBVIOUS
<1>5. \A a : SlotAt(disk, a) \in Entry
  BY SlotType
<1>6. DOMAIN l = 1..n /\ \A i \in 1..n : l[i] \in Entry
  BY <1>3, <1>4, <1>5
<1>7. CASE IsDirectory(e)
  BY <1>4, <1>6, <1>7, NewItem DEF SearchItem
<1>8. CASE ~IsDirectory(e)
  BY <1>8, NewItem DEF SearchItem
<1>. QED
  BY <1>7, <1>8

\* One step of the search, by the kind of the item.
LEMMA FindCases ==
  ASSUME NEW item, NEW name
  PROVE  /\ item.kind = "directory" /\ Matching(item.entries, name) = {} =>
              find_item_in_directory(item, name).kind = "missing"
         /\ item.kind = "directory" /\ Matching(item.entries, name) # {} =>
              find_item_in_directory(item, name)
                = new_fat16_item(item.entries[Min(Matching(item.entries, name))], item.pos)
         /\ item.kind = "file" => find_item_in_directory(item, name).kind = "refused"
         /\ item.kind = "missing" => find_item_in_directory(item, name).kind = "lost"
         /\ item.kind \notin {"directory", "file", "missing"} =>
              find_item_in_directory(item, name) = item
BY DEF find_item_in_directory

\* A step finds another item from the disk.
LEMMA FindType ==
  ASSUME disk \in Layouts, NEW item, SearchItem(item), NEW name
  PROVE  SearchItem(find_item_in_directory(item, name))
<1>1. CASE item.kind = "directory"
  <2>1. PICK n \in Nat : /\ DOMAIN item.entries = 1..n
                         /\ \A i \in 1..n : item.entries[i] \in Entry
    BY <1>1 DEF SearchItem
  <2>2. PICK M : M = Matching(item.entries, name)
    OBVIOUS
  <2>3. M \subseteq 1..n
    BY <2>1, <2>2 DEF Matching
  <2>4. CASE M = {}
    <3>1. find_item_in_directory(item, name).kind = "missing"
      <4>1. Matching(item.entries, name) = {}
        BY <2>2, <2>4
      <4>. QED
        BY <1>1, <4>1, FindCases, Zenon
    <3>. QED
      BY <3>1 DEF SearchItem
  <2>5. CASE M # {}
    <3>1. M \in SUBSET Nat
      BY <2>3
    <3>2. Min(M) \in M
      BY <2>5, <3>1, MinOfSet
    <3>3. PICK x \in Entry : x = item.entries[Min(M)]
      BY <2>1, <2>3, <3>2
    <3>4. find_item_in_directory(item, name) = new_fat16_item(x, item.pos)
      BY <1>1, <2>2, <2>5, <3>3, FindCases
    <3>. QED
      BY <3>4, NewItemType
  <2>. QED
    BY <2>4, <2>5
<1>2. CASE item.kind = "file"
  BY <1>2, FindCases DEF SearchItem
<1>3. CASE item.kind = "missing"
  BY <1>3, FindCases DEF SearchItem
<1>4. CASE item.kind \notin {"directory", "file", "missing"}
  BY <1>4, FindCases
<1>. QED
  BY <1>1, <1>2, <1>3, <1>4

-----------------------------------------------------------------------------
(* The search and what a path denotes, name by name.                       *)

\* The search has found the root, or the only entry that is denoted, or there
\* is none.
Agrees(item, found, k) ==
  \/ k = 0 /\ found = {ROOT} /\ item.kind = "directory" /\ item.entries = init_root_directory
  \/ k # 0 /\ \E e \in Entry : \E p : found = {e} /\ item = new_fat16_item(e, p)
  \/ found = {} /\ item.kind \in {"missing", "refused", "lost"}

\* The name can be looked up in the directories among these entries.
Clear(found, name, k) ==
  \A e \in found : IsDirectory(e) => Orderly(e, name) /\ (k = 0 \/ InOneCluster(e))

\* What one more name denotes.
Named(found, name) == {e \in Below(found) : Lower(Meant(e)) = Lower(name)}

\* The search takes the step that the name denotes, in a directory whose
\* slots were loaded.
LEMMA FindBelow ==
  ASSUME disk \in Layouts, NEW item, item.kind = "directory", NEW e, IsDirectory(e),
         Holds(item.entries, e), NEW name \in Seq(Byte), Orderly(e, name),
         NEW k, k # 0
  PROVE  Agrees(find_item_in_directory(item, name), Named({e}, name), k)
<1>1. PICK M : M = Matching(item.entries, name)
  OBVIOUS
<1>2. /\ M \subseteq DOMAIN item.entries
      /\ M \in SUBSET Nat
      /\ {item.entries[i] : i \in M} = {x \in Contents(e) : Lower(Meant(x)) = Lower(name)}
      /\ \A i, j \in M : i = j
  BY <1>1, MatchingIs
<1>3. Below({e}) = Contents(e)
  BY DEF Below
<1>4. Named({e}, name) = {item.entries[i] : i \in M}
  BY <1>2, <1>3 DEF Named
<1>5. CASE M = {}
  <2>1. find_item_in_directory(item, name).kind = "missing"
    <3>1. Matching(item.entries, name) = {}
      BY <1>1, <1>5
    <3>. QED
      BY <3>1, FindCases, Zenon
  <2>2. Named({e}, name) = {}
    BY <1>4, <1>5
  <2>. QED
    BY <2>1, <2>2 DEF Agrees
<1>6. CASE M # {}
  <2>1. PICK m \in M : m = Min(M)
    BY <1>2, <1>6, MinOfSet
  <2>2. M = {m}
    BY <1>2, <2>1
  <2>3. PICK x : x = item.entries[m]
    OBVIOUS
  <2>4. Named({e}, name) = {x}
    BY <1>4, <2>2, <2>3
  <2>5. find_item_in_directory(item, name) = new_fat16_item(x, item.pos)
    BY <1>1, <1>6, <2>1, <2>3, FindCases
  <2>6. x \in Entry
    <3>1. PICK n \in Nat : item.entries = [i \in 1..n |-> SlotOf(e, i - 1)]
      BY DEF Holds
    <3>2. m \in 1..n
      BY <1>2, <3>1
    <3>3. x = SlotOf(e, m - 1)
      BY <2>3, <3>1, <3>2
    <3>. QED
      BY <3>3, SlotType DEF SlotOf
  <2>. QED
    BY <2>4, <2>5, <2>6 DEF Agrees
<1>. QED
  BY <1>5, <1>6

\* And everywhere else.
LEMMA FindAgrees ==
  ASSUME disk \in Layouts, NEW item, NEW found, NEW k, Agrees(item, found, k),
         NEW name \in Seq(Byte), Clear(found, name, k), NEW j, j # 0
  PROVE  Agrees(find_item_in_directory(item, name), Named(found, name), j)
<1>1. CASE k = 0 /\ found = {ROOT} /\ item.kind = "directory"
           /\ item.entries = init_root_directory
  <2>1. IsDirectory(ROOT) /\ Orderly(ROOT, name)
    BY <1>1, RootFields DEF Clear
  <2>2. \A i \in Slots(disk, DirectoryPos(ROOT)) : ~Deleted(SlotOf(ROOT, i))
    BY <2>1 DEF Orderly
  <2>3. Holds(item.entries, ROOT)
    BY <1>1, <2>2, RootLoadIs
  <2>. QED
    BY <1>1, <2>1, <2>3, FindBelow
<1>2. ASSUME k # 0, NEW e \in Entry, NEW p, found = {e}, item = new_fat16_item(e, p)
      PROVE  Agrees(find_item_in_directory(item, name), Named(found, name), j)
  <2>1. CASE IsDirectory(e)
    <3>1. Orderly(e, name) /\ InOneCluster(e)
      BY <1>2, <2>1 DEF Clear
    <3>2. \A i \in Slots(disk, DirectoryPos(e)) : ~Deleted(SlotOf(e, i))
      BY <3>1 DEF Orderly
    <3>3. Holds(load_directory(e, p).entries, e)
      BY <3>1, <3>2, LoadIs
    <3>4. item.kind = "directory" /\ Holds(item.entries, e)
      BY <1>2, <2>1, <3>3, NewItem
    <3>. QED
      BY <1>2, <2>1, <3>1, <3>4, FindBelow
  <2>2. CASE ~IsDirectory(e)
    <3>1. item.kind = "file"
      BY <1>2, <2>2, NewItem
    <3>2. find_item_in_directory(item, name).kind = "refused"
      BY <3>1, FindCases
    <3>3. Named(found, name) = {}
      BY <1>2, <2>2 DEF Named, Below
    <3>. QED
      BY <3>2, <3>3 DEF Agrees
  <2>. QED
    BY <2>1, <2>2
<1>3. CASE found = {} /\ item.kind \in {"missing", "refused", "lost"}
  <2>1. Named(found, name) = {}
    BY <1>3 DEF Named, Below
  <2>2. find_item_in_directory(item, name).kind \in {"missing", "refused", "lost"}
    <3>1. CASE item.kind = "missing"
      BY <3>1, FindCases
    <3>2. CASE item.kind # "missing"
      BY <1>3, <3>2, FindCases
    <3>. QED
      BY <3>1, <3>2
  <2>. QED
    BY <2>1, <2>2 DEF Agrees
<1>. QED
  BY <1>1, <1>2, <1>3, Zenon DEF Agrees

\* Both recursions, with their first argument for the values before.
RootItem(p) == [kind |-> "directory", entries |-> init_root_directory, pos |-> p]
FoundStep(g, path, p, k) ==
  IF k = 0 THEN RootItem(p) ELSE find_item_in_directory(g[k - 1], path[k])
DenotedStep(g, path, k) ==
  IF k = 0 THEN {ROOT} ELSE Named(g[k - 1], path[k])

IsFound(g, path, p) ==
  g = [k \in 0..Len(path) |->
         IF k = 0 THEN [kind |-> "directory", entries |-> init_root_directory, pos |-> p]
         ELSE find_item_in_directory(g[k - 1], path[k])]
IsDenoted(g, path) ==
  g = [k \in 0..Len(path) |->
         IF k = 0 THEN {ROOT}
         ELSE {e \in Below(g[k - 1]) : Lower(Meant(e)) = Lower(path[k])}]

\* There are functions that satisfy them, up to any name.
LEMMA FoundUpTo ==
  ASSUME NEW path, NEW p
  PROVE  \A m \in Nat : \E g : g = [k \in 0..m |-> FoundStep(g, path, p, k)]
<1>. DEFINE S == {m \in Nat : \E g : g = [k \in 0..m |-> FoundStep(g, path, p, k)]}
<1>1. 0 \in S
  <2>. DEFINE g == [k \in 0..0 |-> RootItem(p)]
  <2>1. \A k \in 0..0 : FoundStep(g, path, p, k) = RootItem(p)
    BY DEF FoundStep
  <2>2. g = [k \in 0..0 |-> FoundStep(g, path, p, k)]
    BY <2>1
  <2>. QED
    BY <2>2
<1>2. ASSUME NEW m \in Nat, m \in S PROVE m + 1 \in S
  <2>1. PICK g : g = [k \in 0..m |-> FoundStep(g, path, p, k)]
    BY <1>2
  <2>. DEFINE h == [k \in 0..(m + 1) |->
                      IF k <= m THEN g[k] ELSE FoundStep(g, path, p, m + 1)]
  <2>2. ASSUME NEW k \in 0..(m + 1) PROVE FoundStep(h, path, p, k) = FoundStep(g, path, p, k)
    <3>1. CASE k = 0
      BY <3>1 DEF FoundStep
    <3>2. CASE k # 0
      <4>1. k - 1 \in 0..m
        BY <3>2
      <4>2. h[k - 1] = g[k - 1]
        BY <4>1
      <4>. HIDE DEF h
      <4>. QED
        BY <4>2 DEF FoundStep
    <3>. QED
      BY <3>1, <3>2
  <2>3. ASSUME NEW k \in 0..(m + 1) PROVE h[k] = FoundStep(g, path, p, k)
    <3>1. CASE k <= m
      BY <3>1, <2>1
    <3>2. CASE k = m + 1
      BY <3>2
    <3>. QED
      BY <3>1, <3>2
  <2>4. h = [k \in 0..(m + 1) |-> FoundStep(h, path, p, k)]
    <3>1. \A k \in 0..(m + 1) : h[k] = FoundStep(h, path, p, k)
      BY <2>2, <2>3
    <3>2. h = [k \in 0..(m + 1) |-> h[k]]
      OBVIOUS
    <3>. HIDE DEF h
    <3>. QED
      BY <3>1, <3>2
  <2>. HIDE DEF h
  <2>. QED
    BY <2>4
<1>. HIDE DEF S
<1>3. Nat \subseteq S
  BY <1>1, <1>2, SetInduction
<1>. QED
  BY <1>3 DEF S

\* And for what is denoted.
LEMMA DenotedUpTo ==
  ASSUME NEW path
  PROVE  \A m \in Nat : \E g : g = [k \in 0..m |-> DenotedStep(g, path, k)]
<1>. DEFINE S == {m \in Nat : \E g : g = [k \in 0..m |-> DenotedStep(g, path, k)]}
<1>1. 0 \in S
  <2>. DEFINE g == [k \in 0..0 |-> {ROOT}]
  <2>1. \A k \in 0..0 : DenotedStep(g, path, k) = {ROOT}
    BY DEF DenotedStep
  <2>2. g = [k \in 0..0 |-> DenotedStep(g, path, k)]
    BY <2>1
  <2>. QED
    BY <2>2
<1>2. ASSUME NEW m \in Nat, m \in S PROVE m + 1 \in S
  <2>1. PICK g : g = [k \in 0..m |-> DenotedStep(g, path, k)]
    BY <1>2
  <2>. DEFINE h == [k \in 0..(m + 1) |-> IF k <= m THEN g[k] ELSE DenotedStep(g, path, m + 1)]
  <2>2. ASSUME NEW k \in 0..(m + 1) PROVE DenotedStep(h, path, k) = DenotedStep(g, path, k)
    <3>1. CASE k = 0
      BY <3>1 DEF DenotedStep
    <3>2. CASE k # 0
      <4>1. k - 1 \in 0..m
        BY <3>2
      <4>2. h[k - 1] = g[k - 1]
        BY <4>1
      <4>. HIDE DEF h
      <4>. QED
        BY <4>2 DEF DenotedStep
    <3>. QED
      BY <3>1, <3>2
  <2>3. ASSUME NEW k \in 0..(m + 1) PROVE h[k] = DenotedStep(g, path, k)
    <3>1. CASE k <= m
      BY <3>1, <2>1
    <3>2. CASE k = m + 1
      BY <3>2
    <3>. QED
      BY <3>1, <3>2
  <2>4. h = [k \in 0..(m + 1) |-> DenotedStep(h, path, k)]
    <3>1. \A k \in 0..(m + 1) : h[k] = DenotedStep(h, path, k)
      BY <2>2, <2>3
    <3>2. h = [k \in 0..(m + 1) |-> h[k]]
      OBVIOUS
    <3>. HIDE DEF h
    <3>. QED
      BY <3>1, <3>2
  <2>. HIDE DEF h
  <2>. QED
    BY <2>4
<1>. HIDE DEF S
<1>3. Nat \subseteq S
  BY <1>1, <1>2, SetInduction
<1>. QED
  BY <1>3 DEF S

\* So the search is such a function, and what is denoted another.
LEMMA FoundUnfolds ==
  ASSUME NEW path, NEW p, Len(path) \in Nat
  PROVE  \A k \in 0..Len(path) :
           get_fat16_directory_item(path, p)[k]
             = FoundStep(get_fat16_directory_item(path, p), path, p, k)
<1>1. get_fat16_directory_item(path, p) = CHOOSE g : IsFound(g, path, p)
  BY DEF get_fat16_directory_item, IsFound
<1>2. \E g : IsFound(g, path, p)
  <2>1. PICK g : g = [k \in 0..Len(path) |-> FoundStep(g, path, p, k)]
    BY FoundUpTo
  <2>2. IsFound(g, path, p)
    BY <2>1 DEF IsFound, FoundStep, RootItem
  <2>. QED
    BY <2>2
<1>3. PICK g : g = get_fat16_directory_item(path, p)
  OBVIOUS
<1>4. IsFound(g, path, p)
  BY <1>1, <1>2, <1>3, Zenon
<1>5. g = [k \in 0..Len(path) |-> FoundStep(g, path, p, k)]
  BY <1>4 DEF IsFound, FoundStep, RootItem
<1>. QED
  BY <1>3, <1>5

\* The same for what is denoted.
LEMMA DenotedUnfolds ==
  ASSUME NEW path, Len(path) \in Nat
  PROVE  \A k \in 0..Len(path) : Denoted(path)[k] = DenotedStep(Denoted(path), path, k)
<1>1. Denoted(path) = CHOOSE g : IsDenoted(g, path)
  BY DEF Denoted, IsDenoted
<1>2. \E g : IsDenoted(g, path)
  <2>1. PICK g : g = [k \in 0..Len(path) |-> DenotedStep(g, path, k)]
    BY DenotedUpTo
  <2>2. IsDenoted(g, path)
    BY <2>1 DEF IsDenoted, DenotedStep, Named
  <2>. QED
    BY <2>2
<1>3. IsDenoted(Denoted(path), path)
  BY <1>1, <1>2, Zenon
<1>4. PICK g : g = Denoted(path)
  OBVIOUS
<1>5. g = [k \in 0..Len(path) |-> DenotedStep(g, path, k)]
  BY <1>3, <1>4 DEF IsDenoted, DenotedStep, Named
<1>. QED
  BY <1>4, <1>5

\* The search finds an entry of the disk, or nothing.
LEMMA SearchType ==
  ASSUME disk \in Layouts, NEW path, NEW p, Len(path) \in Nat
  PROVE  SearchItem(get_fat16_directory_item(path, p)[Len(path)])
<1>1. PICK g : /\ g = get_fat16_directory_item(path, p)
               /\ \A k \in 0..Len(path) : g[k] = FoundStep(g, path, p, k)
  BY FoundUnfolds
<1>. DEFINE S == {k \in Nat : k <= Len(path) => SearchItem(g[k])}
<1>2. 0 \in S
  <2>1. g[0] = RootItem(p)
    BY <1>1 DEF FoundStep
  <2>2. PICK n \in Nat : n = get_total_entries_for_directory(RootStart)
    BY TotalType
  <2>3. init_root_directory = [i \in 1..n |-> SlotAt(disk, RootPos + (i - 1) * EntrySize)]
    BY <2>2 DEF init_root_directory
  <2>4. \A a : SlotAt(disk, a) \in Entry
    BY SlotType
  <2>5. DOMAIN init_root_directory = 1..n /\ \A i \in 1..n : init_root_directory[i] \in Entry
    BY <2>3, <2>4
  <2>6. g[0].kind = "directory" /\ g[0].entries = init_root_directory
    BY <2>1 DEF RootItem
  <2>7. SearchItem(g[0])
    BY <2>5, <2>6 DEF SearchItem
  <2>. QED
    BY <2>7
<1>3. ASSUME NEW k \in Nat, k \in S PROVE k + 1 \in S
  <2>1. SUFFICES ASSUME k + 1 <= Len(path) PROVE SearchItem(g[k + 1])
    OBVIOUS
  <2>2. SearchItem(g[k])
    BY <1>3, <2>1
  <2>3. k + 1 \in 0..Len(path) /\ k + 1 # 0 /\ (k + 1) - 1 = k
    BY <2>1
  <2>4. g[k + 1] = FoundStep(g, path, p, k + 1)
    BY <1>1, <2>3
  <2>5. FoundStep(g, path, p, k + 1) = find_item_in_directory(g[k], path[k + 1])
    BY <2>3 DEF FoundStep
  <2>. QED
    BY <2>2, <2>4, <2>5, FindType
<1>. HIDE DEF S
<1>4. Nat \subseteq S
  BY <1>2, <1>3, SetInduction
<1>5. SearchItem(g[Len(path)])
  BY <1>4 DEF S
<1>. QED
  BY <1>1, <1>5

\* On a clear way it finds what the path denotes.
LEMMA SearchAgrees ==
  ASSUME disk \in Layouts, NEW path \in Seq(Seq(Byte)), NEW p, WayIsClear(path)
  PROVE  Agrees(get_fat16_directory_item(path, p)[Len(path)],
                Denoted(path)[Len(path)], Len(path))
<1>0. PICK n \in Nat : n = Len(path)
  BY LenProperties
<1>1. PICK g : /\ g = get_fat16_directory_item(path, p)
               /\ \A k \in 0..n : g[k] = FoundStep(g, path, p, k)
  BY <1>0, FoundUnfolds
<1>2. PICK d : /\ d = Denoted(path)
               /\ \A k \in 0..n : d[k] = DenotedStep(d, path, k)
  BY <1>0, DenotedUnfolds
<1>3. \A k \in 0..(n - 1) : Clear(d[k], path[k + 1], k)
  BY <1>0, <1>2 DEF WayIsClear, Clear
<1>. DEFINE S == {k \in Nat : k <= n => Agrees(g[k], d[k], k)}
<1>4. 0 \in S
  <2>1. g[0] = RootItem(p)
    BY <1>1 DEF FoundStep
  <2>2. d[0] = {ROOT}
    <3>1. 0 \in 0..n /\ DenotedStep(d, path, 0) = {ROOT}
      BY DEF DenotedStep
    <3>. QED
      BY <1>2, <3>1
  <2>3. g[0].kind = "directory" /\ g[0].entries = init_root_directory
    BY <2>1 DEF RootItem
  <2>4. Agrees(g[0], d[0], 0)
    BY <2>2, <2>3 DEF Agrees
  <2>. QED
    BY <2>4
<1>5. ASSUME NEW k \in Nat, k \in S PROVE k + 1 \in S
  <2>1. SUFFICES ASSUME k + 1 <= n PROVE Agrees(g[k + 1], d[k + 1], k + 1)
    OBVIOUS
  <2>2. Agrees(g[k], d[k], k)
    BY <1>5, <2>1
  <2>3. k + 1 \in 0..n /\ k + 1 # 0 /\ (k + 1) - 1 = k /\ k \in 0..(n - 1) /\ k + 1 \in 1..n
    BY <2>1
  <2>4. g[k + 1] = FoundStep(g, path, p, k + 1) /\ d[k + 1] = DenotedStep(d, path, k + 1)
    BY <1>1, <1>2, <2>3
  <2>5. FoundStep(g, path, p, k + 1) = find_item_in_directory(g[k], path[k + 1])
    BY <2>3 DEF FoundStep
  <2>6. DenotedStep(d, path, k + 1) = Named(d[k], path[k + 1])
    BY <2>3 DEF DenotedStep
  <2>7. path[k + 1] \in Seq(Byte)
    BY <1>0, <2>3, ElementOfSeq
  <2>8. Clear(d[k], path[k + 1], k)
    BY <1>3, <2>3
  <2>9. Agrees(find_item_in_directory(g[k], path[k + 1]), Named(d[k], path[k + 1]), k + 1)
    BY <2>2, <2>3, <2>7, <2>8, FindAgrees
  <2>. QED
    BY <2>4, <2>5, <2>6, <2>9
<1>. HIDE DEF S
<1>6. Nat \subseteq S
  BY <1>4, <1>5, SetInduction
<1>7. Agrees(g[n], d[n], n)
  BY <1>6 DEF S
<1>. QED
  BY <1>0, <1>1, <1>2, <1>7

\* A descriptor is of one kind.
LEMMA OpenedKind ==
  ASSUME NEW first, NEW size, NEW pos
  PROVE  /\ Opened(first, size, pos).kind = "file"
         /\ Opened(first, size, pos) \notin {CLOSED, NODATA, DIRECTORY}
<1>1. Opened(first, size, pos).kind = "file"
  BY DEF Opened
<1>2. CLOSED.kind = "closed" /\ NODATA.kind = "nodata" /\ DIRECTORY.kind = "directory"
  BY DEF CLOSED, NODATA, DIRECTORY
<1>. QED
  BY <1>1, <1>2

\* So the descriptor is the one of the file that is denoted.
LEMMA OpenAgrees ==
  ASSUME NEW item, NEW found, NEW k, Agrees(item, found, k)
  PROVE  {Opened(e.first, e.size, 0) : e \in {e \in found : ~IsDirectory(e)}}
           = {fat16_open(item)} \ {NODATA, DIRECTORY}
<1>1. CASE found = {ROOT} /\ item.kind = "directory"
  <2>1. fat16_open(item) = DIRECTORY
    BY <1>1 DEF fat16_open
  <2>2. IsDirectory(ROOT)
    BY RootFields
  <2>. QED
    BY <1>1, <2>1, <2>2
<1>2. ASSUME NEW e \in Entry, NEW p, found = {e}, item = new_fat16_item(e, p)
      PROVE  {Opened(x.first, x.size, 0) : x \in {x \in found : ~IsDirectory(x)}}
               = {fat16_open(item)} \ {NODATA, DIRECTORY}
  <2>1. CASE IsDirectory(e)
    <3>1. item.kind = "directory"
      BY <1>2, <2>1, NewItem
    <3>2. fat16_open(item) = DIRECTORY
      BY <3>1 DEF fat16_open
    <3>. QED
      BY <1>2, <2>1, <3>2
  <2>2. CASE ~IsDirectory(e)
    <3>1. item.kind = "file" /\ item.entry = e
      BY <1>2, <2>2, NewItem
    <3>2. fat16_open(item) = Opened(e.first, e.size, 0)
      BY <3>1 DEF fat16_open
    <3>3. Opened(e.first, e.size, 0) \notin {NODATA, DIRECTORY}
      BY OpenedKind
    <3>. QED
      BY <1>2, <2>2, <3>2, <3>3
  <2>. QED
    BY <2>1, <2>2
<1>3. CASE found = {} /\ item.kind \in {"missing", "refused", "lost"}
  <2>1. fat16_open(item) = NODATA
    BY <1>3 DEF fat16_open
  <2>. QED
    BY <1>3, <2>1
<1>. QED
  BY <1>1, <1>2, <1>3, Zenon DEF Agrees

-----------------------------------------------------------------------------
(* The inductive invariant.  What a read delivers depends on the first     *)
(* cluster and the position of its descriptor, so that descriptors hold    *)
(* numbers has to be kept with it: both come from the entry that fopen     *)
(* found, and every slot that load_directory takes, also from a wrong      *)
(* cluster, holds one.  What the last open got is kept as the result of    *)
(* that search, from which the property of the path follows.               *)

Descriptor == {CLOSED, NODATA, DIRECTORY}
                \cup [kind : {"file"}, first : Nat, size : Nat, pos : Nat]

\* What the last open got is what the search found, wherever the stream was.
LastOpen ==
  last.op = "open" =>
    /\ last.path \in Paths
    /\ \E p : last.got = fat16_open(get_fat16_directory_item(last.path, p)[Len(last.path)])

FileInv == /\ disk \in Layouts
           /\ fds \in [Fds -> Descriptor]
           /\ LastOpen
           /\ ReadsOwnBytes

\* The search depends on the disk alone.
LEMMA SearchFrame ==
  ASSUME disk' = disk, NEW path, NEW p
  PROVE  get_fat16_directory_item(path, p)' = get_fat16_directory_item(path, p)
BY DEF get_fat16_directory_item, init_root_directory, get_total_entries_for_directory,
       find_item_in_directory, new_fat16_item, load_directory, read_entries, ReadCluster,
       StartPos, get_cluster_for_offset, get_fat_entry

\* A descriptor that is open for reading is a file with its numbers.
LEMMA OpenDescriptor ==
  ASSUME NEW d \in Descriptor, d.kind = "file"
  PROVE  /\ d.first \in Nat /\ d.size \in Nat /\ d.pos \in Nat
         /\ \A p \in Nat : [d EXCEPT !.pos = p] \in Descriptor
<1>1. CLOSED.kind = "closed" /\ NODATA.kind = "nodata" /\ DIRECTORY.kind = "directory"
  BY DEF CLOSED, NODATA, DIRECTORY
<1>2. d \in [kind : {"file"}, first : Nat, size : Nat, pos : Nat]
  BY <1>1 DEF Descriptor
<1>. QED
  BY <1>2 DEF Descriptor

\* fat16_open makes a descriptor of whatever the search found.
LEMMA OpenType ==
  ASSUME NEW item, SearchItem(item)
  PROVE  fat16_open(item) \in Descriptor
<1>1. CASE item.kind = "file"
  <2>1. PICK e \in Entry : e = item.entry
    BY <1>1 DEF SearchItem
  <2>2. fat16_open(item) = Opened(e.first, e.size, 0)
    BY <1>1, <2>1 DEF fat16_open
  <2>3. e.first \in Nat /\ e.size \in Nat
    BY DEF Entry
  <2>. QED
    BY <2>2, <2>3 DEF Opened, Descriptor
<1>2. CASE item.kind # "file"
  BY <1>2 DEF fat16_open, Descriptor
<1>. QED
  BY <1>1, <1>2

\* A step that leaves the history alone, or forgets it, keeps what is said of
\* it.
LEMMA HistoryKept ==
  ASSUME LastOpen, ReadsOwnBytes, disk' = disk,
         last' = last \/ last' = NOCALL
  PROVE  LastOpen' /\ ReadsOwnBytes'
<1>1. CASE last' = last
  <2>1. ASSUME last.op = "open" PROVE LastOpen'
    <3>1. PICK q, p : /\ q = last.path /\ q \in Paths
                      /\ last.got = fat16_open(get_fat16_directory_item(q, p)[Len(q)])
      BY <2>1, Zenon DEF LastOpen
    <3>2. get_fat16_directory_item(q, p)' = get_fat16_directory_item(q, p)
      BY SearchFrame
    <3>3. last'.path = q /\ last'.got = last.got
      BY <1>1, <3>1
    <3>. QED
      BY <3>1, <3>2, <3>3 DEF LastOpen
  <2>2. LastOpen'
    BY <1>1, <2>1 DEF LastOpen
  <2>3. ReadsOwnBytes'
    BY <1>1 DEF ReadsOwnBytes
  <2>. QED
    BY <2>2, <2>3
<1>2. CASE last' = NOCALL
  <2>1. last'.op \notin {"open", "read"}
    BY <1>2 DEF NOCALL
  <2>. QED
    BY <2>1 DEF LastOpen, ReadsOwnBytes
<1>. QED
  BY <1>1, <1>2

\* The invariant holds when the disk has been found.
LEMMA FileInit == Init => FileInv
BY DEF Init, FileInv, Descriptor, LastOpen, ReadsOwnBytes, NOCALL

\* fopen preserves the invariant.
LEMMA OpenStep ==
  ASSUME FileInv, NEW path \in Paths, fopen(path)
  PROVE  FileInv'
<1>1. disk' = disk /\ disk' \in Layouts
  BY DEF FileInv, fopen
<1>2. path \in Seq(Seq(Byte)) /\ Len(path) \in Nat
  BY GeometryAssumption, LenProperties
<1>3. PICK p, item : p = stream /\ item = get_fat16_directory_item(path, p)[Len(path)]
  OBVIOUS
<1>4. fat16_open(item) \in Descriptor
  BY <1>2, <1>3, SearchType, OpenType DEF FileInv
<1>5. CASE fds' = fds /\ (last' = last \/ last' = NOCALL)
  BY <1>1, <1>5, HistoryKept DEF FileInv
<1>6. CASE /\ FreeFds # {}
           /\ fds' = [fds EXCEPT ![Min(FreeFds)] = fat16_open(item)]
           /\ last' = [op |-> "open", path |-> path, got |-> fat16_open(item)]
  <2>1. fds' \in [Fds -> Descriptor]
    BY <1>4, <1>6 DEF FileInv
  <2>2. last'.op = "open" /\ last'.path = path /\ last'.got = fat16_open(item)
    BY <1>6
  <2>3. get_fat16_directory_item(path, p)' = get_fat16_directory_item(path, p)
    BY <1>1, SearchFrame
  <2>4. LastOpen'
    BY <1>3, <2>2, <2>3 DEF LastOpen
  <2>5. ReadsOwnBytes'
    BY <2>2 DEF ReadsOwnBytes
  <2>. QED
    BY <1>1, <2>1, <2>4, <2>5 DEF FileInv
<1>. QED
  BY <1>3, <1>5, <1>6 DEF fopen, new_file_descriptor

\* So it does when an allocation fails.
LEMMA NoMemoryStep ==
  ASSUME FileInv, NEW path \in Paths, fopen_out_of_memory(path)
  PROVE  FileInv'
<1>1. disk' = disk /\ disk' \in Layouts
  BY DEF FileInv, fopen_out_of_memory
<1>2. \/ fds' = fds /\ (last' = last \/ last' = NOCALL)
      \/ /\ last' = NOCALL
         /\ \E data \in {NODATA, DIRECTORY} : fds' = [fds EXCEPT ![Min(FreeFds)] = data]
  BY DEF fopen_out_of_memory, new_file_descriptor
<1>3. fds' \in [Fds -> Descriptor]
  BY <1>2 DEF FileInv, Descriptor
<1>4. LastOpen' /\ ReadsOwnBytes'
  BY <1>1, <1>2, HistoryKept DEF FileInv
<1>. QED
  BY <1>1, <1>3, <1>4 DEF FileInv

\* fread preserves the invariant.
LEMMA ReadStep ==
  ASSUME FileInv, NEW fd \in Fds, NEW size \in Lengths, fread(fd, size)
  PROVE  FileInv'
<1>1. disk' = disk /\ disk' \in Layouts
  BY DEF FileInv, fread
<1>2. size \in Nat
  BY GeometryAssumption
<1>. CASE size = 0
  BY <1>1, HistoryKept DEF FileInv, fread
<1>. SUFFICES ASSUME size # 0 PROVE FileInv'
  OBVIOUS
<1>3. PICK d \in Descriptor : d = fds[fd] /\ d.kind = "file"
  BY DEF FileInv, fread, IsOpen
<1>4. d.first \in Nat /\ d.pos \in Nat /\ \A p \in Nat : [d EXCEPT !.pos = p] \in Descriptor
  BY <1>3, OpenDescriptor
<1>5. PICK p, b : p = stream /\ b = read_entries(p, d.first, d.pos, size).bytes
  OBVIOUS
<1>6. last' = [op |-> "read", file |-> d, size |-> size, bytes |-> b]
  BY <1>3, <1>5 DEF fread, fat16_read
<1>7. fds' \in [Fds -> Descriptor]
  <2>1. fds' = [fds EXCEPT ![fd].pos = @ + size]
    BY DEF fread, fat16_read
  <2>2. fds' = [fds EXCEPT ![fd] = [d EXCEPT !.pos = d.pos + size]]
    BY <1>3, <2>1
  <2>3. d.pos + size \in Nat
    BY <1>2, <1>4
  <2>4. [d EXCEPT !.pos = d.pos + size] \in Descriptor
    BY <1>4, <2>3
  <2>. QED
    BY <2>2, <2>4 DEF FileInv
<1>8. LastOpen'
  BY <1>6 DEF LastOpen
<1>9. ReadsOwnBytes'
  <2>1. /\ last'.op = "read" /\ last'.file = d /\ last'.size = size /\ last'.bytes = b
    BY <1>6
  <2>2. SUFFICES ASSUME d.pos + size <= ClusterSize
                 PROVE  /\ Len(b) = size
                        /\ \A i \in 1..size :
                             \/ b[i] = Base(d.first) + d.pos + i - 1
                             \/ /\ ~(Offset(d.pos) = 0 \/ Offset(d.pos) + size <= SectorSize)
                                /\ b[i] = GARBAGE
    BY <2>1 DEF ReadsOwnBytes, Base, ClusterSize, Offset, GARBAGE
  <2>3. /\ Len(b) = size
        /\ \A i \in 1..size :
             \/ b[i] = Base(d.first) + d.pos + i - 1
             \/ /\ b[i] = GARBAGE
                /\ Offset(d.pos) # 0 /\ Offset(d.pos) + size > SectorSize
    <3>1. PICK c \in Nat, o \in Nat : c = d.first /\ o = d.pos
      BY <1>4
    <3>2. o + size <= ClusterSize /\ b = read_entries(p, c, o, size).bytes
      BY <1>5, <2>2, <3>1
    <3>3. FromCluster(b, c, o, size)
      BY <1>2, <3>2, FirstClusterRead
    <3>. QED
      BY <3>1, <3>3 DEF FromCluster
  <2>4. Offset(d.pos) \in Int /\ SectorSize \in Int
    BY <1>4, OffsetShift, GeometryAssumption
  <2>5. Offset(d.pos) + size > SectorSize => ~(Offset(d.pos) + size <= SectorSize)
    BY <1>2, <2>4
  <2>. QED
    BY <2>3, <2>5
<1>. QED
  BY <1>1, <1>7, <1>8, <1>9 DEF FileInv

\* fseek and fclose preserve the invariant.
LEMMA SeekStep ==
  ASSUME FileInv, NEW fd \in Fds, NEW offset \in Lengths, fseek(fd, offset)
  PROVE  FileInv'
<1>1. disk' = disk /\ last' = NOCALL /\ fds' = [fds EXCEPT ![fd].pos = offset]
  BY DEF fseek
<1>2. PICK d \in Descriptor : d = fds[fd] /\ d.kind = "file"
  BY DEF FileInv, fseek, IsOpen
<1>3. [d EXCEPT !.pos = offset] \in Descriptor
  BY <1>2, OpenDescriptor, GeometryAssumption
<1>4. fds' = [fds EXCEPT ![fd] = [d EXCEPT !.pos = offset]]
  BY <1>1, <1>2
<1>5. fds' \in [Fds -> Descriptor]
  BY <1>3, <1>4 DEF FileInv
<1>6. LastOpen' /\ ReadsOwnBytes'
  BY <1>1, HistoryKept DEF FileInv
<1>. QED
  BY <1>1, <1>5, <1>6 DEF FileInv

\* The same for fclose.
LEMMA CloseStep ==
  ASSUME FileInv, NEW fd \in Fds, fclose(fd)
  PROVE  FileInv'
<1>1. disk' = disk /\ last' = NOCALL /\ fds' = [fds EXCEPT ![fd] = CLOSED]
  BY DEF fclose
<1>2. fds' \in [Fds -> Descriptor]
  BY <1>1 DEF FileInv, Descriptor
<1>3. LastOpen' /\ ReadsOwnBytes'
  BY <1>1, HistoryKept DEF FileInv
<1>. QED
  BY <1>1, <1>2, <1>3 DEF FileInv

\* Every step preserves the invariant.
LEMMA FileStep == FileInv /\ [Next]_vars => FileInv'
<1>. SUFFICES ASSUME FileInv, [Next]_vars PROVE FileInv'
  OBVIOUS
<1>1. ASSUME NEW path \in Paths, fopen(path) PROVE FileInv'
  BY <1>1, OpenStep
<1>2. ASSUME NEW path \in Paths, fopen_out_of_memory(path) PROVE FileInv'
  BY <1>2, NoMemoryStep
<1>3. ASSUME NEW fd \in Fds, NEW size \in Lengths, fread(fd, size) PROVE FileInv'
  BY <1>3, ReadStep
<1>4. ASSUME NEW fd \in Fds, NEW offset \in Lengths, fseek(fd, offset) PROVE FileInv'
  BY <1>4, SeekStep
<1>5. ASSUME NEW fd \in Fds, fclose(fd) PROVE FileInv'
  BY <1>5, CloseStep
<1>6. CASE disk' = disk /\ fds' = fds /\ last' = last
  BY <1>6, HistoryKept DEF FileInv
<1>7. (\E fd \in Fds : UseNodata(fd)) \/ Wild \/ UNCHANGED vars
        => disk' = disk /\ fds' = fds /\ last' = last
  BY DEF UseNodata, Wild, vars
<1>. QED
  BY <1>1, <1>2, <1>3, <1>4, <1>5, <1>6, <1>7 DEF Next

\* The invariant holds in every reachable state.
THEOREM FilesInvariant == Spec => []FileInv
BY FileInit, FileStep, PTL DEF Spec

\* What fopen returned for a clear way is the denoted file.
LEMMA InvOpensRightFile == FileInv => OpensRightFile
<1>. SUFFICES ASSUME FileInv, last.op = "open", WayIsClear(last.path)
              PROVE  {Opened(e.first, e.size, 0) :
                        e \in {e \in Denoted(last.path)[Len(last.path)] : ~IsDirectory(e)}}
                       = {last.got} \ {NODATA, DIRECTORY}
  BY DEF OpensRightFile
<1>1. PICK q, p : /\ q = last.path /\ q \in Paths
                  /\ last.got = fat16_open(get_fat16_directory_item(q, p)[Len(q)])
  BY Zenon DEF FileInv, LastOpen
<1>2. q \in Seq(Seq(Byte)) /\ disk \in Layouts /\ WayIsClear(q)
  BY <1>1, GeometryAssumption DEF FileInv
<1>3. Agrees(get_fat16_directory_item(q, p)[Len(q)], Denoted(q)[Len(q)], Len(q))
  BY <1>2, SearchAgrees
<1>4. {Opened(e.first, e.size, 0) : e \in {e \in Denoted(q)[Len(q)] : ~IsDirectory(e)}}
        = {fat16_open(get_fat16_directory_item(q, p)[Len(q)])} \ {NODATA, DIRECTORY}
  BY <1>3, OpenAgrees
<1>. QED
  BY <1>1, <1>4

\* A read that stays in the first cluster of its file delivers the bytes of
\* that file, whoever used the shared stream before (fat16.c:352-421,
\* stream.c:24-51).
THEOREM FilesReadOwnBytes == Spec => []ReadsOwnBytes
<1>1. FileInv => ReadsOwnBytes
  BY DEF FileInv
<1>. QED
  BY <1>1, FilesInvariant, PTL

\* fopen gives the file that the path denotes by the rules of FAT and no
\* other, on every disk, one with long names too, and for paths of any depth:
\* as long as the directories on the way end in their first cluster and hold
\* no deleted and no unreadable entries.  load_directory reads them through
\* the shared stream (fat16.c:188-217, 339-445, 467-507).
THEOREM FilesOpenRightFile == Spec => []OpensRightFile
BY InvOpensRightFile, FilesInvariant, PTL

=============================================================================
