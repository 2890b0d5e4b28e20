------------------------- MODULE ProgramImageProofs -------------------------
(***************************************************************************)
(* Proofs about the address space of a new program, for every page size,   *)
(* every place of image and stack, and every file the linker can make.     *)
(***************************************************************************)
EXTENDS ProgramImage, TLAPS

-----------------------------------------------------------------------------
(* Pages and addresses.                                                    *)

\* Multiplication by the page size is monotone.
LEMMA MulMono ==
  ASSUME NEW a \in Int, NEW b \in Int, a <= b
  PROVE  PageSize * a <= PageSize * b
<1>1. PageSize \in Nat
  BY ImageAssumption
<1>2. PICK d \in Nat : b = a + d
  OBVIOUS
<1>3. PageSize * d >= 0 /\ PageSize * b = PageSize * a + PageSize * d
  BY <1>1, <1>2
<1>. QED
  BY <1>1, <1>3

\* An address is its page and its offset: m is where page q begins, named so
\* that no proof need multiply it out.
Split(a, q, r, m) == /\ q = a \div PageSize /\ r = a % PageSize
                     /\ m = PageSize * q /\ a = m + r

\* Every address has them.
LEMMA DivMod ==
  ASSUME NEW a \in Int
  PROVE  \E q \in Int, r \in 0..(PageSize - 1), m \in Int : Split(a, q, r, m)
<1>1. PageSize \in Nat /\ PageSize > 0 /\ PageSize \in Int
  BY ImageAssumption
<1>2. a \div PageSize \in Int /\ a % PageSize \in 0..(PageSize - 1)
  BY <1>1
<1>3. PICK q \in Int, r \in 0..(PageSize - 1) : q = a \div PageSize /\ r = a % PageSize
  BY <1>2
<1>4. PICK m \in Int : m = PageSize * q
  BY <1>1
<1>5. a = m + r
  BY <1>1, <1>3, <1>4
<1>. QED
  BY <1>3, <1>4, <1>5 DEF Split

\* And only one page and one offset make it.
LEMMA DivIs ==
  ASSUME NEW q \in Int, NEW r \in 0..(PageSize - 1)
  PROVE  (PageSize * q + r) \div PageSize = q /\ (PageSize * q + r) % PageSize = r
  BY ImageAssumption

\* The page of a sum, by the pages and offsets of its parts.
LEMMA DivMono ==
  ASSUME NEW a \in Int, NEW b \in Int, a <= b
  PROVE  a \div PageSize <= b \div PageSize
<1>1. PICK p \in Int, r \in 0..(PageSize - 1), y \in Int : Split(a, p, r, y)
  BY DivMod
<1>2. PICK q \in Int, t \in 0..(PageSize - 1), x \in Int : Split(b, q, t, x)
  BY DivMod
<1>3. ~(q + 1 <= p)
  <2>. SUFFICES ASSUME q + 1 <= p PROVE FALSE
    OBVIOUS
  <2>1. PageSize * (q + 1) <= PageSize * p
    BY MulMono
  <2>2. PageSize * (q + 1) = PageSize * q + PageSize /\ PageSize \in Nat
    BY ImageAssumption
  <2>3. x + PageSize <= y
    BY <1>1, <1>2, <2>1, <2>2 DEF Split
  <2>. QED
    BY <1>1, <1>2, <2>2, <2>3 DEF Split
<1>. QED
  BY <1>1, <1>2, <1>3 DEF Split

\* A multiple of the page size is where its page begins.
LEMMA AlignedIs ==
  ASSUME NEW a \in Int, a % PageSize = 0
  PROVE  \E q \in Int : q = a \div PageSize /\ a = PageSize * q
<1>1. PICK q \in Int, r \in 0..(PageSize - 1), m \in Int : Split(a, q, r, m)
  BY DivMod
<1>. QED
  BY <1>1 DEF Split

\* algin_to_lower_page gives the beginning of the page.
LEMMA LowerPage ==
  ASSUME NEW a \in Int
  PROVE  /\ algin_to_lower_page(a) = PageSize * (a \div PageSize)
         /\ algin_to_lower_page(a) \in Int
         /\ algin_to_lower_page(a) \div PageSize = a \div PageSize
         /\ algin_to_lower_page(a) % PageSize = 0
<1>1. PICK q \in Int, r \in 0..(PageSize - 1), m \in Int : Split(a, q, r, m)
  BY DivMod
<1>2. algin_to_lower_page(a) = m
  BY <1>1 DEF algin_to_lower_page, Split
<1>3. 0 \in 0..(PageSize - 1) /\ PageSize * q + 0 = m
  BY <1>1, ImageAssumption DEF Split
<1>4. m \div PageSize = q /\ m % PageSize = 0
  BY <1>3, DivIs
<1>. QED
  BY <1>1, <1>2, <1>4 DEF Split

\* The number of pages map_page_range enters from an aligned address on.
LEMMA PageCount ==
  ASSUME NEW a \in Int, a % PageSize = 0, NEW bytes \in Nat
  PROVE  (align_to_paging_address(a + bytes) - a) \div PageSize
           = bytes \div PageSize + 1
<1>0. PageSize \in Nat /\ PageSize > 0
  BY ImageAssumption
<1>. bytes \in Int
  OBVIOUS
<1>1. PICK p \in Int, m \in Int : a = m /\ m = PageSize * p
  BY AlignedIs
<1>2. PICK q \in Int, r \in 0..(PageSize - 1), k \in Int : Split(bytes, q, r, k)
  BY DivMod
<1>3. PICK u \in Int : u = p + q
  BY <1>1, <1>2 DEF Split
<1>4. PageSize * u = m + k
  BY <1>0, <1>1, <1>2, <1>3 DEF Split
<1>5. (a + bytes) % PageSize = r
  <2>1. a + bytes = PageSize * u + r
    BY <1>1, <1>2, <1>4 DEF Split
  <2>. QED
    BY <2>1, DivIs
<1>6. align_to_paging_address(a + bytes) - a = k + PageSize
  BY <1>0, <1>1, <1>2, <1>5 DEF align_to_paging_address, Split
<1>7. k + PageSize = PageSize * (q + 1) + 0
  BY <1>0, <1>2 DEF Split
<1>8. (k + PageSize) \div PageSize = q + 1
  BY <1>0, <1>7, DivIs
<1>. QED
  BY <1>2, <1>6, <1>8 DEF Split

\* Pages and offsets add up when one of the addresses is aligned.
LEMMA AddAligned ==
  ASSUME NEW a \in Int, a % PageSize = 0, NEW b \in Int
  PROVE  /\ (a + b) \div PageSize = a \div PageSize + b \div PageSize
         /\ (a + b) % PageSize = b % PageSize
<1>0. PageSize \in Nat
  BY ImageAssumption
<1>1. PICK p \in Int : p = a \div PageSize /\ a = PageSize * p
  BY AlignedIs
<1>2. PICK q \in Int, r \in 0..(PageSize - 1), m \in Int : Split(b, q, r, m)
  BY DivMod
<1>3. PICK u \in Int : u = p + q
  OBVIOUS
<1>4. PageSize * u = a + m
  BY <1>0, <1>1, <1>2, <1>3 DEF Split
<1>5. a + b = PageSize * u + r
  BY <1>2, <1>4 DEF Split
<1>6. (a + b) \div PageSize = u /\ (a + b) % PageSize = r
  BY <1>5, DivIs
<1>7. p = a \div PageSize
  BY <1>1
<1>8. q = b \div PageSize /\ r = b % PageSize
  BY <1>2 DEF Split
<1>. QED
  BY <1>3, <1>6, <1>7, <1>8

\* Addresses in ascending pages.
LEMMA LaterPage ==
  ASSUME NEW x \in Int, NEW y \in Int,
         algin_to_lower_page(x) < algin_to_lower_page(y)
  PROVE  x \div PageSize < y \div PageSize
<1>1. PICK p \in Int, q \in Int : p = x \div PageSize /\ q = y \div PageSize
  BY ImageAssumption
<1>2. PICK m \in Int, n \in Int : /\ m = algin_to_lower_page(x) /\ m = PageSize * p
                                  /\ n = algin_to_lower_page(y) /\ n = PageSize * q
  BY <1>1, LowerPage
<1>3. q <= p => n <= m
  BY <1>2, MulMono
<1>. QED
  BY <1>1, <1>2, <1>3

\* A segment whose offset in its page and whose length in its last page fit
\* into one page does not reach behind the pages map_page_range enters.
LEMMA SegmentCovered ==
  ASSUME NEW a \in Nat, NEW n \in Nat,
         (a % PageSize) + (n % PageSize) <= PageSize
  PROVE  (a + n - 1) \div PageSize <= a \div PageSize + n \div PageSize
<1>0. PageSize \in Nat /\ PageSize > 0
  BY ImageAssumption
<1>1. PICK p \in Int, r \in 0..(PageSize - 1), m \in Int : Split(a, p, r, m)
  BY DivMod
<1>2. PICK q \in Int, t \in 0..(PageSize - 1), k \in Int : Split(n, q, t, k)
  BY DivMod
<1>3. PICK u \in Int : u = p + q
  OBVIOUS
<1>4. PageSize * u = m + k
  BY <1>0, <1>1, <1>2, <1>3 DEF Split
<1>5. PICK e \in Int : e = PageSize * u + (PageSize - 1)
  BY <1>0, <1>4
<1>6. e \div PageSize = u
  <2>1. PageSize - 1 \in 0..(PageSize - 1)
    BY <1>0
  <2>. QED
    BY <1>5, <2>1, DivIs
<1>7. a + n - 1 <= e
  BY <1>0, <1>1, <1>2, <1>4, <1>5 DEF Split
<1>8. (a + n - 1) \div PageSize <= e \div PageSize
  BY <1>7, DivMono
<1>. QED
  BY <1>1, <1>2, <1>3, <1>6, <1>8 DEF Split

\* A header that ends a page before an aligned address is mapped below it.
LEMMA MappedBelow ==
  ASSUME NEW a \in Nat, NEW n \in Nat, NEW top \in Nat, top % PageSize = 0,
         a + n + PageSize <= top
  PROVE  a \div PageSize + n \div PageSize < top \div PageSize
<1>0. PageSize \in Nat /\ PageSize > 0
  BY ImageAssumption
<1>. a \in Int /\ n \in Int
  OBVIOUS
<1>1. PICK p \in Int, r \in 0..(PageSize - 1), m \in Int : Split(a, p, r, m)
  BY DivMod
<1>2. PICK q \in Int, t \in 0..(PageSize - 1), k \in Int : Split(n, q, t, k)
  BY DivMod
<1>3. PICK e \in Int : e = top \div PageSize /\ top = PageSize * e
  BY AlignedIs
<1>4. PICK u \in Int : u = p + q
  OBVIOUS
<1>5. PageSize * u = m + k
  BY <1>0, <1>1, <1>2, <1>4 DEF Split
<1>6. e <= u => top <= m + k
  BY <1>3, <1>5, MulMono
<1>. QED
  BY <1>0, <1>1, <1>2, <1>3, <1>4, <1>6 DEF Split

\* From pages back to bytes: an address b bytes further on lies b bytes
\* further in memory.
LEMMA ByteOf ==
  ASSUME NEW a \in Int, NEW target \in Int, a % PageSize = target % PageSize,
         NEW b \in Int, NEW page,
         page = target \div PageSize + ((a + b) \div PageSize - a \div PageSize)
  PROVE  page * PageSize + ((a + b) % PageSize) = target + b
<1>0. PageSize \in Nat
  BY ImageAssumption
<1>. a + b \in Int
  OBVIOUS
<1>1. PICK p \in Int, r \in 0..(PageSize - 1), m \in Int : Split(a, p, r, m)
  BY DivMod
<1>2. PICK s \in Int, r2 \in 0..(PageSize - 1), k \in Int : Split(target, s, r2, k)
  BY DivMod
<1>3. PICK u \in Int, w \in 0..(PageSize - 1), l \in Int : Split(a + b, u, w, l)
  BY DivMod
<1>4. page = s + (u - p) /\ w = (a + b) % PageSize
  BY <1>1, <1>2, <1>3 DEF Split
<1>5. k + (l - m) + w = target + b
  BY <1>1, <1>2, <1>3 DEF Split
<1>6. m = PageSize * p /\ k = PageSize * s /\ l = PageSize * u
  BY <1>1, <1>2, <1>3 DEF Split
<1>7. (s + (u - p)) * PageSize = k + (l - m)
  BY <1>0, <1>6
<1>8. page * PageSize = k + (l - m)
  BY <1>4, <1>7
<1>. QED
  BY <1>4, <1>5, <1>8

\* The pages of a buffer that begins on a page.
LEMMA InBuffer ==
  ASSUME NEW a \in Nat, a % PageSize = 0, NEW n \in Nat, NEW j \in Nat,
         PageSize * j < n
  PROVE  a \div PageSize + j \in PagesOf(a, n)
<1>0. PageSize \in Nat /\ PageSize > 0
  BY ImageAssumption
<1>1. PICK p \in Int : p = a \div PageSize /\ a = PageSize * p
  BY AlignedIs
<1>2. PICK k \in Int : k = PageSize * j /\ k >= 0
  BY <1>0
<1>3. PICK u \in Int : u = p + j
  OBVIOUS
<1>4. PageSize * u + 0 = a + k /\ 0 \in 0..(PageSize - 1)
  BY <1>0, <1>1, <1>2, <1>3
<1>5. (a + k) \div PageSize = u
  BY <1>4, DivIs
<1>6. a + k \in a..(a + n - 1)
  BY <1>2
<1>. QED
  BY <1>1, <1>3, <1>5, <1>6 DEF PagesOf

-----------------------------------------------------------------------------
(* What map_page_range does, in pages.                                     *)

Mapped(dir, first, frame, n, writable) ==
  [v \in Pages |-> IF v \in first..(first + n)
                   THEN [page |-> frame + (v - first), writable |-> writable]
                   ELSE dir[v]]

\* map_page_range in these terms: one page more than the length fills.
LEMMA MapIs ==
  ASSUME NEW dir, NEW virtual \in Int, NEW physical \in Int, physical % PageSize = 0,
         NEW bytes \in Nat, NEW writable
  PROVE  map_page_range(dir, virtual, physical, bytes, writable)
           = Mapped(dir, virtual \div PageSize, physical \div PageSize,
                    bytes \div PageSize, writable)
<1>1. PICK p \in Int, q \in Int, n \in Int :
        /\ p = virtual \div PageSize /\ q = physical \div PageSize
        /\ n = bytes \div PageSize
  BY ImageAssumption
<1>2. (align_to_paging_address(physical + bytes) - physical) \div PageSize = n + 1
  BY <1>1, PageCount
<1>3. p..(p + (n + 1) - 1) = p..(p + n)
  BY <1>1
<1>. QED
  BY <1>1, <1>2, <1>3 DEF map_page_range, Mapped

\* The four addresses are natural numbers and begin pages.
LEMMA Places ==
  /\ PageSize \in Nat /\ PageSize > 0
  /\ ProgramAddress \in Nat /\ ProgramAddress % PageSize = 0
  /\ StackSize \in Nat /\ StackSize % PageSize = 0
  /\ ImageAddress \in Nat /\ ImageAddress % PageSize = 0
  /\ StackMemory \in Nat /\ StackMemory % PageSize = 0
<1>1. PageSize \in Nat /\ PageSize > 0
  BY ImageAssumption
<1>2. ProgramAddress \in Nat /\ ProgramAddress % PageSize = 0
  BY ImageAssumption
<1>3. StackSize \in Nat /\ StackSize % PageSize = 0
  BY ImageAssumption
<1>4. ImageAddress \in Nat /\ ImageAddress % PageSize = 0
  BY ImageAssumption
<1>5. StackMemory \in Nat /\ StackMemory % PageSize = 0
  BY ImageAssumption
<1>. QED
  BY <1>1, <1>2, <1>3, <1>4, <1>5

\* The stack begins a page, and its pages with the one behind them end below
\* the program.
LEMMA StackPages ==
  /\ StackEnd \in Nat /\ StackEnd % PageSize = 0
  /\ StackEnd \div PageSize + StackSize \div PageSize < ProgramAddress \div PageSize
<1>1. PICK p \in Int : p = ProgramAddress \div PageSize /\ ProgramAddress = PageSize * p
  BY Places, AlignedIs
<1>2. PICK k \in Int : k = StackSize \div PageSize /\ StackSize = PageSize * k
  BY Places, AlignedIs
<1>3. PICK u \in Int : u = p - 1 - k
  OBVIOUS
<1>4. StackEnd = PageSize * u
  <2>1. PageSize * u = PageSize * p - PageSize - PageSize * k
    BY <1>3, Places
  <2>. QED
    BY <1>1, <1>2, <2>1, Places DEF StackEnd, StackTop
<1>5. StackEnd \in Nat
  BY StackAssumption, Places DEF StackEnd, StackTop
<1>6. StackEnd \div PageSize = u /\ StackEnd % PageSize = 0
  <2>1. PageSize * u + 0 = StackEnd /\ 0 \in 0..(PageSize - 1)
    BY <1>4, <1>5, Places
  <2>. QED
    BY <2>1, DivIs
<1>7. u + k < p
  BY <1>3
<1>. QED
  BY <1>1, <1>2, <1>5, <1>6, <1>7

\* An address below SpaceEnd lies on a page.
LEMMA OnPage ==
  ASSUME NEW a \in Nat, a < SpaceEnd
  PROVE  a \div PageSize \in Pages
<1>1. PICK q \in Int, r \in 0..(PageSize - 1), m \in Int : Split(a, q, r, m)
  BY DivMod
<1>2. m = PageSize * q /\ a = m + r /\ q = a \div PageSize
  BY <1>1 DEF Split
<1>3. LastPage \in Nat /\ PageSize \in Nat /\ PageSize > 0
  BY ImageAssumption
<1>4. ~(LastPage + 1 <= q)
  <2>1. LastPage + 1 <= q => PageSize * (LastPage + 1) <= PageSize * q
    BY <1>3, MulMono
  <2>2. SpaceEnd = PageSize * (LastPage + 1) /\ SpaceEnd \in Int
    BY <1>3 DEF SpaceEnd
  <2>3. LastPage + 1 <= q => SpaceEnd <= m
    BY <1>2, <2>1, <2>2
  <2>. QED
    BY <1>2, <2>2, <2>3
<1>5. ~(q <= -1)
  <2>1. q <= -1 => PageSize * q <= PageSize * (-1)
    BY MulMono
  <2>2. PageSize * (-1) = -PageSize
    BY <1>3
  <2>3. q <= -1 => m <= -PageSize
    BY <1>2, <2>1, <2>2
  <2>. QED
    BY <1>2, <1>3, <2>3
<1>. QED
  BY <1>2, <1>3, <1>4, <1>5 DEF Pages

-----------------------------------------------------------------------------
(* The inductive invariant.  The two properties speak of the moment when   *)
(* the program starts; the invariant says what each mapping has entered,   *)
(* and that the later ones leave it alone.                                 *)

ImageType ==
  /\ pc \in {"loaded", "elf", "binary", "stack", "main"}
  /\ file \in Files
  /\ next \in Nat \ {0}
  /\ directory \in [Pages -> [page : Int, writable : BOOLEAN]]

\* The mapping of the kind the file asks for.
RightKind == /\ pc = "loaded" => next = 1
             /\ pc = "elf" => file.valid
             /\ pc = "binary" => ~file.valid
             /\ pc \in {"stack", "main"} /\ file.valid => next > Len(file.headers)

SegmentAt(dir, h) ==
  \A v \in Pages :
    v \in (h.vaddr \div PageSize)..((h.vaddr + h.memsz - 1) \div PageSize) =>
      /\ dir[v].page = (ImageAddress + h.offset) \div PageSize + (v - h.vaddr \div PageSize)
      /\ dir[v].writable = h.writable

BinaryAt(dir, size) ==
  \A v \in Pages :
    v \in (ProgramAddress \div PageSize)..((ProgramAddress \div PageSize) + (size \div PageSize)) =>
      dir[v].page = ImageAddress \div PageSize + (v - ProgramAddress \div PageSize)

StackAt(dir) ==
  \A v \in Pages :
    v \in (StackEnd \div PageSize)..((StackEnd \div PageSize) + (StackSize \div PageSize)) =>
      /\ dir[v].page = StackMemory \div PageSize + (v - StackEnd \div PageSize)
      /\ dir[v].writable

SegmentsMapped ==
  file.valid /\ WellLaidOut =>
    \A i \in Loaded : i < next => SegmentAt(directory, file.headers[i])

BinaryMapped ==
  ~file.valid /\ pc \in {"stack", "main"} => BinaryAt(directory, file.size)

StackMapped == pc = "main" => StackAt(directory)

\* A page of the file, of the stack or the one behind it, or the overhang.
Confined(page) == \/ page \in PagesOf(ImageAddress, file.size)
                  \/ page \in PagesOf(StackMemory, StackSize + 1)
                  \/ OverhangsFile

WritesSoFar == \A v \in Pages : directory[v].writable => Confined(directory[v].page)

ImageInv == /\ ImageType /\ RightKind
            /\ SegmentsMapped /\ BinaryMapped /\ StackMapped
            /\ WritesSoFar

-----------------------------------------------------------------------------
(* The steps.                                                              *)

\* Entering a range keeps a directory a directory.
LEMMA MappedType ==
  ASSUME NEW dir \in [Pages -> [page : Int, writable : BOOLEAN]],
         NEW first \in Int, NEW frame \in Int, NEW n \in Int, NEW w \in BOOLEAN
  PROVE  Mapped(dir, first, frame, n, w) \in [Pages -> [page : Int, writable : BOOLEAN]]
<1>1. \A v \in Pages : v \in Int
  BY DEF Pages
<1>. QED
  BY <1>1 DEF Mapped

\* What is entered where, and what stays.
LEMMA MappedAt ==
  ASSUME NEW dir, NEW first \in Int, NEW frame \in Int, NEW n \in Int, NEW w,
         NEW v \in Pages
  PROVE  /\ v \in first..(first + n) =>
              /\ Mapped(dir, first, frame, n, w)[v].page = frame + (v - first)
              /\ Mapped(dir, first, frame, n, w)[v].writable = w
         /\ v \notin first..(first + n) => Mapped(dir, first, frame, n, w)[v] = dir[v]
BY DEF Mapped

\* The headers of a file, and what FilesAssumption says of them.
LEMMA HeadersTyped ==
  ASSUME NEW f \in Files
  PROVE  /\ f.size \in Nat /\ f.valid \in BOOLEAN
         /\ Len(f.headers) \in Nat /\ DOMAIN f.headers = 1..Len(f.headers)
         /\ ProgramAddress + f.size <= SpaceEnd
         /\ \A i \in DOMAIN f.headers :
               /\ f.headers[i].offset \in Nat /\ f.headers[i].vaddr \in Nat
               /\ f.headers[i].memsz \in Nat /\ f.headers[i].writable \in BOOLEAN
               /\ LinkedAt(f.headers[i])
<1>1. f.headers \in Seq(Headers) /\ \A i \in DOMAIN f.headers : LinkedAt(f.headers[i])
  BY FilesAssumption
<1>2. \A i \in DOMAIN f.headers : f.headers[i] \in Headers
  BY <1>1
<1>3. \A h \in Headers : /\ h.offset \in Nat /\ h.vaddr \in Nat
                         /\ h.memsz \in Nat /\ h.writable \in BOOLEAN
  BY DEF Headers
<1>4. \A i \in DOMAIN f.headers :
        /\ f.headers[i].offset \in Nat /\ f.headers[i].vaddr \in Nat
        /\ f.headers[i].memsz \in Nat /\ f.headers[i].writable \in BOOLEAN
  BY <1>2, <1>3
<1>5. /\ f.size \in Nat /\ f.valid \in BOOLEAN
      /\ ProgramAddress + f.size <= SpaceEnd
  BY FilesAssumption
<1>6. Len(f.headers) \in Nat /\ DOMAIN f.headers = 1..Len(f.headers)
  BY <1>1
<1>. QED
  BY <1>1, <1>4, <1>5, <1>6

\* Nothing is mapped yet.
LEMMA ImageInit == Init => ImageInv
<1>. SUFFICES ASSUME Init PROVE ImageInv
  OBVIOUS
<1>1. ImageType
  BY DEF Init, ImageType, NewDirectory, Pages
<1>2. WritesSoFar
  BY DEF Init, NewDirectory, WritesSoFar
<1>3. RightKind /\ BinaryMapped /\ StackMapped
  BY DEF Init, RightKind, BinaryMapped, StackMapped
<1>4. SegmentsMapped
  <2>1. \A i \in Loaded : ~(i < next)
    BY <1>1, HeadersTyped DEF Init, ImageType, Loaded
  <2>. QED
    BY <2>1 DEF SegmentsMapped
<1>. QED
  BY <1>1, <1>2, <1>3, <1>4 DEF ImageInv

\* A segment that does not overhang its file is mapped to the file's pages.
LEMMA SegmentConfined ==
  ASSUME NEW offset \in Nat, NEW memsz \in Nat, NEW size \in Nat, NEW j \in Nat,
         j <= memsz \div PageSize,
         ~(algin_to_lower_page(offset) + (memsz \div PageSize + 1) * PageSize
             > algin_to_lower_page(size - 1) + PageSize)
  PROVE  (ImageAddress + offset) \div PageSize + j \in PagesOf(ImageAddress, size)
<1>. offset \in Int /\ memsz \in Int /\ size - 1 \in Int
  OBVIOUS
<1>1. PICK q \in Int, r \in 0..(PageSize - 1), m \in Int : Split(offset, q, r, m)
  BY DivMod
<1>2. PICK e \in Int, t \in 0..(PageSize - 1), l \in Int : Split(size - 1, e, t, l)
  BY DivMod
<1>3. PICK n \in Int : n = memsz \div PageSize
  BY Places
<1>4. /\ m = PageSize * q /\ offset = m + r /\ q = offset \div PageSize
      /\ size - 1 = l + t
      /\ algin_to_lower_page(offset) = m /\ algin_to_lower_page(size - 1) = l
  BY <1>1, <1>2 DEF Split, algin_to_lower_page
<1>5. PICK x \in Int, y \in Int : x = PageSize * n /\ y = PageSize * j
  BY Places
<1>6. y <= x
  BY <1>3, <1>5, MulMono
<1>7. (n + 1) * PageSize = x + PageSize
  BY <1>5, Places
<1>8. m + x <= l
  <2>1. ~(m + (n + 1) * PageSize > l + PageSize)
    BY <1>3, <1>4
  <2>. QED
    BY <1>7, <2>1, Places
<1>9. q \in Nat
  <2>1. 0 \div PageSize <= offset \div PageSize /\ 0 \div PageSize = 0
    BY DivMono, Places
  <2>. QED
    BY <1>4, <2>1
<1>10. PICK u \in Nat : u = q + j
  BY <1>9
<1>11. PageSize * u = m + y
  BY <1>4, <1>5, <1>10, Places
<1>12. PageSize * u < size
  BY <1>4, <1>6, <1>8, <1>11
<1>13. ImageAddress \div PageSize + u \in PagesOf(ImageAddress, size)
  BY <1>12, Places, InBuffer
<1>14. (ImageAddress + offset) \div PageSize = ImageAddress \div PageSize + q
  BY <1>4, Places, AddAligned
<1>15. ImageAddress \div PageSize \in Int
  BY Places
<1>16. (ImageAddress + offset) \div PageSize + j = ImageAddress \div PageSize + u
  BY <1>10, <1>14, <1>15
<1>. QED
  BY <1>13, <1>16

\* One program header.
LEMMA ElfStep ==
  ASSUME ImageInv, process_map_memory_to_elf
  PROVE  ImageInv'
<1>1. PICK h, k : h = file.headers[next] /\ k = next
  OBVIOUS
<1>2. /\ pc = "elf" /\ next <= Len(file.headers)
      /\ directory' = map_page_range(directory, algin_to_lower_page(h.vaddr),
                        algin_to_lower_page(ImageAddress + h.offset), h.memsz, h.writable)
      /\ next' = next + 1 /\ pc' = pc /\ file' = file
  BY <1>1 DEF process_map_memory_to_elf
<1>3. ImageType /\ RightKind /\ SegmentsMapped /\ WritesSoFar
  BY DEF ImageInv
<1>4. /\ file \in Files /\ next \in Nat \ {0} /\ next \in DOMAIN file.headers
      /\ directory \in [Pages -> [page : Int, writable : BOOLEAN]]
      /\ DOMAIN file.headers = 1..Len(file.headers) /\ Len(file.headers) \in Nat
  BY <1>2, <1>3, HeadersTyped DEF ImageType
<1>5. /\ \A i \in DOMAIN file.headers :
            /\ file.headers[i].offset \in Nat /\ file.headers[i].vaddr \in Nat
            /\ file.headers[i].memsz \in Nat /\ file.headers[i].writable \in BOOLEAN
            /\ LinkedAt(file.headers[i])
      /\ file.size \in Nat
  BY <1>4, HeadersTyped
<1>6. /\ h.offset \in Nat /\ h.vaddr \in Nat /\ h.memsz \in Nat
      /\ h.writable \in BOOLEAN /\ LinkedAt(h)
  BY <1>1, <1>4, <1>5
<1>7. PICK first \in Int, frame \in Int, n \in Int :
        /\ first = h.vaddr \div PageSize
        /\ frame = (ImageAddress + h.offset) \div PageSize
        /\ n = h.memsz \div PageSize
  BY <1>6, Places
<1>8. directory' = Mapped(directory, first, frame, n, h.writable)
  <2>1. h.vaddr \in Int /\ ImageAddress + h.offset \in Int
    BY <1>6, Places
  <2>2. PICK virtual \in Int, physical \in Int :
          /\ virtual = algin_to_lower_page(h.vaddr)
          /\ physical = algin_to_lower_page(ImageAddress + h.offset)
          /\ virtual \div PageSize = first
          /\ physical \div PageSize = frame
          /\ physical % PageSize = 0
    BY <1>7, <2>1, LowerPage
  <2>. QED
    BY <1>2, <1>6, <1>7, <2>2, MapIs
<1>9. \A v \in Pages :
        /\ v \in Int
        /\ v \in first..(first + n) =>
             directory'[v].page = frame + (v - first) /\ directory'[v].writable = h.writable
        /\ v \notin first..(first + n) => directory'[v] = directory[v]
  BY <1>7, <1>8, MappedAt DEF Pages
<1>10. ImageType'
  <2>1. directory' \in [Pages -> [page : Int, writable : BOOLEAN]]
    BY <1>4, <1>6, <1>7, <1>8, MappedType
  <2>. QED
    BY <1>2, <1>3, <1>4, <2>1 DEF ImageType
<1>11. RightKind' /\ BinaryMapped' /\ StackMapped'
  BY <1>2, <1>3 DEF RightKind, BinaryMapped, StackMapped
<1>12. SegmentsMapped'
  <2>. SUFFICES ASSUME WellLaidOut, NEW i \in Loaded, i < k + 1
                PROVE  SegmentAt(directory', file.headers[i])
    BY <1>1, <1>2 DEF SegmentsMapped, WellLaidOut, Loaded
  <2>1. PICK g : g = file.headers[i]
    OBVIOUS
  <2>2. /\ i \in DOMAIN file.headers /\ i \in Nat /\ g.type = "LOAD"
        /\ g.vaddr \in Nat /\ g.memsz \in Nat /\ LinkedAt(g)
    BY <1>4, <1>5, <2>1 DEF Loaded
  <2>3. PICK gfirst \in Int, glast \in Int :
          gfirst = g.vaddr \div PageSize /\ glast = (g.vaddr + g.memsz - 1) \div PageSize
    BY <2>2, Places
  <2>4. CASE i = k
    <3>1. g = h
      BY <1>1, <2>1, <2>4
    <3>2. (h.vaddr % PageSize) + (h.memsz % PageSize) <= PageSize
      BY <2>1, <3>1 DEF WellLaidOut
    <3>3. glast <= first + n
      BY <1>6, <1>7, <2>3, <3>1, <3>2, SegmentCovered
    <3>4. \A v \in Pages : v \in gfirst..glast => v \in first..(first + n)
      BY <1>7, <1>9, <2>3, <3>1, <3>3
    <3>5. \A v \in Pages : v \in gfirst..glast =>
             directory'[v].page = frame + (v - first) /\ directory'[v].writable = h.writable
      BY <1>9, <3>4
    <3>. QED
      BY <1>7, <2>1, <2>3, <3>1, <3>5 DEF SegmentAt
  <2>5. CASE i # k
    <3>1. i < k /\ SegmentAt(directory, g)
      BY <1>1, <1>2, <1>3, <1>4, <2>1, <2>2, <2>5 DEF SegmentsMapped, RightKind
    <3>2. \A v \in gfirst..glast : v \notin first..(first + n)
      <4>1. CASE h.type = "LOAD"
        <5>1. k \in Loaded
          BY <1>1, <1>4, <4>1 DEF Loaded
        <5>2. algin_to_lower_page(g.vaddr + g.memsz - 1) < algin_to_lower_page(h.vaddr)
          BY <1>1, <2>1, <3>1, <5>1 DEF WellLaidOut
        <5>3. glast < first
          BY <1>6, <1>7, <2>2, <2>3, <5>2, LaterPage
        <5>. QED
          BY <5>3
      <4>2. CASE h.type # "LOAD"
        <5>1. h.vaddr + h.memsz + PageSize <= ProgramAddress
          BY <1>6, <4>2 DEF LinkedAt
        <5>2. first + n < ProgramAddress \div PageSize
          BY <1>6, <1>7, <5>1, Places, MappedBelow
        <5>3. ProgramAddress <= g.vaddr
          BY <2>2, Places DEF LinkedAt
        <5>4. ProgramAddress \div PageSize <= gfirst /\ ProgramAddress \div PageSize \in Int
          BY <2>2, <2>3, <5>3, Places, DivMono
        <5>. QED
          BY <5>2, <5>4
      <4>. QED
        BY <4>1, <4>2
    <3>3. \A v \in Pages : v \in gfirst..glast => directory'[v] = directory[v]
      BY <1>9, <3>2
    <3>. QED
      BY <2>1, <2>3, <3>1, <3>3 DEF SegmentAt
  <2>. QED
    BY <2>4, <2>5
<1>13. WritesSoFar'
  <2>. SUFFICES ASSUME NEW v \in Pages, directory'[v].writable
                PROVE  Confined(directory'[v].page)
    BY <1>2 DEF WritesSoFar, Confined, OverhangsFile, Pages
  <2>1. CASE v \in first..(first + n)
    <3>1. h.writable /\ directory'[v].page = frame + (v - first)
      BY <1>9, <2>1
    <3>2. PICK j \in Nat : j = v - first /\ j <= n
      BY <1>9, <2>1
    <3>3. CASE OverhangsFile
      BY <3>3 DEF Confined
    <3>4. CASE ~OverhangsFile
      <4>1. ~(algin_to_lower_page(h.offset) + (h.memsz \div PageSize + 1) * PageSize
                > algin_to_lower_page(file.size - 1) + PageSize)
        BY <1>1, <1>2, <1>3, <1>4, <3>1, <3>4 DEF OverhangsFile, RightKind
      <4>2. (ImageAddress + h.offset) \div PageSize + j \in PagesOf(ImageAddress, file.size)
        BY <1>5, <1>6, <1>7, <3>2, <4>1, SegmentConfined
      <4>. QED
        BY <1>7, <3>1, <3>2, <4>2 DEF Confined
    <3>. QED
      BY <3>3, <3>4
  <2>2. CASE v \notin first..(first + n)
    BY <1>3, <1>9, <2>2 DEF WritesSoFar
  <2>. QED
    BY <2>1, <2>2
<1>. QED
  BY <1>10, <1>11, <1>12, <1>13 DEF ImageInv

\* elf_process_loaded looks at the file and maps nothing.
LEMMA LoadedStep ==
  ASSUME ImageInv, elf_process_loaded
  PROVE  ImageInv'
<1>1. /\ pc = "loaded" /\ file' = file /\ next' = next /\ directory' = directory
      /\ pc' = IF file.valid THEN "elf" ELSE "binary"
  BY DEF elf_process_loaded
<1>2. ImageType /\ RightKind /\ SegmentsMapped /\ WritesSoFar
  BY DEF ImageInv
<1>3. ImageType' /\ RightKind' /\ BinaryMapped' /\ StackMapped'
  BY <1>1, <1>2 DEF ImageType, RightKind, BinaryMapped, StackMapped
<1>4. SegmentsMapped'
  BY <1>1, <1>2 DEF SegmentsMapped, WellLaidOut, Loaded
<1>5. WritesSoFar'
  BY <1>1, <1>2 DEF WritesSoFar, Confined, OverhangsFile
<1>. QED
  BY <1>2, <1>3, <1>4, <1>5 DEF ImageInv

\* All headers are mapped.
LEMMA EndsStep ==
  ASSUME ImageInv, loader_map_memory_ends
  PROVE  ImageInv'
<1>1. /\ pc = "elf" /\ pc' = "stack" /\ next > Len(file.headers)
      /\ file' = file /\ next' = next /\ directory' = directory
  BY DEF loader_map_memory_ends
<1>2. ImageType /\ RightKind /\ SegmentsMapped /\ WritesSoFar
  BY DEF ImageInv
<1>3. ImageType' /\ RightKind' /\ BinaryMapped' /\ StackMapped'
  BY <1>1, <1>2 DEF ImageType, RightKind, BinaryMapped, StackMapped
<1>4. SegmentsMapped'
  BY <1>1, <1>2 DEF SegmentsMapped, WellLaidOut, Loaded
<1>5. WritesSoFar'
  BY <1>1, <1>2 DEF WritesSoFar, Confined, OverhangsFile
<1>. QED
  BY <1>2, <1>3, <1>4, <1>5 DEF ImageInv

\* A program without headers is mapped in one piece, and may write it all.
LEMMA BinaryStep ==
  ASSUME ImageInv, process_map_memory_to_binary
  PROVE  ImageInv'
<1>1. PICK w \in BOOLEAN :
        /\ w /\ pc = "binary" /\ pc' = "stack" /\ file' = file /\ next' = next
        /\ directory' = map_page_range(directory, ProgramAddress, ImageAddress, file.size, w)
  BY Zenon DEF process_map_memory_to_binary
<1>2. ImageType /\ RightKind /\ WritesSoFar /\ ~file.valid
  BY <1>1 DEF ImageInv, RightKind
<1>3. /\ file \in Files /\ file.size \in Nat
      /\ directory \in [Pages -> [page : Int, writable : BOOLEAN]]
  BY <1>2, HeadersTyped DEF ImageType
<1>4. PICK first \in Int, frame \in Int, n \in Int :
        /\ first = ProgramAddress \div PageSize
        /\ frame = ImageAddress \div PageSize
        /\ n = file.size \div PageSize
  BY <1>3, Places
<1>5. directory' = Mapped(directory, first, frame, n, w)
  <2>1. PICK virtual \in Int, physical \in Int, bytes \in Nat :
          /\ virtual = ProgramAddress /\ physical = ImageAddress /\ bytes = file.size
          /\ virtual \div PageSize = first /\ physical \div PageSize = frame
          /\ bytes \div PageSize = n /\ physical % PageSize = 0
    BY <1>3, <1>4, Places
  <2>2. directory' = map_page_range(directory, virtual, physical, bytes, w)
    BY <1>1, <2>1
  <2>3. map_page_range(directory, virtual, physical, bytes, w)
          = Mapped(directory, virtual \div PageSize, physical \div PageSize,
                   bytes \div PageSize, w)
    BY <2>1, MapIs
  <2>. QED
    BY <2>1, <2>2, <2>3
<1>6. \A v \in Pages :
        /\ v \in Int
        /\ v \in first..(first + n) =>
             directory'[v].page = frame + (v - first) /\ directory'[v].writable
        /\ v \notin first..(first + n) => directory'[v] = directory[v]
  <2>1. \A v \in Pages :
          /\ v \in first..(first + n) =>
               directory'[v].page = frame + (v - first) /\ directory'[v].writable = w
          /\ v \notin first..(first + n) => directory'[v] = directory[v]
    BY <1>4, <1>5 DEF Mapped
  <2>2. w = TRUE
    BY <1>1
  <2>3. \A v \in Pages : v \in first..(first + n) => directory'[v].writable
    BY <2>1, <2>2, Zenon
  <2>4. \A v \in Pages : v \in Int
    BY DEF Pages
  <2>. QED
    BY <2>1, <2>3, <2>4, Zenon
<1>7. ImageType'
  <2>1. directory' \in [Pages -> [page : Int, writable : BOOLEAN]]
    BY <1>3, <1>4, <1>5, MappedType
  <2>. QED
    BY <1>1, <1>2, <2>1 DEF ImageType
<1>8. RightKind' /\ SegmentsMapped' /\ StackMapped'
  BY <1>1, <1>2 DEF RightKind, SegmentsMapped, StackMapped
<1>9. BinaryMapped'
  <2>1. BinaryAt(directory', file.size)
    BY <1>4, <1>6 DEF BinaryAt
  <2>. QED
    BY <1>1, <2>1 DEF BinaryMapped
<1>10. WritesSoFar'
  <2>. SUFFICES ASSUME NEW v \in Pages, directory'[v].writable
                PROVE  Confined(directory'[v].page)
    BY <1>1 DEF WritesSoFar, Confined, OverhangsFile, Pages
  <2>1. CASE v \in first..(first + n)
    <3>1. PICK j \in Nat : j = v - first /\ j <= n
      BY <1>6, <2>1
    <3>2. directory'[v].page = frame + j
      BY <1>6, <2>1, <3>1
    <3>3. CASE file.size % PageSize = 0
      BY <1>2, <3>3 DEF Confined, OverhangsFile
    <3>4. CASE file.size % PageSize # 0
      <4>1. PICK q \in Int, r \in 0..(PageSize - 1), m \in Int : Split(file.size, q, r, m)
        <5>1. file.size \in Int
          BY <1>3
        <5>. QED
          BY <5>1, DivMod
      <4>2. q = n /\ r # 0 /\ m = PageSize * n /\ file.size = m + r
        BY <1>4, <3>4, <4>1 DEF Split
      <4>3. PageSize * j <= PageSize * n
        BY <3>1, <1>4, MulMono
      <4>4. PageSize * j \in Int
        BY <3>1, Places
      <4>5. PageSize * j < file.size
        BY <4>1, <4>2, <4>3, <4>4
      <4>6. ImageAddress \div PageSize + j \in PagesOf(ImageAddress, file.size)
        BY <1>3, <3>1, <4>5, Places, InBuffer
      <4>. QED
        BY <1>4, <3>2, <4>6 DEF Confined
    <3>. QED
      BY <3>3, <3>4
  <2>2. CASE v \notin first..(first + n)
    BY <1>2, <1>6, <2>2 DEF WritesSoFar
  <2>. QED
    BY <2>1, <2>2
<1>. QED
  BY <1>7, <1>8, <1>9, <1>10 DEF ImageInv

\* The stack, below everything that is mapped already.
LEMMA StackStep ==
  ASSUME ImageInv, process_map_memory
  PROVE  ImageInv'
<1>1. PICK w \in BOOLEAN :
        /\ w /\ pc = "stack" /\ pc' = "main" /\ file' = file /\ next' = next
        /\ directory' = map_page_range(directory, StackEnd, StackMemory, StackSize, w)
  BY Zenon DEF process_map_memory
<1>2. ImageType /\ RightKind /\ SegmentsMapped /\ BinaryMapped /\ WritesSoFar
  BY DEF ImageInv
<1>3. directory \in [Pages -> [page : Int, writable : BOOLEAN]] /\ file \in Files
  BY <1>2 DEF ImageType
<1>4. PICK first \in Int, frame \in Int, n \in Int, program \in Int :
        /\ first = StackEnd \div PageSize
        /\ frame = StackMemory \div PageSize
        /\ n = StackSize \div PageSize
        /\ program = ProgramAddress \div PageSize
  BY Places, StackPages
<1>5. directory' = Mapped(directory, first, frame, n, w)
  <2>1. PICK virtual \in Int, physical \in Int, bytes \in Nat :
          /\ virtual = StackEnd /\ physical = StackMemory /\ bytes = StackSize
          /\ virtual \div PageSize = first /\ physical \div PageSize = frame
          /\ bytes \div PageSize = n /\ physical % PageSize = 0
    BY <1>4, Places, StackPages
  <2>2. directory' = map_page_range(directory, virtual, physical, bytes, w)
    BY <1>1, <2>1
  <2>3. map_page_range(directory, virtual, physical, bytes, w)
          = Mapped(directory, virtual \div PageSize, physical \div PageSize,
                   bytes \div PageSize, w)
    BY <2>1, MapIs
  <2>. QED
    BY <2>1, <2>2, <2>3
<1>6. \A v \in Pages :
        /\ v \in Int
        /\ v \in first..(first + n) =>
             directory'[v].page = frame + (v - first) /\ directory'[v].writable
        /\ v \notin first..(first + n) => directory'[v] = directory[v]
  <2>1. \A v \in Pages :
          /\ v \in first..(first + n) =>
               directory'[v].page = frame + (v - first) /\ directory'[v].writable = w
          /\ v \notin first..(first + n) => directory'[v] = directory[v]
    BY <1>4, <1>5 DEF Mapped
  <2>2. w = TRUE
    BY <1>1
  <2>3. \A v \in Pages : v \in first..(first + n) => directory'[v].writable
    BY <2>1, <2>2, Zenon
  <2>4. \A v \in Pages : v \in Int
    BY DEF Pages
  <2>. QED
    BY <2>1, <2>3, <2>4, Zenon
<1>7. first + n < program
  BY <1>4, StackPages
<1>8. \A v \in Pages : v >= program => directory'[v] = directory[v]
  BY <1>4, <1>6, <1>7
<1>9. ImageType'
  <2>1. directory' \in [Pages -> [page : Int, writable : BOOLEAN]]
    BY <1>3, <1>4, <1>5, MappedType
  <2>. QED
    BY <1>1, <1>2, <2>1 DEF ImageType
<1>10. RightKind'
  BY <1>1, <1>2 DEF RightKind
<1>11. SegmentsMapped'
  <2>. SUFFICES ASSUME file.valid, WellLaidOut, NEW i \in Loaded, i < next
                PROVE  SegmentAt(directory', file.headers[i])
    BY <1>1 DEF SegmentsMapped, WellLaidOut, Loaded
  <2>1. PICK g : g = file.headers[i]
    OBVIOUS
  <2>2. g.vaddr \in Nat /\ g.memsz \in Nat /\ LinkedAt(g) /\ g.type = "LOAD"
    BY <1>3, <2>1, HeadersTyped DEF Loaded
  <2>3. PICK gfirst \in Int, glast \in Int :
          gfirst = g.vaddr \div PageSize /\ glast = (g.vaddr + g.memsz - 1) \div PageSize
    BY <2>2, Places
  <2>4. ProgramAddress <= g.vaddr
    BY <2>2, Places DEF LinkedAt
  <2>5. program <= gfirst
    BY <1>4, <2>2, <2>3, <2>4, Places, DivMono
  <2>6. \A v \in Pages : v \in gfirst..glast => directory'[v] = directory[v]
    BY <1>4, <1>6, <1>8, <2>3, <2>5
  <2>7. SegmentAt(directory, g)
    BY <1>2, <2>1 DEF SegmentsMapped
  <2>. QED
    BY <2>1, <2>3, <2>6, <2>7 DEF SegmentAt
<1>12. BinaryMapped'
  <2>. SUFFICES ASSUME ~file.valid PROVE BinaryAt(directory', file.size)
    BY <1>1 DEF BinaryMapped
  <2>1. BinaryAt(directory, file.size)
    BY <1>1, <1>2 DEF BinaryMapped
  <2>2. PICK last \in Int : last = program + (file.size \div PageSize)
    BY <1>3, <1>4, Places, HeadersTyped
  <2>3. \A v \in Pages : v \in program..last => directory'[v] = directory[v]
    BY <1>4, <1>6, <1>8, <2>2
  <2>. QED
    BY <1>4, <2>1, <2>2, <2>3 DEF BinaryAt
<1>13. StackMapped'
  <2>1. StackAt(directory')
    BY <1>4, <1>6 DEF StackAt
  <2>. QED
    BY <2>1 DEF StackMapped
<1>14. WritesSoFar'
  <2>. SUFFICES ASSUME NEW v \in Pages, directory'[v].writable
                PROVE  Confined(directory'[v].page)
    BY <1>1 DEF WritesSoFar, Confined, OverhangsFile, Pages
  <2>1. CASE v \in first..(first + n)
    <3>1. PICK j \in Nat : j = v - first /\ j <= n
      BY <1>6, <2>1
    <3>2. directory'[v].page = frame + j
      BY <1>6, <2>1, <3>1
    <3>3. PICK k \in Int : k = StackSize \div PageSize /\ StackSize = PageSize * k
      BY Places, AlignedIs
    <3>4. PageSize * j <= StackSize /\ PageSize * j \in Int
      BY <1>4, <3>1, <3>3, Places, MulMono
    <3>5. PageSize * j < StackSize + 1 /\ StackSize + 1 \in Nat
      BY <3>4, Places
    <3>6. StackMemory \div PageSize + j \in PagesOf(StackMemory, StackSize + 1)
      BY <3>1, <3>5, Places, InBuffer
    <3>. QED
      BY <1>4, <3>2, <3>6 DEF Confined
  <2>2. CASE v \notin first..(first + n)
    BY <1>2, <1>6, <2>2 DEF WritesSoFar
  <2>. QED
    BY <2>1, <2>2
<1>. QED
  BY <1>9, <1>10, <1>11, <1>12, <1>13, <1>14 DEF ImageInv

\* Every step keeps the invariant.
LEMMA ImageStep == ImageInv /\ [Next]_vars => ImageInv'
<1>. SUFFICES ASSUME ImageInv, [Next]_vars PROVE ImageInv'
  OBVIOUS
<1>1. CASE elf_process_loaded
  BY <1>1, LoadedStep
<1>2. CASE process_map_memory_to_elf
  BY <1>2, ElfStep
<1>3. CASE process_map_memory_to_binary
  BY <1>3, BinaryStep
<1>4. CASE loader_map_memory_ends
  BY <1>4, EndsStep
<1>5. CASE process_map_memory
  BY <1>5, StackStep
<1>6. CASE UNCHANGED vars
  <2>1. pc' = pc /\ file' = file /\ next' = next /\ directory' = directory
    BY <1>6 DEF vars
  <2>2. ImageType' /\ RightKind' /\ BinaryMapped' /\ StackMapped'
    BY <2>1 DEF ImageInv, ImageType, RightKind, BinaryMapped, StackMapped
  <2>3. SegmentsMapped' /\ WritesSoFar'
    BY <2>1 DEF ImageInv, SegmentsMapped, WellLaidOut, Loaded,
                WritesSoFar, Confined, OverhangsFile
  <2>. QED
    BY <2>2, <2>3 DEF ImageInv
<1>. QED
  BY <1>1, <1>2, <1>3, <1>4, <1>5, <1>6 DEF Next, Done

-----------------------------------------------------------------------------
(* The theorems.                                                           *)

\* The invariant holds however a program is loaded: each mapping of
\* process_map_memory is in the directory and later ones leave it alone.
THEOREM ImageInvariant == Spec => []ImageInv
  BY ImageInit, ImageStep, PTL DEF Spec

\* A new program can write only to its own file and stack, and to the page
\* behind the stack, unless a segment overhangs the file (process.c:28-39).
THEOREM ImageWritesConfined == Spec => []WritesConfined
<1>1. ImageInv => WritesConfined
  BY DEF ImageInv, WritesSoFar, Confined, WritesConfined
<1>. QED
  BY <1>1, ImageInvariant, PTL

\* What the invariant says of pages, said of bytes: a segment.
LEMMA SegmentBytes ==
  ASSUME ImageType, NEW i \in Loaded, SegmentAt(directory, file.headers[i]),
         NEW b \in 0..(file.headers[i].memsz - 1)
  PROVE  /\ paging_get_physical_address(directory, file.headers[i].vaddr + b)
              = ImageAddress + file.headers[i].offset + b
         /\ directory[(file.headers[i].vaddr + b) \div PageSize].writable
              = file.headers[i].writable
<1>1. PICK h : h = file.headers[i]
  OBVIOUS
<1>2. /\ h.vaddr \in Nat /\ h.memsz \in Nat /\ h.offset \in Nat
      /\ LinkedAt(h) /\ h.type = "LOAD"
  BY <1>1, HeadersTyped DEF ImageType, Loaded
<1>3. /\ b \in Nat /\ h.vaddr + b \in Nat
      /\ h.vaddr <= h.vaddr + b /\ h.vaddr + b <= h.vaddr + h.memsz - 1
  BY <1>1, <1>2
<1>4. h.vaddr + h.memsz <= SpaceEnd /\ h.vaddr % PageSize = h.offset % PageSize
  BY <1>2 DEF LinkedAt
<1>5. SpaceEnd \in Int
  BY ImageAssumption DEF SpaceEnd
<1>6. PICK v \in Int, first \in Int, last \in Int :
        /\ v = (h.vaddr + b) \div PageSize /\ first = h.vaddr \div PageSize
        /\ last = (h.vaddr + h.memsz - 1) \div PageSize
  BY <1>2, <1>3, Places
<1>7. first <= v /\ v <= last
  BY <1>2, <1>3, <1>6, DivMono
<1>8. v \in Pages
  <2>1. h.vaddr + b < SpaceEnd
    BY <1>2, <1>3, <1>4, <1>5
  <2>. QED
    BY <1>3, <1>6, <2>1, OnPage
<1>9. /\ directory[v].page = (ImageAddress + h.offset) \div PageSize + (v - first)
      /\ directory[v].writable = h.writable
  BY <1>1, <1>6, <1>7, <1>8 DEF SegmentAt
<1>10. PICK target \in Int : target = ImageAddress + h.offset
  BY <1>2, Places
<1>11. target % PageSize = h.vaddr % PageSize
  <2>1. PICK o \in Int : o = h.offset
    BY <1>2
  <2>2. ImageAddress \in Int /\ ImageAddress % PageSize = 0
    BY Places
  <2>3. (ImageAddress + o) % PageSize = o % PageSize
    BY <2>2, AddAligned
  <2>. QED
    BY <1>4, <1>10, <2>1, <2>3
<1>12. directory[v].page = target \div PageSize
                             + ((h.vaddr + b) \div PageSize - h.vaddr \div PageSize)
  BY <1>6, <1>9, <1>10
<1>13. directory[v].page * PageSize + ((h.vaddr + b) % PageSize) = target + b
  <2>1. PICK a \in Int : a = h.vaddr
    BY <1>2
  <2>2. PICK page : page = directory[v].page
    OBVIOUS
  <2>3. /\ a % PageSize = target % PageSize /\ b \in Int
        /\ page = target \div PageSize + ((a + b) \div PageSize - a \div PageSize)
    BY <1>3, <1>11, <1>12, <2>1, <2>2
  <2>4. page * PageSize + ((a + b) % PageSize) = target + b
    BY <1>10, <2>1, <2>3, ByteOf
  <2>. QED
    BY <2>1, <2>2, <2>4
<1>. QED
  BY <1>1, <1>6, <1>9, <1>10, <1>13 DEF paging_get_physical_address

\* A buffer that begins on a page and is mapped in one piece.
PieceAt(dir, a, target, size) ==
  \A v \in Pages :
    v \in (a \div PageSize)..((a \div PageSize) + (size \div PageSize)) =>
      dir[v].page = target \div PageSize + (v - a \div PageSize)

\* The bytes of such a buffer.
LEMMA PieceBytes ==
  ASSUME NEW a \in Nat, a % PageSize = 0, NEW target \in Nat, target % PageSize = 0,
         NEW size \in Nat, a + size <= SpaceEnd, NEW dir,
         PieceAt(dir, a, target, size), NEW b \in 0..(size - 1)
  PROVE  /\ paging_get_physical_address(dir, a + b) = target + b
         /\ (a + b) \div PageSize \in Pages
         /\ (a + b) \div PageSize
              \in (a \div PageSize)..((a \div PageSize) + (size \div PageSize))
<1>1. SpaceEnd \in Int
  BY ImageAssumption DEF SpaceEnd
<1>2. b \in Nat /\ a + b \in Nat /\ a + b < SpaceEnd /\ 0 <= b /\ b <= size
  BY <1>1
<1>3. PICK v \in Int, first \in Int, n \in Int, frame \in Int :
        /\ v = (a + b) \div PageSize /\ first = a \div PageSize
        /\ n = size \div PageSize /\ frame = target \div PageSize
  BY <1>2, Places
<1>4. PICK q \in Int, r \in 0..(PageSize - 1), m \in Int : Split(b, q, r, m)
  <2>1. b \in Int
    BY <1>2
  <2>. QED
    BY <2>1, DivMod
<1>5. q = b \div PageSize /\ r = b % PageSize /\ m = PageSize * q /\ b = m + r
  BY <1>4 DEF Split
<1>6. v \in Pages
  BY <1>2, <1>3, OnPage
<1>7. v = first + q /\ (a + b) % PageSize = r
  BY <1>2, <1>3, <1>5, AddAligned
<1>8. 0 <= q /\ q <= n
  <2>1. 0 \div PageSize <= b \div PageSize /\ b \div PageSize <= size \div PageSize
    BY <1>2, DivMono
  <2>2. 0 \div PageSize = 0
    BY Places
  <2>. QED
    BY <1>3, <1>5, <2>1, <2>2
<1>9. v \in first..(first + n)
  BY <1>3, <1>7, <1>8
<1>10. dir[v].page = frame + q
  BY <1>3, <1>6, <1>7, <1>9 DEF PieceAt
<1>11. (frame + q) * PageSize = target + m
  <2>1. PICK k \in Int : k = target \div PageSize /\ target = PageSize * k
    BY AlignedIs
  <2>2. frame = k
    BY <1>3, <2>1
  <2>. QED
    BY <1>4, <1>5, <2>1, <2>2, Places
<1>12. dir[v].page * PageSize + ((a + b) % PageSize) = target + b
  <2>1. PICK k \in Int : k = (frame + q) * PageSize /\ k = target + m
    BY <1>3, <1>11
  <2>2. k + r = target + b
    <3>1. r \in Int /\ m \in Int
      OBVIOUS
    <3>2. target \in Int
      OBVIOUS
    <3>3. b = m + r
      BY <1>5
    <3>4. k = target + m
      BY <2>1
    <3>. QED
      BY <3>1, <3>2, <3>3, <3>4
  <2>. QED
    <3>1. PICK page : page = dir[v].page
      OBVIOUS
    <3>2. page * PageSize = k
      BY <1>10, <2>1, <3>1
    <3>. QED
      BY <1>7, <2>2, <3>1, <3>2
<1>. QED
  BY <1>3, <1>6, <1>9, <1>12 DEF paging_get_physical_address

\* The stack ends below the address space's end, or there is no such page.
LEMMA StackInSpace ==
  ASSUME NEW f \in Files
  PROVE  StackEnd + StackSize <= SpaceEnd
<1>1. f.size \in Nat /\ ProgramAddress + f.size <= SpaceEnd
  BY HeadersTyped
<1>2. SpaceEnd \in Int
  BY ImageAssumption DEF SpaceEnd
<1>. QED
  BY <1>1, <1>2, Places DEF StackEnd, StackTop

\* When a program starts, its segments or its one piece, and its stack, are
\* where the linker and process_map_memory want them, byte by byte.
THEOREM ImageStackMapped == Spec => []ImageAndStackMapped
<1>1. ImageInv => ImageAndStackMapped
  <2>. SUFFICES ASSUME ImageInv, pc = "main" PROVE ImageAndStackMapped
    BY DEF ImageAndStackMapped
  <2>0. /\ ImageType /\ RightKind /\ SegmentsMapped /\ BinaryMapped
        /\ StackMapped /\ file \in Files
    BY DEF ImageInv, ImageType
  <2>1. ASSUME file.valid, WellLaidOut, NEW i \in Loaded,
               NEW b \in 0..(file.headers[i].memsz - 1)
        PROVE  /\ paging_get_physical_address(directory, file.headers[i].vaddr + b)
                    = ImageAddress + file.headers[i].offset + b
               /\ directory[(file.headers[i].vaddr + b) \div PageSize].writable
                    = file.headers[i].writable
    <3>1. i < next
      BY <2>0, <2>1, HeadersTyped DEF RightKind, Loaded, ImageType
    <3>2. SegmentAt(directory, file.headers[i])
      BY <2>0, <2>1, <3>1 DEF SegmentsMapped
    <3>. QED
      BY <2>0, <3>2, SegmentBytes
  <2>2. ASSUME ~file.valid, NEW b \in 0..(file.size - 1)
        PROVE  paging_get_physical_address(directory, ProgramAddress + b) = ImageAddress + b
    <3>1. BinaryAt(directory, file.size)
      BY <2>0, <2>2 DEF BinaryMapped
    <3>2. file.size \in Nat /\ ProgramAddress + file.size <= SpaceEnd
      BY <2>0, HeadersTyped
    <3>. QED
      <4>1. PieceAt(directory, ProgramAddress, ImageAddress, file.size)
        BY <3>1 DEF BinaryAt, PieceAt
      <4>. QED
        BY <3>2, <4>1, Places, PieceBytes
  <2>3. ASSUME NEW b \in 0..(StackSize - 1)
        PROVE  /\ paging_get_physical_address(directory, StackEnd + b) = StackMemory + b
               /\ directory[(StackEnd + b) \div PageSize].writable
    <3>1. StackAt(directory)
      BY <2>0 DEF StackMapped
    <3>2. StackEnd + StackSize <= SpaceEnd
      BY <2>0, StackInSpace
    <3>3. /\ paging_get_physical_address(directory, StackEnd + b) = StackMemory + b
          /\ (StackEnd + b) \div PageSize \in Pages
          /\ (StackEnd + b) \div PageSize
               \in (StackEnd \div PageSize)..((StackEnd \div PageSize)
                                                + (StackSize \div PageSize))
      <4>1. PieceAt(directory, StackEnd, StackMemory, StackSize)
        BY <3>1 DEF StackAt, PieceAt
      <4>. QED
        BY <3>2, <4>1, Places, StackPages, PieceBytes
    <3>. QED
      BY <3>1, <3>3 DEF StackAt
  <2>. QED
    BY <2>1, <2>2, <2>3 DEF ImageAndStackMapped
<1>. QED
  BY <1>1, ImageInvariant, PTL
=============================================================================
