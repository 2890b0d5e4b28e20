---------------------------- MODULE KernelProofs ----------------------------
(***************************************************************************)
(* Proofs about tasks, processes and the way in and out of the kernel, for *)
(* any number of tasks, process slots and steps of the programs.           *)
(***************************************************************************)
EXTENDS Kernel, FiniteSetTheorems, WellFoundedInduction, TLAPS

-----------------------------------------------------------------------------
(* Least and greatest elements.                                            *)

\* A non-empty set of naturals has a least element, and Min names it.
LEMMA MinOfSet ==
  ASSUME NEW S \in SUBSET Nat, S # {}
  PROVE  Min(S) \in S /\ \A y \in S : Min(S) <= y
<1>1. PICK x \in S : \A y \in S : ~(<<y, x>> \in OpToRel(<, Nat))
  BY NatLessThanWellFounded, WFMin
<1>2. \A y \in S : ~(y < x)
  BY <1>1 DEF OpToRel
<1>3. \A y \in S : x <= y
  BY <1>2
<1>. QED
  BY <1>3 DEF Min

\* A least element is the Min of its set.
LEMMA MinIs ==
  ASSUME NEW S \in SUBSET Nat, NEW m \in S, \A y \in S : m <= y
  PROVE  Min(S) = m
<1>1. Min(S) \in S /\ \A y \in S : Min(S) <= y
  BY MinOfSet
<1>2. Min(S) \in Nat /\ m \in Nat /\ Min(S) <= m /\ m <= Min(S)
  BY <1>1
<1>. QED
  BY <1>2

\* A greatest element is the Max of its set.
LEMMA MaxIs ==
  ASSUME NEW S \in SUBSET Nat, NEW m \in S, \A y \in S : y <= m
  PROVE  Max(S) = m
<1>1. \A y \in S : m >= y
  OBVIOUS
<1>2. Max(S) \in S /\ \A y \in S : Max(S) >= y
  BY <1>1 DEF Max
<1>3. Max(S) \in Nat /\ m \in Nat /\ Max(S) <= m /\ m <= Max(S)
  BY <1>1, <1>2
<1>. QED
  BY <1>3

-----------------------------------------------------------------------------
(* The task list.  After the first task with a stale prev field has left,  *)
(* the list is no longer exact, but it still is up to some removed task:   *)
(* every task alive before that one is linked in the order of creation,    *)
(* and the last of them leads to it.  This is what the exits need, and it  *)
(* is inductive together with the following facts about the links: they go *)
(* forward and back in the order of creation, the prev field of a task     *)
(* alive, stale or not, names a task whose next field leads to it, and the *)
(* tail has no successor.                                                  *)

\* The tasks alive before d, or all of them.
Upto(A, d) == {x \in A : d = NULL \/ x < d}

\* y follows x in the list up to d.
Follows(A, d, x, y) ==
  \/ y = d /\ \A z \in Upto(A, d) : z <= x
  \/ y \in Upto(A, d) /\ x < y /\ \A z \in Upto(A, d) : z <= x \/ y <= z

ExactTo(A, L, d) ==
  /\ Follows(A, d, 0, L.head)
  /\ \A x \in Upto(A, d) : Follows(A, d, x, L.next[x])

\* Of a list of n tasks created so far.
Fresh(L, n) == L.tail <= n /\ \A t \in Tasks : t > n => L.next[t] = NULL /\ L.prev[t] = NULL
Ordered(L) == \A t \in Tasks : L.prev[t] < t /\ (L.next[t] = NULL \/ t < L.next[t])
Linked(A, L) ==
  /\ \A t \in A : IF L.prev[t] = NULL THEN t = L.head ELSE L.next[L.prev[t]] = t
  /\ IF L.tail = NULL THEN A = {} ELSE L.next[L.tail] = NULL
ExactSoFar(A, L, n, s) ==
  /\ \E d \in 0..n : d \notin A /\ (d = NULL <=> ~s) /\ ExactTo(A, L, d)
  /\ ~s /\ A # {} => L.tail \in A /\ \A z \in A : z <= L.tail

\* A are the tasks alive, s says whether a task with a stale field has left.
ListInv(A, L, n, s) ==
  /\ L \in List /\ n \in 0..MaxTasks /\ A \subseteq 1..n /\ s \in BOOLEAN
  /\ Fresh(L, n)
  /\ Ordered(L)
  /\ Linked(A, L)
  /\ ExactSoFar(A, L, n, s)

\* The first task.
LEMMA CreateFirst ==
  /\ ListInv({}, EmptyList, 0, FALSE)
  /\ ListInv({1}, create_task(EmptyList, 1), 1, FALSE)
<1>1. 1 \in Tasks /\ 0 \in 0..MaxTasks /\ 1 \in 0..MaxTasks
  BY MaxTasksAssumption DEF Tasks
<1>2. EmptyList \in List
  BY DEF EmptyList, List, TaskPtr
<1>3. ExactSoFar({}, EmptyList, 0, FALSE)
  BY DEF ExactSoFar, ExactTo, Follows, Upto, EmptyList, NULL
<1>4. ListInv({}, EmptyList, 0, FALSE)
  <2>1. Fresh(EmptyList, 0)
    BY DEF Fresh, EmptyList, NULL
  <2>2. Ordered(EmptyList)
    BY DEF Ordered, EmptyList, NULL, Tasks
  <2>3. Linked({}, EmptyList)
    BY DEF Linked, EmptyList
  <2>. QED
    BY <1>1, <1>2, <1>3, <2>1, <2>2, <2>3 DEF ListInv
<1>5. PICK L : L = create_task(EmptyList, 1)
  OBVIOUS
<1>6. /\ L \in List /\ L.head = 1 /\ L.tail = 1
      /\ \A t \in Tasks : L.next[t] = NULL /\ L.prev[t] = NULL
  <2>1. L = [EmptyList EXCEPT !.head = 1, !.tail = 1, !.current = 1]
    BY <1>5 DEF create_task, EmptyList
  <2>. QED
    BY <1>1, <2>1 DEF EmptyList, List, TaskPtr
<1>7. ListInv({1}, L, 1, FALSE)
  <2>1. Fresh(L, 1)
    BY <1>6 DEF Fresh
  <2>2. Ordered(L)
    BY <1>6 DEF Ordered, NULL, Tasks
  <2>3. Linked({1}, L)
    BY <1>1, <1>6 DEF Linked, NULL
  <2>4. ExactTo({1}, L, NULL)
    BY <1>1, <1>6 DEF ExactTo, Follows, Upto, NULL
  <2>5. ExactSoFar({1}, L, 1, FALSE)
    BY <1>6, <2>4 DEF ExactSoFar, NULL
  <2>6. {1} \subseteq 1..1
    OBVIOUS
  <2>. QED
    BY <1>1, <1>6, <2>1, <2>2, <2>3, <2>5, <2>6 DEF ListInv
<1>. QED
  BY <1>4, <1>5, <1>7

\* The fields of a task list are pointers to tasks or NULL.
LEMMA ListFields ==
  ASSUME NEW L \in List
  PROVE  /\ L.next \in [Tasks -> TaskPtr] /\ L.prev \in [Tasks -> TaskPtr]
         /\ L.head \in TaskPtr /\ L.tail \in TaskPtr /\ L.current \in TaskPtr
BY DEF List

\* Tasks are positive numbers and NULL is none of them.
LEMMA TaskNumbers ==
  /\ \A t \in Tasks : t \in Nat /\ t > 0 /\ t # NULL /\ t \in TaskPtr
  /\ \A t \in TaskPtr : t \in Nat /\ (t # NULL => t \in Tasks)
  /\ NULL = 0 /\ NULL \in TaskPtr /\ NULL \notin Tasks
BY MaxTasksAssumption DEF Tasks, TaskPtr, NULL

\* What create_task does to a list that is not empty, field by field.
LEMMA CreateFields ==
  ASSUME NEW L \in List, NEW t \in Tasks, L.head # NULL, L.tail \in Tasks
  PROVE  /\ create_task(L, t) \in List
         /\ create_task(L, t).head = L.head
         /\ create_task(L, t).tail = t
         /\ create_task(L, t).current = L.current
         /\ create_task(L, t).next = [L.next EXCEPT ![L.tail] = t]
         /\ create_task(L, t).prev = [L.prev EXCEPT ![t] = L.tail]
<1>1. create_task(L, t) = [L EXCEPT !.next[L.tail] = t, !.prev[t] = L.tail, !.tail = t]
  BY DEF create_task
<1>2. /\ [L.next EXCEPT ![L.tail] = t] \in [Tasks -> TaskPtr]
      /\ [L.prev EXCEPT ![t] = L.tail] \in [Tasks -> TaskPtr]
      /\ t \in TaskPtr
  BY ListFields, TaskNumbers
<1>3. /\ create_task(L, t).head = L.head
      /\ create_task(L, t).tail = t
      /\ create_task(L, t).current = L.current
      /\ create_task(L, t).next = [L.next EXCEPT ![L.tail] = t]
      /\ create_task(L, t).prev = [L.prev EXCEPT ![t] = L.tail]
  BY <1>1 DEF List
<1>4. create_task(L, t) =
        [head |-> L.head, tail |-> t, current |-> L.current,
         next |-> [L.next EXCEPT ![L.tail] = t], prev |-> [L.prev EXCEPT ![t] = L.tail]]
  BY <1>1 DEF List
<1>. QED
  BY <1>2, <1>3, <1>4, ListFields DEF List

\* A list of live tasks has a head and a tail.
LEMMA HeadAndTail ==
  ASSUME NEW A, NEW L, NEW n, NEW s, ListInv(A, L, n, s), A # {}
  PROVE  L.head \in Tasks /\ L.tail \in Tasks /\ L.tail <= n
<1>1. L.head # NULL
  <2>1. PICK d \in 0..n : d \notin A /\ Follows(A, d, 0, L.head)
    BY DEF ListInv, ExactSoFar, ExactTo
  <2>0. PICK z \in A : TRUE
    OBVIOUS
  <2>4. z \in Nat /\ z > 0
    BY DEF ListInv
  <2>2. CASE d = NULL
    BY <2>4, <2>1, <2>2 DEF Follows, Upto, NULL
  <2>3. CASE d # NULL
    BY <2>1, <2>3 DEF Follows, Upto, ListInv, NULL
  <2>. QED
    BY <2>2, <2>3
<1>2. L.tail # NULL /\ L.tail <= n
  BY DEF ListInv, Linked, Fresh
<1>. QED
  BY <1>1, <1>2 DEF ListInv, List, TaskPtr

\* A later task joins the tail.
LEMMA CreateLater ==
  ASSUME NEW A, NEW L, NEW n, NEW s, ListInv(A, L, n, s), A # {}, n < MaxTasks
  PROVE  ListInv(A \cup {n + 1}, create_task(L, n + 1), n + 1, s)
<1>1. /\ L \in List /\ n \in Nat /\ n \in 0..MaxTasks /\ A \subseteq 1..n /\ A \subseteq Tasks
      /\ s \in BOOLEAN /\ L.head \in Tasks /\ L.tail \in Tasks /\ L.tail <= n
  <2>1. L \in List /\ n \in 0..MaxTasks /\ A \subseteq 1..n /\ s \in BOOLEAN
    BY DEF ListInv
  <2>2. n \in Nat /\ A \subseteq Tasks
    BY <2>1, MaxTasksAssumption DEF Tasks
  <2>. QED
    BY <2>1, <2>2, HeadAndTail
<1>2. PICK t \in Tasks : t = n + 1
  BY <1>1, MaxTasksAssumption DEF Tasks
<1>3. PICK M : M = create_task(L, t)
  OBVIOUS
<1>4. /\ M \in List /\ M.head = L.head /\ M.tail = t
      /\ M.next = [L.next EXCEPT ![L.tail] = t]
      /\ M.prev = [L.prev EXCEPT ![t] = L.tail]
  BY <1>1, <1>3, CreateFields, TaskNumbers
<1>5. t # L.tail /\ t \notin A /\ L.next[t] = NULL /\ L.next[L.tail] = NULL
  BY <1>1, <1>2 DEF ListInv, Fresh, Linked, NULL, Tasks
<1>6. Fresh(M, t)
  BY <1>1, <1>2, <1>4, <1>5, ListFields, TaskNumbers DEF ListInv, Fresh
<1>7. Ordered(M)
  <2>. SUFFICES ASSUME NEW x \in Tasks
                PROVE  M.prev[x] < x /\ (M.next[x] = NULL \/ x < M.next[x])
    BY DEF Ordered
  <2>1. L.prev[x] < x /\ (L.next[x] = NULL \/ x < L.next[x])
    BY DEF ListInv, Ordered
  <2>2. /\ M.prev[x] = IF x = t THEN L.tail ELSE L.prev[x]
        /\ M.next[x] = IF x = L.tail THEN t ELSE L.next[x]
    BY <1>1, <1>4, ListFields
  <2>3. /\ x \in Nat /\ t \in Nat /\ L.tail \in Nat /\ L.tail < t
        /\ L.prev[x] \in Nat /\ L.next[x] \in Nat
    <3>1. x \in Nat /\ t \in Nat /\ L.tail \in Nat
      BY <1>1, TaskNumbers
    <3>2. L.prev[x] \in Nat /\ L.next[x] \in Nat
      BY <1>1, ListFields, TaskNumbers
    <3>. QED
      BY <1>1, <1>2, <3>1, <3>2
  <2>4. M.prev[x] < x
    BY <2>1, <2>2, <2>3
  <2>5. M.next[x] = NULL \/ x < M.next[x]
    BY <2>1, <2>2, <2>3
  <2>. QED
    BY <2>4, <2>5
<1>8. Linked(A \cup {t}, M)
  <2>1. ASSUME NEW x \in A, L.prev[x] # NULL
        PROVE  M.prev[x] = L.prev[x] /\ M.next[M.prev[x]] = x
    <3>1. L.next[L.prev[x]] = x /\ x # NULL /\ L.prev[x] \in Tasks
      BY <1>1, <2>1, ListFields, TaskNumbers DEF ListInv, Linked
    <3>. QED
      BY <1>1, <1>4, <1>5, <3>1 DEF List
  <2>2. ASSUME NEW x \in A, L.prev[x] = NULL
        PROVE  M.prev[x] = NULL /\ x = M.head
    BY <1>1, <1>4, <1>5, <2>2 DEF ListInv, Linked, List
  <2>3. M.prev[t] = L.tail /\ L.tail # NULL /\ M.next[L.tail] = t
    BY <1>1, <1>4, ListFields, TaskNumbers
  <2>4. M.tail # NULL /\ M.next[M.tail] = NULL
    BY <1>2, <1>4, <1>5 DEF List, Tasks, NULL
  <2>. QED
    BY <2>1, <2>2, <2>3, <2>4 DEF Linked
<1>9. ExactSoFar(A \cup {t}, M, t, s)
  <2>1. PICK d \in 0..n : d \notin A /\ (d = NULL <=> ~s) /\ ExactTo(A, L, d)
    BY DEF ListInv, ExactSoFar
  <2>2. d \in 0..t /\ d \notin A \cup {t}
    BY <1>1, <1>2, <2>1
  <2>3. CASE s
    <3>1. d # NULL /\ Upto(A \cup {t}, d) = Upto(A, d)
      BY <1>1, <1>2, <2>1, <2>3 DEF Upto, Tasks
    <3>2. L.tail \notin Upto(A, d)
      BY <1>1, <1>5, <2>1, <3>1 DEF ExactTo, Follows, Upto, Tasks, NULL
    <3>3. \A x \in Upto(A, d) : M.next[x] = L.next[x]
      BY <1>1, <1>4, <3>2 DEF Upto, List
    <3>4. ExactTo(A \cup {t}, M, d)
      BY <1>4, <2>1, <3>1, <3>3 DEF ExactTo, Follows
    <3>. QED
      BY <2>1, <2>2, <2>3, <3>4 DEF ExactSoFar
  <2>4. CASE ~s
    <3>1. d = NULL /\ Upto(A \cup {t}, d) = A \cup {t} /\ Upto(A, d) = A
      BY <2>1, <2>4 DEF Upto
    <3>2. L.tail \in A /\ \A z \in A : z <= L.tail
      BY <2>4 DEF ListInv, ExactSoFar
    <3>3. \A z \in A : z < t /\ z \in Nat
      BY <1>1, <1>2
    <3>4. Follows(A \cup {t}, d, 0, M.head)
      BY <1>1, <1>4, <2>1, <3>1, <3>3 DEF ExactTo, Follows, NULL, Tasks
    <3>5. ASSUME NEW x \in A \cup {t} PROVE Follows(A \cup {t}, d, x, M.next[x])
      <4>1. CASE x = t
        <5>1. M.next[x] = d
          BY <1>1, <1>4, <1>5, <3>1, <4>1, ListFields
        <5>2. \A z \in A \cup {t} : z <= x
          BY <1>1, <1>2, <3>3, <4>1
        <5>. QED
          BY <3>1, <5>1, <5>2 DEF Follows
      <4>2. CASE x = L.tail
        <5>1. M.next[x] = t
          BY <1>1, <1>4, <4>2, ListFields
        <5>2. x < t /\ \A z \in A \cup {t} : z <= x \/ t <= z
          BY <1>2, <3>2, <3>3, <4>2, TaskNumbers
        <5>. QED
          BY <3>1, <5>1, <5>2 DEF Follows
      <4>3. CASE x \in A /\ x # L.tail
        <5>1. M.next[x] = L.next[x] /\ Follows(A, d, x, L.next[x])
          BY <1>1, <1>4, <2>1, <3>1, <4>3 DEF List, ExactTo
        <5>2. ~ \A z \in A : z <= x
          BY <3>2, <3>3, <4>3
        <5>3. L.next[x] \in A /\ x < L.next[x] /\ \A z \in A : z <= x \/ L.next[x] <= z
          BY <3>1, <5>1, <5>2 DEF Follows
        <5>4. L.next[x] <= t
          BY <3>3, <5>3, <1>2, TaskNumbers
        <5>. QED
          BY <3>1, <5>1, <5>3, <5>4 DEF Follows
      <4>. QED
        BY <3>5, <4>1, <4>2, <4>3
    <3>6. ExactTo(A \cup {t}, M, d)
      BY <3>1, <3>4, <3>5 DEF ExactTo
    <3>7. M.tail \in A \cup {t} /\ \A z \in A \cup {t} : z <= M.tail
      BY <1>2, <1>4, <3>3, <1>1
    <3>. QED
      BY <2>1, <2>2, <3>6, <3>7 DEF ExactSoFar
  <2>. QED
    BY <2>3, <2>4
<1>10. t \in 0..MaxTasks /\ A \cup {t} \subseteq 1..t
  BY <1>1, <1>2 DEF Tasks
<1>11. ListInv(A \cup {t}, M, t, s)
  BY <1>1, <1>4, <1>6, <1>7, <1>8, <1>9, <1>10 DEF ListInv
<1>. QED
  BY <1>2, <1>3, <1>11

\* What remove_from_task_list does to the fields.
LEMMA RemoveFields ==
  ASSUME NEW L \in List, L.current \in Tasks, L.prev[L.current] # L.current,
         NEW R, R = remove_from_task_list(L, L.current)
  PROVE  /\ R \in List
         /\ R.prev = L.prev
         /\ \A x \in Tasks : R.next[x] = IF x = L.prev[L.current]
                                         THEN L.next[L.current] ELSE L.next[x]
         /\ R.head = IF L.head = L.current THEN L.next[L.current] ELSE L.head
         /\ R.tail = IF L.tail = L.current THEN L.prev[L.current] ELSE L.tail
         /\ R.current = IF L.next[L.current] = NULL THEN R.head ELSE L.next[L.current]
<1>1. PICK c \in Tasks : c = L.current
  OBVIOUS
<1>2. PICK U : U = Unlinked(L, c)
  OBVIOUS
<1>3. PICK nx : nx = IF L.prev[c] = NULL THEN L.next
                     ELSE [L.next EXCEPT ![L.prev[c]] = L.next[c]]
  OBVIOUS
<1>4. /\ nx \in [Tasks -> TaskPtr]
      /\ \A x \in Tasks : nx[x] = IF x = L.prev[c] THEN L.next[c] ELSE L.next[x]
  BY <1>3, ListFields, TaskNumbers
<1>5. U = [head |-> IF L.head = c THEN L.next[c] ELSE L.head,
           tail |-> IF L.tail = c THEN L.prev[c] ELSE L.tail,
           current |-> L.current, next |-> nx, prev |-> L.prev]
  BY <1>2, <1>3 DEF Unlinked, List
<1>6. /\ L.next[c] \in TaskPtr /\ L.prev[c] \in TaskPtr
      /\ L.head \in TaskPtr /\ L.tail \in TaskPtr /\ L.current \in TaskPtr
      /\ L.prev \in [Tasks -> TaskPtr]
  BY ListFields
<1>7. PICK g : g = get_next_task(U)
  OBVIOUS
<1>8. g = IF L.next[c] = NULL THEN U.head ELSE L.next[c]
  <2>1. U.next[U.current] = L.next[c]
    BY <1>1, <1>4, <1>5
  <2>. QED
    BY <1>7, <2>1 DEF get_next_task
<1>9. R = [U EXCEPT !.current = g]
  BY <1>1, <1>2, <1>7 DEF remove_from_task_list
<1>10. R = [head |-> IF L.head = c THEN L.next[c] ELSE L.head,
            tail |-> IF L.tail = c THEN L.prev[c] ELSE L.tail,
            current |-> g, next |-> nx, prev |-> L.prev]
  BY <1>5, <1>9
<1>11. g \in TaskPtr
  BY <1>5, <1>6, <1>8
<1>12. R \in List
  BY <1>4, <1>6, <1>10, <1>11 DEF List
<1>13. R.next = nx /\ R.prev = L.prev /\ R.current = g
  BY <1>10
<1>14. /\ R.head = IF L.head = c THEN L.next[c] ELSE L.head
       /\ R.tail = IF L.tail = c THEN L.prev[c] ELSE L.tail
       /\ U.head = R.head
  BY <1>5, <1>10
<1>. QED
  BY <1>1, <1>4, <1>8, <1>12, <1>13, <1>14

\* The first task of the exact part, and its last one.
LEMMA ExactHead ==
  ASSUME NEW A, NEW L, NEW n, NEW s, ListInv(A, L, n, s), NEW d \in 0..n, d \notin A,
         Follows(A, d, 0, L.head), L.head \in A
  PROVE  L.head \in Upto(A, d) /\ \A z \in Upto(A, d) : L.head <= z
<1>1. \A z \in A : z \in Nat /\ z > 0
  BY DEF ListInv
<1>. QED
  BY <1>1 DEF Follows, Upto

\* The links that do not depend on how far the list is exact.
LEMMA RemoveLinks ==
  ASSUME NEW A, NEW L, NEW n, NEW s, ListInv(A, L, n, s), L.current \in A,
         NEW R, R = remove_from_task_list(L, L.current)
  PROVE  /\ R \in List
         /\ Fresh(R, n) /\ Ordered(R) /\ Linked(A \ {L.current}, R)
<1>1. PICK c \in A : c = L.current
  OBVIOUS
<1>2. /\ L \in List /\ n \in Nat /\ A \subseteq 1..n /\ A \subseteq Tasks /\ c \in Tasks
  BY MaxTasksAssumption DEF ListInv, Tasks
<1>3. PICK p \in TaskPtr, m \in TaskPtr : p = L.prev[c] /\ m = L.next[c]
  BY <1>2, ListFields
<1>4. p \in Nat /\ m \in Nat /\ c \in Nat /\ c <= n /\ c > 0
  <2>1. p \in Nat /\ m \in Nat
    BY TaskNumbers
  <2>. QED
    BY <1>2, <2>1
<1>5. p < c /\ (m = NULL \/ c < m)
  BY <1>2, <1>3 DEF ListInv, Ordered
<1>6. (p = NULL => c = L.head) /\ (p # NULL => L.next[p] = c)
  BY <1>3 DEF ListInv, Linked
<1>7. /\ R \in List /\ R.prev = L.prev
      /\ \A x \in Tasks : R.next[x] = IF x = p THEN m ELSE L.next[x]
      /\ R.head = IF L.head = c THEN m ELSE L.head
      /\ R.tail = IF L.tail = c THEN p ELSE L.tail
  <2>1. L.current \in Tasks /\ L.prev[L.current] # L.current
    BY <1>1, <1>2, <1>3, <1>4, <1>5
  <2>. QED
    BY <1>1, <1>2, <1>3, <2>1, RemoveFields
<1>8. Fresh(R, n)
  <2>1. R.tail <= n
    BY <1>4, <1>5, <1>7 DEF ListInv, Fresh
  <2>2. ASSUME NEW x \in Tasks, x > n PROVE R.next[x] = NULL /\ R.prev[x] = NULL
    BY <1>2, <1>4, <1>5, <1>7, <2>2, TaskNumbers DEF ListInv, Fresh
  <2>. QED
    BY <2>1, <2>2 DEF Fresh
<1>9. Ordered(R)
  <2>. SUFFICES ASSUME NEW x \in Tasks
                PROVE  R.prev[x] < x /\ (R.next[x] = NULL \/ x < R.next[x])
    BY DEF Ordered
  <2>1. L.prev[x] < x /\ (L.next[x] = NULL \/ x < L.next[x])
    BY DEF ListInv, Ordered
  <2>2. x = p => m = NULL \/ x < m
    BY <1>4, <1>5, TaskNumbers
  <2>. QED
    BY <1>7, <2>1, <2>2
<1>10. ASSUME NEW x \in A \ {c}
       PROVE  IF R.prev[x] = NULL THEN x = R.head ELSE R.next[R.prev[x]] = x
  <2>1. IF L.prev[x] = NULL THEN x = L.head ELSE L.next[L.prev[x]] = x
    BY DEF ListInv, Linked
  <2>2. x # c /\ x \in Tasks
    BY <1>2
  <2>3. CASE L.prev[x] = NULL
    BY <1>7, <2>1, <2>2, <2>3
  <2>4. CASE L.prev[x] # NULL
    <3>1. L.prev[x] \in Tasks /\ L.prev[x] # p
      BY <1>2, <1>6, <2>1, <2>2, <2>4, ListFields, TaskNumbers
    <3>. QED
      BY <1>7, <2>1, <2>4, <3>1
  <2>. QED
    BY <2>3, <2>4
<1>11. IF R.tail = NULL THEN A \ {c} = {} ELSE R.next[R.tail] = NULL
  <2>1. L.tail # NULL /\ L.tail \in Tasks /\ L.next[L.tail] = NULL
    BY HeadAndTail, TaskNumbers DEF ListInv, Linked
  <2>2. CASE L.tail # c
    <3>1. L.tail # p
      BY <1>4, <1>6, <2>1, TaskNumbers
    <3>. QED
      BY <1>7, <2>1, <2>2, <3>1
  <2>3. CASE L.tail = c /\ p # NULL
    BY <1>3, <1>7, <2>1, <2>3, TaskNumbers
  <2>4. CASE L.tail = c /\ p = NULL
    <3>1. m = NULL /\ c = L.head
      BY <1>3, <1>6, <2>1, <2>4
    <3>2. PICK d \in 0..n : d \notin A /\ ExactTo(A, L, d)
      BY DEF ListInv, ExactSoFar
    <3>3. c \in Upto(A, d) /\ \A z \in Upto(A, d) : c <= z
      BY <3>1, <3>2, ExactHead DEF ExactTo
    <3>4. Follows(A, d, c, NULL)
      BY <1>3, <3>1, <3>2, <3>3 DEF ExactTo
    <3>5. NULL \notin A
      BY <1>2, TaskNumbers
    <3>6. d = NULL /\ \A z \in Upto(A, d) : z <= c
      BY <3>4, <3>5 DEF Follows, Upto
    <3>7. ASSUME NEW z \in A PROVE z = c
      <4>1. z \in Upto(A, d) /\ z \in Nat
        BY <1>2, <3>6 DEF Upto
      <4>. QED
        BY <1>4, <3>3, <3>6, <4>1
    <3>. QED
      BY <1>7, <2>4, <3>7
  <2>. QED
    BY <2>2, <2>3, <2>4
<1>. QED
  BY <1>1, <1>7, <1>8, <1>9, <1>10, <1>11 DEF Linked

\* How far the list is exact after a task has left: as far as before, or, if
\* its prev field was stale, up to that task.
LEMMA RemoveExact ==
  ASSUME NEW A, NEW L, NEW n, NEW s, ListInv(A, L, n, s), L.current \in A,
         NEW R, R = remove_from_task_list(L, L.current), NEW s2 \in BOOLEAN,
         s2 <=> s \/ (L.current # L.head /\ L.prev[L.current] \notin A)
  PROVE  ExactSoFar(A \ {L.current}, R, n, s2)
<1>1. PICK c \in A : c = L.current
  OBVIOUS
<1>2. /\ L \in List /\ n \in Nat /\ A \subseteq 1..n /\ A \subseteq Tasks /\ c \in Tasks
  BY MaxTasksAssumption DEF ListInv, Tasks
<1>3. PICK p \in TaskPtr, m \in TaskPtr : p = L.prev[c] /\ m = L.next[c]
  BY <1>2, ListFields
<1>4. p \in Nat /\ m \in Nat /\ c \in Nat /\ c <= n /\ c > 0
  <2>1. p \in Nat /\ m \in Nat
    BY TaskNumbers
  <2>. QED
    BY <1>2, <2>1
<1>5. p < c /\ (m = NULL \/ c < m)
  BY <1>2, <1>3 DEF ListInv, Ordered
<1>6. (p = NULL => c = L.head) /\ (p # NULL => L.next[p] = c)
  BY <1>3 DEF ListInv, Linked
<1>7. /\ \A x \in Tasks : R.next[x] = IF x = p THEN m ELSE L.next[x]
      /\ R.head = IF L.head = c THEN m ELSE L.head
      /\ R.tail = IF L.tail = c THEN p ELSE L.tail
  <2>1. L.current \in Tasks /\ L.prev[L.current] # L.current
    BY <1>1, <1>2, <1>3, <1>4, <1>5
  <2>. QED
    BY <1>1, <1>2, <1>3, <2>1, RemoveFields
<1>8. PICK d \in 0..n : d \notin A /\ (d = NULL <=> ~s) /\ ExactTo(A, L, d)
  BY DEF ListInv, ExactSoFar
<1>9. PICK U : U = Upto(A, d)
  OBVIOUS
<1>10. /\ U \subseteq A /\ U \subseteq Tasks
       /\ \A z \in A : z \in Nat /\ z > 0
       /\ d \in Nat /\ d # c
       /\ \A z \in A : z \in U <=> d = 0 \/ z < d
  BY <1>2, <1>8, <1>9 DEF Upto, NULL
<1>11. /\ (L.head = d /\ U = {}) \/ (L.head \in U /\ \A z \in U : L.head <= z)
       /\ \A x \in U : \/ L.next[x] = d /\ \A z \in U : z <= x
                       \/ /\ L.next[x] \in U /\ x < L.next[x]
                          /\ \A z \in U : z <= x \/ L.next[x] <= z
  <2>1. /\ Follows(A, d, 0, L.head)
        /\ \A x \in U : Follows(A, d, x, L.next[x])
    BY <1>8, <1>9 DEF ExactTo
  <2>2. (L.head = d /\ U = {}) \/ (L.head \in U /\ \A z \in U : L.head <= z)
    BY <1>9, <1>10, <2>1 DEF Follows
  <2>. QED
    BY <1>9, <2>1, <2>2 DEF Follows
<1>12. PICK B : B = A \ {c}
  OBVIOUS
<1>13. ASSUME NEW e \in 0..n, NEW V, V = Upto(B, e),
              (R.head = e /\ V = {}) \/ (R.head \in V /\ \A z \in V : R.head <= z),
              \A x \in V : \/ R.next[x] = e /\ \A z \in V : z <= x
                           \/ /\ R.next[x] \in V /\ x < R.next[x]
                              /\ \A z \in V : z <= x \/ R.next[x] <= z
       PROVE  ExactTo(B, R, e)
  <2>1. V \subseteq A
    BY <1>12, <1>13 DEF Upto
  <2>2. Follows(B, e, 0, R.head)
    BY <1>10, <1>13, <2>1 DEF Follows
  <2>. QED
    BY <1>13, <2>2 DEF ExactTo, Follows
<1>14. \E e \in 0..n : e \notin B /\ (e = NULL <=> ~s2) /\ ExactTo(B, R, e)
  <2>1. CASE c \notin U
    <3>1. d # 0 /\ s /\ s2
      BY <1>8, <1>10, <2>1 DEF NULL
    <3>2. Upto(B, d) = U /\ p \notin U /\ L.head # c
      BY <1>6, <1>8, <1>9, <1>10, <1>11, <1>12, <2>1, TaskNumbers DEF Upto
    <3>3. R.head = L.head /\ \A x \in U : R.next[x] = L.next[x]
      BY <1>7, <1>10, <3>2
    <3>4. ExactTo(B, R, d)
      BY <1>11, <1>13, <3>2, <3>3
    <3>. QED
      BY <1>8, <1>12, <3>1, <3>4 DEF NULL
  <2>2. CASE c \in U /\ c = L.head
    <3>1. Upto(B, d) = U \ {c}
      BY <1>9, <1>12 DEF Upto
    <3>2. p \notin U /\ \A z \in U : c <= z
      BY <1>4, <1>5, <1>10, <1>11, <2>2
    <3>3. R.head = m /\ \A x \in U \ {c} : R.next[x] = L.next[x]
      BY <1>7, <1>10, <2>2, <3>2
    <3>4. \/ R.head = d /\ U \ {c} = {}
          \/ R.head \in U \ {c} /\ \A z \in U \ {c} : R.head <= z
      <4>1. CASE m = d /\ \A z \in U : z <= c
        <5>1. ASSUME NEW z \in U PROVE z = c
          BY <1>4, <1>10, <3>2, <4>1
        <5>. QED
          BY <3>3, <4>1, <5>1
      <4>2. CASE m \in U /\ c < m /\ \A z \in U : z <= c \/ m <= z
        BY <1>4, <1>10, <3>2, <3>3, <4>2
      <4>. QED
        BY <1>3, <1>11, <2>2, <4>1, <4>2
    <3>5. ASSUME NEW x \in U \ {c}
          PROVE  \/ R.next[x] = d /\ \A z \in U \ {c} : z <= x
                 \/ /\ R.next[x] \in U \ {c} /\ x < R.next[x]
                    /\ \A z \in U \ {c} : z <= x \/ R.next[x] <= z
      BY <1>4, <1>10, <1>11, <3>2, <3>3
    <3>6. ExactTo(B, R, d)
      BY <1>13, <3>1, <3>4, <3>5
    <3>. QED
      BY <1>1, <1>8, <1>12, <2>2, <3>6
  <2>3. CASE c \in U /\ c # L.head /\ p \in A
    <3>1. Upto(B, d) = U \ {c}
      BY <1>9, <1>12 DEF Upto
    <3>2. p \in U /\ L.next[p] = c
      BY <1>4, <1>5, <1>6, <1>10, <2>3
    <3>3. R.head = L.head /\ L.head # d /\ \A x \in U \ {c, p} : R.next[x] = L.next[x]
      BY <1>7, <1>10, <1>11, <2>3
    <3>4. R.head \in U \ {c} /\ \A z \in U \ {c} : R.head <= z
      BY <1>11, <2>3, <3>3
    <3>5. p < c /\ \A z \in U : z <= p \/ c <= z
      BY <1>5, <1>10, <1>11, <3>2
    <3>6. \/ m = d /\ \A z \in U : z <= c
          \/ m \in U /\ c < m /\ \A z \in U : z <= c \/ m <= z
      BY <1>3, <1>11, <2>3
    <3>7. ASSUME NEW x \in U \ {c}
          PROVE  \/ R.next[x] = d /\ \A z \in U \ {c} : z <= x
                 \/ /\ R.next[x] \in U \ {c} /\ x < R.next[x]
                    /\ \A z \in U \ {c} : z <= x \/ R.next[x] <= z
      <4>1. CASE x = p
        <5>1. R.next[x] = m
          BY <1>7, <1>10, <4>1
        <5>2. \A z \in U \ {c} : z <= c => z <= p
          BY <1>4, <1>10, <3>5
        <5>. QED
          BY <1>4, <1>10, <3>5, <3>6, <4>1, <5>1, <5>2
      <4>2. CASE x # p
        <5>1. R.next[x] = L.next[x]
          BY <3>3, <4>2
        <5>2. ASSUME L.next[x] = c PROVE FALSE
          <6>1. x < c /\ \A z \in U : z <= x \/ c <= z
            BY <1>10, <1>11, <5>2
          <6>2. p <= x /\ x <= p
            BY <1>4, <1>10, <3>2, <3>5, <6>1
          <6>. QED
            BY <1>4, <1>10, <4>2, <6>2
        <5>. QED
          BY <1>11, <5>1, <5>2
      <4>. QED
        BY <4>1, <4>2
    <3>8. ExactTo(B, R, d)
      BY <1>13, <3>1, <3>4, <3>7
    <3>9. s2 <=> s
      BY <1>1, <1>3, <2>3
    <3>. QED
      BY <1>8, <1>12, <3>8, <3>9
  <2>4. CASE c \in U /\ c # L.head /\ p \notin A
    <3>1. PICK V : V = Upto(B, c)
      OBVIOUS
    <3>2. V = {x \in U : x < c}
      <4>1. \A x \in A : x < c => x \in U
        BY <1>4, <1>10, <2>4
      <4>2. V = {x \in B : x < c}
        BY <1>4, <3>1 DEF Upto, NULL
      <4>3. \A x \in U : x < c => x \in B
        BY <1>4, <1>10, <1>12
      <4>. QED
        BY <1>12, <4>1, <4>2, <4>3
    <3>3. R.head = L.head /\ \A x \in U : R.next[x] = L.next[x]
      BY <1>7, <1>10, <2>4
    <3>4. R.head \in V /\ \A z \in V : R.head <= z
      <4>1. L.head \in U /\ \A z \in U : L.head <= z
        BY <1>11, <2>4
      <4>2. L.head \in Nat /\ L.head < c
        <5>1. L.head <= c /\ L.head # c
          BY <2>4, <4>1
        <5>2. L.head \in Nat
          BY <1>10, <4>1
        <5>. QED
          BY <1>4, <5>1, <5>2
      <4>. QED
        BY <3>2, <3>3, <4>1, <4>2
    <3>5. ASSUME NEW x \in V
          PROVE  \/ R.next[x] = c /\ \A z \in V : z <= x
                 \/ /\ R.next[x] \in V /\ x < R.next[x]
                    /\ \A z \in V : z <= x \/ R.next[x] <= z
      <4>1. x \in U /\ x < c /\ R.next[x] = L.next[x] /\ x \in Nat
        BY <1>10, <3>2, <3>3
      <4>2. L.next[x] \in U /\ \A z \in U : z <= x \/ L.next[x] <= z
        BY <1>4, <1>11, <2>4, <4>1
      <4>3. L.next[x] <= c /\ L.next[x] \in Nat /\ x < L.next[x]
        <5>1. c <= x \/ L.next[x] <= c
          BY <2>4, <4>2
        <5>2. L.next[x] \in Nat /\ x < L.next[x]
          BY <1>8, <1>10, <1>11, <4>1, <4>2
        <5>. QED
          BY <1>4, <4>1, <5>1, <5>2
      <4>4. CASE L.next[x] = c
        <5>1. ASSUME NEW z \in V PROVE z <= x
          <6>1. z \in U /\ z < c /\ z \in Nat
            BY <1>10, <3>2
          <6>2. z <= x \/ c <= z
            BY <4>2, <4>4, <6>1
          <6>. QED
            BY <1>4, <6>1, <6>2
        <5>. QED
          BY <4>1, <4>4, <5>1
      <4>5. CASE L.next[x] # c
        BY <1>4, <3>2, <4>1, <4>2, <4>3, <4>5
      <4>. QED
        BY <4>4, <4>5
    <3>6. c \in 0..n
      BY <1>2, <1>4
    <3>7. ExactTo(B, R, c)
      BY <1>13, <3>1, <3>4, <3>5, <3>6
    <3>8. c # NULL /\ s2
      BY <1>1, <1>3, <1>4, <2>4 DEF NULL
    <3>. QED
      BY <1>12, <3>6, <3>7, <3>8
  <2>. QED
    BY <2>1, <2>2, <2>3, <2>4
<1>15. ASSUME ~s2, B # {}
       PROVE  R.tail \in B /\ \A z \in B : z <= R.tail
  <2>1. ~s /\ (c = L.head \/ p \in A)
    BY <1>1, <1>3, <1>15
  <2>2. L.tail \in A /\ \A z \in A : z <= L.tail
    BY <2>1 DEF ListInv, ExactSoFar
  <2>3. CASE L.tail # c
    BY <1>7, <1>12, <2>2, <2>3
  <2>4. CASE L.tail = c
    <3>1. U = A
      BY <1>8, <1>9, <2>1 DEF Upto
    <3>2. PICK z \in A : z # c
      BY <1>12, <1>15
    <3>3. z < c
      BY <1>4, <1>10, <2>2, <2>4, <3>2
    <3>4. c # L.head
      <4>1. U # {} /\ z \in U /\ z \in Nat
        BY <1>10, <3>1, <3>2
      <4>2. L.head <= z
        BY <1>11, <4>1
      <4>. QED
        BY <1>4, <3>3, <4>1, <4>2
    <3>5. p \in A /\ p # NULL /\ L.next[p] = c
      BY <1>6, <2>1, <3>4
    <3>6. \A x \in A : x <= p \/ c <= x
      BY <1>8, <1>10, <1>11, <3>1, <3>5
    <3>7. \A x \in B : x <= p
      <4>. SUFFICES ASSUME NEW x \in B PROVE x <= p
        OBVIOUS
      <4>1. x \in A /\ x # c /\ x \in Nat /\ x <= c
        BY <1>10, <1>12, <2>2, <2>4
      <4>2. ~(c <= x)
        BY <1>4, <4>1
      <4>. QED
        BY <3>6, <4>1, <4>2
    <3>. QED
      BY <1>4, <1>5, <1>7, <1>12, <2>4, <3>5, <3>7
  <2>. QED
    BY <2>3, <2>4
<1>. QED
  BY <1>1, <1>12, <1>14, <1>15 DEF ExactSoFar

\* A task leaves the list.
LEMMA RemoveStep ==
  ASSUME NEW A, NEW L, NEW n, NEW s, ListInv(A, L, n, s), L.current \in A,
         NEW R, R = remove_from_task_list(L, L.current), NEW s2 \in BOOLEAN,
         s2 <=> s \/ (L.current # L.head /\ L.prev[L.current] \notin A)
  PROVE  ListInv(A \ {L.current}, R, n, s2)
<1>1. n \in 0..MaxTasks /\ A \ {L.current} \subseteq 1..n
  BY DEF ListInv
<1>. QED
  BY <1>1, RemoveLinks, RemoveExact DEF ListInv

\* current_task is not one of the links.
LEMMA MoveCurrent ==
  ASSUME NEW A, NEW L, NEW n, NEW s, ListInv(A, L, n, s), NEW c \in TaskPtr,
         NEW M, M = [L EXCEPT !.current = c]
  PROVE  ListInv(A, M, n, s) /\ M.current = c
<1>1. /\ M \in List /\ M.current = c /\ M.head = L.head /\ M.tail = L.tail
      /\ M.next = L.next /\ M.prev = L.prev
  BY DEF ListInv, List
<1>2. Fresh(M, n) /\ Ordered(M)
  BY <1>1 DEF ListInv, Fresh, Ordered
<1>3. Linked(A, M)
  BY <1>1 DEF ListInv, Linked
<1>4. ExactSoFar(A, M, n, s)
  BY <1>1 DEF ListInv, ExactSoFar, ExactTo
<1>. QED
  BY <1>1, <1>2, <1>3, <1>4 DEF ListInv

\* An exact list: its ends, and the successor of each task.
LEMMA ExactList ==
  ASSUME NEW A, NEW L, NEW n, NEW s, ListInv(A, L, n, s), ~s, A # {}
  PROVE  /\ L.head \in A /\ \A z \in A : L.head <= z
         /\ L.tail \in A /\ \A z \in A : z <= L.tail
         /\ \A x \in A : \/ L.next[x] = NULL /\ \A z \in A : z <= x
                         \/ /\ L.next[x] \in A /\ x < L.next[x]
                            /\ \A z \in A : z <= x \/ L.next[x] <= z
<1>1. L.tail \in A /\ \A z \in A : z <= L.tail
  BY DEF ListInv, ExactSoFar
<1>2. PICK d \in 0..n : d = NULL /\ ExactTo(A, L, d)
  BY DEF ListInv, ExactSoFar
<1>3. Upto(A, d) = A
  BY <1>2 DEF Upto
<1>4. \A z \in A : z \in Nat /\ z > 0
  BY DEF ListInv
<1>5. L.head \in A /\ \A z \in A : L.head <= z
  BY <1>1, <1>2, <1>3, <1>4 DEF ExactTo, Follows
<1>6. \A x \in A : \/ L.next[x] = NULL /\ \A z \in A : z <= x
                   \/ /\ L.next[x] \in A /\ x < L.next[x]
                      /\ \A z \in A : z <= x \/ L.next[x] <= z
  BY <1>2, <1>3 DEF ExactTo, Follows
<1>. QED
  BY <1>1, <1>5, <1>6

\* A head without a successor is the only task alive.
LEMMA LoneHead ==
  ASSUME NEW A, NEW L, NEW n, NEW s, ListInv(A, L, n, s), L.head \in A,
         L.next[L.head] = NULL
  PROVE  A = {L.head} /\ ~s
<1>1. PICK d \in 0..n : d \notin A /\ (d = NULL <=> ~s) /\ ExactTo(A, L, d)
  BY DEF ListInv, ExactSoFar
<1>2. L.head \in Upto(A, d) /\ \A z \in Upto(A, d) : L.head <= z
  BY <1>1, ExactHead DEF ExactTo
<1>3. Follows(A, d, L.head, NULL)
  BY <1>1, <1>2 DEF ExactTo
<1>4. \A z \in A : z \in Nat /\ z > 0
  BY DEF ListInv
<1>5. d = NULL /\ \A z \in Upto(A, d) : z <= L.head
  BY <1>3, <1>4 DEF Follows, Upto, NULL
<1>6. ASSUME NEW z \in A PROVE z = L.head
  <2>1. z \in Upto(A, d)
    BY <1>5 DEF Upto
  <2>. QED
    BY <1>2, <1>4, <1>5, <2>1
<1>. QED
  BY <1>1, <1>5, <1>6

\* Where the exit of the current task leads.
LEMMA ExitTarget ==
  ASSUME NEW A, NEW L, NEW n, NEW s, ListInv(A, L, n, s), L.current \in A,
         NEW R, R = remove_from_task_list(L, L.current), NEW s2 \in BOOLEAN,
         s2 <=> s \/ (L.current # L.head /\ L.prev[L.current] \notin A)
  PROVE  /\ R.current \in TaskPtr
         /\ R.current = NULL => A = {L.current}
         /\ R.current # NULL => get_next_task(R) \in Tasks
         /\ R.current # NULL /\ ~s2 => get_next_task(R) \in A \ {L.current}
<1>1. PICK c \in A : c = L.current
  OBVIOUS
<1>2. /\ L \in List /\ A \subseteq Tasks /\ c \in Tasks /\ c \in Nat
      /\ \A z \in A : z \in Nat /\ z > 0
  BY MaxTasksAssumption DEF ListInv, Tasks
<1>3. L.head \in Tasks
  BY HeadAndTail
<1>4. L.prev[c] # c /\ L.next[c] \in TaskPtr
  <2>1. L.prev[c] < c /\ L.next[c] \in TaskPtr /\ L.prev[c] \in TaskPtr
    BY <1>2, ListFields DEF ListInv, Ordered
  <2>. QED
    BY <1>2, <2>1, TaskNumbers
<1>5. /\ R \in List
      /\ R.head = IF L.head = c THEN L.next[c] ELSE L.head
      /\ R.current = IF L.next[c] = NULL THEN R.head ELSE L.next[c]
  BY <1>1, <1>2, <1>4, RemoveFields
<1>6. PICK B : B = A \ {c}
  OBVIOUS
<1>7. ListInv(B, R, n, s2)
  BY <1>1, <1>6, RemoveStep
<1>8. R.current = NULL => A = {c}
  <2>. SUFFICES ASSUME R.current = NULL PROVE A = {c}
    OBVIOUS
  <2>1. c = L.head /\ L.next[c] = NULL
    BY <1>3, <1>5, TaskNumbers
  <2>. QED
    BY <2>1, LoneHead
<1>9. ASSUME R.current # NULL PROVE R.head \in Tasks /\ get_next_task(R) \in Tasks
  <2>1. R.head \in TaskPtr /\ R.current \in Tasks /\ R.next[R.current] \in TaskPtr
    BY <1>5, <1>9, ListFields, TaskNumbers
  <2>2. R.head # NULL
    BY <1>3, <1>5, <1>9, TaskNumbers
  <2>. QED
    BY <2>1, <2>2, TaskNumbers DEF get_next_task
<1>10. ASSUME R.current # NULL, ~s2 PROVE get_next_task(R) \in B
  <2>1. ~s
    BY <1>10
  <2>2. /\ L.head \in A
        /\ \A x \in A : \/ L.next[x] = NULL /\ \A z \in A : z <= x
                        \/ /\ L.next[x] \in A /\ x < L.next[x]
                           /\ \A z \in A : z <= x \/ L.next[x] <= z
    BY <2>1, ExactList
  <2>3. R.head = L.head \/ R.head = L.next[c]
    BY <1>5
  <2>4. R.current \in B
    <3>1. CASE L.next[c] = NULL
      BY <1>5, <1>6, <1>10, <2>2, <3>1
    <3>2. CASE L.next[c] # NULL
      BY <1>2, <1>5, <1>6, <2>2, <3>2
    <3>. QED
      BY <3>1, <3>2
  <2>5. /\ R.head \in B
        /\ \A x \in B : R.next[x] = NULL \/ R.next[x] \in B
    BY <1>7, <1>10, <2>4, ExactList
  <2>. QED
    BY <2>4, <2>5 DEF get_next_task
<1>. QED
  BY <1>1, <1>5, <1>6, <1>8, <1>9, <1>10, ListFields

-----------------------------------------------------------------------------
(* The invariant of the kernel.  Apart from the links of the task list it  *)
(* says what the properties need of one another: the table never names a   *)
(* process whose id is another slot, a task not yet created has not run,   *)
(* the tasks alive are counted by peak, and, as long as three are enough,  *)
(* programs end in the opposite order of their start, so that no prev      *)
(* field is stale.                                                         *)

AtBoot ==
  mode = "boot" =>
     /\ tasks = EmptyList /\ alive = {} /\ loads = 0 /\ peak = 0
     /\ ~stale /\ ~zombied
     /\ \A s \in Slots : process_list[s] = NULL

Running ==
  /\ mode = "user" => tasks.current \in alive /\ cr3 = tasks.current
  /\ mode = "wild" => stale

NotRunYet == \A t \in Tasks : t > loads => saved[t] = ENTRY /\ progress[t] = ENTRY

IdIsSlot == \A s \in Slots : process_list[s] # NULL => id[process_list[s]] = s
HasSlot == ~zombied => \A t \in alive : process_list[id[t]] = t

Counted == IsFiniteSet(alive) /\ Cardinality(alive) <= peak

Nested ==
  mode = "user" /\ peak <= 3 /\ ~zombied =>
     /\ ~stale
     /\ \A z \in alive : z <= tasks.current
     /\ \A t \in alive : t # tasks.head => tasks.prev[t] \in alive

KernelInv ==
  /\ TypeOK
  /\ AtBoot
  /\ Running
  /\ ListInv(alive, tasks, loads, stale)
  /\ NotRunYet
  /\ ContextPreserved
  /\ KeyboardTargetAlive
  /\ IdIsSlot
  /\ HasSlot
  /\ Counted
  /\ Nested
  /\ KeysReachReader

\* Distinct members are counted.
LEMMA CountMembers ==
  ASSUME NEW A, IsFiniteSet(A), NEW a \in A, NEW b \in A, NEW c \in A, a # b, a # c, b # c
  PROVE  /\ Cardinality(A) >= 3
         /\ \A e \in A : e \notin {a, b, c} => Cardinality(A) >= 4
<1>1. IsFiniteSet({a}) /\ Cardinality({a}) = 1
  BY FS_Singleton
<1>2. PICK D : D = {a} \cup {b}
  OBVIOUS
<1>3. PICK S : S = D \cup {c}
  OBVIOUS
<1>4. IsFiniteSet(S) /\ Cardinality(S) = 3
  <2>1. b \notin {a} /\ c \notin D
    BY <1>2
  <2>2. IsFiniteSet(D) /\ Cardinality(D) = Cardinality({a}) + 1
    BY <1>1, <1>2, <2>1, FS_AddElement
  <2>3. IsFiniteSet(S) /\ Cardinality(S) = Cardinality(D) + 1
    BY <1>3, <2>1, <2>2, FS_AddElement
  <2>. QED
    BY <1>1, <2>2, <2>3
<1>5. S \subseteq A /\ Cardinality(A) \in Nat
  BY <1>2, <1>3, FS_CardinalityType
<1>6. Cardinality(A) >= 3
  BY <1>4, <1>5, FS_Subset
<1>7. ASSUME NEW e \in A, e \notin {a, b, c} PROVE Cardinality(A) >= 4
  <2>1. IsFiniteSet(S \cup {e}) /\ Cardinality(S \cup {e}) = 4
    <3>1. e \notin S
      BY <1>2, <1>3, <1>7
    <3>2. IsFiniteSet(S \cup {e}) /\ Cardinality(S \cup {e}) = Cardinality(S) + 1
      BY <1>4, <3>1, FS_AddElement
    <3>. QED
      BY <1>4, <3>2
  <2>2. S \cup {e} \subseteq A
    BY <1>5
  <2>. QED
    BY <1>5, <2>1, <2>2, FS_Subset
<1>. QED
  BY <1>6, <1>7

\* The kernel has loaded nothing yet.
LEMMA KernelInit == Init => KernelInv
<1>. SUFFICES ASSUME Init PROVE KernelInv
  OBVIOUS
<1>1. TypeOK
  <2>1. EmptyList \in List
    BY DEF EmptyList, List, TaskPtr
  <2>2. 0 \in Slots /\ 0 \in 0..MaxTasks /\ 0 \in 0..MaxSteps /\ 0 \in TaskPtr
    BY MaxTasksAssumption, MaxProcessAssumption, MaxStepsAssumption, TaskNumbers DEF Slots
  <2>. QED
    BY <2>1, <2>2 DEF Init, TypeOK, NULL, KERNEL, ENTRY
<1>2. ListInv(alive, tasks, loads, stale)
  BY CreateFirst DEF Init
<1>3. AtBoot /\ Running /\ NotRunYet /\ ContextPreserved
  BY <1>1 DEF Init, AtBoot, Running, NotRunYet, ContextPreserved
<1>4. KeyboardTargetAlive /\ IdIsSlot /\ HasSlot /\ Nested /\ KeysReachReader
  BY <1>1 DEF Init, KeyboardTargetAlive, IdIsSlot, HasSlot, Nested, KeysReachReader
<1>5. Counted
  BY FS_EmptySet DEF Init, Counted
<1>. QED
  BY <1>1, <1>2, <1>3, <1>4, <1>5 DEF KernelInv

\* The programs that wait, all of them when a handler has saved the current
\* one, are saved.
AllSaved ==
  /\ saved' \in [Tasks -> 0..MaxSteps]
  /\ \A t \in alive : saved'[t] = progress[t]
  /\ \A t \in Tasks : t > loads => saved'[t] = ENTRY

\* The current task, when the kernel is entered from user mode.
LEMMA CurrentTask ==
  ASSUME KernelInv, mode = "user"
  PROVE  /\ tasks.current \in alive /\ tasks.current \in Tasks
         /\ tasks.current <= loads /\ alive # {}
<1>1. tasks.current \in alive /\ alive \subseteq Tasks
  BY DEF KernelInv, TypeOK, Running
<1>2. alive \subseteq 1..loads /\ loads \in Nat
  BY MaxTasksAssumption DEF KernelInv, ListInv
<1>3. tasks.current \in Tasks /\ alive # {}
  BY <1>1
<1>4. tasks.current \in 1..loads
  BY <1>1, <1>2
<1>5. tasks.current <= loads
  BY <1>2, <1>4
<1>. QED
  BY <1>1, <1>3, <1>5

\* After task_save_current_state every live task has its registers saved.
LEMMA StateIsSaved ==
  ASSUME KernelInv, task_save_current_state
  PROVE  AllSaved
<1>1. mode = "user" /\ saved' = [saved EXCEPT ![tasks.current] = regs]
  BY DEF task_save_current_state, save_state
<1>2. PICK c \in Tasks : c = tasks.current /\ c <= loads
  BY <1>1, CurrentTask
<1>3. saved \in [Tasks -> 0..MaxSteps] /\ regs \in 0..MaxSteps /\ alive \subseteq Tasks
      /\ loads \in Nat
  BY DEF KernelInv, TypeOK
<1>4. \A t \in Tasks : saved'[t] = IF t = c THEN regs ELSE saved[t]
  BY <1>1, <1>2, <1>3
<1>5. saved' \in [Tasks -> 0..MaxSteps]
  BY <1>1, <1>3
<1>6. \A t \in alive : saved'[t] = progress[t]
  BY <1>1, <1>2, <1>3, <1>4 DEF KernelInv, ContextPreserved
<1>7. \A t \in Tasks : t > loads => saved'[t] = ENTRY
  BY <1>2, <1>3, <1>4, TaskNumbers DEF KernelInv, NotRunYet
<1>. QED
  BY <1>5, <1>6, <1>7 DEF AllSaved

\* The list and the counts after load_process has created a task.
LEMMA CreatedTask ==
  ASSUME KernelInv, mode \in {"boot", "user"}, NEW list, Created(list)
  PROVE  /\ ListInv(alive', create_task(tasks, NewTask), loads', stale)
         /\ NewTask \in Tasks /\ NewTask \notin alive /\ NewTask = loads + 1
         /\ Counted' /\ peak' \in 0..MaxTasks /\ peak <= peak'
         /\ alive' = alive \cup {NewTask} /\ loads' = NewTask /\ stale' = stale
         /\ progress' = progress
         /\ mode = "user" =>
              /\ create_task(tasks, NewTask).head = tasks.head
              /\ create_task(tasks, NewTask).current = tasks.current
              /\ \A t \in Tasks : create_task(tasks, NewTask).prev[t] =
                                    IF t = NewTask THEN tasks.tail ELSE tasks.prev[t]
<1>1. /\ loads \in 0..MaxTasks /\ loads < MaxTasks /\ NewTask = loads + 1
      /\ alive' = alive \cup {NewTask} /\ loads' = NewTask
      /\ peak' = Max({peak, Cardinality(alive) + 1})
      /\ stale' = stale /\ progress' = progress
  BY DEF KernelInv, TypeOK, Created, NewTask
<1>2. NewTask \in Tasks
  BY <1>1, MaxTasksAssumption DEF Tasks
<1>3. alive \subseteq 1..loads
  BY DEF KernelInv, ListInv
<1>4. NewTask \notin alive
  BY <1>1, <1>3
<1>5. ListInv(alive', create_task(tasks, NewTask), loads', stale)
  <2>1. CASE mode = "boot"
    <3>1. tasks = EmptyList /\ alive = {} /\ loads = 0 /\ stale = FALSE
      BY <2>1 DEF KernelInv, AtBoot, TypeOK
    <3>2. NewTask = 1 /\ alive' = {1} /\ loads' = 1
      BY <1>1, <3>1
    <3>. QED
      BY <3>1, <3>2, CreateFirst
  <2>2. CASE mode = "user"
    <3>1. ListInv(alive, tasks, loads, stale) /\ alive # {}
      BY <2>2, CurrentTask DEF KernelInv
    <3>. QED
      BY <1>1, <3>1, CreateLater
  <2>. QED
    BY <2>1, <2>2
<1>6. /\ IsFiniteSet(alive) /\ Cardinality(alive) \in Nat /\ Cardinality(alive) <= loads
      /\ peak \in 0..MaxTasks
  <2>1. IsFiniteSet(1..loads) /\ Cardinality(1..loads) = loads
    BY <1>1, FS_Interval
  <2>2. IsFiniteSet(alive) /\ Cardinality(alive) <= loads
    BY <1>3, <2>1, FS_Subset
  <2>. QED
    BY <2>2, FS_CardinalityType DEF KernelInv, TypeOK
<1>7. IsFiniteSet(alive') /\ Cardinality(alive') = Cardinality(alive) + 1
  BY <1>1, <1>4, <1>6, FS_AddElement
<1>8. peak' \in 0..MaxTasks /\ peak <= peak' /\ Cardinality(alive) + 1 <= peak'
  <2>1. PICK S : S = {peak, Cardinality(alive) + 1}
    OBVIOUS
  <2>2. S \in SUBSET Nat /\ S \subseteq 0..MaxTasks
    BY <1>1, <1>6, <2>1, MaxTasksAssumption
  <2>3. PICK x \in S : \A y \in S : y <= x
    BY <1>6, <2>1
  <2>4. Max(S) = x
    BY <2>2, <2>3, MaxIs
  <2>. QED
    BY <1>1, <2>1, <2>2, <2>3, <2>4
<1>9. Counted'
  BY <1>7, <1>8 DEF Counted
<1>10. ASSUME mode = "user"
       PROVE  /\ create_task(tasks, NewTask).head = tasks.head
              /\ create_task(tasks, NewTask).current = tasks.current
              /\ \A t \in Tasks : create_task(tasks, NewTask).prev[t] =
                                    IF t = NewTask THEN tasks.tail ELSE tasks.prev[t]
  <2>1. tasks \in List /\ ListInv(alive, tasks, loads, stale) /\ alive # {}
    BY <1>10, CurrentTask DEF KernelInv, TypeOK
  <2>2. tasks.head # NULL /\ tasks.tail \in Tasks
    BY <2>1, HeadAndTail, TaskNumbers
  <2>3. PICK n \in Tasks : n = NewTask
    BY <1>2
  <2>4. /\ create_task(tasks, n).head = tasks.head
        /\ create_task(tasks, n).current = tasks.current
        /\ create_task(tasks, n).prev = [tasks.prev EXCEPT ![n] = tasks.tail]
    BY <2>1, <2>2, CreateFields
  <2>5. tasks.prev \in [Tasks -> TaskPtr]
    BY <2>1, ListFields
  <2>. QED
    BY <2>3, <2>4, <2>5
<1>. QED
  BY <1>1, <1>2, <1>4, <1>5, <1>8, <1>9, <1>10

\* load_process succeeds and the program is entered.
LEMMA LoadAndRunKeeps ==
  ASSUME KernelInv, mode \in {"boot", "user"}, AllSaved, LoadAndRun
  PROVE  KernelInv'
<1>1. PICK n : n = NewTask
  OBVIOUS
<1>2. PICK M : M = create_task(tasks, n)
  OBVIOUS
<1>3. Created([M EXCEPT !.current = n])
  BY <1>1, <1>2 DEF LoadAndRun
<1>4. /\ ListInv(alive', M, loads', stale)
      /\ n \in Tasks /\ n \notin alive /\ n = loads + 1
      /\ Counted' /\ peak' \in 0..MaxTasks /\ peak <= peak'
      /\ alive' = alive \cup {n} /\ loads' = n /\ stale' = stale /\ progress' = progress
  BY <1>1, <1>2, <1>3, CreatedTask
<1>5. mode = "user" => M.head = tasks.head
                       /\ \A t \in Tasks : M.prev[t] = IF t = n THEN tasks.tail ELSE tasks.prev[t]
  BY <1>1, <1>2, <1>3, CreatedTask
<1>6. PICK f : f = get_process_free_slot
  OBVIOUS
<1>7. f \in Slots /\ process_list[f] = NULL
  <2>1. FreeSlots # {} /\ FreeSlots \in SUBSET Nat
    BY MaxProcessAssumption DEF LoadAndRun, Created, FreeSlots, Slots
  <2>. QED
    BY <1>6, <2>1, MinOfSet DEF get_process_free_slot, FreeSlots
<1>8. /\ tasks' = [M EXCEPT !.current = n]
      /\ process_list' = [process_list EXCEPT ![f] = n]
      /\ id' = [id EXCEPT ![n] = f]
      /\ current_process' = n /\ cr3' = n /\ regs' = saved[n] /\ mode' = "user"
      /\ zombied' = zombied
  BY <1>1, <1>2, <1>6 DEF LoadAndRun, Created, process_switch
<1>9. /\ process_list \in [Slots -> TaskPtr] /\ id \in [Tasks -> Slots] /\ alive \subseteq Tasks
      /\ saved \in [Tasks -> 0..MaxSteps] /\ progress \in [Tasks -> 0..MaxSteps]
      /\ loads \in 0..MaxTasks /\ zombied \in BOOLEAN /\ stale \in BOOLEAN /\ peak \in Nat
      /\ peak' \in Nat
  BY <1>4 DEF KernelInv, TypeOK
<1>10. /\ ListInv(alive', tasks', loads', stale') /\ tasks' \in List
       /\ tasks'.current = n /\ tasks'.head = M.head /\ tasks'.prev = M.prev
  <2>1. M \in List /\ n \in TaskPtr
    BY <1>4, TaskNumbers DEF ListInv
  <2>2. tasks'.current = n /\ tasks'.head = M.head /\ tasks'.prev = M.prev
    BY <1>8, <2>1 DEF List
  <2>3. ListInv(alive', tasks', loads', stale)
    BY <1>4, <1>8, <2>1, MoveCurrent
  <2>. QED
    BY <1>4, <2>2, <2>3 DEF ListInv
<1>11. /\ process_list' \in [Slots -> TaskPtr] /\ id' \in [Tasks -> Slots]
       /\ \A s \in Slots : process_list'[s] = IF s = f THEN n ELSE process_list[s]
       /\ \A t \in Tasks : id'[t] = IF t = n THEN f ELSE id[t]
  BY <1>4, <1>7, <1>8, <1>9, TaskNumbers
<1>12. TypeOK'
  <2>1. alive' \subseteq Tasks /\ loads' \in 0..MaxTasks /\ n \in TaskPtr
    BY <1>4, <1>9, TaskNumbers DEF Tasks
  <2>2. saved' \in [Tasks -> 0..MaxSteps] /\ regs' \in 0..MaxSteps
    BY <1>4, <1>8, <1>9 DEF AllSaved
  <2>. QED
    BY <1>4, <1>8, <1>9, <1>10, <1>11, <2>1, <2>2 DEF TypeOK
<1>13. AtBoot' /\ Running'
  BY <1>4, <1>8, <1>10 DEF AtBoot, Running
<1>14. NotRunYet'
  <2>. SUFFICES ASSUME NEW t \in Tasks, t > n
                PROVE  saved'[t] = ENTRY /\ progress'[t] = ENTRY
    BY <1>4 DEF NotRunYet
  <2>1. t > loads
    BY <1>4, <1>9, TaskNumbers
  <2>. QED
    BY <1>4, <2>1 DEF AllSaved, KernelInv, NotRunYet
<1>15. ContextPreserved'
  <2>1. saved[n] = ENTRY /\ progress[n] = ENTRY
    BY <1>4, <1>9 DEF KernelInv, NotRunYet
  <2>. QED
    BY <1>4, <1>8, <1>10, <2>1 DEF ContextPreserved, AllSaved
<1>16. KeyboardTargetAlive'
  BY <1>4, <1>8, <1>11 DEF KeyboardTargetAlive, KernelInv
<1>17. IdIsSlot'
  <2>. SUFFICES ASSUME NEW s \in Slots, process_list'[s] # NULL PROVE id'[process_list'[s]] = s
    BY DEF IdIsSlot
  <2>1. CASE s = f
    BY <1>4, <1>11, <2>1
  <2>2. CASE s # f
    <3>1. process_list'[s] \in alive /\ id[process_list[s]] = s /\ process_list'[s] = process_list[s]
      BY <1>11, <2>2 DEF KernelInv, KeyboardTargetAlive, IdIsSlot
    <3>. QED
      BY <1>4, <1>9, <1>11, <3>1
  <2>. QED
    BY <2>1, <2>2
<1>18. HasSlot'
  <2>. SUFFICES ASSUME ~zombied, NEW t \in alive' PROVE process_list'[id'[t]] = t
    BY <1>8 DEF HasSlot
  <2>1. CASE t = n
    BY <1>4, <1>7, <1>11, <2>1
  <2>2. CASE t # n
    <3>1. t \in alive /\ t \in Tasks /\ id'[t] = id[t] /\ id[t] \in Slots
      BY <1>4, <1>9, <1>11, <2>2
    <3>2. process_list[id[t]] = t
      BY <3>1 DEF KernelInv, HasSlot
    <3>. QED
      BY <1>7, <1>11, <3>1, <3>2, TaskNumbers
  <2>. QED
    BY <2>1, <2>2
<1>19. Nested'
  <2>. SUFFICES ASSUME peak' <= 3, ~zombied
                PROVE  /\ ~stale'
                       /\ \A z \in alive' : z <= n
                       /\ \A t \in alive' : t # M.head => M.prev[t] \in alive'
    BY <1>8, <1>10 DEF Nested
  <2>1. \A z \in alive' : z <= n
    BY <1>4 DEF ListInv
  <2>2. CASE mode = "boot"
    <3>1. ~stale /\ alive' = {n}
      BY <1>4, <2>2 DEF KernelInv, AtBoot
    <3>2. M.head \in alive'
      BY <1>4, <3>1, ExactList
    <3>. QED
      BY <1>4, <2>1, <3>1, <3>2
  <2>3. CASE mode = "user"
    <3>1. peak <= 3
      BY <1>4, <1>9
    <3>2. ~stale /\ \A t \in alive : t # tasks.head => tasks.prev[t] \in alive
      BY <2>3, <3>1 DEF KernelInv, Nested
    <3>3. tasks.tail \in alive
      BY <2>3, <3>2, CurrentTask, ExactList DEF KernelInv
    <3>. QED
      BY <1>4, <1>5, <1>9, <2>1, <2>3, <3>2, <3>3
  <2>. QED
    BY <2>2, <2>3
<1>20. KeysReachReader'
  BY <1>8, <1>10 DEF KeysReachReader
<1>. QED
  BY <1>4, <1>10, <1>12, <1>13, <1>14, <1>15, <1>16, <1>17, <1>18, <1>19, <1>20 DEF KernelInv

\* load_process runs out of memory after it has created the task.
LEMMA LoadWithoutStackKeeps ==
  ASSUME KernelInv, mode \in {"boot", "user"}, AllSaved, LoadWithoutStack,
         \/ mode = "boot" /\ mode' = "halted" /\ cr3' = cr3
         \/ mode = "user" /\ mode' = "user" /\ cr3' = tasks.current
  PROVE  KernelInv'
<1>1. PICK n : n = NewTask
  OBVIOUS
<1>2. PICK M : M = create_task(tasks, n)
  OBVIOUS
<1>3. Created(M)
  BY <1>1, <1>2 DEF LoadWithoutStack
<1>4. /\ ListInv(alive', M, loads', stale)
      /\ n \in Tasks /\ n \notin alive /\ n = loads + 1
      /\ Counted' /\ peak' \in 0..MaxTasks /\ peak <= peak'
      /\ alive' = alive \cup {n} /\ loads' = n /\ stale' = stale /\ progress' = progress
  BY <1>1, <1>2, <1>3, CreatedTask
<1>5. mode = "user" => M.current = tasks.current
  BY <1>1, <1>2, <1>3, CreatedTask
<1>6. /\ tasks' = M /\ zombied' = TRUE
      /\ process_list' = process_list /\ current_process' = current_process
      /\ id' = id /\ regs' = regs
  BY <1>1, <1>2 DEF LoadWithoutStack, Created
<1>7. /\ alive \subseteq Tasks /\ loads \in 0..MaxTasks
      /\ saved \in [Tasks -> 0..MaxSteps] /\ progress \in [Tasks -> 0..MaxSteps]
      /\ process_list \in [Slots -> TaskPtr]
      /\ current_process \in TaskPtr /\ id \in [Tasks -> Slots]
      /\ regs \in 0..MaxSteps /\ cr3 \in TaskPtr
      /\ stale \in BOOLEAN
  BY DEF KernelInv, TypeOK
<1>8. TypeOK'
  <2>1. alive' \subseteq Tasks /\ loads' \in 0..MaxTasks /\ M \in List
    BY <1>4, <1>7 DEF Tasks, ListInv
  <2>2. cr3' \in TaskPtr /\ mode' \in {"boot", "user", "halted", "wild"}
    BY <1>7, CurrentTask, TaskNumbers
  <2>. QED
    BY <1>4, <1>6, <1>7, <2>1, <2>2 DEF TypeOK, AllSaved
<1>9. AtBoot' /\ Running'
  BY <1>4, <1>5, <1>6 DEF AtBoot, Running, KernelInv
<1>10. ASSUME NEW t \in Tasks, t > n
       PROVE  saved'[t] = ENTRY /\ progress'[t] = ENTRY
  <2>1. t > loads
    BY <1>4, <1>7, <1>10, TaskNumbers
  <2>. QED
    BY <1>4, <2>1 DEF AllSaved, KernelInv, NotRunYet
<1>11. ContextPreserved'
  <2>1. saved'[n] = ENTRY /\ progress[n] = ENTRY
    BY <1>4, <1>7 DEF KernelInv, NotRunYet, AllSaved
  <2>2. mode' = "user" => regs = progress[tasks.current]
    BY DEF KernelInv, ContextPreserved
  <2>. QED
    BY <1>4, <1>5, <1>6, <2>1, <2>2 DEF ContextPreserved, AllSaved
<1>12. KeyboardTargetAlive'
  BY <1>4, <1>6 DEF KeyboardTargetAlive, KernelInv
<1>13. NotRunYet' /\ IdIsSlot' /\ HasSlot' /\ Nested' /\ KeysReachReader'
  BY <1>4, <1>6, <1>10
     DEF NotRunYet, IdIsSlot, HasSlot, Nested, KeysReachReader, KernelInv
<1>. QED
  BY <1>4, <1>6, <1>8, <1>9, <1>11, <1>12, <1>13 DEF KernelInv

\* A step of the program, and the handlers that leave the tasks alone.
LEMMA UserStepKeeps ==
  ASSUME KernelInv, UserStep
  PROVE  KernelInv'
<1>1. /\ mode = "user" /\ regs' = regs + 1 /\ regs < MaxSteps
      /\ progress' = [progress EXCEPT ![tasks.current] = regs + 1]
      /\ UNCHANGED <<tasks, process_list, current_process, id, alive, loads, saved, cr3, mode>>
      /\ UNCHANGED <<zombied, stale, peak>>
  BY DEF UserStep, procs, ghosts
<1>2. PICK c \in Tasks : c = tasks.current /\ c \in alive /\ c <= loads
  BY <1>1, CurrentTask
<1>3. /\ progress \in [Tasks -> 0..MaxSteps] /\ regs + 1 \in 0..MaxSteps /\ loads \in Nat
      /\ alive \subseteq Tasks
  BY <1>1, MaxStepsAssumption DEF KernelInv, TypeOK
<1>4. \A t \in Tasks : progress'[t] = IF t = c THEN regs + 1 ELSE progress[t]
  BY <1>1, <1>2, <1>3
<1>5. TypeOK'
  BY <1>1, <1>2, <1>3 DEF KernelInv, TypeOK
<1>6. ContextPreserved'
  BY <1>1, <1>2, <1>3, <1>4 DEF KernelInv, ContextPreserved
<1>7. NotRunYet'
  BY <1>1, <1>2, <1>3, <1>4, TaskNumbers DEF KernelInv, NotRunYet
<1>8. AtBoot' /\ Running' /\ ListInv(alive', tasks', loads', stale') /\ Counted'
  BY <1>1 DEF KernelInv, AtBoot, Running, Counted
<1>9. KeyboardTargetAlive' /\ IdIsSlot' /\ HasSlot' /\ Nested' /\ KeysReachReader'
  BY <1>1 DEF KernelInv, KeyboardTargetAlive, IdIsSlot, HasSlot, Nested, KeysReachReader
<1>. QED
  BY <1>5, <1>6, <1>7, <1>8, <1>9 DEF KernelInv

\* A handler that returns to the interrupted program, whether it saved it or not.
LEMMA ReturnKeeps ==
  ASSUME KernelInv, mode = "user", AllSaved \/ saved' = saved, cr3' = tasks.current,
         UNCHANGED <<tasks, process_list, current_process, id, alive, loads, regs, mode>>,
         UNCHANGED <<progress, zombied, stale, peak>>
  PROVE  KernelInv'
<1>1. tasks.current \in TaskPtr
  BY CurrentTask, TaskNumbers
<1>2. TypeOK'
  BY <1>1 DEF KernelInv, TypeOK, AllSaved
<1>3. ContextPreserved'
  BY DEF KernelInv, ContextPreserved, AllSaved
<1>4. NotRunYet'
  BY DEF KernelInv, NotRunYet, AllSaved
<1>5. AtBoot' /\ Running' /\ ListInv(alive', tasks', loads', stale') /\ Counted'
  BY DEF KernelInv, AtBoot, Running, Counted
<1>6. KeyboardTargetAlive' /\ IdIsSlot' /\ HasSlot' /\ Nested' /\ KeysReachReader'
  BY DEF KernelInv, KeyboardTargetAlive, IdIsSlot, HasSlot, Nested, KeysReachReader
<1>. QED
  BY <1>2, <1>3, <1>4, <1>5, <1>6 DEF KernelInv

\* The table once the current process has left it.
LEMMA UnlinkedTable ==
  ASSUME KernelInv, mode = "user"
  PROVE  /\ AfterUnlink \in [Slots -> TaskPtr]
         /\ \A s \in Slots : AfterUnlink[s] # NULL =>
              /\ AfterUnlink[s] = process_list[s]
              /\ AfterUnlink[s] \in alive \ {tasks.current}
              /\ id[AfterUnlink[s]] = s
         /\ ~zombied => \A t \in alive \ {tasks.current} : AfterUnlink[id[t]] = t
         /\ Occupied # {} => AfterUnlink[Min(Occupied)] \in alive \ {tasks.current}
<1>1. PICK c \in alive : c = tasks.current /\ c \in Tasks
  BY CurrentTask
<1>2. /\ process_list \in [Slots -> TaskPtr] /\ id \in [Tasks -> Slots] /\ alive \subseteq Tasks
  BY DEF KernelInv, TypeOK
<1>3. PICK T : T = AfterUnlink
  OBVIOUS
<1>4. /\ T \in [Slots -> TaskPtr]
      /\ \A s \in Slots : T[s] = IF s = id[c] THEN NULL ELSE process_list[s]
  BY <1>1, <1>2, <1>3, TaskNumbers DEF AfterUnlink
<1>5. ASSUME NEW s \in Slots, T[s] # NULL
      PROVE  T[s] = process_list[s] /\ T[s] \in alive \ {c} /\ id[T[s]] = s
  <2>1. T[s] = process_list[s] /\ s # id[c]
    BY <1>4, <1>5
  <2>2. process_list[s] \in alive /\ id[process_list[s]] = s
    BY <1>5, <2>1 DEF KernelInv, KeyboardTargetAlive, IdIsSlot
  <2>. QED
    BY <2>1, <2>2
<1>6. ASSUME ~zombied, NEW t \in alive \ {c} PROVE T[id[t]] = t
  <2>1. process_list[id[t]] = t /\ process_list[id[c]] = c
    BY <1>6 DEF KernelInv, HasSlot
  <2>2. id[t] \in Slots /\ id[t] # id[c]
    BY <1>2, <2>1
  <2>. QED
    BY <1>4, <2>1, <2>2
<1>7. ASSUME Occupied # {} PROVE T[Min(Occupied)] \in alive \ {c}
  <2>1. Occupied = {s \in Slots : T[s] # NULL} /\ Occupied \in SUBSET Nat
    BY <1>3, MaxProcessAssumption DEF Occupied, Slots
  <2>2. Min(Occupied) \in Occupied
    BY <1>7, <2>1, MinOfSet
  <2>. QED
    BY <1>5, <2>1, <2>2
<1>. QED
  BY <1>1, <1>3, <1>4, <1>5, <1>6, <1>7

\* The part of an exit that is the same whether a task is left or not.
LEMMA FreeKeeps ==
  ASSUME KernelInv, task_save_current_state, process_free
  PROVE  /\ ListInv(alive', AfterRemoval, loads', stale')
         /\ Counted' /\ IdIsSlot' /\ HasSlot' /\ NotRunYet'
         /\ \A t \in alive' : saved'[t] = progress'[t]
         /\ \A s \in Slots : process_list'[s] # NULL => process_list'[s] \in alive'
<1>1. /\ mode = "user"
      /\ alive' = alive \ {tasks.current} /\ process_list' = AfterUnlink
      /\ stale' = (stale \/ LeavesStale)
      /\ UNCHANGED <<id, loads, progress, zombied, peak>>
  BY DEF task_save_current_state, process_free
<1>2. AllSaved
  BY StateIsSaved
<1>3. ListInv(alive, tasks, loads, stale) /\ tasks.current \in alive
  BY <1>1, CurrentTask DEF KernelInv
<1>4. stale' \in BOOLEAN /\ (stale' <=> stale \/ (tasks.current # tasks.head /\ tasks.prev[tasks.current] \notin alive))
  BY <1>1 DEF LeavesStale, KernelInv, TypeOK
<1>5. ListInv(alive \ {tasks.current}, AfterRemoval, loads, stale')
  <2>1. PICK R : R = AfterRemoval
    OBVIOUS
  <2>2. PICK x \in BOOLEAN : x = stale'
    BY <1>4
  <2>3. R = remove_from_task_list(tasks, tasks.current)
    BY <2>1 DEF AfterRemoval
  <2>4. x <=> stale \/ (tasks.current # tasks.head /\ tasks.prev[tasks.current] \notin alive)
    BY <1>4, <2>2
  <2>5. ListInv(alive \ {tasks.current}, R, loads, x)
    <3>1. PICK L, A, n, s : L = tasks /\ A = alive /\ n = loads /\ s = stale
      OBVIOUS
    <3>2. ListInv(A, L, n, s) /\ L.current \in A
      BY <1>3, <3>1
    <3>3. R = remove_from_task_list(L, L.current)
      BY <2>3, <3>1
    <3>4. x <=> s \/ (L.current # L.head /\ L.prev[L.current] \notin A)
      BY <2>4, <3>1
    <3>5. ListInv(A \ {L.current}, R, n, x)
      BY <3>2, <3>3, <3>4, RemoveStep
    <3>. QED
      BY <3>1, <3>5
  <2>. QED
    BY <2>1, <2>2, <2>5
<1>6. Counted'
  <2>1. /\ IsFiniteSet(alive) /\ Cardinality(alive) <= peak /\ peak \in Nat
        /\ Cardinality(alive) \in Nat
    BY FS_CardinalityType DEF KernelInv, Counted, TypeOK
  <2>2. IsFiniteSet(alive') /\ Cardinality(alive') <= Cardinality(alive) /\ Cardinality(alive') \in Nat
    BY <1>1, <2>1, FS_Subset, FS_CardinalityType
  <2>. QED
    BY <1>1, <2>1, <2>2 DEF Counted
<1>7. IdIsSlot' /\ \A s \in Slots : process_list'[s] # NULL => process_list'[s] \in alive'
  BY <1>1, UnlinkedTable DEF IdIsSlot
<1>8. HasSlot'
  BY <1>1, UnlinkedTable DEF HasSlot
<1>9. NotRunYet' /\ \A t \in alive' : saved'[t] = progress'[t]
  BY <1>1, <1>2 DEF NotRunYet, AllSaved, KernelInv
<1>. QED
  BY <1>1, <1>5, <1>6, <1>7, <1>8, <1>9

\* The last program ends and the machine stops.
LEMMA ExitLastKeeps ==
  ASSUME KernelInv, ExitLast
  PROVE  KernelInv'
<1>1. /\ task_save_current_state /\ process_free
      /\ tasks' = AfterRemoval /\ mode' = "halted" /\ cr3' = KERNEL
      /\ UNCHANGED <<current_process, regs>> /\ mode = "user"
  BY DEF ExitLast, task_save_current_state
<1>2. /\ ListInv(alive', AfterRemoval, loads', stale')
      /\ Counted' /\ IdIsSlot' /\ HasSlot' /\ NotRunYet'
      /\ \A t \in alive' : saved'[t] = progress'[t]
      /\ \A s \in Slots : process_list'[s] # NULL => process_list'[s] \in alive'
  BY <1>1, FreeKeeps
<1>3. TypeOK'
  <2>1. tasks' \in List /\ stale' \in BOOLEAN
    BY <1>1, <1>2 DEF ListInv
  <2>2. process_list' \in [Slots -> TaskPtr]
    BY <1>1, UnlinkedTable DEF process_free
  <2>3. saved' \in [Tasks -> 0..MaxSteps] /\ KERNEL \in TaskPtr
    BY <1>1, StateIsSaved, TaskNumbers DEF AllSaved, KERNEL, NULL
  <2>. QED
    BY <1>1, <2>1, <2>2, <2>3 DEF TypeOK, KernelInv, process_free
<1>4. ContextPreserved' /\ KeyboardTargetAlive'
  BY <1>1, <1>2 DEF ContextPreserved, KeyboardTargetAlive
<1>5. AtBoot' /\ Running' /\ Nested' /\ KeysReachReader'
  BY <1>1 DEF AtBoot, Running, Nested, KeysReachReader
<1>. QED
  BY <1>1, <1>2, <1>3, <1>4, <1>5 DEF KernelInv

\* With at most three programs alive that end in the opposite order of their
\* start, the exit goes to the youngest that is left.
LEMMA ExitToStarter ==
  ASSUME NEW A, NEW L, NEW n, NEW s, ListInv(A, L, n, s), ~s, L.current \in A,
         NEW R, R = remove_from_task_list(L, L.current),
         IsFiniteSet(A), Cardinality(A) <= 3,
         \A z \in A : z <= L.current,
         \A t \in A : t # L.head => L.prev[t] \in A,
         R.current # NULL
  PROVE  /\ get_next_task(R) \in A \ {L.current}
         /\ \A z \in A \ {L.current} : z <= get_next_task(R)
         /\ \A t \in A \ {L.current} : t # R.head => R.prev[t] \in A \ {L.current}
<1>1. PICK c \in A : c = L.current
  OBVIOUS
<1>2. PICK B : B = A \ {c}
  OBVIOUS
<1>3. /\ L \in List /\ A \subseteq Tasks /\ c \in Tasks /\ c \in Nat
      /\ \A z \in A : z \in Nat /\ z > 0
  BY MaxTasksAssumption DEF ListInv, Tasks
<1>4. PICK s2 \in BOOLEAN : ~s2
  OBVIOUS
<1>5. ListInv(B, R, n, s2) /\ get_next_task(R) \in B
  <2>1. s2 <=> s \/ (L.current # L.head /\ L.prev[L.current] \notin A)
    BY <1>4
  <2>. QED
    BY <1>1, <1>2, <1>4, <2>1, RemoveStep, ExitTarget
<1>6. /\ L.head \in A /\ \A z \in A : L.head <= z
      /\ \A x \in A : \/ L.next[x] = NULL /\ \A z \in A : z <= x
                      \/ L.next[x] \in A /\ x < L.next[x]
  BY ExactList
<1>7. L.next[c] = NULL
  BY <1>1, <1>3, <1>6
<1>8. c # L.head
  <2>1. PICK z \in B : TRUE
    BY <1>5
  <2>2. z < c
    BY <1>1, <1>2, <1>3
  <2>. QED
    BY <1>2, <1>3, <1>6, <2>2
<1>9. L.prev[c] # c
  BY <1>3, TaskNumbers, ListFields DEF ListInv, Ordered
<1>10. R.head = L.head /\ R.current = L.head /\ R.prev = L.prev
  BY <1>1, <1>3, <1>7, <1>8, <1>9, RemoveFields
<1>11. ASSUME NEW t \in B, t # R.head PROVE R.prev[t] \in B
  <2>1. L.prev[t] \in A
    BY <1>2, <1>10, <1>11
  <2>2. L.prev[t] < t /\ t <= c
    BY <1>1, <1>2, <1>3 DEF ListInv, Ordered
  <2>. QED
    BY <1>2, <1>3, <1>10, <2>1, <2>2
<1>12. PICK r \in B : r = get_next_task(R)
  BY <1>5
<1>13. ASSUME NEW z \in B PROVE z <= r
  <2>1. /\ R.head \in B /\ \A x \in B : R.head <= x
        /\ \A x \in B : \/ R.next[x] = NULL /\ \A y \in B : y <= x
                        \/ /\ R.next[x] \in B /\ x < R.next[x]
                           /\ \A y \in B : y <= x \/ R.next[x] <= y
    BY <1>4, <1>5, ExactList
  <2>2. CASE R.next[R.head] = NULL
    <3>1. r = R.head
      BY <1>10, <1>12, <2>2 DEF get_next_task
    <3>2. NULL \notin B
      BY <1>2, <1>3, TaskNumbers
    <3>. QED
      BY <2>1, <2>2, <3>1, <3>2
  <2>3. CASE R.next[R.head] # NULL
    <3>1. r = R.next[R.head] /\ R.head < r
      BY <1>10, <1>12, <2>1, <2>3 DEF get_next_task
    <3>2. SUFFICES ASSUME r < z PROVE FALSE
      BY <1>2, <1>3
    <3>3. /\ R.head \in A /\ r \in A /\ z \in A /\ z < c
          /\ R.head \in Nat /\ r \in Nat /\ z \in Nat
      BY <1>1, <1>2, <1>3, <2>1
    <3>4. /\ R.head # r /\ R.head # z /\ r # z
          /\ c \notin {R.head, r, z}
      BY <1>3, <3>1, <3>2, <3>3
    <3>5. Cardinality(A) >= 4 /\ Cardinality(A) \in Nat
      BY <3>3, <3>4, CountMembers, FS_CardinalityType
    <3>. QED
      BY <3>5
  <2>. QED
    BY <2>2, <2>3
<1>. QED
  BY <1>1, <1>2, <1>5, <1>11, <1>12, <1>13

\* A program ends and task_next goes to another task.
LEMMA ExitToNextKeeps ==
  ASSUME KernelInv, ExitToNext
  PROVE  KernelInv'
<1>1. PICK R : R = AfterRemoval
  OBVIOUS
<1>2. PICK r : r = get_next_task(R)
  OBVIOUS
<1>3. /\ task_save_current_state /\ process_free /\ mode = "user"
      /\ alive' = alive \ {tasks.current}
      /\ UNCHANGED <<id, loads, progress, zombied, peak>>
  BY DEF ExitToNext, task_save_current_state, process_free
<1>4. /\ current_process = tasks.current =>
           Occupied # {} /\ current_process' = AfterUnlink[Min(Occupied)]
      /\ current_process # tasks.current => current_process' = current_process
  BY DEF ExitToNext, process_switch_to_any, process_switch
<1>5. /\ R.current # NULL /\ tasks' = [R EXCEPT !.current = r]
      /\ cr3' = r /\ regs' = saved[r]
      /\ mode' = IF r \in alive' THEN "user" ELSE "wild"
  BY <1>1, <1>2 DEF ExitToNext
<1>6. /\ ListInv(alive', R, loads', stale')
      /\ Counted' /\ IdIsSlot' /\ HasSlot' /\ NotRunYet'
      /\ \A t \in alive' : saved'[t] = progress'[t]
      /\ \A s \in Slots : process_list'[s] # NULL => process_list'[s] \in alive'
  BY <1>1, <1>3, FreeKeeps
<1>7. /\ R = remove_from_task_list(tasks, tasks.current)
      /\ ListInv(alive, tasks, loads, stale) /\ tasks.current \in alive
      /\ stale' \in BOOLEAN
      /\ stale' <=> stale \/ (tasks.current # tasks.head /\ tasks.prev[tasks.current] \notin alive)
  <2>1. stale' = (stale \/ LeavesStale)
    BY <1>3 DEF process_free
  <2>. QED
    BY <1>1, <1>3, <2>1, CurrentTask DEF AfterRemoval, KernelInv, LeavesStale
<1>8. r \in Tasks /\ (~stale' => r \in alive')
  <2>1. PICK x \in BOOLEAN : x = stale'
    BY <1>7
  <2>2. x <=> stale \/ (tasks.current # tasks.head /\ tasks.prev[tasks.current] \notin alive)
    BY <1>7, <2>1
  <2>3. r \in Tasks /\ (~x => r \in alive \ {tasks.current})
    BY <1>2, <1>5, <1>7, <2>2, ExitTarget
  <2>. QED
    BY <1>3, <2>1, <2>3
<1>9. r \in TaskPtr
  BY <1>8, TaskNumbers
<1>10. ListInv(alive', tasks', loads', stale') /\ tasks'.current = r
  BY <1>5, <1>6, <1>9, MoveCurrent
<1>11. R \in List
  BY <1>6 DEF ListInv
<1>12. tasks'.head = R.head /\ tasks'.prev = R.prev
  BY <1>5, <1>11 DEF List
<1>13. current_process' \in alive' /\ alive' \subseteq Tasks
  <2>1. current_process \in alive /\ alive \subseteq Tasks
    BY <1>3 DEF KernelInv, KeyboardTargetAlive, TypeOK
  <2>. QED
    BY <1>3, <1>4, <2>1, UnlinkedTable
<1>14. TypeOK'
  <2>1. tasks' \in List /\ stale' \in BOOLEAN
    BY <1>10 DEF ListInv
  <2>2. process_list' \in [Slots -> TaskPtr]
    BY <1>3, UnlinkedTable DEF process_free
  <2>3. saved' \in [Tasks -> 0..MaxSteps] /\ regs' \in 0..MaxSteps
    BY <1>3, <1>5, <1>8, StateIsSaved DEF AllSaved, KernelInv, TypeOK
  <2>4. current_process' \in TaskPtr /\ mode' \in {"boot", "user", "halted", "wild"}
    BY <1>5, <1>13, TaskNumbers
  <2>. QED
    BY <1>3, <1>5, <1>9, <1>13, <2>1, <2>2, <2>3, <2>4 DEF TypeOK, KernelInv
<1>15. AtBoot' /\ Running'
  BY <1>5, <1>8, <1>10 DEF AtBoot, Running
<1>16. ContextPreserved'
  <2>1. ASSUME r \in alive' PROVE saved[r] = progress'[r]
    BY <1>3, <2>1 DEF KernelInv, ContextPreserved
  <2>. QED
    BY <1>5, <1>6, <1>10, <2>1 DEF ContextPreserved
<1>17. KeyboardTargetAlive'
  BY <1>6, <1>13 DEF KeyboardTargetAlive
<1>18. ASSUME peak' <= 3, ~zombied'
       PROVE  /\ ~stale'
              /\ \A z \in alive' : z <= r
              /\ \A t \in alive' : t # R.head => R.prev[t] \in alive'
  <2>1. /\ ~stale
        /\ \A z \in alive : z <= tasks.current
        /\ \A t \in alive : t # tasks.head => tasks.prev[t] \in alive
    BY <1>3, <1>18 DEF KernelInv, Nested
  <2>2. IsFiniteSet(alive) /\ Cardinality(alive) <= 3
    BY <1>3, <1>18, FS_CardinalityType DEF KernelInv, Counted, TypeOK
  <2>3. ~stale'
    BY <1>7, <2>1
  <2>4. /\ \A z \in alive \ {tasks.current} : z <= r
        /\ \A t \in alive \ {tasks.current} : t # R.head => R.prev[t] \in alive \ {tasks.current}
    BY <1>2, <1>5, <1>7, <2>1, <2>2, ExitToStarter
  <2>. QED
    BY <1>3, <2>3, <2>4
<1>19. Nested'
  BY <1>10, <1>12, <1>18 DEF Nested
<1>20. KeysReachReader'
  <2>. SUFFICES ASSUME mode' = "user", peak' <= 2, ~zombied' PROVE current_process' = r
    BY <1>10 DEF KeysReachReader
  <2>1. r \in alive'
    BY <1>5
  <2>2. /\ IsFiniteSet(alive) /\ Cardinality(alive) <= 2 /\ Cardinality(alive) \in Nat
    BY <1>3, FS_CardinalityType DEF KernelInv, Counted, TypeOK
  <2>3. SUFFICES ASSUME current_process' # r PROVE FALSE
    OBVIOUS
  <2>4. PICK p : p = current_process'
    OBVIOUS
  <2>5. Cardinality(alive) >= 3
    BY <1>3, <1>7, <1>13, <2>1, <2>2, <2>3, <2>4, CountMembers
  <2>. QED
    BY <2>2, <2>5
<1>. QED
  BY <1>6, <1>10, <1>14, <1>15, <1>16, <1>17, <1>19, <1>20 DEF KernelInv

\* Every entry into the kernel and every step of a program keeps the
\* invariant.
LEMMA KernelStep == KernelInv /\ [Next]_vars => KernelInv'
<1>. SUFFICES ASSUME KernelInv, [Next]_vars PROVE KernelInv'
  OBVIOUS
<1>1. CASE kernel_main
  <2>1. mode = "boot" /\ saved' = saved
    BY <1>1 DEF kernel_main
  <2>2. AllSaved
    BY <2>1 DEF AllSaved, KernelInv, TypeOK, AtBoot, NotRunYet
  <2>3. CASE LoadAndRun
    BY <2>1, <2>2, <2>3, LoadAndRunKeeps
  <2>4. CASE LoadWithoutStack /\ mode' = "halted" /\ cr3' = cr3
    BY <2>1, <2>2, <2>4, LoadWithoutStackKeeps
  <2>5. CASE mode' = "halted" /\ UNCHANGED <<tasks, procs, regs, cr3, progress, ghosts>>
    <3>1. /\ mode' = "halted" /\ tasks' = tasks /\ process_list' = process_list
          /\ current_process' = current_process /\ id' = id /\ alive' = alive
          /\ loads' = loads /\ regs' = regs /\ cr3' = cr3 /\ progress' = progress
          /\ zombied' = zombied /\ stale' = stale /\ peak' = peak
      BY <2>5 DEF procs, ghosts
    <3>2. TypeOK' /\ AtBoot' /\ Running' /\ NotRunYet'
      BY <2>1, <3>1 DEF KernelInv, TypeOK, AtBoot, Running, NotRunYet
    <3>3. ListInv(alive', tasks', loads', stale') /\ ContextPreserved' /\ Counted'
      BY <2>1, <3>1 DEF KernelInv, ContextPreserved, Counted
    <3>4. KeyboardTargetAlive' /\ IdIsSlot' /\ HasSlot' /\ Nested' /\ KeysReachReader'
      BY <2>1, <3>1
         DEF KernelInv, KeyboardTargetAlive, IdIsSlot, HasSlot, Nested, KeysReachReader
    <3>. QED
      BY <3>2, <3>3, <3>4 DEF KernelInv
  <2>. QED
    BY <1>1, <2>3, <2>4, <2>5 DEF kernel_main
<1>2. CASE UserStep
  BY <1>2, UserStepKeeps
<1>3. CASE isr_handler
  <2>1. AllSaved /\ mode = "user"
    BY <1>3, StateIsSaved DEF isr_handler, task_save_current_state
  <2>. QED
    BY <1>3, <2>1, ReturnKeeps DEF isr_handler, Return, procs, ghosts
<1>4. CASE no_routine
  BY <1>4, ReturnKeeps DEF no_routine, Return, procs, ghosts
<1>5. CASE isr80h_load_process_command
  <2>1. AllSaved /\ mode = "user"
    BY <1>5, StateIsSaved DEF isr80h_load_process_command, task_save_current_state
  <2>2. CASE LoadAndRun
    BY <2>1, <2>2, LoadAndRunKeeps
  <2>3. CASE LoadWithoutStack /\ cr3' = tasks.current /\ UNCHANGED mode
    BY <2>1, <2>3, LoadWithoutStackKeeps
  <2>4. CASE Return /\ UNCHANGED <<tasks, procs, progress, ghosts>>
    BY <2>1, <2>4, ReturnKeeps DEF Return, procs, ghosts
  <2>. QED
    BY <1>5, <2>2, <2>3, <2>4 DEF isr80h_load_process_command
<1>6. CASE ExitLast
  BY <1>6, ExitLastKeeps
<1>7. CASE ExitToNext
  BY <1>7, ExitToNextKeeps
<1>8. CASE UNCHANGED vars
  <2>1. /\ tasks' = tasks /\ process_list' = process_list
        /\ current_process' = current_process /\ id' = id /\ alive' = alive
        /\ loads' = loads /\ saved' = saved /\ regs' = regs /\ cr3' = cr3 /\ mode' = mode
        /\ progress' = progress /\ zombied' = zombied /\ stale' = stale /\ peak' = peak
    BY <1>8 DEF vars, procs, ghosts
  <2>2. TypeOK' /\ AtBoot' /\ Running' /\ NotRunYet'
    BY <2>1 DEF KernelInv, TypeOK, AtBoot, Running, NotRunYet
  <2>3. ListInv(alive', tasks', loads', stale') /\ ContextPreserved' /\ Counted'
    BY <2>1 DEF KernelInv, ContextPreserved, Counted
  <2>4. KeyboardTargetAlive' /\ IdIsSlot' /\ HasSlot' /\ Nested' /\ KeysReachReader'
    BY <2>1 DEF KernelInv, KeyboardTargetAlive, IdIsSlot, HasSlot, Nested, KeysReachReader
  <2>. QED
    BY <2>2, <2>3, <2>4 DEF KernelInv
<1>. QED
  BY <1>1, <1>2, <1>3, <1>4, <1>5, <1>6, <1>7, <1>8 DEF Next, divide_by_zero, Stopped

\* The invariant holds for ever.
THEOREM KernelInvariant == Spec => []KernelInv
BY KernelInit, KernelStep, PTL DEF Spec

-----------------------------------------------------------------------------
(* What follows from it.                                                   *)

\* The running program is alive and on its own page directory, for any number
\* of tasks, as long as no task with a stale prev field has left the list
\* (task.c:94-112, 217-230).
THEOREM KernelOwnPages == Spec => []RunsOnOwnPages
<1>1. KernelInv => RunsOnOwnPages
  BY DEF KernelInv, Running, RunsOnOwnPages
<1>. QED
  BY <1>1, KernelInvariant, PTL

\* Under the same condition the task list holds the live tasks in the order of
\* their creation (task.c:60-112).
THEOREM KernelListIsExact == Spec => []ListIsExact
<1>1. ASSUME KernelInv PROVE ListIsExact
  <2>. SUFFICES ASSUME ~stale, alive # {}
                PROVE  /\ tasks.head = Min(alive)
                       /\ tasks.tail = Max(alive)
                       /\ \A t \in alive : tasks.next[t] =
                            IF Younger(t) = {} THEN NULL ELSE Min(Younger(t))
    BY DEF ListIsExact
  <2>1. /\ tasks.head \in alive /\ \A z \in alive : tasks.head <= z
        /\ tasks.tail \in alive /\ \A z \in alive : z <= tasks.tail
        /\ \A x \in alive : \/ tasks.next[x] = NULL /\ \A z \in alive : z <= x
                            \/ /\ tasks.next[x] \in alive /\ x < tasks.next[x]
                               /\ \A z \in alive : z <= x \/ tasks.next[x] <= z
    BY <1>1, ExactList DEF KernelInv
  <2>2. alive \in SUBSET Nat /\ NULL \notin alive
    BY <1>1, TaskNumbers DEF KernelInv, TypeOK
  <2>3. tasks.head = Min(alive) /\ tasks.tail = Max(alive)
    BY <2>1, <2>2, MinIs, MaxIs
  <2>4. ASSUME NEW t \in alive
        PROVE  tasks.next[t] = IF Younger(t) = {} THEN NULL ELSE Min(Younger(t))
    <3>1. PICK Y : Y = {u \in alive : u > t}
      OBVIOUS
    <3>2. PICK m : m = tasks.next[t]
      OBVIOUS
    <3>3. CASE m = NULL /\ \A z \in alive : z <= t
      <4>1. ASSUME NEW u \in Y PROVE FALSE
        <5>1. u \in alive /\ u > t /\ u <= t /\ u \in Nat /\ t \in Nat
          BY <2>2, <3>1, <3>3
        <5>. QED
          BY <5>1
      <4>. QED
        BY <3>1, <3>2, <3>3, <4>1 DEF Younger
    <3>4. CASE m \in alive /\ t < m /\ \A z \in alive : z <= t \/ m <= z
      <4>1. Y \in SUBSET Nat /\ m \in Y
        BY <2>2, <3>1, <3>4
      <4>2. ASSUME NEW y \in Y PROVE m <= y
        <5>1. y \in alive /\ y > t /\ y \in Nat /\ t \in Nat
          BY <2>2, <3>1
        <5>. QED
          BY <3>4, <5>1
      <4>3. Min(Y) = m
        BY <4>1, <4>2, MinIs
      <4>. QED
        BY <3>1, <3>2, <4>1, <4>3 DEF Younger
    <3>. QED
      BY <2>1, <3>2, <3>3, <3>4
  <2>. QED
    BY <2>3, <2>4
<1>. QED
  BY <1>1, KernelInvariant, PTL

\* The keyboard's process is alive in every state, stale fields and failed
\* loads included (process.c:195-219, keyboard.c:45-59).
THEOREM KernelKeyboardTarget == Spec => []KeyboardTargetAlive
BY KernelInvariant, PTL DEF KernelInv

\* Live processes and occupied slots name each other, for any size of the
\* process table (process.c:109-157, 212-219).
THEOREM KernelTable == Spec => []TableIsExact
<1>1. KernelInv => TableIsExact
  BY DEF KernelInv, IdIsSlot, HasSlot, TableIsExact
<1>. QED
  BY <1>1, KernelInvariant, PTL

\* Every program goes on where it was interrupted (task.c:147-161,
\* task.asm:10-51).
THEOREM KernelContext == Spec => []ContextPreserved
BY KernelInvariant, PTL DEF KernelInv

\* Up to three programs end in the opposite order of their start: task_next
\* goes back to the starter (task.c:85-92, 217-230).
THEOREM KernelStarterResumes == Spec => []StarterResumes
<1>1. ASSUME KernelInv PROVE StarterResumes
  <2>. SUFFICES ASSUME mode = "user", peak <= 3, ~zombied PROVE tasks.current = Max(alive)
    BY DEF StarterResumes
  <2>1. tasks.current \in alive /\ \A z \in alive : z <= tasks.current
    BY <1>1 DEF KernelInv, Running, Nested
  <2>2. alive \in SUBSET Nat
    BY <1>1, TaskNumbers DEF KernelInv, TypeOK
  <2>. QED
    BY <2>1, <2>2, MaxIs
<1>. QED
  BY <1>1, KernelInvariant, PTL

\* With two programs the reader gets the keys: current_process and
\* current_task agree (keyboard.c:45-79, process.c:195-210).
THEOREM KernelKeysReachReader == Spec => []KeysReachReader
BY KernelInvariant, PTL DEF KernelInv

\* An exit never goes through a null task pointer, even after a stale field
\* or a failed load (task.c:85-92, 217-226).
THEOREM KernelExitFindsTask == Spec => []ExitFindsTask
<1>1. ASSUME KernelInv PROVE ExitFindsTask
  <2>. SUFFICES ASSUME mode = "user"
                PROVE  \/ /\ current_process = tasks.current
                          /\ Occupied = {}
                          /\ ~zombied => alive = {tasks.current}
                       \/ /\ current_process = tasks.current => Occupied # {}
                          /\ AfterRemoval.current # NULL
                          /\ get_next_task(AfterRemoval) # NULL
    BY DEF ExitFindsTask
  <2>1. tasks.current \in alive /\ current_process \in alive
    BY <1>1, CurrentTask DEF KernelInv, KeyboardTargetAlive
  <2>2. /\ \A s \in Slots : AfterUnlink[s] # NULL => AfterUnlink[s] \in alive \ {tasks.current}
        /\ ~zombied => \A t \in alive \ {tasks.current} : AfterUnlink[id[t]] = t
    BY <1>1, UnlinkedTable
  <2>3. CASE current_process = tasks.current /\ Occupied = {}
    <3>1. ASSUME ~zombied, NEW t \in alive, t # tasks.current PROVE FALSE
      <4>1. AfterUnlink[id[t]] = t
        BY <2>2, <3>1
      <4>2. id[t] \in Slots /\ t # NULL
        BY <1>1, TaskNumbers DEF KernelInv, TypeOK
      <4>. QED
        BY <2>3, <4>1, <4>2 DEF Occupied
    <3>. QED
      BY <2>1, <2>3, <3>1
  <2>4. CASE ~(current_process = tasks.current /\ Occupied = {})
    <3>1. PICK R : R = AfterRemoval
      OBVIOUS
    <3>2. R = remove_from_task_list(tasks, tasks.current) /\ ListInv(alive, tasks, loads, stale)
      BY <1>1, <3>1 DEF AfterRemoval, KernelInv
    <3>3. PICK x \in BOOLEAN :
             x <=> stale \/ (tasks.current # tasks.head /\ tasks.prev[tasks.current] \notin alive)
      OBVIOUS
    <3>4. /\ R.current = NULL => alive = {tasks.current}
          /\ R.current # NULL => get_next_task(R) \in Tasks
      BY <2>1, <3>2, <3>3, ExitTarget
    <3>5. ASSUME R.current = NULL PROVE FALSE
      <4>1. current_process = tasks.current /\ alive \ {tasks.current} = {}
        BY <2>1, <3>4, <3>5
      <4>2. Occupied = {}
        BY <2>2, <4>1 DEF Occupied
      <4>. QED
        BY <2>4, <4>1, <4>2
    <3>. QED
      BY <2>4, <3>1, <3>4, <3>5, TaskNumbers
  <2>. QED
    BY <2>3, <2>4
<1>. QED
  BY <1>1, KernelInvariant, PTL
=============================================================================
