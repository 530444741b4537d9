---------------------------- MODULE DbQueueProofs ----------------------------
(***************************************************************************)
(* Proofs about DbQueue, for every number of cells and MHT nodes and every *)
(* sequence of the calls dbqueue.h declares: the pointers always thread a  *)
(* list, and the list is a sequence from which a removal takes one         *)
(* element; with the calls of mht.c it is a first-in first-out queue.      *)
(***************************************************************************)
EXTENDS DbQueue, FiniteSetTheorems, NaturalsInduction, SequenceTheorems, WellFoundedInduction, TLAPS

\* The pointers nx lead from s[1] over every cell of s to NULL.
Threads(nx, s, n) ==
  /\ n \in Nat \ {0} /\ s \in [1..n -> Cells] /\ \A j, k \in 1..n : s[j] = s[k] => j = k
  /\ \A k \in 1..n : nx[s[k]] = IF k = n THEN NULL ELSE s[k + 1]

\* The cells s[1] to s[n] are the list: the header first, each linked with its
\* neighbours, all allocated and none in the caller's hands.
IsList(s, n) ==
  /\ n \in Nat \ {0} /\ s \in [1..n -> Cells]
  /\ \A j, k \in 1..n : s[j] = s[k] => j = k
  /\ pQHeader = s[1] /\ pQ = s[n]
  /\ \A k \in 1..n : next[s[k]] = IF k = n THEN NULL ELSE s[k + 1]
  /\ \A k \in 1..n : prev[s[k]] = IF k = 1 THEN NULL ELSE s[k - 1]
  /\ \A k \in 1..n : s[k] \in alloc \ held
  /\ word[pQHeader] = n - 1

\* What freeQueue2 has left of a list: it keeps neither prev nor pQ nor the count.
IsRest(s, n) ==
  /\ Threads(next, s, n) /\ pQHeader = s[1]
  /\ \A k \in 1..n : s[k] \in alloc \ held

\* The cells other than the header point to different MHT nodes, none of them freed.
WordsDiffer ==
  /\ \A c \in alloc \ {pQHeader} : word[c] \in MhtNodes \ released
  /\ \A c, d \in alloc \ {pQHeader} : word[c] = word[d] => c = d

\* The loops that free a queue.
Loops == {"freeQueue", "freeQueue2", "freeQueue3"}

\* The inductive invariant of all calls.  Nothing is said of the cells a second
\* initQueue or freeQueue2 has left behind, but that they are still allocated.
ListInv ==
  /\ DbTypeOK
  /\ \A c \in Cells \ alloc : next[c] = NULL /\ prev[c] = NULL
  /\ WordsDiffer
  /\ Open \/ pc = "freeQueue" => \E s, n : IsList(s, n)
  /\ pc \in {"freeQueue2", "freeQueue3"} => \E s, n : IsRest(s, n)

\* With the calls of mht.c no cell is left behind.
UsedInv ==
  /\ ListInv /\ NothingLeaks
  /\ pc \in {"idle", "freeQueue", "crash"} /\ pQHeader \in alloc \cup {NULL}

-----------------------------------------------------------------------------
(* Following the pointers *)

\* A set with 0 that contains the successor of each of its numbers below n has all up to n.
LEMMA UpTo ==
  ASSUME NEW n \in Nat, NEW T, 0 \in T, \A k \in 0..(n - 1) : k \in T => k + 1 \in T
  PROVE  \A k \in 0..n : k \in T
<1> SUFFICES ASSUME NEW c \in 0..n, c \notin T PROVE FALSE
  OBVIOUS
<1>1. PICK D : D = {k \in 0..n : k \notin T}
  OBVIOUS
<1>2. D \in SUBSET Nat /\ D # {}
  BY <1>1
<1>3. PICK u \in D : \A v \in D : ~ (<<v, u>> \in OpToRel(<, Nat))
  BY <1>2, NatLessThanWellFounded, WFMin
<1>4. \A v \in D : ~ (v < u)
  BY <1>2, <1>3 DEF OpToRel
<1>5. u \in 0..n /\ u \notin T /\ u # 0
  BY <1>1
<1>6. u - 1 \in 0..(n - 1) /\ u - 1 \in 0..n /\ u - 1 < u /\ (u - 1) + 1 = u
  BY <1>5
<1>7. u - 1 \in T
  BY <1>1, <1>4, <1>6
<1> QED
  BY <1>5, <1>6, <1>7

\* Chain with the header and the pointers as arguments.
Follows(at, h, nx) ==
  at = [k \in 0..Cardinality(Cells) |->
          IF k = 0 THEN h ELSE IF at[k - 1] = NULL THEN NULL ELSE nx[at[k - 1]]]
ChainOf(h, nx) ==
  LET at == CHOOSE f : Follows(f, h, nx)
      length == Cardinality({k \in 1..Cardinality(Cells) : at[k] # NULL})
  IN [k \in 1..length |-> at[k]]

\* Chain follows next from pQHeader.
LEMMA ChainIsChainOf == Chain = ChainOf(pQHeader, next)
BY DEF Chain, ChainOf, Follows

\* A list without repetition is no longer than memory.
LEMMA ListFits ==
  ASSUME NEW n \in Nat, NEW s \in [1..n -> Cells], \A j, k \in 1..n : s[j] = s[k] => j = k
  PROVE  n <= Cardinality(Cells) /\ Cardinality(Cells) \in Nat
<1>1. s \in Injection(1..n, Cells)
  BY DEF Injection, IsInjective
<1>2. Cardinality(1..n) <= Cardinality(Cells)
  BY <1>1, CellsAssumption, FS_Injection
<1>3. Cardinality(1..n) = n
  BY FS_Interval
<1> QED
  BY <1>2, <1>3, CellsAssumption, FS_CardinalityType

\* The chain of pointers that thread s is s without the header.
LEMMA ChainFollows ==
  ASSUME NEW n, NEW s, NEW nx, Threads(nx, s, n)
  PROVE  ChainOf(s[1], nx) = [k \in 1..(n - 1) |-> s[k + 1]]
<1> USE DEF Threads
<1>1. PICK m : m = Cardinality(Cells) /\ m \in Nat /\ n <= m
  BY ListFits
<1>2. PICK f : f = [k \in 0..m |-> IF k < n THEN s[k + 1] ELSE NULL]
  OBVIOUS
<1>3. \A k \in 1..n : s[k] # NULL
  BY CellsAssumption
<1>4. Follows(f, s[1], nx)
  <2>1. ASSUME NEW k \in 0..m
        PROVE  f[k] = IF k = 0 THEN s[1] ELSE IF f[k - 1] = NULL THEN NULL ELSE nx[f[k - 1]]
    <3>1. CASE k = 0
      BY <3>1, <1>1, <1>2
    <3>2. CASE k # 0 /\ k <= n
      <4>1. k - 1 \in 0..m /\ k - 1 < n /\ (k - 1) + 1 = k /\ k \in 1..n
        BY <3>2, <1>1
      <4>2. f[k - 1] = s[k]
        BY <4>1, <1>2
      <4>3. f[k] = IF k = n THEN NULL ELSE s[k + 1]
        BY <4>1, <3>2, <1>2
      <4> QED
        BY <4>1, <4>2, <4>3, <1>3, <3>2
    <3>3. CASE k > n
      <4>1. k - 1 \in 0..m /\ ~(k - 1 < n) /\ ~(k < n) /\ k # 0
        BY <3>3, <1>1
      <4> QED
        BY <4>1, <1>2
    <3> QED
      BY <3>1, <3>2, <3>3
  <2> QED
    BY <2>1, <1>1, <1>2 DEF Follows
<1>5. PICK at : at = CHOOSE g : Follows(g, s[1], nx)
  OBVIOUS
<1>6. Follows(at, s[1], nx)
  BY <1>4, <1>5
<1>7. \A k \in 0..m : at[k] = f[k]
  <2> DEFINE T == {k \in 0..m : at[k] = f[k]}
  <2>1. 0 \in T
    BY <1>1, <1>4, <1>6 DEF Follows
  <2>2. ASSUME NEW k \in 0..(m - 1), k \in T PROVE k + 1 \in T
    <3>1. k + 1 \in 0..m /\ k + 1 # 0 /\ (k + 1) - 1 = k
      BY <1>1
    <3>2. \A g : Follows(g, s[1], nx) => g[k + 1] = IF g[k] = NULL THEN NULL ELSE nx[g[k]]
      BY <3>1, <1>1 DEF Follows
    <3> QED
      BY <3>1, <3>2, <2>2, <1>4, <1>6
  <2> HIDE DEF T
  <2>3. \A k \in 0..m : k \in T
    BY <1>1, <2>1, <2>2, UpTo
  <2> QED
    BY <2>3 DEF T
<1>8. Cardinality({k \in 1..m : at[k] # NULL}) = n - 1
  <2>1. {k \in 1..m : at[k] # NULL} = 1..(n - 1)
    <3>1. ASSUME NEW k \in 1..m PROVE at[k] # NULL <=> k \in 1..(n - 1)
      <4>1. at[k] = IF k < n THEN s[k + 1] ELSE NULL
        BY <1>2, <1>7
      <4>2. k < n => k + 1 \in 1..n
        BY <1>1
      <4> QED
        BY <4>1, <4>2, <1>1, <1>3
    <3>2. 1..(n - 1) \subseteq 1..m
      BY <1>1
    <3> QED
      BY <3>1, <3>2
  <2>2. Cardinality(1..(n - 1)) = n - 1
    BY FS_Interval
  <2> QED
    BY <2>1, <2>2
<1>9. \A k \in 1..(n - 1) : at[k] = s[k + 1]
  BY <1>1, <1>2, <1>7
<1>10. ChainOf(s[1], nx) = [k \in 1..(n - 1) |-> at[k]]
  BY <1>1, <1>5, <1>8 DEF ChainOf
<1> QED
  BY <1>9, <1>10

-----------------------------------------------------------------------------
(* Taking a cell out *)

\* The cells of a list: allocated, not held, and only the header is pQHeader.
LEMMA ListFacts ==
  ASSUME NEW s, NEW n, IsList(s, n)
  PROVE  /\ n \in Nat \ {0} /\ pQHeader \in Cells /\ pQ \in Cells /\ pQHeader # NULL
         /\ \A k \in 1..n : s[k] \in Cells /\ s[k] \in alloc /\ s[k] \notin held /\ s[k] # NULL
         /\ \A k \in 2..n : s[k] # pQHeader
         /\ pQ = pQHeader <=> n = 1
         /\ n <= Cardinality(Cells) /\ Cardinality(Cells) \in Nat
         /\ pQHeader \in alloc \ held
<1>1. n \in Nat \ {0} /\ s \in [1..n -> Cells] /\ 1 \in 1..n /\ n \in 1..n
  BY DEF IsList
<1>2. \A k \in 1..n : s[k] \in Cells /\ s[k] # NULL /\ s[k] \in alloc \ held
  BY <1>1, CellsAssumption DEF IsList
<1>3. pQHeader = s[1] /\ pQ = s[n] /\ (s[1] = s[n] => 1 = n)
  BY <1>1 DEF IsList
<1>4. \A k \in 2..n : s[k] # s[1]
  <2>1. \A k \in 2..n : k \in 1..n /\ k # 1
    BY <1>1
  <2> QED
    BY <1>1, <2>1 DEF IsList
<1>5. n <= Cardinality(Cells) /\ Cardinality(Cells) \in Nat
  BY <1>1, ListFits DEF IsList
<1> QED
  BY <1>1, <1>2, <1>3, <1>4, <1>5

\* s without the cell behind s[i].
Without(s, n, i) == [k \in 1..(n - 1) |-> IF k <= i THEN s[k] ELSE s[k + 1]]

\* The step takes the cell behind s[i] out of the list.
TakesOut(s, n, i) ==
  /\ pQHeader' = pQHeader /\ pQ' = IF i = n - 1 THEN s[i] ELSE pQ
  /\ \A d \in Cells \ {s[i + 1]} :
       /\ next'[d] = IF d = s[i] THEN next[s[i + 1]] ELSE next[d]
       /\ prev'[d] = IF d = next[s[i + 1]] THEN s[i] ELSE prev[d]
       /\ word'[d] = IF d = pQHeader THEN word[d] - 1 ELSE word[d]
  /\ alloc' \ held' = (alloc \ held) \ {s[i + 1]}

\* What the proofs use of t = Without(s, n, i).
IsWithout(t, s, n, i) ==
  /\ n - 1 \in Nat \ {0} /\ t \in [1..(n - 1) -> Cells] /\ t[1] = s[1]
  /\ \A k \in 1..i : t[k] = s[k]
  /\ \A k \in (i + 1)..(n - 1) : t[k] = s[k + 1]
  /\ \A k \in 1..(n - 1) : k \in 1..i \/ k \in (i + 1)..(n - 1)
  /\ \A j, k \in 1..(n - 1) : t[j] = t[k] => j = k
  /\ \A k \in 1..(n - 1) : t[k] # s[i + 1]

\* s without a cell begins with the header and repeats no cell.
LEMMA WithoutFacts ==
  ASSUME NEW s, NEW n, NEW nx, Threads(nx, s, n), NEW i \in 1..(n - 1)
  PROVE  IsWithout(Without(s, n, i), s, n, i)
<1>0. n \in Nat \ {0} /\ s \in [1..n -> Cells] /\ \A j, k \in 1..n : s[j] = s[k] => j = k
  BY DEF Threads
<1>1. /\ n - 1 \in Nat \ {0} /\ 1 \in 1..i /\ i + 1 \in 1..n
      /\ \A k \in 1..(n - 1) : k \in 1..i \/ k \in (i + 1)..(n - 1)
      /\ \A k \in 1..i : k \in 1..(n - 1) /\ k \in 1..n /\ k # i + 1
      /\ \A k \in (i + 1)..(n - 1) : k \in 1..(n - 1) /\ k + 1 \in 1..n /\ ~(k <= i) /\ k + 1 # i + 1
  BY <1>0
<1>2. PICK t : t = Without(s, n, i)
  OBVIOUS
<1>3. \A k \in 1..i : t[k] = s[k]
  BY <1>1, <1>2 DEF Without
<1>4. \A k \in (i + 1)..(n - 1) : t[k] = s[k + 1]
  BY <1>1, <1>2 DEF Without
<1>5. t \in [1..(n - 1) -> Cells]
  <2>1. \A k \in 1..(n - 1) : t[k] \in Cells
    BY <1>0, <1>1, <1>3, <1>4
  <2> QED
    BY <1>2, <2>1 DEF Without
<1>6. ASSUME NEW j \in 1..(n - 1), NEW k \in 1..(n - 1), t[j] = t[k]
      PROVE  j = k
  <2>1. CASE j \in 1..i /\ k \in 1..i
    BY <2>1, <1>0, <1>1, <1>3, <1>6
  <2>2. CASE j \in (i + 1)..(n - 1) /\ k \in (i + 1)..(n - 1)
    <3>1. j + 1 = k + 1
      BY <2>2, <1>0, <1>1, <1>4, <1>6
    <3> QED
      BY <3>1
  <2>3. CASE j \in 1..i /\ k \in (i + 1)..(n - 1)
    <3>1. j = k + 1
      BY <2>3, <1>0, <1>1, <1>3, <1>4, <1>6
    <3> QED
      BY <3>1, <2>3
  <2>4. CASE j \in (i + 1)..(n - 1) /\ k \in 1..i
    <3>1. j + 1 = k
      BY <2>4, <1>0, <1>1, <1>3, <1>4, <1>6
    <3> QED
      BY <3>1, <2>4
  <2> QED
    BY <2>1, <2>2, <2>3, <2>4, <1>1
<1>7. ASSUME NEW k \in 1..(n - 1)
      PROVE  t[k] # s[i + 1]
  <2>1. CASE k \in 1..i
    BY <2>1, <1>0, <1>1, <1>3
  <2>2. CASE k \in (i + 1)..(n - 1)
    BY <2>2, <1>0, <1>1, <1>4
  <2> QED
    BY <2>1, <2>2, <1>1
<1>8. t[1] = s[1]
  BY <1>1, <1>3
<1> QED
  BY <1>1, <1>2, <1>3, <1>4, <1>5, <1>6, <1>7, <1>8 DEF IsWithout

\* Where the pointers next lead once the cell behind s[i] is out.
LEMMA NextOfRest ==
  ASSUME NEW s, NEW n, NEW nx, Threads(nx, s, n), NEW i \in 1..(n - 1), NEW new,
         \A d \in Cells \ {s[i + 1]} : new[d] = IF d = s[i] THEN nx[s[i + 1]] ELSE nx[d]
  PROVE  Threads(new, Without(s, n, i), n - 1)
<1> DEFINE t == Without(s, n, i)
<1>1. IsWithout(t, s, n, i)
  BY WithoutFacts
<1> HIDE DEF t
<1>2. n \in Nat \ {0} /\ (\A j, k \in 1..n : s[j] = s[k] => j = k)
      /\ \A l \in 1..n : nx[s[l]] = IF l = n THEN NULL ELSE s[l + 1]
  BY DEF Threads
<1>3. ASSUME NEW k \in 1..(n - 1)
      PROVE  new[t[k]] = IF k = n - 1 THEN NULL ELSE t[k + 1]
  <2>1. new[t[k]] = IF t[k] = s[i] THEN nx[s[i + 1]] ELSE nx[t[k]]
    BY <1>1 DEF IsWithout
  <2>2. i \in 1..n /\ i + 1 \in 1..n
    BY <1>2
  <2>3. CASE k \in 1..(i - 1)
    <3>1. k \in 1..i /\ k + 1 \in 1..i /\ k \in 1..n /\ k # i /\ k # n /\ k # n - 1
      BY <1>2, <2>3
    <3>2. t[k] = s[k] /\ t[k + 1] = s[k + 1] /\ s[k] # s[i]
      BY <1>1, <1>2, <2>2, <3>1 DEF IsWithout
    <3> QED
      BY <1>2, <2>1, <3>1, <3>2
  <2>4. CASE k = i
    <3>1. t[k] = s[i]
      <4>1. i \in 1..i
        OBVIOUS
      <4> QED
        BY <1>1, <2>4, <4>1 DEF IsWithout
    <3>2. nx[s[i + 1]] = IF i + 1 = n THEN NULL ELSE s[(i + 1) + 1]
      BY <1>2, <2>2
    <3>3. k # n - 1 => t[k + 1] = s[(i + 1) + 1]
      <4>1. k # n - 1 => k + 1 \in (i + 1)..(n - 1)
        BY <1>2, <2>4
      <4> QED
        BY <1>1, <2>4, <4>1 DEF IsWithout
    <3>4. k = n - 1 <=> i + 1 = n
      BY <1>2, <2>4
    <3> QED
      BY <2>1, <3>1, <3>2, <3>3, <3>4
  <2>5. CASE k \in (i + 1)..(n - 1)
    <3>1. k + 1 \in 1..n /\ k + 1 # i /\ (k = n - 1 <=> k + 1 = n)
      BY <1>2, <2>5
    <3>2. t[k] = s[k + 1]
      BY <1>1, <2>5 DEF IsWithout
    <3>3. t[k] # s[i]
      BY <1>2, <2>2, <3>1, <3>2
    <3>4. nx[t[k]] = IF k + 1 = n THEN NULL ELSE s[(k + 1) + 1]
      BY <1>2, <3>1, <3>2
    <3>5. k # n - 1 => t[k + 1] = s[(k + 1) + 1]
      <4>1. k # n - 1 => k + 1 \in (i + 1)..(n - 1)
        BY <1>2, <2>5
      <4> QED
        BY <1>1, <4>1 DEF IsWithout
    <3> QED
      BY <2>1, <3>1, <3>3, <3>4, <3>5
  <2> QED
    BY <1>2, <2>3, <2>4, <2>5
<1>4. Threads(new, t, n - 1)
  BY <1>1, <1>3 DEF Threads, IsWithout
<1> QED
  BY <1>4 DEF t

\* Taking a cell out of a list leaves a list of the others.
LEMMA CellTaken ==
  ASSUME NEW s, NEW n, IsList(s, n), NEW i \in 1..(n - 1), TakesOut(s, n, i)
  PROVE  IsList(Without(s, n, i), n - 1)'
<1>1. /\ n \in Nat \ {0} /\ s \in [1..n -> Cells]
      /\ \A j, k \in 1..n : s[j] = s[k] => j = k
      /\ pQHeader = s[1] /\ pQ = s[n]
      /\ \A k \in 1..n : next[s[k]] = IF k = n THEN NULL ELSE s[k + 1]
      /\ \A k \in 1..n : prev[s[k]] = IF k = 1 THEN NULL ELSE s[k - 1]
      /\ \A k \in 1..n : s[k] \in alloc \ held
      /\ word[pQHeader] = n - 1
      /\ \A k \in 1..n : s[k] # NULL
  <2>1. \A k \in 1..n : s[k] # NULL
    BY ListFacts
  <2> QED
    BY <2>1 DEF IsList
<1> DEFINE t == Without(s, n, i)
<1>2. Threads(next, s, n) /\ IsWithout(t, s, n, i)
  <2>1. Threads(next, s, n)
    BY DEF IsList, Threads
  <2> QED
    BY <2>1, WithoutFacts
<1>3. Threads(next', t, n - 1)
  <2>1. \A d \in Cells \ {s[i + 1]} : next'[d] = IF d = s[i] THEN next[s[i + 1]] ELSE next[d]
    BY DEF TakesOut
  <2> QED
    BY <1>2, <2>1, NextOfRest
<1> HIDE DEF t
<1>4. /\ n - 1 \in Nat \ {0} /\ t \in [1..(n - 1) -> Cells] /\ t[1] = s[1]
      /\ \A k \in 1..i : t[k] = s[k]
      /\ \A k \in (i + 1)..(n - 1) : t[k] = s[k + 1]
      /\ \A k \in 1..(n - 1) : k \in 1..i \/ k \in (i + 1)..(n - 1)
      /\ \A j, k \in 1..(n - 1) : t[j] = t[k] => j = k
      /\ \A k \in 1..(n - 1) : t[k] # s[i + 1]
  BY <1>2 DEF IsWithout
<1>5. next[s[i + 1]] = IF i = n - 1 THEN NULL ELSE s[i + 2]
  <2>1. i + 1 \in 1..n /\ (i + 1 = n <=> i = n - 1) /\ (i + 1) + 1 = i + 2
    BY <1>1
  <2> QED
    BY <1>1, <2>1
<1>6. ASSUME NEW k \in 1..(n - 1)
      PROVE  prev'[t[k]] = IF k = 1 THEN NULL ELSE t[k - 1]
  <2>1. prev'[t[k]] = IF t[k] = next[s[i + 1]] THEN s[i] ELSE prev[t[k]]
    BY <1>4 DEF TakesOut
  <2>2. CASE k \in 1..i
    <3>1. t[k] = s[k] /\ k \in 1..n /\ (i # n - 1 => i + 2 \in 1..n /\ k # i + 2)
      BY <1>1, <1>4, <2>2
    <3>2. t[k] # next[s[i + 1]]
      BY <1>1, <1>5, <3>1
    <3>3. k # 1 => k - 1 \in 1..i
      BY <2>2
    <3> QED
      BY <1>1, <1>4, <2>1, <3>1, <3>2, <3>3
  <2>3. CASE k = i + 1
    <3>1. t[k] = s[i + 2] /\ k - 1 = i /\ i \in 1..i /\ i # n - 1 /\ k # 1
      BY <1>4, <2>3
    <3> QED
      BY <1>4, <1>5, <2>1, <3>1
  <2>4. CASE k \in (i + 2)..(n - 1)
    <3>1. /\ k \in (i + 1)..(n - 1) /\ k - 1 \in (i + 1)..(n - 1) /\ (k - 1) + 1 = k /\ (k + 1) - 1 = k
          /\ k # 1 /\ k + 1 # 1 /\ k + 1 \in 1..n /\ i + 2 \in 1..n /\ k + 1 # i + 2
      BY <1>1, <2>4
    <3>2. t[k] = s[k + 1] /\ t[k - 1] = s[k]
      BY <1>4, <3>1
    <3>3. t[k] # next[s[i + 1]]
      BY <1>1, <1>5, <3>1, <3>2
    <3>4. prev[s[k + 1]] = s[k]
      <4>1. prev[s[k + 1]] = IF k + 1 = 1 THEN NULL ELSE s[(k + 1) - 1]
        BY <1>1, <3>1
      <4> QED
        BY <4>1, <3>1
    <3> QED
      BY <2>1, <3>1, <3>2, <3>3, <3>4
  <2>5. k \in 1..i \/ k = i + 1 \/ k \in (i + 2)..(n - 1)
    BY <1>1
  <2> QED
    BY <2>2, <2>3, <2>4, <2>5
<1>7. \A k \in 1..(n - 1) : t[k] \in alloc' \ held'
  <2>1. \A k \in 1..(n - 1) : t[k] \in alloc \ held
    <3>1. \A k \in 1..i : k \in 1..n
      BY <1>1
    <3>2. \A k \in (i + 1)..(n - 1) : k + 1 \in 1..n
      BY <1>1
    <3>3. ASSUME NEW k \in 1..(n - 1)
          PROVE  t[k] \in alloc \ held
      <4>1. CASE k \in 1..i
        BY <1>1, <1>4, <3>1, <4>1
      <4>2. CASE k \in (i + 1)..(n - 1)
        BY <1>1, <1>4, <3>2, <4>2
      <4> QED
        BY <1>4, <4>1, <4>2
    <3> QED
      BY <3>3
  <2> QED
    BY <1>4, <2>1 DEF TakesOut
<1>8. pQHeader' = t[1] /\ pQ' = t[n - 1]
  <2>1. pQHeader' = pQHeader /\ pQ' = IF i = n - 1 THEN s[i] ELSE pQ
    BY DEF TakesOut
  <2>2. CASE i = n - 1
    BY <1>1, <1>4, <2>1, <2>2
  <2>3. CASE i # n - 1
    <3>1. n - 1 \in (i + 1)..(n - 1) /\ (n - 1) + 1 = n
      BY <1>1, <2>3
    <3> QED
      BY <1>1, <1>4, <2>1, <2>3, <3>1
  <2> QED
    BY <2>2, <2>3
<1>9. word'[pQHeader'] = (n - 1) - 1
  <2>1. pQHeader \in Cells /\ pQHeader # s[i + 1]
    <3>1. 1 \in 1..n /\ i + 1 \in 1..n /\ i + 1 # 1
      BY <1>1
    <3> QED
      BY <1>1, <3>1
  <2> QED
    BY <1>1, <2>1 DEF TakesOut
<1>10. IsList(t, n - 1)'
  BY <1>4, <1>3, <1>6, <1>7, <1>8, <1>9 DEF IsList, Threads
<1> QED
  BY <1>10 DEF t

-----------------------------------------------------------------------------
(* The calls keep the list *)

\* What Chain is if there is a list.
LEMMA ChainOfList ==
  ASSUME NEW s, NEW n, IsList(s, n)
  PROVE  /\ Chain = [k \in 1..(n - 1) |-> s[k + 1]]
         /\ Len(Chain) = n - 1 /\ \A k \in 1..(n - 1) : Chain[k] = s[k + 1]
<1>1. Chain = [k \in 1..(n - 1) |-> s[k + 1]]
  <2>1. Threads(next, s, n) /\ pQHeader = s[1]
    BY DEF IsList, Threads
  <2>2. ChainOf(s[1], next) = [k \in 1..(n - 1) |-> s[k + 1]]
    BY <2>1, ChainFollows
  <2> QED
    BY <2>1, <2>2, ChainIsChainOf
<1>2. n - 1 \in Nat
  BY DEF IsList
<1> QED
  BY <1>1, <1>2

\* The statements of a removal, once the cell is known.
LEMMA UnlinkIs ==
  ASSUME DbTypeOK, NEW s, NEW n, IsList(s, n), NEW i \in 1..(n - 1)
  PROVE  /\ s[i] \in alloc /\ s[i] \in Cells /\ s[i + 1] \in Cells /\ s[i + 1] \in alloc \ held
         /\ s[i + 1] # pQHeader /\ next[s[i]] = s[i + 1] /\ prev[s[i + 1]] = s[i]
         /\ next[s[i + 1]] # NULL <=> i # n - 1
         /\ NextWithout(s[i]) \in [Cells -> Cells \cup {NULL}]
         /\ PrevWithout(s[i]) \in [Cells -> Cells \cup {NULL}]
         /\ CountDown \in [Cells -> Values]
         /\ \A d \in Cells :
              /\ NextWithout(s[i])[d] = IF d = s[i] THEN next[s[i + 1]] ELSE next[d]
              /\ PrevWithout(s[i])[d] = IF d = next[s[i + 1]] THEN s[i] ELSE prev[d]
              /\ CountDown[d] = IF d = pQHeader THEN word[d] - 1 ELSE word[d]
         /\ \A d \in Cells \ alloc : NextWithout(s[i])[d] = next[d] /\ PrevWithout(s[i])[d] = prev[d]
<1>1. /\ n \in Nat \ {0} /\ n <= Cardinality(Cells) /\ Cardinality(Cells) \in Nat
      /\ pQHeader \in Cells
      /\ \A k \in 1..n : s[k] \in Cells /\ s[k] \in alloc /\ s[k] \notin held /\ s[k] # NULL
      /\ \A k \in 2..n : s[k] # pQHeader
  BY ListFacts
<1>2. /\ \A k \in 1..n : next[s[k]] = IF k = n THEN NULL ELSE s[k + 1]
      /\ \A k \in 1..n : prev[s[k]] = IF k = 1 THEN NULL ELSE s[k - 1]
      /\ word[pQHeader] = n - 1
  BY DEF IsList
<1>3. i \in 1..n /\ i # n /\ i + 1 \in 1..n /\ i + 1 \in 2..n /\ i + 1 # 1 /\ (i + 1) - 1 = i
  BY <1>1
<1>4. next[s[i]] = s[i + 1] /\ prev[s[i + 1]] = s[i]
  BY <1>2, <1>3
<1>5. PICK e : e = next[s[i + 1]]
  OBVIOUS
<1>6. (e # NULL <=> i # n - 1) /\ (e # NULL => e \in Cells /\ e \in alloc)
  <2>1. CASE i = n - 1
    <3>1. i + 1 = n
      BY <1>1, <2>1
    <3> QED
      BY <1>2, <1>3, <1>5, <2>1, <3>1
  <2>2. CASE i # n - 1
    <3>1. i + 1 # n /\ (i + 1) + 1 \in 1..n
      BY <1>1, <2>2
    <3>2. e = s[(i + 1) + 1]
      BY <1>2, <1>3, <1>5, <3>1
    <3> QED
      BY <1>1, <2>2, <3>1, <3>2
  <2> QED
    BY <2>1, <2>2
<1>7. NextWithout(s[i]) = [next EXCEPT ![s[i]] = e]
  BY <1>4, <1>5 DEF NextWithout
<1>8. PrevWithout(s[i]) = IF e # NULL THEN [prev EXCEPT ![e] = s[i]] ELSE prev
  BY <1>4, <1>5 DEF PrevWithout
<1>9. CountDown = [word EXCEPT ![pQHeader] = n - 2] /\ word[pQHeader] - 1 = n - 2 /\ n - 2 \in Values
  <2>1. word[pQHeader] > 0 /\ word[pQHeader] - 1 = n - 2 /\ n - 2 \in Values
    BY <1>1, <1>2 DEF Values
  <2> QED
    BY <2>1 DEF CountDown
<1>10. CountDown \in [Cells -> Values] /\ \A d \in Cells : CountDown[d] = IF d = pQHeader THEN word[d] - 1 ELSE word[d]
  BY <1>1, <1>9 DEF DbTypeOK
<1>11. /\ NextWithout(s[i]) \in [Cells -> Cells \cup {NULL}]
       /\ \A d \in Cells : NextWithout(s[i])[d] = IF d = s[i] THEN e ELSE next[d]
  BY <1>1, <1>3, <1>6, <1>7 DEF DbTypeOK
<1>12. /\ PrevWithout(s[i]) \in [Cells -> Cells \cup {NULL}]
       /\ \A d \in Cells : PrevWithout(s[i])[d] = IF d = e THEN s[i] ELSE prev[d]
  BY <1>1, <1>3, <1>6, <1>8, CellsAssumption DEF DbTypeOK
<1>13. \A d \in Cells \ alloc : d # s[i] /\ d # e
  BY <1>1, <1>3, <1>6, CellsAssumption
<1> QED
  BY <1>1, <1>3, <1>4, <1>5, <1>6, <1>10, <1>11, <1>12, <1>13

\* The step takes the cell behind s[i] out and returns it.
Removes(s, n, i) ==
  /\ next' = NextWithout(s[i]) /\ prev' = PrevWithout(s[i])
  /\ pQ' = IF i = n - 1 THEN s[i] ELSE pQ
  /\ \E pos \in Cells \cup {NULL} : Return(s[i + 1], pos)

\* The statements of a removal leave the list without that cell, and the words of the others.
LEMMA RemovalTakesOut ==
  ASSUME ListInv, NEW s, NEW n, IsList(s, n), NEW i \in 1..(n - 1), Removes(s, n, i)
  PROVE  IsList(Without(s, n, i), n - 1)' /\ \A d \in Cells \ {pQHeader} : word'[d] = word[d]
<1>1. DbTypeOK
  BY DEF ListInv
<1>2. /\ word' = CountDown /\ pQHeader' = pQHeader /\ alloc' = alloc /\ held' = held \cup {s[i + 1]}
      /\ next' = NextWithout(s[i]) /\ prev' = PrevWithout(s[i]) /\ pQ' = IF i = n - 1 THEN s[i] ELSE pQ
  BY DEF Removes, Return
<1>3. \A d \in Cells :
        /\ next'[d] = IF d = s[i] THEN next[s[i + 1]] ELSE next[d]
        /\ prev'[d] = IF d = next[s[i + 1]] THEN s[i] ELSE prev[d]
        /\ word'[d] = IF d = pQHeader THEN word[d] - 1 ELSE word[d]
  BY <1>1, <1>2, UnlinkIs
<1>4. TakesOut(s, n, i)
  BY <1>2, <1>3 DEF TakesOut
<1> QED
  BY <1>3, <1>4, CellTaken

\* So they keep the invariant.
LEMMA RemovalKeeps ==
  ASSUME ListInv, Open, NEW s, NEW n, IsList(s, n), NEW i \in 1..(n - 1), Removes(s, n, i)
  PROVE  ListInv'
<1>1. DbTypeOK /\ WordsDiffer /\ pc = "idle" /\ \A d \in Cells \ alloc : next[d] = NULL /\ prev[d] = NULL
  BY DEF ListInv, Open
<1>2. PICK pos \in Cells \cup {NULL} : Return(s[i + 1], pos)
  BY DEF Removes
<1>3. /\ next' = NextWithout(s[i]) /\ prev' = PrevWithout(s[i]) /\ word' = CountDown
      /\ pQHeader' = pQHeader /\ alloc' = alloc /\ held' = held \cup {s[i + 1]} /\ pc' = pc
      /\ released' = released /\ asked' = pos /\ ret' = word[s[i + 1]]
      /\ pQ' \in {s[i], pQ}
  BY <1>2 DEF Removes, Return
<1>4. /\ s[i] \in Cells /\ s[i + 1] \in Cells /\ s[i + 1] \in alloc
      /\ next' \in [Cells -> Cells \cup {NULL}] /\ prev' \in [Cells -> Cells \cup {NULL}]
      /\ word' \in [Cells -> Values]
      /\ \A d \in Cells \ alloc : next'[d] = next[d] /\ prev'[d] = prev[d]
  BY <1>1, <1>3, UnlinkIs
<1>5. \A d \in Cells \ {pQHeader} : word'[d] = word[d]
  BY RemovalTakesOut
<1>6. DbTypeOK'
  BY <1>1, <1>3, <1>4 DEF DbTypeOK
<1>7. WordsDiffer'
  <2>1. \A d \in alloc' \ {pQHeader'} : d \in alloc \ {pQHeader} /\ word'[d] = word[d]
    BY <1>1, <1>3, <1>5 DEF DbTypeOK
  <2> QED
    BY <2>1, <1>1, <1>3 DEF WordsDiffer
<1>8. \E f, l : IsList(f, l)'
  BY RemovalTakesOut
<1> QED
  BY <1>1, <1>3, <1>4, <1>6, <1>7, <1>8 DEF ListInv

\* The three removals return NULL, or one cell of the list.
LEMMA DequeueRemoves ==
  ASSUME ListInv, dequeue, NEW s, NEW n, IsList(s, n)
  PROVE  IF n = 1 THEN ReturnNull(NULL) ELSE 1 \in 1..(n - 1) /\ Removes(s, n, 1)
<1>1. DbTypeOK /\ n \in Nat \ {0} /\ (pQ = pQHeader <=> n = 1) /\ pQHeader = s[1]
  BY ListFacts DEF ListInv, IsList
<1>2. CASE n = 1
  BY <1>1, <1>2 DEF dequeue
<1>3. CASE n # 1
  <2>1. 1 \in 1..(n - 1) /\ 1 + 1 = 2
    BY <1>1, <1>3
  <2>2. next[s[1]] = s[2] /\ (next[s[2]] # NULL <=> 1 # n - 1)
    BY <1>1, <2>1, UnlinkIs
  <2>3. Unlink(pQHeader) /\ Return(next[pQHeader], NULL)
    BY <1>1, <1>3 DEF dequeue
  <2> QED
    BY <1>1, <1>3, <2>1, <2>2, <2>3 DEF Unlink, Removes
<1> QED
  BY <1>2, <1>3

\* dequeue_sub takes out the second cell, if there is one.
LEMMA DequeueSubRemoves ==
  ASSUME ListInv, dequeue_sub, NEW s, NEW n, IsList(s, n)
  PROVE  ReturnNull(NULL) \/ (2 \in 1..(n - 1) /\ Removes(s, n, 2))
<1>1. DbTypeOK /\ n \in Nat \ {0} /\ (pQ = pQHeader <=> n = 1) /\ pQHeader = s[1]
  BY ListFacts DEF ListInv, IsList
<1>2. CASE n = 1
  BY <1>1, <1>2 DEF dequeue_sub
<1>3. CASE n # 1
  <2>1. 1 \in 1..(n - 1) /\ 1 + 1 = 2
    BY <1>1, <1>3
  <2>2. next[s[1]] = s[2] /\ (next[s[2]] # NULL <=> 1 # n - 1)
    BY <1>1, <2>1, UnlinkIs
  <2>3. IF next[s[2]] = NULL THEN ReturnNull(NULL) ELSE Unlink(s[2]) /\ Return(next[s[2]], NULL)
    BY <1>1, <1>3, <2>2 DEF dequeue_sub
  <2>4. CASE n = 2
    <3>1. 1 = n - 1
      BY <2>4
    <3> QED
      BY <2>2, <2>3, <3>1
  <2>5. CASE n # 2
    <3>1. 2 \in 1..(n - 1) /\ 2 + 1 = 3 /\ 1 # n - 1
      BY <1>1, <1>3, <2>5
    <3>2. next[s[2]] = s[3] /\ (next[s[3]] # NULL <=> 2 # n - 1)
      BY <1>1, <3>1, UnlinkIs
    <3>3. Unlink(s[2]) /\ Return(s[3], NULL)
      BY <2>2, <2>3, <3>1, <3>2
    <3> QED
      BY <3>1, <3>2, <3>3 DEF Unlink, Removes
  <2> QED
    BY <2>4, <2>5
<1> QED
  BY <1>2, <1>3

\* dequeue_sppos takes out some cell of the list, or none.
LEMMA DequeueSpposRemoves ==
  ASSUME ListInv, NEW s, NEW n, IsList(s, n), NEW pos \in {pQHeader} \cup CellsOf(Chain), dequeue_sppos(pos)
  PROVE  pos \in Cells /\ (ReturnNull(pos) \/ \E i \in 1..(n - 1) : Removes(s, n, i))
<1>1. /\ DbTypeOK /\ n \in Nat \ {0} /\ (pQ = pQHeader <=> n = 1) /\ pQHeader = s[1] /\ pQHeader \in Cells
      /\ \A k \in 1..n : s[k] \in Cells
  BY ListFacts DEF ListInv, IsList
<1>2. pos \in Cells /\ \E k \in 1..n : pos = s[k]
  <2>1. Len(Chain) = n - 1 /\ \A k \in 1..(n - 1) : Chain[k] = s[k + 1]
    BY ChainOfList
  <2>2. pos \in CellsOf(Chain) => \E k \in 1..(n - 1) : pos = s[k + 1]
    BY <2>1 DEF CellsOf
  <2>3. 1 \in 1..n /\ \A k \in 1..(n - 1) : k + 1 \in 1..n
    BY <1>1
  <2> QED
    BY <1>1, <2>2, <2>3
<1>3. CASE n = 1 \/ pos = pQHeader
  BY <1>1, <1>2, <1>3 DEF dequeue_sppos
<1>4. CASE n # 1 /\ pos # pQHeader
  <2>1. PICK k \in 1..n : pos = s[k]
    BY <1>2
  <2>2. PICK i : i = k - 1
    OBVIOUS
  <2>3. i \in 1..(n - 1) /\ i + 1 = k /\ k # 1
    BY <1>1, <1>4, <2>1, <2>2
  <2>4. prev[pos] = s[i] /\ next[s[i]] = pos /\ (next[pos] # NULL <=> i # n - 1)
    BY <1>1, <2>1, <2>3, UnlinkIs
  <2>5. CASE next[pos] # NULL
    <3>1. /\ next' = [next EXCEPT ![prev[pos]] = next[pos]]
          /\ prev' = [prev EXCEPT ![next[pos]] = prev[pos]]
          /\ Return(pos, pos) /\ pQ' = pQ
      BY <1>1, <1>4, <2>5 DEF dequeue_sppos
    <3>2. next' = NextWithout(s[i]) /\ prev' = PrevWithout(s[i])
      BY <2>4, <2>5, <3>1 DEF NextWithout, PrevWithout
    <3>3. Removes(s, n, i)
      BY <1>2, <2>1, <2>3, <2>4, <2>5, <3>1, <3>2 DEF Removes
    <3> QED
      BY <1>2, <2>3, <3>3
  <2>6. CASE next[pos] = NULL
    <3>1. Unlink(pQHeader) /\ Return(next[pQHeader], pos)
      BY <1>1, <1>4, <2>6 DEF dequeue_sppos
    <3>2. 1 \in 1..(n - 1) /\ 1 + 1 = 2
      BY <1>1, <1>4
    <3>3. next[s[1]] = s[2] /\ (next[s[2]] # NULL <=> 1 # n - 1)
      BY <1>1, <3>2, UnlinkIs
    <3>4. Removes(s, n, 1)
      BY <1>1, <1>2, <3>1, <3>2, <3>3 DEF Unlink, Removes
    <3> QED
      BY <1>2, <3>2, <3>4
  <2> QED
    BY <2>5, <2>6
<1> QED
  BY <1>3, <1>4

\* initQueue gives its caller a list of the header alone, or finds no memory for it.
LEMMA InitQueueKeeps ==
  ASSUME ListInv, initQueue
  PROVE  /\ ListInv' /\ (pQHeader = NULL /\ NothingLeaks => NothingLeaks')
         /\ IF pQHeader' = NULL THEN pQHeader = NULL ELSE \E s : IsList(s, 1)'
<1> DEFINE rest == alloc \ {pQHeader}
<1>1. /\ DbTypeOK /\ WordsDiffer /\ pc = "idle" /\ pc' = pc /\ held' = held
      /\ ret' = ret /\ asked' = asked /\ released' = released
      /\ \A d \in Cells \ alloc : next[d] = NULL /\ prev[d] = NULL
  BY DEF ListInv, initQueue
<1>2. held \subseteq rest /\ rest \subseteq Cells /\ (pQHeader = NULL => rest = alloc)
  <2>1. CASE pQHeader = NULL
    BY <2>1, <1>1, CellsAssumption DEF DbTypeOK
  <2>2. CASE pQHeader # NULL
    <3>1. Open
      BY <2>2, <1>1 DEF initQueue, Open
    <3>2. PICK s, n : IsList(s, n)
      BY <3>1 DEF ListInv
    <3>3. pQHeader \notin held
      BY <3>2, ListFacts
    <3> QED
      BY <2>2, <3>3, <1>1 DEF DbTypeOK
  <2> QED
    BY <2>1, <2>2
<1>3. CASE \E h \in Cells \ rest :
             /\ alloc' = rest \cup {h}
             /\ word' = [Forget(word, {pQHeader}) EXCEPT ![h] = 0]
             /\ prev' = Forget(prev, {pQHeader}) /\ next' = Forget(next, {pQHeader})
             /\ pQHeader' = h /\ pQ' = h
  <2>1. PICK h \in Cells \ rest :
             /\ alloc' = rest \cup {h}
             /\ word' = [Forget(word, {pQHeader}) EXCEPT ![h] = 0]
             /\ prev' = Forget(prev, {pQHeader}) /\ next' = Forget(next, {pQHeader})
             /\ pQHeader' = h /\ pQ' = h
    BY <1>3
  <2> HIDE DEF rest
  <2>2. h \in Cells /\ h \notin rest /\ h # NULL
    BY CellsAssumption
  <2>3. \A c \in Cells : /\ next'[c] = IF c = pQHeader THEN NULL ELSE next[c]
                         /\ prev'[c] = IF c = pQHeader THEN NULL ELSE prev[c]
                         /\ word'[c] = IF c = h THEN 0 ELSE IF c = pQHeader THEN NULL ELSE word[c]
    BY <2>1 DEF Forget
  <2>4. DbTypeOK'
    <3>1. 0 \in Values /\ NULL \in Values
      BY CellsAssumption, FS_CardinalityType DEF Values
    <3>2. Forget(word, {pQHeader}) \in [Cells -> Values]
      BY <3>1, <1>1 DEF Forget, DbTypeOK
    <3>3. word' \in [Cells -> Values]
      BY <3>1, <3>2, <2>1
    <3>4. next' \in [Cells -> Cells \cup {NULL}] /\ prev' \in [Cells -> Cells \cup {NULL}]
      BY <2>1, <1>1 DEF Forget, DbTypeOK
    <3> QED
      BY <3>3, <3>4, <2>1, <1>1, <1>2 DEF DbTypeOK
  <2>5. next'[h] = NULL /\ prev'[h] = NULL /\ word'[h] = 0
    <3>1. h = pQHeader \/ h \in Cells \ alloc
      BY <2>2 DEF rest
    <3> QED
      BY <3>1, <2>2, <2>3, <1>1
  <2>6. PICK t : IsList(t, 1)'
    <3>1. PICK t : t = [k \in 1..1 |-> h]
      OBVIOUS
    <3>2. t \in [1..1 -> Cells] /\ 1..1 = {1} /\ t[1] = h
      BY <3>1, <2>1
    <3>3. h \in alloc' \ held'
      BY <2>1, <2>2, <1>1, <1>2
    <3>4. IsList(t, 1)'
      BY <3>2, <3>3, <2>1, <2>5 DEF IsList
    <3> QED
      BY <3>4
  <2>7. WordsDiffer'
    <3>1. \A c \in alloc' \ {pQHeader'} : c \in alloc \ {pQHeader} /\ word'[c] = word[c]
      BY <2>1, <2>2, <2>3, <1>2 DEF rest
    <3> QED
      BY <3>1, <1>1 DEF WordsDiffer
  <2>8. \A c \in Cells \ alloc' : next'[c] = NULL /\ prev'[c] = NULL
    BY <2>1, <2>3, <1>1 DEF rest
  <2>9. pc' \notin Loops
    BY <1>1 DEF Loops
  <2>10. ListInv'
    BY <2>4, <2>6, <2>7, <2>8, <2>9 DEF ListInv, Loops
  <2>11. ASSUME pQHeader = NULL, NothingLeaks PROVE NothingLeaks'
    <3>1. alloc' = held' \cup {h}
      BY <2>1, <2>11, <1>1, <1>2 DEF NothingLeaks
    <3>2. Chain' = <<>>
      <4>1. PICK one : one = 1
        OBVIOUS
      <4>2. Threads(next', t, one) /\ pQHeader' = t[1]
        BY <2>6, <4>1 DEF IsList, Threads
      <4>4. ChainOf(t[1], next') = [k \in 1..(one - 1) |-> t[k + 1]]
        BY <4>2, ChainFollows
      <4>5. [k \in 1..(one - 1) |-> t[k + 1]] = <<>>
        <5>1. 1..(one - 1) = {}
          BY <4>1
        <5> QED
          BY <5>1
      <4>3. Chain' = ChainOf(pQHeader', next')
        BY DEF Chain, ChainOf, Follows
      <4> QED
        BY <4>2, <4>3, <4>4, <4>5
    <3> QED
      BY <3>1, <3>2, <2>1, <2>2 DEF NothingLeaks, CellsOf
  <2> QED
    BY <2>1, <2>2, <2>6, <2>10, <2>11
<1>4. CASE /\ Cells = rest /\ alloc' = rest /\ pQHeader' = NULL /\ pQ' = NULL
           /\ UNCHANGED <<word, prev, next>>
  <2>1. pQHeader \notin Cells /\ pQHeader = NULL /\ alloc' = alloc
    BY <1>1, <1>2, <1>4 DEF DbTypeOK
  <2>2. word' = word /\ prev' = prev /\ next' = next
    BY <1>4
  <2>3. DbTypeOK' /\ WordsDiffer'
    BY <2>1, <2>2, <1>1, <1>4 DEF DbTypeOK, WordsDiffer
  <2>4. ~Open' /\ pc' \notin Loops
    BY <1>1, <1>4 DEF Open, Loops
  <2>5. ListInv'
    BY <2>1, <2>2, <2>3, <2>4, <1>1 DEF ListInv, Loops
  <2>6. NothingLeaks => NothingLeaks'
    BY <2>1, <1>1, <1>4 DEF NothingLeaks
  <2> QED
    BY <2>1, <2>5, <2>6, <1>4
<1> QED
  BY <1>3, <1>4 DEF initQueue

\* enqueue makes the list one cell longer.
LEMMA EnqueueKeeps ==
  ASSUME ListInv, enqueue, NEW s, NEW n, IsList(s, n)
  PROVE  /\ ListInv'
         /\ \E m \in MhtNodes, c \in Cells :
              /\ IsList([j \in 1..(n + 1) |-> IF j = n + 1 THEN c ELSE s[j]], n + 1)'
              /\ word'[c] = m /\ \A k \in 2..n : word'[s[k]] = word[s[k]]
              /\ alloc' = alloc \cup {c}
<1>1. PICK m \in Loose, c \in Free :
       /\ alloc' = alloc \cup {c}
       /\ next' = [next EXCEPT ![pQ] = c, ![c] = NULL]
       /\ prev' = [prev EXCEPT ![c] = pQ]
       /\ word' = [word EXCEPT ![c] = m, ![pQHeader] = @ + 1]
       /\ pQ' = c
  BY DEF enqueue
<1>2. /\ DbTypeOK /\ pc = "idle" /\ pc' = pc /\ pQHeader' = pQHeader /\ held' = held
      /\ ret' = ret /\ asked' = asked /\ released' = released
  BY DEF ListInv, enqueue, Open
<1>3. /\ n \in Nat \ {0} /\ pQHeader \in Cells /\ pQ \in Cells /\ pQHeader # NULL
      /\ \A k \in 1..n : s[k] \in Cells /\ s[k] \in alloc /\ s[k] \notin held
      /\ \A k \in 2..n : s[k] # pQHeader
      /\ n <= Cardinality(Cells) /\ Cardinality(Cells) \in Nat /\ pQHeader \in alloc
  BY ListFacts
<1>4. c \in Cells /\ c \notin alloc /\ c \notin held /\ m \in MhtNodes /\ m \notin released
      /\ \A d \in alloc : word[d] # m
  BY <1>2 DEF Free, Loose, DbTypeOK
<1>5. /\ \A k \in 1..n : s[k] # c
      /\ c # pQ /\ c # pQHeader /\ pQ = s[n] /\ pQHeader = s[1]
  BY <1>3, <1>4 DEF IsList
<1>6. /\ next'[c] = NULL /\ next'[pQ] = c /\ \A d \in Cells \ {c, pQ} : next'[d] = next[d]
      /\ prev'[c] = pQ /\ \A d \in Cells \ {c} : prev'[d] = prev[d]
      /\ word'[c] = m /\ word'[pQHeader] = word[pQHeader] + 1
      /\ \A d \in Cells \ {c, pQHeader} : word'[d] = word[d]
  BY <1>1, <1>2, <1>3, <1>4, <1>5 DEF DbTypeOK
<1>7. PICK t : t = [j \in 1..(n + 1) |-> IF j = n + 1 THEN c ELSE s[j]]
  OBVIOUS
<1>8. /\ t \in [1..(n + 1) -> Cells] /\ t[n + 1] = c /\ \A k \in 1..n : t[k] = s[k]
  BY <1>3, <1>4, <1>7
<1>9. \A j, k \in 1..(n + 1) : t[j] = t[k] => j = k
  <2> SUFFICES ASSUME NEW j \in 1..(n + 1), NEW k \in 1..(n + 1), t[j] = t[k], j # k PROVE FALSE
    OBVIOUS
  <2>1. CASE j = n + 1 \/ k = n + 1
    BY <2>1, <1>3, <1>5, <1>8
  <2>2. CASE j # n + 1 /\ k # n + 1
    <3>1. j \in 1..n /\ k \in 1..n
      BY <2>2, <1>3
    <3> QED
      BY <3>1, <1>8 DEF IsList
  <2> QED
    BY <2>1, <2>2
<1>10. ASSUME NEW k \in 1..(n + 1)
       PROVE  /\ next'[t[k]] = IF k = n + 1 THEN NULL ELSE t[k + 1]
              /\ prev'[t[k]] = IF k = 1 THEN NULL ELSE t[k - 1]
  <2>1. CASE k = n + 1
    <3>1. t[k] = c /\ k # 1 /\ k - 1 = n /\ n \in 1..n
      BY <2>1, <1>3, <1>8
    <3> QED
      BY <2>1, <3>1, <1>5, <1>6, <1>8
  <2>2. CASE k = n
    <3>1. k \in 1..n /\ t[k] = pQ /\ t[k + 1] = c /\ k # n + 1
      BY <2>2, <1>3, <1>5, <1>8
    <3>2. prev[s[k]] = IF k = 1 THEN NULL ELSE s[k - 1]
      BY <3>1 DEF IsList
    <3>3. k # 1 => k - 1 \in 1..n
      BY <3>1, <1>3
    <3> QED
      BY <3>1, <3>2, <3>3, <1>3, <1>5, <1>6, <1>8
  <2>3. CASE k \in 1..(n - 1)
    <3>1. k \in 1..n /\ k + 1 \in 1..n /\ k # n /\ k # n + 1 /\ t[k] = s[k] /\ t[k + 1] = s[k + 1]
      BY <2>3, <1>3, <1>8
    <3>2. s[k] # pQ /\ s[k] # c /\ s[k] \in Cells
      <4>1. n \in 1..n
        BY <1>3
      <4> QED
        BY <4>1, <3>1, <1>3, <1>5 DEF IsList
    <3>3. next[s[k]] = s[k + 1] /\ prev[s[k]] = IF k = 1 THEN NULL ELSE s[k - 1]
      BY <3>1 DEF IsList
    <3>4. k # 1 => k - 1 \in 1..n
      BY <3>1, <1>3
    <3> QED
      BY <3>1, <3>2, <3>3, <3>4, <1>6, <1>8
  <2> QED
    BY <2>1, <2>2, <2>3, <1>3
<1>11. \A k \in 1..(n + 1) : t[k] \in alloc' \ held'
  <2>1. \A k \in 1..(n + 1) : k = n + 1 \/ k \in 1..n
    BY <1>3
  <2> QED
    BY <2>1, <1>1, <1>2, <1>3, <1>4, <1>8
<1>12. word'[pQHeader'] = (n + 1) - 1
  BY <1>2, <1>3, <1>6 DEF IsList
<1>13. IsList(t, n + 1)'
  <2>1. t[1] = s[1]
    BY <1>3, <1>8
  <2>2. n + 1 \in Nat \ {0}
    BY <1>3
  <2>3. pQHeader' = t[1] /\ pQ' = t[n + 1]
    BY <2>1, <1>1, <1>2, <1>5, <1>8
  <2> QED
    BY <2>2, <2>3, <1>8, <1>9, <1>10, <1>11, <1>12 DEF IsList
<1>14. DbTypeOK'
  <2>1. n + 1 <= Cardinality(Cells)
    <3>1. n + 1 \in Nat
      BY <1>3
    <3> QED
      BY <3>1, <1>8, <1>9, ListFits
  <2>2. word[pQHeader] + 1 \in Values /\ m \in Values
    BY <2>1, <1>3, <1>4 DEF IsList, Values
  <2>3. word' \in [Cells -> Values]
    BY <2>2, <1>1, <1>2 DEF DbTypeOK
  <2>4. next' \in [Cells -> Cells \cup {NULL}] /\ prev' \in [Cells -> Cells \cup {NULL}]
    BY <1>1, <1>2, <1>3, <1>4 DEF DbTypeOK
  <2> QED
    BY <2>3, <2>4, <1>1, <1>2, <1>4 DEF DbTypeOK
<1>15. WordsDiffer'
  <2>1. \A d \in alloc' \ {pQHeader'} :
          \/ d = c /\ word'[d] = m
          \/ d \in alloc \ {pQHeader} /\ d # c /\ word'[d] = word[d]
    BY <1>1, <1>2, <1>4, <1>6 DEF DbTypeOK
  <2>2. /\ \A d \in alloc \ {pQHeader} : word[d] \in MhtNodes \ released
        /\ \A d, e \in alloc \ {pQHeader} : word[d] = word[e] => d = e
    BY DEF ListInv, WordsDiffer
  <2>3. \A d \in alloc' \ {pQHeader'} : word'[d] \in MhtNodes \ released'
    BY <2>1, <2>2, <1>2, <1>4
  <2>4. \A d, e \in alloc' \ {pQHeader'} : word'[d] = word'[e] => d = e
    BY <2>1, <2>2, <1>4
  <2> QED
    BY <2>3, <2>4 DEF WordsDiffer
<1>16. \A d \in Cells \ alloc' : next'[d] = NULL /\ prev'[d] = NULL
  <2>1. n \in 1..n /\ pQ \in alloc
    BY <1>3, <1>5
  <2>2. \A d \in Cells \ alloc' : d \in Cells \ alloc /\ d # c /\ d # pQ
    BY <2>1, <1>1
  <2> QED
    BY <2>2, <1>6 DEF ListInv
<1>17. ListInv'
  <2>1. \E f, l : IsList(f, l)'
    BY <1>13
  <2> QED
    BY <2>1, <1>2, <1>14, <1>15, <1>16 DEF ListInv
<1>18. \A k \in 2..n : word'[s[k]] = word[s[k]]
  <2>1. \A k \in 2..n : k \in 1..n
    BY <1>3
  <2> QED
    BY <2>1, <1>3, <1>5, <1>6
<1> QED
  BY <1>1, <1>4, <1>6, <1>7, <1>13, <1>17, <1>18

\* Steps that leave the cells alone.
LEMMA SameCells ==
  ASSUME ListInv, UNCHANGED <<alloc, next, prev, word, pQHeader, pQ, held, released>>,
         pc' \in {"idle", "crash"} \cup Loops, pc' \in Loops => pc' = pc \/ Open, pc' = "idle" => pc = "idle",
         ret' \in Values, asked' \in Cells \cup {NULL}
  PROVE  ListInv'
<1>1. /\ alloc' = alloc /\ next' = next /\ prev' = prev /\ word' = word /\ pQHeader' = pQHeader
      /\ pQ' = pQ /\ held' = held /\ released' = released
  OBVIOUS
<1>2. DbTypeOK' /\ WordsDiffer'
  BY <1>1 DEF ListInv, DbTypeOK, WordsDiffer, Loops
<1>3. \A s, n : /\ IsList(s, n) => IsList(s, n)'
                /\ IsRest(s, n) => IsRest(s, n)'
  <2>1. ASSUME NEW s, NEW n, IsList(s, n) PROVE IsList(s, n)'
    BY <1>1, <2>1 DEF IsList
  <2>2. ASSUME NEW s, NEW n, IsRest(s, n) PROVE IsRest(s, n)'
    BY <1>1, <2>2 DEF IsRest, Threads
  <2> QED
    BY <2>1, <2>2
<1>4. \A s, n : IsList(s, n) => IsRest(s, n)
  BY DEF IsList, IsRest, Threads
<1>5. Open' \/ pc' = "freeQueue" => \E s, n : IsList(s, n)'
  BY <1>1, <1>3 DEF ListInv, Open, Loops
<1>6. pc' \in {"freeQueue2", "freeQueue3"} => \E s, n : IsRest(s, n)'
  BY <1>1, <1>3, <1>4 DEF ListInv, Loops
<1>7. \A d \in Cells \ alloc' : next'[d] = NULL /\ prev'[d] = NULL
  BY <1>1 DEF ListInv
<1> QED
  BY <1>2, <1>5, <1>6, <1>7 DEF ListInv

\* deleteQNode frees a cell outside the list.
LEMMA DeleteKeeps ==
  ASSUME ListInv, deleteQNode
  PROVE  /\ ListInv' /\ \A s, n : IsList(s, n) => /\ IsList(s, n)'
                                                  /\ \A k \in 1..n : word'[s[k]] = word[s[k]]
<1>1. /\ DbTypeOK /\ pc = "idle" /\ pc' = pc /\ pQHeader' = pQHeader /\ pQ' = pQ /\ WordsDiffer
      /\ ret' = ret /\ asked' = asked /\ released' = released
      /\ \A d \in Cells \ alloc : next[d] = NULL /\ prev[d] = NULL
  BY DEF ListInv, deleteQNode
<1>2. PICK c \in held :
        /\ alloc' = alloc \ {c} /\ held' = held \ {c}
        /\ next' = Forget(next, {c}) /\ prev' = Forget(prev, {c}) /\ word' = Forget(word, {c})
  BY DEF deleteQNode
<1>3. /\ c \in Cells /\ c \in alloc
      /\ next'[c] = NULL /\ prev'[c] = NULL
      /\ \A d \in Cells \ {c} : next'[d] = next[d] /\ prev'[d] = prev[d] /\ word'[d] = word[d]
  BY <1>1, <1>2 DEF Forget, DbTypeOK
<1>4. ASSUME NEW s, NEW n, IsList(s, n)
      PROVE  IsList(s, n)' /\ \A k \in 1..n : word'[s[k]] = word[s[k]]
  <2>1. /\ n \in Nat \ {0} /\ pQHeader \in Cells /\ pQHeader # c
        /\ \A k \in 1..n : s[k] \in Cells /\ s[k] # c
    BY <1>2, <1>4, ListFacts
  <2>2. \A k \in 1..n : next'[s[k]] = next[s[k]] /\ prev'[s[k]] = prev[s[k]] /\ word'[s[k]] = word[s[k]]
    BY <2>1, <1>3
  <2>3. \A d : d \in alloc' \ held' <=> d \in alloc \ held
    BY <1>1, <1>2 DEF DbTypeOK
  <2>4. word'[pQHeader'] = word[pQHeader]
    BY <2>1, <1>1, <1>3
  <2> QED
    BY <2>2, <2>3, <2>4, <1>1, <1>4 DEF IsList
<1>5. DbTypeOK'
  <2>1. /\ next' \in [Cells -> Cells \cup {NULL}] /\ prev' \in [Cells -> Cells \cup {NULL}]
        /\ word' \in [Cells -> Values]
    BY <1>1, <1>2 DEF Forget, DbTypeOK, Values
  <2> QED
    BY <2>1, <1>1, <1>2 DEF DbTypeOK
<1>6. WordsDiffer'
  <2>1. \A d \in alloc' \ {pQHeader'} : d \in alloc \ {pQHeader} /\ word'[d] = word[d]
    BY <1>1, <1>2, <1>3 DEF DbTypeOK
  <2> QED
    BY <2>1, <1>1 DEF WordsDiffer
<1>7. \A d \in Cells \ alloc' : next'[d] = NULL /\ prev'[d] = NULL
  BY <1>1, <1>2, <1>3
<1>8. ListInv'
  <2>1. Open' => \E s, n : IsList(s, n)'
    <3>1. Open' => Open
      BY <1>1, <1>2 DEF Open
    <3> QED
      BY <1>4, <3>1 DEF ListInv
  <2> QED
    BY <2>1, <1>1, <1>5, <1>6, <1>7 DEF ListInv
<1> QED
  BY <1>4, <1>8

\* Once the header is freed no queue is left.
LEMMA FreeHeaderKeeps ==
  ASSUME ListInv, FreeHeader, pQHeader \in alloc \ held
  PROVE  ListInv' /\ ~Open'
<1>1. /\ DbTypeOK /\ WordsDiffer /\ pc' = "idle" /\ pQHeader' \in {pQHeader, NULL} /\ pQ' = pQ /\ held' = held
      /\ alloc' = alloc \ {pQHeader} /\ ret' = ret /\ asked' = asked /\ released' = released
      /\ next' = Forget(next, {pQHeader}) /\ prev' = Forget(prev, {pQHeader})
      /\ word' = Forget(word, {pQHeader})
      /\ \A d \in Cells \ alloc : next[d] = NULL /\ prev[d] = NULL
  BY DEF ListInv, FreeHeader
<1>2. pQHeader \in Cells
  BY <1>1 DEF DbTypeOK
<1>3. /\ next' \in [Cells -> Cells \cup {NULL}] /\ prev' \in [Cells -> Cells \cup {NULL}]
      /\ word' \in [Cells -> Values]
      /\ next'[pQHeader] = NULL /\ prev'[pQHeader] = NULL
      /\ \A d \in Cells \ {pQHeader} : next'[d] = next[d] /\ prev'[d] = prev[d] /\ word'[d] = word[d]
  BY <1>1, <1>2 DEF Forget, DbTypeOK, Values
<1>4. DbTypeOK'
  BY <1>1, <1>3 DEF DbTypeOK
<1>5. WordsDiffer'
  <2>1. \A d \in alloc' \ {pQHeader'} : d \in alloc \ {pQHeader} /\ word'[d] = word[d]
    BY <1>1, <1>3 DEF DbTypeOK
  <2> QED
    BY <2>1, <1>1 DEF WordsDiffer
<1>6. \A d \in Cells \ alloc' : next'[d] = NULL /\ prev'[d] = NULL
  BY <1>1, <1>3
<1>7. ~Open'
  BY <1>1 DEF Open
<1> QED
  BY <1>1, <1>4, <1>5, <1>6, <1>7 DEF ListInv

\* freeQueue and freeQueue2 begin with the list they are given.
LEMMA StartFreeKeeps ==
  ASSUME ListInv, NEW loop \in {"freeQueue", "freeQueue2"}, StartFree(loop)
  PROVE  ListInv' /\ ~Open'
<1>1. Open /\ DbTypeOK
  BY DEF StartFree, ListInv
<1>2. PICK s, n : IsList(s, n)
  BY <1>1 DEF ListInv
<1>3. CASE next[pQHeader] = NULL
  BY <1>2, <1>3, ListFacts, FreeHeaderKeeps DEF StartFree
<1>4. CASE next[pQHeader] # NULL
  <2>1. pc' = loop /\ UNCHANGED <<alloc, next, prev, word, pQHeader, pQ, held, ret, asked, released>>
    BY <1>4 DEF StartFree
  <2>2. ListInv'
    BY <2>1, <1>1, SameCells DEF DbTypeOK, Loops
  <2> QED
    BY <2>1, <2>2 DEF Open
<1> QED
  BY <1>3, <1>4

\* freeQueue3 hands the list on to freeQueue2.
LEMMA FreeQueue3Keeps ==
  ASSUME ListInv, freeQueue3
  PROVE  ListInv' /\ ~Open'
<1>1. Open /\ DbTypeOK /\ pc' \in {"crash", "freeQueue3"}
      /\ UNCHANGED <<alloc, next, prev, word, pQHeader, pQ, held, ret, asked, released>>
  BY DEF freeQueue3, ListInv
<1>2. ListInv'
  BY <1>1, SameCells DEF DbTypeOK, Loops
<1> QED
  BY <1>1, <1>2 DEF Open

\* A cell of the list is freed, with what it holds.
LEMMA FreeLoopKeeps ==
  ASSUME ListInv, freeQueueLoop
  PROVE  /\ ListInv' /\ ~Open'
         /\ \A s, n : IsList(s, n) => IF n = 1 THEN FreeHeader
                                      ELSE 1 \in 1..(n - 1) /\ TakesOut(s, n, 1)
                                           /\ pc' = pc /\ held' = held
<1>1. /\ DbTypeOK /\ pc = "freeQueue" /\ WordsDiffer
      /\ \A c \in Cells \ alloc : next[c] = NULL /\ prev[c] = NULL
  BY DEF ListInv, freeQueueLoop
<1>2. PICK s, n : IsList(s, n)
  BY <1>1 DEF ListInv
<1>3. \A t, m : IsList(t, m) => (pQ = pQHeader <=> m = 1) /\ m \in Nat \ {0} /\ pQHeader = t[1]
  BY ListFacts DEF IsList
<1>4. CASE pQ = pQHeader
  <2>1. FreeHeader
    BY <1>4 DEF freeQueueLoop
  <2> QED
    BY <1>2, <1>3, <1>4, <2>1, ListFacts, FreeHeaderKeeps
<1>5. CASE pQ # pQHeader
  <2>1. PICK c : c = next[pQHeader]
    OBVIOUS
  <2>2. /\ pQHeader' = pQHeader /\ pQ' = IF next[c] # NULL THEN pQ ELSE pQHeader
        /\ next' = Forget(NextWithout(pQHeader), {c}) /\ prev' = Forget(PrevWithout(pQHeader), {c})
        /\ word' = Forget(CountDown, {c})
        /\ alloc' = alloc \ {c} /\ held' = held /\ released' = released \cup {word[c]}
        /\ pc' = pc /\ ret' = ret /\ asked' = asked
    BY <1>5, <2>1 DEF freeQueueLoop
  <2>3. ASSUME NEW t, NEW m, IsList(t, m)
        PROVE  1 \in 1..(m - 1) /\ TakesOut(t, m, 1) /\ c = t[2]
    <3>1. 1 \in 1..(m - 1) /\ 1 + 1 = 2 /\ t[1] = pQHeader
      BY <1>3, <1>5, <2>3
    <3>2. c = t[2] /\ c # pQHeader /\ c \in Cells /\ c \in alloc \ held /\ (next[c] # NULL <=> 1 # m - 1)
      <4>1. PICK i \in 1..(m - 1) : i = 1
        BY <3>1
      <4>2. /\ t[i + 1] \in Cells /\ t[i + 1] \in alloc \ held /\ t[i + 1] # pQHeader
            /\ next[t[i]] = t[i + 1] /\ (next[t[i + 1]] # NULL <=> i # m - 1)
        BY <1>1, <2>3, UnlinkIs
      <4>3. t[i + 1] = t[2] /\ t[i] = pQHeader
        BY <3>1, <4>1
      <4>4. c = t[2]
        BY <2>1, <4>2, <4>3
      <4> QED
        BY <4>1, <4>2, <4>3, <4>4
    <3>3. \A d \in Cells :
            /\ NextWithout(pQHeader)[d] = IF d = t[1] THEN next[c] ELSE next[d]
            /\ PrevWithout(pQHeader)[d] = IF d = next[c] THEN t[1] ELSE prev[d]
            /\ CountDown[d] = IF d = pQHeader THEN word[d] - 1 ELSE word[d]
      BY <1>1, <2>3, <3>1, <3>2, UnlinkIs
    <3>4. \A d \in Cells \ {c} :
            /\ next'[d] = IF d = t[1] THEN next[c] ELSE next[d]
            /\ prev'[d] = IF d = next[c] THEN t[1] ELSE prev[d]
            /\ word'[d] = IF d = pQHeader THEN word[d] - 1 ELSE word[d]
      BY <2>2, <3>3 DEF Forget
    <3>5. alloc' \ held' = (alloc \ held) \ {c}
      BY <2>2
    <3> QED
      BY <2>2, <3>1, <3>2, <3>4, <3>5 DEF TakesOut
  <2>4. /\ 1 \in 1..(n - 1) /\ 1 + 1 = 2 /\ s[1] = pQHeader /\ c = s[2] /\ TakesOut(s, n, 1)
    BY <1>2, <1>3, <2>3
  <2>5. /\ c # pQHeader /\ c \in Cells /\ c \in alloc \ held
        /\ NextWithout(pQHeader) \in [Cells -> Cells \cup {NULL}]
        /\ PrevWithout(pQHeader) \in [Cells -> Cells \cup {NULL}]
        /\ CountDown \in [Cells -> Values]
        /\ \A d \in Cells \ alloc : NextWithout(pQHeader)[d] = next[d] /\ PrevWithout(pQHeader)[d] = prev[d]
    BY <1>1, <1>2, <2>4, UnlinkIs
  <2>6. /\ next' \in [Cells -> Cells \cup {NULL}] /\ prev' \in [Cells -> Cells \cup {NULL}]
        /\ word' \in [Cells -> Values]
    BY <2>2, <2>5 DEF Forget, Values
  <2>7. word[c] \in MhtNodes \ released /\ \A d \in alloc \ {pQHeader} : word[d] = word[c] => d = c
    BY <2>5, <1>1 DEF WordsDiffer
  <2>8. DbTypeOK'
    BY <2>2, <2>5, <2>6, <2>7, <1>1 DEF DbTypeOK
  <2>9. WordsDiffer'
    <3>1. \A d \in alloc' \ {pQHeader'} : d \in alloc \ {pQHeader} /\ d # c /\ word'[d] = word[d]
      BY <2>2, <2>4, <1>1 DEF TakesOut, DbTypeOK
    <3>2. \A d \in alloc' \ {pQHeader'} : word'[d] \in MhtNodes \ released'
      <4>1. ASSUME NEW d \in alloc' \ {pQHeader'} PROVE word[d] \in MhtNodes \ released /\ word[d] # word[c]
        BY <3>1, <2>7, <1>1 DEF WordsDiffer
      <4> QED
        BY <4>1, <3>1, <2>2
    <3>3. \A d, e \in alloc' \ {pQHeader'} : word'[d] = word'[e] => d = e
      BY <3>1, <1>1 DEF WordsDiffer
    <3> QED
      BY <3>2, <3>3 DEF WordsDiffer
  <2>10. \A d \in Cells \ alloc' : next'[d] = NULL /\ prev'[d] = NULL
    <3>1. next'[c] = NULL /\ prev'[c] = NULL
      BY <2>2, <2>5 DEF Forget
    <3>2. \A d \in Cells \ alloc' : d = c \/ (d \in Cells \ alloc /\ d # c)
      BY <2>2
    <3>3. \A d \in Cells \ {c} : next'[d] = NextWithout(pQHeader)[d] /\ prev'[d] = PrevWithout(pQHeader)[d]
      BY <2>2 DEF Forget
    <3> QED
      BY <3>1, <3>2, <3>3, <2>5, <1>1
  <2>11. \E f, l : IsList(f, l)'
    BY <1>2, <2>4, CellTaken
  <2>12. ListInv' /\ ~Open'
    BY <2>2, <2>8, <2>9, <2>10, <2>11, <1>1 DEF ListInv, Open
  <2> QED
    BY <1>3, <1>5, <2>2, <2>3, <2>12
<1> QED
  BY <1>4, <1>5

\* The same of the loop of freeQueue2, which frees the cell only if another follows.
LEMMA FreeLoop2Keeps ==
  ASSUME ListInv, freeQueue2Loop
  PROVE  ListInv' /\ ~Open'
<1>1. /\ DbTypeOK /\ pc \in {"freeQueue2", "freeQueue3"} /\ WordsDiffer
      /\ \A c \in Cells \ alloc : next[c] = NULL /\ prev[c] = NULL
  BY DEF ListInv, freeQueue2Loop
<1>2. PICK s, n : IsRest(s, n)
  BY <1>1 DEF ListInv
<1>3. /\ n \in Nat \ {0} /\ pQHeader = s[1] /\ Threads(next, s, n)
      /\ \A k \in 1..n : s[k] \in Cells /\ s[k] \in alloc /\ s[k] \notin held /\ s[k] # NULL
      /\ \A j, k \in 1..n : s[j] = s[k] => j = k
      /\ \A k \in 1..n : next[s[k]] = IF k = n THEN NULL ELSE s[k + 1]
  BY <1>2, CellsAssumption DEF IsRest, Threads
<1>4. 1 \in 1..n /\ pQHeader \in Cells /\ pQHeader \in alloc \ held
  BY <1>3
<1>5. CASE next[pQHeader] = NULL
  <2>1. FreeHeader
    BY <1>5 DEF freeQueue2Loop
  <2> QED
    BY <1>4, <2>1, FreeHeaderKeeps
<1>6. CASE next[pQHeader] # NULL
  <2>1. PICK c, e, gone : c = next[pQHeader] /\ e = next[c] /\ gone = IF e # NULL THEN {c} ELSE {}
    OBVIOUS
  <2>2. /\ next' = Forget(NextWithout(pQHeader), gone) /\ prev' = Forget(PrevWithout(pQHeader), gone)
        /\ word' = Forget(word, gone)
        /\ alloc' = alloc \ gone /\ released' = released \cup {word[x] : x \in gone}
        /\ pc' = pc /\ pQHeader' = pQHeader /\ pQ' = pQ /\ held' = held /\ ret' = ret /\ asked' = asked
    BY <1>6, <2>1 DEF freeQueue2Loop
  <2>3. n # 1 /\ 1 \in 1..(n - 1) /\ 2 \in 1..n /\ c = s[2] /\ c \in Cells /\ c # pQHeader /\ c \in alloc \ held
    <3>1. n # 1
      BY <1>3, <1>4, <1>6
    <3>2. 2 \in 1..n /\ 1 \in 1..(n - 1) /\ 1 + 1 = 2
      BY <1>3, <3>1
    <3> QED
      BY <1>3, <1>4, <2>1, <3>1, <3>2
  <2>4. e # NULL => e \in Cells /\ e \in alloc /\ e # c
    <3>1. e = IF n = 2 THEN NULL ELSE s[3]
      BY <1>3, <2>1, <2>3
    <3>2. n # 2 => 3 \in 1..n /\ 3 # 2
      BY <1>3, <2>3
    <3> QED
      BY <1>3, <2>3, <3>1, <3>2
  <2>5. /\ NextWithout(pQHeader) = [next EXCEPT ![pQHeader] = e]
        /\ PrevWithout(pQHeader) = IF e # NULL THEN [prev EXCEPT ![e] = pQHeader] ELSE prev
    BY <2>1 DEF NextWithout, PrevWithout
  <2>6. /\ NextWithout(pQHeader) \in [Cells -> Cells \cup {NULL}]
        /\ PrevWithout(pQHeader) \in [Cells -> Cells \cup {NULL}]
        /\ \A d \in Cells : NextWithout(pQHeader)[d] = IF d = pQHeader THEN e ELSE next[d]
        /\ \A d \in Cells \ alloc : NextWithout(pQHeader)[d] = next[d] /\ PrevWithout(pQHeader)[d] = prev[d]
    BY <1>1, <1>4, <2>4, <2>5 DEF DbTypeOK
  <2>7. /\ next' \in [Cells -> Cells \cup {NULL}] /\ prev' \in [Cells -> Cells \cup {NULL}]
        /\ word' \in [Cells -> Values]
        /\ \A d \in Cells \ gone : /\ next'[d] = NextWithout(pQHeader)[d]
                                   /\ prev'[d] = PrevWithout(pQHeader)[d]
                                   /\ word'[d] = word[d]
        /\ \A d \in gone : next'[d] = NULL /\ prev'[d] = NULL
    BY <1>1, <2>1, <2>2, <2>3, <2>6 DEF Forget, Values, DbTypeOK
  <2>8. \A x \in gone : x = c
    BY <2>1
  <2>9. word[c] \in MhtNodes \ released /\ \A d \in alloc \ {pQHeader} : word[d] = word[c] => d = c
    BY <1>1, <2>3 DEF WordsDiffer
  <2>10. DbTypeOK'
    BY <1>1, <2>2, <2>3, <2>7, <2>8, <2>9 DEF DbTypeOK
  <2>11. WordsDiffer'
    <3>1. \A d \in alloc' \ {pQHeader'} : d \in alloc \ {pQHeader} /\ d \notin gone /\ word'[d] = word[d]
      BY <1>1, <2>2, <2>7 DEF DbTypeOK
    <3>2. \A d \in alloc' \ {pQHeader'} : word'[d] \notin {word[x] : x \in gone}
      BY <2>8, <2>9, <3>1
    <3> QED
      BY <1>1, <2>2, <3>1, <3>2 DEF WordsDiffer
  <2>12. \A d \in Cells \ alloc' : next'[d] = NULL /\ prev'[d] = NULL
    BY <1>1, <2>2, <2>6, <2>7
  <2>13. IsRest(Without(s, n, 1), n - 1)'
    <3> DEFINE t == Without(s, n, 1)
    <3>1. \A d \in Cells \ {s[1 + 1]} : next'[d] = IF d = s[1] THEN next[s[1 + 1]] ELSE next[d]
      <4>1. 1 + 1 = 2
        OBVIOUS
      <4> QED
        BY <4>1, <1>3, <2>1, <2>3, <2>6, <2>7, <2>8
    <3>2. Threads(next', t, n - 1) /\ IsWithout(t, s, n, 1)
      BY <1>3, <2>3, <3>1, NextOfRest, WithoutFacts
    <3> HIDE DEF t
    <3>3. \A k \in 1..(n - 1) : t[k] \in alloc' \ held'
      <4>1. ASSUME NEW k \in 1..(n - 1)
            PROVE  t[k] \in alloc \ held /\ t[k] # c
        <5>1. (k \in 1..1 /\ t[k] = s[k]) \/ (k \in (1 + 1)..(n - 1) /\ t[k] = s[k + 1])
          BY <3>2 DEF IsWithout
        <5>2. k \in 1..n /\ k + 1 \in 1..n
          BY <1>3
        <5>3. t[k] # s[2]
          <6>1. 1 + 1 = 2
            OBVIOUS
          <6> QED
            BY <3>2, <6>1 DEF IsWithout
        <5> QED
          BY <1>3, <2>3, <5>1, <5>2, <5>3
      <4> QED
        BY <4>1, <2>2, <2>8
    <3>4. pQHeader' = t[1]
      BY <1>3, <2>2, <3>2 DEF IsWithout
    <3>5. IsRest(t, n - 1)'
      BY <3>2, <3>3, <3>4 DEF IsRest
    <3> QED
      BY <3>5 DEF t
  <2>14. \E f, l : IsRest(f, l)'
    BY <2>13
  <2>15. ~Open' /\ pc' # "freeQueue"
    BY <1>1, <2>2 DEF Open
  <2> QED
    BY <2>10, <2>11, <2>12, <2>14, <2>15 DEF ListInv
<1> QED
  BY <1>5, <1>6

\* No call breaks the invariant.
LEMMA DeclaredKeeps ==
  ASSUME ListInv, [Declared]_queueVars
  PROVE  ListInv'
<1>1. Open => \E s, n : IsList(s, n)
  BY DEF ListInv
<1>2. CASE initQueue
  BY <1>2, InitQueueKeeps
<1>3. CASE enqueue
  BY <1>1, <1>3, EnqueueKeeps DEF enqueue
<1>4. CASE enqueueNull \/ initQueueFreesTwice \/ UNCHANGED queueVars
  BY <1>4, SameCells DEF enqueueNull, initQueueFreesTwice, queueVars, ListInv, DbTypeOK, Loops
<1>5. ASSUME Open, NEW pos \in Cells \cup {NULL}, ReturnNull(pos) PROVE ListInv'
  <2>1. pc' = pc /\ ret' = NULL /\ asked' = pos /\ NULL \in Values
    BY <1>5 DEF ReturnNull, Values
  <2> QED
    BY <2>1, <1>5, SameCells DEF ReturnNull, Open, Loops
<1>6. CASE dequeue
  <2>1. Open
    BY <1>6 DEF dequeue
  <2>2. PICK s, n : IsList(s, n)
    BY <1>1, <2>1
  <2>3. ReturnNull(NULL) \/ (1 \in 1..(n - 1) /\ Removes(s, n, 1))
    BY <1>6, <2>2, DequeueRemoves
  <2> QED
    BY <2>1, <2>2, <2>3, <1>5, RemovalKeeps
<1>7. CASE dequeue_sub
  <2>1. Open
    BY <1>7 DEF dequeue_sub
  <2>2. PICK s, n : IsList(s, n)
    BY <1>1, <2>1
  <2>3. ReturnNull(NULL) \/ (2 \in 1..(n - 1) /\ Removes(s, n, 2))
    BY <1>7, <2>2, DequeueSubRemoves
  <2> QED
    BY <2>1, <2>2, <2>3, <1>5, RemovalKeeps
<1>8. ASSUME Open, NEW pos \in {pQHeader} \cup CellsOf(Chain), dequeue_sppos(pos) PROVE ListInv'
  <2>1. PICK s, n : IsList(s, n)
    BY <1>1, <1>8
  <2>2. pos \in Cells /\ (ReturnNull(pos) \/ \E i \in 1..(n - 1) : Removes(s, n, i))
    BY <1>8, <2>1, DequeueSpposRemoves
  <2> QED
    BY <2>1, <2>2, <1>5, <1>8, RemovalKeeps
<1>9. CASE deleteQNode
  BY <1>9, DeleteKeeps
<1>10. CASE StartFree("freeQueue") \/ StartFree("freeQueue2")
  BY <1>10, StartFreeKeeps
<1>11. CASE freeQueueLoop \/ freeQueue2Loop \/ freeQueue3
  BY <1>11, FreeLoopKeeps, FreeLoop2Keeps, FreeQueue3Keeps
<1> QED
  BY <1>2, <1>3, <1>4, <1>6, <1>7, <1>8, <1>9, <1>10, <1>11 DEF Declared, Used, Crashed

\* Before the first call there is no queue.
LEMMA ListAtStart == DbInit => ListInv
<1> SUFFICES ASSUME DbInit PROVE ListInv
  OBVIOUS
<1>1. DbTypeOK
  BY DEF DbInit, DbTypeOK, Values
<1> QED
  BY <1>1 DEF DbInit, ListInv, WordsDiffer, Open, Loops

\* The invariant holds after any sequence of the declared calls.
LEMMA ListIsKept == DeclaredSpec => []ListInv
<1>1. ListInv /\ [Declared]_queueVars => ListInv'
  BY DeclaredKeeps
<1> QED
  BY <1>1, ListAtStart, PTL DEF DeclaredSpec

\* What mht.c calls are calls dbqueue.h declares.
LEMMA UsedIsDeclared == UsedSpec => DeclaredSpec
<1>1. [Used]_queueVars => [Declared]_queueVars
  BY DEF Declared
<1> QED
  BY <1>1, PTL DEF UsedSpec, DeclaredSpec

-----------------------------------------------------------------------------
(* The calls of mht.c leave no cell behind *)

\* The cells of the list are the header and those of Chain.
LEMMA HeaderAndChain ==
  ASSUME NEW nx, NEW s, NEW n, Threads(nx, s, n)
  PROVE  {s[1]} \cup CellsOf(ChainOf(s[1], nx)) = {s[k] : k \in 1..n}
<1>1. PICK c, m : c = ChainOf(s[1], nx) /\ m = n - 1
  OBVIOUS
<1>2. n \in Nat \ {0} /\ m \in Nat /\ c = [k \in 1..m |-> s[k + 1]]
  <2>1. n \in Nat \ {0}
    BY DEF Threads
  <2>2. ChainOf(s[1], nx) = [k \in 1..(n - 1) |-> s[k + 1]]
    BY ChainFollows
  <2> QED
    BY <2>1, <2>2, <1>1
<1>3. Len(c) = m /\ \A k \in 1..m : c[k] = s[k + 1]
  BY <1>2
<1>4. /\ 1 \in 1..n /\ \A k \in 1..m : k + 1 \in 1..n
      /\ \A k \in 1..n : k = 1 \/ (k - 1 \in 1..m /\ (k - 1) + 1 = k)
  BY <1>1, <1>2
<1>5. \A d : d \in CellsOf(c) <=> \E k \in 1..m : s[k + 1] = d
  BY <1>3 DEF CellsOf
<1>6. \A d : (d = s[1] \/ \E k \in 1..m : s[k + 1] = d) <=> \E k \in 1..n : s[k] = d
  BY <1>4
<1> QED
  BY <1>1, <1>5, <1>6

\* NothingLeaks of the cells a, of which the caller holds e, the header and the pointers.
AllIn(a, e, h, nx) == a = e \cup (IF h = NULL THEN {} ELSE {h} \cup CellsOf(ChainOf(h, nx)))

\* s is a list of cells in a that the caller does not hold.
ListIn(s, n, a, e, h, nx) ==
  Threads(nx, s, n) /\ h = s[1] /\ e \subseteq a /\ \A k \in 1..n : s[k] \in a \ e

\* Of a list AllIn says that the cells the caller does not hold are those of the list.
LEMMA AllInList ==
  ASSUME NEW s, NEW n, NEW a, NEW e, NEW h, NEW nx, ListIn(s, n, a, e, h, nx)
  PROVE  AllIn(a, e, h, nx) <=> a \ e = {s[k] : k \in 1..n}
<1>1. Threads(nx, s, n) /\ h = s[1] /\ e \subseteq a /\ \A k \in 1..n : s[k] \in a \ e
  BY DEF ListIn
<1>2. h # NULL
  <2>1. n \in Nat \ {0} /\ s \in [1..n -> Cells] /\ 1 \in 1..n
    BY <1>1 DEF Threads
  <2> QED
    BY <2>1, <1>1, CellsAssumption
<1>3. {h} \cup CellsOf(ChainOf(h, nx)) = {s[k] : k \in 1..n}
  BY <1>1, HeaderAndChain
<1>4. PICK l : l = {s[k] : k \in 1..n} /\ l \subseteq a \ e
  BY <1>1
<1>5. a = e \cup l <=> a \ e = l
  BY <1>1, <1>4
<1> QED
  BY <1>2, <1>3, <1>4, <1>5 DEF AllIn

\* No cell is lost if and only if those the caller does not hold make up the list.
LEMMA NothingLeaksIf ==
  ASSUME NEW s, NEW n
  PROVE  /\ IsList(s, n) /\ held \subseteq alloc => (NothingLeaks <=> alloc \ held = {s[k] : k \in 1..n})
         /\ IsList(s, n)' /\ held' \subseteq alloc'
              => (NothingLeaks' <=> alloc' \ held' = {s[k] : k \in 1..n})
<1>1. IsList(s, n) /\ held \subseteq alloc => ListIn(s, n, alloc, held, pQHeader, next)
  BY DEF IsList, Threads, ListIn
<1>2. IsList(s, n)' /\ held' \subseteq alloc' => ListIn(s, n, alloc', held', pQHeader', next')
  BY DEF IsList, Threads, ListIn
<1>3. NothingLeaks <=> AllIn(alloc, held, pQHeader, next)
  BY ChainIsChainOf DEF NothingLeaks, AllIn
<1>4. NothingLeaks' <=> AllIn(alloc', held', pQHeader', next')
  <2>1. Chain' = ChainOf(pQHeader', next')
    BY DEF Chain, ChainOf, Follows
  <2> QED
    BY <2>1 DEF NothingLeaks, AllIn
<1> QED
  BY <1>1, <1>2, <1>3, <1>4, AllInList

\* Taking a cell out of the list does not lose it, nor another.
LEMMA TakingLeaksNothing ==
  ASSUME DbTypeOK, DbTypeOK', NothingLeaks, NEW s, NEW n, IsList(s, n), NEW i \in 1..(n - 1),
         IsList(Without(s, n, i), n - 1)', alloc' \ held' = (alloc \ held) \ {s[i + 1]}
  PROVE  NothingLeaks'
<1>1. PICK t, m : t = Without(s, n, i) /\ m = n - 1
  OBVIOUS
<1>2. /\ n \in Nat \ {0} /\ \A j, k \in 1..n : s[j] = s[k] => j = k
      /\ IsWithout(t, s, n, i)
  <2>1. Threads(next, s, n) /\ n \in Nat \ {0} /\ \A j, k \in 1..n : s[j] = s[k] => j = k
    BY DEF IsList, Threads
  <2> QED
    BY <1>1, <2>1, WithoutFacts
<1>3. alloc \ held = {s[k] : k \in 1..n}
  BY NothingLeaksIf DEF DbTypeOK
<1>4. \A d : (\E k \in 1..m : t[k] = d) <=> (\E k \in 1..n : s[k] = d) /\ d # s[i + 1]
  <2>1. /\ \A k \in 1..i : k \in 1..n /\ k \in 1..m
        /\ \A k \in (i + 1)..m : k + 1 \in 1..n /\ k \in 1..m
        /\ i + 1 \in 1..n
        /\ \A k \in 1..n : k \in 1..i \/ k = i + 1 \/ (k - 1 \in (i + 1)..m /\ (k - 1) + 1 = k)
    BY <1>1, <1>2
  <2>2. /\ \A k \in 1..i : t[k] = s[k]
        /\ \A k \in (i + 1)..m : t[k] = s[k + 1]
        /\ \A k \in 1..m : (k \in 1..i \/ k \in (i + 1)..m) /\ t[k] # s[i + 1]
    BY <1>1, <1>2 DEF IsWithout
  <2>3. ASSUME NEW k \in 1..n, s[k] # s[i + 1] PROVE \E j \in 1..m : t[j] = s[k]
    <3>1. CASE k \in 1..i
      BY <3>1, <2>1, <2>2
    <3>2. CASE k - 1 \in (i + 1)..m /\ (k - 1) + 1 = k
      BY <3>2, <2>1, <2>2
    <3> QED
      BY <2>1, <2>3, <3>1, <3>2
  <2>4. ASSUME NEW k \in 1..m PROVE t[k] # s[i + 1] /\ \E j \in 1..n : s[j] = t[k]
    BY <2>1, <2>2
  <2> QED
    BY <2>3, <2>4
<1>5. alloc' \ held' = {t[k] : k \in 1..m}
  BY <1>3, <1>4
<1>6. IsList(t, m)' /\ held' \subseteq alloc'
  BY <1>1 DEF DbTypeOK
<1> QED
  BY <1>5, <1>6, NothingLeaksIf

\* A new cell behind the last one.
LEMMA EnqueueLeaksNothing ==
  ASSUME ListInv, NothingLeaks, enqueue
  PROVE  NothingLeaks'
<1>1. /\ DbTypeOK /\ Open /\ held' = held /\ held \subseteq alloc
  BY DEF ListInv, DbTypeOK, enqueue
<1>2. PICK s, n : IsList(s, n)
  BY <1>1 DEF ListInv
<1>3. PICK m \in MhtNodes, c \in Cells :
        /\ IsList([j \in 1..(n + 1) |-> IF j = n + 1 THEN c ELSE s[j]], n + 1)'
        /\ word'[c] = m /\ \A k \in 2..n : word'[s[k]] = word[s[k]]
        /\ alloc' = alloc \cup {c}
  BY <1>2, EnqueueKeeps
<1>4. PICK t, i : t = [j \in 1..(n + 1) |-> IF j = n + 1 THEN c ELSE s[j]] /\ i = n + 1
  OBVIOUS
<1>5. IsList(t, i)'
  BY <1>3, <1>4
<1>6. alloc \ held = {s[k] : k \in 1..n}
  BY <1>1, <1>2, NothingLeaksIf
<1>7. n \in Nat \ {0} /\ t[i] = c /\ i \in 1..i /\ \A k \in 1..n : k \in 1..i /\ t[k] = s[k]
  <2>1. n \in Nat \ {0}
    BY <1>2, ListFacts
  <2>2. i \in 1..i /\ \A k \in 1..n : k \in 1..i /\ k # n + 1
    BY <2>1, <1>4
  <2> QED
    BY <2>1, <2>2, <1>4
<1>8. c \notin held
  BY <1>1, <1>5, <1>7 DEF IsList
<1>9. alloc' \ held' = {t[k] : k \in 1..i}
  <2>1. alloc' \ held' = (alloc \ held) \cup {c}
    BY <1>1, <1>3, <1>8
  <2>2. \A k \in 1..i : k = i \/ k \in 1..n
    BY <1>4, <1>7
  <2>3. \A d : (\E k \in 1..i : t[k] = d) <=> (\E k \in 1..n : s[k] = d) \/ d = c
    BY <2>2, <1>7
  <2> QED
    BY <2>1, <2>3, <1>6
<1> QED
  BY <1>1, <1>3, <1>5, <1>9, NothingLeaksIf

\* The header goes last.
LEMMA FreeHeaderLeaksNothing ==
  ASSUME DbTypeOK, NothingLeaks, NEW s, IsList(s, 1), FreeHeader, pc # "freeQueue3"
  PROVE  NothingLeaks'
<1>1. alloc \ held = {s[k] : k \in 1..1} /\ pQHeader = s[1] /\ held \subseteq alloc
  <2>1. held \subseteq alloc
    BY DEF DbTypeOK
  <2>2. alloc \ held = {s[k] : k \in 1..1}
    BY <2>1, NothingLeaksIf
  <2> QED
    BY <2>1, <2>2 DEF IsList
<1>2. alloc \ held = {pQHeader}
  <2>1. 1..1 = {1}
    OBVIOUS
  <2> QED
    BY <2>1, <1>1
<1>3. alloc' = alloc \ {pQHeader} /\ held' = held /\ pQHeader' = NULL
  BY DEF FreeHeader
<1> QED
  BY <1>1, <1>2, <1>3 DEF NothingLeaks

\* No call of mht.c breaks the stronger invariant.
LEMMA UsedKeeps ==
  ASSUME UsedInv, [Used]_queueVars
  PROVE  UsedInv'
<1>1. /\ ListInv /\ DbTypeOK /\ NothingLeaks /\ held \subseteq alloc
      /\ pc \in {"idle", "freeQueue", "crash"} /\ pQHeader \in alloc \cup {NULL}
  BY DEF UsedInv, ListInv, DbTypeOK
<1>2. ListInv' /\ DbTypeOK'
  <2>1. [Declared]_queueVars
    BY DEF Declared
  <2> QED
    BY <2>1, <1>1, DeclaredKeeps DEF ListInv
<1>3. Open \/ pc = "freeQueue" => \E s, n : IsList(s, n)
  BY <1>1 DEF ListInv
<1>4. ASSUME UNCHANGED <<alloc, next, pQHeader, held>>, pc' \in {"idle", "freeQueue", "crash"}
      PROVE  UsedInv'
  <2>1. Chain' = Chain
    BY <1>4 DEF Chain
  <2> QED
    BY <2>1, <1>1, <1>2, <1>4 DEF UsedInv, NothingLeaks
<1>5. CASE pQHeader = NULL /\ initQueue
  <2>1. NothingLeaks'
    BY <1>1, <1>5, InitQueueKeeps
  <2>2. pc' = pc /\ pQHeader' \in alloc' \cup {NULL}
    BY <1>5 DEF initQueue
  <2> QED
    BY <1>1, <1>2, <2>1, <2>2 DEF UsedInv
<1>6. CASE enqueue
  <2>1. NothingLeaks'
    BY <1>1, <1>6, EnqueueLeaksNothing
  <2>2. pc' = pc /\ pQHeader' \in alloc' \cup {NULL}
    BY <1>1, <1>6 DEF enqueue
  <2> QED
    BY <1>1, <1>2, <2>1, <2>2 DEF UsedInv
<1>7. CASE enqueueNull \/ UNCHANGED queueVars
  BY <1>1, <1>4, <1>7 DEF enqueueNull, queueVars
<1>8. CASE dequeue
  <2>1. Open
    BY <1>8 DEF dequeue
  <2>2. PICK s, n : IsList(s, n)
    BY <1>3, <2>1
  <2>3. CASE ReturnNull(NULL)
    BY <1>1, <1>4, <2>3 DEF ReturnNull
  <2>4. CASE 1 \in 1..(n - 1) /\ Removes(s, n, 1)
    <3>1. PICK i \in 1..(n - 1) : Removes(s, n, i)
      BY <2>4
    <3>2. alloc' = alloc /\ held' = held \cup {s[i + 1]} /\ pc' = pc /\ pQHeader' = pQHeader
      BY <3>1 DEF Removes, Return
    <3>3. alloc' \ held' = (alloc \ held) \ {s[i + 1]}
      BY <3>2
    <3>4. IsList(Without(s, n, i), n - 1)'
      BY <1>1, <2>2, <3>1, RemovalTakesOut
    <3>5. NothingLeaks'
      BY <1>1, <1>2, <2>2, <3>3, <3>4, TakingLeaksNothing
    <3> QED
      BY <1>1, <1>2, <3>2, <3>5 DEF UsedInv
  <2> QED
    BY <1>1, <1>8, <2>2, <2>3, <2>4, DequeueRemoves
<1>9. CASE deleteQNode
  <2>1. /\ pc = "idle" /\ pc' = pc /\ pQHeader' = pQHeader
        /\ alloc' \ held' = alloc \ held
    BY <1>9 DEF deleteQNode
  <2>2. CASE pQHeader = NULL
    <3>1. alloc' = held'
      BY <1>1, <1>2, <2>1, <2>2 DEF NothingLeaks, DbTypeOK
    <3> QED
      BY <1>1, <1>2, <2>1, <2>2, <3>1 DEF UsedInv, NothingLeaks
  <2>3. CASE pQHeader # NULL
    <3>1. PICK s, n : IsList(s, n)
      BY <1>1, <1>3, <2>1, <2>3 DEF Open
    <3>2. IsList(s, n)' /\ held' \subseteq alloc'
      BY <1>1, <1>2, <1>9, <3>1, DeleteKeeps DEF DbTypeOK
    <3>3. NothingLeaks'
      BY <1>1, <2>1, <3>1, <3>2, NothingLeaksIf
    <3>4. pQHeader \in alloc \ held
      BY <3>1, ListFacts
    <3> QED
      BY <1>2, <2>1, <3>3, <3>4 DEF UsedInv
  <2> QED
    BY <2>2, <2>3
<1>10. ASSUME FreeHeader, pc # "freeQueue3", NEW s, IsList(s, 1) PROVE UsedInv'
  <2>1. NothingLeaks'
    BY <1>1, <1>10, FreeHeaderLeaksNothing
  <2> QED
    BY <1>2, <1>10, <2>1 DEF UsedInv, FreeHeader
<1>11. CASE StartFree("freeQueue")
  <2>1. Open
    BY <1>11 DEF StartFree
  <2>2. CASE next[pQHeader] = NULL
    <3>1. PICK s, n : IsList(s, n)
      BY <1>3, <2>1
    <3>2. n = 1
      <4>1. n \in Nat \ {0} /\ \A k \in 1..n : s[k] # NULL
        BY <3>1, ListFacts
      <4>2. n # 1 => 1 \in 1..n /\ 1 + 1 \in 1..n /\ next[pQHeader] = s[1 + 1]
        BY <3>1, <4>1 DEF IsList
      <4> QED
        BY <2>2, <4>1, <4>2
    <3> QED
      BY <1>10, <1>11, <2>1, <2>2, <3>1, <3>2 DEF StartFree, Open
  <2>3. CASE next[pQHeader] # NULL
    BY <1>4, <1>11, <2>3 DEF StartFree
  <2> QED
    BY <2>2, <2>3
<1>12. CASE freeQueueLoop
  <2>1. pc = "freeQueue"
    BY <1>12 DEF freeQueueLoop
  <2>2. PICK s, n : IsList(s, n)
    BY <1>3, <2>1
  <2>3. IF n = 1 THEN FreeHeader
        ELSE 1 \in 1..(n - 1) /\ TakesOut(s, n, 1) /\ pc' = pc /\ held' = held
    BY <1>1, <1>12, <2>2, FreeLoopKeeps
  <2>4. CASE n = 1
    BY <1>10, <2>1, <2>2, <2>3, <2>4
  <2>5. CASE n # 1
    <3>1. PICK i \in 1..(n - 1) : TakesOut(s, n, i)
      BY <2>3, <2>5
    <3>2. IsList(Without(s, n, i), n - 1)'
      BY <2>2, <3>1, CellTaken
    <3>3. NothingLeaks'
      BY <1>1, <1>2, <2>2, <3>1, <3>2, TakingLeaksNothing DEF TakesOut
    <3>4. PICK t, m : t = Without(s, n, i) /\ m = n - 1
      OBVIOUS
    <3>5. pQHeader' \in alloc'
      <4>1. m \in Nat \ {0} /\ IsList(t, m)'
        BY <3>2, <3>4 DEF IsList
      <4>2. 1 \in 1..m
        BY <4>1
      <4> QED
        BY <4>1, <4>2 DEF IsList
    <3> QED
      BY <1>2, <2>1, <2>3, <2>5, <3>3, <3>5 DEF UsedInv
  <2> QED
    BY <2>4, <2>5
<1> QED
  BY <1>5, <1>6, <1>7, <1>8, <1>9, <1>11, <1>12 DEF Used, Crashed

\* It holds after any sequence of them.
LEMMA UsedIsKept == UsedSpec => []UsedInv
<1>1. DbInit => UsedInv
  BY ListAtStart DEF DbInit, UsedInv, NothingLeaks
<1>2. UsedInv /\ [Used]_queueVars => UsedInv'
  BY UsedKeeps
<1> QED
  BY <1>1, <1>2, PTL DEF UsedSpec

-----------------------------------------------------------------------------
(* What the list is to its caller *)

\* The header and Chain are the list, so what IsList says of it is WellLinked.
LEMMA ListIsLinked == ListInv => WellLinked
<1> SUFFICES ASSUME ListInv, Open \/ pc = "freeQueue" PROVE WellLinked
  BY DEF WellLinked
<1>1. PICK s, n : IsList(s, n)
  BY DEF ListInv, Open
<1>2. /\ n \in Nat \ {0} /\ \A k \in 1..n : s[k] \in alloc \ held
      /\ pQHeader = s[1] /\ pQ = s[n] /\ word[pQHeader] = n - 1
      /\ \A k \in 1..n : prev[s[k]] = IF k = 1 THEN NULL ELSE s[k - 1]
  BY <1>1 DEF IsList
<1>3. PICK cell : cell = <<pQHeader>> \o Chain
  OBVIOUS
<1>4. Len(Chain) = n - 1 /\ \A k \in 1..(n - 1) : Chain[k] = s[k + 1]
  BY <1>1, ChainOfList
<1>5. Len(cell) = n /\ \A k \in 1..n : cell[k] = s[k]
  <2>1. Chain \in Seq(Cells)
    <3>1. Chain = [k \in 1..(n - 1) |-> s[k + 1]]
      BY <1>1, ChainOfList
    <3>2. \A k \in 1..(n - 1) : s[k + 1] \in Cells
      <4>1. \A k \in 1..(n - 1) : k + 1 \in 1..n
        BY <1>2
      <4> QED
        BY <4>1, <1>1 DEF IsList
    <3>3. PICK m : m = n - 1 /\ m \in Nat
      BY <1>2
    <3> QED
      BY <3>1, <3>2, <3>3
  <2>2. <<pQHeader>> \in Seq(Cells) /\ Len(<<pQHeader>>) = 1
    BY <1>1, <1>2 DEF IsList
  <2>3. Len(cell) = n
    BY <2>1, <2>2, <1>2, <1>3, <1>4
  <2>4. ASSUME NEW k \in 1..n PROVE cell[k] = s[k]
    <3>1. CASE k = 1
      BY <3>1, <2>1, <2>2, <1>2, <1>3, <1>4
    <3>2. CASE k # 1
      <4>1. k - 1 \in 1..(n - 1) /\ (k - 1) + 1 = k
        BY <3>2, <1>2
      <4>2. cell[k] = Chain[k - 1]
        BY <4>1, <3>2, <2>1, <2>2, <1>2, <1>3, <1>4
      <4> QED
        BY <4>1, <4>2, <1>4
    <3> QED
      BY <3>1, <3>2
  <2> QED
    BY <2>3, <2>4
<1>6. pQ = cell[Len(cell)] /\ prev[pQHeader] = NULL
  BY <1>2, <1>5
<1>7. \A k \in 2..Len(cell) : prev[cell[k]] = cell[k - 1]
  <2>1. ASSUME NEW k \in 2..n PROVE prev[cell[k]] = cell[k - 1]
    <3>1. k \in 1..n /\ k - 1 \in 1..n /\ k # 1
      BY <1>2
    <3> QED
      BY <3>1, <1>2, <1>5
  <2> QED
    BY <2>1, <1>5
<1>8. CellsOf(cell) \subseteq alloc \ held
  BY <1>2, <1>5 DEF CellsOf
<1>9. word[pQHeader] = Len(Chain)
  BY <1>2, <1>4
<1> QED
  BY <1>3, <1>6, <1>7, <1>8, <1>9 DEF WellLinked

(* The search from the tail *)

\* A set of positions that is not empty has a greatest one.
LEMMA Greatest ==
  ASSUME NEW n \in Nat, NEW at \in SUBSET (1..n), at # {}
  PROVE  \E p \in at : \A j \in at : j <= p
<1> DEFINE T == {k \in 0..n : \/ \A j \in at : j > k
                              \/ \E p \in at : \A j \in at : j <= k => j <= p}
<1>1. 0 \in T
  <2>1. \A j \in at : j \in 1..n /\ j > 0
    OBVIOUS
  <2> QED
    BY <2>1
<1>2. ASSUME NEW k \in 0..(n - 1), k \in T PROVE k + 1 \in T
  <2>1. CASE k + 1 \in at
    <3>1. \A j \in at : j <= k + 1 => j <= k + 1
      OBVIOUS
    <3> QED
      BY <2>1, <3>1
  <2>2. CASE k + 1 \notin at
    <3>1. \A j \in at : j <= k + 1 <=> j <= k
      BY <2>2
    <3> QED
      BY <1>2, <3>1
  <2> QED
    BY <2>1, <2>2
<1>3. n \in T
  <2> HIDE DEF T
  <2>1. \A k \in 0..n : k \in T
    BY <1>1, <1>2, UpTo
  <2> QED
    BY <2>1
<1>4. \A j \in at : j \in 1..n /\ j <= n /\ ~(j > n)
  OBVIOUS
<1>5. PICK j : j \in at
  OBVIOUS
<1>6. \E p \in at : \A k \in at : k <= n => k <= p
  BY <1>3, <1>4, <1>5
<1> QED
  BY <1>4, <1>6

\* The walk of search_node_by_level, for m iterations.
Walks(f, m, level) ==
  f = [k \in 0..m |-> IF k = 0 THEN pQ ELSE IF EndsAt(f[k - 1], level) THEN f[k - 1] ELSE prev[f[k - 1]]]

\* It stops at s[j], the last cell of the level or the header, and stays there.
LEMMA WalkEnds ==
  ASSUME NEW s, NEW n, IsList(s, n), NEW level, NEW j \in 1..n,
         j = 1 \/ m_level[word[s[j]]] = level,
         \A k \in (j + 1)..n : m_level[word[s[k]]] # level
  PROVE  search_node_by_level(level) = IF j = 1 THEN NULL ELSE s[j]
<1>1. PICK m : m = Cardinality(Cells) /\ m \in Nat /\ n <= m /\ n \in Nat \ {0}
  BY ListFacts
<1>2. /\ s[1] = pQHeader /\ s[n] = pQ /\ \A k \in 1..n : s[k] # NULL
      /\ \A k \in 2..n : s[k] # pQHeader /\ prev[s[k]] = s[k - 1]
  <2>1. \A k \in 2..n : k \in 1..n /\ k # 1
    BY <1>1
  <2>2. s[1] = pQHeader /\ s[n] = pQ /\ \A k \in 1..n : prev[s[k]] = IF k = 1 THEN NULL ELSE s[k - 1]
    BY DEF IsList
  <2>3. /\ \A k \in 1..n : s[k] # NULL
        /\ \A k \in 2..n : s[k] # pQHeader
    BY ListFacts
  <2> QED
    BY <2>1, <2>2, <2>3
<1>3. PICK f : f = [k \in 0..m |-> IF k <= n - j THEN s[n - k] ELSE s[j]]
  OBVIOUS
<1>4. \A k \in 0..m : f[k] = IF k = 0 THEN pQ ELSE IF EndsAt(f[k - 1], level) THEN f[k - 1] ELSE prev[f[k - 1]]
  <2> SUFFICES ASSUME NEW k \in 0..m
               PROVE  f[k] = IF k = 0 THEN pQ ELSE IF EndsAt(f[k - 1], level) THEN f[k - 1] ELSE prev[f[k - 1]]
    OBVIOUS
  <2>1. CASE k = 0
    <3>1. 0 <= n - j /\ n - 0 = n /\ 0 \in 0..m
      BY <1>1
    <3> QED
      BY <3>1, <2>1, <1>2, <1>3
  <2>2. CASE k # 0 /\ k <= n - j
    <3>1. PICK l : l = n - k + 1
      OBVIOUS
    <3>2. l \in (j + 1)..n /\ l \in 2..n /\ n - (k - 1) = l /\ l - 1 = n - k /\ k - 1 \in 0..m /\ k - 1 <= n - j
      BY <2>2, <3>1, <1>1
    <3>3. f[k - 1] = s[l] /\ f[k] = s[l - 1]
      BY <2>2, <3>2, <1>3
    <3>4. ~EndsAt(s[l], level)
      BY <3>2, <1>2 DEF EndsAt
    <3> QED
      BY <2>2, <3>2, <3>3, <3>4, <1>2
  <2>3. CASE k > n - j
    <3>1. k - 1 \in 0..m /\ k # 0 /\ k - 1 >= n - j /\ n - (n - j) = j
      BY <2>3, <1>1
    <3>2. f[k - 1] = s[j] /\ f[k] = s[j]
      <4>1. CASE k - 1 = n - j
        BY <4>1, <3>1, <2>3, <1>1, <1>3
      <4>2. CASE k - 1 # n - j
        <5>1. ~(k - 1 <= n - j) /\ ~(k <= n - j)
          BY <4>2, <3>1, <2>3, <1>1
        <5> QED
          BY <5>1, <3>1, <1>3
      <4> QED
        BY <4>1, <4>2
    <3>3. EndsAt(s[j], level)
      BY <1>2 DEF EndsAt
    <3> QED
      BY <3>1, <3>2, <3>3
  <2> QED
    BY <2>1, <2>2, <2>3, <1>1
<1>5. Walks(f, m, level)
  BY <1>3, <1>4 DEF Walks
<1>6. PICK g : g = CHOOSE h : Walks(h, m, level)
  OBVIOUS
<1>7. Walks(g, m, level)
  BY <1>5, <1>6
<1>8. \A k \in 0..m : g[k] = f[k]
  <2> DEFINE T == {k \in 0..m : g[k] = f[k]}
  <2>1. 0 \in T
    BY <1>1, <1>4, <1>7 DEF Walks
  <2>2. ASSUME NEW k \in 0..(m - 1), k \in T PROVE k + 1 \in T
    <3>1. k + 1 \in 0..m /\ k + 1 # 0 /\ (k + 1) - 1 = k
      BY <1>1
    <3>2. g[k + 1] = IF EndsAt(g[k], level) THEN g[k] ELSE prev[g[k]]
      BY <3>1, <1>7 DEF Walks
    <3>3. f[k + 1] = IF EndsAt(f[k], level) THEN f[k] ELSE prev[f[k]]
      BY <3>1, <1>4
    <3> QED
      BY <3>1, <3>2, <3>3, <2>2
  <2> HIDE DEF T
  <2>3. \A k \in 0..m : k \in T
    BY <1>1, <2>1, <2>2, UpTo
  <2> QED
    BY <2>3 DEF T
<1>9. g[m] = s[j]
  <2>1. m \in 0..m /\ n - j <= m /\ (m <= n - j => n - m = j)
    BY <1>1
  <2> QED
    BY <2>1, <1>3, <1>8
<1>10. search_node_by_level(level) = IF g[m] = pQHeader THEN NULL ELSE g[m]
  BY <1>1, <1>6 DEF search_node_by_level, Walks
<1>11. j # 1 => s[j] # pQHeader
  BY <1>1, <1>2
<1> QED
  BY <1>2, <1>9, <1>10, <1>11

\* Where the walk ends is the last cell of the level.
LEMMA SearchInList == ListInv => SearchFindsLast
<1> SUFFICES ASSUME ListInv, Open, NEW level
             PROVE  LET at == {k \in 1..Len(Chain) : m_level[word[Chain[k]]] = level}
                    IN  IF at = {} THEN search_node_by_level(level) = NULL
                        ELSE search_node_by_level(level) = Chain[CHOOSE k \in at : \A j \in at : j <= k]
  BY DEF SearchFindsLast
<1>1. PICK s, n : IsList(s, n)
  BY DEF ListInv, Open
<1>2. DbTypeOK /\ n \in Nat \ {0}
  BY <1>1 DEF ListInv, IsList
<1>3. Len(Chain) = n - 1 /\ \A k \in 1..(n - 1) : Chain[k] = s[k + 1]
  BY <1>1, ChainOfList
<1>4. PICK at : at = {k \in 1..(n - 1) : m_level[word[s[k + 1]]] = level}
  OBVIOUS
<1>5. at = {k \in 1..Len(Chain) : m_level[word[Chain[k]]] = level}
  BY <1>3, <1>4
<1>6. CASE at = {}
  <2>1. \A k \in 2..n : m_level[word[s[k]]] # level
    <3>1. \A k \in 2..n : k - 1 \in 1..(n - 1) /\ (k - 1) + 1 = k
      BY <1>2
    <3> QED
      BY <3>1, <1>4, <1>6
  <2>2. 1 \in 1..n /\ (1 + 1)..n = 2..n
    BY <1>2
  <2>3. search_node_by_level(level) = NULL
    BY <1>1, <1>2, <2>1, <2>2, WalkEnds
  <2> QED
    BY <1>5, <1>6, <2>3
<1>7. CASE at # {}
  <2>1. PICK p \in at : \A j \in at : j <= p
    <3>1. n - 1 \in Nat /\ at \in SUBSET (1..(n - 1))
      BY <1>2, <1>4
    <3> QED
      BY <3>1, <1>7, Greatest
  <2>2. (CHOOSE k \in at : \A j \in at : j <= k) = p
    <3>1. \A k \in at : k \in Int
      BY <1>4
    <3>2. \A k \in at : (\A j \in at : j <= k) => k = p
      BY <3>1, <2>1
    <3> QED
      BY <3>2, <2>1
  <2>3. p + 1 \in 1..n /\ p + 1 # 1 /\ p \in 1..(n - 1) /\ m_level[word[s[p + 1]]] = level
    BY <1>2, <1>4
  <2>4. \A k \in (p + 2)..n : m_level[word[s[k]]] # level
    <3>1. \A k \in (p + 2)..n : k - 1 \in 1..(n - 1) /\ (k - 1) + 1 = k /\ ~(k - 1 <= p)
      BY <1>2, <2>3
    <3> QED
      BY <3>1, <1>4, <2>1
  <2>5. search_node_by_level(level) = s[p + 1]
    <3>1. PICK q : q = p + 1 /\ q \in 1..n /\ q # 1 /\ (q + 1)..n = (p + 2)..n
      BY <2>3
    <3>2. search_node_by_level(level) = IF q = 1 THEN NULL ELSE s[q]
      BY <3>1, <1>1, <1>2, <2>3, <2>4, WalkEnds
    <3> QED
      BY <3>1, <3>2
  <2>6. Chain[p] = s[p + 1]
    BY <1>3, <2>3
  <2> QED
    BY <1>5, <1>7, <2>2, <2>5, <2>6
<1> QED
  BY <1>6, <1>7

-----------------------------------------------------------------------------
(* The theorems, first of all calls dbqueue.h declares *)

\* After any sequence of calls every pointer has its type and every count its bound.
THEOREM QueueTypes == DeclaredSpec => []DbTypeOK
<1>1. ListInv => DbTypeOK
  BY DEF ListInv
<1> QED
  BY <1>1, ListIsKept, PTL

\* In a memory of any size and after any sequence of calls - removals from the front,
\* the middle and the end, and a second initQueue, which leaves cells behind - the cells
\* are doubly linked from the header to pQ, allocated, and counted by the header.
THEOREM QueueIsLinked == DeclaredSpec => []WellLinked
BY ListIsLinked, ListIsKept, PTL

\* After any sequence of calls the search from the tail finds the last cell of a level,
\* and NULL if there is none.
THEOREM SearchIsRight == DeclaredSpec => []SearchFindsLast
BY SearchInList, ListIsKept, PTL

\* Neither freeQueue nor freeQueue2 ever releases an MHT node that some cell still
\* points to, nor one twice.
THEOREM ReleasesAreRight == DeclaredSpec => []ReleasedAreGone
<1>1. ListInv => ReleasedAreGone
  BY DEF ListInv, WordsDiffer, ReleasedAreGone
<1> QED
  BY <1>1, ListIsKept, PTL

\* All this holds of the calls mht.c makes, which are some of those.
COROLLARY UsedIsSafe == UsedSpec => [](DbTypeOK /\ WellLinked /\ SearchFindsLast /\ ReleasedAreGone)
BY UsedIsDeclared, QueueTypes, QueueIsLinked, SearchIsRight, ReleasesAreRight, PTL

\* No call of mht.c loses a cell: every cell allocated is in the queue or with the
\* caller.  (Of the calls dbqueue.h declares, a second initQueue and freeQueue2 lose some.)
THEOREM NoCellIsLost == UsedSpec => []NothingLeaks
<1>1. UsedInv => NothingLeaks
  BY DEF UsedInv
<1> QED
  BY <1>1, UsedIsKept, PTL

-----------------------------------------------------------------------------
(* The list implements the sequence of FifoQueue *)

\* What the first n - 1 cells behind the header point to.
Elements(w, s, n) == [k \in 1..(n - 1) |-> w[s[k + 1]]]

\* They are a sequence of MHT nodes.
LEMMA ElementsAreSeq ==
  ASSUME NEW n \in Nat \ {0}, NEW s, NEW w, \A k \in 2..n : w[s[k]] \in MhtNodes
  PROVE  /\ Elements(w, s, n) \in Seq(MhtNodes) /\ Len(Elements(w, s, n)) = n - 1
         /\ \A k \in 1..(n - 1) : Elements(w, s, n)[k] = w[s[k + 1]]
<1>1. PICK m : m = n - 1 /\ m \in Nat
  OBVIOUS
<1>2. \A k \in 1..m : w[s[k + 1]] \in MhtNodes
  <2>1. \A k \in 1..m : k + 1 \in 2..n
    BY <1>1
  <2> QED
    BY <2>1
<1>3. Elements(w, s, n) = [k \in 1..m |-> w[s[k + 1]]]
  BY <1>1 DEF Elements
<1> QED
  BY <1>1, <1>2, <1>3

\* What a chain that threads s holds.
LEMMA ContentsOfChain ==
  ASSUME NEW nx, NEW s, NEW n, NEW w, Threads(nx, s, n)
  PROVE  [k \in 1..Len(ChainOf(s[1], nx)) |-> w[ChainOf(s[1], nx)[k]]] = Elements(w, s, n)
<1>1. PICK c : c = ChainOf(s[1], nx)
  OBVIOUS
<1>2. c = [k \in 1..(n - 1) |-> s[k + 1]]
  BY <1>1, ChainFollows
<1>3. PICK m : m = n - 1 /\ m \in Nat
  BY DEF Threads
<1>4. c = [k \in 1..m |-> s[k + 1]]
  BY <1>2, <1>3
<1>5. Len(c) = m /\ \A k \in 1..m : c[k] = s[k + 1]
  BY <1>3, <1>4
<1>6. [k \in 1..Len(c) |-> w[c[k]]] = [k \in 1..m |-> w[s[k + 1]]]
  BY <1>5
<1> QED
  BY <1>1, <1>3, <1>6 DEF Elements

\* The contents of an open list, before and after a step.
LEMMA ContentsOfList ==
  ASSUME NEW s, NEW n
  PROVE  /\ IsList(s, n) /\ Open => Contents = Elements(word, s, n)
         /\ IsList(s, n)' /\ Open' => Contents' = Elements(word', s, n)
<1>1. ASSUME IsList(s, n), Open PROVE Contents = Elements(word, s, n)
  <2>1. Threads(next, s, n) /\ pQHeader = s[1]
    BY <1>1 DEF IsList, Threads
  <2>2. [k \in 1..Len(ChainOf(s[1], next)) |-> word[ChainOf(s[1], next)[k]]] = Elements(word, s, n)
    BY <2>1, ContentsOfChain
  <2>3. Chain = ChainOf(s[1], next)
    BY <2>1, ChainIsChainOf
  <2> QED
    BY <2>2, <2>3, <1>1 DEF Contents
<1>2. ASSUME IsList(s, n)', Open' PROVE Contents' = Elements(word', s, n)
  <2>1. Threads(next', s, n) /\ pQHeader' = s[1]
    BY <1>2 DEF IsList, Threads
  <2>2. [k \in 1..Len(ChainOf(s[1], next')) |-> word'[ChainOf(s[1], next')[k]]] = Elements(word', s, n)
    BY <2>1, ContentsOfChain
  <2>3. Chain' = ChainOf(s[1], next')
    <3>1. Chain' = ChainOf(pQHeader', next')
      BY DEF Chain, ChainOf, Follows
    <3> QED
      BY <2>1, <3>1
  <2> QED
    BY <2>2, <2>3, <1>2 DEF Contents
<1> QED
  BY <1>1, <1>2

\* An open list and the MHT nodes its cells point to.
LEMMA OpenList ==
  ASSUME ListInv, Open
  PROVE  \E s, n : /\ IsList(s, n) /\ n \in Nat \ {0}
                   /\ \A k \in 2..n : word[s[k]] \in MhtNodes
                   /\ Contents = Elements(word, s, n)
<1>1. PICK s, n : IsList(s, n)
  BY DEF ListInv, Open
<1>2. n \in Nat \ {0} /\ \A k \in 1..n : s[k] \in alloc
  BY <1>1, ListFacts
<1>3. \A k \in 2..n : s[k] # pQHeader
  BY <1>1, ListFacts
<1>4. \A k \in 2..n : word[s[k]] \in MhtNodes
  <2>1. \A k \in 2..n : k \in 1..n
    BY <1>2
  <2> QED
    BY <2>1, <1>2, <1>3 DEF ListInv, WordsDiffer
<1>5. Contents = Elements(word, s, n)
  BY <1>1, ContentsOfList
<1> QED
  BY <1>1, <1>2, <1>4, <1>5

\* enqueue appends an MHT node to the sequence.
LEMMA EnqueuePuts ==
  ASSUME ListInv, enqueue
  PROVE  Open /\ Open' /\ ret' = ret /\ \E m \in MhtNodes : Contents' = Append(Contents, m)
<1>1. Open /\ Open' /\ ret' = ret
  <2>1. Open /\ pc' = pc /\ pQHeader' = pQHeader /\ ret' = ret /\ alloc \subseteq alloc'
    BY DEF enqueue
  <2> QED
    BY <2>1 DEF Open
<1>2. PICK s, n : /\ IsList(s, n) /\ n \in Nat \ {0}
                  /\ \A k \in 2..n : word[s[k]] \in MhtNodes
                  /\ Contents = Elements(word, s, n)
  BY <1>1, OpenList
<1>3. PICK m \in MhtNodes, c \in Cells :
        /\ IsList([j \in 1..(n + 1) |-> IF j = n + 1 THEN c ELSE s[j]], n + 1)'
        /\ word'[c] = m /\ \A k \in 2..n : word'[s[k]] = word[s[k]]
        /\ alloc' = alloc \cup {c}
  BY <1>2, EnqueueKeeps
<1>4. PICK t : t = [j \in 1..(n + 1) |-> IF j = n + 1 THEN c ELSE s[j]]
  OBVIOUS
<1>5. PICK i : i = n + 1 /\ i \in Nat \ {0}
  BY <1>2
<1>6. Contents' = Elements(word', t, i)
  <2>1. IsList(t, i)'
    BY <1>3, <1>4, <1>5
  <2> QED
    BY <2>1, <1>1, ContentsOfList
<1>7. \A k \in 2..i : word'[t[k]] = IF k = n + 1 THEN m ELSE word[s[k]]
  BY <1>2, <1>3, <1>4, <1>5
<1>8. \A k \in 2..i : word'[t[k]] \in MhtNodes
  BY <1>2, <1>5, <1>7
<1>9. /\ Elements(word', t, i) \in Seq(MhtNodes) /\ Len(Elements(word', t, i)) = i - 1
      /\ \A k \in 1..(i - 1) : Elements(word', t, i)[k] = word'[t[k + 1]]
  BY <1>5, <1>8, ElementsAreSeq
<1>10. /\ Elements(word, s, n) \in Seq(MhtNodes) /\ Len(Elements(word, s, n)) = n - 1
       /\ \A k \in 1..(n - 1) : Elements(word, s, n)[k] = word[s[k + 1]]
  BY <1>2, ElementsAreSeq
<1>11. PICK q : q = Contents /\ q \in Seq(MhtNodes) /\ Len(q) = n - 1
                /\ \A k \in 1..(n - 1) : q[k] = word[s[k + 1]]
  BY <1>2, <1>10
<1>12. PICK r : r = Contents' /\ r \in Seq(MhtNodes) /\ Len(r) = n
                /\ \A k \in 1..n : r[k] = word'[t[k + 1]]
  <2>1. i - 1 = n
    BY <1>2, <1>5
  <2>2. PICK r : r = Elements(word', t, i)
    OBVIOUS
  <2>3. r \in Seq(MhtNodes) /\ Len(r) = n /\ \A k \in 1..n : r[k] = word'[t[k + 1]]
    BY <1>9, <2>1, <2>2
  <2> QED
    BY <1>6, <2>2, <2>3
<1>13. /\ Append(q, m) \in Seq(MhtNodes) /\ Len(Append(q, m)) = n
       /\ \A k \in 1..(n - 1) : Append(q, m)[k] = q[k]
       /\ Append(q, m)[n] = m
  BY <1>2, <1>11, AppendProperties
<1>14. \A k \in 1..n : r[k] = Append(q, m)[k]
  <2>1. \A k \in 1..n : k + 1 \in 2..i /\ (k + 1 = n + 1 <=> k = n) /\ (k # n => k \in 1..(n - 1))
    BY <1>2, <1>5
  <2> QED
    BY <2>1, <1>7, <1>11, <1>12, <1>13
<1>15. r = Append(q, m)
  BY <1>12, <1>13, <1>14, SeqEqual
<1> QED
  BY <1>1, <1>11, <1>12, <1>15

\* A sequence without its element at i.
Others(q, i) == SubSeq(q, 1, i - 1) \o SubSeq(q, i + 1, Len(q))

\* It has one element less, and the order of the others.
LEMMA OthersAre ==
  ASSUME NEW S, NEW q \in Seq(S), NEW i \in 1..Len(q)
  PROVE  /\ Others(q, i) \in Seq(S) /\ Len(Others(q, i)) = Len(q) - 1
         /\ \A k \in 1..(Len(q) - 1) : Others(q, i)[k] = IF k < i THEN q[k] ELSE q[k + 1]
<1>1. PICK m : m = Len(q) /\ m \in Nat /\ i \in 1..m
  OBVIOUS
<1>0. PICK u : u = Others(q, i)
  OBVIOUS
<1>2. PICK f, b : f = SubSeq(q, 1, i - 1) /\ b = SubSeq(q, i + 1, m)
  OBVIOUS
<1>3. f \in Seq(S) /\ Len(f) = i - 1 /\ \A k \in 1..(i - 1) : f[k] = q[k]
  <2>1. i - 1 \in Int /\ 1 \in Int /\ \A k \in 1..(i - 1) : q[k] \in S
    BY <1>1
  <2>2. /\ f \in Seq(S) /\ Len(f) = (IF 1 <= i - 1 THEN (i - 1) - 1 + 1 ELSE 0)
        /\ \A k \in 1..((i - 1) - 1 + 1) : f[k] = q[1 + k - 1]
    BY <1>2, <2>1, SubSeqProperties
  <2>3. /\ (IF 1 <= i - 1 THEN (i - 1) - 1 + 1 ELSE 0) = i - 1 /\ (i - 1) - 1 + 1 = i - 1
        /\ \A k \in 1..(i - 1) : 1 + k - 1 = k
    BY <1>1
  <2> QED
    BY <2>2, <2>3
<1>4. b \in Seq(S) /\ Len(b) = m - i /\ \A k \in 1..(m - i) : b[k] = q[i + k]
  <2>1. i + 1 \in Int /\ m \in Int /\ \A k \in (i + 1)..m : q[k] \in S
    BY <1>1
  <2>2. /\ b \in Seq(S) /\ Len(b) = (IF i + 1 <= m THEN m - (i + 1) + 1 ELSE 0)
        /\ \A k \in 1..(m - (i + 1) + 1) : b[k] = q[(i + 1) + k - 1]
    BY <1>2, <2>1, SubSeqProperties
  <2>3. /\ (IF i + 1 <= m THEN m - (i + 1) + 1 ELSE 0) = m - i /\ m - (i + 1) + 1 = m - i
        /\ \A k \in 1..(m - i) : (i + 1) + k - 1 = i + k
    BY <1>1
  <2> QED
    BY <2>2, <2>3
<1>5. /\ u \in Seq(S) /\ Len(u) = (i - 1) + (m - i)
      /\ \A k \in 1..((i - 1) + (m - i)) : u[k] = IF k <= i - 1 THEN f[k] ELSE b[k - (i - 1)]
  <2>1. f \in Seq(S) /\ b \in Seq(S)
    BY <1>3, <1>4
  <2>2. /\ f \o b \in Seq(S) /\ Len(f \o b) = Len(f) + Len(b)
        /\ \A k \in 1..(Len(f) + Len(b)) : (f \o b)[k] = IF k <= Len(f) THEN f[k] ELSE b[k - Len(f)]
    BY <2>1, ConcatProperties
  <2>3. u = f \o b /\ Len(f) = i - 1 /\ Len(b) = m - i
    BY <1>0, <1>1, <1>2, <1>3, <1>4 DEF Others
  <2> QED
    BY <2>2, <2>3
<1>6. /\ (i - 1) + (m - i) = m - 1
      /\ \A k \in 1..(m - 1) : /\ k <= i - 1 <=> k < i
                               /\ k < i => k \in 1..(i - 1)
                               /\ ~(k < i) => k - (i - 1) \in 1..(m - i) /\ i + (k - (i - 1)) = k + 1
  BY <1>1
<1>7. ASSUME NEW k \in 1..(m - 1) PROVE u[k] = IF k < i THEN q[k] ELSE q[k + 1]
  <2>1. u[k] = IF k < i THEN f[k] ELSE b[k - (i - 1)]
    BY <1>5, <1>6
  <2> QED
    BY <2>1, <1>3, <1>4, <1>6
<1> QED
  BY <1>0, <1>1, <1>5, <1>6, <1>7

\* A removal takes from the sequence the element at the cell's place in the list.
LEMMA RemovalTakes ==
  ASSUME ListInv, Open, NEW s, NEW n, IsList(s, n), NEW i \in 1..(n - 1), Removes(s, n, i)
  PROVE  i \in 1..Len(Contents) /\ Fifo!TakeAt(i)
<1>1. Open' /\ Open /\ ret' = word[s[i + 1]]
  BY DEF Removes, Return, Open
<1>2. /\ n \in Nat \ {0} /\ \A k \in 1..n : s[k] \in Cells /\ s[k] \in alloc
      /\ \A k \in 2..n : s[k] # pQHeader
  BY ListFacts
<1>3. \A k \in 2..n : k \in 1..n /\ word[s[k]] \in MhtNodes
  <2>1. \A k \in 2..n : k \in 1..n
    BY <1>2
  <2> QED
    BY <2>1, <1>2 DEF ListInv, WordsDiffer
<1>4. PICK q : q = Contents /\ q \in Seq(MhtNodes) /\ Len(q) = n - 1
               /\ \A k \in 1..(n - 1) : q[k] = word[s[k + 1]]
  <2>1. Contents = Elements(word, s, n)
    BY ContentsOfList
  <2>2. /\ Elements(word, s, n) \in Seq(MhtNodes) /\ Len(Elements(word, s, n)) = n - 1
        /\ \A k \in 1..(n - 1) : Elements(word, s, n)[k] = word[s[k + 1]]
    BY <1>2, <1>3, ElementsAreSeq
  <2> QED
    BY <2>1, <2>2
<1>5. PICK t, l : t = Without(s, n, i) /\ l = n - 1
  OBVIOUS
<1>6. IsList(t, l)' /\ \A d \in Cells \ {pQHeader} : word'[d] = word[d]
  BY <1>5, RemovalTakesOut
<1>7. l \in Nat \ {0} /\ i \in 1..l /\ Contents' = Elements(word', t, l)
  <2>1. Contents' = Elements(word', t, l)
    BY <1>1, <1>6, ContentsOfList
  <2> QED
    BY <2>1, <1>2, <1>5
<1>8. \A k \in 1..l : t[k] = IF k <= i THEN s[k] ELSE s[k + 1]
  BY <1>5 DEF Without
<1>9. \A k \in 2..l : word'[t[k]] = IF k <= i THEN word[s[k]] ELSE word[s[k + 1]]
  <2>1. \A k \in 2..l : k \in 1..l /\ k \in 2..n /\ k + 1 \in 2..n
    BY <1>2, <1>5
  <2>2. \A k \in 2..n : word'[s[k]] = word[s[k]]
    BY <1>2, <1>3, <1>6
  <2> QED
    BY <2>1, <2>2, <1>8
<1>10. \A k \in 2..l : word'[t[k]] \in MhtNodes
  <2>1. \A k \in 2..l : k \in 2..n /\ k + 1 \in 2..n
    BY <1>2, <1>5
  <2> QED
    BY <2>1, <1>3, <1>9
<1>11. PICK r : r = Contents' /\ r \in Seq(MhtNodes) /\ Len(r) = l - 1
                /\ \A k \in 1..(l - 1) : r[k] = word'[t[k + 1]]
  <2>1. /\ Elements(word', t, l) \in Seq(MhtNodes) /\ Len(Elements(word', t, l)) = l - 1
        /\ \A k \in 1..(l - 1) : Elements(word', t, l)[k] = word'[t[k + 1]]
    BY <1>7, <1>10, ElementsAreSeq
  <2> QED
    BY <2>1, <1>7
<1>12. PICK u : u = Others(q, i)
  OBVIOUS
<1>13. i \in 1..Len(q) /\ Len(q) = l
  BY <1>4, <1>5, <1>7
<1>14. /\ u \in Seq(MhtNodes) /\ Len(u) = l - 1
       /\ \A k \in 1..(l - 1) : u[k] = IF k < i THEN q[k] ELSE q[k + 1]
  <2>1. /\ u \in Seq(MhtNodes) /\ Len(u) = Len(q) - 1
        /\ \A k \in 1..(Len(q) - 1) : u[k] = IF k < i THEN q[k] ELSE q[k + 1]
    <3>1. q \in Seq(MhtNodes)
      BY <1>4
    <3>2. i \in 1..Len(q)
      BY <1>13
    <3> QED
      BY <3>1, <3>2, <1>12, OthersAre
  <2> QED
    BY <2>1, <1>13
<1>15. ASSUME NEW k \in 1..(l - 1) PROVE r[k] = u[k]
  <2>1. /\ k + 1 \in 2..l /\ (k + 1 <= i <=> k < i) /\ k \in 1..(n - 1) /\ k + 1 \in 1..(n - 1)
        /\ (k + 1) + 1 = k + 2
    BY <1>5, <1>7
  <2>2. r[k] = IF k < i THEN word[s[k + 1]] ELSE word[s[(k + 1) + 1]]
    BY <2>1, <1>9, <1>11
  <2>3. q[k] = word[s[k + 1]] /\ q[k + 1] = word[s[(k + 1) + 1]]
    BY <2>1, <1>4
  <2> QED
    BY <2>2, <2>3, <1>14
<1>16. r = u
  BY <1>11, <1>14, <1>15, SeqEqual
<1>17. q[i] = ret'
  BY <1>1, <1>4
<1> QED
  BY <1>1, <1>4, <1>11, <1>12, <1>13, <1>16, <1>17 DEF Fifo!TakeAt, Others

\* A removal that returns NULL leaves the sequence as it is.
LEMMA NullTakesNothing ==
  ASSUME Open, NEW pos, ReturnNull(pos)
  PROVE  Fifo!TakeNothing
<1>1. /\ pc' = pc /\ pQHeader' = pQHeader /\ alloc' = alloc /\ next' = next /\ word' = word /\ ret' = NULL
  BY DEF ReturnNull
<1>2. Open' = Open /\ Contents' = Contents
  BY <1>1 DEF Open, Contents, Chain
<1> QED
  BY <1>1, <1>2 DEF Fifo!TakeNothing

\* A new queue, if there is memory for its header.
LEMMA InitIsNew ==
  ASSUME ListInv, initQueue
  PROVE  Fifo!New \/ UNCHANGED <<Open, Contents, ret>>
<1>1. pc = "idle" /\ pc' = pc /\ ret' = ret
  BY DEF initQueue
<1>2. CASE pQHeader' = NULL
  <2>1. pQHeader = NULL
    BY <1>2, InitQueueKeeps
  <2>2. Open = FALSE /\ Open' = FALSE /\ Contents = <<>> /\ Contents' = <<>>
    BY <2>1, <1>2 DEF Open, Contents
  <2> QED
    BY <2>2, <1>1
<1>3. CASE pQHeader' # NULL
  <2>1. PICK s : IsList(s, 1)'
    BY <1>3, InitQueueKeeps
  <2>2. 1 \in 1..1 /\ pQHeader' \in alloc'
    BY <2>1 DEF IsList
  <2>3. Open'
    BY <1>1, <1>3, <2>2 DEF Open
  <2>4. PICK n : n = 1 /\ IsList(s, n)'
    BY <2>1
  <2>5. Contents' = Elements(word', s, n)
    BY <2>3, <2>4, ContentsOfList
  <2>6. Contents' = <<>>
    <3>1. 1..(n - 1) = {}
      BY <2>4
    <3> QED
      BY <2>5, <3>1 DEF Elements
  <2> QED
    BY <1>1, <2>3, <2>6 DEF Fifo!New
<1> QED
  BY <1>2, <1>3

\* Freeing the queue, or the crash that takes its place, closes it.
LEMMA FreeingCloses ==
  ASSUME ListInv, enqueueNull \/ StartFree("freeQueue") \/ StartFree("freeQueue2") \/ freeQueue3
  PROVE  Fifo!Close
<1>1. Open /\ ret' = ret
  BY DEF enqueueNull, StartFree, FreeHeader, freeQueue3
<1>2. ~ Open'
  <2>1. CASE enqueueNull
    BY <2>1 DEF enqueueNull, Open
  <2> QED
    BY <2>1, StartFreeKeeps, FreeQueue3Keeps
<1>3. Open' = FALSE /\ Contents' = <<>>
  BY <1>2 DEF Contents, Open
<1> QED
  BY <1>1, <1>3 DEF Fifo!Close

\* While the loops run there is no queue, and after them there is none.
LEMMA LoopsStay ==
  ASSUME ListInv, freeQueueLoop \/ freeQueue2Loop \/ initQueueFreesTwice
  PROVE  UNCHANGED <<Open, Contents, ret>>
<1>1. ~ Open /\ ret' = ret
  BY DEF freeQueueLoop, freeQueue2Loop, FreeHeader, initQueueFreesTwice, Open
<1>2. ~ Open'
  <2>1. CASE initQueueFreesTwice
    BY <2>1 DEF initQueueFreesTwice, Open
  <2> QED
    BY <2>1, FreeLoopKeeps, FreeLoop2Keeps
<1>3. Open = FALSE /\ Open' = FALSE /\ Contents = <<>> /\ Contents' = <<>>
  BY <1>1, <1>2 DEF Contents, Open
<1> QED
  BY <1>1, <1>3

\* deleteQNode does not change the sequence.
LEMMA DeleteStays ==
  ASSUME ListInv, deleteQNode
  PROVE  UNCHANGED <<Open, Contents, ret>>
<1>1. pc' = pc /\ pQHeader' = pQHeader /\ ret' = ret /\ alloc' \subseteq alloc
  BY DEF deleteQNode
<1>2. CASE ~ Open
  <2>1. ~ Open'
    BY <1>1, <1>2 DEF Open
  <2>2. Open = FALSE /\ Open' = FALSE /\ Contents = <<>> /\ Contents' = <<>>
    BY <2>1, <1>2 DEF Contents, Open
  <2> QED
    BY <2>2, <1>1
<1>3. CASE Open
  <2>1. PICK s, n : /\ IsList(s, n) /\ n \in Nat \ {0}
                    /\ \A k \in 2..n : word[s[k]] \in MhtNodes
                    /\ Contents = Elements(word, s, n)
    BY <1>3, OpenList
  <2>2. IsList(s, n)' /\ \A k \in 1..n : word'[s[k]] = word[s[k]]
    BY <2>1, DeleteKeeps
  <2>3. Open' /\ Open' = Open
    <3>1. 1 \in 1..n /\ pQHeader' = s[1] /\ \A k \in 1..n : s[k] \in alloc' \ held'
      BY <2>1, <2>2 DEF IsList
    <3>2. pQHeader' \in alloc'
      BY <3>1
    <3> QED
      BY <3>2, <1>1, <1>3 DEF Open
  <2>4. Contents' = Elements(word', s, n)
    BY <2>2, <2>3, ContentsOfList
  <2>5. \A k \in 1..(n - 1) : word'[s[k + 1]] = word[s[k + 1]]
    <3>1. \A k \in 1..(n - 1) : k + 1 \in 1..n
      BY <2>1
    <3> QED
      BY <3>1, <2>2
  <2>6. Elements(word', s, n) = Elements(word, s, n)
    BY <2>5 DEF Elements
  <2> QED
    BY <1>1, <2>1, <2>3, <2>4, <2>6
<1> QED
  BY <1>2, <1>3

\* What dequeue does to the sequence.
LEMMA DequeueTakes ==
  ASSUME ListInv, dequeue
  PROVE  (Contents = <<>> /\ Fifo!TakeNothing) \/ (1 \in 1..Len(Contents) /\ Fifo!TakeAt(1))
<1>1. Open
  BY DEF dequeue
<1>2. PICK s, n : IsList(s, n) /\ Contents = Elements(word, s, n) /\ n \in Nat \ {0}
  BY <1>1, OpenList
<1>3. CASE n = 1
  <2>1. ReturnNull(NULL)
    BY <1>2, <1>3, DequeueRemoves
  <2>2. Contents = <<>>
    <3>1. 1..(n - 1) = {}
      BY <1>3
    <3> QED
      BY <1>2, <3>1 DEF Elements
  <2> QED
    BY <1>1, <2>1, <2>2, NullTakesNothing
<1>4. CASE n # 1
  <2>1. PICK i \in 1..(n - 1) : i = 1 /\ Removes(s, n, i)
    BY <1>2, <1>4, DequeueRemoves
  <2>2. i \in 1..Len(Contents) /\ Fifo!TakeAt(i)
    BY <1>1, <1>2, <2>1, RemovalTakes
  <2> QED
    BY <2>1, <2>2
<1> QED
  BY <1>3, <1>4

\* The same of the removals from inside the queue, at some position.
LEMMA InnerRemovalTakes ==
  ASSUME ListInv, Open, dequeue_sub \/ \E pos \in {pQHeader} \cup CellsOf(Chain) : dequeue_sppos(pos)
  PROVE  Fifo!TakeNothing \/ \E k \in 1..Len(Contents) : Fifo!TakeAt(k)
<1>1. PICK s, n : IsList(s, n)
  BY DEF ListInv
<1>2. (\E pos : ReturnNull(pos)) \/ \E i \in 1..(n - 1) : Removes(s, n, i)
  <2>1. CASE dequeue_sub
    BY <1>1, <2>1, DequeueSubRemoves
  <2>2. CASE \E pos \in {pQHeader} \cup CellsOf(Chain) : dequeue_sppos(pos)
    BY <1>1, <2>2, DequeueSpposRemoves
  <2> QED
    BY <2>1, <2>2
<1> QED
  BY <1>1, <1>2, NullTakesNothing, RemovalTakes

\* Every call of mht.c is an operation on the sequence, or none.
LEMMA UsedImplementsFifo ==
  ASSUME ListInv, [Used]_queueVars
  PROVE  Fifo!FifoNext({1}) \/ UNCHANGED <<Open, Contents, ret>>
<1>1. CASE initQueue
  BY <1>1, InitIsNew DEF Fifo!FifoNext
<1>2. CASE enqueue
  BY <1>2, EnqueuePuts DEF Fifo!FifoNext, Fifo!Put
<1>3. CASE enqueueNull \/ StartFree("freeQueue")
  BY <1>3, FreeingCloses DEF Fifo!FifoNext
<1>4. CASE dequeue
  BY <1>4, DequeueTakes DEF Fifo!FifoNext
<1>5. CASE deleteQNode
  BY <1>5, DeleteStays
<1>6. CASE freeQueueLoop
  BY <1>6, LoopsStay
<1>7. CASE UNCHANGED queueVars
  BY <1>7 DEF queueVars, Open, Contents, Chain
<1> QED
  BY <1>1, <1>2, <1>3, <1>4, <1>5, <1>6, <1>7 DEF Used, Crashed

\* So is every call dbqueue.h declares, if a removal may take any element.
LEMMA DeclaredImplementsSequence ==
  ASSUME ListInv, [Declared]_queueVars
  PROVE  Fifo!FifoNext(1..Len(Contents)) \/ Fifo!TakeNothing \/ UNCHANGED <<Open, Contents, ret>>
<1>1. CASE initQueue
  BY <1>1, InitIsNew DEF Fifo!FifoNext
<1>2. CASE enqueue
  BY <1>2, EnqueuePuts DEF Fifo!FifoNext, Fifo!Put
<1>3. CASE enqueueNull \/ StartFree("freeQueue") \/ StartFree("freeQueue2") \/ freeQueue3
  BY <1>3, FreeingCloses DEF Fifo!FifoNext
<1>4. CASE dequeue
  <2>1. Fifo!TakeNothing \/ \E k \in 1..Len(Contents) : Fifo!TakeAt(k)
    BY <1>4, DequeueTakes
  <2> QED
    BY <2>1 DEF Fifo!FifoNext
<1>5. CASE dequeue_sub \/ (Open /\ \E pos \in {pQHeader} \cup CellsOf(Chain) : dequeue_sppos(pos))
  <2>1. Open
    BY <1>5 DEF dequeue_sub
  <2>2. Fifo!TakeNothing \/ \E k \in 1..Len(Contents) : Fifo!TakeAt(k)
    BY <1>5, <2>1, InnerRemovalTakes
  <2> QED
    BY <2>2 DEF Fifo!FifoNext
<1>6. CASE deleteQNode
  BY <1>6, DeleteStays
<1>7. CASE freeQueueLoop \/ freeQueue2Loop \/ initQueueFreesTwice
  BY <1>7, LoopsStay
<1>8. CASE UNCHANGED queueVars
  BY <1>8 DEF queueVars, Open, Contents, Chain
<1> QED
  BY <1>1, <1>2, <1>3, <1>4, <1>5, <1>6, <1>7, <1>8 DEF Declared, Used, Crashed

\* For every number of cells and MHT nodes: followed from the header, the list is the
\* sequence a first-in first-out queue would hold, and dequeue returns its first element.
THEOREM QueueIsFifo == UsedSpec => IsFifo
<1>1. DbInit => Fifo!FifoInit
  BY DEF DbInit, Fifo!FifoInit, Open, Contents
<1>2. ListInv /\ [Used]_queueVars => [Fifo!FifoNext({1})]_(Fifo!fifoVars)
  BY UsedImplementsFifo DEF Fifo!fifoVars
<1>3. UsedSpec => []ListInv
  BY UsedIsDeclared, ListIsKept
<1> QED
  BY <1>1, <1>2, <1>3, PTL DEF UsedSpec, IsFifo, Fifo!FifoSpec

\* With all the calls dbqueue.h declares it is a sequence: whatever cell dequeue_sub and
\* dequeue_sppos take out, the caller gets the element that was there, and the others
\* keep their order.  A freed queue, and one that is being freed, is none.
THEOREM QueueIsSequence == DeclaredSpec => IsSequence
<1>1. DbInit => Fifo!FifoInit
  BY DEF DbInit, Fifo!FifoInit, Open, Contents
<1>2. ListInv /\ [Declared]_queueVars
        => [Fifo!FifoNext(1..Len(Contents)) \/ Fifo!TakeNothing]_(Fifo!fifoVars)
  BY DeclaredImplementsSequence DEF Fifo!fifoVars
<1> QED
  BY <1>1, <1>2, ListIsKept, PTL DEF DeclaredSpec, IsSequence, Fifo!AnySpec
=============================================================================
