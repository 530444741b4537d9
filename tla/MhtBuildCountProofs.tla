------------------------ MODULE MhtBuildCountProofs ------------------------
(***************************************************************************)
(* Proofs about the number of leaves, for every data set: the trees in the *)
(* queue are a binary counter of the leaves fed, padding stops at the next *)
(* power of two, and the tree handed out is perfect, its leaves read off   *)
(* the child pointers being the data set and then padding.                 *)
(***************************************************************************)
EXTENDS MhtBuildOrderProofs

-----------------------------------------------------------------------------
(* Powers of two *)

PowersUpTo(f, n) == f = [k \in 0..n |-> IF k = 0 THEN 1 ELSE 2 * f[k - 1]]

LEMMA PowersToAny ==
  ASSUME NEW n \in Nat
  PROVE  \E f : PowersUpTo(f, n)
<1> DEFINE T == {m \in 0..n : \E f : PowersUpTo(f, m)}
<1>1. 0 \in T
  <2>1. PICK f : f = [k \in 0..0 |-> 1]
    OBVIOUS
  <2>2. PowersUpTo(f, 0)
    BY <2>1 DEF PowersUpTo
  <2> QED
    BY <2>2
<1>2. ASSUME NEW m \in 0..(n - 1), m \in T PROVE m + 1 \in T
  <2>1. PICK f : PowersUpTo(f, m)
    BY <1>2
  <2>2. PICK g : g = [k \in 0..(m + 1) |-> IF k <= m THEN f[k] ELSE 2 * f[m]]
    OBVIOUS
  <2>3. ASSUME NEW k \in 0..(m + 1) PROVE g[k] = IF k = 0 THEN 1 ELSE 2 * g[k - 1]
    BY <2>1, <2>2 DEF PowersUpTo
  <2>4. PowersUpTo(g, m + 1)
    BY <2>2, <2>3 DEF PowersUpTo
  <2> QED
    BY <2>4
<1>3. n \in T
  <2> HIDE DEF T
  <2>1. \A k \in 0..n : k \in T
    BY <1>1, <1>2, UpTo
  <2> QED
    BY <2>1
<1> QED
  BY <1>3

\* Two functions that start with 1 and double agree where both are defined.
LEMMA PowersAgree ==
  ASSUME NEW m \in Nat, NEW n \in Nat, m <= n, NEW f, NEW g, PowersUpTo(f, m), PowersUpTo(g, n)
  PROVE  f[m] = g[m]
<1> DEFINE T == {k \in 0..m : f[k] = g[k]}
<1>1. 0 \in T
  BY DEF PowersUpTo
<1>2. ASSUME NEW k \in 0..(m - 1), k \in T PROVE k + 1 \in T
  BY <1>2 DEF PowersUpTo
<1>3. \A k \in 0..m : k \in T
  <2> HIDE DEF T
  <2> QED
    BY <1>1, <1>2, UpTo
<1> QED
  BY <1>3

LEMMA PowersAreDefined == Pow2 = [k \in Nat |-> IF k = 0 THEN 1 ELSE 2 * Pow2[k - 1]]
<1> DEFINE P(n) == CHOOSE f : PowersUpTo(f, n)
           g == [n \in Nat |-> P(n)[n]]
<1>1. \A n \in Nat : PowersUpTo(P(n), n)
  BY PowersToAny
<1>2. ASSUME NEW n \in Nat PROVE g[n] = IF n = 0 THEN 1 ELSE 2 * g[n - 1]
  <2>1. P(n)[n] = IF n = 0 THEN 1 ELSE 2 * P(n)[n - 1]
    <3> HIDE DEF P
    <3>1. PICK h : h = P(n)
      OBVIOUS
    <3>2. h = [k \in 0..n |-> IF k = 0 THEN 1 ELSE 2 * h[k - 1]] /\ n \in 0..n
      BY <3>1, <1>1 DEF PowersUpTo
    <3> QED
      BY <3>1, <3>2
  <2>2. ASSUME n # 0 PROVE P(n)[n - 1] = P(n - 1)[n - 1]
    <3>1. n - 1 \in Nat /\ n - 1 <= n
      BY <2>2
    <3> HIDE DEF P
    <3> QED
      BY <3>1, <1>1, PowersAgree
  <2> QED
    BY <2>1, <2>2
<1>3. \E h : h = [k \in Nat |-> IF k = 0 THEN 1 ELSE 2 * h[k - 1]]
  <2> HIDE DEF P
  <2>1. g = [k \in Nat |-> IF k = 0 THEN 1 ELSE 2 * g[k - 1]]
    BY <1>2
  <2> QED
    BY <2>1
<1> QED
  BY <1>3 DEF Pow2

\* What is used of the powers.
LEMMA Powers ==
  /\ Pow2[0] = 1
  /\ \A k \in Nat : Pow2[k] \in Nat /\ Pow2[k] > k /\ Pow2[k + 1] = 2 * Pow2[k]
<1>1. Pow2[0] = 1 /\ \A k \in Nat : Pow2[k + 1] = 2 * Pow2[k]
  <2>1. Pow2[0] = 1
    BY PowersAreDefined
  <2>2. ASSUME NEW k \in Nat PROVE Pow2[k + 1] = 2 * Pow2[k]
    <3>1. k + 1 \in Nat /\ k + 1 # 0 /\ (k + 1) - 1 = k
      OBVIOUS
    <3> QED
      BY <3>1, PowersAreDefined
  <2> QED
    BY <2>1, <2>2
<1>2. ASSUME NEW n \in Nat PROVE Pow2[n] \in Nat /\ Pow2[n] > n
  <2> DEFINE T == {k \in 0..n : Pow2[k] \in Nat /\ Pow2[k] > k}
  <2>1. 0 \in T
    BY <1>1
  <2>2. ASSUME NEW k \in 0..(n - 1), k \in T PROVE k + 1 \in T
    <3>1. PICK p : p = Pow2[k]
      OBVIOUS
    <3>2. k \in Nat /\ p \in Nat /\ p > k /\ Pow2[k + 1] = 2 * p
      BY <2>2, <3>1, <1>1
    <3> QED
      BY <3>2
  <2>3. \A k \in 0..n : k \in T
    <3> HIDE DEF T
    <3> QED
      BY <2>1, <2>2, UpTo
  <2> QED
    BY <2>3
<1> QED
  BY <1>1, <1>2

LEMMA PowersMultiply ==
  ASSUME NEW a \in Nat, NEW d \in Nat
  PROVE  \E j \in Nat \ {0} : Pow2[a + d] = j * Pow2[a]
<1> DEFINE T == {k \in 0..d : \E j \in Nat \ {0} : Pow2[a + k] = j * Pow2[a]}
<1>1. 0 \in T
  <2>1. Pow2[a + 0] = 1 * Pow2[a]
    BY Powers
  <2> QED
    BY <2>1
<1>2. ASSUME NEW k \in 0..(d - 1), k \in T PROVE k + 1 \in T
  <2>1. PICK j \in Nat \ {0} : Pow2[a + k] = j * Pow2[a]
    BY <1>2
  <2>2. a + k \in Nat /\ a + (k + 1) = (a + k) + 1
    BY <1>2
  <2>3. Pow2[a + (k + 1)] = 2 * Pow2[a + k] /\ Pow2[a] \in Nat
    BY <2>2, Powers
  <2>4. PICK p : p = Pow2[a]
    OBVIOUS
  <2>5. Pow2[a + (k + 1)] = (2 * j) * p /\ 2 * j \in Nat \ {0}
    BY <2>1, <2>3, <2>4
  <2> QED
    BY <2>4, <2>5
<1>3. \A k \in 0..d : k \in T
  <2> HIDE DEF T
  <2> QED
    BY <1>1, <1>2, UpTo
<1> QED
  BY <1>3

\* A lower power divides a higher one and is not greater.
LEMMA PowerDivides ==
  ASSUME NEW a \in Nat, NEW b \in Nat, a <= b
  PROVE  /\ Pow2[a] <= Pow2[b]
         /\ \E j \in Nat : Pow2[b] = j * Pow2[a]
<1>1. b - a \in Nat /\ a + (b - a) = b
  OBVIOUS
<1>2. PICK j \in Nat \ {0} : Pow2[b] = j * Pow2[a]
  BY <1>1, PowersMultiply
<1>3. PICK p : p = Pow2[a]
  OBVIOUS
<1>4. p \in Nat
  BY <1>3, Powers
<1>5. p <= j * p
  BY <1>2, <1>4
<1> QED
  BY <1>2, <1>3, <1>5

\* A power smaller than another has a smaller exponent.
LEMMA SmallerPower ==
  ASSUME NEW a \in Nat, NEW b \in Nat, Pow2[a] < Pow2[b]
  PROVE  a < b
<1>1. b <= a => Pow2[b] <= Pow2[a]
  BY PowerDivides
<1>2. Pow2[a] \in Nat /\ Pow2[b] \in Nat
  BY Powers
<1> QED
  BY <1>1, <1>2

-----------------------------------------------------------------------------
(* How many leaves a node spans *)

\* The children of an inner node, and how their spans make up its own.
LEMMA ChildrenSpan ==
  ASSUME IInv, SpansNest, NEW n \in Nodes, Inner(n)
  PROVE  /\ lchild(n) \in Nodes /\ LevelOf(lchild(n)) = LevelOf(n) - 1 /\ lchild(n) < n
         /\ rchild(n) \in Nodes /\ LevelOf(rchild(n)) = LevelOf(n) - 1 /\ rchild(n) < n
         /\ lo(n) = lo(lchild(n)) /\ hi(lchild(n)) + 1 = lo(rchild(n)) /\ hi(rchild(n)) = hi(n)
<1>1. lchild(n) \in Nodes /\ rchild(n) \in Nodes
  BY ChildrenAreOlder DEF IInv
<1>2. /\ lchild(n) \in 1..(n - 1) /\ LevelOf(lchild(n)) = LevelOf(n) - 1
      /\ rchild(n) \in 1..(n - 1) /\ LevelOf(rchild(n)) = LevelOf(n) - 1
  BY DEF IInv, NodeShape, ShapeOf
<1>3. n \in Int
  BY DEF Nodes
<1> QED
  BY <1>1, <1>2, <1>3 DEF SpansNest, SpanOf

\* A node of level l spans 2^l leaves.
LEMMA SpanWidth ==
  ASSUME IInv, SpansNest, NEW x \in Nodes
  PROVE  hi(x) + 1 = lo(x) + Pow2[LevelOf(x)]
<1> DEFINE T == {l \in 0..LevelOf(x) : \A n \in Nodes :
                   LevelOf(n) = l => hi(n) + 1 = lo(n) + Pow2[l]}
<1>1. \A n \in Nodes : LevelOf(n) \in Nat /\ lo(n) \in Nat /\ hi(n) \in Nat
  BY FieldTypes, SpanFields DEF IInv
<1>2. 0 \in T
  <2>1. \A n \in Nodes : LevelOf(n) = 0 => lo(n) = hi(n)
    BY DEF SpansNest, SpanOf, Inner, LevelOf, NODELEVEL_LEAF
  <2> QED
    BY <1>1, <2>1, Powers
<1>3. ASSUME NEW l \in 0..(LevelOf(x) - 1), l \in T PROVE l + 1 \in T
  <2>1. ASSUME NEW n \in Nodes, LevelOf(n) = l + 1
        PROVE  hi(n) + 1 = lo(n) + Pow2[l + 1]
    <3>1. Inner(n)
      BY <2>1 DEF Inner, LevelOf, NODELEVEL_LEAF
    <3>2. PICK a, b : a = lchild(n) /\ b = rchild(n)
      OBVIOUS
    <3>3. /\ a \in Nodes /\ b \in Nodes /\ LevelOf(a) = l /\ LevelOf(b) = l
          /\ lo(n) = lo(a) /\ hi(a) + 1 = lo(b) /\ hi(b) = hi(n)
      BY <2>1, <3>1, <3>2, ChildrenSpan
    <3>4. PICK p : p = Pow2[l]
      OBVIOUS
    <3>5. hi(a) + 1 = lo(a) + p /\ hi(b) + 1 = lo(b) + p
      BY <3>3, <3>4, <1>3
    <3>6. p \in Nat /\ Pow2[l + 1] = 2 * p
      BY <3>4, Powers
    <3>7. lo(a) \in Nat /\ hi(b) \in Nat
      BY <3>3, <1>1
    <3> QED
      BY <3>3, <3>5, <3>6, <3>7
  <2>2. l + 1 \in 0..LevelOf(x)
    BY <1>1
  <2> QED
    BY <2>1, <2>2
<1>4. \A l \in 0..LevelOf(x) : l \in T
  <2> HIDE DEF T
  <2> QED
    BY <1>1, <1>2, <1>3, UpTo
<1> QED
  BY <1>1, <1>4

\* The live nodes and the leaves they span, as the lemmas below use them.
LEMMA LiveSpans ==
  ASSUME IInv, OrderInv, SearchInv
  PROVE  /\ Len(leaves) \in Nat /\ Live \subseteq Nodes /\ Nodes \subseteq Nat
         /\ Live # {} => tail \in Live /\ hi(tail) = Len(leaves)
         /\ \A n \in Live : /\ n <= tail /\ LevelOf(n) \in Nat
                            /\ lo(n) \in 1..hi(n) /\ hi(n) \in Nat /\ hi(n) <= Len(leaves)
                            /\ hi(n) + 1 = lo(n) + Pow2[LevelOf(n)]
                            /\ hi(n) = Len(leaves) => n = tail
<1>1. TypeOK
  BY DEF IInv
<1>2. Len(leaves) \in Nat /\ Len(heap) \in Nat /\ Live \subseteq Nodes /\ Nodes \subseteq Nat
  BY <1>1, FieldTypes, LenProperties DEF TypeOK, Live, Nodes
<1>3. Live # {} => tail \in Live
  <2>1. Live # {} => heap # <<>>
    BY EmptySeq DEF Live, Nodes
  <2> QED
    BY <2>1 DEF IInv, LiveAreQueued
<1>4. Live # {} => hi(tail) = Len(leaves)
  BY DEF OrderInv, LiveSpansAdjoin
<1>5. \A n \in Nodes : LevelOf(n) \in Nat /\ hi(n) \in Nat
  BY <1>1, FieldTypes, SpanFields
<1>6. \A n \in Nodes : lo(n) \in 1..hi(n) /\ hi(n) <= Len(leaves)
  BY DEF SearchInv, SpansInRange
<1>7. \A n \in Nodes : n <= tail
  BY <1>2 DEF Nodes, tail
<1>8. \A n \in Live : hi(n) = Len(leaves) => n = tail
  BY DEF SearchInv, OnlyTailEndsLast
<1>9. \A n \in Nodes : hi(n) + 1 = lo(n) + Pow2[LevelOf(n)]
  BY SpanWidth DEF OrderInv
<1> QED
  BY <1>2, <1>3, <1>4, <1>5, <1>6, <1>7, <1>8, <1>9

\* A live node that is not the last has a next one, whose span follows.
LEMMA NextLive ==
  ASSUME IInv, OrderInv, SearchInv, NEW m \in Live, m # tail
  PROVE  \E n \in Live : m < n /\ Neighbours(m, n) /\ hi(m) + 1 = lo(n)
<1>1. /\ Live \subseteq Nat /\ m \in Nat /\ tail \in Live /\ tail \in Nat /\ m < tail
  BY LiveSpans
<1>2. PICK D : D = {z \in Live : m < z}
  OBVIOUS
<1>3. D \in SUBSET Nat /\ D # {}
  BY <1>1, <1>2
<1>4. PICK n \in D : \A v \in D : ~ (<<v, n>> \in OpToRel(<, Nat))
  BY <1>3, NatLessThanWellFounded, WFMin
<1>5. \A v \in D : n <= v
  <2>1. \A v \in D : ~ (v < n)
    BY <1>3, <1>4 DEF OpToRel
  <2> QED
    BY <2>1, <1>3
<1>6. \A z \in Live : z <= m \/ n <= z
  BY <1>1, <1>2, <1>5
<1>7. n \in Live /\ m < n /\ Neighbours(m, n)
  BY <1>2, <1>6 DEF Neighbours
<1> QED
  BY <1>7 DEF OrderInv, LiveSpansAdjoin

\* Where the levels fall strictly, the leaves after a live node's are fewer than its own.
LEMMA RestIsSmaller ==
  ASSUME IInv, OrderInv, SearchInv, pc \in {"for", "pad"}, NEW n \in Live
  PROVE  Len(leaves) - hi(n) < Pow2[LevelOf(n)]
<1> DEFINE D == {x \in Live : ~ (Len(leaves) - hi(x) < Pow2[LevelOf(x)])}
<1> SUFFICES ASSUME D # {} PROVE FALSE
  OBVIOUS
<1>1. D \subseteq 1..Len(heap) /\ Len(heap) \in Nat
  BY FieldTypes DEF IInv, Live, Nodes
<1>2. PICK m \in D : \A j \in D : j <= m
  <2> HIDE DEF D
  <2> QED
    BY <1>1, LastPosition
<1>3. m \in Live /\ hi(m) \in Nat /\ LevelOf(m) \in Nat /\ Len(leaves) \in Nat
  BY <1>2, LiveSpans
<1>4. PICK p : p = Pow2[LevelOf(m)]
  OBVIOUS
<1>5. p \in Nat /\ p > 0 /\ ~ (Len(leaves) - hi(m) < p)
  <2>1. p \in Nat /\ p > LevelOf(m)
    BY <1>3, <1>4, Powers
  <2>2. ~ (Len(leaves) - hi(m) < p)
    BY <1>2, <1>4
  <2> QED
    BY <2>1, <2>2, <1>3
<1>6. m # tail
  <2>1. m = tail => hi(m) = Len(leaves)
    BY <1>3, LiveSpans
  <2> QED
    BY <2>1, <1>3, <1>5
<1>7. PICK x \in Live : m < x /\ Neighbours(m, x) /\ hi(m) + 1 = lo(x)
  BY <1>3, <1>6, NextLive
<1>8. /\ LevelOf(x) \in Nat /\ hi(x) \in Nat /\ lo(x) \in Nat
      /\ hi(x) + 1 = lo(x) + Pow2[LevelOf(x)] /\ LevelOf(m) > LevelOf(x) /\ x \in Nat /\ m \in Nat
  <2>1. LevelOf(m) > LevelOf(x)
    BY <1>3, <1>7 DEF IInv, LevelsFall
  <2> QED
    BY <2>1, <1>3, <1>7, LiveSpans
<1>9. Len(leaves) - hi(x) < Pow2[LevelOf(x)]
  BY <1>2, <1>7, <1>8
<1>10. 2 * Pow2[LevelOf(x)] <= p
  <2>1. LevelOf(x) + 1 \in Nat /\ LevelOf(x) + 1 <= LevelOf(m)
    BY <1>3, <1>8
  <2>2. Pow2[LevelOf(x) + 1] <= p /\ Pow2[LevelOf(x) + 1] = 2 * Pow2[LevelOf(x)]
    BY <2>1, <1>3, <1>4, <1>8, Powers, PowerDivides
  <2> QED
    BY <2>2
<1>11. PICK q, s, e : q = Pow2[LevelOf(x)] /\ s = hi(m) /\ e = Len(leaves)
  OBVIOUS
<1>12. q \in Nat /\ s \in Nat /\ e \in Nat /\ 2 * q <= p /\ ~ (e - s < p)
  BY <1>3, <1>5, <1>8, <1>10, <1>11, Powers
<1>13. hi(x) = s + q
  <2>1. hi(x) + 1 = s + 1 + q
    BY <1>7, <1>8, <1>11
  <2> QED
    BY <2>1, <1>8, <1>12
<1>14. e - (s + q) < q
  BY <1>9, <1>11, <1>13
<1> QED
  BY <1>5, <1>12, <1>14

-----------------------------------------------------------------------------
(* Padding stops at the next power of two *)

\* A live front of the queue spans the first leaves.
LEMMA FrontSpan ==
  ASSUME IInv, OrderInv, SearchInv, pc # "done", front \in Live
  PROVE  /\ front \in Nodes /\ front <= tail /\ tail \in Live
         /\ LevelOf(front) \in Nat /\ Pow2[LevelOf(front)] \in Nat
         /\ hi(front) = Pow2[LevelOf(front)]
<1>1. \A z \in Live : front <= z
  BY DEF IInv, LiveAreQueued
<1>2. lo(front) = 1
  BY <1>1 DEF OrderInv, LiveSpansAdjoin
<1>3. /\ front \in Nodes /\ front <= tail /\ tail \in Live /\ LevelOf(front) \in Nat
      /\ hi(front) \in Nat /\ hi(front) + 1 = lo(front) + Pow2[LevelOf(front)]
  BY LiveSpans
<1>4. PICK p : p = Pow2[LevelOf(front)]
  OBVIOUS
<1>5. p \in Nat
  BY <1>3, <1>4, Powers
<1> QED
  BY <1>2, <1>3, <1>4, <1>5

\* Where the front is not all there is, the leaves are more than it spans and less
\* than twice as many.
LEMMA MoreThanFront ==
  ASSUME IInv, OrderInv, SearchInv, pc \in {"for", "pad"}, front \in Live, front # tail
  PROVE  /\ Pow2[LevelOf(front)] < Len(leaves)
         /\ Len(leaves) < 2 * Pow2[LevelOf(front)]
<1>1. PICK p : p = Pow2[LevelOf(front)]
  OBVIOUS
<1>2. p \in Nat /\ hi(front) = p
  BY <1>1, FrontSpan
<1>3. Len(leaves) \in Nat /\ hi(front) <= Len(leaves) /\ hi(front) # Len(leaves)
  BY LiveSpans
<1>4. Len(leaves) - hi(front) < p
  BY <1>1, RestIsSmaller
<1> QED
  BY <1>1, <1>2, <1>3, <1>4

\* A new leaf lengthens the history of leaves by one.
LEMMA OneLeafMore ==
  ASSUME TypeOK, FeedLeaf \/ PadLeaf
  PROVE  Len(leaves') = Len(leaves) + 1 /\ Len(leaves) \in Nat
<1>1. leaves \in Seq(Nodes)
  BY DEF TypeOK
<1>2. leaves' = Append(leaves, Len(heap) + 1)
  BY DEF FeedLeaf, PadLeaf, EnqueueLeaf
<1> QED
  BY <1>1, <1>2, LenProperties, AppendProperties

LEMMA PadLeafCount ==
  ASSUME IInv, OrderInv, SearchInv, CountInv, PadLeaf
  PROVE  CountInv'
<1>1. /\ TypeOK /\ QueueIsSuffix /\ NodeShape /\ pc = "pad" /\ phase = "pad"
      /\ queue # <<>> /\ front \in Live /\ PaddingLevel
  BY DEF IInv, Control, LastCombined, FrontIsLive, PadLeaf
<1>2. PICK q : q = qHeaderLevel
  OBVIOUS
<1>3. /\ pds # NullDs /\ q \in Nat /\ Pow2[q] < pds.m_size
      /\ Live = {tail} => LevelOf(tail) = q + 1
  BY <1>1, <1>2 DEF CountInv, TypeOK
<1>4. LevelOf(tail) <= q /\ LevelOf(tail) \in Nat
  BY <1>1, <1>2, Positions, FieldTypes DEF PadLeaf
<1>5. Live # {tail}
  BY <1>3, <1>4
<1>6. LevelOf(front) = q
  BY <1>1, <1>2, <1>5 DEF PaddingLevel
<1>7. front \in Nodes /\ front <= tail /\ tail \in Live /\ tail \in Nat
  BY <1>1, FrontSpan, LiveSpans
<1>8. front # tail
  <2>1. PICK z \in Live : z # tail
    BY <1>5, <1>7
  <2>2. front <= z /\ z <= tail /\ z \in Nat
    BY <1>1, <2>1, LiveSpans DEF IInv, LiveAreQueued
  <2>3. front \in Nat
    BY <1>7 DEF Nodes
  <2> QED
    BY <2>1, <2>2, <2>3, <1>7
<1>9. Len(leaves) < 2 * Pow2[q]
  BY <1>1, <1>6, <1>8, MoreThanFront
<1>10. Len(leaves') <= 2 * Pow2[q]
  <2>1. Len(leaves') = Len(leaves) + 1 /\ Len(leaves) \in Nat
    BY <1>1, OneLeafMore
  <2>2. Pow2[q] \in Nat
    BY <1>3, Powers
  <2> QED
    BY <1>9, <2>1, <2>2
<1>11. Live' # {tail'}
  <2>1. PICK node, h : node = makeZeroMHTNode(last_mhtnode_index') /\ EnqueueLeaf(node, h)
    BY DEF PadLeaf
  <2>2. last_mhtnode_index' \in Int
    BY <1>1, IntAssumption DEF TypeOK, PadLeaf, Increment
  <2>3. /\ node \in Node
        /\ node.m_level = NODELEVEL_LEAF /\ node.m_lchild = NULL /\ node.m_rchild = NULL
    BY <2>1, <2>2 DEF makeZeroMHTNode, makeMHTNode, Node, NODELEVEL_LEAF, NULL
  <2>4. Len(heap') = Len(heap) + 1 /\ Live' = Live \cup {tail'}
    BY <1>1, <2>1, <2>3, EnqueueLeafStep
  <2>5. tail' # tail
    BY <2>4, <1>7 DEF tail
  <2> QED
    BY <2>4, <2>5, <1>7
<1>12. phase' = phase /\ pds' = pds /\ qHeaderLevel' = q
  BY <1>2 DEF PadLeaf
<1> QED
  BY <1>1, <1>3, <1>10, <1>11, <1>12 DEF CountInv

LEMMA StartPaddingCount ==
  ASSUME IInv, OrderInv, SearchInv, CountInv, StartPadding
  PROVE  CountInv'
<1>1. /\ TypeOK /\ QueueIsSuffix /\ NodeShape /\ FrontIsLive /\ pc = "for" /\ phase = "feed"
      /\ pds # NullDs /\ i = pds.m_size /\ Len(queue) > 1
  BY DEF IInv, Control, StartPadding
<1>2. queue # <<>> /\ Len(queue) \in Nat /\ Len(heap) \in Nat
  BY <1>1, FieldTypes, EmptySeq
<1>3. front \in Live /\ Head(queue) = front
  BY <1>1, <1>2, Positions DEF FrontIsLive
<1>4. front # tail
  BY <1>1, <1>2 DEF front, tail
<1>5. PICK q : q = LevelOf(front)
  OBVIOUS
<1>6. /\ qHeaderLevel' = q /\ phase' = "pad"
      /\ UNCHANGED <<pds, leaves, heap>>
  BY <1>3, <1>5 DEF StartPadding
<1>7. Pow2[q] < Len(leaves) /\ Len(leaves) < 2 * Pow2[q]
  BY <1>1, <1>3, <1>4, <1>5, MoreThanFront
<1>8. Len(leaves) = pds.m_size
  BY <1>1 DEF OrderInv, LeafCount
<1>9. Live' = Live /\ tail' = tail
  BY <1>6 DEF Live, Nodes, lchild, rchild, tail
<1>10. Live' # {tail'}
  BY <1>3, <1>4, <1>9
<1>11. Len(leaves) \in Nat /\ Pow2[q] \in Nat
  BY <1>3, <1>5, Powers, LiveSpans
<1> QED
  BY <1>1, <1>6, <1>7, <1>8, <1>10, <1>11 DEF CountInv

\* The last two trees become one: both had the level padding started from.
LEMMA CombineCount ==
  ASSUME IInv, OrderInv, SearchInv, CountInv, Combine
  PROVE  CountInv'
<1>1. /\ TypeOK /\ QueueIsSuffix /\ NodeShape /\ ScanPosition /\ FrontIsLive /\ PaddingLevel
      /\ queue # <<>> /\ pc = "combine"
  BY DEF IInv, LastCombined, Combine
<1>2. UNCHANGED <<phase, pds, leaves, qHeaderLevel>>
  BY DEF Combine
<1>3. PICK l, r, q : l = cursor - 1 /\ r = tail /\ q = qHeaderLevel
  OBVIOUS
<1>4. l \in Live /\ r \in Live /\ l < r /\ l \in Nat /\ LevelOf(l) = LevelOf(r)
  BY <1>3, LastTwoLive
<1>5. LevelOf(tail)' = LevelOf(r) + 1 /\ Live' = (Live \ {l, r}) \cup {tail'}
  BY <1>1, <1>3, CombineStep
<1>6. tail' = r + 1 /\ r \in Nat /\ Live \subseteq 1..r
  <2>1. Len(heap') = Len(heap) + 1 /\ Len(heap) \in Nat
    BY <1>1, CombineStep, FieldTypes
  <2> QED
    BY <2>1, <1>3 DEF tail, Live, Nodes
<1>7. ASSUME phase = "pad", Live' = {tail'} PROVE LevelOf(tail)' = q + 1
  <2>1. Live = {l, r}
    <3>1. \A z \in Live : z # tail'
      BY <1>6
    <3> QED
      BY <3>1, <1>4, <1>5, <1>7
  <2>2. Live # {tail} /\ l # r
    BY <1>3, <1>4
  <2>3. front \in Live
    BY <2>2, <1>1 DEF FrontIsLive
  <2>4. LevelOf(front) = q
    BY <2>2, <1>1, <1>3, <1>7 DEF PaddingLevel
  <2> QED
    BY <2>1, <2>3, <2>4, <1>4, <1>5
<1> QED
  BY <1>2, <1>3, <1>7 DEF CountInv

\* Every step keeps the counts.
LEMMA CountStep ==
  ASSUME IInv, OrderInv, SearchInv, CountInv, [Next]_buildVars
  PROVE  CountInv'
<1>1. CASE FeedLeaf
  <2>1. phase = "feed" /\ pc = "for" /\ pds # NullDs /\ TypeOK
    BY <1>1 DEF IInv, Control, FeedLeaf
  <2>2. phase' = phase /\ pds' = pds /\ i < pds.m_size /\ Len(leaves) = i
    BY <1>1, <2>1 DEF FeedLeaf, OrderInv, LeafCount
  <2>3. Len(leaves') = Len(leaves) + 1 /\ Len(leaves) \in Nat /\ pds.m_size \in Nat
    BY <1>1, <2>1, OneLeafMore, SizeType
  <2> QED
    BY <2>1, <2>2, <2>3 DEF CountInv
<1>2. CASE PadLeaf \/ StartPadding \/ Combine
  BY <1>2, PadLeafCount, StartPaddingCount, CombineCount
<1>3. CASE ~FeedLeaf /\ ~PadLeaf /\ ~StartPadding /\ ~Combine
  <2>1. UNCHANGED <<phase, pds, leaves, qHeaderLevel>>
    BY <1>3 DEF Next, BuildStep, Returned, buildVars, RejectNull, InitQueue, ScanStop, ScanSkip,
       ScanMatch, WalkRight, Drain, DrainStop, LeaveLoops, PopRoot, PopEmpty
  <2>2. AllKept
    BY <1>3, OthersKeepAll
  <2>3. Live' = Live /\ tail' = tail
    BY <2>2, SameShape DEF IInv, AllKept
  <2>4. Live = {tail} => LevelOf(tail)' = LevelOf(tail)
    <3>1. Live \subseteq Nodes
      BY DEF Live
    <3> QED
      BY <2>2, <2>3, <3>1 DEF AllKept, NodesKept, LevelOf
  <2> QED
    BY <2>1, <2>3, <2>4 DEF CountInv
<1> QED
  BY <1>1, <1>2, <1>3

LEMMA InitCount == ASSUME Init PROVE CountInv
<1>1. leaves = <<>> /\ phase = "feed" /\ Len(leaves) = 0
  BY EmptySeq DEF Init
<1>2. pds # NullDs => pds.m_size \in Nat
  BY DataSetsAssumption DEF Init
<1> QED
  BY <1>1, <1>2 DEF CountInv

\* For every data set, at every step: while leaves are fed there are no more than the
\* data set has; padding starts from a tree smaller than the data set, makes at most
\* twice that tree's leaves, and the root it makes is one level above that tree.
THEOREM CountIsKept == Spec => []CountInv
<1>1. Init => CountInv
  BY InitCount
<1>2. IInv /\ OrderInv /\ SearchInv /\ CountInv /\ [Next]_buildVars => CountInv'
  BY CountStep
<1> QED
  BY <1>1, <1>2, Inductive, OrderIsKept, SearchIsKept, PTL DEF Spec

\* For every data set the construction keeps the discipline of its queue, the order of
\* the leaves, the separators and the counts, all at once.
THEOREM ConstructionIsKept == Spec => []BuildInv
<1>1. IInv /\ OrderInv /\ SearchInv /\ CountInv => BuildInv
  BY DEF BuildInv
<1> QED
  BY <1>1, Inductive, OrderIsKept, SearchIsKept, CountIsKept, PTL

LEMMA CountIsLeast ==
  ASSUME IInv, CountInv
  PROVE  PaddingIsLeast
<1> SUFFICES ASSUME pds # NullDs, NEW h \in 0..pds.m_size, pds.m_size <= Pow2[h]
             PROVE  Len(leaves) <= Pow2[h]
  BY DEF PaddingIsLeast
<1>1. TypeOK /\ phase \in {"feed", "pad"} /\ qHeaderLevel \in Nat
  BY DEF IInv, TypeOK
<1>2. pds.m_size \in Nat /\ h \in Nat /\ Len(leaves) \in Nat /\ Pow2[h] \in Nat
  <2>1. pds.m_size \in Nat /\ Len(leaves) \in Nat
    BY <1>1, SizeType, LenProperties DEF TypeOK
  <2>2. h \in Nat
    BY <2>1
  <2> QED
    BY <2>1, <2>2, Powers
<1>3. CASE phase = "feed"
  <2>1. Len(leaves) <= pds.m_size
    BY <1>3 DEF CountInv
  <2> QED
    BY <2>1, <1>2
<1>4. CASE phase = "pad"
  <2>1. PICK q, p : q = qHeaderLevel /\ p = Pow2[q]
    OBVIOUS
  <2>2. p < pds.m_size /\ Len(leaves) <= 2 * p
    BY <2>1, <1>4 DEF CountInv
  <2>3. q \in Nat /\ p \in Nat /\ Pow2[q + 1] = 2 * p
    BY <2>1, <1>1, Powers
  <2>4. q < h
    <3>1. Pow2[q] < Pow2[h]
      BY <2>1, <2>2, <2>3, <1>2
    <3> QED
      BY <3>1, <2>3, <1>2, SmallerPower
  <2>5. Pow2[q + 1] <= Pow2[h]
    <3>1. q + 1 \in Nat /\ q + 1 <= h
      BY <2>3, <2>4, <1>2
    <3> QED
      BY <3>1, <1>2, PowerDivides
  <2> QED
    BY <2>2, <2>3, <2>5, <1>2
<1> QED
  BY <1>1, <1>3, <1>4

\* For every data set, at every step of the call, there are never more leaves than the
\* least power of two that has room for the data set: deal_with_remaining_nodes_in_queue
\* stops in time, though it only compares the tail's level with the front's first one.
THEOREM PaddingStopsInTime == Spec => []PaddingIsLeast
BY CountIsLeast, Inductive, CountIsKept, PTL

-----------------------------------------------------------------------------
(* What is below a node *)

LeavesUpTo(f, m) ==
  f = [x \in 1..m |-> IF Inner(x) THEN f[lchild(x)] \o f[rchild(x)] ELSE <<x>>]
NodesUpTo(f, m) ==
  f = [x \in 1..m |-> IF Inner(x) THEN {x} \cup f[lchild(x)] \cup f[rchild(x)] ELSE {x}]

\* The two recursive definitions go from a node to older nodes, so that the functions
\* they name exist.
LEMMA LeavesAreDefined ==
  ASSUME TypeOK, NodeShape
  PROVE  \E f : LeavesUpTo(f, Len(heap))
<1> DEFINE T == {m \in 0..Len(heap) : \E f : LeavesUpTo(f, m)}
<1>1. Len(heap) \in Nat
  BY FieldTypes
<1>2. 0 \in T
  <2>1. PICK f : f = [x \in 1..0 |-> <<>>]
    OBVIOUS
  <2>2. LeavesUpTo(f, 0)
    BY <2>1 DEF LeavesUpTo
  <2> QED
    BY <2>2, <1>1
<1>3. ASSUME NEW m \in 0..(Len(heap) - 1), m \in T PROVE m + 1 \in T
  <2>1. PICK f : LeavesUpTo(f, m)
    BY <1>3
  <2>2. PICK new : new = IF Inner(m + 1) THEN f[lchild(m + 1)] \o f[rchild(m + 1)] ELSE <<m + 1>>
    OBVIOUS
  <2>3. PICK g : g = [x \in 1..(m + 1) |-> IF x <= m THEN f[x] ELSE new]
    OBVIOUS
  <2>4. \A x \in 1..m : g[x] = f[x]
    BY <2>3
  <2>5. ASSUME NEW x \in 1..(m + 1)
        PROVE  g[x] = IF Inner(x) THEN g[lchild(x)] \o g[rchild(x)] ELSE <<x>>
    <3>1. Inner(x) => g[lchild(x)] = f[lchild(x)] /\ g[rchild(x)] = f[rchild(x)]
      <4> SUFFICES ASSUME Inner(x) PROVE g[lchild(x)] = f[lchild(x)] /\ g[rchild(x)] = f[rchild(x)]
        OBVIOUS
      <4>1. x \in Nodes
        BY <1>1 DEF Nodes
      <4>2. lchild(x) \in 1..(x - 1) /\ rchild(x) \in 1..(x - 1)
        BY <4>1 DEF NodeShape, ShapeOf
      <4>3. 1..(x - 1) \subseteq 1..m
        OBVIOUS
      <4> QED
        BY <4>2, <4>3, <2>4
    <3>2. g[x] = IF Inner(x) THEN f[lchild(x)] \o f[rchild(x)] ELSE <<x>>
      <4>1. CASE x \in 1..m
        BY <4>1, <2>1, <2>4 DEF LeavesUpTo
      <4>2. CASE x = m + 1
        BY <4>2, <2>2, <2>3
      <4> QED
        BY <4>1, <4>2
    <3> QED
      BY <3>1, <3>2
  <2>6. LeavesUpTo(g, m + 1)
    BY <2>3, <2>5 DEF LeavesUpTo
  <2> QED
    BY <2>6, <1>1
<1>4. \A m \in 0..Len(heap) : m \in T
  <2> HIDE DEF T
  <2> QED
    BY <1>1, <1>2, <1>3, UpTo
<1> QED
  BY <1>1, <1>4

LEMMA NodesAreDefined ==
  ASSUME TypeOK, NodeShape
  PROVE  \E f : NodesUpTo(f, Len(heap))
<1> DEFINE T == {m \in 0..Len(heap) : \E f : NodesUpTo(f, m)}
<1>1. Len(heap) \in Nat
  BY FieldTypes
<1>2. 0 \in T
  <2>1. PICK f : f = [x \in 1..0 |-> {}]
    OBVIOUS
  <2>2. NodesUpTo(f, 0)
    BY <2>1 DEF NodesUpTo
  <2> QED
    BY <2>2, <1>1
<1>3. ASSUME NEW m \in 0..(Len(heap) - 1), m \in T PROVE m + 1 \in T
  <2>1. PICK f : NodesUpTo(f, m)
    BY <1>3
  <2>2. PICK new : new = IF Inner(m + 1) THEN {m + 1} \cup f[lchild(m + 1)] \cup f[rchild(m + 1)]
                         ELSE {m + 1}
    OBVIOUS
  <2>3. PICK g : g = [x \in 1..(m + 1) |-> IF x <= m THEN f[x] ELSE new]
    OBVIOUS
  <2>4. \A x \in 1..m : g[x] = f[x]
    BY <2>3
  <2>5. ASSUME NEW x \in 1..(m + 1)
        PROVE  g[x] = IF Inner(x) THEN {x} \cup g[lchild(x)] \cup g[rchild(x)] ELSE {x}
    <3>1. Inner(x) => g[lchild(x)] = f[lchild(x)] /\ g[rchild(x)] = f[rchild(x)]
      <4> SUFFICES ASSUME Inner(x) PROVE g[lchild(x)] = f[lchild(x)] /\ g[rchild(x)] = f[rchild(x)]
        OBVIOUS
      <4>1. x \in Nodes
        BY <1>1 DEF Nodes
      <4>2. lchild(x) \in 1..(x - 1) /\ rchild(x) \in 1..(x - 1)
        BY <4>1 DEF NodeShape, ShapeOf
      <4>3. 1..(x - 1) \subseteq 1..m
        OBVIOUS
      <4> QED
        BY <4>2, <4>3, <2>4
    <3>2. g[x] = IF Inner(x) THEN {x} \cup f[lchild(x)] \cup f[rchild(x)] ELSE {x}
      <4>1. CASE x \in 1..m
        BY <4>1, <2>1, <2>4 DEF NodesUpTo
      <4>2. CASE x = m + 1
        BY <4>2, <2>2, <2>3
      <4> QED
        BY <4>1, <4>2
    <3> QED
      BY <3>1, <3>2
  <2>6. NodesUpTo(g, m + 1)
    BY <2>3, <2>5 DEF NodesUpTo
  <2> QED
    BY <2>6, <1>1
<1>4. \A m \in 0..Len(heap) : m \in T
  <2> HIDE DEF T
  <2> QED
    BY <1>1, <1>2, <1>3, UpTo
<1> QED
  BY <1>1, <1>4

\* No traversal by child pointers leaves the nodes.
LEMMA BelowAreNodes ==
  ASSUME TypeOK, NodeShape, NEW n \in Nodes
  PROVE  Below(n) \subseteq Nodes
<1>1. PICK f : f = CHOOSE g : NodesUpTo(g, Len(heap))
  OBVIOUS
<1>2. NodesUpTo(f, Len(heap))
  BY <1>1, NodesAreDefined
<1>3. \A x \in Nodes : Below(x) = f[x]
  BY <1>1 DEF Below, NodesUpTo, Nodes
<1> DEFINE T == {m \in 0..Len(heap) : \A x \in 1..m : f[x] \subseteq Nodes}
<1>4. Len(heap) \in Nat
  BY FieldTypes
<1>5. 0 \in T
  BY <1>4
<1>6. ASSUME NEW m \in 0..(Len(heap) - 1), m \in T PROVE m + 1 \in T
  <2>1. m + 1 \in Nodes /\ m + 1 \in 1..Len(heap)
    BY <1>4 DEF Nodes
  <2>2. f[m + 1] = IF Inner(m + 1) THEN {m + 1} \cup f[lchild(m + 1)] \cup f[rchild(m + 1)]
                   ELSE {m + 1}
    BY <2>1, <1>2 DEF NodesUpTo
  <2>3. Inner(m + 1) => lchild(m + 1) \in 1..m /\ rchild(m + 1) \in 1..m
    BY <2>1 DEF NodeShape, ShapeOf
  <2>4. f[m + 1] \subseteq Nodes
    BY <2>1, <2>2, <2>3, <1>6
  <2>5. \A x \in 1..(m + 1) : x \in 1..m \/ x = m + 1
    OBVIOUS
  <2> QED
    BY <2>1, <2>4, <2>5, <1>4, <1>6
<1>7. \A m \in 0..Len(heap) : m \in T
  <2> HIDE DEF T
  <2> QED
    BY <1>4, <1>5, <1>6, UpTo
<1> QED
  BY <1>3, <1>4, <1>7 DEF Nodes

\* A traversal by child pointers meets the leaves of a node's span, in order.
LEMMA LeavesBelowAreSpan ==
  ASSUME IInv, SpansNest, SpansInRange, NEW n \in Nodes
  PROVE  /\ LeavesBelow(n) \in Seq(Nodes) /\ Len(LeavesBelow(n)) = Pow2[LevelOf(n)]
         /\ \A k \in 1..Len(LeavesBelow(n)) : LeavesBelow(n)[k] = leaves[lo(n) + k - 1]
<1>1. PICK f : f = CHOOSE g : LeavesUpTo(g, Len(heap))
  OBVIOUS
<1>2. LeavesUpTo(f, Len(heap)) /\ TypeOK /\ NodeShape
  BY <1>1, LeavesAreDefined DEF IInv
<1>3. \A x \in Nodes : LeavesBelow(x) = f[x]
  BY <1>1 DEF LeavesBelow, LeavesUpTo, Nodes
<1> DEFINE P(x) == /\ f[x] \in Seq(Nodes) /\ hi(x) + 1 = lo(x) + Len(f[x])
                   /\ \A k \in 1..Len(f[x]) : f[x][k] = leaves[lo(x) + k - 1]
           T == {m \in 0..Len(heap) : \A x \in 1..m : P(x)}
<1>4. Len(heap) \in Nat
  BY <1>2, FieldTypes
<1>5. 0 \in T
  BY <1>4
<1>6. ASSUME NEW m \in 0..(Len(heap) - 1), m \in T PROVE m + 1 \in T
  <2>1. PICK x : x = m + 1
    OBVIOUS
  <2>2. x \in Nodes /\ x \in 1..Len(heap)
    BY <2>1, <1>4 DEF Nodes
  <2>3. f[x] = IF Inner(x) THEN f[lchild(x)] \o f[rchild(x)] ELSE <<x>>
    BY <2>2, <1>2 DEF LeavesUpTo
  <2>4. ASSUME ~Inner(x) PROVE P(x)
    <3>1. lo(x) = hi(x) /\ leaves[lo(x)] = x /\ lo(x) \in Nat
      BY <2>2, <2>4, <1>2, SpanFields DEF SpansNest, SpanOf
    <3>2. f[x] = <<x>>
      BY <2>3, <2>4
    <3>3. f[x] \in Seq(Nodes) /\ Len(f[x]) = 1 /\ f[x][1] = x
      BY <2>2, <3>2
    <3> QED
      BY <3>1, <3>3
  <2>5. ASSUME Inner(x) PROVE P(x)
    <3>1. PICK a, b : a = lchild(x) /\ b = rchild(x)
      OBVIOUS
    <3>2. lo(x) = lo(a) /\ hi(a) + 1 = lo(b) /\ hi(b) = hi(x) /\ a \in Nodes /\ b \in Nodes
      BY <2>2, <2>5, <3>1, ChildrenSpan
    <3>3. a \in 1..m /\ b \in 1..m
      <4>1. a \in 1..(x - 1) /\ b \in 1..(x - 1)
        BY <2>2, <2>5, <3>1, <1>2 DEF NodeShape, ShapeOf
      <4>2. x - 1 = m
        BY <2>1
      <4> QED
        BY <4>1, <4>2
    <3>4. P(a) /\ P(b)
      BY <3>3, <1>6
    <3>5. PICK s, t : s = f[a] /\ t = f[b]
      OBVIOUS
    <3>6. f[x] = s \o t /\ s \in Seq(Nodes) /\ t \in Seq(Nodes)
      BY <2>3, <2>5, <3>1, <3>4, <3>5
    <3>7. /\ s \o t \in Seq(Nodes) /\ Len(s \o t) = Len(s) + Len(t)
          /\ \A k \in 1..(Len(s) + Len(t)) :
               (s \o t)[k] = IF k <= Len(s) THEN s[k] ELSE t[k - Len(s)]
          /\ Len(s) \in Nat /\ Len(t) \in Nat
      BY <3>6, ConcatProperties, LenProperties
    <3>8. PICK u, v, w, c, d : /\ u = lo(a) /\ v = lo(b) /\ w = hi(b)
                               /\ c = Len(s) /\ d = Len(t)
      OBVIOUS
    <3>9. u \in Nat /\ v \in Nat /\ w \in Nat /\ c \in Nat /\ d \in Nat
      BY <3>2, <3>7, <3>8, <1>2, SpanFields
    <3>10. v = u + c /\ w + 1 = v + d
      BY <3>2, <3>4, <3>5, <3>8
    <3>11. hi(x) + 1 = lo(x) + (c + d)
      <4>1. hi(x) = w /\ lo(x) = u
        BY <3>2, <3>8
      <4>2. w + 1 = u + (c + d)
        BY <3>9, <3>10
      <4> QED
        BY <4>1, <4>2
    <3>12. ASSUME NEW k \in 1..(c + d) PROVE (s \o t)[k] = leaves[u + k - 1]
      <4>1. CASE k <= c
        <5>1. k \in 1..Len(s) /\ (s \o t)[k] = s[k]
          BY <4>1, <3>7, <3>8, <3>9
        <5> QED
          BY <5>1, <3>4, <3>5, <3>8
      <4>2. CASE ~ (k <= c)
        <5>1. k - c \in 1..d /\ (s \o t)[k] = t[k - c]
          BY <4>2, <3>7, <3>8, <3>9
        <5>2. t[k - c] = leaves[v + (k - c) - 1]
          BY <5>1, <3>4, <3>5, <3>8
        <5>3. v + (k - c) - 1 = u + k - 1
          BY <3>9, <3>10
        <5> QED
          BY <5>1, <5>2, <5>3
      <4> QED
        BY <4>1, <4>2
    <3> QED
      BY <2>1, <3>2, <3>6, <3>7, <3>8, <3>11, <3>12
  <2>6. P(x)
    BY <2>4, <2>5
  <2>7. \A y \in 1..(m + 1) : y \in 1..m \/ y = x
    BY <2>1
  <2>8. m + 1 \in 0..Len(heap)
    BY <1>4
  <2> HIDE DEF P
  <2> QED
    BY <2>6, <2>7, <2>8, <1>6
<1>7. \A m \in 0..Len(heap) : m \in T
  <2> HIDE DEF T
  <2> QED
    BY <1>4, <1>5, <1>6, UpTo
<1>8. P(n)
  <2>1. n \in 1..Len(heap) /\ Len(heap) \in 0..Len(heap)
    BY <1>4 DEF Nodes
  <2> HIDE DEF P
  <2> QED
    BY <2>1, <1>7
<1>9. Len(f[n]) = Pow2[LevelOf(n)]
  <2>1. PICK p : p = Pow2[LevelOf(n)]
    OBVIOUS
  <2>2. hi(n) + 1 = lo(n) + p
    BY <2>1, SpanWidth
  <2>3. p \in Nat /\ lo(n) \in Nat /\ Len(f[n]) \in Nat
    BY <2>1, <1>2, <1>8, Powers, FieldTypes, SpanFields, LenProperties
  <2> QED
    BY <2>1, <2>2, <2>3, <1>8
<1> QED
  BY <1>3, <1>8, <1>9

LEMMA RootIsWhole ==
  ASSUME IInv, OrderInv, SearchInv, CountInv, LeavesInOrder
  PROVE  RootHoldsDataSet
<1> SUFFICES ASSUME Built PROVE RootHoldsDataSet
  BY DEF RootHoldsDataSet
<1>1. PICK root, lv, size, height :
        root = pmhtroot /\ lv = LeavesBelow(root) /\ size = pds.m_size /\ height = LevelOf(root)
  OBVIOUS
<1>2. /\ TypeOK /\ NodeShape /\ SpansNest /\ SpansInRange /\ LeavesAreData
      /\ root # NULL /\ Live = {root} /\ pds # NullDs
      /\ lo(root) = 1 /\ hi(root) = Len(leaves) /\ size <= Len(leaves)
  BY <1>1 DEF IInv, OrderInv, SearchInv, Control, LeafCount, Built, LeavesInOrder
<1>3. /\ root \in Nodes /\ root = tail /\ height \in Nat /\ Len(leaves) \in Nat
      /\ size \in Nat
  BY <1>1, <1>2, LiveSpans, SizeType
<1>4. Len(leaves) = Pow2[height] /\ Len(lv) = Pow2[height]
  <2>1. PICK p : p = Pow2[height]
    OBVIOUS
  <2>2. p \in Nat /\ hi(root) + 1 = lo(root) + p /\ Len(lv) = p
    BY <2>1, <1>1, <1>2, <1>3, Powers, SpanWidth, LeavesBelowAreSpan
  <2> QED
    BY <2>1, <2>2, <1>2, <1>3
<1>5. \A k \in 1..Len(lv) : lv[k] = leaves[k]
  <2> SUFFICES ASSUME NEW k \in 1..Len(lv) PROVE lv[k] = leaves[k]
    OBVIOUS
  <2>1. lv[k] = leaves[lo(root) + k - 1]
    BY <1>1, <1>2, <1>3, LeavesBelowAreSpan
  <2>2. lo(root) + k - 1 = k
    BY <1>2, <1>3, <1>4
  <2> QED
    BY <2>1, <2>2
<1>6. \A k \in 1..Len(leaves) : LeafOf(k)
  BY <1>2 DEF LeavesAreData
<1>7. ASSUME height > 0 PROVE Pow2[height - 1] < size
  <2>1. height - 1 \in Nat /\ (height - 1) + 1 = height
    BY <1>3, <1>7
  <2>2. Pow2[height - 1] \in Nat /\ Pow2[height - 1] > 0 /\ Pow2[height] = 2 * Pow2[height - 1]
    <3>1. Pow2[height - 1] > height - 1
      BY <2>1, Powers
    <3> QED
      BY <2>1, <3>1, Powers
  <2>3. CASE phase = "feed"
    <3>1. Pow2[height] <= size
      BY <2>3, <1>1, <1>2, <1>4 DEF CountInv
    <3> QED
      BY <3>1, <2>2, <1>3
  <2>4. CASE phase = "pad"
    <3>1. LevelOf(tail) = qHeaderLevel + 1 /\ Pow2[qHeaderLevel] < size
      BY <2>4, <1>1, <1>2, <1>3 DEF CountInv
    <3>2. qHeaderLevel = height - 1
      BY <3>1, <1>1, <1>2, <1>3 DEF TypeOK
    <3> QED
      BY <3>1, <3>2
  <2> QED
    BY <2>3, <2>4, <1>2 DEF TypeOK
<1>8. \A n \in Below(root) : Inner(n) =>
        LevelOf(lchild(n)) = LevelOf(n) - 1 /\ LevelOf(rchild(n)) = LevelOf(n) - 1
  BY <1>2, <1>3, BelowAreNodes DEF NodeShape, ShapeOf
<1>9. \A k \in 1..size :
        /\ PageNo(lv[k]) = pds.m_pDE[k].m_index
        /\ m_hash[lv[k]] = LeafHash(pds, pds.m_pDE[k])
  <2> SUFFICES ASSUME NEW k \in 1..size
               PROVE  /\ PageNo(lv[k]) = pds.m_pDE[k].m_index
                      /\ m_hash[lv[k]] = LeafHash(pds, pds.m_pDE[k])
    OBVIOUS
  <2>1. k \in 1..Len(leaves) /\ k <= pds.m_size
    BY <1>1, <1>2, <1>3
  <2> QED
    BY <2>1, <1>4, <1>5, <1>6 DEF LeafOf
<1>10. \A k \in (size + 1)..Len(lv) : m_hash[lv[k]] = g_zeroHash
  <2> SUFFICES ASSUME NEW k \in (size + 1)..Len(lv) PROVE m_hash[lv[k]] = g_zeroHash
    OBVIOUS
  <2>1. k \in 1..Len(leaves) /\ ~ (k <= pds.m_size)
    <3>1. PICK s, e : s = size /\ e = Len(lv)
      OBVIOUS
    <3>2. s \in Nat /\ e \in Nat /\ k \in (s + 1)..e /\ e = Len(leaves) /\ s = pds.m_size
      BY <3>1, <1>1, <1>3, <1>4
    <3>3. k \in 1..e /\ ~ (k <= s)
      BY <3>2
    <3> QED
      BY <3>2, <3>3
  <2> QED
    BY <2>1, <1>4, <1>5, <1>6 DEF LeafOf
<1>11. size <= Pow2[height]
  BY <1>2, <1>4
<1> QED
  BY <1>1, <1>4, <1>7, <1>8, <1>9, <1>10, <1>11 DEF RootHoldsDataSet

\* For every data set, the tree create_mht_from_ordered_ds hands out is perfect; read
\* off its child pointers, its leaves are the data set's elements in order and then
\* padding; and no lower tree would have had room for the data set.
THEOREM TreeIsWhole == Spec => []RootHoldsDataSet
BY RootIsWhole, Inductive, OrderIsKept, SearchIsKept, CountIsKept, NothingIsReordered, PTL

-----------------------------------------------------------------------------
(* The queue is a binary counter *)

LEMMA Quotient ==
  ASSUME NEW p \in Nat \ {0}, NEW j \in Nat, NEW r \in Nat, r < p
  PROVE  (j * p + r) \div p = j
OBVIOUS

\* A live node that is not the first has one before it, whose span ends where its own starts.
LEMMA PreviousLive ==
  ASSUME IInv, OrderInv, SearchInv, NEW n \in Live, NEW first \in Live, first < n
  PROVE  \E m \in Live : m < n /\ hi(m) + 1 = lo(n)
<1>1. Live \subseteq 1..Len(heap) /\ Len(heap) \in Nat
  BY FieldTypes DEF IInv, Live, Nodes
<1>2. PICK D : D = {z \in Live : z < n}
  OBVIOUS
<1>3. D \in SUBSET (1..Len(heap)) /\ D # {}
  BY <1>1, <1>2
<1>4. PICK m \in D : \A j \in D : j <= m
  BY <1>1, <1>3, LastPosition
<1>5. \A z \in Live : z <= m \/ n <= z
  BY <1>1, <1>2, <1>4
<1>6. m \in Live /\ Neighbours(m, n)
  BY <1>2, <1>4, <1>5 DEF Neighbours
<1> QED
  BY <1>2, <1>4, <1>6 DEF OrderInv, LiveSpansAdjoin

\* The leaves before a live node are a multiple of twice what it spans.
LEMMA SpanStartsEven ==
  ASSUME IInv, OrderInv, SearchInv, pc \in {"for", "pad"}, NEW n \in Live
  PROVE  \E j \in Nat : lo(n) - 1 = j * (2 * Pow2[LevelOf(n)])
<1> DEFINE Even(x) == \E j \in Nat : lo(x) - 1 = j * (2 * Pow2[LevelOf(x)])
           D == {x \in Live : ~Even(x)}
<1>1. Live \subseteq Nat
  BY LiveSpans
<1> SUFFICES ASSUME D # {} PROVE FALSE
  OBVIOUS
<1>2. PICK x \in D : \A v \in D : ~ (<<v, x>> \in OpToRel(<, Nat))
  <2>1. D \in SUBSET Nat
    BY <1>1
  <2> HIDE DEF D
  <2> QED
    BY <2>1, NatLessThanWellFounded, WFMin
<1>3. \A v \in D : ~ (v < x)
  <2>1. D \in SUBSET Nat
    BY <1>1
  <2> HIDE DEF D
  <2> QED
    BY <2>1, <1>2 DEF OpToRel
<1>4. x \in Live /\ x \in Nat /\ ~Even(x) /\ LevelOf(x) \in Nat
  BY <1>1, <1>2, LiveSpans
<1>5. CASE \A z \in Live : x <= z
  <2>1. lo(x) = 1
    BY <1>4, <1>5 DEF OrderInv, LiveSpansAdjoin
  <2>2. PICK p : p = Pow2[LevelOf(x)]
    OBVIOUS
  <2>3. p \in Nat
    BY <2>2, <1>4, Powers
  <2>4. lo(x) - 1 = 0 * (2 * p)
    BY <2>1, <2>3
  <2> QED
    BY <2>2, <2>4, <1>4
<1>6. CASE ~ \A z \in Live : x <= z
  <2>1. PICK m \in Live : m < x /\ hi(m) + 1 = lo(x)
    <3>1. PICK z \in Live : z < x
      BY <1>1, <1>4, <1>6
    <3> QED
      BY <3>1, <1>4, PreviousLive
  <2>2. /\ LevelOf(m) \in Nat /\ lo(m) \in Nat /\ hi(m) \in Nat
        /\ hi(m) + 1 = lo(m) + Pow2[LevelOf(m)] /\ m \in Nat
    BY <1>1, LiveSpans, SMTT(30)
  <2>3. LevelOf(m) > LevelOf(x)
    BY <2>1, <1>4 DEF IInv, LevelsFall
  <2>4. Even(m)
    <3>1. ~ (m \in D)
      BY <2>1, <1>3
    <3> QED
      BY <3>1
  <2>5. PICK j \in Nat : lo(m) - 1 = j * (2 * Pow2[LevelOf(m)])
    BY <2>4
  <2>6. PICK k \in Nat : Pow2[LevelOf(m)] = k * Pow2[LevelOf(x) + 1]
    <3>1. LevelOf(x) + 1 \in Nat /\ LevelOf(x) + 1 <= LevelOf(m)
      BY <1>4, <2>2, <2>3
    <3> QED
      BY <3>1, <2>2, PowerDivides
  <2>7. PICK p, q, u, v : /\ p = Pow2[LevelOf(m)] /\ q = Pow2[LevelOf(x)]
                          /\ u = lo(m) /\ v = lo(x)
    OBVIOUS
  <2>8. p \in Nat /\ q \in Nat /\ u \in Nat /\ v \in Nat /\ p = k * (2 * q)
    BY <1>4, <2>1, <2>2, <2>6, <2>7, Powers
  <2>9. v = u + p /\ u - 1 = j * (2 * p)
    BY <2>1, <2>2, <2>5, <2>7
  <2>10. v - 1 = (2 * j + 1) * p
    BY <2>8, <2>9
  <2>11. v - 1 = ((2 * j + 1) * k) * (2 * q) /\ (2 * j + 1) * k \in Nat
    BY <2>8, <2>10
  <2> QED
    BY <2>7, <2>11, <1>4
<1> QED
  BY <1>5, <1>6

\* Where a live node's span ends: an odd multiple of what it spans.
LEMMA SpanEndsOdd ==
  ASSUME IInv, OrderInv, SearchInv, pc \in {"for", "pad"}, NEW n \in Live
  PROVE  \E j \in Nat : hi(n) = (2 * j + 1) * Pow2[LevelOf(n)]
<1>1. PICK j \in Nat : lo(n) - 1 = j * (2 * Pow2[LevelOf(n)])
  BY SpanStartsEven
<1>2. PICK p, u, w : p = Pow2[LevelOf(n)] /\ u = lo(n) /\ w = hi(n)
  OBVIOUS
<1>3. p \in Nat /\ u \in Nat /\ w \in Nat /\ w + 1 = u + p
  <2>1. LevelOf(n) \in Nat /\ lo(n) \in 1..hi(n) /\ hi(n) \in Nat /\ hi(n) + 1 = lo(n) + Pow2[LevelOf(n)]
    BY LiveSpans
  <2>2. p \in Nat
    BY <1>2, <2>1, Powers
  <2> QED
    BY <1>2, <2>1, <2>2
<1>4. u - 1 = j * (2 * p)
  BY <1>1, <1>2
<1>5. w = (2 * j + 1) * p
  BY <1>3, <1>4
<1> QED
  BY <1>2, <1>5

\* A live node's level is a bit of the number of leaves.
LEMMA LevelsAreBits ==
  ASSUME IInv, OrderInv, SearchInv, pc \in {"for", "pad"}, NEW n \in Live
  PROVE  /\ LevelOf(n) \in 0..Len(leaves)
         /\ (Len(leaves) \div Pow2[LevelOf(n)]) % 2 = 1
<1>1. PICK j \in Nat : hi(n) = (2 * j + 1) * Pow2[LevelOf(n)]
  BY SpanEndsOdd
<1>2. PICK p, w, e : p = Pow2[LevelOf(n)] /\ w = hi(n) /\ e = Len(leaves)
  OBVIOUS
<1>3. /\ p \in Nat /\ w \in Nat /\ e \in Nat /\ w <= e /\ e - w < p
      /\ LevelOf(n) \in Nat /\ LevelOf(n) < p
  BY <1>2, LiveSpans, RestIsSmaller, Powers
<1>4. w = (2 * j + 1) * p
  BY <1>1, <1>2
<1>5. p <= w
  BY <1>3, <1>4
<1>6. e \div p = 2 * j + 1
  <2>1. PICK k, r : k = 2 * j + 1 /\ r = e - w
    OBVIOUS
  <2>2. k \in Nat /\ r \in Nat /\ r < p /\ p \in Nat \ {0} /\ e = k * p + r
    BY <2>1, <1>3, <1>4
  <2>3. (k * p + r) \div p = k
    BY <2>2, Quotient
  <2> QED
    BY <2>1, <2>2, <2>3
<1>7. (2 * j + 1) % 2 = 1
  OBVIOUS
<1> QED
  BY <1>2, <1>3, <1>5, <1>6, <1>7

\* The leaves behind the live nodes of higher level, if there is none of level b, are
\* fewer than 2^b, and the others a multiple of twice as many.
LEMMA NoLevelNoBit ==
  ASSUME IInv, OrderInv, SearchInv, pc \in {"for", "pad"}, NEW b \in Nat,
         \A n \in Live : LevelOf(n) # b
  PROVE  (Len(leaves) \div Pow2[b]) % 2 # 1
<1>1. PICK p, e : p = Pow2[b] /\ e = Len(leaves)
  OBVIOUS
<1>2. p \in Nat \ {0} /\ e \in Nat
  <2>1. p \in Nat /\ p > b
    BY <1>1, Powers
  <2> QED
    BY <2>1, <1>1, LiveSpans
<1>3. PICK S : S = {x \in Live : LevelOf(x) > b}
  OBVIOUS
<1>4. ASSUME NEW x \in Live, LevelOf(x) < b PROVE e - hi(x) + Pow2[LevelOf(x)] < p
  <2>1. PICK q, w : q = Pow2[LevelOf(x)] /\ w = hi(x)
    OBVIOUS
  <2>2. LevelOf(x) \in Nat /\ q \in Nat /\ w \in Nat /\ e - w < q
    BY <2>1, <1>1, LiveSpans, RestIsSmaller, Powers
  <2>3. 2 * q <= p
    <3>1. LevelOf(x) + 1 \in Nat /\ LevelOf(x) + 1 <= b
      BY <2>2, <1>4
    <3> QED
      BY <3>1, <2>1, <2>2, <1>1, Powers, PowerDivides
  <2> QED
    BY <2>1, <2>2, <2>3, <1>2
<1>5. \E j, r \in Nat : r < p /\ e = (2 * j) * p + r
  <2>1. CASE S = {}
    <3>1. CASE Live = {}
      <4>1. e = 0
        BY <3>1, <1>1, LiveAndLeaves
      <4>2. e = (2 * 0) * p + 0
        BY <4>1, <1>2
      <4> QED
        BY <4>2, <1>2
    <3>2. CASE Live # {}
      <4>1. PICK m \in Live : \A z \in Live : m <= z
        <5>1. PICK m \in Live : \A v \in Live : ~ (<<v, m>> \in OpToRel(<, Nat))
          <6>1. Live \in SUBSET Nat
            BY LiveSpans
          <6> QED
            BY <6>1, <3>2, NatLessThanWellFounded, WFMin
        <5>2. Live \subseteq Nat
          BY LiveSpans
        <5>3. \A v \in Live : ~ (v < m)
          BY <5>1, <5>2 DEF OpToRel
        <5> QED
          BY <5>2, <5>3
      <4>2. lo(m) = 1 /\ LevelOf(m) \in Nat /\ hi(m) \in Nat /\ hi(m) + 1 = 1 + Pow2[LevelOf(m)]
        BY <4>1, LiveSpans DEF OrderInv, LiveSpansAdjoin
      <4>3. LevelOf(m) < b
        <5>1. ~ (LevelOf(m) > b) /\ LevelOf(m) # b
          BY <2>1, <1>3
        <5> QED
          BY <5>1, <4>2
      <4>4. e - hi(m) + Pow2[LevelOf(m)] < p
        BY <4>3, <1>4
      <4>5. PICK q : q = Pow2[LevelOf(m)]
        OBVIOUS
      <4>6. q \in Nat /\ hi(m) = q
        <5>1. q \in Nat
          BY <4>2, <4>5, Powers
        <5> QED
          BY <5>1, <4>2, <4>5
      <4>7. e < p
        BY <4>4, <4>5, <4>6, <1>2
      <4>8. e = (2 * 0) * p + e
        BY <1>2
      <4> QED
        BY <4>7, <4>8, <1>2
    <3> QED
      BY <3>1, <3>2
  <2>2. CASE S # {}
    <3>1. PICK n \in S : \A j \in S : j <= n
      <4>1. S \in SUBSET (1..Len(heap)) /\ Len(heap) \in Nat
        BY <1>3, FieldTypes DEF IInv, Live, Nodes
      <4> QED
        BY <4>1, <2>2, LastPosition
    <3>2. n \in Live /\ LevelOf(n) > b /\ LevelOf(n) \in Nat /\ hi(n) \in Nat /\ n \in Nat
      BY <3>1, <1>3, LiveSpans
    <3>3. PICK j \in Nat : hi(n) = (2 * j + 1) * Pow2[LevelOf(n)]
      BY <3>2, SpanEndsOdd
    <3>4. PICK k \in Nat : Pow2[LevelOf(n)] = k * Pow2[b + 1]
      <4>1. b + 1 \in Nat /\ b + 1 <= LevelOf(n)
        BY <3>2
      <4> QED
        BY <4>1, <3>2, PowerDivides
    <3>5. PICK q, w : q = Pow2[LevelOf(n)] /\ w = hi(n)
      OBVIOUS
    <3>6. q \in Nat /\ w \in Nat /\ w = (2 * j + 1) * q /\ q = k * (2 * p)
      BY <3>2, <3>3, <3>4, <3>5, <1>1, Powers
    <3>7. PICK c : c = (2 * j + 1) * k
      OBVIOUS
    <3>8. c \in Nat /\ w = (2 * c) * p
      BY <3>6, <3>7, <1>2
    <3>9. w <= e /\ e - w < p
      <4>1. CASE n = tail
        <5>1. w = e
          BY <4>1, <3>2, <3>5, <1>1, LiveSpans
        <5> QED
          BY <5>1, <1>2
      <4>2. CASE n # tail
        <5>1. PICK m \in Live : n < m /\ hi(n) + 1 = lo(m)
          BY <4>2, <3>2, NextLive
        <5>2. /\ LevelOf(m) \in Nat /\ hi(m) \in Nat /\ lo(m) \in Nat /\ m \in Nat
              /\ hi(m) + 1 = lo(m) + Pow2[LevelOf(m)] /\ hi(m) <= e
          BY <1>1, LiveSpans
        <5>3. LevelOf(m) < b
          <6>1. ~ (m \in S)
            BY <5>1, <5>2, <3>1, <3>2
          <6> QED
            BY <6>1, <5>2, <1>3
        <5>4. e - hi(m) + Pow2[LevelOf(m)] < p
          BY <5>3, <1>4
        <5>5. PICK s, h : s = Pow2[LevelOf(m)] /\ h = hi(m)
          OBVIOUS
        <5>6. s \in Nat /\ h \in Nat /\ h = w + s /\ h <= e /\ e - h + s < p
          <6>1. s \in Nat /\ h \in Nat /\ h <= e /\ e - h + s < p /\ h + 1 = (w + 1) + s
            BY <5>1, <5>2, <5>4, <5>5, <3>5, Powers
          <6> QED
            BY <6>1, <3>6
        <5> QED
          BY <5>6, <3>6, <1>2
      <4> QED
        BY <4>1, <4>2
    <3>10. PICK r : r = e - w
      OBVIOUS
    <3>11. r \in Nat /\ r < p /\ e = (2 * c) * p + r
      BY <3>6, <3>8, <3>9, <3>10, <1>2
    <3> QED
      BY <3>8, <3>11
  <2> QED
    BY <2>1, <2>2
<1>6. PICK j \in Nat, r \in Nat : r < p /\ e = (2 * j) * p + r
  BY <1>5
<1>7. e \div p = 2 * j
  <2>1. 2 * j \in Nat
    OBVIOUS
  <2>2. PICK k : k = 2 * j
    OBVIOUS
  <2>3. (k * p + r) \div p = k
    BY <2>1, <2>2, <1>2, <1>6, Quotient
  <2> QED
    BY <2>2, <2>3, <1>6
<1>8. (2 * j) % 2 = 0
  OBVIOUS
<1> QED
  BY <1>1, <1>7, <1>8

LEMMA QueueCounts ==
  ASSUME IInv, OrderInv, SearchInv
  PROVE  QueueCountsLeaves
<1> SUFFICES ASSUME pc = "for" PROVE QueueCountsLeaves
  BY DEF QueueCountsLeaves
<1>1. Len(leaves) = i /\ i \in Nat
  BY LiveSpans DEF IInv, Control, OrderInv, LeafCount
<1>2. \A n \in Live : LevelOf(n) \in 0..i /\ (i \div Pow2[LevelOf(n)]) % 2 = 1
  BY <1>1, LevelsAreBits
<1>3. \A b \in 0..i : (i \div Pow2[b]) % 2 = 1 => \E n \in Live : LevelOf(n) = b
  BY <1>1, NoLevelNoBit
<1>4. {LevelOf(n) : n \in Live} = {b \in 0..i : (i \div Pow2[b]) % 2 = 1}
  BY <1>2, <1>3
<1>5. \A m, n \in Live : m < n => LevelOf(m) > LevelOf(n)
  BY DEF IInv, LevelsFall
<1>6. Live \subseteq {queue[k] : k \in 1..Len(queue)}
  <2> SUFFICES ASSUME NEW n \in Live PROVE \E k \in 1..Len(queue) : n = queue[k]
    OBVIOUS
  <2>1. /\ n \in 1..Len(heap) /\ Len(heap) \in Nat /\ Len(queue) \in Nat
        /\ Len(queue) <= Len(heap) /\ front <= n
    BY FieldTypes DEF IInv, QueueIsSuffix, LiveAreQueued, Live, Nodes
  <2>2. PICK k : k = n - (Len(heap) - Len(queue))
    OBVIOUS
  <2>3. k \in 1..Len(queue) /\ Len(heap) - Len(queue) + k = n
    BY <2>1, <2>2 DEF front
  <2>4. queue[k] = n
    BY <2>3 DEF IInv, QueueIsSuffix
  <2> QED
    BY <2>3, <2>4
<1> QED
  BY <1>4, <1>5, <1>6 DEF QueueCountsLeaves

\* For every data set, between two leaves the trees in the queue are the binary digits
\* of the number of leaves fed: process_queue combines exactly where a counter carries.
THEOREM QueueIsCounter == Spec => []QueueCountsLeaves
BY QueueCounts, Inductive, OrderIsKept, SearchIsKept, PTL

=============================================================================
