--------------------------- MODULE MhtBuildProofs ---------------------------
(***************************************************************************)
(* Proofs that every behaviour of MhtBuild, for every data set, keeps the  *)
(* types and ends with one tree that holds every node allocated.           *)
(***************************************************************************)
EXTENDS MhtBuildProps, SequenceTheorems, WellFoundedInduction, TLAPS

-----------------------------------------------------------------------------
(* Data *)

\* A set of positions that is not empty has a last one.
LEMMA LastPosition ==
  ASSUME NEW n \in Nat, NEW T \in SUBSET (1..n), T # {}
  PROVE  \E k \in T : \A j \in T : j <= k
<1> DEFINE U == {n - k : k \in T}
<1>1. U \in SUBSET Nat /\ U # {}
  <2>1. \A k \in T : n - k \in Nat
    OBVIOUS
  <2>2. U \subseteq Nat
    BY <2>1
  <2>3. U # {}
    BY Zenon
  <2> QED
    BY <2>2, <2>3
<1>2. PICK u \in U : \A v \in U : ~ (<<v, u>> \in OpToRel(<, Nat))
  BY <1>1, NatLessThanWellFounded, WFMin
<1>3. \A v \in U : ~ (v < u)
  BY <1>1, <1>2 DEF OpToRel
<1>4. PICK k \in T : u = n - k
  OBVIOUS
<1>5. ASSUME NEW j \in T PROVE j <= k
  <2>1. n - j \in U
    OBVIOUS
  <2>2. ~ (n - j < n - k)
    BY <2>1, <1>3, <1>4
  <2> QED
    BY <2>2
<1> QED
  BY <1>5

\* A set with 0 and the successor of each of its members below n holds 0 to n.
LEMMA UpTo ==
  ASSUME NEW n \in Nat, NEW T, 0 \in T, \A k \in 0..(n - 1) : k \in T => k + 1 \in T
  PROVE  \A k \in 0..n : k \in T
<1> SUFFICES ASSUME NEW c \in 0..n, c \notin T PROVE FALSE
  OBVIOUS
<1>1. PICK D : D = {k \in 0..n : k \notin T}
  OBVIOUS
<1>2. D \in SUBSET Nat /\ D # {}
  BY <1>1
<1>3. PICK u \in D : \A v \in D : ~ (<<v, u>> \in OpToRel(<, Nat))
  BY <1>2, NatLessThanWellFounded, WFMin
<1>4. \A v \in D : ~ (v < u)
  BY <1>2, <1>3 DEF OpToRel
<1>5. u \in 0..n /\ u \notin T /\ u # 0
  BY <1>1
<1>6. u - 1 \in 0..(n - 1) /\ u - 1 \in 0..n /\ u - 1 < u /\ (u - 1) + 1 = u
  BY <1>5
<1>7. u - 1 \in T
  BY <1>1, <1>4, <1>6
<1> QED
  BY <1>5, <1>6, <1>7

\* The fields of a node, and the queue's elements, have their types.
LEMMA FieldTypes ==
  ASSUME TypeOK
  PROVE  /\ Len(heap) \in Nat /\ Len(queue) \in Nat
         /\ \A n \in Nodes : /\ PageNo(n) \in Int /\ LevelOf(n) \in Nat
                             /\ lchild(n) \in Nat /\ rchild(n) \in Nat
                             /\ heap[n] \in Node
         /\ \A k \in 1..Len(queue) : queue[k] \in Nodes
<1>1. heap \in Seq(Node) /\ queue \in Seq(Nodes)
  BY DEF TypeOK
<1>2. Len(heap) \in Nat /\ Len(queue) \in Nat
  BY <1>1, LenProperties
<1>3. \A n \in Nodes : heap[n] \in Node
  BY <1>1, ElementOfSeq DEF Nodes
<1>4. \A k \in 1..Len(queue) : queue[k] \in Nodes
  BY <1>1, ElementOfSeq
<1> QED
  BY <1>2, <1>3, <1>4 DEF Node, PageNo, LevelOf, lchild, rchild

\* The last leaf's page number is an int.
LEMMA LastLeafIndexType ==
  ASSUME TypeOK
  PROVE  get_the_last_leaf_node_index \in Int
<1> DEFINE at == {k \in 1..Len(queue) : LevelOf(queue[k]) = NODELEVEL_LEAF}
           last == CHOOSE k \in at : \A j \in at : j <= k
<1>1. UNASSIGNED_INDEX \in Int
  BY IntAssumption DEF UNASSIGNED_INDEX
<1>2. ASSUME at # {} PROVE heap[queue[last]].m_pageNo \in Int
  <2>1. Len(queue) \in Nat
    BY FieldTypes
  <2>2. \E k \in at : \A j \in at : j <= k
    BY <2>1, <1>2, LastPosition
  <2>3. last \in 1..Len(queue)
    BY <2>2
  <2> QED
    BY <2>3, FieldTypes DEF PageNo
<1> QED
  BY <1>1, <1>2 DEF get_the_last_leaf_node_index

-----------------------------------------------------------------------------
(* What a step does to the nodes *)

Span == [lo : Nat, hi : Nat]

\* Enqueue allocates one node and puts it at the end of the queue.
LEMMA EnqueueStep ==
  ASSUME TypeOK, QueueIsSuffix,
         NEW node \in Node, NEW h, NEW sp \in Span,
         Enqueue(node, h, sp)
  PROVE  /\ heap' \in Seq(Node) /\ queue' \in Seq(Nodes') /\ span' \in Seq(Span)
         /\ Len(span') = Len(heap') /\ DOMAIN m_hash' = Nodes'
         /\ Len(heap') = Len(heap) + 1 /\ Len(queue') = Len(queue) + 1
         /\ \A n \in Nodes : heap'[n] = heap[n]
         /\ heap'[Len(heap) + 1] = node
         /\ \A k \in 1..Len(queue) : queue'[k] = queue[k]
         /\ queue'[Len(queue) + 1] = Len(heap) + 1
         /\ QueueIsSuffix'
<1> DEFINE new == Len(heap) + 1
<1>1. heap \in Seq(Node) /\ queue \in Seq(Nodes) /\ span \in Seq(Span)
  BY DEF TypeOK, Span
<1>2. heap' = Append(heap, node) /\ queue' = Append(queue, new)
      /\ span' = Append(span, sp) /\ DOMAIN m_hash' = 1..new
  BY DEF Enqueue
<1>3. /\ heap' \in Seq(Node) /\ Len(heap') = new /\ heap'[new] = node
      /\ \A n \in Nodes : heap'[n] = heap[n]
  BY <1>1, <1>2, AppendProperties DEF Nodes
<1>4. Len(heap) \in Nat /\ Len(queue) \in Nat
  BY FieldTypes
<1>5. Nodes' = 1..new /\ Nodes \subseteq 1..new /\ new \in 1..new
  BY <1>3, <1>4 DEF Nodes
<1>6. queue \in Seq(1..new)
  BY <1>1, <1>5, SeqMonotonic
<1>7. /\ queue' \in Seq(1..new) /\ Len(queue') = Len(queue) + 1
      /\ \A k \in 1..Len(queue) : queue'[k] = queue[k]
      /\ queue'[Len(queue) + 1] = new
  BY <1>2, <1>5, <1>6, AppendProperties
<1>8. span' \in Seq(Span) /\ Len(span') = Len(heap')
  BY <1>1, <1>2, <1>3, AppendProperties DEF TypeOK
<1>9. QueueIsSuffix'
  <2>1. Len(queue') <= Len(heap')
    BY <1>3, <1>4, <1>7 DEF QueueIsSuffix
  <2>2. ASSUME NEW k \in 1..Len(queue') PROVE queue'[k] = Len(heap') - Len(queue') + k
    <3>1. CASE k = Len(queue) + 1
      BY <3>1, <1>3, <1>4, <1>7
    <3>2. CASE k \in 1..Len(queue)
      <4>1. queue'[k] = queue[k]
        BY <3>2, <1>7
      <4>2. queue[k] = Len(heap) - Len(queue) + k
        BY <3>2 DEF QueueIsSuffix
      <4>3. Len(heap') = Len(heap) + 1 /\ Len(queue') = Len(queue) + 1
        BY <1>3, <1>7
      <4> QED
        BY <4>1, <4>2, <4>3, <1>4
    <3> QED
      BY <3>1, <3>2, <1>4, <1>7
  <2> QED
    BY <2>1, <2>2 DEF QueueIsSuffix
<1> QED
  BY <1>2, <1>3, <1>5, <1>7, <1>8, <1>9

\* A node's children are older than it.
LEMMA ChildrenAreOlder ==
  ASSUME TypeOK, NodeShape, NEW n \in Nodes
  PROVE  /\ lchild(n) \in 0..(n - 1) /\ rchild(n) \in 0..(n - 1)
         /\ Inner(n) => lchild(n) \in Nodes /\ rchild(n) \in Nodes
<1>1. Len(heap) \in Nat /\ n \in Nat /\ n >= 1 /\ n <= Len(heap)
  BY FieldTypes DEF Nodes
<1>2. CASE Inner(n)
  <2>1. lchild(n) \in 1..(n - 1) /\ rchild(n) \in 1..(n - 1)
    BY <1>2 DEF NodeShape, ShapeOf
  <2> QED
    BY <1>1, <2>1 DEF Nodes
<1>3. CASE ~Inner(n)
  <2>1. lchild(n) = 0 /\ rchild(n) = 0
    BY <1>3 DEF NodeShape, ShapeOf, NULL
  <2> QED
    BY <1>1, <1>3, <2>1
<1> QED
  BY <1>2, <1>3

\* What a step must keep of the nodes there are.
NodesKept ==
  \A n \in Nodes : LevelOf(n)' = LevelOf(n) /\ lchild(n)' = lchild(n) /\ rchild(n)' = rchild(n)

\* A node keeps its shape in a step that keeps the nodes, new nodes or none.
LEMMA ShapeKept ==
  ASSUME TypeOK, NodeShape, NodesKept, NEW n \in Nodes
  PROVE  ShapeOf(n)'
<1>1. Inner(n)' = Inner(n)
  BY DEF NodesKept, Inner, LevelOf
<1>2. CASE Inner(n)
  <2>1. PICK l, r : l = lchild(n) /\ r = rchild(n)
    OBVIOUS
  <2>2. /\ l \in 1..(n - 1) /\ LevelOf(l) = LevelOf(n) - 1
        /\ r \in 1..(n - 1) /\ LevelOf(r) = LevelOf(n) - 1
    BY <1>2, <2>1 DEF NodeShape, ShapeOf
  <2>3. l \in Nodes /\ r \in Nodes
    BY <1>2, <2>1, ChildrenAreOlder
  <2>4. lchild(n)' = l /\ rchild(n)' = r
    BY <2>1 DEF NodesKept
  <2>5. LevelOf(l)' = LevelOf(l) /\ LevelOf(r)' = LevelOf(r) /\ LevelOf(n)' = LevelOf(n)
    BY <2>3 DEF NodesKept
  <2>6. LevelOf(lchild(n))' = LevelOf(l)' /\ LevelOf(rchild(n))' = LevelOf(r)'
    BY <2>4 DEF LevelOf
  <2> QED
    BY <1>1, <1>2, <2>2, <2>4, <2>5, <2>6 DEF ShapeOf
<1>3. CASE ~Inner(n)
  BY <1>1, <1>3 DEF NodeShape, ShapeOf, NodesKept
<1> QED
  BY <1>2, <1>3

\* A step that keeps the nodes and allocates none keeps which of them are live.
LEMMA SameShape ==
  ASSUME TypeOK, NodeShape, NodesKept, Len(heap') = Len(heap)
  PROVE  Nodes' = Nodes /\ Live' = Live /\ tail' = tail /\ NodeShape'
<1>1. Nodes' = Nodes /\ tail' = tail
  BY DEF Nodes, tail
<1>2. Live' = Live
  BY <1>1 DEF Live, NodesKept
<1>3. NodeShape'
  BY <1>1, ShapeKept DEF NodeShape
<1> QED
  BY <1>1, <1>2, <1>3

\* EnqueueLeaf allocates a leaf: the live nodes are those before and the leaf.
LEMMA EnqueueLeafStep ==
  ASSUME TypeOK, QueueIsSuffix, NodeShape,
         NEW node \in Node, NEW h,
         node.m_level = NODELEVEL_LEAF, node.m_lchild = NULL, node.m_rchild = NULL,
         EnqueueLeaf(node, h)
  PROVE  /\ heap' \in Seq(Node) /\ queue' \in Seq(Nodes') /\ span' \in Seq(Span)
         /\ Len(span') = Len(heap') /\ leaves' \in Seq(Nodes') /\ DOMAIN m_hash' = Nodes'
         /\ Len(heap') = Len(heap) + 1 /\ Len(queue') = Len(queue) + 1
         /\ \A n \in Nodes : LevelOf(n)' = LevelOf(n)
         /\ LevelOf(tail)' = 0
         /\ Live' = Live \cup {tail'}
         /\ QueueIsSuffix' /\ NodeShape'
<1>1. leaves \in Seq(Nodes) /\ Len(leaves) \in Nat
  BY LenProperties DEF TypeOK
<1>2. PICK new : new = Len(heap) + 1
  OBVIOUS
<1>3. PICK ord : ord = Len(leaves) + 1
  OBVIOUS
<1>4. [lo |-> ord, hi |-> ord] \in Span
  BY <1>1, <1>3 DEF Span
<1>5. Enqueue(node, h, [lo |-> ord, hi |-> ord]) /\ leaves' = Append(leaves, new)
  BY <1>2, <1>3 DEF EnqueueLeaf
<1>6. /\ heap' \in Seq(Node) /\ queue' \in Seq(Nodes') /\ span' \in Seq(Span)
      /\ Len(span') = Len(heap') /\ DOMAIN m_hash' = Nodes'
      /\ Len(heap') = new /\ Len(queue') = Len(queue) + 1
      /\ \A n \in Nodes : heap'[n] = heap[n]
      /\ heap'[new] = node
      /\ QueueIsSuffix'
  BY <1>2, <1>4, <1>5, EnqueueStep
<1>7. Len(heap) \in Nat /\ tail' = new
  BY <1>6, FieldTypes DEF tail
<1>8. Nodes' = Nodes \cup {new} /\ new \in Nodes' /\ new \notin Nodes
  BY <1>2, <1>6, <1>7 DEF Nodes
<1>9. leaves' \in Seq(Nodes')
  <2>1. leaves \in Seq(Nodes')
    BY <1>1, <1>8, SeqMonotonic
  <2> QED
    BY <2>1, <1>5, <1>8, AppendProperties
<1>10. /\ \A n \in Nodes : /\ LevelOf(n)' = LevelOf(n) /\ lchild(n)' = lchild(n)
                           /\ rchild(n)' = rchild(n) /\ Inner(n)' = Inner(n)
       /\ LevelOf(new)' = 0 /\ lchild(new)' = NULL /\ rchild(new)' = NULL /\ ~Inner(new)'
  BY <1>6 DEF LevelOf, lchild, rchild, Inner, NODELEVEL_LEAF
<1>11. Live' = Live \cup {new}
  <2>1. \A n \in Nodes' : (\A q \in Nodes' : lchild(q)' # n /\ rchild(q)' # n) <=>
                          (\A q \in Nodes : lchild(q) # n /\ rchild(q) # n)
    <3>1. \A n \in Nodes' : n # NULL
      BY <1>6, <1>7 DEF Nodes, NULL
    <3> QED
      BY <3>1, <1>8, <1>10
  <2>2. \A q \in Nodes : lchild(q) # new /\ rchild(q) # new
    <3> SUFFICES ASSUME NEW q \in Nodes PROVE lchild(q) # new /\ rchild(q) # new
      OBVIOUS
    <3>1. lchild(q) \in 0..(q - 1) /\ rchild(q) \in 0..(q - 1)
      BY ChildrenAreOlder
    <3> QED
      BY <3>1, <1>2, <1>7 DEF Nodes
  <2> QED
    BY <2>1, <2>2, <1>8 DEF Live
<1>12. NodeShape'
  <2>1. NodesKept
    BY <1>10 DEF NodesKept
  <2>2. \A n \in Nodes : ShapeOf(n)'
    BY <2>1, ShapeKept
  <2>3. ShapeOf(new)'
    BY <1>10 DEF ShapeOf
  <2> QED
    BY <2>2, <2>3, <1>8 DEF NodeShape
<1> QED
  BY <1>2, <1>6, <1>7, <1>9, <1>10, <1>11, <1>12

\* Where the cursor, the cell it looks back on and the end of the queue are.
LEMMA Positions ==
  ASSUME TypeOK, QueueIsSuffix, queue # <<>>
  PROVE  /\ Len(queue) \in Nat \ {0} /\ Len(heap) \in Nat \ {0}
         /\ Len(queue) <= Len(heap)
         /\ tail \in Nodes /\ pQ = tail /\ Head(queue) = front
         /\ front \in Nodes /\ front <= tail
         /\ cur > 1 /\ cur <= Len(queue) + 1 =>
              lookBackward = cursor - 1 /\ cursor - 1 \in front..tail
<1>1. /\ Len(queue) \in Nat \ {0} /\ Len(heap) \in Nat /\ cur \in Nat
      /\ Len(queue) <= Len(heap)
  <2>1. Len(queue) # 0
    BY EmptySeq DEF TypeOK
  <2> QED
    BY <2>1, FieldTypes DEF QueueIsSuffix, TypeOK
<1>2. tail \in Nodes /\ front \in Nodes /\ front <= tail
  BY <1>1 DEF tail, front, Nodes
<1>3. pQ = tail
  BY <1>1 DEF pQ, tail, QueueIsSuffix
<1>4. Head(queue) = front
  <2>1. Head(queue) = queue[1]
    BY HeadTailProperties DEF TypeOK
  <2> QED
    BY <1>1, <2>1 DEF front, QueueIsSuffix
<1>5. ASSUME cur > 1, cur <= Len(queue) + 1
      PROVE  lookBackward = cursor - 1 /\ cursor - 1 \in front..tail
  BY <1>1, <1>5 DEF lookBackward, cursor, front, tail, QueueIsSuffix
<1> QED
  BY <1>1, <1>2, <1>3, <1>4, <1>5

\* A node level with the tail where the scan stops is live: a consumed one would
\* be lower than the first live node behind it, and that is the tail.
LEMMA MatchIsLive ==
  ASSUME TypeOK, QueueIsSuffix, ConsumedAreLow, ScanPosition,
         pc \in {"scan", "combine"}, queue # <<>>, cur > 1,
         LevelOf(cursor - 1) = LevelOf(tail)
  PROVE  cursor - 1 \in Live /\ cursor - 1 # tail
<1>1. cur \in 1..Len(queue) /\ \A z \in Live : cursor <= z => z = tail
  BY DEF ScanPosition
<1>2. /\ Len(queue) \in Nat /\ Len(heap) \in Nat
      /\ cursor - 1 \in front..tail /\ tail \in Nodes /\ front \in Nodes
  BY <1>1, Positions
<1>3. Live \subseteq Nodes /\ Nodes \subseteq Nat
  BY DEF Live, Nodes
<1>4. cursor - 1 # tail
  BY <1>1, <1>2 DEF cursor, tail
<1>5. ASSUME cursor - 1 \notin Live PROVE FALSE
  <2>1. PICK y \in Live : cursor - 1 < y /\ LevelOf(cursor - 1) < LevelOf(y)
    BY <1>2, <1>5 DEF ConsumedAreLow
  <2>2. cursor <= y
    BY <2>1, <1>1, <1>2, <1>3 DEF cursor
  <2>3. y = tail
    BY <2>2, <1>1
  <2>4. LevelOf(tail) \in Nat
    BY <1>2, FieldTypes
  <2> QED
    BY <2>1, <2>3, <2>4
<1> QED
  BY <1>4, <1>5

\* A combination takes its two nodes from the live ones and adds the new node,
\* one level above.
LEMMA CombineStep ==
  ASSUME TypeOK, QueueIsSuffix, NodeShape, ScanPosition, queue # <<>>, Combine
  PROVE  /\ heap' \in Seq(Node) /\ queue' \in Seq(Nodes') /\ span' \in Seq(Span)
         /\ Len(span') = Len(heap') /\ DOMAIN m_hash' = Nodes'
         /\ Len(heap') = Len(heap) + 1 /\ Len(queue') = Len(queue) + 1
         /\ Nodes' = Nodes \cup {tail'}
         /\ \A n \in Nodes : LevelOf(n)' = LevelOf(n)
         /\ LevelOf(tail)' = LevelOf(tail) + 1
         /\ Live' = (Live \ {cursor - 1, tail}) \cup {tail'}
         /\ QueueIsSuffix' /\ NodeShape'
<1>1. /\ cur \in 1..Len(queue) /\ cur > 1 /\ walk \in Nodes
      /\ LevelOf(cursor - 1) = LevelOf(tail)
  BY DEF ScanPosition, Combine
<1>2. /\ Len(heap) \in Nat \ {0} /\ Len(queue) \in Nat \ {0}
      /\ tail \in Nodes /\ pQ = tail
      /\ lookBackward = cursor - 1 /\ cursor - 1 \in front..tail /\ front \in Nodes
  BY <1>1, Positions
<1>3. PICK l, r, new : l = cursor - 1 /\ r = tail /\ new = Len(heap) + 1
  OBVIOUS
<1>4. l \in Nodes /\ r \in Nodes /\ LevelOf(l) = LevelOf(r) /\ LevelOf(r) \in Nat
  <2>1. l \in Nodes
    BY <1>2, <1>3 DEF Nodes, tail
  <2> QED
    BY <2>1, <1>1, <1>2, <1>3, FieldTypes
<1>5. PICK node : node = combineNodes(l, r, heap[walk].m_pageNo)
  OBVIOUS
<1>6. PICK sp : sp = [lo |-> span[l].lo, hi |-> span[r].hi]
  OBVIOUS
<1>7. PICK h : Enqueue(node, h, sp)
  BY <1>2, <1>3, <1>5, <1>6 DEF Combine
<1>8. /\ node.m_level = LevelOf(r) + 1 /\ node.m_lchild = l /\ node.m_rchild = r
      /\ node \in Node
  <2>1. l \in Nat /\ r \in Nat /\ heap[walk].m_pageNo \in Int
    <3>1. PageNo(walk) \in Int
      BY <1>1, FieldTypes
    <3> QED
      BY <3>1, <1>4 DEF Nodes, PageNo
  <2>2. node = [m_pageNo |-> heap[walk].m_pageNo, m_level |-> LevelOf(l) + 1,
                m_is_supplement_node |-> FALSE, m_lchild |-> l, m_rchild |-> r]
    BY <1>5 DEF combineNodes, makeMHTNode, LevelOf
  <2> QED
    BY <2>1, <2>2, <1>4 DEF Node
<1>9. sp \in Span
  <2>1. l \in 1..Len(span) /\ r \in 1..Len(span) /\ span \in Seq(Span)
    BY <1>4 DEF Nodes, TypeOK, Span
  <2>2. span[l] \in Span /\ span[r] \in Span
    BY <2>1, ElementOfSeq
  <2> QED
    BY <2>2, <1>6 DEF Span
<1>10. /\ heap' \in Seq(Node) /\ queue' \in Seq(Nodes') /\ span' \in Seq(Span)
       /\ Len(span') = Len(heap') /\ DOMAIN m_hash' = Nodes'
       /\ Len(heap') = new /\ Len(queue') = Len(queue) + 1
       /\ \A n \in Nodes : heap'[n] = heap[n]
       /\ heap'[new] = node
       /\ QueueIsSuffix'
  BY <1>3, <1>7, <1>8, <1>9, EnqueueStep
<1>11. Nodes' = Nodes \cup {new} /\ new \notin Nodes /\ tail' = new
  BY <1>2, <1>3, <1>10 DEF Nodes, tail
<1>12. /\ \A n \in Nodes : /\ LevelOf(n)' = LevelOf(n) /\ lchild(n)' = lchild(n)
                           /\ rchild(n)' = rchild(n)
       /\ LevelOf(new)' = LevelOf(r) + 1 /\ lchild(new)' = l /\ rchild(new)' = r
  BY <1>8, <1>10 DEF LevelOf, lchild, rchild
<1>13. Live' = (Live \ {l, r}) \cup {new}
  <2>1. \A q \in Nodes : lchild(q) # new /\ rchild(q) # new
    <3> SUFFICES ASSUME NEW q \in Nodes PROVE lchild(q) # new /\ rchild(q) # new
      OBVIOUS
    <3>1. lchild(q) \in 0..(q - 1) /\ rchild(q) \in 0..(q - 1)
      BY ChildrenAreOlder
    <3> QED
      BY <3>1, <1>2, <1>3 DEF Nodes
  <2>2. \A n \in Nodes' : (\A q \in Nodes' : lchild(q)' # n /\ rchild(q)' # n) <=>
                          n # l /\ n # r /\ (\A q \in Nodes : lchild(q) # n /\ rchild(q) # n)
    BY <1>11, <1>12
  <2>3. Live' = {n \in Nodes' : n # l /\ n # r /\ (\A q \in Nodes : lchild(q) # n /\ rchild(q) # n)}
    BY <2>2 DEF Live
  <2> QED
    BY <2>1, <2>3, <1>4, <1>11 DEF Live
<1>14. NodeShape'
  <2>1. \A n \in Nodes : ShapeOf(n)'
    BY <1>12, ShapeKept DEF NodesKept
  <2>2. ShapeOf(new)'
    <3>1. LevelOf(lchild(new))' = LevelOf(l)' /\ LevelOf(rchild(new))' = LevelOf(r)'
      BY <1>12 DEF LevelOf
    <3>2. Inner(new)'
      BY <1>4, <1>12 DEF Inner, LevelOf, NODELEVEL_LEAF
    <3>3. l \in 1..(new - 1) /\ r \in 1..(new - 1)
      BY <1>2, <1>3, <1>4 DEF Nodes
    <3> QED
      BY <3>1, <3>2, <3>3, <1>4, <1>12 DEF ShapeOf
  <2> QED
    BY <2>1, <2>2, <1>11 DEF NodeShape
<1> QED
  BY <1>3, <1>10, <1>11, <1>12, <1>13, <1>14

\* The two nodes combined are the last two live ones.
LEMMA LastTwoLive ==
  ASSUME IInv, Combine
  PROVE  /\ cursor - 1 \in Live /\ tail \in Live /\ cursor - 1 < tail
         /\ cursor - 1 \in Nat /\ front <= cursor - 1
         /\ LevelOf(cursor - 1) = LevelOf(tail)
         /\ \A z \in Live \ {cursor - 1, tail} : z \in Nat /\ front <= z /\ z < cursor - 1
<1>1. /\ TypeOK /\ QueueIsSuffix /\ LiveAreQueued /\ ConsumedAreLow /\ ScanPosition
      /\ queue # <<>> /\ pc = "combine"
  BY DEF IInv, LastCombined, Combine
<1>2. /\ cur \in 1..Len(queue) /\ cur > 1 /\ LevelOf(cursor - 1) = LevelOf(tail)
      /\ \A z \in Live : cursor <= z => z = tail
  BY <1>1 DEF ScanPosition
<1>3. cursor - 1 \in Live /\ cursor - 1 # tail
  BY <1>1, <1>2, MatchIsLive
<1>4. /\ Len(queue) \in Nat \ {0} /\ Len(heap) \in Nat \ {0} /\ tail \in Nodes
      /\ cursor - 1 \in front..tail /\ front \in Nodes
  BY <1>1, <1>2, Positions
<1>5. tail \in Live /\ Live \subseteq Nodes /\ Nodes \subseteq Nat
  BY <1>1, <1>4, EmptySeq DEF LiveAreQueued, Live, Nodes
<1>6. cursor - 1 \in Nat /\ front <= cursor - 1 /\ cursor - 1 < tail /\ cursor \in Nat
  BY <1>2, <1>3, <1>4, <1>5 DEF cursor
<1>7. ASSUME NEW z \in Live \ {cursor - 1, tail}
      PROVE  z \in Nat /\ front <= z /\ z < cursor - 1
  <2>1. z \in Nat /\ front <= z
    BY <1>1, <1>5 DEF LiveAreQueued
  <2>2. ~ (cursor <= z) /\ z # cursor - 1
    BY <1>2
  <2> QED
    BY <2>1, <2>2, <1>6
<1> QED
  BY <1>2, <1>3, <1>5, <1>6, <1>7

\* Marking a node as a supplement keeps the levels and the children.
LEMMA MarkedStep ==
  ASSUME TypeOK, NEW n \in Nodes, heap' = Marked(n)
  PROVE  heap' \in Seq(Node) /\ Len(heap') = Len(heap) /\ NodesKept
<1>1. heap \in Seq(Node) /\ n \in 1..Len(heap) /\ heap[n] \in Node
  BY FieldTypes DEF TypeOK, Nodes
<1>2. CASE heap' = heap
  BY <1>1, <1>2 DEF NodesKept, LevelOf, lchild, rchild
<1>3. CASE heap' = [heap EXCEPT ![n].m_is_supplement_node = TRUE]
  <2>1. PICK e : e = [heap[n] EXCEPT !.m_is_supplement_node = TRUE]
    OBVIOUS
  <2>2. /\ e \in Node /\ e.m_level = heap[n].m_level
        /\ e.m_lchild = heap[n].m_lchild /\ e.m_rchild = heap[n].m_rchild
    BY <1>1, <2>1 DEF Node
  <2>3. heap' = [heap EXCEPT ![n] = e]
    BY <1>3, <2>1
  <2>4. /\ heap' \in Seq(Node) /\ Len(heap') = Len(heap)
        /\ \A q \in 1..Len(heap) : heap'[q] = IF q = n THEN e ELSE heap[q]
    BY <1>1, <2>2, <2>3, ExceptSeq
  <2> QED
    BY <2>2, <2>4 DEF NodesKept, LevelOf, lchild, rchild, Nodes
<1> QED
  BY <1>2, <1>3 DEF Marked

\* A step that leaves the nodes and the queue alone.
LEMMA QuietStep ==
  ASSUME IInv, UNCHANGED <<heap, queue>>
  PROVE  /\ Nodes' = Nodes /\ Live' = Live /\ tail' = tail /\ front' = front
         /\ \A n : LevelOf(n)' = LevelOf(n)
         /\ QueueIsSuffix' /\ NodeShape' /\ ConsumedAreLow'
<1>1. Nodes' = Nodes /\ tail' = tail /\ front' = front /\ \A n : LevelOf(n)' = LevelOf(n)
  BY DEF Nodes, tail, front, LevelOf
<1>2. Live' = Live /\ NodeShape'
  <2>1. NodesKept
    BY DEF NodesKept, LevelOf, lchild, rchild
  <2> QED
    BY <2>1, SameShape DEF IInv
<1>3. QueueIsSuffix'
  BY DEF IInv, QueueIsSuffix
<1>4. ConsumedAreLow'
  BY <1>1, <1>2 DEF IInv, ConsumedAreLow
<1> QED
  BY <1>1, <1>2, <1>3, <1>4

-----------------------------------------------------------------------------
(* Each action preserves the inductive invariant *)

\* Before the first leaf there is nothing that could go wrong.
LEMMA CallActionsKeepIInv ==
  ASSUME IInv, RejectNull \/ InitQueue
  PROVE  IInv'
<1>1. UNCHANGED <<heap, queue>> /\ pc = "call" /\ pc' \in {"for", "done"}
  BY DEF RejectNull, InitQueue, IInv, Control
<1>2. /\ Nodes' = Nodes /\ Live' = Live /\ tail' = tail /\ front' = front
      /\ \A n : LevelOf(n)' = LevelOf(n)
      /\ QueueIsSuffix' /\ NodeShape' /\ ConsumedAreLow'
  BY <1>1, QuietStep
<1>3. TypeOK'
  BY <1>1, <1>2 DEF IInv, TypeOK, RejectNull, InitQueue
<1>4. queue' = <<>> /\ heap' = <<>>
  BY <1>1 DEF IInv, Control
<1>5. Live' = {}
  <2>1. Len(heap) = 0
    BY <1>1, <1>4, EmptySeq
  <2> QED
    BY <1>2, <2>1 DEF Live, Nodes
<1>6. LiveAreQueued' /\ LevelsFall'
  BY <1>4, <1>5 DEF LiveAreQueued, LevelsFall
<1>7. ScanPosition' /\ FrontIsLive' /\ LastCombined' /\ PaddingLevel'
  BY <1>1, <1>4 DEF ScanPosition, FrontIsLive, LastCombined, PaddingLevel
<1>8. Control'
  BY <1>1, <1>2, <1>4 DEF IInv, Control, RejectNull, InitQueue
<1> QED
  BY <1>2, <1>3, <1>6, <1>7, <1>8 DEF IInv

\* While the call runs no live node before the tail is level with it or lower.
LEMMA StopMeansStrict ==
  ASSUME IInv, ScanStop, NEW m \in Live, m < tail
  PROVE  LevelOf(m) > LevelOf(tail)
<1>1. /\ TypeOK /\ QueueIsSuffix /\ ScanPosition /\ ConsumedAreLow /\ LevelsFall
      /\ LiveAreQueued /\ queue # <<>> /\ pc = "scan"
  BY DEF IInv, LastCombined, ScanStop
<1>2. /\ cur \in 1..Len(queue) /\ \A z \in Live : cursor <= z => z = tail
      /\ front <= m
  BY <1>1 DEF ScanPosition, LiveAreQueued
<1>3. /\ Len(queue) \in Nat \ {0} /\ Len(heap) \in Nat /\ tail \in Nodes /\ pQ = tail
      /\ front \in Nodes
      /\ cur > 1 => lookBackward = cursor - 1 /\ cursor - 1 \in front..tail
  BY <1>1, <1>2, Positions
<1>4. m \in Nodes /\ m \in Nat /\ LevelOf(m) \in Nat /\ LevelOf(tail) \in Nat
  BY <1>1, <1>3, FieldTypes DEF Live, Nodes
<1>5. m < cursor
  BY <1>2, <1>3, <1>4 DEF cursor
<1>6. cur > 1 /\ LevelOf(cursor - 1) > LevelOf(tail)
  <2>1. cur # 1
    BY <1>2, <1>3, <1>4, <1>5 DEF cursor, front
  <2> QED
    BY <2>1, <1>3 DEF ScanStop
<1>7. cursor - 1 \in Nodes /\ LevelOf(cursor - 1) \in Nat /\ m <= cursor - 1
  <2>1. cursor - 1 \in Nodes /\ m <= cursor - 1
    BY <1>2, <1>3, <1>4, <1>5, <1>6 DEF Nodes, cursor, tail
  <2> QED
    BY <2>1, <1>1, FieldTypes
<1>8. cursor - 1 \in Live
  <2> SUFFICES ASSUME cursor - 1 \notin Live PROVE FALSE
    OBVIOUS
  <2>1. PICK y \in Live : cursor - 1 < y /\ LevelOf(cursor - 1) < LevelOf(y)
    BY <1>1, <1>3, <1>6 DEF ConsumedAreLow
  <2>2. cursor <= y
    BY <2>1, <1>2, <1>3 DEF cursor, Live, Nodes
  <2> QED
    BY <2>1, <2>2, <1>2, <1>4, <1>6, <1>7
<1>9. CASE m = cursor - 1
  BY <1>6, <1>9
<1>10. CASE m < cursor - 1
  <2>1. cursor - 1 # tail
    BY <1>2, <1>3 DEF cursor, tail
  <2>2. LevelOf(m) > LevelOf(cursor - 1)
    BY <2>1, <1>1, <1>8, <1>10 DEF LevelsFall
  <2> QED
    BY <2>2, <1>4, <1>6, <1>7
<1> QED
  BY <1>4, <1>7, <1>9, <1>10 DEF Nodes

\* Where the scan ends, the levels fall strictly from front to tail again.
LEMMA ScanStopKeepsIInv ==
  ASSUME IInv, ScanStop
  PROVE  IInv'
<1>1. UNCHANGED <<heap, queue>> /\ pc = "scan" /\ pc' \in {"drain", "for", "pad"}
  BY DEF ScanStop, Resume
<1>2. /\ Nodes' = Nodes /\ Live' = Live /\ tail' = tail /\ front' = front
      /\ \A n : LevelOf(n)' = LevelOf(n)
      /\ QueueIsSuffix' /\ NodeShape' /\ ConsumedAreLow'
  BY <1>1, QuietStep
<1>3. TypeOK'
  BY <1>2 DEF IInv, TypeOK, ScanStop, Resume
<1>4. LevelsFall'
  <2>1. ASSUME NEW m \in Live, NEW n \in Live, m < n PROVE LevelOf(m) > LevelOf(n)
    BY <2>1, StopMeansStrict DEF IInv, LevelsFall
  <2> QED
    BY <2>1, <1>2 DEF LevelsFall
<1>5. LiveAreQueued'
  BY <1>1, <1>2 DEF IInv, LiveAreQueued
<1>6. ScanPosition'
  BY <1>1 DEF ScanPosition
<1>7. FrontIsLive' /\ LastCombined'
  BY <1>1, <1>2 DEF IInv, FrontIsLive, LastCombined, ScanStop, Resume
<1>8. PaddingLevel'
  BY <1>1, <1>2 DEF IInv, PaddingLevel, ScanStop
<1>9. Control'
  BY <1>1, <1>2 DEF IInv, Control, ScanStop, Resume, TypeOK
<1> QED
  BY <1>2, <1>3, <1>4, <1>5, <1>6, <1>7, <1>8, <1>9 DEF IInv

\* What the scan skips is lower than the tail, so it is a consumed node.
LEMMA ScanSkipKeepsIInv ==
  ASSUME IInv, ScanSkip
  PROVE  IInv'
<1>1. UNCHANGED <<heap, queue>> /\ pc = "scan" /\ pc' = "scan" /\ cur' = cur - 1 /\ cur > 1
  BY DEF ScanSkip
<1>2. /\ Nodes' = Nodes /\ Live' = Live /\ tail' = tail /\ front' = front
      /\ \A n : LevelOf(n)' = LevelOf(n)
      /\ QueueIsSuffix' /\ NodeShape' /\ ConsumedAreLow'
  BY <1>1, QuietStep
<1>3. /\ TypeOK /\ QueueIsSuffix /\ ScanPosition /\ LevelsFall /\ queue # <<>>
  BY <1>1 DEF IInv, LastCombined
<1>4. cur \in 1..Len(queue) /\ \A z \in Live : cursor <= z => z = tail
  BY <1>1, <1>3 DEF ScanPosition
<1>5. /\ Len(queue) \in Nat \ {0} /\ Len(heap) \in Nat /\ tail \in Nodes /\ pQ = tail
      /\ lookBackward = cursor - 1 /\ cursor - 1 \in front..tail /\ front \in Nodes
  BY <1>1, <1>3, <1>4, Positions
<1>6. TypeOK'
  BY <1>1, <1>2, <1>4, <1>5 DEF IInv, TypeOK, ScanSkip
<1>7. cursor - 1 \notin Live
  <2> SUFFICES ASSUME cursor - 1 \in Live PROVE FALSE
    OBVIOUS
  <2>1. LevelOf(cursor - 1) < LevelOf(tail)
    BY <1>5 DEF ScanSkip
  <2>2. cursor - 1 < tail /\ tail \in Live
    BY <1>3, <1>4, <1>5 DEF cursor, tail, IInv, LiveAreQueued, Nodes
  <2>3. LevelOf(cursor - 1) > LevelOf(tail) \/ LevelOf(cursor - 1) = LevelOf(tail)
    BY <2>2, <1>3 DEF LevelsFall
  <2>4. LevelOf(tail) \in Nat /\ LevelOf(cursor - 1) \in Nat
    BY <2>2, <1>3, FieldTypes DEF Live
  <2> QED
    BY <2>1, <2>3, <2>4
<1>8. ScanPosition'
  <2>1. cursor' = cursor - 1
    BY <1>1, <1>4, <1>5 DEF cursor
  <2>2. ASSUME NEW z \in Live, cursor - 1 <= z PROVE z = tail
    <3>1. z \in Nat /\ cursor \in Int
      BY <1>4, <1>5 DEF Live, Nodes, cursor
    <3>2. z # cursor - 1
      BY <1>7
    <3> QED
      BY <2>2, <3>1, <3>2, <1>4
  <2> QED
    BY <2>1, <2>2, <1>1, <1>2, <1>4, <1>5 DEF ScanPosition
<1>9. LiveAreQueued' /\ LevelsFall'
  BY <1>1, <1>2 DEF IInv, LiveAreQueued, LevelsFall
<1>10. FrontIsLive' /\ LastCombined' /\ PaddingLevel'
  BY <1>1, <1>2 DEF IInv, FrontIsLive, LastCombined, PaddingLevel, ScanSkip
<1>11. Control'
  BY <1>1, <1>2 DEF IInv, Control, ScanSkip
<1> QED
  BY <1>2, <1>6, <1>8, <1>9, <1>10, <1>11 DEF IInv

\* What the scan combines is the last live node before the tail.
LEMMA ScanMatchKeepsIInv ==
  ASSUME IInv, ScanMatch
  PROVE  IInv'
<1>1. /\ UNCHANGED <<heap, queue, cur>> /\ pc = "scan" /\ pc' = "combine"
      /\ walk' = lookBackward /\ cur > 1
  BY DEF ScanMatch
<1>2. /\ Nodes' = Nodes /\ Live' = Live /\ tail' = tail /\ front' = front
      /\ \A n : LevelOf(n)' = LevelOf(n)
      /\ QueueIsSuffix' /\ NodeShape' /\ ConsumedAreLow'
  BY <1>1, QuietStep
<1>3. /\ TypeOK /\ QueueIsSuffix /\ ScanPosition /\ queue # <<>>
  BY <1>1 DEF IInv, LastCombined
<1>4. cur \in 1..Len(queue) /\ \A z \in Live : cursor <= z => z = tail
  BY <1>1, <1>3 DEF ScanPosition
<1>5. /\ Len(queue) \in Nat \ {0} /\ Len(heap) \in Nat /\ tail \in Nodes /\ pQ = tail
      /\ lookBackward = cursor - 1 /\ cursor - 1 \in front..tail /\ front \in Nodes
  BY <1>1, <1>3, <1>4, Positions
<1>6. walk' \in Nodes /\ walk' \in Nat
  BY <1>1, <1>5 DEF Nodes, tail
<1>7. TypeOK'
  BY <1>1, <1>2, <1>6 DEF IInv, TypeOK, ScanMatch
<1>8. ScanPosition'
  <2>1. cursor' = cursor
    BY <1>1 DEF cursor
  <2>2. LevelOf(cursor - 1) = LevelOf(tail)
    BY <1>5 DEF ScanMatch
  <2>3. LevelOf(cursor - 1)' = LevelOf(cursor - 1) /\ LevelOf(tail)' = LevelOf(tail)
    BY <1>1 DEF LevelOf, cursor, tail
  <2> QED
    BY <2>1, <2>2, <2>3, <1>1, <1>2, <1>4, <1>6 DEF ScanPosition
<1>9. LiveAreQueued' /\ LevelsFall'
  BY <1>1, <1>2 DEF IInv, LiveAreQueued, LevelsFall
<1>10. FrontIsLive' /\ LastCombined' /\ PaddingLevel'
  BY <1>1, <1>2 DEF IInv, FrontIsLive, LastCombined, PaddingLevel, ScanMatch
<1>11. Control'
  BY <1>1, <1>2 DEF IInv, Control, ScanMatch
<1> QED
  BY <1>2, <1>7, <1>8, <1>9, <1>10, <1>11 DEF IInv

\* The walk to the right-most leaf stays in the tree.
LEMMA WalkRightKeepsIInv ==
  ASSUME IInv, WalkRight
  PROVE  IInv'
<1>1. /\ UNCHANGED <<heap, queue, cur>> /\ pc = "combine" /\ pc' = "combine"
      /\ walk' = rchild(walk) /\ LevelOf(walk) # NODELEVEL_LEAF
  BY DEF WalkRight, rchild
<1>2. /\ Nodes' = Nodes /\ Live' = Live /\ tail' = tail /\ front' = front
      /\ \A n : LevelOf(n)' = LevelOf(n)
      /\ QueueIsSuffix' /\ NodeShape' /\ ConsumedAreLow'
  BY <1>1, QuietStep
<1>3. walk' \in Nodes /\ walk' \in Nat
  <2>1. TypeOK /\ NodeShape /\ walk \in Nodes
    BY <1>1 DEF IInv, ScanPosition
  <2>2. Inner(walk)
    BY <1>1 DEF Inner, LevelOf
  <2>3. rchild(walk) \in Nodes
    BY <2>1, <2>2, ChildrenAreOlder
  <2> QED
    BY <2>3, <1>1 DEF Nodes
<1>4. TypeOK'
  BY <1>1, <1>2, <1>3 DEF IInv, TypeOK, WalkRight
<1>5. ScanPosition'
  <2>1. cursor' = cursor
    BY <1>1 DEF cursor
  <2>2. LevelOf(cursor - 1)' = LevelOf(cursor - 1) /\ LevelOf(tail)' = LevelOf(tail)
    BY <1>1 DEF LevelOf, cursor, tail
  <2> QED
    BY <2>1, <2>2, <1>1, <1>2, <1>3 DEF IInv, ScanPosition
<1>6. LiveAreQueued' /\ LevelsFall'
  BY <1>1, <1>2 DEF IInv, LiveAreQueued, LevelsFall
<1>7. FrontIsLive' /\ LastCombined' /\ PaddingLevel'
  BY <1>1, <1>2 DEF IInv, FrontIsLive, LastCombined, PaddingLevel, WalkRight
<1>8. Control'
  BY <1>1, <1>2 DEF IInv, Control, WalkRight
<1> QED
  BY <1>2, <1>4, <1>5, <1>6, <1>7, <1>8 DEF IInv

\* Where draining goes on, the tail is the only live node.
LEMMA DrainedAreConsumed ==
  ASSUME IInv, pc = "drain"
  PROVE  /\ queue # <<>> /\ cbd = tail /\ pQ = tail /\ Head(queue) = front
         /\ tail \in Live /\ front \in Nodes /\ tail \in Nodes /\ front <= tail
         /\ LevelOf(front) \in Nat /\ LevelOf(tail) \in Nat
         /\ LevelOf(front) < LevelOf(tail) => Live = {tail} /\ front # tail
         /\ LevelOf(front) >= LevelOf(tail) => front \in Live
<1>1. /\ TypeOK /\ QueueIsSuffix /\ LiveAreQueued /\ LevelsFall /\ ConsumedAreLow
      /\ FrontIsLive /\ queue # <<>> /\ cbd = tail
  BY DEF IInv, LastCombined
<1>2. /\ tail \in Nodes /\ pQ = tail /\ Head(queue) = front /\ front \in Nodes
      /\ front <= tail /\ Len(heap) \in Nat \ {0}
  BY <1>1, Positions
<1>3. LevelOf(front) \in Nat /\ LevelOf(tail) \in Nat
  BY <1>1, <1>2, FieldTypes
<1>4. tail \in Live
  BY <1>1, <1>2 DEF LiveAreQueued, Nodes
<1>5. ASSUME LevelOf(front) < LevelOf(tail) PROVE Live = {tail} /\ front # tail
  <2>1. front # tail
    BY <1>3, <1>5
  <2>2. front < tail
    BY <2>1, <1>2 DEF Nodes
  <2>3. front \notin Live
    <3>1. ASSUME front \in Live PROVE LevelOf(front) > LevelOf(tail)
      BY <3>1, <2>2, <1>1, <1>4 DEF LevelsFall
    <3> QED
      BY <3>1, <1>3, <1>5
  <2> QED
    BY <2>1, <2>3, <1>1 DEF FrontIsLive
<1>6. ASSUME LevelOf(front) >= LevelOf(tail) PROVE front \in Live
  <2> SUFFICES ASSUME front \notin Live PROVE FALSE
    OBVIOUS
  <2>1. Live = {tail}
    BY <1>1 DEF FrontIsLive
  <2>2. front \in front..tail
    BY <1>2 DEF Nodes
  <2>3. PICK y \in Live : LevelOf(front) < LevelOf(y)
    BY <2>2, <1>1 DEF ConsumedAreLow
  <2> QED
    BY <2>1, <2>3, <1>3, <1>6
<1> QED
  BY <1>1, <1>2, <1>3, <1>4, <1>5, <1>6

\* Only consumed nodes are dequeued: were the front live it would be higher
\* than the tail, the last combined node.
LEMMA DrainKeepsIInv ==
  ASSUME IInv, Drain
  PROVE  IInv'
<1>1. pc = "drain" /\ pc' = "drain" /\ queue' = Tail(queue) /\ heap' = Marked(Head(queue))
  BY DEF Drain
<1>2. /\ queue # <<>> /\ cbd = tail /\ pQ = tail /\ Head(queue) = front
      /\ tail \in Live /\ front \in Nodes /\ tail \in Nodes /\ front <= tail
      /\ LevelOf(front) < LevelOf(tail) => Live = {tail} /\ front # tail
  BY <1>1, DrainedAreConsumed
<1>3. Live = {tail} /\ front # tail
  BY <1>2 DEF Drain
<1>4. /\ TypeOK /\ QueueIsSuffix /\ NodeShape
      /\ Len(queue) \in Nat \ {0} /\ Len(heap) \in Nat \ {0} /\ Len(queue) <= Len(heap)
  BY <1>2, Positions DEF IInv
<1>5. heap' \in Seq(Node) /\ Len(heap') = Len(heap) /\ NodesKept
  BY <1>1, <1>2, <1>4, MarkedStep
<1>6. Nodes' = Nodes /\ Live' = Live /\ tail' = tail /\ NodeShape'
  BY <1>4, <1>5, SameShape
<1>7. /\ Tail(queue) \in Seq(Nodes) /\ Len(queue') = Len(queue) - 1
      /\ \A k \in 1..Len(queue') : queue'[k] = queue[k + 1]
  BY <1>1, <1>2, <1>4, HeadTailProperties DEF TypeOK
<1>8. QueueIsSuffix'
  BY <1>4, <1>5, <1>7 DEF QueueIsSuffix
<1>9. front' = front + 1 /\ front' <= tail' /\ queue' # <<>>
  <2>1. front' = front + 1 /\ front' <= tail'
    BY <1>2, <1>3, <1>4, <1>5, <1>6, <1>7 DEF front, tail
  <2>2. Len(queue') # 0
    BY <1>3, <1>4, <1>7 DEF front, tail
  <2> QED
    BY <2>1, <2>2
<1>10. TypeOK'
  BY <1>1, <1>5, <1>6, <1>7 DEF IInv, TypeOK, Drain
<1>11. LiveAreQueued'
  BY <1>2, <1>3, <1>6, <1>9 DEF LiveAreQueued
<1>12. LevelsFall'
  BY <1>2, <1>3, <1>6 DEF LevelsFall, Nodes
<1>13. ConsumedAreLow'
  <2>1. PICK t : t = tail /\ t \in Nat
    BY <1>4 DEF tail
  <2>2. \A n \in Nodes : LevelOf(n)' = LevelOf(n)
    BY <1>5 DEF NodesKept
  <2>3. ASSUME NEW x \in front'..tail', x \notin Live'
        PROVE  x < t /\ LevelOf(x)' < LevelOf(t)'
    <3>1. x \in front..tail /\ x \in Nodes /\ x < t /\ x \notin Live
      BY <2>1, <2>3, <1>2, <1>3, <1>4, <1>6, <1>9 DEF Nodes, tail
    <3>2. LevelOf(x) < LevelOf(t)
      BY <3>1, <2>1, <1>3 DEF IInv, ConsumedAreLow
    <3> QED
      BY <3>1, <3>2, <2>1, <2>2, <1>2
  <2>4. Live' = {t}
    BY <2>1, <1>3, <1>6
  <2> QED
    BY <2>1, <2>3, <2>4 DEF ConsumedAreLow
<1>14. ScanPosition'
  BY <1>1 DEF ScanPosition
<1>15. FrontIsLive'
  BY <1>1, <1>3, <1>6 DEF FrontIsLive
<1>16. LastCombined'
  BY <1>1, <1>2, <1>6, <1>9 DEF IInv, LastCombined, Drain
<1>17. PaddingLevel'
  <2>1. LevelOf(tail)' = LevelOf(tail)
    <3>1. PICK t : t = tail
      OBVIOUS
    <3>2. LevelOf(t)' = LevelOf(t)
      BY <3>1, <1>2, <1>5 DEF NodesKept
    <3> QED
      BY <3>1, <3>2, <1>6 DEF LevelOf
  <2> QED
    BY <2>1, <1>1, <1>3, <1>6 DEF IInv, PaddingLevel, Drain
<1>18. Control'
  BY <1>1, <1>2, <1>6 DEF IInv, Control, Drain
<1> QED
  BY <1>6, <1>8, <1>10, <1>11, <1>12, <1>13, <1>14, <1>15, <1>16, <1>17, <1>18 DEF IInv

\* Draining ends on a live node, the tail if need be.
LEMMA DrainStopKeepsIInv ==
  ASSUME IInv, DrainStop
  PROVE  IInv'
<1>1. /\ UNCHANGED <<heap, queue>> /\ pc = "drain" /\ pc' \in {"for", "pad"}
  BY DEF DrainStop, Resume
<1>2. /\ Nodes' = Nodes /\ Live' = Live /\ tail' = tail /\ front' = front
      /\ \A n : LevelOf(n)' = LevelOf(n)
      /\ QueueIsSuffix' /\ NodeShape' /\ ConsumedAreLow'
  BY <1>1, QuietStep
<1>3. /\ front \in Live /\ queue # <<>>
  <2>1. LevelOf(front) >= LevelOf(tail)
    BY <1>1, DrainedAreConsumed DEF DrainStop
  <2> QED
    BY <2>1, <1>1, DrainedAreConsumed
<1>4. TypeOK'
  <2>1. i' \in Nat
    BY DEF IInv, TypeOK, DrainStop, Resume
  <2>2. bCombined' \in BOOLEAN
    BY DEF DrainStop
  <2> QED
    BY <2>1, <2>2, <1>1, <1>2 DEF IInv, TypeOK, DrainStop
<1>5. LiveAreQueued' /\ LevelsFall' /\ ScanPosition'
  BY <1>1, <1>2 DEF IInv, LiveAreQueued, LevelsFall, ScanPosition
<1>6. FrontIsLive' /\ LastCombined'
  BY <1>1, <1>2, <1>3 DEF FrontIsLive, LastCombined
<1>7. PaddingLevel'
  BY <1>1, <1>2 DEF IInv, PaddingLevel, DrainStop
<1>8. Control'
  BY <1>1, <1>2 DEF IInv, Control, DrainStop, Resume, TypeOK
<1> QED
  BY <1>2, <1>4, <1>5, <1>6, <1>7, <1>8 DEF IInv

\* Padding starts with two trees at least, and notes the level of the first.
LEMMA StartPaddingKeepsIInv ==
  ASSUME IInv, StartPadding
  PROVE  IInv'
<1>1. UNCHANGED <<heap, queue>> /\ pc = "for" /\ pc' = "pad" /\ Len(queue) > 1
  BY DEF StartPadding
<1>2. /\ Nodes' = Nodes /\ Live' = Live /\ tail' = tail /\ front' = front
      /\ \A n : LevelOf(n)' = LevelOf(n)
      /\ QueueIsSuffix' /\ NodeShape' /\ ConsumedAreLow'
  BY <1>1, QuietStep
<1>3. TypeOK /\ QueueIsSuffix /\ FrontIsLive /\ queue # <<>>
  BY <1>1, EmptySeq DEF IInv
<1>4. /\ Len(queue) \in Nat /\ Len(heap) \in Nat /\ Head(queue) = front
      /\ front \in Nodes /\ tail \in Nodes
  BY <1>3, Positions
<1>5. front \in Live /\ front # tail
  BY <1>1, <1>3, <1>4 DEF FrontIsLive, front, tail
<1>6. LevelOf(front) \in Nat
  BY <1>3, <1>4, FieldTypes
<1>7. TypeOK'
  <2>1. last_mhtnode_index' \in Int
    BY <1>3, LastLeafIndexType, IntAssumption DEF StartPadding
  <2> QED
    BY <2>1, <1>1, <1>2, <1>4, <1>6 DEF IInv, TypeOK, StartPadding
<1>8. LiveAreQueued' /\ LevelsFall' /\ ScanPosition'
  BY <1>1, <1>2 DEF IInv, LiveAreQueued, LevelsFall, ScanPosition
<1>9. FrontIsLive' /\ LastCombined'
  BY <1>1, <1>2, <1>3, <1>5 DEF FrontIsLive, LastCombined
<1>10. PaddingLevel'
  <2>1. Live' # {tail'}
    BY <1>2, <1>5
  <2>2. qHeaderLevel' = LevelOf(front) /\ LevelOf(front)' = LevelOf(front)
    BY <1>1, <1>2, <1>4 DEF StartPadding, LevelOf
  <2> QED
    BY <2>1, <2>2 DEF PaddingLevel
<1>11. Control'
  BY <1>1, <1>2 DEF IInv, Control, StartPadding
<1> QED
  BY <1>2, <1>7, <1>8, <1>9, <1>10, <1>11 DEF IInv

\* When the loops end one node is left in the queue, or none.
LEMMA LeaveLoopsKeepsIInv ==
  ASSUME IInv, LeaveLoops
  PROVE  IInv'
<1>1. UNCHANGED <<heap, queue>> /\ pc \in {"for", "pad"} /\ pc' = "pop"
  BY DEF LeaveLoops, PaddingDone
<1>2. /\ Nodes' = Nodes /\ Live' = Live /\ tail' = tail /\ front' = front
      /\ \A n : LevelOf(n)' = LevelOf(n)
      /\ QueueIsSuffix' /\ NodeShape' /\ ConsumedAreLow'
  BY <1>1, QuietStep
<1>3. TypeOK'
  BY <1>1, <1>2 DEF IInv, TypeOK, LeaveLoops
<1>4. LiveAreQueued' /\ LevelsFall' /\ ScanPosition'
  BY <1>1, <1>2 DEF IInv, LiveAreQueued, LevelsFall, ScanPosition
<1>5. FrontIsLive' /\ LastCombined' /\ PaddingLevel'
  BY <1>1, <1>2 DEF IInv, FrontIsLive, LastCombined, PaddingLevel
<1>6. Len(queue) <= 1
  <2>1. CASE pc = "for"
    BY <2>1 DEF LeaveLoops, PaddingDone
  <2>2. CASE pc = "pad"
    <3>1. /\ TypeOK /\ QueueIsSuffix /\ queue # <<>> /\ LevelsFall /\ LiveAreQueued
          /\ front \in Live /\ phase = "pad"
      BY <2>2 DEF IInv, LastCombined, FrontIsLive, Control
    <3>2. /\ tail \in Nodes /\ pQ = tail /\ front \in Nodes /\ front <= tail
          /\ Len(heap) \in Nat \ {0} /\ Len(queue) \in Nat
      BY <3>1, Positions
    <3>3. /\ tail \in Live /\ LevelOf(tail) > qHeaderLevel
          /\ LevelOf(front) \in Nat /\ LevelOf(tail) \in Nat /\ qHeaderLevel \in Nat
      <4>1. tail \in Live
        BY <3>1, <3>2, EmptySeq DEF LiveAreQueued
      <4>2. LevelOf(tail) > qHeaderLevel
        BY <2>2, <3>2 DEF LeaveLoops, PaddingDone
      <4> QED
        BY <4>1, <4>2, <3>1, <3>2, FieldTypes DEF TypeOK
    <3>4. Live = {tail}
      <4> SUFFICES ASSUME Live # {tail} PROVE FALSE
        OBVIOUS
      <4>1. LevelOf(front) = qHeaderLevel
        BY <2>2, <3>1 DEF IInv, PaddingLevel
      <4>2. front < tail
        BY <4>1, <3>2, <3>3 DEF Nodes
      <4>3. LevelOf(front) > LevelOf(tail)
        BY <4>2, <2>2, <3>1, <3>3 DEF LevelsFall
      <4> QED
        BY <4>1, <4>3, <3>3
    <3> QED
      BY <3>1, <3>2, <3>4 DEF front, tail
  <2> QED
    BY <2>1, <2>2, <1>1
<1>7. Control'
  BY <1>1, <1>2, <1>6 DEF IInv, Control, LeaveLoops
<1> QED
  BY <1>2, <1>3, <1>4, <1>5, <1>7 DEF IInv

\* The node popped last is the only live one, and freeQueue releases none.
LEMMA PopRootKeepsIInv ==
  ASSUME IInv, PopRoot
  PROVE  IInv'
<1>1. /\ pc = "pop" /\ pc' = "done" /\ heap' = heap /\ queue' = <<>> /\ queue # <<>>
      /\ pmhtroot' = Head(queue) /\ freed' = {queue[k] : k \in 2..Len(queue)}
  BY DEF PopRoot
<1>2. /\ TypeOK /\ QueueIsSuffix /\ NodeShape /\ LiveAreQueued /\ Len(queue) <= 1
  BY <1>1 DEF IInv, Control
<1>3. /\ Len(queue) \in Nat \ {0} /\ Len(heap) \in Nat \ {0} /\ tail \in Nodes
      /\ Head(queue) = front
  BY <1>1, <1>2, Positions
<1>4. Head(queue) = tail /\ freed' = {}
  BY <1>1, <1>2, <1>3 DEF front, tail
<1>5. Nodes' = Nodes /\ Live' = Live /\ tail' = tail /\ NodeShape'
  <2>1. NodesKept
    BY <1>1 DEF NodesKept, LevelOf, lchild, rchild
  <2> QED
    BY <2>1, <1>1, <1>2, SameShape
<1>6. Live = {tail}
  <2>1. tail \in Live
    BY <1>2, <1>3 DEF LiveAreQueued, Nodes
  <2>2. ASSUME NEW z \in Live PROVE z = tail
    <3>1. front <= z /\ z \in Nodes
      BY <1>1, <1>2 DEF LiveAreQueued, Live
    <3> QED
      BY <3>1, <1>3, <1>4 DEF Nodes, tail
  <2> QED
    BY <2>1, <2>2
<1>7. QueueIsSuffix'
  BY <1>1, <1>3, EmptySeq DEF QueueIsSuffix
<1>8. TypeOK'
  BY <1>1, <1>2, <1>3, <1>4, <1>5, EmptySeq DEF TypeOK, PopRoot, Nodes
<1>9. LiveAreQueued' /\ LevelsFall'
  BY <1>1, <1>3, <1>5, <1>6 DEF LiveAreQueued, LevelsFall, Nodes
<1>10. ConsumedAreLow'
  BY <1>1, <1>3, EmptySeq DEF ConsumedAreLow, front, tail
<1>11. ScanPosition' /\ FrontIsLive' /\ LastCombined' /\ PaddingLevel'
  BY <1>1 DEF ScanPosition, FrontIsLive, LastCombined, PaddingLevel
<1>12. Control'
  BY <1>1, <1>4, <1>5, <1>6 DEF Control, PopRoot
<1> QED
  BY <1>5, <1>7, <1>8, <1>9, <1>10, <1>11, <1>12 DEF IInv

\* The empty data set ends in a crash and disturbs nothing before it.
LEMMA PopEmptyKeepsIInv ==
  ASSUME IInv, PopEmpty
  PROVE  IInv'
<1>1. UNCHANGED <<heap, queue>> /\ pc = "pop" /\ pc' = "crash"
  BY DEF PopEmpty
<1>2. /\ Nodes' = Nodes /\ Live' = Live /\ tail' = tail /\ front' = front
      /\ \A n : LevelOf(n)' = LevelOf(n)
      /\ QueueIsSuffix' /\ NodeShape' /\ ConsumedAreLow'
  BY <1>1, QuietStep
<1>3. TypeOK'
  BY <1>1, <1>2 DEF IInv, TypeOK, PopEmpty
<1>4. LiveAreQueued' /\ LevelsFall' /\ ScanPosition'
  BY <1>1, <1>2 DEF IInv, LiveAreQueued, LevelsFall, ScanPosition
<1>5. FrontIsLive' /\ LastCombined' /\ PaddingLevel' /\ Control'
  BY <1>1, <1>2 DEF IInv, FrontIsLive, LastCombined, PaddingLevel, Control, PopEmpty
<1> QED
  BY <1>2, <1>3, <1>4, <1>5 DEF IInv

\* A new leaf, appended between two scans, is lower than every other live node
\* or level with the last of them; the scan starts on it.
LEMMA NewLeafKeepsQueue ==
  ASSUME IInv, pc \in {"for", "pad"},
         NEW node \in Node, NEW h,
         node.m_level = NODELEVEL_LEAF, node.m_lchild = NULL, node.m_rchild = NULL,
         EnqueueLeaf(node, h), StartScan
  PROVE  /\ QueueIsSuffix' /\ NodeShape' /\ LiveAreQueued' /\ LevelsFall'
         /\ ConsumedAreLow' /\ ScanPosition' /\ FrontIsLive' /\ LastCombined'
         /\ front' = front
<1>1. /\ TypeOK /\ QueueIsSuffix /\ NodeShape /\ LiveAreQueued /\ LevelsFall
      /\ ConsumedAreLow /\ FrontIsLive
  BY DEF IInv
<1>2. /\ Len(heap') = Len(heap) + 1 /\ Len(queue') = Len(queue) + 1
      /\ queue' \in Seq(Nodes')
      /\ \A n \in Nodes : LevelOf(n)' = LevelOf(n)
      /\ LevelOf(tail)' = 0 /\ Live' = Live \cup {tail'}
      /\ QueueIsSuffix' /\ NodeShape'
  BY <1>1, EnqueueLeafStep
<1>3. PICK t : t = tail'
  OBVIOUS
<1>4. /\ Len(heap) \in Nat /\ Len(queue) \in Nat /\ Len(queue) <= Len(heap)
      /\ t = Len(heap) + 1 /\ t \notin Nodes /\ Live \subseteq Nodes /\ Nodes \subseteq Nat
  BY <1>1, <1>2, <1>3, FieldTypes DEF QueueIsSuffix, tail, Nodes, Live
<1>5. /\ front' = front /\ front \in Nat /\ front <= t /\ Live' = Live \cup {t}
      /\ LevelOf(t)' = 0 /\ t \in Nat
  BY <1>2, <1>3, <1>4 DEF front, LevelOf
<1>6. pc' = "scan" /\ cur' = Len(queue) + 1 /\ bCombined' = FALSE
  BY DEF StartScan
<1>7. queue' # <<>>
  BY <1>2, <1>4, EmptySeq
<1>8. LiveAreQueued'
  BY <1>1, <1>3, <1>5 DEF LiveAreQueued
<1>9. LevelsFall'
  <2> SUFFICES ASSUME NEW m \in Live', NEW n \in Live', m < n
               PROVE  \/ LevelOf(m)' > LevelOf(n)'
                      \/ n = t /\ LevelOf(m)' = LevelOf(n)'
    BY <1>3, <1>6 DEF LevelsFall
  <2>1. m \in Live
    BY <1>4, <1>5 DEF Nodes
  <2>2. m \in Nodes /\ LevelOf(m)' = LevelOf(m) /\ LevelOf(m) \in Nat
    BY <2>1, <1>1, <1>2, <1>4, FieldTypes
  <2>3. CASE n = t
    BY <2>2, <2>3, <1>5
  <2>4. CASE n \in Live
    <3>1. LevelOf(m) > LevelOf(n)
      BY <2>1, <2>4, <1>1 DEF LevelsFall
    <3> QED
      BY <3>1, <2>2, <2>4, <1>2, <1>4
  <2> QED
    BY <2>3, <2>4, <1>5
<1>10. ConsumedAreLow'
  <2> SUFFICES ASSUME NEW x \in front..t, x \notin Live'
               PROVE  \E y \in Live' : /\ x < y /\ LevelOf(x)' < LevelOf(y)'
                                       /\ \A z \in Live' : z <= x \/ y <= z
    BY <1>3, <1>5 DEF ConsumedAreLow
  <2>1. x \in front..tail /\ x \notin Live
    BY <1>4, <1>5 DEF tail
  <2>2. PICK y \in Live : /\ x < y /\ LevelOf(x) < LevelOf(y)
                          /\ \A z \in Live : z <= x \/ y <= z
    BY <2>1, <1>1 DEF ConsumedAreLow
  <2>3. x \in Nodes /\ y \in Nodes
    BY <2>1, <2>2, <1>4 DEF Nodes, tail, front
  <2>4. LevelOf(x)' < LevelOf(y)'
    BY <2>2, <2>3, <1>2
  <2>5. y <= t
    BY <2>3, <1>4 DEF Nodes
  <2> QED
    BY <2>2, <2>4, <2>5, <1>5
<1>11. ScanPosition'
  <2>1. cursor' = t /\ cur' \in 1..Len(queue')
    BY <1>2, <1>4, <1>6 DEF cursor
  <2>2. ASSUME NEW z \in Live', t <= z PROVE z = t
    BY <2>2, <1>4, <1>5 DEF Nodes
  <2> QED
    BY <2>1, <2>2, <1>3, <1>6 DEF ScanPosition
<1>12. front \in Live'
  <2>1. CASE queue = <<>>
    <3>1. Len(queue) = 0
      BY <2>1, EmptySeq
    <3> QED
      BY <3>1, <1>4, <1>5 DEF front
  <2>2. CASE queue # <<>>
    BY <2>2, <1>1, <1>5 DEF FrontIsLive
  <2> QED
    BY <2>1, <2>2
<1>13. FrontIsLive' /\ LastCombined'
  BY <1>5, <1>6, <1>7, <1>12 DEF FrontIsLive, LastCombined
<1> QED
  BY <1>2, <1>5, <1>8, <1>9, <1>10, <1>11, <1>13

\* Feeding an element of the data set.
LEMMA FeedLeafKeepsIInv ==
  ASSUME IInv, FeedLeaf
  PROVE  IInv'
<1>1. TypeOK /\ QueueIsSuffix /\ NodeShape /\ pc = "for" /\ phase = "feed" /\ pds # NullDs
  BY DEF IInv, Control, FeedLeaf
<1>2. PICK node, h : /\ node = makeMHTNode(pds.m_pDE[i + 1].m_index, NODELEVEL_LEAF)
                     /\ EnqueueLeaf(node, h)
  BY DEF FeedLeaf
<1>3. node \in Node
  <2>1. pds.m_pDE[i + 1].m_index \in Int
    <3>1. pds \in DataSets /\ i \in Nat /\ i < pds.m_size
      BY <1>1 DEF TypeOK, FeedLeaf
    <3>2. pds.m_size \in Nat
      BY <3>1, DataSetsAssumption
    <3>3. i + 1 \in 1..pds.m_size
      BY <3>1, <3>2
    <3> QED
      BY <3>1, <3>3, DataSetsAssumption
  <2> QED
    BY <2>1, <1>2 DEF makeMHTNode, Node, NODELEVEL_LEAF, NULL
<1>4. node.m_level = NODELEVEL_LEAF /\ node.m_lchild = NULL /\ node.m_rchild = NULL
  BY <1>2 DEF makeMHTNode
<1>5. /\ QueueIsSuffix' /\ NodeShape' /\ LiveAreQueued' /\ LevelsFall'
      /\ ConsumedAreLow' /\ ScanPosition' /\ FrontIsLive' /\ LastCombined'
  BY <1>1, <1>2, <1>3, <1>4, NewLeafKeepsQueue DEF FeedLeaf
<1>6. /\ heap' \in Seq(Node) /\ queue' \in Seq(Nodes') /\ span' \in Seq(Span)
      /\ Len(span') = Len(heap') /\ leaves' \in Seq(Nodes') /\ DOMAIN m_hash' = Nodes'
      /\ Len(heap') = Len(heap) + 1
  BY <1>1, <1>2, <1>3, <1>4, EnqueueLeafStep
<1>7. freed' = {} /\ pmhtroot' = NULL
  BY <1>1 DEF IInv, Control, FeedLeaf
<1>8. TypeOK'
  <2>1. cur' \in Nat /\ pc' = "scan"
    <3>1. Len(queue) \in Nat
      BY <1>1, FieldTypes
    <3> QED
      BY <3>1 DEF FeedLeaf, StartScan
  <2>2. bCombined' \in BOOLEAN
    BY DEF FeedLeaf, StartScan
  <2> QED
    BY <2>1, <2>2, <1>1, <1>6, <1>7 DEF TypeOK, FeedLeaf, Span
<1>9. PaddingLevel'
  BY <1>1 DEF PaddingLevel, FeedLeaf
<1>10. Control'
  BY <1>1, <1>7 DEF Control, FeedLeaf, StartScan
<1> QED
  BY <1>5, <1>8, <1>9, <1>10 DEF IInv

\* Padding: the first tree in the queue is still the one padding started with.
LEMMA PadLeafKeepsIInv ==
  ASSUME IInv, PadLeaf
  PROVE  IInv'
<1>1. /\ TypeOK /\ QueueIsSuffix /\ NodeShape /\ pc = "pad" /\ phase = "pad"
      /\ pds # NullDs /\ queue # <<>> /\ front \in Live
  BY DEF IInv, Control, LastCombined, FrontIsLive, PadLeaf
<1>2. PICK node, h : node = makeZeroMHTNode(last_mhtnode_index') /\ EnqueueLeaf(node, h)
  BY DEF PadLeaf
<1>3. last_mhtnode_index' \in Int
  BY <1>1, IntAssumption DEF TypeOK, PadLeaf, Increment
<1>4. /\ node \in Node
      /\ node.m_level = NODELEVEL_LEAF /\ node.m_lchild = NULL /\ node.m_rchild = NULL
  BY <1>2, <1>3 DEF makeZeroMHTNode, makeMHTNode, Node, NODELEVEL_LEAF, NULL
<1>5. /\ QueueIsSuffix' /\ NodeShape' /\ LiveAreQueued' /\ LevelsFall'
      /\ ConsumedAreLow' /\ ScanPosition' /\ FrontIsLive' /\ LastCombined'
      /\ front' = front
  BY <1>1, <1>2, <1>4, NewLeafKeepsQueue DEF PadLeaf
<1>6. /\ heap' \in Seq(Node) /\ queue' \in Seq(Nodes') /\ span' \in Seq(Span)
      /\ Len(span') = Len(heap') /\ leaves' \in Seq(Nodes') /\ DOMAIN m_hash' = Nodes'
      /\ Len(heap') = Len(heap) + 1 /\ Live' = Live \cup {tail'}
      /\ \A n \in Nodes : LevelOf(n)' = LevelOf(n)
  BY <1>1, <1>2, <1>4, EnqueueLeafStep
<1>7. freed' = {} /\ pmhtroot' = NULL
  BY <1>1 DEF IInv, Control, PadLeaf
<1>8. TypeOK'
  <2>1. cur' \in Nat /\ pc' = "scan"
    <3>1. Len(queue) \in Nat
      BY <1>1, FieldTypes
    <3> QED
      BY <3>1 DEF PadLeaf, StartScan
  <2>2. bCombined' \in BOOLEAN
    BY DEF PadLeaf, StartScan
  <2> QED
    BY <2>1, <2>2, <1>1, <1>3, <1>6, <1>7 DEF TypeOK, PadLeaf, Span
<1>9. PaddingLevel'
  <2>1. /\ tail \in Nodes /\ front \in Nodes /\ pQ = tail /\ Len(heap) \in Nat \ {0}
    BY <1>1, Positions
  <2>2. tail \in Live /\ tail' # tail
    BY <2>1, <1>6, EmptySeq DEF IInv, LiveAreQueued, tail
  <2>3. Live' # {tail'}
    BY <2>2, <1>6
  <2>4. LevelOf(front) = qHeaderLevel
    <3>1. LevelOf(tail) <= qHeaderLevel /\ LevelOf(tail) \in Nat /\ qHeaderLevel \in Nat
      BY <2>1, <1>1, FieldTypes DEF PadLeaf, TypeOK
    <3> QED
      BY <3>1, <1>1 DEF IInv, PaddingLevel
  <2>5. LevelOf(front)' = LevelOf(front)
    <3>1. PICK f : f = front
      OBVIOUS
    <3>2. LevelOf(f)' = LevelOf(f)
      BY <3>1, <2>1, <1>6
    <3> QED
      BY <3>1, <3>2, <1>5 DEF LevelOf
  <2> QED
    BY <2>3, <2>4, <2>5 DEF PaddingLevel, PadLeaf
<1>10. Control'
  BY <1>1, <1>7 DEF Control, PadLeaf, StartScan
<1> QED
  BY <1>5, <1>8, <1>9, <1>10 DEF IInv

\* The combined node takes the place of the last two live ones, one level up.
LEMMA CombineKeepsIInv ==
  ASSUME IInv, Combine
  PROVE  IInv'
<1>1. /\ TypeOK /\ QueueIsSuffix /\ NodeShape /\ LiveAreQueued /\ LevelsFall
      /\ ConsumedAreLow /\ ScanPosition /\ FrontIsLive /\ queue # <<>>
      /\ pc = "combine" /\ pc' = "scan" /\ cur' = cur - 1 /\ bCombined' = TRUE
  BY DEF IInv, LastCombined, Combine
<1>2. PICK l, r, t : l = cursor - 1 /\ r = tail /\ t = tail'
  OBVIOUS
<1>3. /\ cur \in 1..Len(queue) /\ cur > 1 /\ LevelOf(l) = LevelOf(r)
      /\ \A z \in Live : cursor <= z => z = r
  BY <1>1, <1>2 DEF ScanPosition
<1>4. l \in Live /\ l # r
  BY <1>2, LastTwoLive
<1>5. /\ heap' \in Seq(Node) /\ queue' \in Seq(Nodes') /\ span' \in Seq(Span)
      /\ Len(span') = Len(heap') /\ DOMAIN m_hash' = Nodes'
      /\ Len(heap') = Len(heap) + 1 /\ Len(queue') = Len(queue) + 1
      /\ Nodes' = Nodes \cup {t}
      /\ \A n \in Nodes : LevelOf(n)' = LevelOf(n)
      /\ LevelOf(tail)' = LevelOf(r) + 1
      /\ Live' = (Live \ {l, r}) \cup {t}
      /\ QueueIsSuffix' /\ NodeShape'
  BY <1>1, <1>2, CombineStep
<1>6. /\ Len(queue) \in Nat \ {0} /\ Len(heap) \in Nat \ {0} /\ Len(queue) <= Len(heap)
      /\ r \in Nodes /\ l \in front..r /\ front \in Nodes
  BY <1>1, <1>2, <1>3, Positions
<1>7. /\ t = Len(heap) + 1 /\ r = Len(heap) /\ Nodes = 1..Len(heap)
      /\ Live \subseteq Nodes /\ r \in Live
      /\ LevelOf(t)' = LevelOf(r) + 1 /\ LevelOf(r) \in Nat /\ l \in Nodes
  <2>1. t = Len(heap) + 1 /\ r = Len(heap) /\ Nodes = 1..Len(heap) /\ LevelOf(r) \in Nat
    BY <1>1, <1>2, <1>5, <1>6, FieldTypes DEF tail, Nodes
  <2>2. Live \subseteq Nodes /\ r \in Live
    BY <1>1, <1>2, <1>6, EmptySeq DEF Live, LiveAreQueued
  <2>3. LevelOf(t)' = LevelOf(r) + 1
    BY <1>2, <1>5 DEF LevelOf
  <2> QED
    BY <2>1, <2>2, <2>3, <1>4
<1>8. /\ front' = front /\ cursor' = l /\ front <= l /\ l < r /\ cursor = l + 1
  BY <1>1, <1>2, <1>3, <1>4, <1>5, <1>6, <1>7 DEF front, cursor
<1>9. \A z \in Live \ {l, r} : z \in Nat /\ front <= z /\ z < l
  BY <1>2, LastTwoLive
<1>10. queue' # <<>>
  BY <1>5, <1>6, EmptySeq
<1>11. TypeOK'
  <2>1. cur' \in Nat /\ bCombined' \in BOOLEAN /\ cbd' \in Nat
    BY <1>1, <1>3, <1>6 DEF Combine
  <2>2. freed' \subseteq Nodes' /\ leaves' \in Seq(Nodes')
    <3>1. freed' = freed /\ leaves' = leaves /\ freed \subseteq Nodes /\ leaves \in Seq(Nodes)
      BY <1>1 DEF Combine, TypeOK
    <3> QED
      BY <3>1, <1>5, SeqMonotonic
  <2> QED
    BY <2>1, <2>2, <1>1, <1>5 DEF TypeOK, Combine, Span
<1>12. LiveAreQueued'
  BY <1>2, <1>5, <1>6, <1>7, <1>8, <1>9 DEF LiveAreQueued
<1>13. LevelsFall'
  <2> SUFFICES ASSUME NEW m \in Live', NEW n \in Live', m < n
               PROVE  \/ LevelOf(m)' > LevelOf(n)'
                      \/ n = t /\ LevelOf(m)' = LevelOf(n)'
    BY <1>1, <1>2 DEF LevelsFall
  <2>1. m \in Live \ {l, r}
    BY <1>5, <1>6, <1>7
  <2>2. m \in Nodes /\ m < l /\ LevelOf(m)' = LevelOf(m) /\ LevelOf(m) \in Nat
    BY <2>1, <1>1, <1>5, <1>7, <1>9, FieldTypes
  <2>3. CASE n = t
    <3>1. LevelOf(m) > LevelOf(l)
      BY <2>1, <2>2, <1>2, <1>4, <1>1 DEF LevelsFall
    <3> QED
      BY <3>1, <2>2, <2>3, <1>3, <1>7
  <2>4. CASE n \in Live \ {l, r}
    <3>1. LevelOf(m) > LevelOf(n)
      BY <2>1, <2>4, <1>1, <1>2 DEF LevelsFall
    <3> QED
      BY <3>1, <2>2, <2>4, <1>5, <1>7
  <2> QED
    BY <2>3, <2>4, <1>5
<1>14. ConsumedAreLow'
  <2> SUFFICES ASSUME NEW x \in front..t, x \notin Live'
               PROVE  \E y \in Live' : /\ x < y /\ LevelOf(x)' < LevelOf(y)'
                                       /\ \A z \in Live' : z <= x \/ y <= z
    BY <1>2, <1>8 DEF ConsumedAreLow
  <2>1. x \in front..r /\ x \in Nodes /\ x < t /\ LevelOf(x)' = LevelOf(x) /\ LevelOf(x) \in Nat
    <3>1. x \in front..r /\ x \in Nodes /\ x < t
      BY <1>5, <1>6, <1>7
    <3> QED
      BY <3>1, <1>1, <1>5, FieldTypes
  <2>2. CASE x \in {l, r}
    <3>1. LevelOf(x)' < LevelOf(t)'
      BY <2>1, <2>2, <1>3, <1>7
    <3>2. \A z \in Live' : z <= x \/ t <= z
      BY <2>1, <2>2, <1>5, <1>6, <1>7, <1>8, <1>9
    <3> QED
      BY <3>1, <3>2, <2>1, <1>5
  <2>3. CASE x \notin Live
    <3>1. PICK y \in Live : /\ x < y /\ LevelOf(x) < LevelOf(y)
                            /\ \A z \in Live : z <= x \/ y <= z
      BY <2>1, <2>3, <1>1, <1>2 DEF ConsumedAreLow
    <3>2. CASE y \in {l, r}
      <4>1. LevelOf(x)' < LevelOf(t)'
        BY <3>1, <3>2, <2>1, <1>3, <1>7
      <4>2. ASSUME NEW z \in Live \ {l, r} PROVE z <= x
        BY <3>1, <3>2, <1>6, <1>7, <1>8, <1>9
      <4> QED
        BY <4>1, <4>2, <2>1, <1>5, <1>7
    <3>3. CASE y \notin {l, r}
      <4>1. y \in Live' /\ y \in Nodes /\ LevelOf(y)' = LevelOf(y) /\ y <= t
        BY <3>3, <1>5, <1>7
      <4> QED
        BY <4>1, <3>1, <2>1, <1>5
    <3> QED
      BY <3>2, <3>3
  <2> QED
    BY <2>1, <2>2, <2>3, <1>5
<1>15. ScanPosition'
  <2>1. cur' \in 1..Len(queue')
    BY <1>1, <1>3, <1>5, <1>6
  <2>2. \A z \in Live' : l <= z => z = t
    BY <1>5, <1>6, <1>7, <1>9
  <2> QED
    BY <2>1, <2>2, <1>1, <1>2, <1>8 DEF ScanPosition
<1>16. front \in Live
  BY <1>1, <1>2, <1>4 DEF FrontIsLive
<1>17. front \notin Live' => front = l /\ Live' = {t}
  <2> SUFFICES ASSUME front \notin Live' PROVE front = l /\ Live' = {t}
    OBVIOUS
  <2>1. front = l
    BY <1>5, <1>6, <1>7, <1>8, <1>16
  <2>2. \A z \in Live \ {l, r} : FALSE
    <3>1. l \in Nat
      BY <1>7
    <3> QED
      BY <2>1, <3>1, <1>9
  <2> QED
    BY <2>1, <2>2, <1>5
<1>18. FrontIsLive' /\ LastCombined'
  <2>1. cbd' = t
    BY <1>7 DEF Combine
  <2> QED
    BY <2>1, <1>1, <1>2, <1>8, <1>10, <1>17 DEF FrontIsLive, LastCombined
<1>19. PaddingLevel'
  <2> SUFFICES ASSUME phase = "pad"
               PROVE  IF Live' = {t} THEN LevelOf(t)' > qHeaderLevel
                                     ELSE LevelOf(front)' = qHeaderLevel
    BY <1>2 DEF PaddingLevel, Combine, LevelOf
  <2>1. LevelOf(front) = qHeaderLevel
    BY <1>1, <1>2, <1>4 DEF IInv, PaddingLevel
  <2>2. CASE Live' = {t}
    <3>1. front \in {l, r}
      <4>1. front # t
        BY <1>6, <1>7
      <4>2. Live' = (Live \ {l, r}) \cup {t}
        BY <1>5
      <4> QED
        BY <4>1, <4>2, <2>2, <1>16
    <3>2. LevelOf(r) = qHeaderLevel
      BY <3>1, <2>1, <1>3
    <3> QED
      BY <3>2, <2>2, <1>7
  <2>3. CASE Live' # {t}
    <3>1. PICK f : f = front
      OBVIOUS
    <3>2. LevelOf(f)' = LevelOf(f)
      BY <3>1, <1>5, <1>6
    <3> QED
      BY <3>1, <3>2, <2>1, <2>3, <1>8 DEF LevelOf
  <2> QED
    BY <2>2, <2>3
<1>20. Control'
  BY <1>1 DEF IInv, Control, Combine
<1> QED
  BY <1>5, <1>11, <1>12, <1>13, <1>14, <1>15, <1>18, <1>19, <1>20 DEF IInv

-----------------------------------------------------------------------------
(* The theorems *)

\* The invariant holds at first.
LEMMA InitIInv ==
  ASSUME Init
  PROVE  IInv
<1>1. heap = <<>> /\ queue = <<>> /\ Nodes = {} /\ Live = {} /\ Len(heap) = 0 /\ Len(queue) = 0
  <2>1. Len(heap) = 0 /\ Len(queue) = 0 /\ heap = <<>> /\ queue = <<>>
    BY EmptySeq DEF Init
  <2> QED
    BY <2>1 DEF Nodes, Live
<1>2. TypeOK
  <2>1. m_hash = <<>> /\ DOMAIN m_hash = {}
    BY DEF Init
  <2>2. <<>> \in Seq(Node) /\ <<>> \in Seq(Nodes) /\ <<>> \in Seq([lo : Nat, hi : Nat])
    BY EmptySeq
  <2>3. bCombined \in BOOLEAN
    BY DEF Init
  <2>4. /\ i \in Nat /\ cur \in Nat /\ walk \in Nat /\ cbd \in Nat /\ pmhtroot \in Nat
        /\ last_mhtnode_index \in Int /\ qHeaderLevel \in Nat /\ ret_val \in {0, -1}
    BY IntAssumption DEF Init, NULL, UNASSIGNED_INDEX
  <2>5. heap \in Seq(Node) /\ queue \in Seq(Nodes) /\ leaves \in Seq(Nodes)
        /\ span \in Seq([lo : Nat, hi : Nat]) /\ Len(span) = Len(heap)
    BY <1>1, <2>2 DEF Init
  <2> QED
    BY <1>1, <2>1, <2>3, <2>4, <2>5 DEF Init, TypeOK
<1>3. QueueIsSuffix /\ NodeShape /\ LiveAreQueued /\ LevelsFall /\ ConsumedAreLow
  BY <1>1 DEF QueueIsSuffix, NodeShape, LiveAreQueued, LevelsFall, ConsumedAreLow, front, tail
<1>4. ScanPosition /\ FrontIsLive /\ LastCombined /\ PaddingLevel
  BY <1>1 DEF Init, ScanPosition, FrontIsLive, LastCombined, PaddingLevel
<1>5. Control
  BY <1>1 DEF Init, Control
<1> QED
  BY <1>2, <1>3, <1>4, <1>5 DEF IInv

\* A step that changes nothing keeps the invariant.
LEMMA StutterKeepsIInv ==
  ASSUME IInv, UNCHANGED buildVars
  PROVE  IInv'
<1>1. UNCHANGED <<heap, queue>>
  BY DEF buildVars
<1>2. /\ Nodes' = Nodes /\ Live' = Live /\ tail' = tail /\ front' = front
      /\ \A n : LevelOf(n)' = LevelOf(n)
      /\ QueueIsSuffix' /\ NodeShape' /\ ConsumedAreLow'
  BY <1>1, QuietStep
<1>3. TypeOK'
  BY <1>1, <1>2 DEF IInv, TypeOK, buildVars
<1>4. LiveAreQueued' /\ LevelsFall'
  BY <1>1, <1>2 DEF IInv, LiveAreQueued, LevelsFall, buildVars
<1>5. ScanPosition'
  <2>1. /\ cursor' = cursor /\ LevelOf(cursor - 1)' = LevelOf(cursor - 1)
        /\ LevelOf(tail)' = LevelOf(tail)
    BY DEF cursor, LevelOf, tail, buildVars
  <2> QED
    BY <2>1, <1>2 DEF IInv, ScanPosition, buildVars
<1>6. FrontIsLive' /\ LastCombined' /\ PaddingLevel' /\ Control'
  BY <1>1, <1>2 DEF IInv, FrontIsLive, LastCombined, PaddingLevel, Control, buildVars
<1> QED
  BY <1>2, <1>3, <1>4, <1>5, <1>6 DEF IInv

\* Every step of create_mht_from_ordered_ds keeps the inductive invariant.
LEMMA InductiveStep ==
  ASSUME IInv, [Next]_buildVars
  PROVE  IInv'
<1>1. CASE RejectNull \/ InitQueue
  BY <1>1, CallActionsKeepIInv
<1>2. CASE FeedLeaf
  BY <1>2, FeedLeafKeepsIInv
<1>3. CASE ScanStop
  BY <1>3, ScanStopKeepsIInv
<1>4. CASE ScanSkip
  BY <1>4, ScanSkipKeepsIInv
<1>5. CASE ScanMatch
  BY <1>5, ScanMatchKeepsIInv
<1>6. CASE WalkRight
  BY <1>6, WalkRightKeepsIInv
<1>7. CASE Combine
  BY <1>7, CombineKeepsIInv
<1>8. CASE Drain
  BY <1>8, DrainKeepsIInv
<1>9. CASE DrainStop
  BY <1>9, DrainStopKeepsIInv
<1>10. CASE StartPadding
  BY <1>10, StartPaddingKeepsIInv
<1>11. CASE PadLeaf
  BY <1>11, PadLeafKeepsIInv
<1>12. CASE LeaveLoops
  BY <1>12, LeaveLoopsKeepsIInv
<1>13. CASE PopRoot
  BY <1>13, PopRootKeepsIInv
<1>14. CASE PopEmpty
  BY <1>14, PopEmptyKeepsIInv
<1>15. CASE UNCHANGED buildVars
  BY <1>15, StutterKeepsIInv
<1> QED
  BY <1>1, <1>2, <1>3, <1>4, <1>5, <1>6, <1>7, <1>8, <1>9, <1>10, <1>11, <1>12,
     <1>13, <1>14, <1>15 DEF Next, BuildStep, Returned

\* The inductive invariant holds for every data set, throughout the call.
THEOREM Inductive == Spec => []IInv
<1>1. Init => IInv
  BY InitIInv
<1>2. IInv /\ [Next]_buildVars => IInv'
  BY InductiveStep
<1> QED
  BY <1>1, <1>2, PTL DEF Spec

\* Every field of every node, and every local variable of the three routines,
\* keeps its type: no step reads a node or a cell that does not exist.
THEOREM TypeCorrect == Spec => []TypeOK
<1>1. IInv => TypeOK
  BY DEF IInv
<1> QED
  BY <1>1, Inductive, PTL

\* When create_mht_from_ordered_ds returns a tree, for every data set, each node
\* it allocated but the root is some node's child, and freeQueue released none
\* of them: the dequeuing of consumed nodes neither loses a subtree nor leaves
\* one behind in the queue.
THEOREM NothingIsLost == Spec => []EveryNodeIsInTree
<1>1. IInv => EveryNodeIsInTree
  BY DEF IInv, EveryNodeIsInTree, Built, Control
<1> QED
  BY <1>1, Inductive, PTL

=============================================================================
