------------------------ MODULE MhtBuildOrderProofs ------------------------
(***************************************************************************)
(* Proofs about what the tree handed out holds, for every data set: its    *)
(* leaves are, from left to right, the data set's elements in order and    *)
(* then padding; as long as no hash contains a zero byte, every inner node *)
(* has the digest of its children's two hashes; and the page number of     *)
(* every inner node divides the leaves below it, padding included, so that *)
(* the tree can be searched.                                               *)
(***************************************************************************)
EXTENDS MhtBuildProofs

\* What a step that allocates no node keeps of the nodes.
AllKept ==
  /\ NodesKept /\ Len(heap') = Len(heap)
  /\ \A n \in Nodes : PageNo(n)' = PageNo(n)
  /\ UNCHANGED <<pds, m_hash, leaves, span>>

\* Only the actions that enqueue a node allocate one.
LEMMA OthersKeepAll ==
  ASSUME IInv, [Next]_buildVars, ~FeedLeaf, ~PadLeaf, ~Combine
  PROVE  AllKept
<1>1. UNCHANGED <<pds, m_hash, leaves, span>>
  BY DEF Next, BuildStep, Returned, buildVars, RejectNull, InitQueue, ScanStop, ScanSkip,
     ScanMatch, WalkRight, Drain, DrainStop, StartPadding, LeaveLoops, PopRoot, PopEmpty
<1>2. CASE Drain
  <2>1. TypeOK /\ pc = "drain"
    BY <1>2 DEF IInv, Drain
  <2>2. PICK n \in Nodes : heap' = Marked(n)
    BY <2>1, <1>2, DrainedAreConsumed DEF Drain
  <2>3. heap \in Seq(Node) /\ Len(heap') = Len(heap) /\ NodesKept
    BY <2>1, <2>2, MarkedStep DEF TypeOK
  <2>4. \A q \in Nodes : heap[q] \in Node
    BY <2>1, FieldTypes
  <2>5. \A q \in Nodes : PageNo(q)' = PageNo(q)
    <3>1. CASE heap' = heap
      BY <3>1 DEF PageNo
    <3>2. CASE heap' = [heap EXCEPT ![n].m_is_supplement_node = TRUE]
      BY <3>2, <2>3, <2>4 DEF PageNo, Node, Nodes
    <3> QED
      BY <3>1, <3>2, <2>2 DEF Marked
  <2> QED
    BY <1>1, <2>3, <2>5 DEF AllKept
<1>3. CASE ~Drain
  <2>1. heap' = heap
    BY <1>3 DEF Next, BuildStep, Returned, buildVars, RejectNull, InitQueue, ScanStop, ScanSkip,
       ScanMatch, WalkRight, DrainStop, StartPadding, LeaveLoops, PopRoot, PopEmpty
  <2> QED
    BY <1>1, <2>1 DEF AllKept, NodesKept, LevelOf, lchild, rchild, PageNo
<1> QED
  BY <1>2, <1>3

\* The three parts of the invariant that speak of nodes survive such a step.
LEMMA KeptOrder ==
  ASSUME IInv, OrderInv, AllKept
  PROVE  SpansNest' /\ LeavesAreData' /\ LiveSpansAdjoin'
<1>1. TypeOK /\ NodeShape
  BY DEF IInv
<1>2. Nodes' = Nodes /\ Live' = Live /\ tail' = tail
  BY <1>1, SameShape DEF AllKept
<1>3. \A n \in Nodes : /\ Inner(n)' = Inner(n) /\ lchild(n)' = lchild(n) /\ rchild(n)' = rchild(n)
                       /\ PageNo(n)' = PageNo(n)
  BY DEF AllKept, NodesKept, Inner, LevelOf
<1>4. SpansNest'
  BY <1>2, <1>3 DEF OrderInv, SpansNest, SpanOf, lo, hi, AllKept
<1>5. LeavesAreData'
  <2>1. \A k \in 1..Len(leaves) : leaves[k] \in Nodes
    BY <1>1, ElementOfSeq DEF TypeOK
  <2> QED
    BY <2>1, <1>3 DEF OrderInv, LeavesAreData, LeafOf, LeafHash, AllKept, PageNo
<1>6. LiveSpansAdjoin'
  BY <1>2 DEF OrderInv, LiveSpansAdjoin, Neighbours, lo, hi, AllKept
<1> QED
  BY <1>4, <1>5, <1>6
\* What an enqueued node adds, and that the old ones keep their contents.
LEMMA EnqueueContents ==
  ASSUME TypeOK, QueueIsSuffix, NEW node \in Node, NEW h, NEW sp \in Span,
         Enqueue(node, h, sp), NEW new, new = Len(heap) + 1
  PROVE  /\ \A n \in Nodes : heap'[n] = heap[n] /\ m_hash'[n] = m_hash[n] /\ span'[n] = span[n]
         /\ heap'[new] = node /\ m_hash'[new] = h /\ span'[new] = sp
<1>1. Len(heap) \in Nat /\ span \in Seq(Span) /\ Len(span) = Len(heap)
  BY FieldTypes DEF TypeOK, Span
<1>2. \A n \in Nodes : heap'[n] = heap[n]
  BY EnqueueStep
<1>3. heap'[new] = node
  BY EnqueueStep
<1>4. (\A n \in Nodes : m_hash'[n] = m_hash[n]) /\ m_hash'[new] = h
  BY <1>1 DEF Enqueue, Nodes
<1>5. (\A n \in Nodes : span'[n] = span[n]) /\ span'[new] = sp
  <2>1. span' = Append(span, sp)
    BY DEF Enqueue
  <2> QED
    BY <2>1, <1>1, AppendProperties DEF Nodes
<1> QED
  BY <1>2, <1>3, <1>4, <1>5

\* The ends of a node's span are numbers.
LEMMA SpanFields ==
  ASSUME TypeOK, NEW n \in Nodes
  PROVE  lo(n) \in Nat /\ hi(n) \in Nat
<1>1. span \in Seq([lo : Nat, hi : Nat]) /\ n \in 1..Len(span)
  BY DEF TypeOK, Nodes
<1>2. span[n] \in [lo : Nat, hi : Nat]
  BY <1>1, ElementOfSeq
<1> QED
  BY <1>2 DEF lo, hi

\* An old node keeps its place in the order of the leaves.
LEMMA SpanKept ==
  ASSUME TypeOK, NodeShape, SpansNest, NodesKept,
         \A n \in Nodes : lo(n)' = lo(n) /\ hi(n)' = hi(n),
         Len(leaves) <= Len(leaves'), Len(leaves') \in Nat,
         \A k \in 1..Len(leaves) : leaves'[k] = leaves[k],
         NEW n \in Nodes
  PROVE  SpanOf(n)'
<1>1. Inner(n)' = Inner(n) /\ SpanOf(n) /\ Len(leaves) \in Nat
  BY LenProperties DEF NodesKept, Inner, LevelOf, SpansNest, TypeOK
<1>2. CASE Inner(n)
  <2>1. PICK l, r : l = lchild(n) /\ r = rchild(n)
    OBVIOUS
  <2>2. l \in Nodes /\ r \in Nodes
    BY <1>2, <2>1, ChildrenAreOlder
  <2>3. lo(n) = lo(l) /\ hi(l) + 1 = lo(r) /\ hi(r) = hi(n)
    BY <1>1, <1>2, <2>1 DEF SpanOf
  <2>4. lchild(n)' = l /\ rchild(n)' = r
    BY <2>1 DEF NodesKept
  <2>5. lo(n)' = lo(l)' /\ hi(l)' + 1 = lo(r)' /\ hi(r)' = hi(n)'
    BY <2>2, <2>3
  <2>6. /\ lo(lchild(n))' = lo(l)' /\ hi(lchild(n))' = hi(l)'
        /\ lo(rchild(n))' = lo(r)' /\ hi(rchild(n))' = hi(r)'
    BY <2>4 DEF lo, hi
  <2> QED
    BY <1>1, <1>2, <2>5, <2>6 DEF SpanOf
<1>3. CASE ~Inner(n)
  <2>1. lo(n) = hi(n) /\ lo(n) \in 1..Len(leaves) /\ leaves[lo(n)] = n
    BY <1>1, <1>3 DEF SpanOf
  <2>2. lo(n)' = hi(n)' /\ lo(n)' \in 1..Len(leaves')
    BY <2>1, <1>1
  <2>3. leaves'[lo(n)'] = n
    BY <2>1
  <2> QED
    BY <1>1, <1>3, <2>2, <2>3 DEF SpanOf
<1> QED
  BY <1>2, <1>3

\* Where nothing is live there is no leaf, and the last live node is the tail.
LEMMA LiveAndLeaves ==
  ASSUME IInv, pc # "done"
  PROVE  /\ Len(heap) \in Nat /\ Len(leaves) \in Nat
         /\ Live \subseteq Nodes /\ Nodes \subseteq Nat
         /\ Live = {} => Len(leaves) = 0
         /\ Live # {} => tail \in Live /\ \A z \in Live : z <= tail
<1>1. TypeOK /\ LiveAreQueued
  BY DEF IInv
<1>2. Len(heap) \in Nat /\ Len(leaves) \in Nat /\ Live \subseteq Nodes /\ Nodes \subseteq Nat
  BY <1>1, FieldTypes, LenProperties DEF TypeOK, Live, Nodes
<1>3. Nodes # {} => tail \in Live
  <2>1. Nodes # {} => heap # <<>>
    BY EmptySeq DEF Nodes
  <2> QED
    BY <2>1, <1>1 DEF LiveAreQueued
<1>4. ASSUME Live = {} PROVE Len(leaves) = 0
  <2>1. Nodes = {}
    BY <1>3, <1>4
  <2>2. ASSUME Len(leaves) # 0 PROVE FALSE
    <3>1. 1 \in 1..Len(leaves)
      BY <1>2, <2>2
    <3>2. leaves[1] \in Nodes
      BY <3>1, <1>1, ElementOfSeq DEF TypeOK
    <3> QED
      BY <3>2, <2>1
  <2> QED
    BY <2>2
<1>5. \A z \in Live : z <= tail
  BY <1>2 DEF Nodes, tail
<1> QED
  BY <1>2, <1>3, <1>4, <1>5

\* A new leaf comes last: it follows the span of the tail.
LEMMA NewLeafOrder ==
  ASSUME IInv, OrderInv, pc \in {"for", "pad"}, pds' = pds,
         NEW node \in Node, NEW h,
         node.m_level = NODELEVEL_LEAF, node.m_lchild = NULL, node.m_rchild = NULL,
         EnqueueLeaf(node, h),
         pds # NullDs =>
           IF Len(leaves) + 1 <= pds.m_size
           THEN /\ node.m_pageNo = pds.m_pDE[Len(leaves) + 1].m_index
                /\ h = LeafHash(pds, pds.m_pDE[Len(leaves) + 1])
           ELSE h = g_zeroHash
  PROVE  SpansNest' /\ LeavesAreData' /\ LiveSpansAdjoin' /\ Len(leaves') = Len(leaves) + 1
<1>1. TypeOK /\ QueueIsSuffix /\ NodeShape
  BY DEF IInv
<1>2. /\ Len(heap) \in Nat /\ Len(leaves) \in Nat
      /\ Live \subseteq Nodes /\ Nodes \subseteq Nat
      /\ Live = {} => Len(leaves) = 0
      /\ Live # {} => tail \in Live /\ \A z \in Live : z <= tail
  BY LiveAndLeaves
<1>3. PICK new, ord : new = Len(heap) + 1 /\ ord = Len(leaves) + 1
  OBVIOUS
<1>4. PICK sp : sp = [lo |-> ord, hi |-> ord]
  OBVIOUS
<1>5. sp \in Span
  BY <1>2, <1>3, <1>4 DEF Span
<1>6. Enqueue(node, h, sp) /\ leaves' = Append(leaves, new)
  BY <1>3, <1>4 DEF EnqueueLeaf
<1>7. /\ \A n \in Nodes : heap'[n] = heap[n] /\ m_hash'[n] = m_hash[n] /\ span'[n] = span[n]
      /\ heap'[new] = node /\ m_hash'[new] = h /\ span'[new] = sp
  BY <1>1, <1>3, <1>5, <1>6, EnqueueContents
<1>8. /\ Len(leaves') = ord /\ leaves'[ord] = new
      /\ \A k \in 1..Len(leaves) : leaves'[k] = leaves[k] /\ leaves[k] \in Nodes
  BY <1>1, <1>3, <1>6, AppendProperties, ElementOfSeq DEF TypeOK
<1>9. /\ Len(heap') = new /\ Live' = Live \cup {tail'} /\ tail' = new
  BY <1>1, <1>3, EnqueueLeafStep DEF tail
<1>10. Nodes' = Nodes \cup {new} /\ new \notin Nodes
  BY <1>2, <1>3, <1>9 DEF Nodes
<1>11. /\ \A n \in Nodes : lo(n)' = lo(n) /\ hi(n)' = hi(n)
       /\ lo(new)' = ord /\ hi(new)' = ord
  BY <1>4, <1>7 DEF lo, hi
<1>12. NodesKept /\ ~Inner(new)'
  BY <1>7 DEF NodesKept, LevelOf, lchild, rchild, Inner, NODELEVEL_LEAF
<1>13. SpansNest'
  <2>1. \A n \in Nodes : SpanOf(n)'
    BY <1>1, <1>2, <1>3, <1>8, <1>11, <1>12, SpanKept DEF OrderInv
  <2>2. SpanOf(new)'
    <3>1. lo(new)' = hi(new)' /\ lo(new)' \in 1..Len(leaves') /\ leaves'[lo(new)'] = new
      BY <1>2, <1>3, <1>8, <1>11
    <3> QED
      BY <3>1, <1>12 DEF SpanOf
  <2> QED
    BY <2>1, <2>2, <1>10 DEF SpansNest
<1>14. LeavesAreData'
  <2> SUFFICES ASSUME pds # NullDs, NEW k \in 1..ord PROVE LeafOf(k)'
    BY <1>8 DEF LeavesAreData
  <2>1. CASE k = ord
    <3>1. PageNo(leaves[k])' = node.m_pageNo /\ m_hash'[leaves'[k]] = h
      BY <2>1, <1>7, <1>8 DEF PageNo
    <3> QED
      BY <2>1, <3>1, <1>3 DEF LeafOf, LeafHash
  <2>2. CASE k \in 1..Len(leaves)
    <3>1. LeafOf(k)
      BY <2>2 DEF OrderInv, LeavesAreData
    <3>2. PageNo(leaves[k])' = PageNo(leaves[k]) /\ m_hash'[leaves'[k]] = m_hash[leaves[k]]
      BY <2>2, <1>7, <1>8 DEF PageNo
    <3> QED
      BY <3>1, <3>2 DEF LeafOf, LeafHash
  <2> QED
    BY <2>1, <2>2, <1>2, <1>3
<1>15. LiveSpansAdjoin'
  <2>1. ASSUME NEW m \in Live', NEW n \in Live', Neighbours(m, n)'
        PROVE  hi(m)' + 1 = lo(n)'
    <3>1. m < n /\ \A z \in Live' : z <= m \/ n <= z
      BY <2>1 DEF Neighbours
    <3>2. m \in Live
      BY <3>1, <1>2, <1>3, <1>9, <1>10 DEF Nodes
    <3>3. CASE n = new
      <4>1. m = tail
        <5>1. tail \in Live /\ tail \in Nat /\ m \in Nat /\ m <= tail /\ ~ (new <= tail)
          <6>1. Live # {}
            BY <3>2
          <6>2. tail \in Live /\ m <= tail
            BY <6>1, <3>2, <1>2
          <6>3. tail \in 1..Len(heap) /\ m \in 1..Len(heap)
            BY <6>2, <3>2, <1>2 DEF Nodes
          <6> QED
            BY <6>2, <6>3, <1>2, <1>3
        <5>2. tail <= m
          BY <5>1, <3>1, <3>3, <1>9
        <5> QED
          BY <5>1, <5>2
      <4>2. hi(m) = Len(leaves)
        BY <3>2, <4>1 DEF OrderInv, LiveSpansAdjoin
      <4> QED
        BY <3>2, <3>3, <4>2, <1>2, <1>3, <1>11
    <3>4. CASE n \in Live
      <4>1. Neighbours(m, n)
        BY <3>1, <1>9 DEF Neighbours
      <4>2. hi(m) + 1 = lo(n)
        BY <3>2, <3>4, <4>1 DEF OrderInv, LiveSpansAdjoin
      <4> QED
        BY <3>2, <3>4, <4>2, <1>2, <1>11
    <3> QED
      BY <3>3, <3>4, <1>9
  <2>2. ASSUME NEW n \in Live', \A z \in Live' : n <= z PROVE lo(n)' = 1
    <3>1. CASE n = new
      <4>1. Live = {}
        BY <2>2, <3>1, <1>2, <1>3, <1>9 DEF Nodes
      <4> QED
        BY <4>1, <3>1, <1>2, <1>3, <1>11
    <3>2. CASE n \in Live
      BY <2>2, <3>2, <1>2, <1>9, <1>11 DEF OrderInv, LiveSpansAdjoin
    <3> QED
      BY <3>1, <3>2, <1>9
  <2>3. hi(tail)' = Len(leaves')
    BY <1>8, <1>9, <1>11 DEF hi
  <2> QED
    BY <2>1, <2>2, <2>3 DEF LiveSpansAdjoin
<1> QED
  BY <1>3, <1>8, <1>13, <1>14, <1>15

\* A combination joins the spans of the last two live nodes, which adjoin.
LEMMA CombineOrder ==
  ASSUME IInv, OrderInv, Combine
  PROVE  SpansNest' /\ LeavesAreData' /\ LiveSpansAdjoin'
<1>1. /\ TypeOK /\ QueueIsSuffix /\ NodeShape /\ ScanPosition /\ queue # <<>> /\ pc = "combine"
      /\ leaves' = leaves /\ pds' = pds
  BY DEF IInv, LastCombined, Combine
<1>2. /\ Len(heap) \in Nat /\ Len(leaves) \in Nat
      /\ Live \subseteq Nodes /\ Nodes \subseteq Nat
  BY <1>1, LiveAndLeaves
<1>3. PICK l, r, new : l = cursor - 1 /\ r = tail /\ new = Len(heap) + 1
  OBVIOUS
<1>4. /\ l \in Live /\ r \in Live /\ l < r /\ l \in Nat
      /\ \A z \in Live \ {l, r} : z \in Nat /\ z < l
  BY <1>3, LastTwoLive
<1>5. /\ Len(heap') = Len(heap) + 1 /\ Nodes' = Nodes \cup {tail'}
      /\ Live' = (Live \ {l, r}) \cup {tail'} /\ LevelOf(tail)' = LevelOf(r) + 1
  BY <1>1, <1>3, CombineStep
<1>6. tail' = new /\ new \notin Nodes /\ r \in Nat
  BY <1>2, <1>3, <1>4, <1>5 DEF tail, Nodes
<1>7. PICK node, h, sp : /\ node = combineNodes(l, r, heap[walk].m_pageNo)
                         /\ sp = [lo |-> span[l].lo, hi |-> span[r].hi]
                         /\ Enqueue(node, h, sp)
  <2>1. lookBackward = l /\ pQ = r
    <3>1. cur \in 1..Len(queue) /\ cur > 1
      BY <1>1 DEF ScanPosition
    <3> QED
      BY <3>1, <1>1, <1>3, Positions
  <2> QED
    BY <2>1 DEF Combine
<1>8. /\ node.m_lchild = l /\ node.m_rchild = r /\ node.m_level = LevelOf(l) + 1
      /\ node \in Node
  <2>1. node = [m_pageNo |-> heap[walk].m_pageNo, m_level |-> LevelOf(l) + 1,
                m_is_supplement_node |-> FALSE, m_lchild |-> l, m_rchild |-> r]
    BY <1>7 DEF combineNodes, makeMHTNode, LevelOf
  <2>2. PageNo(walk) \in Int /\ LevelOf(l) \in Nat
    <3>1. walk \in Nodes
      BY <1>1 DEF ScanPosition
    <3> QED
      BY <3>1, <1>1, <1>2, <1>4, FieldTypes
  <2>3. heap[walk].m_pageNo \in Int
    BY <2>2 DEF PageNo
  <2> QED
    BY <2>1, <2>2, <2>3, <1>4, <1>6 DEF Node
<1>9. sp \in Span
  <2>1. l \in 1..Len(span) /\ r \in 1..Len(span) /\ span \in Seq(Span)
    BY <1>1, <1>2, <1>4 DEF Nodes, TypeOK, Span
  <2>2. span[l] \in Span /\ span[r] \in Span
    BY <2>1, ElementOfSeq
  <2> QED
    BY <2>2, <1>7 DEF Span
<1>10. /\ \A n \in Nodes : heap'[n] = heap[n] /\ m_hash'[n] = m_hash[n] /\ span'[n] = span[n]
       /\ heap'[new] = node /\ span'[new] = sp
  BY <1>1, <1>3, <1>7, <1>8, <1>9, EnqueueContents
<1>11. /\ \A n \in Nodes : lo(n)' = lo(n) /\ hi(n)' = hi(n)
       /\ lo(new)' = lo(l) /\ hi(new)' = hi(r)
       /\ lchild(new)' = l /\ rchild(new)' = r
  BY <1>7, <1>8, <1>10 DEF lo, hi, lchild, rchild
<1>12. NodesKept
  BY <1>10 DEF NodesKept, LevelOf, lchild, rchild
<1>13. Neighbours(l, r) /\ hi(l) + 1 = lo(r)
  <2>1. Neighbours(l, r)
    BY <1>4, <1>6 DEF Neighbours
  <2> QED
    BY <2>1, <1>4 DEF OrderInv, LiveSpansAdjoin
<1>14. SpansNest'
  <2>1. \A n \in Nodes : SpanOf(n)'
    BY <1>1, <1>2, <1>11, <1>12, SpanKept DEF OrderInv
  <2>2. SpanOf(new)'
    <3>1. /\ lo(lchild(new))' = lo(l)' /\ hi(lchild(new))' = hi(l)'
          /\ lo(rchild(new))' = lo(r)' /\ hi(rchild(new))' = hi(r)'
      BY <1>11 DEF lo, hi
    <3>2. Inner(new)'
      <4>1. heap'[new].m_level = LevelOf(l) + 1 /\ LevelOf(l) \in Nat
        BY <1>1, <1>2, <1>4, <1>8, <1>10, FieldTypes
      <4> QED
        BY <4>1 DEF Inner, NODELEVEL_LEAF
    <3>3. l \in Nodes /\ r \in Nodes
      BY <1>2, <1>4
    <3> QED
      BY <3>1, <3>2, <3>3, <1>11, <1>13 DEF SpanOf
  <2> QED
    BY <2>1, <2>2, <1>5, <1>6 DEF SpansNest
<1>15. LeavesAreData'
  <2>1. \A k \in 1..Len(leaves) : leaves[k] \in Nodes
    BY <1>1, ElementOfSeq DEF TypeOK
  <2> QED
    BY <2>1, <1>1, <1>10 DEF OrderInv, LeavesAreData, LeafOf, LeafHash, PageNo
<1>16. LiveSpansAdjoin'
  <2>1. ASSUME NEW m \in Live', NEW n \in Live', Neighbours(m, n)'
        PROVE  hi(m)' + 1 = lo(n)'
    <3>1. m < n /\ \A z \in Live' : z <= m \/ n <= z
      BY <2>1 DEF Neighbours
    <3>2. m \in Live \ {l, r} /\ m \in Nodes /\ m \in Nat /\ m < l
      BY <3>1, <1>2, <1>3, <1>4, <1>5, <1>6 DEF Nodes
    <3>3. CASE n = new
      <4>1. \A z \in Live \ {l, r} : z <= m
        BY <3>1, <3>3, <1>2, <1>3, <1>5, <1>6 DEF Nodes
      <4>2. Neighbours(m, l)
        BY <4>1, <3>2, <1>4, <1>6 DEF Neighbours
      <4>3. hi(m) + 1 = lo(l)
        BY <3>2, <4>2, <1>4 DEF OrderInv, LiveSpansAdjoin
      <4> QED
        BY <3>2, <3>3, <4>3, <1>11
    <3>4. CASE n \in Live \ {l, r}
      <4>1. n \in Nat /\ n < l /\ n \in Nodes
        BY <3>4, <1>2, <1>4
      <4>2. Neighbours(m, n)
        BY <3>1, <4>1, <1>4, <1>5, <1>6 DEF Neighbours
      <4>3. hi(m) + 1 = lo(n)
        BY <3>2, <3>4, <4>2 DEF OrderInv, LiveSpansAdjoin
      <4> QED
        BY <3>2, <4>1, <4>3, <1>11
    <3> QED
      BY <3>3, <3>4, <1>5, <1>6
  <2>2. ASSUME NEW n \in Live', \A z \in Live' : n <= z PROVE lo(n)' = 1
    <3>1. CASE n = new
      <4>1. \A z \in Live : l <= z
        BY <2>2, <3>1, <1>2, <1>3, <1>4, <1>5, <1>6 DEF Nodes
      <4>2. lo(l) = 1
        BY <4>1, <1>4 DEF OrderInv, LiveSpansAdjoin
      <4> QED
        BY <4>2, <3>1, <1>11
    <3>2. CASE n \in Live \ {l, r}
      <4>1. n \in Nodes /\ n < l /\ n \in Nat
        BY <3>2, <1>2, <1>4
      <4>2. \A z \in Live : n <= z
        BY <2>2, <4>1, <1>4, <1>5, <1>6
      <4>3. lo(n) = 1
        BY <3>2, <4>2 DEF OrderInv, LiveSpansAdjoin
      <4> QED
        BY <4>1, <4>3, <1>11
    <3> QED
      BY <3>1, <3>2, <1>5, <1>6
  <2>3. hi(tail)' = Len(leaves')
    <3>1. hi(r) = Len(leaves)
      BY <1>3, <1>4 DEF OrderInv, LiveSpansAdjoin
    <3>2. hi(tail)' = hi(new)'
      BY <1>6 DEF hi
    <3> QED
      BY <3>1, <3>2, <1>1, <1>11
  <2> QED
    BY <2>1, <2>2, <2>3 DEF LiveSpansAdjoin
<1> QED
  BY <1>14, <1>15, <1>16

-----------------------------------------------------------------------------
(* The order of the leaves *)

\* The size of a data set is a number.
LEMMA SizeType ==
  ASSUME TypeOK, pds # NullDs
  PROVE  pds.m_size \in Nat
BY DataSetsAssumption DEF TypeOK

\* The count of leaves follows the data set and then never falls short of it.
LEMMA LeafCountKept ==
  ASSUME IInv, OrderInv, [Next]_buildVars,
         FeedLeaf \/ PadLeaf => Len(leaves') = Len(leaves) + 1
  PROVE  LeafCount'
<1>1. /\ TypeOK /\ Control /\ LeafCount /\ Len(leaves) \in Nat /\ i \in Nat
      /\ phase \in {"feed", "pad"}
  BY LenProperties DEF IInv, OrderInv, TypeOK
<1>2. pds # NullDs => pds.m_size \in Nat
  BY <1>1, SizeType
<1>3. CASE RejectNull \/ InitQueue
  BY <1>1, <1>2, <1>3, EmptySeq DEF LeafCount, Control, RejectNull, InitQueue
<1>4. CASE FeedLeaf
  BY <1>1, <1>2, <1>4 DEF LeafCount, Control, FeedLeaf, StartScan
<1>5. CASE ScanStop
  BY <1>1, <1>2, <1>5 DEF LeafCount, Control, ScanStop, Resume
<1>6. CASE ScanSkip \/ ScanMatch \/ WalkRight \/ Combine \/ Drain
  BY <1>1, <1>2, <1>6 DEF LeafCount, Control, ScanSkip, ScanMatch, WalkRight, Combine, Drain
<1>7. CASE DrainStop
  BY <1>1, <1>2, <1>7 DEF LeafCount, Control, DrainStop, Resume
<1>8. CASE StartPadding
  BY <1>1, <1>2, <1>8 DEF LeafCount, Control, StartPadding
<1>9. CASE PadLeaf
  BY <1>1, <1>2, <1>9 DEF LeafCount, Control, PadLeaf, StartScan
<1>10. CASE LeaveLoops
  BY <1>1, <1>2, <1>10 DEF LeafCount, Control, LeaveLoops, PaddingDone
<1>11. CASE PopRoot \/ PopEmpty
  BY <1>1, <1>2, <1>11 DEF LeafCount, Control, PopRoot, PopEmpty
<1>12. CASE UNCHANGED buildVars
  BY <1>1, <1>2, <1>12 DEF LeafCount, buildVars
<1> QED
  BY <1>3, <1>4, <1>5, <1>6, <1>7, <1>8, <1>9, <1>10, <1>11, <1>12
     DEF Next, BuildStep, Returned

\* Every step keeps the order of the leaves.
LEMMA OrderStep ==
  ASSUME IInv, OrderInv, [Next]_buildVars
  PROVE  OrderInv'
<1>1. CASE FeedLeaf
  <2>1. pc = "for" /\ phase = "feed" /\ pds' = pds /\ TypeOK /\ pds # NullDs
    BY <1>1 DEF IInv, Control, FeedLeaf
  <2>2. Len(leaves) = i /\ i \in Nat /\ i < pds.m_size /\ pds.m_size \in Nat /\ pds \in DataSets
    BY <2>1, <1>1, SizeType DEF OrderInv, LeafCount, TypeOK, FeedLeaf
  <2>3. PICK node : node = makeMHTNode(pds.m_pDE[i + 1].m_index, NODELEVEL_LEAF)
    OBVIOUS
  <2>4. PICK h : h = LeafHash(pds, pds.m_pDE[i + 1])
    OBVIOUS
  <2>5. EnqueueLeaf(node, h)
    BY <2>3, <2>4, <1>1 DEF FeedLeaf
  <2>6. /\ node \in Node /\ node.m_pageNo = pds.m_pDE[i + 1].m_index
        /\ node.m_level = NODELEVEL_LEAF /\ node.m_lchild = NULL /\ node.m_rchild = NULL
    <3>1. i + 1 \in 1..pds.m_size
      BY <2>2
    <3>2. pds.m_pDE[i + 1].m_index \in Int
      BY <2>2, <3>1, DataSetsAssumption
    <3> QED
      BY <3>2, <2>3 DEF makeMHTNode, Node, NODELEVEL_LEAF, NULL
  <2>7. IF Len(leaves) + 1 <= pds.m_size
        THEN /\ node.m_pageNo = pds.m_pDE[Len(leaves) + 1].m_index
             /\ h = LeafHash(pds, pds.m_pDE[Len(leaves) + 1])
        ELSE h = g_zeroHash
    BY <2>2, <2>4, <2>6
  <2>8. SpansNest' /\ LeavesAreData' /\ LiveSpansAdjoin' /\ Len(leaves') = Len(leaves) + 1
    BY <2>1, <2>5, <2>6, <2>7, NewLeafOrder
  <2> QED
    BY <2>8, LeafCountKept DEF OrderInv
<1>2. CASE PadLeaf
  <2>1. pc = "pad" /\ phase = "pad" /\ pds' = pds /\ TypeOK /\ pds # NullDs
    BY <1>2 DEF IInv, Control, PadLeaf
  <2>2. /\ Len(leaves) \in Nat /\ pds.m_size \in Nat /\ pds.m_size <= Len(leaves)
        /\ last_mhtnode_index' \in Int
    <3>1. last_mhtnode_index' \in Int
      BY <1>2, <2>1, IntAssumption DEF TypeOK, PadLeaf, Increment
    <3> QED
      BY <3>1, <2>1, SizeType, LenProperties DEF OrderInv, LeafCount, TypeOK
  <2>3. PICK node : node = makeZeroMHTNode(last_mhtnode_index')
    OBVIOUS
  <2>4. EnqueueLeaf(node, g_zeroHash)
    BY <2>3, <1>2 DEF PadLeaf
  <2>5. /\ node \in Node
        /\ node.m_level = NODELEVEL_LEAF /\ node.m_lchild = NULL /\ node.m_rchild = NULL
    BY <2>2, <2>3 DEF makeZeroMHTNode, makeMHTNode, Node, NODELEVEL_LEAF, NULL
  <2>6. ~ (Len(leaves) + 1 <= pds.m_size)
    BY <2>2
  <2>7. SpansNest' /\ LeavesAreData' /\ LiveSpansAdjoin' /\ Len(leaves') = Len(leaves) + 1
    BY <2>1, <2>4, <2>5, <2>6, NewLeafOrder
  <2> QED
    BY <2>7, LeafCountKept DEF OrderInv
<1>3. CASE Combine
  <2>1. ~FeedLeaf /\ ~PadLeaf
    BY <1>3 DEF Combine, FeedLeaf, PadLeaf
  <2> QED
    BY <1>3, <2>1, CombineOrder, LeafCountKept DEF OrderInv
<1>4. CASE ~FeedLeaf /\ ~PadLeaf /\ ~Combine
  BY <1>4, OthersKeepAll, KeptOrder, LeafCountKept DEF OrderInv
<1> QED
  BY <1>1, <1>2, <1>3, <1>4

\* No leaf, no span.
LEMMA InitOrder == ASSUME Init PROVE OrderInv
<1>1. /\ heap = <<>> /\ leaves = <<>> /\ Len(heap) = 0 /\ Len(leaves) = 0
      /\ pc = "call" /\ phase = "feed" /\ i = 0 /\ pmhtroot = NULL
  BY EmptySeq DEF Init
<1>2. Nodes = {} /\ Live = {}
  BY <1>1 DEF Nodes, Live
<1>3. SpansNest /\ LiveSpansAdjoin
  BY <1>2 DEF SpansNest, LiveSpansAdjoin
<1>4. LeavesAreData
  BY <1>1 DEF LeavesAreData
<1>5. LeafCount
  <2>1. pds # NullDs => pds.m_size \in Nat
    BY InitIInv, SizeType DEF IInv
  <2> QED
    BY <2>1, <1>1 DEF LeafCount
<1> QED
  BY <1>3, <1>4, <1>5 DEF OrderInv

\* For every data set, at every moment of the call, the spans of the trees in the
\* queue follow one another from the first leaf to the last, and leaf k is made of
\* element k: no element is lost, repeated or moved while nodes are combined,
\* consumed and dropped.
THEOREM OrderIsKept == Spec => []OrderInv
<1>1. Init => OrderInv
  BY InitOrder
<1>2. IInv /\ OrderInv /\ [Next]_buildVars => OrderInv'
  BY OrderStep
<1> QED
  BY <1>1, <1>2, Inductive, PTL DEF Spec

\* For every data set, the tree create_mht_from_ordered_ds hands out has below
\* its root the data set's elements in order, with their page numbers and hashes,
\* and after them only padding: no element is lost, repeated or moved.
THEOREM NothingIsReordered == Spec => []LeavesInOrder
<1>1. IInv /\ OrderInv => LeavesInOrder
  <2> SUFFICES ASSUME IInv, OrderInv, Built PROVE LeavesInOrder
    BY DEF LeavesInOrder
  <2>1. Live = {pmhtroot} /\ pmhtroot # NULL /\ TypeOK /\ LiveAreQueued
    BY DEF IInv, Control, Built
  <2>2. pmhtroot \in Nodes /\ Len(heap) \in Nat
    BY <2>1, FieldTypes DEF Live
  <2>3. heap # <<>>
    BY <2>2, EmptySeq DEF Nodes
  <2>4. pmhtroot = tail
    BY <2>1, <2>3 DEF LiveAreQueued
  <2>5. lo(pmhtroot) = 1
    BY <2>1, <2>2 DEF OrderInv, LiveSpansAdjoin, Nodes
  <2>6. hi(pmhtroot) = Len(leaves)
    BY <2>1, <2>4 DEF OrderInv, LiveSpansAdjoin
  <2> QED
    BY <2>1, <2>5, <2>6 DEF OrderInv, LeafCount, LeavesInOrder
<1> QED
  BY <1>1, Inductive, OrderIsKept, PTL

-----------------------------------------------------------------------------
(* Hashes *)

\* Digest is a set of byte strings without a zero byte; every digest, the
\* padding's hash and every hash in a data set is in it.
NulFree(Byte, Digest) ==
  /\ \A s \in Digest : s \in Seq(Byte) /\ \A k \in 1..Len(s) : s[k] # NulByte
  /\ \A m : Sha(m) \in Digest
  /\ g_zeroHash \in Digest
  /\ \A ds \in DataSets : ds.m_is_hashed =>
       \A k \in 1..ds.m_size : ds.m_pDE[k].m_pdata \in Digest

\* Every node's hash is such a digest.
HashesIn(Digest) == \A n \in Nodes : m_hash[n] \in Digest

\* strlen of two hashes without a zero byte is their length, so that all of both
\* is hashed.
LEMMA CombinedHash ==
  ASSUME NEW Byte, NEW Digest, NulFree(Byte, Digest), NEW h1 \in Digest, NEW h2 \in Digest
  PROVE  generateCombinedHash_SHA256(h1, h2) = Sha(h1 \o h2)
<1>1. PICK s : s = h1 \o h2
  OBVIOUS
<1>2. /\ h1 \in Seq(Byte) /\ \A k \in 1..Len(h1) : h1[k] # NulByte
      /\ h2 \in Seq(Byte) /\ \A k \in 1..Len(h2) : h2[k] # NulByte
  BY DEF NulFree
<1>3. /\ s \in Seq(Byte) /\ Len(s) = Len(h1) + Len(h2) /\ Len(s) \in Nat
      /\ \A k \in 1..Len(s) : s[k] # NulByte
  <2>1. /\ s \in Seq(Byte) /\ Len(s) = Len(h1) + Len(h2)
        /\ Len(h1) \in Nat /\ Len(h2) \in Nat /\ Len(s) \in Nat
        /\ \A k \in 1..Len(s) : s[k] = IF k <= Len(h1) THEN h1[k] ELSE h2[k - Len(h1)]
    BY <1>1, <1>2, ConcatProperties, LenProperties
  <2>2. ASSUME NEW k \in 1..Len(s) PROVE s[k] # NulByte
    <3>1. CASE k <= Len(h1)
      <4>1. k \in 1..Len(h1)
        BY <2>1, <3>1
      <4> QED
        BY <4>1, <3>1, <2>1, <1>2
    <3>2. CASE ~ (k <= Len(h1))
      <4>1. k - Len(h1) \in 1..Len(h2)
        BY <2>1, <3>2
      <4> QED
        BY <4>1, <3>2, <2>1, <1>2
    <3> QED
      BY <3>1, <3>2
  <2> QED
    BY <2>1, <2>2
<1>4. strlen(s) = Len(s)
  <2> DEFINE Ends(n) == /\ \A k \in 1..n : s[k] # NulByte
                        /\ n < Len(s) => s[n + 1] = NulByte
  <2>1. Len(s) \in 0..Len(s) /\ Ends(Len(s))
    BY <1>3
  <2>2. \A n \in 0..Len(s) : Ends(n) => n = Len(s)
    <3> SUFFICES ASSUME NEW n \in 0..Len(s), n < Len(s) PROVE s[n + 1] # NulByte
      BY <1>3
    <3>1. n + 1 \in 1..Len(s)
      BY <1>3
    <3> QED
      BY <3>1, <1>3
  <2> HIDE DEF Ends
  <2>3. (CHOOSE n \in 0..Len(s) : Ends(n)) = Len(s)
    BY <2>1, <2>2
  <2> QED
    BY <2>3 DEF strlen, Ends
<1>5. SubSeq(s, 1, Len(s)) = s
  BY <1>3, SubSeqFull
<1> QED
  BY <1>1, <1>4, <1>5 DEF generateCombinedHash_SHA256

\* A step that adds one node with a digest as its hash, which is that of the
\* children's hashes if it has children, keeps what is said of hashes.
LEMMA NewNodeHash ==
  ASSUME NEW Digest, IInv, HashesIn(Digest), InnerHashIsHashOfChildren,
         NEW node \in Node, NEW h \in Digest, NEW sp \in Span, Enqueue(node, h, sp),
         node.m_level # NODELEVEL_LEAF =>
           /\ node.m_lchild \in Nodes /\ node.m_rchild \in Nodes
           /\ h = Sha(m_hash[node.m_lchild] \o m_hash[node.m_rchild])
  PROVE  HashesIn(Digest)' /\ InnerHashIsHashOfChildren'
<1>1. TypeOK /\ QueueIsSuffix /\ NodeShape /\ Len(heap) \in Nat
  BY FieldTypes DEF IInv
<1>2. PICK new : new = Len(heap) + 1
  OBVIOUS
<1>3. /\ \A n \in Nodes : heap'[n] = heap[n] /\ m_hash'[n] = m_hash[n]
      /\ heap'[new] = node /\ m_hash'[new] = h
  BY <1>1, <1>2, EnqueueContents
<1>4. Nodes' = Nodes \cup {new}
  <2>1. Len(heap') = Len(heap) + 1
    BY <1>1, EnqueueStep
  <2> QED
    BY <2>1, <1>1, <1>2 DEF Nodes
<1>5. HashesIn(Digest)'
  BY <1>3, <1>4 DEF HashesIn
<1>6. ASSUME NEW n \in Nodes', Inner(n)'
      PROVE  m_hash'[n] = Sha(m_hash'[lchild(n)'] \o m_hash'[rchild(n)'])
  <2>1. CASE n = new
    BY <2>1, <1>3, <1>6 DEF Inner, lchild, rchild
  <2>2. CASE n \in Nodes
    <3>1. Inner(n) /\ lchild(n)' = lchild(n) /\ rchild(n)' = rchild(n)
      BY <2>2, <1>3, <1>6 DEF Inner, lchild, rchild
    <3>2. lchild(n) \in Nodes /\ rchild(n) \in Nodes
      BY <2>2, <3>1, <1>1, ChildrenAreOlder
    <3> QED
      BY <2>2, <3>1, <3>2, <1>3 DEF InnerHashIsHashOfChildren
  <2> QED
    BY <2>1, <2>2, <1>4
<1> QED
  BY <1>5, <1>6 DEF InnerHashIsHashOfChildren

\* Every step keeps it.
LEMMA HashStep ==
  ASSUME NEW Byte, NEW Digest, NulFree(Byte, Digest),
         IInv, HashesIn(Digest), InnerHashIsHashOfChildren, [Next]_buildVars
  PROVE  HashesIn(Digest)' /\ InnerHashIsHashOfChildren'
<1>1. TypeOK /\ QueueIsSuffix /\ NodeShape /\ Len(leaves) \in Nat
  BY LenProperties DEF IInv, TypeOK
<1>2. PICK leafspan : leafspan = [lo |-> Len(leaves) + 1, hi |-> Len(leaves) + 1]
  OBVIOUS
<1>3. leafspan \in Span
  BY <1>1, <1>2 DEF Span
<1>4. CASE FeedLeaf
  <2>1. PICK node, h : /\ node = makeMHTNode(pds.m_pDE[i + 1].m_index, NODELEVEL_LEAF)
                       /\ h = LeafHash(pds, pds.m_pDE[i + 1])
    OBVIOUS
  <2>2. Enqueue(node, h, leafspan)
    BY <1>2, <1>4, <2>1 DEF FeedLeaf, EnqueueLeaf
  <2>3. pds \in DataSets /\ i + 1 \in 1..pds.m_size
    <3>1. pds \in DataSets /\ i \in Nat /\ i < pds.m_size
      BY <1>4 DEF IInv, TypeOK, Control, FeedLeaf
    <3> QED
      BY <3>1, DataSetsAssumption
  <2>4. node \in Node /\ node.m_level = NODELEVEL_LEAF
    <3>1. pds.m_pDE[i + 1].m_index \in Int
      BY <2>3, DataSetsAssumption
    <3> QED
      BY <3>1, <2>1 DEF makeMHTNode, Node, NODELEVEL_LEAF, NULL
  <2>5. h \in Digest
    BY <2>1, <2>3 DEF LeafHash, NulFree
  <2> QED
    BY <1>3, <2>2, <2>4, <2>5, NewNodeHash
<1>5. CASE PadLeaf
  <2>1. PICK node : node = makeZeroMHTNode(last_mhtnode_index')
    OBVIOUS
  <2>2. Enqueue(node, g_zeroHash, leafspan)
    BY <1>2, <1>5, <2>1 DEF PadLeaf, EnqueueLeaf
  <2>3. node \in Node /\ node.m_level = NODELEVEL_LEAF
    <3>1. last_mhtnode_index' \in Int
      BY <1>1, <1>5, IntAssumption DEF TypeOK, PadLeaf, Increment
    <3> QED
      BY <3>1, <2>1 DEF makeZeroMHTNode, makeMHTNode, Node, NODELEVEL_LEAF, NULL
  <2> QED
    BY <1>3, <2>2, <2>3, NewNodeHash DEF NulFree
<1>6. CASE Combine
  <2>1. ScanPosition /\ queue # <<>> /\ pc = "combine"
    BY <1>6 DEF IInv, LastCombined, Combine
  <2>2. PICK l, r : l = lookBackward /\ r = pQ
    OBVIOUS
  <2>3. l \in Nodes /\ r \in Nodes
    <3>1. cur \in 1..Len(queue) /\ cur > 1
      BY <2>1 DEF ScanPosition
    <3>2. l = cursor - 1 /\ r = tail
      BY <3>1, <2>1, <2>2, <1>1, Positions
    <3> QED
      BY <3>2, <1>6, LastTwoLive DEF Live
  <2>4. PICK node, h, sp :
          /\ node = combineNodes(l, r, heap[walk].m_pageNo)
          /\ h = generateCombinedHash_SHA256(m_hash[l], m_hash[r])
          /\ sp = [lo |-> span[l].lo, hi |-> span[r].hi]
          /\ Enqueue(node, h, sp)
    BY <1>6, <2>2 DEF Combine
  <2>5. node \in Node /\ node.m_lchild = l /\ node.m_rchild = r
    <3>1. node = [m_pageNo |-> heap[walk].m_pageNo, m_level |-> LevelOf(l) + 1,
                  m_is_supplement_node |-> FALSE, m_lchild |-> l, m_rchild |-> r]
      BY <2>4 DEF combineNodes, makeMHTNode, LevelOf
    <3>2. walk \in Nodes
      BY <2>1 DEF ScanPosition
    <3>3. PageNo(walk) \in Int /\ LevelOf(l) \in Nat
      BY <3>2, <2>3, <1>1, FieldTypes
    <3>4. heap[walk].m_pageNo \in Int /\ l \in Nat /\ r \in Nat
      BY <3>3, <2>3 DEF PageNo, Nodes
    <3> QED
      BY <3>1, <3>3, <3>4 DEF Node
  <2>6. sp \in Span
    <3>1. l \in 1..Len(span) /\ r \in 1..Len(span) /\ span \in Seq(Span)
      BY <1>1, <2>3 DEF Nodes, TypeOK, Span
    <3>2. span[l] \in Span /\ span[r] \in Span
      BY <3>1, ElementOfSeq
    <3> QED
      BY <3>2, <2>4 DEF Span
  <2>7. h = Sha(m_hash[l] \o m_hash[r])
    BY <2>3, <2>4, CombinedHash DEF HashesIn
  <2>8. h \in Digest
    BY <2>7 DEF NulFree
  <2> QED
    BY <2>3, <2>4, <2>5, <2>6, <2>7, <2>8, NewNodeHash
<1>7. CASE ~FeedLeaf /\ ~PadLeaf /\ ~Combine
  <2>1. AllKept
    BY <1>7, OthersKeepAll
  <2>2. Nodes' = Nodes /\ m_hash' = m_hash
    BY <2>1 DEF AllKept, Nodes
  <2>3. \A n \in Nodes : /\ Inner(n)' = Inner(n) /\ lchild(n)' = lchild(n)
                         /\ rchild(n)' = rchild(n)
    BY <2>1 DEF AllKept, NodesKept, Inner, LevelOf
  <2> QED
    BY <2>2, <2>3 DEF HashesIn, InnerHashIsHashOfChildren
<1> QED
  BY <1>4, <1>5, <1>6, <1>7

\* Where no hash contains a zero byte, each inner node of every tree that
\* create_mht_from_ordered_ds builds, at every moment of the construction, holds
\* the digest of its children's hashes, as mhtdefs.h says and updateMTree assumes.
THEOREM HashesAreMerkle ==
  ASSUME NEW Byte, NEW Digest, NulFree(Byte, Digest)
  PROVE  Spec => []InnerHashIsHashOfChildren
<1>1. Init => HashesIn(Digest) /\ InnerHashIsHashOfChildren
  <2> SUFFICES ASSUME Init PROVE HashesIn(Digest) /\ InnerHashIsHashOfChildren
    OBVIOUS
  <2>1. Nodes = {}
    BY EmptySeq DEF Init, Nodes
  <2> QED
    BY <2>1 DEF HashesIn, InnerHashIsHashOfChildren
<1>2. IInv /\ HashesIn(Digest) /\ InnerHashIsHashOfChildren /\ [Next]_buildVars
      => HashesIn(Digest)' /\ InnerHashIsHashOfChildren'
  BY HashStep
<1> QED
  BY <1>1, <1>2, Inductive, PTL DEF Spec

-----------------------------------------------------------------------------
(* Searching: what an allocation leaves and adds *)

LEMMA EnqueueReads ==
  ASSUME TypeOK, QueueIsSuffix, NEW node \in Node, NEW h, NEW sp \in Span,
         Enqueue(node, h, sp), NEW new, new = Len(heap) + 1
  PROVE  /\ Nodes' = Nodes \cup {new} /\ new \in Nat /\ Nodes \subseteq Nat
         /\ \A n \in Nodes : n < new
         /\ \A n \in Nodes : /\ heap'[n] = heap[n]
                             /\ lo(n)' = lo(n) /\ hi(n)' = hi(n)
                             /\ PageNo(n)' = PageNo(n) /\ LevelOf(n)' = LevelOf(n)
                             /\ Inner(n)' = Inner(n)
                             /\ lchild(n)' = lchild(n) /\ rchild(n)' = rchild(n)
         /\ heap'[new] = node /\ lo(new)' = sp.lo /\ hi(new)' = sp.hi
         /\ PageNo(new)' = node.m_pageNo /\ LevelOf(new)' = node.m_level
         /\ lchild(new)' = node.m_lchild /\ rchild(new)' = node.m_rchild /\ tail' = new
<1>1. Len(heap) \in Nat
  BY FieldTypes
<1>2. /\ \A n \in Nodes : heap'[n] = heap[n] /\ span'[n] = span[n]
      /\ heap'[new] = node /\ span'[new] = sp
  BY EnqueueContents
<1>3. Len(heap') = new
  BY EnqueueStep
<1> QED
  BY <1>1, <1>2, <1>3 DEF Nodes, lo, hi, PageNo, LevelOf, Inner, lchild, rchild, tail

\* The premises on the data set and the indices held before, if they hold after.
LEMMA PremisesKept ==
  ASSUME TypeOK, pds' = pds, Len(leaves) <= Len(leaves'), Len(leaves') \in Nat,
         \A k \in 1..Len(leaves) : leaves'[k] = leaves[k],
         \A n \in Nodes : PageNo(n)' = PageNo(n)
  PROVE  Ordered' = Ordered /\ (Ordered' /\ InRange' => InRange)
<1>1. Len(leaves) \in Nat /\ \A k \in 1..Len(leaves) : leaves[k] \in Nodes
  BY LenProperties, ElementOfSeq DEF TypeOK
<1>2. Ordered' = Ordered
  BY DEF Ordered
<1>3. ASSUME InRange' PROVE InRange
  <2>1. \A k \in 1..Len(leaves) : PageNo(leaves[k]) >= 0
    <3> SUFFICES ASSUME NEW k \in 1..Len(leaves) PROVE PageNo(leaves[k]) >= 0
      OBVIOUS
    <3>1. k \in 1..Len(leaves')
      BY <1>1
    <3>2. heap'[leaves'[k]].m_pageNo >= 0
      BY <3>1, <1>3 DEF InRange, PageNo
    <3>3. leaves'[k] = leaves[k] /\ leaves[k] \in Nodes
      BY <1>1
    <3>4. heap'[leaves[k]].m_pageNo = heap[leaves[k]].m_pageNo
      BY <3>3 DEF PageNo
    <3> QED
      BY <3>2, <3>3, <3>4 DEF PageNo
  <2> QED
    BY <2>1, <1>3 DEF InRange, UNASSIGNED_INDEX
<1> QED
  BY <1>2, <1>3

-----------------------------------------------------------------------------
(* A new leaf *)

\* A leaf that comes after the others in number, page number and mark keeps all
\* that searching needs.
LEMMA NewLeafSearch ==
  ASSUME IInv, SearchInv, pds' = pds, pc' = "scan",
         NEW node \in Node, NEW h,
         node.m_level = NODELEVEL_LEAF, node.m_lchild = NULL, node.m_rchild = NULL,
         EnqueueLeaf(node, h),
         Ordered' /\ InRange' =>
           /\ node.m_is_supplement_node <=> Len(leaves) + 1 > pds.m_size
           /\ Len(leaves) > 0 => PageNo(leaves[Len(leaves)]) < node.m_pageNo
           /\ phase' = "pad" => last_mhtnode_index' = node.m_pageNo
  PROVE  SearchInv'
<1>1. TypeOK /\ QueueIsSuffix /\ NodeShape
  BY DEF IInv
<1>2. PICK m, new : m = Len(leaves) /\ new = Len(heap) + 1
  OBVIOUS
<1>3. /\ m \in Nat /\ leaves \in Seq(Nodes) /\ \A k \in 1..m : leaves[k] \in Nodes
  BY <1>1, <1>2, LenProperties, ElementOfSeq DEF TypeOK
<1>4. PICK sp : sp = [lo |-> m + 1, hi |-> m + 1]
  OBVIOUS
<1>5. sp \in Span /\ Enqueue(node, h, sp) /\ leaves' = Append(leaves, new)
  BY <1>2, <1>3, <1>4 DEF EnqueueLeaf, Span
<1>6. /\ Len(leaves') = m + 1 /\ leaves'[m + 1] = new
      /\ \A k \in 1..m : leaves'[k] = leaves[k]
  BY <1>2, <1>3, <1>5, AppendProperties
<1>7. /\ Nodes' = Nodes \cup {new} /\ new \in Nat /\ Nodes \subseteq Nat /\ tail' = new
      /\ \A n \in Nodes : n < new
      /\ \A n \in Nodes : /\ heap'[n] = heap[n]
                          /\ lo(n)' = lo(n) /\ hi(n)' = hi(n)
                          /\ PageNo(n)' = PageNo(n) /\ LevelOf(n)' = LevelOf(n)
                          /\ Inner(n)' = Inner(n)
                          /\ lchild(n)' = lchild(n) /\ rchild(n)' = rchild(n)
      /\ heap'[new] = node /\ lo(new)' = m + 1 /\ hi(new)' = m + 1
      /\ PageNo(new)' = node.m_pageNo /\ LevelOf(new)' = NODELEVEL_LEAF
  BY <1>1, <1>2, <1>4, <1>5, EnqueueReads
<1>8. /\ \A n \in Nodes : lo(n) \in 1..hi(n) /\ hi(n) <= m /\ hi(n) \in Nat
      /\ \A k \in 1..m : LevelOf(leaves[k]) = NODELEVEL_LEAF /\ hi(leaves[k]) = k
  <2>1. \A n \in Nodes : span[n] \in Span
    BY <1>1, FieldTypes, ElementOfSeq DEF TypeOK, Span, Nodes
  <2> QED
    BY <1>2, <2>1 DEF SearchInv, SpansInRange, LeavesSpanThemselves, hi, Span
<1>9. SpansInRange'
  BY <1>3, <1>6, <1>7, <1>8 DEF SpansInRange
<1>10. ASSUME NEW k \in 1..(m + 1)
       PROVE  k \in 1..m \/ (k = m + 1 /\ leaves'[k] = new)
  BY <1>3, <1>6
<1>11. LeavesSpanThemselves'
  <2> SUFFICES ASSUME NEW k \in 1..(m + 1)
               PROVE  heap'[leaves'[k]].m_level = NODELEVEL_LEAF /\ span'[leaves'[k]].hi = k
    BY <1>6 DEF LeavesSpanThemselves, LevelOf, hi
  <2>1. CASE k \in 1..m
    <3>1. leaves'[k] = leaves[k] /\ leaves[k] \in Nodes
      BY <2>1, <1>3, <1>6
    <3> QED
      BY <2>1, <3>1, <1>7, <1>8 DEF LevelOf, hi
  <2>2. CASE k = m + 1
    BY <2>2, <1>6, <1>7 DEF LevelOf, hi
  <2> QED
    BY <2>1, <2>2, <1>10
<1>12. LaterLeavesAreYounger'
  <2> SUFFICES ASSUME NEW n \in Nodes', NEW k \in (hi(n)' + 1)..(m + 1)
               PROVE  n < leaves'[k]
    BY <1>6 DEF LaterLeavesAreYounger
  <2>1. n \in Nodes
    BY <1>3, <1>7
  <2>2. hi(n)' = hi(n) /\ hi(n) \in Nat /\ n < new
    BY <2>1, <1>7, <1>8
  <2>3. CASE k \in (hi(n) + 1)..m
    <3>1. leaves'[k] = leaves[k]
      BY <2>2, <2>3, <1>3, <1>6
    <3> QED
      BY <2>1, <2>3, <3>1, <1>2 DEF SearchInv, LaterLeavesAreYounger
  <2>4. CASE k = m + 1
    BY <2>2, <2>4, <1>6
  <2> QED
    BY <2>2, <2>3, <2>4, <1>3
<1>13. OnlyTailEndsLast'
  <2>1. Live' = Live \cup {new}
    BY <1>1, <1>7, EnqueueLeafStep
  <2> QED
    BY <2>1, <1>3, <1>6, <1>7, <1>8 DEF OnlyTailEndsLast, Live
<1>14. Separators'
  <2> SUFFICES ASSUME NEW n \in Nodes', Inner(n)'
               PROVE  PageNo(n)' = heap'[leaves'[hi(lchild(n))']].m_pageNo
    BY DEF Separators, PageNo
  <2>1. n \in Nodes /\ Inner(n)
    BY <1>7 DEF Inner, LevelOf
  <2>2. PICK l : l = lchild(n)
    OBVIOUS
  <2>3. l \in Nodes /\ lchild(n)' = l
    BY <2>1, <2>2, <1>1, <1>7, ChildrenAreOlder
  <2>4. hi(lchild(n))' = hi(l) /\ hi(l) \in 1..m
    <3>1. hi(lchild(n))' = hi(l)'
      BY <2>3 DEF hi
    <3> QED
      BY <3>1, <2>3, <1>3, <1>7, <1>8
  <2>5. leaves'[hi(l)] = leaves[hi(l)] /\ leaves[hi(l)] \in Nodes
    BY <2>4, <1>3, <1>6
  <2>6. PageNo(n) = PageNo(leaves[hi(l)])
    BY <2>1, <2>2 DEF SearchInv, Separators
  <2> QED
    BY <2>1, <2>4, <2>5, <2>6, <1>7 DEF PageNo
<1>15. Ordered' = Ordered /\ (Ordered' /\ InRange' => InRange)
  <2>1. m + 1 \in Nat /\ m <= m + 1
    BY <1>3
  <2> QED
    BY <2>1, <1>1, <1>2, <1>6, <1>7, PremisesKept
<1>16. PagesIncrease'
  <2> SUFFICES ASSUME Ordered', InRange', NEW j \in 1..(m + 1), NEW k \in 1..(m + 1), j < k
               PROVE  heap'[leaves'[j]].m_pageNo < heap'[leaves'[k]].m_pageNo
    BY <1>6 DEF PagesIncrease, PageNo
  <2>1. \A a, b \in 1..m : a < b => PageNo(leaves[a]) < PageNo(leaves[b])
    BY <1>2, <1>15 DEF SearchInv, PagesIncrease
  <2>2. \A a \in 1..m : heap'[leaves'[a]].m_pageNo = PageNo(leaves[a]) /\ PageNo(leaves[a]) \in Int
    <3>1. \A n \in Nodes : PageNo(n) \in Int
      BY <1>1, FieldTypes
    <3> QED
      BY <3>1, <1>3, <1>6, <1>7 DEF PageNo
  <2>3. j \in 1..m
    BY <1>3
  <2>4. CASE k \in 1..m
    BY <2>1, <2>2, <2>3, <2>4
  <2>5. CASE k = m + 1
    <3>1. heap'[leaves'[k]].m_pageNo = node.m_pageNo /\ node.m_pageNo \in Int
      BY <2>5, <1>6, <1>7 DEF Node
    <3>2. m \in 1..m /\ PageNo(leaves[m]) < node.m_pageNo
      BY <2>3, <1>2, <1>3
    <3>3. PageNo(leaves[j]) <= PageNo(leaves[m])
      BY <2>1, <2>2, <2>3, <3>2
    <3> QED
      BY <2>2, <2>3, <3>1, <3>2, <3>3
  <2> QED
    BY <2>4, <2>5, <1>10
<1>17. PaddingContinues'
  <2> SUFFICES ASSUME Ordered', InRange', phase' = "pad"
               PROVE  m + 1 > 0 /\ last_mhtnode_index' = heap'[leaves'[m + 1]].m_pageNo
    BY <1>6 DEF PaddingContinues, PageNo
  <2> QED
    BY <1>3, <1>6, <1>7
<1>18. FlagsMarkPadding'
  <2> SUFFICES ASSUME Ordered', InRange', NEW k \in 1..(m + 1)
               PROVE  heap'[leaves'[k]].m_is_supplement_node <=> k > pds.m_size
    BY <1>6 DEF FlagsMarkPadding
  <2>1. CASE k \in 1..m
    <3>1. heap[leaves[k]].m_is_supplement_node <=> k > pds.m_size
      BY <2>1, <1>2, <1>15 DEF SearchInv, FlagsMarkPadding
    <3>2. heap'[leaves'[k]] = heap[leaves[k]]
      BY <2>1, <1>3, <1>6, <1>7
    <3> QED
      BY <3>1, <3>2
  <2>2. CASE k = m + 1
    <3>1. heap'[leaves'[k]] = node
      BY <2>2, <1>6, <1>7
    <3> QED
      BY <3>1, <2>2, <1>2
  <2> QED
    BY <2>1, <2>2, <1>10
<1>19. WalkStaysRight'
  BY DEF WalkStaysRight
<1>20. NoSharedChild'
  <2> SUFFICES ASSUME NEW p \in Nodes', NEW q \in Nodes', Inner(p)', Inner(q)', p # q
               PROVE  {lchild(p)', rchild(p)'} \cap {lchild(q)', rchild(q)'} = {}
    BY DEF NoSharedChild
  <2>1. p \in Nodes /\ q \in Nodes
    BY <1>7 DEF Inner, LevelOf
  <2> QED
    BY <2>1, <1>7 DEF SearchInv, NoSharedChild
<1> QED
  BY <1>9, <1>11, <1>12, <1>13, <1>14, <1>16, <1>17, <1>18, <1>19, <1>20 DEF SearchInv

-----------------------------------------------------------------------------
(* A combination *)

\* The page number of a combined node is that of the leaf at which the walk from
\* its left child ended, the last leaf below that child.
LEMMA CombineSearch ==
  ASSUME IInv, OrderInv, SearchInv, Combine
  PROVE  SearchInv'
<1>1. /\ TypeOK /\ QueueIsSuffix /\ NodeShape /\ ScanPosition /\ queue # <<>> /\ pc = "combine"
      /\ leaves' = leaves /\ pds' = pds /\ pc' = "scan" /\ phase' = phase
      /\ last_mhtnode_index' = last_mhtnode_index
  BY DEF IInv, LastCombined, Combine
<1>2. PICK l, r, new, m : l = cursor - 1 /\ r = tail /\ new = Len(heap) + 1 /\ m = Len(leaves)
  OBVIOUS
<1>3. l \in Nodes /\ r \in Nodes /\ l \in Live /\ r \in Live
  BY <1>2, LastTwoLive DEF Live
<1>4. /\ m \in Nat /\ \A k \in 1..m : leaves[k] \in Nodes
  BY <1>1, <1>2, LenProperties, ElementOfSeq DEF TypeOK
<1>5. PICK node, h, sp : /\ node = combineNodes(l, r, heap[walk].m_pageNo)
                         /\ sp = [lo |-> span[l].lo, hi |-> span[r].hi]
                         /\ Enqueue(node, h, sp)
  <2>1. lookBackward = l /\ pQ = r
    <3>1. cur \in 1..Len(queue) /\ cur > 1
      BY <1>1 DEF ScanPosition
    <3> QED
      BY <3>1, <1>1, <1>2, Positions
  <2> QED
    BY <2>1 DEF Combine
<1>6. walk \in Nodes /\ ~Inner(walk) /\ hi(walk) = hi(l)
  BY <1>1, <1>2 DEF ScanPosition, SearchInv, WalkStaysRight, Inner, LevelOf, Combine
<1>7. /\ node.m_lchild = l /\ node.m_rchild = r /\ node.m_pageNo = PageNo(walk)
      /\ node \in Node
  <2>1. node = [m_pageNo |-> heap[walk].m_pageNo, m_level |-> LevelOf(l) + 1,
                m_is_supplement_node |-> FALSE, m_lchild |-> l, m_rchild |-> r]
    BY <1>5 DEF combineNodes, makeMHTNode, LevelOf
  <2>2. /\ PageNo(walk) \in Int /\ LevelOf(l) \in Nat /\ l \in Nat /\ r \in Nat
    BY <1>1, <1>3, <1>6, FieldTypes DEF Nodes
  <2>3. heap[walk].m_pageNo = PageNo(walk)
    BY DEF PageNo
  <2> QED
    BY <2>1, <2>2, <2>3 DEF Node
<1>8. /\ \A n \in Nodes : lo(n) \in 1..hi(n) /\ hi(n) <= m /\ hi(n) \in Nat /\ lo(n) \in Nat
      /\ \A k \in 1..m : LevelOf(leaves[k]) = NODELEVEL_LEAF /\ hi(leaves[k]) = k
  <2>1. \A n \in Nodes : span[n] \in Span
    BY <1>1, FieldTypes, ElementOfSeq DEF TypeOK, Span, Nodes
  <2> QED
    BY <1>2, <2>1 DEF SearchInv, SpansInRange, LeavesSpanThemselves, hi, lo, Span
<1>9. sp \in Span /\ sp.lo = lo(l) /\ sp.hi = m
  <2>1. hi(r) = m
    BY <1>2, <1>3 DEF OrderInv, LiveSpansAdjoin
  <2> QED
    BY <2>1, <1>3, <1>4, <1>5, <1>8 DEF Span, lo, hi
<1>10. /\ Nodes' = Nodes \cup {new} /\ new \in Nat /\ Nodes \subseteq Nat /\ tail' = new
       /\ \A n \in Nodes : n < new
       /\ \A n \in Nodes : /\ heap'[n] = heap[n]
                           /\ lo(n)' = lo(n) /\ hi(n)' = hi(n)
                           /\ PageNo(n)' = PageNo(n) /\ LevelOf(n)' = LevelOf(n)
                           /\ Inner(n)' = Inner(n)
                           /\ lchild(n)' = lchild(n) /\ rchild(n)' = rchild(n)
       /\ lo(new)' = lo(l) /\ hi(new)' = m
       /\ PageNo(new)' = PageNo(walk) /\ lchild(new)' = l /\ rchild(new)' = r
  BY <1>1, <1>2, <1>5, <1>7, <1>9, EnqueueReads
<1>11. SpansInRange'
  <2>1. lo(l) \in 1..m
    BY <1>3, <1>4, <1>8
  <2> QED
    BY <2>1, <1>1, <1>2, <1>4, <1>8, <1>10 DEF SpansInRange
<1>12. \A k \in 1..m : heap'[leaves'[k]] = heap[leaves[k]] /\ span'[leaves'[k]].hi = hi(leaves[k])
  BY <1>1, <1>4, <1>10 DEF hi
<1>13. LeavesSpanThemselves'
  BY <1>1, <1>2, <1>8, <1>12 DEF LeavesSpanThemselves, LevelOf, hi
<1>14. LaterLeavesAreYounger'
  <2> SUFFICES ASSUME NEW n \in Nodes', NEW k \in (hi(n)' + 1)..m
               PROVE  n < leaves[k]
    BY <1>1, <1>2 DEF LaterLeavesAreYounger
  <2>1. n \in Nodes /\ hi(n)' = hi(n)
    BY <1>4, <1>10
  <2> QED
    BY <2>1, <1>2 DEF SearchInv, LaterLeavesAreYounger
<1>15. OnlyTailEndsLast'
  <2>1. Live' = (Live \ {l, r}) \cup {new}
    BY <1>1, <1>2, <1>10, LastTwoLive, CombineStep
  <2>2. \A n \in Live \ {l, r} : n \in Nodes /\ hi(n)' = hi(n) /\ hi(n) # m
    BY <1>2, <1>10 DEF SearchInv, OnlyTailEndsLast, Live
  <2> QED
    BY <2>1, <2>2, <1>1, <1>2, <1>10 DEF OnlyTailEndsLast
<1>16. Separators'
  <2> SUFFICES ASSUME NEW n \in Nodes', Inner(n)'
               PROVE  PageNo(n)' = heap'[leaves[hi(lchild(n))']].m_pageNo
    BY <1>1 DEF Separators, PageNo
  <2>1. CASE n \in Nodes
    <3>1. PICK c : c = lchild(n)
      OBVIOUS
    <3>2. Inner(n) /\ c \in Nodes /\ lchild(n)' = c
      BY <2>1, <3>1, <1>1, <1>10, ChildrenAreOlder
    <3>3. hi(lchild(n))' = hi(c) /\ hi(c) \in 1..m
      <4>1. hi(lchild(n))' = hi(c)'
        BY <3>2 DEF hi
      <4> QED
        BY <4>1, <3>2, <1>4, <1>8, <1>10
    <3>4. PageNo(n) = PageNo(leaves[hi(c)])
      BY <2>1, <3>1, <3>2 DEF SearchInv, Separators
    <3> QED
      BY <2>1, <3>3, <3>4, <1>4, <1>10 DEF PageNo
  <2>2. CASE n = new
    <3>1. hi(lchild(n))' = hi(l)' /\ hi(l)' = hi(l) /\ hi(l) \in 1..m
      BY <2>2, <1>3, <1>4, <1>8, <1>10 DEF hi
    <3>2. SpanOf(walk)
      BY <1>6 DEF OrderInv, SpansNest
    <3>3. leaves[hi(l)] = walk
      BY <3>2, <1>6 DEF SpanOf
    <3> QED
      BY <2>2, <3>1, <3>3, <1>6, <1>10 DEF PageNo
  <2> QED
    BY <2>1, <2>2, <1>10
<1>17. Ordered' = Ordered /\ (Ordered' /\ InRange' => InRange)
  <2>1. Len(leaves') = Len(leaves) /\ Len(leaves) \in Nat
    BY <1>1, <1>2, <1>4
  <2>2. Len(leaves) <= Len(leaves')
    BY <2>1
  <2> QED
    BY <2>1, <2>2, <1>1, <1>10, PremisesKept
<1>18. PagesIncrease'
  BY <1>1, <1>2, <1>12, <1>17 DEF SearchInv, PagesIncrease, PageNo
<1>19. PaddingContinues'
  BY <1>1, <1>2, <1>4, <1>12, <1>17 DEF SearchInv, PaddingContinues, PageNo
<1>20. FlagsMarkPadding'
  BY <1>1, <1>2, <1>12, <1>17 DEF SearchInv, FlagsMarkPadding
<1>21. WalkStaysRight'
  BY <1>1 DEF WalkStaysRight
<1>22. NoSharedChild'
  <2>1. \A n \in Nodes : {lchild(n), rchild(n)} \cap {l, r} = {}
    BY <1>3 DEF Live
  <2> SUFFICES ASSUME NEW p \in Nodes', NEW q \in Nodes', Inner(p)', Inner(q)', p # q
               PROVE  {lchild(p)', rchild(p)'} \cap {lchild(q)', rchild(q)'} = {}
    BY DEF NoSharedChild
  <2>2. CASE p \in Nodes /\ q \in Nodes
    BY <2>2, <1>10 DEF SearchInv, NoSharedChild
  <2>3. CASE p = new
    <3>1. q \in Nodes
      BY <2>3, <1>10
    <3> QED
      BY <2>1, <2>3, <3>1, <1>10
  <2>4. CASE q = new
    <3>1. p \in Nodes
      BY <2>4, <1>10
    <3> QED
      BY <2>1, <2>4, <3>1, <1>10
  <2> QED
    BY <2>2, <2>3, <2>4, <1>10
<1> QED
  BY <1>11, <1>13, <1>14, <1>15, <1>16, <1>18, <1>19, <1>20, <1>21, <1>22 DEF SearchInv

-----------------------------------------------------------------------------
(* Steps that allocate nothing *)

\* When padding starts, the leaf closest to the tail of the queue is the last leaf.
LEMMA LastLeafIsQueued ==
  ASSUME IInv, OrderInv, SearchInv, StartPadding, Ordered, InRange
  PROVE  Len(leaves) > 0 /\ last_mhtnode_index' = PageNo(leaves[Len(leaves)])
<1>1. /\ TypeOK /\ QueueIsSuffix /\ FrontIsLive /\ LiveAreQueued /\ Control
      /\ pc = "for" /\ pds # NullDs /\ phase = "feed" /\ Len(queue) > 1 /\ i = pds.m_size
  BY DEF IInv, Control, StartPadding
<1>2. /\ Len(heap) \in Nat /\ Len(queue) \in Nat /\ Len(queue) <= Len(heap)
      /\ queue # <<>> /\ heap # <<>>
  BY <1>1, FieldTypes, EmptySeq DEF QueueIsSuffix
<1>3. PICK m : m = Len(leaves)
  OBVIOUS
<1>4. m \in Nat /\ \A k \in 1..m : leaves[k] \in Nodes
  BY <1>1, <1>3, LenProperties, ElementOfSeq DEF TypeOK
<1>5. PICK f : f = front
  OBVIOUS
<1>6. f \in Live /\ f \in Nodes /\ f \in Nat /\ f # tail
  BY <1>1, <1>2, <1>5 DEF FrontIsLive, front, tail, Live, Nodes
<1>7. hi(f) < m /\ hi(f) \in Nat /\ m > 0
  <2>1. span[f] \in Span
    BY <1>1, <1>6, FieldTypes, ElementOfSeq DEF TypeOK, Span, Nodes
  <2> QED
    BY <2>1, <1>3, <1>4, <1>6 DEF SearchInv, OnlyTailEndsLast, SpansInRange, hi, Span
<1>8. f < leaves[m] /\ leaves[m] \in Nodes
  BY <1>3, <1>4, <1>6, <1>7 DEF SearchInv, LaterLeavesAreYounger
<1>9. PICK p : p = leaves[m] - f + 1
  OBVIOUS
<1>10. \A k \in 1..Len(queue) : queue[k] = f - 1 + k
  BY <1>1, <1>2, <1>5 DEF QueueIsSuffix, front
<1>11. p \in 1..Len(queue) /\ queue[p] = leaves[m]
  <2>1. leaves[m] \in 1..Len(heap) /\ f = Len(heap) - Len(queue) + 1
    BY <1>5, <1>8 DEF front, Nodes
  <2>2. p \in 1..Len(queue) /\ f - 1 + p = leaves[m]
    BY <2>1, <1>2, <1>6, <1>8, <1>9
  <2> QED
    BY <2>2, <1>10
<1>12. PICK at : at = {k \in 1..Len(queue) : LevelOf(queue[k]) = NODELEVEL_LEAF}
  OBVIOUS
<1>13. p \in at
  <2>1. m \in 1..m
    BY <1>4, <1>7
  <2> QED
    BY <2>1, <1>3, <1>11, <1>12 DEF SearchInv, LeavesSpanThemselves
<1>14. ASSUME NEW j \in at PROVE j <= p
  <2>1. PICK x : x = queue[j]
    OBVIOUS
  <2>2. x \in Nodes /\ ~Inner(x) /\ x = f - 1 + j /\ j \in Nat
    BY <2>1, <1>1, <1>10, <1>12, FieldTypes DEF Inner, LevelOf
  <2>3. lo(x) = hi(x) /\ lo(x) \in 1..m /\ leaves[lo(x)] = x
    BY <2>2, <1>3 DEF OrderInv, SpansNest, SpanOf
  <2>4. x <= leaves[m]
    <3>1. CASE hi(x) = m
      BY <3>1, <2>2, <2>3, <1>8 DEF Nodes
    <3>2. CASE hi(x) < m
      <4>1. m \in (hi(x) + 1)..Len(leaves)
        BY <3>2, <2>3, <1>3, <1>4
      <4>2. x < leaves[m]
        BY <4>1, <2>2 DEF SearchInv, LaterLeavesAreYounger
      <4> QED
        BY <4>2, <2>2, <1>8 DEF Nodes
    <3> QED
      BY <3>1, <3>2, <2>3, <1>4
  <2> QED
    BY <2>2, <2>4, <1>6, <1>8, <1>9 DEF Nodes
<1>15. (CHOOSE k \in at : \A j \in at : j <= k) = p
  <2>1. \A k \in at : (\A j \in at : j <= k) => k = p
    <3> SUFFICES ASSUME NEW k \in at, \A j \in at : j <= k PROVE k = p
      OBVIOUS
    <3>1. k <= p /\ p <= k /\ k \in Nat /\ p \in Nat
      BY <1>11, <1>12, <1>13, <1>14
    <3> QED
      BY <3>1
  <2> QED
    BY <2>1, <1>13, <1>14
<1>16. get_the_last_leaf_node_index = PageNo(leaves[m])
  <2>1. at # {}
    BY <1>13
  <2> QED
    BY <2>1, <1>11, <1>12, <1>15 DEF get_the_last_leaf_node_index, PageNo
<1>17. PageNo(leaves[m]) # UNASSIGNED_INDEX
  <2>1. m = pds.m_size /\ m \in 1..m
    BY <1>1, <1>3, <1>4, <1>7 DEF OrderInv, LeafCount
  <2>2. PageNo(leaves[m]) = pds.m_pDE[m].m_index
    BY <2>1, <1>1, <1>3 DEF OrderInv, LeavesAreData, LeafOf
  <2>3. pds.m_pDE[m].m_index \in 0..(UNASSIGNED_INDEX - 1)
    BY <2>1 DEF InRange
  <2> QED
    BY <2>2, <2>3, IntAssumption DEF UNASSIGNED_INDEX
<1> QED
  BY <1>3, <1>7, <1>16, <1>17 DEF StartPadding

\* No leaf of an ordered data set in range is marked when it is dropped.
LEMMA NoneIsMarked ==
  ASSUME IInv, OrderInv, Drain, Ordered, InRange
  PROVE  heap' = heap
<1>1. /\ TypeOK /\ pc = "drain" /\ pds # NullDs
  BY DEF IInv, Control, Drain
<1>2. PICK n \in Nodes : heap' = Marked(n)
  BY <1>1, DrainedAreConsumed DEF Drain
<1> SUFFICES ASSUME phase = "feed", ~Inner(n), PageNo(n) >= UNASSIGNED_INDEX PROVE FALSE
  BY <1>2 DEF Marked, Inner, LevelOf, PageNo
<1>3. lo(n) \in 1..Len(leaves) /\ leaves[lo(n)] = n
  BY DEF OrderInv, SpansNest, SpanOf
<1>4. Len(leaves) <= pds.m_size /\ pds.m_size \in Nat /\ Len(leaves) \in Nat
  <2>1. Len(leaves) = i + 1 /\ i < pds.m_size /\ i \in Nat /\ pds.m_size \in Nat
    BY <1>1, SizeType DEF OrderInv, LeafCount, TypeOK
  <2> QED
    BY <2>1
<1>5. lo(n) \in 1..pds.m_size
  BY <1>3, <1>4
<1>6. PageNo(n) = pds.m_pDE[lo(n)].m_index
  BY <1>1, <1>3, <1>5 DEF OrderInv, LeavesAreData, LeafOf
<1>7. pds.m_pDE[lo(n)].m_index \in 0..(UNASSIGNED_INDEX - 1)
  BY <1>5 DEF InRange
<1> QED
  BY <1>6, <1>7, IntAssumption DEF UNASSIGNED_INDEX

\* A step that allocates nothing changes no page number, span or mark, so the
\* steps left to show are the walk's, the start of padding and the drops.
LEMMA KeptSearch ==
  ASSUME IInv, OrderInv, SearchInv, [Next]_buildVars, ~FeedLeaf, ~PadLeaf, ~Combine
  PROVE  SearchInv'
<1>1. TypeOK /\ NodeShape /\ QueueIsSuffix /\ AllKept
  BY OthersKeepAll DEF IInv
<1>2. /\ Nodes' = Nodes /\ Live' = Live /\ tail' = tail
      /\ leaves' = leaves /\ span' = span /\ pds' = pds
      /\ \A n \in Nodes : /\ PageNo(n)' = PageNo(n) /\ LevelOf(n)' = LevelOf(n)
                          /\ Inner(n)' = Inner(n)
                          /\ lchild(n)' = lchild(n) /\ rchild(n)' = rchild(n)
  BY <1>1, SameShape DEF AllKept, NodesKept, Inner, LevelOf
<1>3. PICK m : m = Len(leaves)
  OBVIOUS
<1>4. m \in Nat /\ \A k \in 1..m : leaves[k] \in Nodes
  BY <1>1, <1>3, LenProperties, ElementOfSeq DEF TypeOK
<1>5. /\ SpansInRange' /\ LaterLeavesAreYounger' /\ OnlyTailEndsLast'
  BY <1>2 DEF SearchInv, SpansInRange, LaterLeavesAreYounger, OnlyTailEndsLast, lo, hi
<1>6. LeavesSpanThemselves' /\ NoSharedChild'
  BY <1>2, <1>3, <1>4 DEF SearchInv, LeavesSpanThemselves, NoSharedChild, hi, LevelOf
<1>7. Separators'
  <2> SUFFICES ASSUME NEW n \in Nodes, Inner(n)
               PROVE  PageNo(n) = heap'[leaves[span[lchild(n)].hi]].m_pageNo
    BY <1>2 DEF Separators, PageNo, hi
  <2>1. PICK l : l = lchild(n)
    OBVIOUS
  <2>2. l \in Nodes /\ span[l] \in Span
    BY <2>1, <1>1, ChildrenAreOlder, FieldTypes, ElementOfSeq DEF TypeOK, Span, Nodes
  <2>3. hi(l) \in 1..m
    BY <2>2, <1>3, <1>4 DEF SearchInv, SpansInRange, hi, Span
  <2>4. PageNo(n) = PageNo(leaves[hi(l)])
    BY <2>1 DEF SearchInv, Separators
  <2> QED
    BY <2>1, <2>3, <2>4, <1>2, <1>4 DEF PageNo, hi
<1>8. WalkStaysRight'
  <2>1. CASE ScanMatch
    <3>1. cur \in 1..Len(queue) /\ cur > 1 /\ queue # <<>>
      BY <2>1 DEF IInv, ScanPosition, ScanMatch, LastCombined
    <3>2. lookBackward = cursor - 1
      BY <3>1, <1>1, Positions
    <3>3. walk' = cursor - 1 /\ cursor' = cursor
      BY <2>1, <3>2 DEF ScanMatch, cursor
    <3> QED
      BY <3>3, <1>2 DEF WalkStaysRight, hi
  <2>2. CASE WalkRight
    <3>1. /\ walk' = rchild(walk) /\ cursor' = cursor /\ pc = "combine" /\ Inner(walk)
      BY <2>2 DEF WalkRight, cursor, rchild, Inner, LevelOf
    <3>2. walk \in Nodes /\ hi(walk) = hi(cursor - 1)
      BY <3>1 DEF IInv, ScanPosition, SearchInv, WalkStaysRight
    <3>3. hi(rchild(walk)) = hi(walk)
      BY <3>1, <3>2 DEF OrderInv, SpansNest, SpanOf
    <3> QED
      BY <3>1, <3>2, <3>3, <1>2 DEF WalkStaysRight, hi
  <2>3. CASE UNCHANGED buildVars
    BY <2>3 DEF SearchInv, WalkStaysRight, cursor, hi, buildVars
  <2>4. CASE pc' # "combine"
    BY <2>4 DEF WalkStaysRight
  <2>5. ScanMatch \/ WalkRight \/ UNCHANGED buildVars \/ pc' # "combine"
    BY DEF Next, BuildStep, Returned, RejectNull, InitQueue, ScanStop, Resume, ScanSkip, Drain, DrainStop,
       StartPadding, LeaveLoops, PopRoot, PopEmpty
  <2> QED
    BY <2>1, <2>2, <2>3, <2>4, <2>5
<1>9. Ordered' = Ordered /\ (Ordered' /\ InRange' => InRange)
  <2>1. Len(leaves) \in Nat /\ Len(leaves) <= Len(leaves) /\ Len(leaves') = Len(leaves)
    BY <1>2, <1>3, <1>4
  <2> QED
    BY <2>1, <1>1, <1>2, PremisesKept
<1>10. PagesIncrease'
  BY <1>2, <1>3, <1>4, <1>9 DEF SearchInv, PagesIncrease, PageNo
<1>11. PaddingContinues'
  <2> SUFFICES ASSUME Ordered', InRange', phase' = "pad"
               PROVE  m > 0 /\ last_mhtnode_index' = PageNo(leaves[m])'
    BY <1>2, <1>3 DEF PaddingContinues, PageNo
  <2>1. m > 0 /\ last_mhtnode_index' = PageNo(leaves[m])
    <3>1. CASE StartPadding
      BY <3>1, <1>3, <1>9, LastLeafIsQueued
    <3>2. CASE ~StartPadding
      <4>1. phase' = phase /\ last_mhtnode_index' = last_mhtnode_index
        BY <3>2 DEF Next, BuildStep, Returned, buildVars, RejectNull, InitQueue, ScanStop, ScanSkip,
           ScanMatch, WalkRight, Drain, DrainStop, LeaveLoops, PopRoot, PopEmpty
      <4> QED
        BY <4>1, <1>3, <1>9 DEF SearchInv, PaddingContinues
    <3> QED
      BY <3>1, <3>2
  <2>2. leaves[m] \in Nodes
    BY <2>1, <1>4
  <2> QED
    BY <2>1, <2>2, <1>2 DEF PageNo
<1>12. FlagsMarkPadding'
  <2> SUFFICES ASSUME Ordered', InRange' PROVE FlagsMarkPadding'
    BY DEF FlagsMarkPadding
  <2>1. heap' = heap
    <3>1. CASE Drain
      BY <3>1, <1>9, NoneIsMarked
    <3>2. CASE ~Drain
      BY <3>2 DEF Next, BuildStep, Returned, buildVars, RejectNull, InitQueue, ScanStop, ScanSkip,
         ScanMatch, WalkRight, DrainStop, StartPadding, LeaveLoops, PopRoot, PopEmpty
    <3> QED
      BY <3>1, <3>2
  <2> QED
    BY <2>1, <1>2, <1>9 DEF SearchInv, FlagsMarkPadding
<1> QED
  BY <1>5, <1>6, <1>7, <1>8, <1>10, <1>11, <1>12 DEF SearchInv

-----------------------------------------------------------------------------
(* The two steps that make a leaf *)

\* The element fed next has a greater index than the one before, and no mark.
LEMMA FeedLeafSearch ==
  ASSUME IInv, OrderInv, SearchInv, FeedLeaf
  PROVE  SearchInv'
<1>1. /\ pc = "for" /\ phase = "feed" /\ phase' = "feed" /\ pds' = pds /\ pc' = "scan"
      /\ TypeOK /\ pds # NullDs
  BY DEF IInv, Control, FeedLeaf, StartScan
<1>2. Len(leaves) = i /\ i \in Nat /\ i < pds.m_size /\ pds.m_size \in Nat /\ pds \in DataSets
  BY <1>1, SizeType DEF OrderInv, LeafCount, TypeOK, FeedLeaf
<1>3. PICK node, h : /\ node = makeMHTNode(pds.m_pDE[i + 1].m_index, NODELEVEL_LEAF)
                     /\ EnqueueLeaf(node, h)
  BY DEF FeedLeaf
<1>4. i + 1 \in 1..pds.m_size /\ pds.m_pDE[i + 1].m_index \in Int
  BY <1>2, DataSetsAssumption
<1>5. /\ node \in Node /\ node.m_pageNo = pds.m_pDE[i + 1].m_index
      /\ node.m_level = NODELEVEL_LEAF /\ node.m_lchild = NULL /\ node.m_rchild = NULL
      /\ node.m_is_supplement_node = FALSE
  BY <1>3, <1>4 DEF makeMHTNode, Node, NODELEVEL_LEAF, NULL
<1>6. ASSUME Ordered', Len(leaves) > 0
      PROVE  PageNo(leaves[Len(leaves)]) < node.m_pageNo
  <2>1. i \in 1..pds.m_size /\ i \in 1..Len(leaves) /\ i < i + 1
    BY <1>2, <1>6
  <2>2. PageNo(leaves[i]) = pds.m_pDE[i].m_index
    BY <2>1, <1>1, <1>2 DEF OrderInv, LeavesAreData, LeafOf
  <2>3. pds.m_pDE[i].m_index < pds.m_pDE[i + 1].m_index
    BY <2>1, <1>1, <1>4, <1>6 DEF Ordered
  <2> QED
    BY <2>2, <2>3, <1>2, <1>5
<1>7. ~ (Len(leaves) + 1 > pds.m_size)
  BY <1>2
<1> QED
  BY <1>1, <1>3, <1>5, <1>6, <1>7, NewLeafSearch

\* A padding leaf has the next page number, and the mark.
LEMMA PadLeafSearch ==
  ASSUME IInv, OrderInv, SearchInv, PadLeaf
  PROVE  SearchInv'
<1>1. /\ pc = "pad" /\ phase = "pad" /\ pds' = pds /\ pc' = "scan"
      /\ TypeOK /\ QueueIsSuffix /\ NodeShape /\ pds # NullDs
      /\ last_mhtnode_index' = Increment(last_mhtnode_index) /\ last_mhtnode_index \in Int
  BY DEF IInv, TypeOK, Control, PadLeaf, StartScan
<1>2. PICK m, new : m = Len(leaves) /\ new = Len(heap) + 1
  OBVIOUS
<1>3. /\ m \in Nat /\ leaves \in Seq(Nodes) /\ pds.m_size \in Nat /\ pds.m_size <= m
      /\ last_mhtnode_index' \in Int
  <2>1. last_mhtnode_index' \in Int
    BY <1>1, IntAssumption DEF Increment
  <2> QED
    BY <2>1, <1>1, <1>2, SizeType, LenProperties DEF OrderInv, LeafCount, TypeOK
<1>4. PICK node : node = makeZeroMHTNode(last_mhtnode_index')
  OBVIOUS
<1>5. EnqueueLeaf(node, g_zeroHash)
  BY <1>4 DEF PadLeaf
<1>6. /\ node \in Node /\ node.m_pageNo = last_mhtnode_index'
      /\ node.m_level = NODELEVEL_LEAF /\ node.m_lchild = NULL /\ node.m_rchild = NULL
      /\ node.m_is_supplement_node = TRUE
  BY <1>3, <1>4 DEF makeZeroMHTNode, makeMHTNode, Node, NODELEVEL_LEAF, NULL
<1>7. PICK sp : sp = [lo |-> m + 1, hi |-> m + 1]
  OBVIOUS
<1>8. sp \in Span /\ Enqueue(node, g_zeroHash, sp) /\ leaves' = Append(leaves, new)
  BY <1>2, <1>3, <1>5, <1>7 DEF EnqueueLeaf, Span
<1>9. /\ Len(leaves') = m + 1 /\ leaves'[m + 1] = new
      /\ \A k \in 1..m : leaves'[k] = leaves[k]
  BY <1>2, <1>3, <1>8, AppendProperties
<1>10. heap'[new] = node /\ \A n \in Nodes : PageNo(n)' = PageNo(n)
  BY <1>1, <1>2, <1>6, <1>8, EnqueueReads
<1>11. ASSUME Ordered', InRange'
       PROVE  m > 0 /\ PageNo(leaves[m]) < node.m_pageNo
  <2>1. Ordered /\ InRange
    <3>1. m + 1 \in Nat /\ m <= m + 1
      BY <1>3
    <3> QED
      BY <3>1, <1>1, <1>2, <1>9, <1>10, <1>11, PremisesKept
  <2>2. m > 0 /\ last_mhtnode_index = PageNo(leaves[m])
    BY <2>1, <1>1, <1>2 DEF SearchInv, PaddingContinues
  <2>3. last_mhtnode_index' >= 0
    <3>1. m + 1 \in 1..Len(leaves')
      BY <1>3, <1>9
    <3>2. heap'[leaves'[m + 1]].m_pageNo >= 0
      BY <3>1, <1>11 DEF InRange, PageNo
    <3> QED
      BY <3>2, <1>6, <1>9, <1>10
  <2>4. last_mhtnode_index' = last_mhtnode_index + 1
    BY <2>3, <1>1, IntAssumption DEF Increment
  <2> QED
    BY <2>2, <2>4, <1>1, <1>6
<1>12. m + 1 > pds.m_size
  BY <1>3
<1> QED
  BY <1>1, <1>2, <1>5, <1>6, <1>11, <1>12, NewLeafSearch

-----------------------------------------------------------------------------
(* The tree can be searched *)

LEMMA SearchStep ==
  ASSUME IInv, OrderInv, SearchInv, [Next]_buildVars
  PROVE  SearchInv'
<1>1. CASE FeedLeaf
  BY <1>1, FeedLeafSearch
<1>2. CASE PadLeaf
  BY <1>2, PadLeafSearch
<1>3. CASE Combine
  BY <1>3, CombineSearch
<1> QED
  BY <1>1, <1>2, <1>3, KeptSearch

LEMMA InitSearch == ASSUME Init PROVE SearchInv
<1>1. heap = <<>> /\ leaves = <<>> /\ Len(heap) = 0 /\ Len(leaves) = 0 /\ pc = "call" /\ phase = "feed"
  BY EmptySeq DEF Init
<1>2. Nodes = {} /\ Live = {} /\ 1..Len(leaves) = {}
  BY <1>1 DEF Nodes, Live
<1> QED
  BY <1>1, <1>2 DEF SearchInv, SpansInRange, LeavesSpanThemselves, LaterLeavesAreYounger,
     OnlyTailEndsLast, NoSharedChild, Separators, WalkStaysRight, PagesIncrease, PaddingContinues, FlagsMarkPadding

\* For every data set, at every step of the construction, what searching the tree
\* relies on holds: the page number of an inner node is that of the last leaf on
\* its left, page numbers increase from leaf to leaf, padding included, and the
\* supplement flag is on the padding leaves alone.
THEOREM SearchIsKept == Spec => []SearchInv
<1>1. Init => SearchInv
  BY InitSearch
<1>2. IInv /\ OrderInv /\ SearchInv /\ [Next]_buildVars => SearchInv'
  BY SearchStep
<1> QED
  BY <1>1, <1>2, Inductive, OrderIsKept, PTL DEF Spec

\* A page number that is the last one's on the left, among numbers that increase,
\* divides the leaves below its node.
LEMMA SearchDivides ==
  ASSUME IInv, SearchInv
  PROVE  SeparatorsDivide
<1> SUFFICES ASSUME Ordered, InRange, NEW n \in Nodes, Inner(n)
             PROVE  /\ PageNo(n) = PageNo(leaves[hi(lchild(n))])
                    /\ \A k \in lo(n)..hi(n) : PageNo(leaves[k]) <= PageNo(n) <=> k <= hi(lchild(n))
  BY DEF SeparatorsDivide
<1>1. TypeOK /\ NodeShape
  BY DEF IInv
<1>2. PICK l, m : l = lchild(n) /\ m = Len(leaves)
  OBVIOUS
<1>3. PageNo(n) = PageNo(leaves[hi(l)])
  BY <1>2 DEF SearchInv, Separators
<1>4. hi(l) \in 1..m /\ lo(n) \in 1..m /\ hi(n) \in 1..m /\ m \in Nat
  <2>1. l \in Nodes /\ span[l] \in Span /\ span[n] \in Span /\ m \in Nat
    BY <1>1, <1>2, ChildrenAreOlder, FieldTypes, ElementOfSeq, LenProperties DEF TypeOK, Span, Nodes
  <2> QED
    BY <2>1, <1>2 DEF SearchInv, SpansInRange, lo, hi, Span
<1>5. \A k \in 1..m : PageNo(leaves[k]) \in Int
  BY <1>1, <1>2, FieldTypes, ElementOfSeq DEF TypeOK
<1>6. ASSUME NEW k \in lo(n)..hi(n)
      PROVE  PageNo(leaves[k]) <= PageNo(n) <=> k <= hi(l)
  <2>1. k \in 1..m
    BY <1>4
  <2>2. \A a, b \in 1..m : a < b => PageNo(leaves[a]) < PageNo(leaves[b])
    BY <1>2 DEF SearchInv, PagesIncrease
  <2>3. PICK x, y : x = PageNo(leaves[k]) /\ y = PageNo(leaves[hi(l)])
    OBVIOUS
  <2>4. /\ x \in Int /\ y \in Int /\ (k < hi(l) => x < y) /\ (hi(l) < k => y < x)
        /\ (k = hi(l) => x = y)
    BY <2>1, <2>2, <2>3, <1>4, <1>5
  <2> QED
    BY <2>1, <2>3, <2>4, <1>3, <1>4
<1> QED
  BY <1>2, <1>3, <1>6

\* For every ordered data set in range, a leaf below an inner node has a page
\* number not greater than the node's exactly if it is on the left: the
\* comparison by which getMHash and updateMTree descend is right at every node.
THEOREM SeparatorsAreRight == Spec => []SeparatorsDivide
BY SearchDivides, Inductive, SearchIsKept, PTL

\* For every ordered data set in range, exactly the padding leaves are marked.
THEOREM OnlyPaddingIsMarked == Spec => []FlagsMarkPadding
<1>1. SearchInv => FlagsMarkPadding
  BY DEF SearchInv
<1> QED
  BY <1>1, SearchIsKept, PTL

=============================================================================
