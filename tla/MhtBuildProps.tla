--------------------------- MODULE MhtBuildProps ---------------------------
(***************************************************************************)
(* What a caller of create_mht_from_ordered_ds relies on, stated of the    *)
(* states of MhtBuild, and the invariants the proofs need.                 *)
(***************************************************************************)
EXTENDS MhtBuild

Nodes == 1..Len(heap)
Inner(n) == heap[n].m_level # NODELEVEL_LEAF
lchild(n) == heap[n].m_lchild
rchild(n) == heap[n].m_rchild
PageNo(n) == heap[n].m_pageNo

\* The nodes no node points to: the roots of the trees built so far.
Live == {n \in Nodes : \A p \in Nodes : lchild(p) # n /\ rchild(p) # n}

\* The leaves of the tree below n from left to right, and all its nodes,
\* read off the child pointers.
LeavesBelow(n) ==
  LET below[x \in Nodes] == IF Inner(x) THEN below[lchild(x)] \o below[rchild(x)]
                            ELSE <<x>>
  IN below[n]
Below(n) ==
  LET below[x \in Nodes] == IF Inner(x)
                            THEN {x} \cup below[lchild(x)] \cup below[rchild(x)]
                            ELSE {x}
  IN below[n]

Built == pc = "done" /\ pmhtroot # NULL

\* The powers of two.
Pow2[k \in Nat] == IF k = 0 THEN 1 ELSE 2 * Pow2[k - 1]

\* The header's precondition on the data set, and the indices for which no
\* padding index leaves the range of an int or meets the sentinel.
Ordered == /\ pds # NullDs
           /\ \A j, k \in 1..pds.m_size : j < k => pds.m_pDE[j].m_index < pds.m_pDE[k].m_index
InRange == /\ \A k \in 1..pds.m_size : pds.m_pDE[k].m_index \in 0..(UNASSIGNED_INDEX - 1)
           /\ \A k \in 1..Len(leaves) : PageNo(leaves[k]) >= 0

-----------------------------------------------------------------------------
(* Types *)

Node == [m_pageNo : Int, m_level : Nat, m_is_supplement_node : BOOLEAN,
         m_lchild : Nat, m_rchild : Nat]

\* The type invariant.  Hashes are only counted: a digest is opaque.
TypeOK ==
  /\ pc \in {"call", "for", "scan", "combine", "drain", "pad", "pop", "done", "crash"}
  /\ phase \in {"feed", "pad"}
  /\ pds \in DataSets \cup {NullDs}
  /\ i \in Nat
  /\ heap \in Seq(Node)
  /\ DOMAIN m_hash = Nodes
  /\ queue \in Seq(Nodes)
  /\ cur \in Nat
  /\ walk \in Nat /\ cbd \in Nat /\ pmhtroot \in Nat
  /\ bCombined \in BOOLEAN
  /\ last_mhtnode_index \in Int /\ qHeaderLevel \in Nat
  /\ ret_val \in {0, -1}
  /\ freed \subseteq Nodes
  /\ leaves \in Seq(Nodes)
  /\ span \in Seq([lo : Nat, hi : Nat]) /\ Len(span) = Len(heap)

-----------------------------------------------------------------------------
(* Correctness *)

\* The returned tree is perfect, its leaves are the data set in order with the
\* data's hashes and then leaves of g_zeroHash, and its height is the least that
\* has room for the data set: the queue discipline of process_queue and
\* deal_with_remaining_nodes_in_queue neither loses, repeats nor reorders a leaf.
RootHoldsDataSet ==
  Built =>
    LET lv == LeavesBelow(pmhtroot)
        size == pds.m_size
        height == LevelOf(pmhtroot)
    IN  /\ \A n \in Below(pmhtroot) : Inner(n) =>
             LevelOf(lchild(n)) = LevelOf(n) - 1 /\ LevelOf(rchild(n)) = LevelOf(n) - 1
        /\ Len(lv) = Pow2[height] /\ size <= Pow2[height]
        /\ height > 0 => Pow2[height - 1] < size
        /\ \A k \in 1..size :
             /\ PageNo(lv[k]) = pds.m_pDE[k].m_index
             /\ m_hash[lv[k]] = LeafHash(pds, pds.m_pDE[k])
        /\ \A k \in (size + 1)..Len(lv) : m_hash[lv[k]] = g_zeroHash

\* Between two leaves the trees in the queue are a binary counter: after i
\* leaves there is one tree of height b for each bit b of i, and their roots are
\* in the queue, highest first, whatever consumed nodes still stand between them.
QueueCountsLeaves ==
  pc = "for" =>
    /\ {LevelOf(n) : n \in Live} = {b \in 0..i : (i \div Pow2[b]) % 2 = 1}
    /\ \A m, n \in Live : m < n => LevelOf(m) > LevelOf(n)
    /\ Live \subseteq {queue[k] : k \in 1..Len(queue)}

\* Every node allocated is in the tree handed out: all but the root have a
\* parent, and freeQueue, which releases the MHT nodes still in the queue, has
\* none to release ("actually, only root node remains").
EveryNodeIsInTree == Built => Live = {pmhtroot} /\ freed = {}

\* A leaf carries the supplement flag exactly if padding made it, also when it
\* was dropped from the queue by process_queue, which sets the flag as well.
FlagsMarkPadding ==
  Ordered /\ InRange =>
    \A k \in 1..Len(leaves) :
      heap[leaves[k]].m_is_supplement_node <=> k > pds.m_size

\* Padding never goes beyond the next power of two.
PaddingIsLeast ==
  pds # NullDs => \A h \in 0..pds.m_size : pds.m_size <= Pow2[h] => Len(leaves) <= Pow2[h]

\* The span of a node: the first and the last leaf below it, by the order in which
\* leaves were created.  A leaf spans itself, the two children of an inner node
\* share its span, the left one the first part: a traversal from left to right
\* meets the leaves of the span in order.
lo(n) == span[n].lo
hi(n) == span[n].hi
SpanOf(n) ==
  IF Inner(n)
  THEN lo(n) = lo(lchild(n)) /\ hi(lchild(n)) + 1 = lo(rchild(n)) /\ hi(rchild(n)) = hi(n)
  ELSE lo(n) = hi(n) /\ lo(n) \in 1..Len(leaves) /\ leaves[lo(n)] = n
SpansNest == \A n \in Nodes : SpanOf(n)

\* The page number of an inner node divides its subtrees: it is the greatest
\* page number on the left and smaller than every page number on the right.
\* This is what the descents of getMHash and updateMTree decide by, and it must
\* survive the padding leaves, whose indices continue the data set's.
SeparatorsDivide ==
  Ordered /\ InRange =>
    \A n \in Nodes : Inner(n) =>
      /\ PageNo(n) = PageNo(leaves[hi(lchild(n))])
      /\ \A k \in lo(n)..hi(n) : PageNo(leaves[k]) <= PageNo(n) <=> k <= hi(lchild(n))

\* Leaf k is made of element k of the data set, and of g_zeroHash past its end.
LeafOf(k) ==
  IF k <= pds.m_size
  THEN PageNo(leaves[k]) = pds.m_pDE[k].m_index /\ m_hash[leaves[k]] = LeafHash(pds, pds.m_pDE[k])
  ELSE m_hash[leaves[k]] = g_zeroHash
LeavesAreData == pds # NullDs => \A k \in 1..Len(leaves) : LeafOf(k)

\* The returned tree has below its root, from left to right, every element of the
\* data set in order and then padding: each node's span is put together from its
\* children's and the root spans all leaves.  RootHoldsDataSet reads the same off
\* the child pointers, and is proved from this.
LeavesInOrder ==
  Built => /\ SpansNest /\ LeavesAreData
           /\ lo(pmhtroot) = 1 /\ hi(pmhtroot) = Len(leaves)
           /\ pds.m_size <= Len(leaves)

\* Every inner node's hash is the digest of its children's two hashes.
InnerHashIsHashOfChildren ==
  \A n \in Nodes : Inner(n) => m_hash[n] = Sha(m_hash[lchild(n)] \o m_hash[rchild(n)])

\* The loops over the queue end: the call returns (or dies) on every data set.
CallReturns == <>(pc \in {"done", "crash"})

-----------------------------------------------------------------------------
(* Why the construction is right: what every step of it preserves *)

\* The queue holds the nodes allocated last, in the order of allocation, so its
\* positions and the nodes' numbers differ by a constant.
front == Len(heap) - Len(queue) + 1
tail == Len(heap)
cursor == Len(heap) - Len(queue) + cur
QueueIsSuffix ==
  /\ Len(queue) <= Len(heap)
  /\ \A k \in 1..Len(queue) : queue[k] = Len(heap) - Len(queue) + k

\* A leaf has no children; the children of an inner node are older than it and
\* one level below.
ShapeOf(n) ==
  IF Inner(n)
  THEN /\ lchild(n) \in 1..(n - 1) /\ LevelOf(lchild(n)) = LevelOf(n) - 1
       /\ rchild(n) \in 1..(n - 1) /\ LevelOf(rchild(n)) = LevelOf(n) - 1
  ELSE lchild(n) = NULL /\ rchild(n) = NULL
NodeShape == \A n \in Nodes : ShapeOf(n)

\* No live node has left the queue, and the newest node is live.
LiveAreQueued ==
  /\ pc # "done" => \A n \in Live : front <= n
  /\ heap # <<>> => tail \in Live

\* From front to tail the levels of the live nodes fall; only while the tail is
\* being combined may the one before it be level with it.
LevelsFall ==
  \A m, n \in Live : m < n =>
    \/ LevelOf(m) > LevelOf(n)
    \/ n = tail /\ pc \in {"scan", "combine"} /\ LevelOf(m) = LevelOf(n)

\* A consumed node in the queue is lower than the first live node behind it.
ConsumedAreLow ==
  \A x \in front..tail : x \notin Live =>
    \E y \in Live : /\ x < y /\ LevelOf(x) < LevelOf(y)
                    /\ \A z \in Live : z <= x \/ y <= z

\* The scan has met only consumed nodes; what it combines is the last live node
\* before the tail.
ScanPosition ==
  /\ pc \in {"scan", "combine"} =>
       /\ cur \in 1..Len(queue)
       /\ \A z \in Live : cursor <= z => z = tail
  /\ pc = "combine" =>
       /\ cur > 1 /\ LevelOf(cursor - 1) = LevelOf(tail)
       /\ walk \in Nodes

\* The front of the queue is live, unless a combination has just consumed it,
\* and then the tail is all there is.
FrontIsLive ==
  /\ pc # "done" /\ queue # <<>> /\ front \notin Live => Live = {tail}
  /\ pc \in {"for", "pad"} /\ queue # <<>> => front \in Live

LastCombined ==
  /\ pc = "drain" => bCombined
  /\ pc \in {"scan", "combine", "drain"} /\ bCombined => cbd = tail
  /\ pc \in {"scan", "combine"} /\ ~bCombined => front \in Live
  /\ pc \in {"scan", "combine", "drain", "pad"} => queue # <<>>

\* While padding goes on the front has the level it had at first; when it has
\* been combined the tail is higher.
PaddingLevel ==
  phase = "pad" /\ pc \in {"scan", "combine", "drain", "pad"} =>
    IF Live = {tail} THEN LevelOf(tail) > qHeaderLevel
                     ELSE LevelOf(front) = qHeaderLevel

Control ==
  /\ pc = "call" => heap = <<>> /\ queue = <<>>
  /\ pc \notin {"call", "done"} => pds # NullDs
  /\ pc \in {"call", "for"} => phase = "feed"
  /\ pc = "pad" => phase = "pad"
  /\ pc = "pop" => Len(queue) <= 1
  /\ pc # "done" => pmhtroot = NULL
  /\ pmhtroot # NULL => Live = {pmhtroot}
  /\ freed = {}

\* The inductive invariant: it implies TypeOK and EveryNodeIsInTree.
IInv ==
  /\ TypeOK /\ QueueIsSuffix /\ NodeShape /\ LiveAreQueued /\ LevelsFall
  /\ ConsumedAreLow /\ ScanPosition /\ FrontIsLive /\ LastCombined
  /\ PaddingLevel /\ Control

\* The spans of the live nodes follow one another, from the first leaf to the last.
Neighbours(m, n) == m < n /\ \A z \in Live : z <= m \/ n <= z
LiveSpansAdjoin ==
  /\ \A m, n \in Live : Neighbours(m, n) => hi(m) + 1 = lo(n)
  /\ \A n \in Live : (\A z \in Live : n <= z) => lo(n) = 1
  /\ Live # {} => hi(tail) = Len(leaves)

\* How many leaves there are while the data set is fed, and after.
LeafCount ==
  /\ pc = "call" => leaves = <<>>
  /\ phase = "feed" /\ pc \in {"call", "for"} => Len(leaves) = i
  /\ phase = "feed" /\ pc \in {"scan", "combine", "drain"} => Len(leaves) = i + 1
  /\ pds # NullDs => i <= pds.m_size
  /\ phase = "feed" /\ pc \in {"scan", "combine", "drain"} => i < pds.m_size
  /\ phase = "pad" \/ pc \in {"pop", "crash"} => pds.m_size <= Len(leaves)
  /\ pmhtroot # NULL => pds.m_size <= Len(leaves) /\ pds # NullDs

\* Inductive together with IInv: it implies LeavesInOrder.
OrderInv == SpansNest /\ LeavesAreData /\ LiveSpansAdjoin /\ LeafCount

\* A node spans leaves that exist, leaf k is a leaf and spans itself, a leaf that
\* comes after all of a node's is younger than the node, and only the tail spans
\* the last leaf.
SpansInRange == \A n \in Nodes : lo(n) \in 1..hi(n) /\ hi(n) <= Len(leaves)
LeavesSpanThemselves ==
  \A k \in 1..Len(leaves) : LevelOf(leaves[k]) = NODELEVEL_LEAF /\ hi(leaves[k]) = k
LaterLeavesAreYounger == \A n \in Nodes : \A k \in (hi(n) + 1)..Len(leaves) : n < leaves[k]
OnlyTailEndsLast == \A n \in Live : hi(n) = Len(leaves) => n = tail

\* Two inner nodes share no child: the nodes form a forest.
NoSharedChild ==
  \A p, q \in Nodes : Inner(p) /\ Inner(q) /\ p # q =>
    {lchild(p), rchild(p)} \cap {lchild(q), rchild(q)} = {}

\* The page number of an inner node is that of its left child's last leaf: the
\* walk to the right from the left child ends at that leaf.
Separators == \A n \in Nodes : Inner(n) => PageNo(n) = PageNo(leaves[hi(lchild(n))])
WalkStaysRight == pc = "combine" => hi(walk) = hi(cursor - 1)

\* Page numbers increase with the leaves, and padding goes on from the last.
PagesIncrease ==
  Ordered /\ InRange =>
    \A j, k \in 1..Len(leaves) : j < k => PageNo(leaves[j]) < PageNo(leaves[k])
PaddingContinues ==
  Ordered /\ InRange /\ phase = "pad" =>
    Len(leaves) > 0 /\ last_mhtnode_index = PageNo(leaves[Len(leaves)])

\* Inductive together with IInv and OrderInv: it implies SeparatorsDivide.
SearchInv ==
  /\ SpansInRange /\ LeavesSpanThemselves /\ LaterLeavesAreYounger /\ OnlyTailEndsLast
  /\ NoSharedChild
  /\ Separators /\ WalkStaysRight /\ PagesIncrease /\ PaddingContinues /\ FlagsMarkPadding

\* The level padding starts from is the greatest power of two below the size of the
\* data set, and padding never makes more than twice as many leaves; the root it makes
\* is one level above.  Inductive together with the rest: it implies PaddingIsLeast.
CountInv ==
  /\ phase = "feed" /\ pds # NullDs => Len(leaves) <= pds.m_size
  /\ phase = "pad" =>
       /\ pds # NullDs /\ Pow2[qHeaderLevel] < pds.m_size
       /\ Len(leaves) <= 2 * Pow2[qHeaderLevel]
       /\ Live = {tail} => LevelOf(tail) = qHeaderLevel + 1

\* What every step of the construction preserves.
BuildInv == IInv /\ OrderInv /\ SearchInv /\ CountInv

-----------------------------------------------------------------------------
(* Statements of the documentation that the code does not keep *)

\* "Creates an MHT from a dataset ... return 0 if successful": a data set that
\* is not NULL is turned into a tree, or refused, but the call comes back.
CallNeverCrashes == pc # "crash"

\* "mark the supplementary leaf node": only padding leaves are marked.
DataLeavesAreUnmarked ==
  pds # NullDs => \A k \in 1..Len(leaves) : k <= pds.m_size => ~heap[leaves[k]].m_is_supplement_node

=============================================================================
