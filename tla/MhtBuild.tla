------------------------------ MODULE MhtBuild ------------------------------
(***************************************************************************)
(* Construction of the in-memory Merkle hash tree: the call                *)
(* create_mht_from_ordered_ds(pds, &pmhtroot) of mht.c, with the two       *)
(* routines that work the queue (process_queue and                         *)
(* deal_with_remaining_nodes_in_queue) and the node constructors of        *)
(* mhtdefs.c.                                                              *)
(*                                                                         *)
(* The program is sequential; one action is one iteration of one of its    *)
(* loops, so that the invariants speak of every intermediate queue.        *)
(*                                                                         *)
(* The queue is the sequence of the MHT nodes its cells point to, header   *)
(* excluded: queue[1] is the next of the header, its last element is pQ.   *)
(* (Module DbQueue models the cells and shows that they implement such a   *)
(* sequence.)  A pointer to an MHT node is the node's number in order of   *)
(* allocation, and NULL is 0.                                              *)
(***************************************************************************)
EXTENDS Integers, Sequences

CONSTANTS
  DataSets,              \* the data sets a caller may pass
  NullDs,                \* a NULL pds
  Sha(_),                \* SHA-256: the digest, a sequence of bytes, of a message
  NulByte,               \* the byte '\0'
  g_zeroHash,            \* the hash of every padding leaf
  MAX_SIGNED_INT,        \* the largest int
  DEF_UPPER_BOUND_INDEX  \* where padding indices start if no last index is known

\* A data set is [m_size, m_is_hashed, m_pDE], m_pDE an array of data elements.
ASSUME DataSetsAssumption ==
  /\ NullDs \notin DataSets
  /\ \A ds \in DataSets :
       /\ ds.m_size \in Nat
       /\ \A k \in 1..ds.m_size : ds.m_pDE[k].m_index \in Int

ASSUME IntAssumption ==
  /\ MAX_SIGNED_INT \in Nat
  /\ DEF_UPPER_BOUND_INDEX \in 0..MAX_SIGNED_INT

NULL == 0
NODELEVEL_LEAF == 0
UNASSIGNED_INDEX == MAX_SIGNED_INT

VARIABLES
  pc,                  \* where the call is
  phase,               \* which routine works the queue: "feed" for process_queue,
                       \* "pad" for deal_with_remaining_nodes_in_queue
  pds,                 \* the argument
  i,                   \* elements of the data set already in the tree
  heap,                \* the MHT nodes allocated so far, their hashes apart
  m_hash,              \* the m_hash of each of them
  queue,               \* the queue
  cur,                 \* position in the queue of qnode_ptr / current_qnode_ptr
  walk,                \* node_ptr of get_the_right_most_child
  cbd,                 \* the node in cbd_qnode_ptr
  bCombined,
  last_mhtnode_index,
  qHeaderLevel,
  pmhtroot,            \* the output parameter
  ret_val,
  freed,               \* MHT nodes released by freeQueue
  leaves,              \* history: the leaves in order of creation
  span                 \* history: the first and last leaf below each node

buildVars == <<pc, phase, pds, i, heap, m_hash, queue, cur, walk, cbd, bCombined,
               last_mhtnode_index, qHeaderLevel, pmhtroot, ret_val, freed, leaves, span>>

-----------------------------------------------------------------------------
(* Hashes and integers *)

\* strlen of a buffer that a zero byte follows: the bytes before the first NUL.
strlen(s) == CHOOSE n \in 0..Len(s) :
               /\ \A k \in 1..n : s[k] # NulByte
               /\ n < Len(s) => s[n + 1] = NulByte

\* Mutant: the hashes are concatenated in the wrong order.
HashSwapped(h1, h2) == Sha(h2 \o h1)

\* The two hashes are concatenated, but only strlen of the buffer is hashed.
generateCombinedHash_SHA256(h1, h2) ==
  LET tmp_buf == h1 \o h2 IN Sha(SubSeq(tmp_buf, 1, strlen(tmp_buf)))

\* What a leaf stores: the digest of the data, or the data if it is a digest.
LeafHash(ds, de) == IF ds.m_is_hashed THEN de.m_pdata ELSE Sha(de.m_pdata)

\* x + 1 in an int; the build wraps around.
Increment(x) == IF x = MAX_SIGNED_INT THEN -MAX_SIGNED_INT - 1 ELSE x + 1

-----------------------------------------------------------------------------
(* Nodes and the queue *)

\* Mutant: the children are what malloc returned.
NodeUninitialised(pageno, level) ==
  [m_pageNo |-> pageno, m_level |-> level, m_is_supplement_node |-> FALSE,
   m_lchild |-> -1, m_rchild |-> -1]

makeMHTNode(pageno, level) ==
  [m_pageNo |-> pageno, m_level |-> level, m_is_supplement_node |-> FALSE,
   m_lchild |-> NULL, m_rchild |-> NULL]

\* Mutant: the flag is not set.
ZeroNodeUnmarked(pageno) == makeMHTNode(pageno, NODELEVEL_LEAF)

makeZeroMHTNode(pageno) ==
  [makeMHTNode(pageno, NODELEVEL_LEAF) EXCEPT !.m_is_supplement_node = TRUE]

\* Mutant: the children are exchanged.
ChildrenExchanged(lchild, rchild, pageno) ==
  [makeMHTNode(pageno, heap[lchild].m_level + 1)
     EXCEPT !.m_lchild = rchild, !.m_rchild = lchild]

\* pageno is that of the right-most leaf below lchild, found by the walk.
combineNodes(lchild, rchild, pageno) ==
  [makeMHTNode(pageno, heap[lchild].m_level + 1)
     EXCEPT !.m_lchild = lchild, !.m_rchild = rchild]

LevelOf(n) == heap[n].m_level
pQ == queue[Len(queue)]
lookBackward == queue[cur - 1]

\* Allocate node with hash h, spanning the leaves of sp, and enqueue it.
Enqueue(node, h, sp) ==
  LET new == Len(heap) + 1 IN
  /\ heap' = Append(heap, node)
  /\ m_hash' = [n \in 1..new |-> IF n = new THEN h ELSE m_hash[n]]
  /\ span' = Append(span, sp)
  /\ queue' = Append(queue, new)

EnqueueLeaf(node, h) ==
  LET ord == Len(leaves) + 1 IN
  /\ Enqueue(node, h, [lo |-> ord, hi |-> ord])
  /\ leaves' = Append(leaves, Len(heap) + 1)

\* The page number of the leaf closest to the tail, UNASSIGNED_INDEX if none.
get_the_last_leaf_node_index ==
  LET at == {k \in 1..Len(queue) : LevelOf(queue[k]) = NODELEVEL_LEAF}
  IN  IF at = {} THEN UNASSIGNED_INDEX
      ELSE heap[queue[CHOOSE k \in at : \A j \in at : j <= k]].m_pageNo

-----------------------------------------------------------------------------
(* The call *)

Init ==
  /\ pc = "call" /\ phase = "feed"
  /\ pds \in DataSets \cup {NullDs}
  /\ i = 0
  /\ heap = <<>> /\ m_hash = <<>> /\ queue = <<>>
  /\ cur = 0 /\ walk = NULL /\ cbd = NULL /\ bCombined = FALSE
  /\ last_mhtnode_index = UNASSIGNED_INDEX /\ qHeaderLevel = 0
  /\ pmhtroot = NULL /\ ret_val = 0 /\ freed = {}
  /\ leaves = <<>> /\ span = <<>>

RejectNull ==
  /\ pc = "call" /\ pds = NullDs
  /\ pc' = "done" /\ ret_val' = -1
  /\ UNCHANGED <<phase, pds, i, heap, m_hash, queue, cur, walk, cbd, bCombined,
                 last_mhtnode_index, qHeaderLevel, pmhtroot, freed, leaves, span>>

InitQueue ==
  /\ pc = "call" /\ pds # NullDs
  /\ pc' = "for" /\ queue' = <<>>
  /\ UNCHANGED <<phase, pds, i, heap, m_hash, cur, walk, cbd, bCombined,
                 last_mhtnode_index, qHeaderLevel, pmhtroot, ret_val, freed, leaves, span>>

\* Where a routine that starts on the tail of the queue has its cursor.
StartScan == pc' = "scan" /\ cur' = Len(queue) + 1 /\ bCombined' = FALSE

FeedLeaf ==
  /\ pc = "for" /\ i < pds.m_size
  /\ LET de == pds.m_pDE[i + 1]
     IN  EnqueueLeaf(makeMHTNode(de.m_index, NODELEVEL_LEAF), LeafHash(pds, de))
  /\ StartScan
  /\ UNCHANGED <<phase, pds, i, walk, cbd, last_mhtnode_index, qHeaderLevel,
                 pmhtroot, ret_val, freed>>

(* The backward scan that both routines run after each new leaf. *)

\* Control after a routine's work on one leaf.
Resume == IF phase = "feed" THEN pc' = "for" /\ i' = i + 1
                            ELSE pc' = "pad" /\ i' = i

\* Mutant: the scan stops at a node of the same level, too.
ScanStopsAtEqual ==
  /\ pc = "scan"
  /\ \/ cur = 1
     \/ cur > 1 /\ LevelOf(lookBackward) >= LevelOf(pQ)
  /\ IF bCombined THEN pc' = "drain" /\ i' = i ELSE Resume
  /\ UNCHANGED <<phase, pds, heap, m_hash, queue, cur, walk, cbd, bCombined,
                 last_mhtnode_index, qHeaderLevel, pmhtroot, ret_val, freed, leaves, span>>

ScanStop ==
  /\ pc = "scan"
  /\ \/ cur = 1
     \/ cur > 1 /\ LevelOf(lookBackward) > LevelOf(pQ)
  /\ IF bCombined THEN pc' = "drain" /\ i' = i ELSE Resume
  /\ UNCHANGED <<phase, pds, heap, m_hash, queue, cur, walk, cbd, bCombined,
                 last_mhtnode_index, qHeaderLevel, pmhtroot, ret_val, freed, leaves, span>>

\* Mutant: the cursor moves only after a combination.
ScanSkipStays == pc = "scan" /\ cur > 1 /\ LevelOf(lookBackward) < LevelOf(pQ) /\ UNCHANGED buildVars

ScanSkip ==
  /\ pc = "scan" /\ cur > 1
  /\ LevelOf(lookBackward) < LevelOf(pQ)
  /\ cur' = cur - 1
  /\ UNCHANGED <<pc, phase, pds, i, heap, m_hash, queue, walk, cbd, bCombined,
                 last_mhtnode_index, qHeaderLevel, pmhtroot, ret_val, freed, leaves, span>>

ScanMatch ==
  /\ pc = "scan" /\ cur > 1
  /\ LevelOf(lookBackward) = LevelOf(pQ)
  /\ pc' = "combine" /\ walk' = lookBackward
  /\ UNCHANGED <<phase, pds, i, heap, m_hash, queue, cur, cbd, bCombined,
                 last_mhtnode_index, qHeaderLevel, pmhtroot, ret_val, freed, leaves, span>>

\* Mutant: the walk looks for the left-most leaf.
WalkLeft ==
  /\ pc = "combine" /\ LevelOf(walk) # NODELEVEL_LEAF
  /\ walk' = heap[walk].m_lchild
  /\ UNCHANGED <<pc, phase, pds, i, heap, m_hash, queue, cur, cbd, bCombined,
                 last_mhtnode_index, qHeaderLevel, pmhtroot, ret_val, freed, leaves, span>>

WalkRight ==
  /\ pc = "combine" /\ LevelOf(walk) # NODELEVEL_LEAF
  /\ walk' = heap[walk].m_rchild
  /\ UNCHANGED <<pc, phase, pds, i, heap, m_hash, queue, cur, cbd, bCombined,
                 last_mhtnode_index, qHeaderLevel, pmhtroot, ret_val, freed, leaves, span>>

Combine ==
  /\ pc = "combine" /\ LevelOf(walk) = NODELEVEL_LEAF
  /\ LET l == lookBackward
         r == pQ
     IN  Enqueue(combineNodes(l, r, heap[walk].m_pageNo),
                 generateCombinedHash_SHA256(m_hash[l], m_hash[r]),
                 [lo |-> span[l].lo, hi |-> span[r].hi])
  /\ cbd' = Len(heap) + 1 /\ bCombined' = TRUE
  /\ pc' = "scan" /\ cur' = cur - 1
  /\ UNCHANGED <<phase, pds, i, walk, last_mhtnode_index, qHeaderLevel,
                 pmhtroot, ret_val, freed, leaves>>

(* Dequeue the cells in front of the last combined node. *)

\* process_queue marks a leaf it drops whose page number is the sentinel.
Marked(n) ==
  IF /\ phase = "feed"
     /\ LevelOf(n) = NODELEVEL_LEAF
     /\ heap[n].m_pageNo >= UNASSIGNED_INDEX
  THEN [heap EXCEPT ![n].m_is_supplement_node = TRUE]
  ELSE heap

Drain ==
  /\ pc = "drain" /\ queue # <<>>
  /\ LevelOf(Head(queue)) < LevelOf(cbd)
  /\ heap' = Marked(Head(queue))
  /\ queue' = Tail(queue)
  /\ UNCHANGED <<pc, phase, pds, i, m_hash, cur, walk, cbd, bCombined,
                 last_mhtnode_index, qHeaderLevel, pmhtroot, ret_val, freed, leaves, span>>

\* Mutant: the consumed nodes are left in the queue.
DrainNothing ==
  /\ pc = "drain"
  /\ bCombined' = FALSE
  /\ Resume
  /\ UNCHANGED <<phase, pds, heap, m_hash, queue, cur, walk, cbd,
                 last_mhtnode_index, qHeaderLevel, pmhtroot, ret_val, freed, leaves, span>>

DrainStop ==
  /\ pc = "drain"
  /\ queue = <<>> \/ LevelOf(Head(queue)) >= LevelOf(cbd)
  /\ bCombined' = FALSE
  /\ Resume
  /\ UNCHANGED <<phase, pds, heap, m_hash, queue, cur, walk, cbd,
                 last_mhtnode_index, qHeaderLevel, pmhtroot, ret_val, freed, leaves, span>>

(* Padding with leaves of g_zeroHash until the root exists. *)

StartPadding ==
  /\ pc = "for" /\ i = pds.m_size /\ Len(queue) > 1
  /\ last_mhtnode_index' = IF get_the_last_leaf_node_index = UNASSIGNED_INDEX
                           THEN DEF_UPPER_BOUND_INDEX
                           ELSE get_the_last_leaf_node_index
  /\ qHeaderLevel' = LevelOf(Head(queue))
  /\ phase' = "pad" /\ pc' = "pad"
  /\ UNCHANGED <<pds, i, heap, m_hash, queue, cur, walk, cbd, bCombined,
                 pmhtroot, ret_val, freed, leaves, span>>

\* Mutant: the level is read from the front of the queue each time.
PadToPresentFront ==
  /\ pc = "pad" /\ LevelOf(pQ) <= LevelOf(Head(queue))
  /\ last_mhtnode_index' = Increment(last_mhtnode_index)
  /\ EnqueueLeaf(makeZeroMHTNode(last_mhtnode_index'), g_zeroHash)
  /\ StartScan
  /\ UNCHANGED <<phase, pds, i, walk, cbd, qHeaderLevel, pmhtroot, ret_val, freed>>

PadLeaf ==
  /\ pc = "pad" /\ LevelOf(pQ) <= qHeaderLevel
  /\ last_mhtnode_index' = Increment(last_mhtnode_index)
  /\ EnqueueLeaf(makeZeroMHTNode(last_mhtnode_index'), g_zeroHash)
  /\ StartScan
  /\ UNCHANGED <<phase, pds, i, walk, cbd, qHeaderLevel, pmhtroot, ret_val, freed>>

PaddingDone ==
  \/ pc = "for" /\ i = pds.m_size /\ Len(queue) <= 1
  \/ pc = "pad" /\ LevelOf(pQ) > qHeaderLevel

LeaveLoops ==
  /\ PaddingDone
  /\ pc' = "pop"
  /\ UNCHANGED <<phase, pds, i, heap, m_hash, queue, cur, walk, cbd, bCombined,
                 last_mhtnode_index, qHeaderLevel, pmhtroot, ret_val, freed, leaves, span>>

\* The root leaves the queue; freeQueue releases the nodes still in it.
PopRoot ==
  /\ pc = "pop" /\ queue # <<>>
  /\ pmhtroot' = Head(queue)
  /\ freed' = {queue[k] : k \in 2..Len(queue)}
  /\ queue' = <<>>
  /\ pc' = "done"
  /\ UNCHANGED <<phase, pds, i, heap, m_hash, cur, walk, cbd, bCombined,
                 last_mhtnode_index, qHeaderLevel, ret_val, leaves, span>>

\* dequeue returns NULL and TOMHTNODE dereferences it.
PopEmpty ==
  /\ pc = "pop" /\ queue = <<>>
  /\ pc' = "crash"
  /\ UNCHANGED <<phase, pds, i, heap, m_hash, queue, cur, walk, cbd, bCombined,
                 last_mhtnode_index, qHeaderLevel, pmhtroot, ret_val, freed, leaves, span>>

BuildStep ==
  \/ RejectNull \/ InitQueue \/ FeedLeaf
  \/ ScanStop \/ ScanSkip \/ ScanMatch \/ WalkRight \/ Combine
  \/ Drain \/ DrainStop
  \/ StartPadding \/ PadLeaf \/ LeaveLoops \/ PopRoot \/ PopEmpty

\* The call has returned, or the process is gone.
Returned == pc \in {"done", "crash"} /\ UNCHANGED buildVars

Next == BuildStep \/ Returned

Spec == Init /\ [][Next]_buildVars

\* One thread runs the call and nothing in it waits.
FairSpec == Spec /\ WF_buildVars(BuildStep)

=============================================================================
