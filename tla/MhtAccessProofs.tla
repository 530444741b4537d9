--------------------------- MODULE MhtAccessProofs ---------------------------
(***************************************************************************)
(* Proofs about the driver on a finished tree of any size: what getMHash   *)
(* and updateMTree reach by their descents, what an update leaves behind   *)
(* at each step of the climb, which pages selectHash looks at for any page *)
(* list and what it concludes about each; and that the driver with its     *)
(* tree implements PageMap.                                                *)
(***************************************************************************)
EXTENDS MhtAccess, MhtBuildCountProofs

\* What the driver finds and no longer changes: all of the construction's
\* invariants but those about the leaves' hashes, which updateMTree rewrites.
TreeInv ==
  /\ IInv /\ SearchInv /\ SpansNest /\ LiveSpansAdjoin
  /\ apc = "main" => OrderInv
  /\ apc # "main" => pc = "done"

-----------------------------------------------------------------------------
(* The tree is fixed once the driver runs *)

LEMMA StructureKept ==
  ASSUME TreeInv, UNCHANGED structureVars, DOMAIN m_hash' = DOMAIN m_hash
  PROVE  IInv' /\ SearchInv' /\ SpansNest' /\ LiveSpansAdjoin'
<1>1. /\ pc' = pc /\ phase' = phase /\ pds' = pds /\ i' = i /\ heap' = heap /\ queue' = queue
      /\ cur' = cur /\ walk' = walk /\ cbd' = cbd /\ bCombined' = bCombined
      /\ last_mhtnode_index' = last_mhtnode_index /\ qHeaderLevel' = qHeaderLevel
      /\ pmhtroot' = pmhtroot /\ ret_val' = ret_val /\ freed' = freed
      /\ leaves' = leaves /\ span' = span
  BY DEF structureVars
<1>2. IInv /\ SearchInv /\ SpansNest /\ LiveSpansAdjoin
  BY DEF TreeInv
<1>3. TypeOK'
  BY <1>1, <1>2 DEF IInv, TypeOK, Nodes
<1>4. QueueIsSuffix' /\ NodeShape' /\ LiveAreQueued' /\ LevelsFall'
  BY <1>1, <1>2 DEF IInv, QueueIsSuffix, NodeShape, ShapeOf, LiveAreQueued, LevelsFall, Live,
     Nodes, front, tail, Inner, LevelOf, lchild, rchild
<1>5. Nodes' = Nodes /\ Live' = Live /\ tail' = tail /\ ConsumedAreLow'
  <2>1. UNCHANGED <<heap, queue>>
    BY <1>1
  <2> QED
    BY <2>1, <1>2, QuietStep
<1>6. ScanPosition' /\ FrontIsLive' /\ LastCombined' /\ PaddingLevel' /\ Control'
  BY <1>1, <1>2 DEF IInv, ScanPosition, FrontIsLive, LastCombined, PaddingLevel, Control, Live,
     Nodes, front, tail, cursor, LevelOf, lchild, rchild
<1>7. SpansNest' /\ LiveSpansAdjoin'
  <2>1. SpansNest'
    BY <1>1, <1>2, <1>5 DEF SpansNest, SpanOf, Inner, lo, hi, lchild, rchild
  <2>2. LiveSpansAdjoin'
    BY <1>1, <1>2, <1>5 DEF LiveSpansAdjoin, Neighbours, lo, hi
  <2> QED
    BY <2>1, <2>2
<1>8. /\ SpansInRange' /\ LeavesSpanThemselves' /\ LaterLeavesAreYounger' /\ OnlyTailEndsLast'
      /\ NoSharedChild'
  BY <1>1, <1>2 DEF SearchInv, SpansInRange, LeavesSpanThemselves, LaterLeavesAreYounger,
     OnlyTailEndsLast, NoSharedChild, Live, Nodes, tail, Inner, LevelOf, lo, hi, lchild, rchild
<1>9. /\ Separators' /\ WalkStaysRight' /\ PagesIncrease' /\ PaddingContinues' /\ FlagsMarkPadding'
  BY <1>1, <1>2 DEF SearchInv, Separators, WalkStaysRight, PagesIncrease, PaddingContinues,
     FlagsMarkPadding, Ordered, InRange, Nodes, cursor, Inner, PageNo, hi, lchild
<1> QED
  BY <1>3, <1>4, <1>5, <1>6, <1>7, <1>8, <1>9 DEF IInv, SearchInv

\* What a step of the driver, or none, leaves alone.
LEMMA DriverSteps ==
  ASSUME TreeInv, AccessStep \/ UNCHANGED vars
  PROVE  /\ UNCHANGED structureVars /\ DOMAIN m_hash' = DOMAIN m_hash
         /\ apc' = "main" => apc = "main" /\ UNCHANGED buildVars
         /\ apc # "main" \/ pc = "done" \/ apc' = "main"
<1>1. CASE ReadStep
  <2>1. UNCHANGED buildVars
    BY <1>1 DEF ReadStep
  <2>2. apc' # "main"
    BY <1>1 DEF ReadStep, EnterDriver, CallSelectHash, SelectHashReturns, PageUnreadable,
       CallGetMHash, GetDescend, GetReturns, CallUpdateTime, UpdateTimeReturns, CallUpdateMTree,
       UpdateDescend, UpdateNotFound, UpdateFound, UpdateReturns,
       DereferenceNullRoot, SelectHashExits, UpdateOverruns,
       MainReturns, Begin, Go
  <2>3. apc # "main" \/ pc = "done"
    BY <1>1 DEF ReadStep, EnterDriver, CallSelectHash, SelectHashReturns, PageUnreadable,
       CallGetMHash, GetDescend, GetReturns, CallUpdateTime, UpdateTimeReturns, CallUpdateMTree,
       UpdateDescend, UpdateNotFound, UpdateFound, UpdateReturns,
       DereferenceNullRoot, SelectHashExits, UpdateOverruns,
       MainReturns, Begin, Go
  <2> QED
    BY <2>1, <2>2, <2>3 DEF buildVars, structureVars
<1>2. CASE Climb
  BY <1>2 DEF Climb, Go
<1>3. CASE UNCHANGED vars
  BY <1>3 DEF vars, accessVars, buildVars, structureVars
<1> QED
  BY <1>1, <1>2, <1>3 DEF AccessStep

LEMMA TreeStep ==
  ASSUME TreeInv, [BuildPhase \/ AccessStep]_vars
  PROVE  TreeInv'
<1>1. CASE BuildPhase
  <2>1. BuildStep /\ apc' = apc
    BY <1>1 DEF BuildPhase, accessVars
  <2>2. pc # "done"
    BY <2>1 DEF BuildStep, RejectNull, InitQueue, FeedLeaf, ScanStop, ScanSkip, ScanMatch,
       WalkRight, Combine, Drain, DrainStop, StartPadding, PadLeaf, LeaveLoops, PaddingDone,
       PopRoot, PopEmpty
  <2>3. [Next]_buildVars /\ IInv /\ OrderInv /\ SearchInv /\ apc = "main"
    BY <2>1, <2>2 DEF TreeInv, Next
  <2>4. IInv' /\ OrderInv' /\ SearchInv'
    BY <2>3, InductiveStep, OrderStep, SearchStep
  <2> QED
    BY <2>1, <2>3, <2>4 DEF TreeInv, OrderInv
<1>2. CASE AccessStep \/ UNCHANGED vars
  <2>1. /\ UNCHANGED structureVars /\ DOMAIN m_hash' = DOMAIN m_hash
        /\ apc' = "main" => apc = "main" /\ UNCHANGED buildVars
        /\ apc # "main" \/ pc = "done" \/ apc' = "main"
    BY <1>2, DriverSteps
  <2>2. IInv' /\ SearchInv' /\ SpansNest' /\ LiveSpansAdjoin'
    BY <2>1, StructureKept
  <2>3. apc' = "main" => OrderInv'
    BY <2>1, OrderStep DEF TreeInv
  <2>4. apc' # "main" => pc' = "done"
    BY <2>1 DEF TreeInv, structureVars
  <2> QED
    BY <2>2, <2>3, <2>4 DEF TreeInv
<1> QED
  BY <1>1, <1>2

LEMMA TreeIsFixed == AccessSpec => []TreeInv
<1>1. Init /\ AccessInit => TreeInv
  BY InitIInv, InitOrder, InitSearch DEF AccessInit, TreeInv, OrderInv
<1>2. TreeInv /\ [BuildPhase \/ AccessStep]_vars => TreeInv'
  BY TreeStep
<1> QED
  BY <1>1, <1>2, PTL DEF AccessSpec

\* After main has the tree only the driver moves, and it keeps the structure.
LEMMA FixedStep ==
  ASSUME TreeInv, [BuildPhase \/ AccessStep]_vars, apc' # "main"
  PROVE  /\ AccessStep \/ UNCHANGED vars
         /\ pc' = pc /\ heap' = heap /\ leaves' = leaves /\ span' = span
         /\ pmhtroot' = pmhtroot /\ pds' = pds
<1>1. CASE BuildPhase
  <2>1. BuildStep /\ apc' = apc
    BY <1>1 DEF BuildPhase, accessVars
  <2>2. pc # "done"
    BY <2>1 DEF BuildStep, RejectNull, InitQueue, FeedLeaf, ScanStop, ScanSkip, ScanMatch,
       WalkRight, Combine, Drain, DrainStop, StartPadding, PadLeaf, LeaveLoops, PaddingDone,
       PopRoot, PopEmpty
  <2> QED
    BY <2>1, <2>2 DEF TreeInv
<1>2. CASE AccessStep \/ UNCHANGED vars
  BY <1>2, DriverSteps DEF structureVars
<1> QED
  BY <1>1, <1>2

-----------------------------------------------------------------------------
(* Descents *)

\* The root spans all leaves.
LEMMA RootSpans ==
  ASSUME TreeInv, pmhtroot # NULL
  PROVE  /\ pmhtroot \in Nodes /\ Live = {pmhtroot}
         /\ lo(pmhtroot) = 1 /\ hi(pmhtroot) = Len(leaves)
<1>1. Live = {pmhtroot}
  BY DEF TreeInv, IInv, Control
<1>2. pmhtroot \in Nodes /\ pmhtroot \in Nat
  <2>1. Live \subseteq Nodes
    BY DEF Live
  <2>2. pmhtroot \in Nodes /\ Len(heap) \in Nat
    BY <2>1, <1>1, FieldTypes DEF TreeInv, IInv
  <2> QED
    BY <2>2 DEF Nodes
<1>3. tail = pmhtroot
  <2>1. heap # <<>>
    BY <1>2, EmptySeq DEF Nodes
  <2> QED
    BY <2>1, <1>1 DEF TreeInv, IInv, LiveAreQueued
<1> QED
  BY <1>1, <1>2, <1>3 DEF TreeInv, LiveSpansAdjoin

\* A leaf below an inner node is below the child the comparison picks, if the leaves
\* ascend as the descent compares them.
LEMMA ChildSpans ==
  ASSUME TreeInv, Ascending, NEW n \in Nodes, Inner(n),
         NEW k \in 1..Len(leaves), lo(n) <= k, k <= hi(n)
  PROVE  /\ Seen(PageNo(n)) \in Int /\ Seen(PageNo(leaves[k])) \in Int
         /\ Seen(PageNo(leaves[k])) <= Seen(PageNo(n)) => lo(lchild(n)) <= k /\ k <= hi(lchild(n))
         /\ ~(Seen(PageNo(leaves[k])) <= Seen(PageNo(n))) => lo(rchild(n)) <= k /\ k <= hi(rchild(n))
<1>1. IInv /\ SearchInv /\ TypeOK /\ NodeShape /\ SpanOf(n)
  BY DEF TreeInv, IInv, SpansNest
<1>2. PICK l, r, m : l = lchild(n) /\ r = rchild(n) /\ m = Len(leaves)
  OBVIOUS
<1>3. l \in Nodes /\ r \in Nodes /\ m \in Nat /\ \A x \in Nodes : span[x] \in Span
  BY <1>1, <1>2, ChildrenAreOlder, FieldTypes, ElementOfSeq, LenProperties DEF TypeOK, Span, Nodes
<1>4. /\ lo(n) \in Nat /\ hi(n) \in Nat /\ hi(l) \in 1..m
      /\ lo(l) = lo(n) /\ lo(r) = hi(l) + 1 /\ hi(r) = hi(n)
  BY <1>1, <1>2, <1>3 DEF SpanOf, SearchInv, SpansInRange, lo, hi, Span
<1>5. PageNo(n) = PageNo(leaves[hi(l)])
  BY <1>1, <1>2 DEF SearchInv, Separators
<1>6. \A x \in 1..m : Seen(PageNo(leaves[x])) \in Int
  <2>1. \A x \in 1..m : PageNo(leaves[x]) \in Int
    BY <1>1, <1>2, FieldTypes, ElementOfSeq DEF TypeOK
  <2> QED
    BY <2>1, IntAssumption DEF Seen, AsUnsigned
<1>7. PICK y, a, b : y = hi(l) /\ a = Seen(PageNo(leaves[k])) /\ b = Seen(PageNo(leaves[y]))
  OBVIOUS
<1>8. a <= b <=> k <= y
  <2>1. k < y => a < b
    BY <1>2, <1>4, <1>7 DEF Ascending
  <2>2. y < k => b < a
    BY <1>2, <1>4, <1>7 DEF Ascending
  <2>3. a \in Int /\ b \in Int /\ (k = y => a = b) /\ y \in Int
    BY <1>2, <1>4, <1>6, <1>7
  <2> QED
    BY <2>1, <2>2, <2>3
<1>9. Seen(PageNo(n)) = b /\ a \in Int /\ b \in Int
  BY <1>2, <1>4, <1>5, <1>6, <1>7
<1> QED
  BY <1>2, <1>4, <1>7, <1>8, <1>9

\* The steps that end in a descent.
LEMMA DescendingSteps ==
  ASSUME AccessStep \/ UNCHANGED vars, apc' \in {"get", "descend"}
  PROVE  CallGetMHash \/ GetDescend \/ CallUpdateMTree \/ UpdateDescend \/ UNCHANGED vars
BY DEF AccessStep, Climb, ReadStep, EnterDriver, CallSelectHash, SelectHashReturns, PageUnreadable,
   GetReturns, CallUpdateTime, UpdateTimeReturns, UpdateNotFound, UpdateFound, UpdateReturns,
   DereferenceNullRoot, SelectHashExits, UpdateOverruns, MainReturns, Begin, Go

\* A descent is at a node of the tree, and its page can only be below that node.
DescentInv ==
  /\ apc \in {"get", "descend"} => temp \in Nodes /\ pmhtroot # NULL
  /\ DescentKeepsPage

LEMMA DescentStep ==
  ASSUME TreeInv, DescentInv, [BuildPhase \/ AccessStep]_vars
  PROVE  DescentInv'
<1> SUFFICES ASSUME apc' \in {"get", "descend"} PROVE DescentInv'
  BY DEF DescentInv, DescentKeepsPage
<1>1. /\ AccessStep \/ UNCHANGED vars
      /\ pc' = pc /\ heap' = heap /\ leaves' = leaves /\ span' = span
      /\ pmhtroot' = pmhtroot /\ pds' = pds
  BY FixedStep
<1>2. /\ Nodes' = Nodes
      /\ \A n : PageNo(n)' = PageNo(n) /\ lo(n)' = lo(n) /\ hi(n)' = hi(n)
      /\ apc' = apc => Ascending' = Ascending /\ \A x : Seen(x)' = Seen(x)
  BY <1>1 DEF Nodes, Ascending, Seen, PageNo, lo, hi
<1> SUFFICES /\ temp' \in Nodes /\ pmhtroot # NULL
             /\ Ascending' =>
                  \A k \in 1..Len(leaves) :
                    Seen(PageNo(leaves[k]))' = pgno' => span[temp'].lo <= k /\ k <= span[temp'].hi
  BY <1>1, <1>2 DEF DescentInv, DescentKeepsPage, lo, hi
<1>3. CASE CallGetMHash \/ CallUpdateMTree
  <2>1. temp' = pmhtroot /\ pmhtroot # NULL
    BY <1>3 DEF CallGetMHash, CallUpdateMTree
  <2>2. /\ pmhtroot \in Nodes /\ lo(pmhtroot) = 1 /\ hi(pmhtroot) = Len(leaves)
    BY <2>1, RootSpans
  <2> QED
    BY <2>1, <2>2 DEF lo, hi
<1>4. CASE GetDescend \/ UpdateDescend
  <2>1. /\ apc \in {"get", "descend"} /\ apc' = apc /\ pgno' = pgno /\ Inner(temp)
        /\ temp' = (IF pgno <= Seen(PageNo(temp)) THEN lchild(temp) ELSE rchild(temp))
    BY <1>4 DEF GetDescend, UpdateDescend, GetChild, Go, AtLeaf, Inner, LevelOf, Seen
  <2>2. temp \in Nodes /\ pmhtroot # NULL /\ DescentKeepsPage
    BY <2>1 DEF DescentInv
  <2>3. PICK n : n = temp
    OBVIOUS
  <2>4. lchild(n) \in Nodes /\ rchild(n) \in Nodes
    BY <2>1, <2>2, <2>3, ChildrenAreOlder DEF TreeInv, IInv
  <2>5. ASSUME Ascending, NEW k \in 1..Len(leaves), Seen(PageNo(leaves[k])) = pgno
        PROVE  span[temp'].lo <= k /\ k <= span[temp'].hi
    <3>1. lo(n) <= k /\ k <= hi(n)
      BY <2>1, <2>2, <2>3, <2>5 DEF DescentKeepsPage
    <3>2. /\ pgno <= Seen(PageNo(n)) => lo(lchild(n)) <= k /\ k <= hi(lchild(n))
          /\ ~(pgno <= Seen(PageNo(n))) => lo(rchild(n)) <= k /\ k <= hi(rchild(n))
      BY <3>1, <2>1, <2>2, <2>3, <2>5, ChildSpans
    <3>3. temp' = (IF pgno <= Seen(PageNo(n)) THEN lchild(n) ELSE rchild(n))
      BY <2>1, <2>3
    <3> QED
      BY <3>2, <3>3 DEF lo, hi
  <2>6. temp' \in Nodes
    BY <2>1, <2>3, <2>4
  <2>7. \A k : Seen(PageNo(leaves[k]))' = Seen(PageNo(leaves[k]))
    BY <1>1, <2>1 DEF Seen, PageNo
  <2> QED
    BY <1>2, <2>1, <2>2, <2>5, <2>6, <2>7
<1>5. CASE UNCHANGED vars
  <2>1. temp' = temp /\ pgno' = pgno /\ apc' = apc /\ leaves' = leaves /\ heap' = heap /\ span' = span
    BY <1>5 DEF vars, accessVars, searchVars, buildVars
  <2>2. /\ \A k : Seen(PageNo(leaves[k]))' = Seen(PageNo(leaves[k]))
        /\ Ascending' = Ascending
    BY <2>1 DEF Seen, PageNo, Ascending
  <2> QED
    BY <2>1, <2>2 DEF DescentInv, DescentKeepsPage, lo, hi
<1> QED
  BY <1>1, <1>3, <1>4, <1>5, DescendingSteps

LEMMA DescentIsKept == AccessSpec => []DescentInv
<1>1. Init /\ AccessInit => DescentInv
  BY DEF AccessInit, DescentInv, DescentKeepsPage
<1>2. TreeInv /\ DescentInv /\ [BuildPhase \/ AccessStep]_vars => DescentInv'
  BY DescentStep
<1> QED
  BY <1>1, <1>2, TreeIsFixed, PTL DEF AccessSpec

\* In a tree of any size, of any data set whose leaves ascend as the descent compares
\* them, it does not leave the subtree that can hold its page: where getMHash or updateMTree finds another
\* leaf, the tree has no leaf of that page.
THEOREM DescentIsRight == AccessSpec => []DescentKeepsPage
<1>1. DescentInv => DescentKeepsPage
  BY DEF DescentInv
<1> QED
  BY <1>1, DescentIsKept, PTL

-----------------------------------------------------------------------------
(* The path of an update *)

\* What nodeList is while updateMTree descends and climbs.
StackInv ==
  /\ apc \in {"descend", "climb"} => nodeList \in Seq(Nodes)
  /\ apc = "descend" => nodeList # <<>>
  /\ PathIsRootToLeaf /\ PathIsLeft

\* The steps that end in a descent or climb of updateMTree.
LEMMA UpdatingSteps ==
  ASSUME AccessStep \/ UNCHANGED vars, apc' \in {"descend", "climb"}
  PROVE  CallUpdateMTree \/ UpdateDescend \/ UpdateFound \/ Climb \/ UNCHANGED vars
BY DEF AccessStep, ReadStep, EnterDriver, CallSelectHash, SelectHashReturns, PageUnreadable,
   CallGetMHash, GetDescend, GetReturns, CallUpdateTime, UpdateTimeReturns, UpdateNotFound,
   UpdateReturns,
   DereferenceNullRoot, SelectHashExits, UpdateOverruns, MainReturns, Begin, Go

\* Pushing a child of the last node, and popping, leave a path.
LEMMA PathPushed ==
  ASSUME NEW S, NEW path \in Seq(S), path # <<>>, NEW c \in S, NEW next, next = Append(path, c)
  PROVE  /\ next \in Seq(S) /\ Len(next) = Len(path) + 1 /\ next # <<>> /\ Len(path) \in Nat \ {0}
         /\ next[1] = path[1] /\ next[Len(next)] = c
         /\ \A k \in 1..(Len(next) - 1) :
              next[k] = path[k] /\ (k < Len(path) => next[k + 1] = path[k + 1])
BY AppendProperties, LenProperties, EmptySeq

LEMMA PathPopped ==
  ASSUME NEW S, NEW path \in Seq(S), path # <<>>, NEW next, next = SubSeq(path, 1, Len(path) - 1)
  PROVE  /\ next \in Seq(S) /\ Len(next) = Len(path) - 1 /\ Len(path) \in Nat \ {0}
         /\ \A k \in 1..Len(next) : next[k] = path[k]
         /\ next # <<>> => Len(next) \in 1..Len(path) /\ Len(next) >= 1
<1>1. Len(path) \in Nat \ {0}
  BY LenProperties, EmptySeq
<1>2. \A k \in 1..(Len(path) - 1) : path[k] \in S
  BY <1>1, ElementOfSeq
<1>3. PICK m : m = Len(path) - 1
  OBVIOUS
<1>4. m \in Nat /\ \A k \in 1..m : path[k] \in S
  BY <1>1, <1>2, <1>3
<1>5. /\ SubSeq(path, 1, m) \in Seq(S)
      /\ Len(SubSeq(path, 1, m)) = (IF 1 <= m THEN m - 1 + 1 ELSE 0)
      /\ \A k \in 1..(m - 1 + 1) : SubSeq(path, 1, m)[k] = path[1 + k - 1]
  BY <1>4, SubSeqProperties
<1>6. /\ next \in Seq(S) /\ Len(next) = Len(path) - 1
      /\ \A k \in 1..Len(next) : next[k] = path[k]
  BY <1>3, <1>4, <1>5
<1> QED
  BY <1>1, <1>6, EmptySeq

LEMMA StackStep ==
  ASSUME TreeInv, DescentInv, StackInv, [BuildPhase \/ AccessStep]_vars
  PROVE  StackInv'
<1> SUFFICES ASSUME apc' \in {"descend", "climb"} PROVE StackInv'
  BY DEF StackInv, PathIsRootToLeaf, PathIsLeft
<1>1. /\ AccessStep \/ UNCHANGED vars
      /\ heap' = heap /\ pmhtroot' = pmhtroot
  BY FixedStep
<1>2. /\ Nodes' = Nodes
      /\ \A n : LevelOf(n)' = LevelOf(n) /\ lchild(n)' = lchild(n) /\ rchild(n)' = rchild(n)
  BY <1>1 DEF Nodes, LevelOf, lchild, rchild
<1> DEFINE Chain(path) ==
             /\ path \in Seq(Nodes)
             /\ path # <<>> => path[1] = pmhtroot
             /\ \A k \in 1..(Len(path) - 1) : path[k + 1] \in {lchild(path[k]), rchild(path[k])}
           Ends(path, n) == /\ path # <<>> /\ path[Len(path)] = n
                            /\ Len(path) = LevelOf(pmhtroot) - LevelOf(n) + 1
<1> SUFFICES Chain(nodeList') /\ (apc' = "descend" => Ends(nodeList', temp'))
  BY <1>1, <1>2 DEF StackInv, PathIsRootToLeaf, PathIsLeft, LevelOf, lchild, rchild
<1>3. TypeOK /\ NodeShape /\ \A n \in Nodes : LevelOf(n) \in Nat
  BY FieldTypes DEF TreeInv, IInv
<1>4. /\ apc \in {"descend", "climb"} => Chain(nodeList)
      /\ apc = "descend" => Ends(nodeList, temp) /\ temp \in Nodes /\ pmhtroot \in Nodes
  <2>1. apc \in {"descend", "climb"} => Chain(nodeList)
    BY DEF StackInv, PathIsLeft
  <2>2. ASSUME apc = "descend" PROVE Ends(nodeList, temp) /\ temp \in Nodes /\ pmhtroot \in Nodes
    <3>1. temp \in Nodes /\ pmhtroot \in Nodes
      BY <2>2, RootSpans DEF DescentInv
    <3>2. Len(nodeList) = LevelOf(pmhtroot) - LevelOf(temp) + 1 /\ nodeList[Len(nodeList)] = temp
      BY <2>2 DEF StackInv, PathIsRootToLeaf
    <3>3. nodeList # <<>>
      BY <2>2 DEF StackInv
    <3> QED
      BY <3>1, <3>2, <3>3
  <2> QED
    BY <2>1, <2>2
<1>5. CASE CallUpdateMTree
  <2>1. temp' = pmhtroot /\ nodeList' = <<pmhtroot>> /\ pmhtroot \in Nodes
    BY <1>5, RootSpans DEF CallUpdateMTree
  <2>2. /\ nodeList' \in Seq(Nodes) /\ Len(nodeList') = 1 /\ nodeList'[1] = pmhtroot
        /\ nodeList' # <<>>
    BY <2>1
  <2>3. LevelOf(pmhtroot) \in Nat
    BY <2>1, <1>3
  <2> QED
    BY <2>1, <2>2, <2>3
<1>6. CASE UpdateDescend
  <2>1. /\ apc = "descend" /\ Inner(temp) /\ nodeList' = Append(nodeList, temp')
        /\ temp' \in {lchild(temp), rchild(temp)}
    BY <1>6 DEF UpdateDescend, AtLeaf, Inner, LevelOf, Push
  <2>2. Chain(nodeList) /\ Ends(nodeList, temp) /\ temp \in Nodes /\ pmhtroot \in Nodes
    BY <2>1, <1>4
  <2>3. temp' \in Nodes /\ LevelOf(temp') = LevelOf(temp) - 1
    <3>1. lchild(temp) \in Nodes /\ rchild(temp) \in Nodes
      BY <2>1, <2>2, <1>3, ChildrenAreOlder
    <3>2. LevelOf(lchild(temp)) = LevelOf(temp) - 1 /\ LevelOf(rchild(temp)) = LevelOf(temp) - 1
      BY <2>1, <2>2, <1>3 DEF NodeShape, ShapeOf
    <3> QED
      BY <3>1, <3>2, <2>1
  <2>4. PICK path, next, c : path = nodeList /\ next = nodeList' /\ c = temp'
    OBVIOUS
  <2>5. /\ next \in Seq(Nodes) /\ Len(next) = Len(path) + 1 /\ next # <<>>
        /\ Len(path) \in Nat \ {0}
        /\ next[1] = path[1] /\ next[Len(next)] = c
        /\ \A k \in 1..(Len(next) - 1) :
             next[k] = path[k] /\ (k < Len(path) => next[k + 1] = path[k + 1])
    BY <2>1, <2>2, <2>3, <2>4, PathPushed
  <2>6. Ends(next, c)
    <3>1. LevelOf(temp) \in Nat /\ LevelOf(pmhtroot) \in Nat
      BY <2>2, <1>3
    <3> QED
      BY <3>1, <2>2, <2>3, <2>4, <2>5
  <2>7. ASSUME NEW k \in 1..(Len(next) - 1)
        PROVE  next[k + 1] \in {lchild(next[k]), rchild(next[k])}
    <3>1. CASE k < Len(path)
      BY <3>1, <2>2, <2>4, <2>5
    <3>2. CASE k = Len(path)
      BY <3>2, <2>1, <2>2, <2>4, <2>5
    <3> QED
      BY <3>1, <3>2, <2>5
  <2> QED
    BY <2>2, <2>4, <2>5, <2>6, <2>7
<1>7. CASE UpdateFound
  BY <1>7, <1>4 DEF UpdateFound, Go
<1>8. CASE Climb
  <2>1. /\ apc = "climb" /\ apc' = "climb" /\ nodeList # <<>>
        /\ nodeList' = SubSeq(nodeList, 1, Len(nodeList) - 1)
    BY <1>8 DEF Climb, Go, OnPath
  <2>2. PICK path, next : path = nodeList /\ next = nodeList'
    OBVIOUS
  <2>3. Chain(path)
    BY <2>1, <2>2, <1>4
  <2>4. /\ next \in Seq(Nodes) /\ Len(next) = Len(path) - 1 /\ Len(path) \in Nat \ {0}
        /\ \A k \in 1..Len(next) : next[k] = path[k]
        /\ next # <<>> => Len(next) >= 1
    <3>1. path \in Seq(Nodes) /\ path # <<>> /\ next = SubSeq(path, 1, Len(path) - 1)
      BY <2>1, <2>2, <2>3
    <3> QED
      BY <3>1, PathPopped, ZenonT(30)
  <2>5. ASSUME NEW k \in 1..(Len(next) - 1)
        PROVE  next[k + 1] \in {lchild(next[k]), rchild(next[k])}
    <3>1. k \in 1..(Len(path) - 1) /\ k \in 1..Len(next) /\ k + 1 \in 1..Len(next)
      BY <2>4
    <3> QED
      BY <3>1, <2>3, <2>4
  <2>6. next # <<>> => next[1] = pmhtroot
    BY <2>3, <2>4, EmptySeq
  <2> QED
    BY <2>1, <2>2, <2>4, <2>5, <2>6
<1>9. CASE UNCHANGED vars
  BY <1>9, <1>4 DEF vars, accessVars, searchVars, updateVars
<1> QED
  BY <1>1, <1>5, <1>6, <1>7, <1>8, <1>9, UpdatingSteps

LEMMA StackIsKept == AccessSpec => []StackInv
<1>1. Init /\ AccessInit => StackInv
  BY DEF AccessInit, StackInv, PathIsRootToLeaf, PathIsLeft
<1>2. TreeInv /\ DescentInv /\ StackInv /\ [BuildPhase \/ AccessStep]_vars => StackInv'
  BY StackStep
<1> QED
  BY <1>1, <1>2, TreeIsFixed, DescentIsKept, PTL DEF AccessSpec

\* In a tree of any height nodeList is the path from the root to the node at which
\* updateMTree is, with one entry for each level: it is never longer than the
\* height of the tree plus one.
THEOREM StackHoldsPath == AccessSpec => []PathIsRootToLeaf
<1>1. StackInv => PathIsRootToLeaf
  BY DEF StackInv
<1> QED
  BY <1>1, StackIsKept, PTL

-----------------------------------------------------------------------------
(* The climb *)

\* What one iteration of the climb pops and writes.
LEMMA ClimbStep ==
  ASSUME TreeInv, StackInv, Climb, NEW x, x = nodeList[Len(nodeList)]
  PROVE  /\ apc = "climb" /\ apc' = "climb" /\ x \in Nodes /\ nodeList # <<>>
         /\ hashRet' = (IF Inner(x) THEN Sha(m_hash[lchild(x)] \o m_hash[rchild(x)]) ELSE hashRet)
         /\ m_hash'[x] = hashRet' /\ \A n \in Nodes \ {x} : m_hash'[n] = m_hash[n]
         /\ \A n : (\E k \in 1..Len(nodeList) : nodeList[k] = n) /\ n # x
                   => \E k \in 1..Len(nodeList') : nodeList'[k] = n
         /\ nodeList' # <<>> =>
              /\ Len(nodeList') \in 1..Len(nodeList') /\ nodeList'[Len(nodeList')] \in Nodes
              /\ x \in {lchild(nodeList'[Len(nodeList')]), rchild(nodeList'[Len(nodeList')])}
         /\ nodeList' = <<>> => x = pmhtroot
<1>1. /\ apc = "climb" /\ apc' = "climb" /\ nodeList # <<>> /\ temp' = x
      /\ nodeList' = SubSeq(nodeList, 1, Len(nodeList) - 1)
      /\ hashRet' = Rehashed(x) /\ m_hash' = [m_hash EXCEPT ![x] = hashRet']
  BY DEF Climb, Go, OnPath
<1>2. PICK path, next : path = nodeList /\ next = nodeList'
  OBVIOUS
<1>3. /\ path \in Seq(Nodes) /\ path # <<>> /\ next = SubSeq(path, 1, Len(path) - 1)
      /\ path[1] = pmhtroot
      /\ \A k \in 1..(Len(path) - 1) : path[k + 1] \in {lchild(path[k]), rchild(path[k])}
  BY <1>1, <1>2 DEF StackInv, PathIsLeft
<1>4. /\ next \in Seq(Nodes) /\ Len(next) = Len(path) - 1 /\ Len(path) \in Nat \ {0}
      /\ \A k \in 1..Len(next) : next[k] = path[k]
      /\ next # <<>> => Len(next) \in 1..Len(path) /\ Len(next) >= 1
  BY <1>3, PathPopped
<1>5. x \in Nodes
  BY <1>2, <1>3, <1>4, ElementOfSeq
<1>6. m_hash'[x] = hashRet' /\ \A n \in Nodes \ {x} : m_hash'[n] = m_hash[n]
  BY <1>1, <1>5 DEF TreeInv, IInv, TypeOK
<1>7. ASSUME NEW n, NEW k \in 1..Len(path), path[k] = n, n # x
      PROVE  \E j \in 1..Len(next) : next[j] = n
  <2>1. k # Len(path)
    BY <1>2, <1>7
  <2>2. k \in 1..Len(next)
    BY <2>1, <1>4
  <2> QED
    BY <2>2, <1>4, <1>7
<1>8. ASSUME next # <<>>
      PROVE  /\ Len(next) \in 1..Len(next) /\ next[Len(next)] \in Nodes
             /\ x \in {lchild(next[Len(next)]), rchild(next[Len(next)])}
  <2>1. Len(next) \in 1..Len(next) /\ Len(next) \in 1..(Len(path) - 1) /\ Len(next) + 1 = Len(path)
    BY <1>4, <1>8
  <2>2. next[Len(next)] = path[Len(next)] /\ next[Len(next)] \in Nodes
    BY <2>1, <1>4, ElementOfSeq
  <2> QED
    BY <2>1, <2>2, <1>2, <1>3
<1>9. ASSUME next = <<>> PROVE x = pmhtroot
  <2>1. Len(path) = 1
    BY <1>4, <1>9, EmptySeq
  <2> QED
    BY <2>1, <1>2, <1>3
<1> QED
  BY <1>1, <1>2, <1>5, <1>6, <1>7, <1>8, <1>9 DEF Rehashed, sha256_2

\* The node under the one popped, if any, is its only parent.
LEMMA ParentIsNext ==
  ASSUME TreeInv, StackInv, Climb, NEW x, x = nodeList[Len(nodeList)],
         NEW p \in Nodes, Inner(p), x \in {lchild(p), rchild(p)}
  PROVE  nodeList' # <<>> /\ nodeList'[Len(nodeList')] = p
<1>1. /\ apc = "climb" /\ x \in Nodes
      /\ nodeList' # <<>> =>
           /\ nodeList'[Len(nodeList')] \in Nodes
           /\ x \in {lchild(nodeList'[Len(nodeList')]), rchild(nodeList'[Len(nodeList')])}
      /\ nodeList' = <<>> => x = pmhtroot
  BY ClimbStep
<1>2. nodeList' # <<>>
  <2> SUFFICES ASSUME nodeList' = <<>> PROVE FALSE
    OBVIOUS
  <2>1. x = pmhtroot /\ pmhtroot # NULL
    BY <1>1 DEF Nodes, NULL
  <2>2. x \in Live
    BY <2>1, RootSpans
  <2> QED
    BY <2>2 DEF Live
<1>3. PICK q : q = nodeList'[Len(nodeList')]
  OBVIOUS
<1>4. q \in Nodes /\ x \in {lchild(q), rchild(q)} /\ x # NULL
  BY <1>1, <1>2, <1>3 DEF Nodes, NULL
<1>5. Inner(q)
  BY <1>4 DEF TreeInv, IInv, NodeShape, ShapeOf
<1> QED
  BY <1>2, <1>3, <1>4, <1>5 DEF TreeInv, SearchInv, NoSharedChild

\* Reads change no hash, and only UpdateReturns ends a climb.
LEMMA ReadsInDriver ==
  ASSUME ReadStep
  PROVE  /\ m_hash' = m_hash
         /\ apc = "main" => EnterDriver
         /\ apc = "climb" => UpdateReturns
         /\ apc' = "climb" => UpdateFound
BY DEF ReadStep, EnterDriver, CallSelectHash, SelectHashReturns, PageUnreadable, CallGetMHash,
   GetDescend, GetReturns, CallUpdateTime, UpdateTimeReturns, CallUpdateMTree, UpdateDescend,
   UpdateNotFound, UpdateFound, UpdateReturns,
   DereferenceNullRoot, SelectHashExits, UpdateOverruns, MainReturns, Begin, Go, buildVars

\* The hashes are right when main gets the tree, and then as OnlyThePathIsStale says.
HashInv(Digest) ==
  /\ apc = "main" => HashesIn(Digest) /\ InnerHashIsHashOfChildren
  /\ OnlyThePathIsStale

LEMMA StaleStep ==
  ASSUME NEW Byte, NEW Digest, NulFree(Byte, Digest),
         TreeInv, StackInv, HashInv(Digest), [BuildPhase \/ AccessStep]_vars
  PROVE  HashInv(Digest)'
<1>1. CASE apc' = "main"
  <2>1. [Next]_buildVars /\ apc = "main"
    <3>1. CASE BuildPhase
      BY <3>1, <1>1 DEF BuildPhase, accessVars, Next
    <3>2. CASE AccessStep \/ UNCHANGED vars
      BY <3>2, <1>1, DriverSteps
    <3> QED
      BY <3>1, <3>2
  <2> QED
    BY <2>1, <1>1, HashStep DEF HashInv, TreeInv, OnlyThePathIsStale
<1>2. CASE apc' # "main"
  <2>1. (AccessStep \/ UNCHANGED vars) /\ heap' = heap
    BY <1>2, FixedStep
  <2>2. /\ Nodes' = Nodes
        /\ \A n : Inner(n)' = Inner(n) /\ lchild(n)' = lchild(n) /\ rchild(n)' = rchild(n)
    BY <2>1 DEF Nodes, Inner, LevelOf, lchild, rchild
  <2> SUFFICES ASSUME NEW n \in Nodes, Inner(n)
               PROVE  \/ apc' = "climb" /\ \E k \in 1..Len(nodeList') : nodeList'[k] = n
                      \/ m_hash'[n] = Sha(m_hash'[lchild(n)] \o m_hash'[rchild(n)])
    BY <1>2, <2>2 DEF HashInv, OnlyThePathIsStale, sha256_2
  <2>3. apc # "main" => \/ apc = "climb" /\ \E k \in 1..Len(nodeList) : nodeList[k] = n
                        \/ m_hash[n] = Sha(m_hash[lchild(n)] \o m_hash[rchild(n)])
    BY DEF HashInv, OnlyThePathIsStale, sha256_2
  <2>4. CASE ReadStep
    <3>1. m_hash[n] = Sha(m_hash[lchild(n)] \o m_hash[rchild(n)])
      <4>1. CASE apc = "main"
        BY <4>1 DEF HashInv, InnerHashIsHashOfChildren
      <4>2. CASE apc = "climb"
        <5>1. nodeList = <<>>
          BY <4>2, <2>4, ReadsInDriver DEF UpdateReturns, OnPath
        <5>2. ~ \E k \in 1..Len(nodeList) : nodeList[k] = n
          BY <5>1, EmptySeq
        <5> QED
          BY <5>2, <4>2, <2>3
      <4> QED
        BY <4>1, <4>2, <2>3
    <3> QED
      BY <3>1, <2>4, ReadsInDriver
  <2>5. CASE Climb
    <3>1. PICK x : x = nodeList[Len(nodeList)]
      OBVIOUS
    <3>2. /\ apc = "climb" /\ apc' = "climb" /\ x \in Nodes
          /\ hashRet' = (IF Inner(x) THEN Sha(m_hash[lchild(x)] \o m_hash[rchild(x)]) ELSE hashRet)
          /\ m_hash'[x] = hashRet' /\ \A z \in Nodes \ {x} : m_hash'[z] = m_hash[z]
          /\ (\E k \in 1..Len(nodeList) : nodeList[k] = n) /\ n # x
               => \E k \in 1..Len(nodeList') : nodeList'[k] = n
          /\ nodeList' # <<>> => Len(nodeList') \in 1..Len(nodeList')
      BY <3>1, <2>5, ClimbStep
    <3>3. /\ lchild(n) \in Nodes /\ rchild(n) \in Nodes /\ lchild(n) # n /\ rchild(n) # n
      <4>1. /\ lchild(n) \in 0..(n - 1) /\ rchild(n) \in 0..(n - 1)
            /\ lchild(n) \in Nodes /\ rchild(n) \in Nodes /\ Len(heap) \in Nat
        BY ChildrenAreOlder, FieldTypes DEF TreeInv, IInv
      <4> QED
        BY <4>1 DEF Nodes
    <3>4. CASE n = x
      BY <3>2, <3>3, <3>4
    <3>5. CASE n # x /\ x \in {lchild(n), rchild(n)}
      <4>1. nodeList' # <<>> /\ nodeList'[Len(nodeList')] = n
        BY <3>1, <3>5, <2>5, ParentIsNext
      <4> QED
        BY <4>1, <3>2
    <3>6. CASE n # x /\ x \notin {lchild(n), rchild(n)}
      BY <3>2, <3>3, <3>6, <2>3
    <3> QED
      BY <3>4, <3>5, <3>6
  <2>6. CASE UNCHANGED vars
    BY <2>6, <1>2, <2>3 DEF vars, accessVars, buildVars, updateVars
  <2> QED
    BY <2>1, <2>4, <2>5, <2>6 DEF AccessStep
<1> QED
  BY <1>1, <1>2

\* Where no hash contains a zero byte, at every moment of an update of a tree of
\* any size, an inner node whose hash is not that of its children's present hashes
\* is on the part of the path that updateMTree has still to climb; when it returns
\* there is none.
THEOREM UpdatesRestoreHashes ==
  ASSUME NEW Byte, NEW Digest, NulFree(Byte, Digest)
  PROVE  AccessSpec => []OnlyThePathIsStale
<1>1. Init /\ AccessInit => HashInv(Digest)
  <2> SUFFICES ASSUME Init, AccessInit PROVE HashInv(Digest)
    OBVIOUS
  <2>1. Nodes = {}
    BY EmptySeq DEF Init, Nodes
  <2> QED
    BY <2>1 DEF HashInv, HashesIn, InnerHashIsHashOfChildren, OnlyThePathIsStale
<1>2. TreeInv /\ StackInv /\ HashInv(Digest) /\ [BuildPhase \/ AccessStep]_vars => HashInv(Digest)'
  BY StaleStep
<1>3. HashInv(Digest) => OnlyThePathIsStale
  BY DEF HashInv
<1> QED
  BY <1>1, <1>2, <1>3, TreeIsFixed, StackIsKept, PTL DEF AccessSpec

-----------------------------------------------------------------------------
(* The leaves *)

\* A leaf is one of the leaves, at the place it spans, and no other has its page.
LEMMA LeafAt ==
  ASSUME TreeInv, NEW n \in Nodes, ~Inner(n)
  PROVE  /\ lo(n) = hi(n) /\ lo(n) \in 1..Len(leaves) /\ leaves[lo(n)] = n
         /\ Searchable => /\ AsUnsigned(PageNo(n)) = PageNo(n)
                          /\ \A k \in 1..Len(leaves) : PageNo(leaves[k]) = PageNo(n) => k = lo(n)
<1>1. lo(n) = hi(n) /\ lo(n) \in 1..Len(leaves) /\ leaves[lo(n)] = n
  BY DEF TreeInv, SpansNest, SpanOf
<1>2. ASSUME Searchable
      PROVE  /\ AsUnsigned(PageNo(n)) = PageNo(n)
             /\ \A k \in 1..Len(leaves) : PageNo(leaves[k]) = PageNo(n) => k = lo(n)
  <2>1. TypeOK /\ InRange /\ \A j, k \in 1..Len(leaves) : j < k => PageNo(leaves[j]) < PageNo(leaves[k])
    BY <1>2 DEF TreeInv, IInv, SearchInv, PagesIncrease, Searchable
  <2>2. PageNo(n) \in Int /\ PageNo(n) >= 0
    BY <2>1, <1>1, FieldTypes DEF InRange
  <2>3. ASSUME NEW k \in 1..Len(leaves), PageNo(leaves[k]) = PageNo(n), k # lo(n) PROVE FALSE
    <3>1. PageNo(leaves[k]) < PageNo(n) \/ PageNo(n) < PageNo(leaves[k])
      <4>1. k < lo(n) \/ lo(n) < k
        BY <2>3, <1>1
      <4> QED
        BY <4>1, <2>1, <1>1
    <3> QED
      BY <3>1, <2>2, <2>3
  <2> QED
    BY <2>2, <2>3 DEF AsUnsigned
<1> QED
  BY <1>1, <1>2

LEMMA LeavesAreLeaves ==
  ASSUME TreeInv, NEW k \in 1..Len(leaves)
  PROVE  leaves[k] \in Nodes /\ ~Inner(leaves[k])
BY ElementOfSeq DEF TreeInv, IInv, TypeOK, SearchInv, LeavesSpanThemselves, Inner, LevelOf

\* Each leaf has its contents, but for the one an update is about to write.
LeafInv == LeavesHoldContents /\ HashReachesLeaf

LEMMA ClimbKeepsLeaves ==
  ASSUME TreeInv, StackInv, LeafInv, Climb
  PROVE  LeafInv'
<1>1. PICK x, y : x = nodeList[Len(nodeList)] /\ y = nodeList'[Len(nodeList')]
  OBVIOUS
<1>2. /\ apc = "climb" /\ apc' = "climb" /\ x \in Nodes /\ nodeList # <<>>
      /\ hashRet' = (IF Inner(x) THEN Sha(m_hash[lchild(x)] \o m_hash[rchild(x)]) ELSE hashRet)
      /\ m_hash'[x] = hashRet' /\ \A n \in Nodes \ {x} : m_hash'[n] = m_hash[n]
      /\ nodeList' # <<>> => y \in Nodes /\ x \in {lchild(y), rchild(y)}
  BY <1>1, ClimbStep
<1>3. /\ contents' = contents /\ leaves' = leaves /\ Searchable' = Searchable
  BY DEF Climb, structureVars, Searchable, Built, Ordered, InRange, PageNo
<1>4. nodeList' # <<>> => Inner(y)
  BY <1>2 DEF TreeInv, IInv, NodeShape, ShapeOf, NULL, Nodes
<1> SUFFICES ASSUME Searchable, NEW k \in 1..Len(leaves)
             PROVE  IF nodeList' # <<>> /\ y = leaves[k]
                    THEN hashRet' = contents[k] ELSE m_hash'[leaves[k]] = contents[k]
  BY <1>1, <1>2, <1>3 DEF LeafInv, LeavesHoldContents, HashReachesLeaf
<1>5. leaves[k] \in Nodes /\ ~Inner(leaves[k])
  BY LeavesAreLeaves
<1>6. ~(nodeList' # <<>> /\ y = leaves[k])
  BY <1>4, <1>5
<1>7. IF x = leaves[k] THEN hashRet = contents[k] ELSE m_hash[leaves[k]] = contents[k]
  BY <1>1, <1>2 DEF LeafInv, HashReachesLeaf
<1>8. m_hash'[leaves[k]] = contents[k]
  BY <1>2, <1>5, <1>7
<1> QED
  BY <1>6, <1>8

\* The descent has found the leaf of its page, and the last node pushed is that leaf.
LEMMA FoundKeepsLeaves ==
  ASSUME TreeInv, DescentInv, StackInv, LeafInv, UpdateFound, UNCHANGED buildVars
  PROVE  LeafInv'
<1>1. /\ apc = "descend" /\ apc' = "climb" /\ PageNo(temp) = pgno /\ ~Inner(temp)
      /\ nodeList' = nodeList /\ hashRet' = hashRet
      /\ contents' = [k \in 1..Len(leaves) |-> IF PageNo(leaves[k]) = pgno THEN text ELSE contents[k]]
  BY DEF UpdateFound, Go, UpdateHasPage, AtLeaf, Inner, LevelOf
<1>2. temp \in Nodes /\ nodeList # <<>> /\ nodeList[Len(nodeList)] = temp /\ hashRet = text
  BY <1>1 DEF DescentInv, StackInv, PathIsRootToLeaf, LeafInv, HashReachesLeaf
<1>3. leaves' = leaves /\ m_hash' = m_hash /\ Searchable' = Searchable
  BY DEF buildVars, Searchable, Built, Ordered, InRange, PageNo
<1> SUFFICES ASSUME Searchable, NEW k \in 1..Len(leaves)
             PROVE  IF temp = leaves[k] THEN hashRet = contents'[k] ELSE m_hash[leaves[k]] = contents'[k]
  BY <1>1, <1>2, <1>3 DEF LeafInv, LeavesHoldContents, HashReachesLeaf
<1>4. /\ leaves[lo(temp)] = temp
      /\ PageNo(leaves[k]) = PageNo(temp) => k = lo(temp)
  BY <1>1, <1>2, LeafAt
<1>5. m_hash[leaves[k]] = contents[k]
  BY <1>1 DEF LeafInv, LeavesHoldContents
<1> QED
  BY <1>1, <1>2, <1>4, <1>5

LEMMA LeafStep ==
  ASSUME TreeInv, DescentInv, StackInv, LeafInv, [BuildPhase \/ AccessStep]_vars
  PROVE  LeafInv'
<1>1. CASE apc' = "main"
  BY <1>1 DEF LeafInv, LeavesHoldContents, HashReachesLeaf
<1>2. CASE apc' # "main"
  <2>1. /\ AccessStep \/ UNCHANGED vars
        /\ leaves' = leaves /\ Searchable' = Searchable
    BY <1>2, FixedStep DEF Searchable, Built, Ordered, InRange, PageNo
  <2>2. CASE Climb
    BY <2>2, ClimbKeepsLeaves
  <2>3. CASE ReadStep /\ UpdateFound
    BY <2>3, FoundKeepsLeaves DEF ReadStep
  <2>4. CASE ReadStep /\ EnterDriver
    BY <2>1, <2>4 DEF ReadStep, EnterDriver, buildVars, LeafInv, LeavesHoldContents, HashReachesLeaf
  <2>5. CASE ReadStep /\ ~UpdateFound /\ ~EnterDriver
    <3>1. m_hash' = m_hash /\ apc # "main" /\ apc' # "climb" /\ (apc = "climb" => UpdateReturns)
      BY <2>5, ReadsInDriver
    <3>2. contents' = contents
      BY <2>5 DEF ReadStep, EnterDriver, CallSelectHash, SelectHashReturns, PageUnreadable,
         CallGetMHash, GetDescend, GetReturns, CallUpdateTime, UpdateTimeReturns, CallUpdateMTree,
         UpdateDescend, UpdateNotFound, UpdateFound, UpdateReturns,
         DereferenceNullRoot, SelectHashExits, UpdateOverruns,
         MainReturns, Begin, Go, updateVars
    <3>3. apc' = "descend" => hashRet' = text'
      BY <2>5, <3>1 DEF ReadStep, EnterDriver, CallSelectHash, SelectHashReturns, PageUnreadable,
         CallGetMHash, GetDescend, GetReturns, CallUpdateTime, UpdateTimeReturns, CallUpdateMTree,
         UpdateDescend, UpdateNotFound, UpdateFound, UpdateReturns,
         DereferenceNullRoot, SelectHashExits, UpdateOverruns,
         MainReturns, Begin, Go, LeafInv, HashReachesLeaf
    <3>4. ASSUME Searchable, NEW k \in 1..Len(leaves) PROVE m_hash[leaves[k]] = contents[k]
      <4>1. CASE apc = "climb"
        BY <4>1, <3>1, <3>4 DEF UpdateReturns, OnPath, LeafInv, HashReachesLeaf
      <4>2. CASE apc # "climb"
        BY <4>2, <3>1, <3>4 DEF LeafInv, LeavesHoldContents
      <4> QED
        BY <4>1, <4>2
    <3> QED
      BY <2>1, <3>1, <3>2, <3>3, <3>4 DEF LeafInv, LeavesHoldContents, HashReachesLeaf
  <2>6. CASE UNCHANGED vars
    BY <2>1, <2>6 DEF vars, accessVars, buildVars, updateVars, LeafInv, LeavesHoldContents, HashReachesLeaf
  <2> QED
    BY <2>1, <2>2, <2>3, <2>4, <2>5, <2>6 DEF AccessStep
<1> QED
  BY <1>1, <1>2

LEMMA LeavesAreKept == AccessSpec => []LeafInv
<1>1. Init /\ AccessInit => LeafInv
  BY DEF AccessInit, LeafInv, LeavesHoldContents, HashReachesLeaf
<1>2. TreeInv /\ DescentInv /\ StackInv /\ LeafInv /\ [BuildPhase \/ AccessStep]_vars => LeafInv'
  BY LeafStep
<1> QED
  BY <1>1, <1>2, TreeIsFixed, DescentIsKept, StackIsKept, PTL DEF AccessSpec

\* In a tree of any size an update whose page has a leaf replaces that leaf's hash,
\* and no update replaces another's: between updates every leaf has the hash last
\* given to its page.
THEOREM UpdatesReachTheirLeaf == AccessSpec => []LeavesHoldContents
<1>1. LeafInv => LeavesHoldContents
  BY DEF LeafInv
<1> QED
  BY <1>1, LeavesAreKept, PTL

-----------------------------------------------------------------------------
(* The root *)

\* Where the half of d leaves ends, and the rows of hashes MerkleRoot computes.
Half(d) == (d - 1) \div 2
RowOf(f, d, hashes) ==
  [a \in 1..(Len(hashes) - d) |->
     IF d = 0 THEN hashes[a] ELSE Sha(f[Half(d)][a] \o f[d - 1 - Half(d)][a + Half(d) + 1])]
RowsUpTo(f, m, hashes) == f = [d \in 0..m |-> RowOf(f, d, hashes)]

LEMMA HalfIsLess ==
  ASSUME NEW d \in Nat, d # 0
  PROVE  Half(d) \in 0..(d - 1) /\ d - 1 - Half(d) \in 0..(d - 1)
BY DEF Half

LEMMA RowsAreDefined ==
  ASSUME NEW hashes, NEW n \in Nat
  PROVE  \E f : RowsUpTo(f, n, hashes)
<1> DEFINE T == {m \in 0..n : \E f : RowsUpTo(f, m, hashes)}
<1>1. 0 \in T
  <2>1. PICK f : f = [d \in 0..0 |-> RowOf(<<>>, 0, hashes)]
    OBVIOUS
  <2>2. RowOf(<<>>, 0, hashes) = RowOf(f, 0, hashes)
    BY DEF RowOf
  <2>3. RowsUpTo(f, 0, hashes)
    <3>1. \A d \in 0..0 : d = 0
      OBVIOUS
    <3> QED
      BY <2>1, <2>2, <3>1 DEF RowsUpTo
  <2> QED
    BY <2>3
<1>2. ASSUME NEW m \in 0..(n - 1), m \in T PROVE m + 1 \in T
  <2>1. PICK f : RowsUpTo(f, m, hashes)
    BY <1>2
  <2>2. PICK g : g = [d \in 0..(m + 1) |-> IF d <= m THEN f[d] ELSE RowOf(f, m + 1, hashes)]
    OBVIOUS
  <2>3. ASSUME NEW d \in 0..(m + 1) PROVE g[d] = RowOf(g, d, hashes)
    <3>1. RowOf(f, d, hashes) = RowOf(g, d, hashes)
      <4>1. CASE d = 0
        BY <4>1 DEF RowOf
      <4>2. CASE d # 0
        <5>1. Half(d) \in 0..(d - 1) /\ d - 1 - Half(d) \in 0..(d - 1)
          BY <4>2, HalfIsLess
        <5>2. \A x \in 0..(d - 1) : g[x] = f[x]
          BY <2>2
        <5>3. g[Half(d)] = f[Half(d)] /\ g[d - 1 - Half(d)] = f[d - 1 - Half(d)]
          BY <5>1, <5>2
        <5> QED
          BY <5>3 DEF RowOf
      <4> QED
        BY <4>1, <4>2
    <3>2. g[d] = RowOf(f, d, hashes)
      <4>1. CASE d <= m
        <5>1. d \in 0..m /\ g[d] = f[d]
          BY <4>1, <2>2
        <5> QED
          BY <5>1, <2>1 DEF RowsUpTo
      <4>2. CASE d = m + 1
        BY <4>2, <2>2
      <4> QED
        BY <4>1, <4>2
    <3> QED
      BY <3>1, <3>2
  <2>4. RowsUpTo(g, m + 1, hashes)
    BY <2>2, <2>3 DEF RowsUpTo
  <2> QED
    BY <2>4
<1>3. n \in T
  <2> HIDE DEF T
  <2>1. \A k \in 0..n : k \in T
    BY <1>1, <1>2, UpTo
  <2> QED
    BY <2>1
<1> QED
  BY <1>3

LEMMA RootIsInRows ==
  ASSUME NEW hashes, Len(hashes) \in Nat \ {0}
  PROVE  \E f : RowsUpTo(f, Len(hashes) - 1, hashes) /\ MerkleRoot(hashes) = f[Len(hashes) - 1][1]
<1>1. PICK f : f = CHOOSE g : RowsUpTo(g, Len(hashes) - 1, hashes)
  OBVIOUS
<1>2. RowsUpTo(f, Len(hashes) - 1, hashes)
  BY <1>1, RowsAreDefined
<1>3. MerkleRoot(hashes) = f[Len(hashes) - 1][1]
  BY <1>1 DEF MerkleRoot, RowsUpTo, RowOf, Half
<1> QED
  BY <1>2, <1>3

\* The span of a node is as wide as that of any other of its level.
LEMMA LevelsAreEven ==
  ASSUME TreeInv, NEW x \in Nodes, NEW y \in Nodes, LevelOf(x) = LevelOf(y)
  PROVE  hi(x) - lo(x) = hi(y) - lo(y)
<1> DEFINE T == {l \in 0..LevelOf(x) : \A m, n \in Nodes :
                   LevelOf(m) = l /\ LevelOf(n) = l => hi(m) - lo(m) = hi(n) - lo(n)}
<1>1. LevelOf(x) \in Nat
  BY FieldTypes DEF TreeInv, IInv
<1>2. 0 \in T
  <2>1. \A n \in Nodes : LevelOf(n) = 0 => lo(n) = hi(n) /\ lo(n) \in 1..Len(leaves)
    BY DEF TreeInv, SpansNest, SpanOf, Inner, LevelOf, NODELEVEL_LEAF
  <2>2. \A n \in Nodes : LevelOf(n) = 0 => hi(n) - lo(n) = 0
    BY <2>1
  <2> QED
    BY <1>1, <2>2
<1>3. ASSUME NEW l \in 0..(LevelOf(x) - 1), l \in T PROVE l + 1 \in T
  <2>1. ASSUME NEW m \in Nodes, LevelOf(m) = l + 1
        PROVE  /\ lchild(m) \in Nodes /\ LevelOf(lchild(m)) = l
               /\ rchild(m) \in Nodes /\ LevelOf(rchild(m)) = l
               /\ hi(m) - lo(m) = (hi(lchild(m)) - lo(lchild(m))) + (hi(rchild(m)) - lo(rchild(m))) + 1
    <3>1. Inner(m)
      BY <2>1 DEF Inner, LevelOf, NODELEVEL_LEAF
    <3>2. /\ lchild(m) \in Nodes /\ LevelOf(lchild(m)) = l
          /\ rchild(m) \in Nodes /\ LevelOf(rchild(m)) = l
      BY <2>1, <3>1, ChildrenAreOlder DEF TreeInv, IInv, NodeShape, ShapeOf
    <3>3. /\ lo(m) = lo(lchild(m)) /\ hi(lchild(m)) + 1 = lo(rchild(m)) /\ hi(rchild(m)) = hi(m)
      BY <3>1 DEF TreeInv, SpansNest, SpanOf
    <3>4. \A n \in Nodes : lo(n) \in Int /\ hi(n) \in Int
      BY SpanFields DEF TreeInv, IInv
    <3> QED
      BY <3>2, <3>3, <3>4
  <2>2. ASSUME NEW m \in Nodes, NEW n \in Nodes, LevelOf(m) = l + 1, LevelOf(n) = l + 1
        PROVE  hi(m) - lo(m) = hi(n) - lo(n)
    <3>1. /\ hi(lchild(m)) - lo(lchild(m)) = hi(lchild(n)) - lo(lchild(n))
          /\ hi(rchild(m)) - lo(rchild(m)) = hi(rchild(n)) - lo(rchild(n))
      BY <1>3, <2>1, <2>2
    <3> QED
      BY <3>1, <2>1, <2>2
  <2>3. l + 1 \in 0..LevelOf(x)
    BY <1>1
  <2> QED
    BY <2>2, <2>3
<1>4. LevelOf(x) \in T
  <2> HIDE DEF T
  <2>1. \A k \in 0..LevelOf(x) : k \in T
    BY <1>1, <1>2, <1>3, UpTo
  <2> QED
    BY <2>1, <1>1
<1> QED
  BY <1>4

\* In a tree whose leaves hold these hashes and whose inner nodes are not stale each
\* node has the hash MerkleRoot gives the leaves it spans.
LEMMA NodesHaveRows ==
  ASSUME TreeInv, NEW hashes, Len(hashes) = Len(leaves), NEW f, RowsUpTo(f, Len(leaves) - 1, hashes),
         \A k \in 1..Len(leaves) : m_hash[leaves[k]] = hashes[k],
         \A n \in Nodes : Inner(n) => m_hash[n] = sha256_2(lchild(n), rchild(n)),
         NEW x \in Nodes
  PROVE  m_hash[x] = f[hi(x) - lo(x)][lo(x)]
<1> DEFINE T == {l \in 0..LevelOf(x) : \A n \in Nodes :
                   LevelOf(n) = l => m_hash[n] = f[hi(n) - lo(n)][lo(n)]}
<1>1. LevelOf(x) \in Nat
  BY FieldTypes DEF TreeInv, IInv
<1>2. \A n \in Nodes : lo(n) \in 1..hi(n) /\ hi(n) <= Len(leaves) /\ hi(n) \in Int
  BY SpanFields DEF TreeInv, IInv, SearchInv, SpansInRange
<1>3. Len(leaves) \in Nat
  BY LenProperties DEF TreeInv, IInv, TypeOK
<1>4. ASSUME NEW n \in Nodes, LevelOf(n) = 0 PROVE m_hash[n] = f[hi(n) - lo(n)][lo(n)]
  <2>1. lo(n) = hi(n) /\ lo(n) \in 1..Len(leaves) /\ leaves[lo(n)] = n
    BY <1>4 DEF TreeInv, SpansNest, SpanOf, Inner, LevelOf, NODELEVEL_LEAF
  <2>2. 0 \in 0..(Len(leaves) - 1) /\ hi(n) - lo(n) = 0 /\ lo(n) \in 1..(Len(hashes) - 0)
    BY <2>1, <1>3
  <2>3. f[0] = RowOf(f, 0, hashes)
    BY <2>2 DEF RowsUpTo
  <2>4. f[0][lo(n)] = hashes[lo(n)]
    BY <2>2, <2>3 DEF RowOf
  <2> QED
    BY <2>1, <2>2, <2>4
<1>5. ASSUME NEW l \in 0..(LevelOf(x) - 1), l \in T PROVE l + 1 \in T
  <2>1. ASSUME NEW n \in Nodes, LevelOf(n) = l + 1
        PROVE  m_hash[n] = f[hi(n) - lo(n)][lo(n)]
    <3>1. Inner(n)
      BY <2>1 DEF Inner, LevelOf, NODELEVEL_LEAF
    <3>2. PICK a, b : a = lchild(n) /\ b = rchild(n)
      OBVIOUS
    <3>3. a \in Nodes /\ b \in Nodes /\ LevelOf(a) = l /\ LevelOf(b) = l
      BY <2>1, <3>1, <3>2, ChildrenAreOlder DEF TreeInv, IInv, NodeShape, ShapeOf
    <3>4. /\ lo(n) = lo(a) /\ hi(a) + 1 = lo(b) /\ hi(b) = hi(n)
      BY <3>1, <3>2 DEF TreeInv, SpansNest, SpanOf
    <3>5. hi(a) - lo(a) = hi(b) - lo(b)
      BY <3>3, LevelsAreEven
    <3>6. PICK w : w = hi(a) - lo(a)
      OBVIOUS
    <3>7. /\ w \in Nat /\ hi(n) - lo(n) = 2 * w + 1 /\ lo(b) = lo(n) + w + 1
          /\ 2 * w + 1 \in 0..(Len(leaves) - 1) /\ lo(n) \in 1..(Len(leaves) - (2 * w + 1))
      <4>1. /\ lo(a) \in Nat /\ hi(a) \in Nat /\ 1 <= lo(a) /\ lo(a) <= hi(a)
            /\ lo(b) \in Nat /\ hi(b) \in Nat /\ 1 <= lo(b) /\ lo(b) <= hi(b)
            /\ hi(b) <= Len(leaves)
        BY <3>3, <1>2
      <4>2. PICK u, v : u = lo(a) /\ v = hi(b)
        OBVIOUS
      <4>3. w \in Nat /\ u \in Nat /\ v \in Nat /\ 1 <= u /\ v <= Len(leaves)
        BY <4>1, <4>2, <3>6
      <4>4. lo(b) = u + w + 1 /\ v - u = 2 * w + 1
        <5>1. hi(a) = u + w /\ lo(b) = u + w + 1
          <6>1. PICK s : s = hi(a)
            OBVIOUS
          <6>2. s \in Nat /\ w = s - u /\ lo(b) = s + 1
            BY <6>1, <4>1, <4>2, <3>4, <3>6
          <6> QED
            BY <6>1, <6>2, <4>3
        <5>2. v = u + w + 1 + w
          <6>1. v - lo(b) = w /\ lo(b) \in Nat
            BY <4>1, <4>2, <3>5, <3>6
          <6>2. PICK s : s = lo(b)
            OBVIOUS
          <6> QED
            BY <6>1, <6>2, <5>1, <4>3
        <5> QED
          BY <5>1, <5>2, <4>3
      <4>5. 2 * w + 1 \in 0..(Len(leaves) - 1) /\ u \in 1..(Len(leaves) - (2 * w + 1))
        BY <4>3, <4>4, <1>3
      <4> QED
        BY <4>2, <4>3, <4>4, <4>5, <3>4
    <3>8. Half(2 * w + 1) = w /\ (2 * w + 1) - 1 - w = w /\ 2 * w + 1 # 0
      BY <3>7 DEF Half
    <3>9. f[2 * w + 1] = RowOf(f, 2 * w + 1, hashes)
      BY <3>7 DEF RowsUpTo
    <3>10. f[2 * w + 1][lo(n)] = Sha(f[w][lo(n)] \o f[w][lo(n) + w + 1])
      <4>1. PICK d, k : d = 2 * w + 1 /\ k = lo(n)
        OBVIOUS
      <4>2. k \in 1..(Len(hashes) - d) /\ d # 0 /\ Half(d) = w /\ d - 1 - Half(d) = w
        BY <4>1, <3>7, <3>8
      <4>3. f[d][k] = Sha(f[Half(d)][k] \o f[d - 1 - Half(d)][k + Half(d) + 1])
        BY <4>1, <4>2, <3>9 DEF RowOf
      <4> QED
        BY <4>1, <4>2, <4>3
    <3>11. m_hash[a] = f[w][lo(n)] /\ m_hash[b] = f[w][lo(n) + w + 1]
      BY <1>5, <3>3, <3>4, <3>5, <3>6, <3>7
    <3>12. m_hash[n] = Sha(m_hash[a] \o m_hash[b])
      BY <3>1, <3>2 DEF sha256_2
    <3> QED
      BY <3>7, <3>10, <3>11, <3>12
  <2>2. l + 1 \in 0..LevelOf(x)
    BY <1>1
  <2> QED
    BY <2>1, <2>2
<1>6. LevelOf(x) \in T
  <2>1. 0 \in T
    BY <1>1, <1>4
  <2> HIDE DEF T
  <2>2. \A k \in 0..LevelOf(x) : k \in T
    BY <1>1, <1>5, <2>1, UpTo
  <2> QED
    BY <2>2, <1>1
<1> QED
  BY <1>6

\* The contents are a sequence with one entry for each leaf.
ContentsInv == apc # "main" => Len(contents) = Len(leaves)

LEMMA ContentsStep ==
  ASSUME TreeInv, ContentsInv, [BuildPhase \/ AccessStep]_vars
  PROVE  ContentsInv'
<1> SUFFICES ASSUME apc' # "main" PROVE Len(contents') = Len(leaves')
  BY DEF ContentsInv
<1>1. (AccessStep \/ UNCHANGED vars) /\ leaves' = leaves
  BY FixedStep
<1>2. Len(leaves) \in Nat
  BY LenProperties DEF TreeInv, IInv, TypeOK
<1>3. CASE EnterDriver
  <2>1. contents' = [k \in 1..Len(leaves) |-> m_hash[leaves[k]]]
    BY <1>3 DEF EnterDriver
  <2> QED
    BY <2>1, <1>1, <1>2
<1>4. CASE UpdateFound
  <2>1. contents' = [k \in 1..Len(leaves) |-> IF PageNo(leaves[k]) = pgno THEN text ELSE contents[k]]
    BY <1>4 DEF UpdateFound
  <2> QED
    BY <2>1, <1>1, <1>2
<1>5. CASE ~EnterDriver /\ ~UpdateFound
  <2>1. contents' = contents /\ apc # "main"
    <3>1. CASE AccessStep
      BY <1>5, <3>1 DEF AccessStep, Climb, ReadStep, EnterDriver, CallSelectHash, SelectHashReturns,
         PageUnreadable, CallGetMHash, GetDescend, GetReturns, CallUpdateTime, UpdateTimeReturns,
         CallUpdateMTree, UpdateDescend, UpdateNotFound, UpdateFound, UpdateReturns,
         DereferenceNullRoot, SelectHashExits, UpdateOverruns, MainReturns, Begin, Go, updateVars
    <3>2. CASE UNCHANGED vars
      BY <3>2 DEF vars, accessVars, updateVars
    <3> QED
      BY <3>1, <3>2, <1>1
  <2> QED
    BY <2>1, <1>1 DEF ContentsInv
<1> QED
  BY <1>3, <1>4, <1>5

\* Where no hash contains a zero byte, the root hash of a tree of any size is, between
\* updates, what MerkleRoot makes of the hashes last given to its pages, whatever
\* updates came before.
THEOREM RootIsOfContents ==
  ASSUME NEW Byte, NEW Digest, NulFree(Byte, Digest)
  PROVE  AccessSpec => []RootCommitsContents
<1>1. Init /\ AccessInit => ContentsInv
  BY DEF AccessInit, ContentsInv
<1>2. TreeInv /\ ContentsInv /\ [BuildPhase \/ AccessStep]_vars => ContentsInv'
  BY ContentsStep
<1>3. TreeInv /\ OnlyThePathIsStale /\ LeavesHoldContents /\ ContentsInv => RootCommitsContents
  <2> SUFFICES ASSUME TreeInv, OnlyThePathIsStale, LeavesHoldContents, ContentsInv,
                      Searchable, apc \notin {"main", "climb"}
               PROVE  m_hash[pmhtroot] = MerkleRoot(contents)
    BY DEF RootCommitsContents
  <2>1. /\ pmhtroot \in Nodes /\ lo(pmhtroot) = 1 /\ hi(pmhtroot) = Len(leaves)
    BY RootSpans DEF Searchable, Built
  <2>2. Len(contents) = Len(leaves) /\ Len(leaves) \in Nat \ {0}
    <3>1. lo(pmhtroot) \in 1..hi(pmhtroot) /\ hi(pmhtroot) \in Nat
      BY <2>1, SpanFields DEF TreeInv, IInv, SearchInv, SpansInRange
    <3> QED
      BY <3>1, <2>1 DEF ContentsInv
  <2>3. PICK f : RowsUpTo(f, Len(contents) - 1, contents) /\ MerkleRoot(contents) = f[Len(contents) - 1][1]
    BY <2>2, RootIsInRows
  <2>4. \A k \in 1..Len(leaves) : m_hash[leaves[k]] = contents[k]
    BY DEF LeavesHoldContents
  <2>5. \A n \in Nodes : Inner(n) => m_hash[n] = sha256_2(lchild(n), rchild(n))
    BY DEF OnlyThePathIsStale
  <2>6. m_hash[pmhtroot] = f[hi(pmhtroot) - lo(pmhtroot)][lo(pmhtroot)]
    BY <2>1, <2>2, <2>3, <2>4, <2>5, NodesHaveRows, SMTT(30)
  <2> QED
    BY <2>1, <2>2, <2>3, <2>6
<1>4. AccessSpec => []OnlyThePathIsStale
  BY UpdatesRestoreHashes
<1> QED
  BY <1>1, <1>2, <1>3, <1>4, TreeIsFixed, LeavesAreKept, UpdatesReachTheirLeaf, PTL DEF AccessSpec

\* While updateMTree climbs, its stack is what is left of the path, and the hash it
\* carries reaches the leaf of its page.
THEOREM ClimbsAreRight == AccessSpec => []ClimbInv
<1>1. StackInv /\ LeafInv => ClimbInv
  BY DEF StackInv, LeafInv, ClimbInv
<1> QED
  BY <1>1, StackIsKept, LeavesAreKept, PTL

-----------------------------------------------------------------------------
(* The list without repetitions *)

\* What diffPgno keeps after one more page, and the function it computes.
KeepOne(kept, page) == IF Repeats(kept, page) THEN kept ELSE Append(kept, page)
KeepsUpTo(f, m, list) ==
  f = [k \in 0..m |-> IF k = 0 THEN <<>> ELSE KeepOne(f[k - 1], list[k])]

LEMMA KeepingIsDefined ==
  ASSUME NEW list, NEW n \in Nat
  PROVE  \E f : KeepsUpTo(f, n, list)
<1> DEFINE T == {m \in 0..n : \E f : KeepsUpTo(f, m, list)}
<1>1. 0 \in T
  <2>1. PICK f : f = [k \in 0..0 |-> <<>>]
    OBVIOUS
  <2>2. KeepsUpTo(f, 0, list)
    BY <2>1 DEF KeepsUpTo
  <2> QED
    BY <2>2
<1>2. ASSUME NEW m \in 0..(n - 1), m \in T PROVE m + 1 \in T
  <2>1. PICK f : KeepsUpTo(f, m, list)
    BY <1>2
  <2>2. PICK g : g = [k \in 0..(m + 1) |-> IF k <= m THEN f[k] ELSE KeepOne(f[m], list[m + 1])]
    OBVIOUS
  <2>3. ASSUME NEW k \in 0..(m + 1)
        PROVE  g[k] = (IF k = 0 THEN <<>> ELSE KeepOne(g[k - 1], list[k]))
    <3>1. CASE k = 0
      <4>1. g[k] = f[k] /\ f[k] = <<>>
        BY <3>1, <2>1, <2>2 DEF KeepsUpTo
      <4> QED
        BY <3>1, <4>1
    <3>2. CASE k # 0 /\ k <= m
      <4>1. k \in 0..m /\ k - 1 \in 0..m /\ k - 1 \in 0..(m + 1) /\ k - 1 <= m
        BY <3>2
      <4>2. g[k] = f[k] /\ g[k - 1] = f[k - 1]
        BY <4>1, <3>2, <2>2
      <4>3. f[k] = KeepOne(f[k - 1], list[k])
        BY <4>1, <3>2, <2>1 DEF KeepsUpTo
      <4> QED
        BY <4>2, <4>3, <3>2
    <3>3. CASE k = m + 1
      <4>1. g[k] = KeepOne(f[m], list[m + 1]) /\ g[m] = f[m] /\ k - 1 = m
        BY <3>3, <2>2
      <4> QED
        BY <4>1, <3>3
    <3> QED
      BY <3>1, <3>2, <3>3
  <2>4. KeepsUpTo(g, m + 1, list)
    BY <2>2, <2>3 DEF KeepsUpTo
  <2> QED
    BY <2>4
<1>3. n \in T
  <2> HIDE DEF T
  <2>1. \A k \in 0..n : k \in T
    BY <1>1, <1>2, UpTo
  <2> QED
    BY <2>1
<1> QED
  BY <1>3

LEMMA DiffIsKept ==
  ASSUME NEW list \in Seq(Nat)
  PROVE  \E f : KeepsUpTo(f, Len(list), list) /\ diffPgno(list) = f[Len(list)]
<1>1. Len(list) \in Nat
  BY LenProperties
<1>2. PICK f : f = CHOOSE g : KeepsUpTo(g, Len(list), list)
  OBVIOUS
<1>3. KeepsUpTo(f, Len(list), list)
  BY <1>1, <1>2, KeepingIsDefined
<1>4. diffPgno(list) = f[Len(list)]
  BY <1>2 DEF diffPgno, KeepsUpTo, KeepOne
<1> QED
  BY <1>3, <1>4

\* What has been kept of the first m pages: all their pages and no others, the last
\* of them last, in increasing order if they come in order.
KeptOf(kept, m, list) ==
  /\ kept \in Seq(Nat)
  /\ IF m = 0 THEN kept = <<>> ELSE kept # <<>> /\ kept[Len(kept)] = list[m]
  /\ \A j \in 1..Len(kept) : \E k \in 1..m : kept[j] = list[k]
  /\ \A k \in 1..m : \E j \in 1..Len(kept) : kept[j] = list[k]
  /\ Sorted(list) => \A j, k \in 1..Len(kept) : j < k => kept[j] < kept[k]

LEMMA KeptStep ==
  ASSUME NEW list \in Seq(Nat), NEW m \in 0..(Len(list) - 1), Len(list) \in Nat,
         NEW kept, KeptOf(kept, m, list)
  PROVE  KeptOf(KeepOne(kept, list[m + 1]), m + 1, list)
<1>1. PICK p, n : p = list[m + 1] /\ n = Len(kept)
  OBVIOUS
<1>2. m + 1 \in 1..Len(list) /\ p \in Nat /\ m \in Nat
  BY <1>1, ElementOfSeq
<1>3. kept \in Seq(Nat) /\ n \in Nat /\ \A j \in 1..n : kept[j] \in Nat
  BY <1>1, LenProperties, ElementOfSeq DEF KeptOf
<1>4. CASE Repeats(kept, p)
  <2>1. KeepOne(kept, p) = kept /\ kept # <<>> /\ kept[n] = p
    BY <1>1, <1>4 DEF KeepOne, Repeats
  <2>2. n \in 1..n
    BY <2>1, <1>1, <1>3, EmptySeq
  <2>3. ASSUME NEW j \in 1..n PROVE \E k \in 1..(m + 1) : kept[j] = list[k]
    BY <1>1, <1>2 DEF KeptOf
  <2>4. ASSUME NEW k \in 1..(m + 1) PROVE \E j \in 1..n : kept[j] = list[k]
    <3>1. CASE k \in 1..m
      BY <3>1, <1>1 DEF KeptOf
    <3>2. CASE k = m + 1
      BY <3>2, <2>1, <2>2, <1>1
    <3> QED
      BY <3>1, <3>2, <1>2
  <2>5. Sorted(list) => \A j, k \in 1..n : j < k => kept[j] < kept[k]
    BY <1>1 DEF KeptOf
  <2>6. m + 1 # 0
    BY <1>2
  <2>7. kept # <<>> /\ kept[Len(kept)] = list[m + 1]
    BY <2>1, <1>1
  <2>8. KeptOf(kept, m + 1, list)
    BY <2>3, <2>4, <2>5, <2>6, <2>7, <1>1, <1>3 DEF KeptOf
  <2> QED
    BY <2>1, <2>8, <1>1
<1>5. CASE ~Repeats(kept, p)
  <2>1. PICK next : next = Append(kept, p)
    OBVIOUS
  <2>2. /\ KeepOne(kept, p) = next
        /\ next \in Seq(Nat) /\ next # <<>> /\ Len(next) = n + 1 /\ next[n + 1] = p
        /\ \A j \in 1..n : next[j] = kept[j]
    BY <2>1, <1>1, <1>2, <1>3, <1>5, AppendProperties, SMTT(30) DEF KeepOne
  <2>3. ASSUME NEW j \in 1..(n + 1) PROVE \E k \in 1..(m + 1) : next[j] = list[k]
    <3>1. CASE j \in 1..n
      <4>1. PICK k \in 1..m : kept[j] = list[k]
        BY <3>1, <1>1 DEF KeptOf
      <4> QED
        BY <4>1, <3>1, <2>2, <1>2
    <3>2. CASE j = n + 1
      <4>1. m + 1 \in 1..(m + 1)
        BY <1>2
      <4> QED
        BY <4>1, <3>2, <2>2, <1>1
    <3>3. j \in 1..n \/ j = n + 1
      BY <1>3
    <3> QED
      BY <3>1, <3>2, <3>3
  <2>4. ASSUME NEW k \in 1..(m + 1) PROVE \E j \in 1..(n + 1) : next[j] = list[k]
    <3>1. CASE k \in 1..m
      <4>1. PICK j \in 1..n : kept[j] = list[k]
        BY <3>1, <1>1 DEF KeptOf
      <4> QED
        BY <4>1, <2>2, <1>3
    <3>2. CASE k = m + 1
      <4>1. n + 1 \in 1..(n + 1)
        BY <1>3
      <4> QED
        BY <4>1, <3>2, <2>2, <1>1
    <3> QED
      BY <3>1, <3>2, <1>2
  <2>5. ASSUME Sorted(list), NEW j \in 1..(n + 1), NEW k \in 1..(n + 1), j < k
        PROVE  next[j] < next[k]
    <3>1. \A a, b \in 1..n : a < b => kept[a] < kept[b]
      BY <2>5, <1>1 DEF KeptOf
    <3>2. j \in 1..n
      BY <2>5, <1>3
    <3>3. CASE k \in 1..n
      BY <3>1, <3>2, <3>3, <2>2, <2>5
    <3>4. CASE k = n + 1
      <4>1. n \in 1..n /\ m # 0 /\ m \in 1..Len(list)
        <5>1. kept # <<>>
          BY <3>2, <1>1, EmptySeq
        <5> QED
          BY <5>1, <3>2, <1>2, <1>3 DEF KeptOf
      <4>2. kept[n] = list[m] /\ kept[n] # p /\ kept # <<>>
        BY <4>1, <1>1, <1>5 DEF KeptOf, Repeats
      <4>3. list[m] <= p
        BY <4>1, <1>1, <1>2, <2>5 DEF Sorted
      <4>4. kept[j] <= kept[n]
        BY <4>1, <3>1, <3>2, <1>3, SMTT(30)
      <4>5. kept[n] < p /\ kept[j] \in Nat /\ kept[n] \in Nat
        BY <4>1, <4>2, <4>3, <3>2, <1>2, <1>3, SMTT(30)
      <4> QED
        BY <4>4, <4>5, <3>2, <3>4, <2>2, <1>2
    <3> QED
      BY <3>3, <3>4, <1>3
  <2>6. m + 1 # 0
    BY <1>2
  <2>7. next[Len(next)] = list[m + 1]
    BY <2>2, <1>1
  <2>8. KeptOf(next, m + 1, list)
    BY <2>2, <2>3, <2>4, <2>5, <2>6, <2>7 DEF KeptOf
  <2> QED
    BY <2>2, <2>8, <1>1
<1> QED
  BY <1>1, <1>4, <1>5

\* diffPgno, for every list of page numbers.
LEMMA DiffFacts ==
  ASSUME NEW list \in Seq(Nat)
  PROVE  KeptOf(diffPgno(list), Len(list), list) /\ Len(list) \in Nat
<1>1. PICK n : n = Len(list) /\ n \in Nat
  BY LenProperties
<1>2. PICK f : KeepsUpTo(f, n, list) /\ diffPgno(list) = f[n]
  BY <1>1, DiffIsKept
<1> DEFINE T == {k \in 0..n : KeptOf(f[k], k, list)}
<1>3. 0 \in T
  <2>1. f[0] = <<>>
    BY <1>1, <1>2 DEF KeepsUpTo
  <2>2. KeptOf(<<>>, 0, list)
    BY EmptySeq DEF KeptOf
  <2> QED
    BY <2>1, <2>2, <1>1
<1>4. ASSUME NEW m \in 0..(n - 1), m \in T PROVE m + 1 \in T
  <2>1. f[m + 1] = KeepOne(f[m], list[m + 1])
    <3>1. m + 1 \in 0..n /\ m + 1 # 0 /\ (m + 1) - 1 = m
      BY <1>1
    <3> QED
      BY <3>1, <1>2 DEF KeepsUpTo
  <2>2. KeptOf(KeepOne(f[m], list[m + 1]), m + 1, list)
    BY <1>1, <1>4, KeptStep
  <2>3. m + 1 \in 0..n
    BY <1>1
  <2> QED
    BY <2>1, <2>2, <2>3
<1>5. n \in T
  <2> HIDE DEF T
  <2>1. \A k \in 0..n : k \in T
    BY <1>1, <1>3, <1>4, UpTo
  <2> QED
    BY <2>1, <1>1
<1> QED
  BY <1>1, <1>2, <1>5

-----------------------------------------------------------------------------
(* What selectHash concludes *)

IsSeq(s) == \E S : s \in Seq(S)

LEMMA AppendAny ==
  ASSUME NEW s, IsSeq(s), NEW e
  PROVE  /\ IsSeq(Append(s, e)) /\ Len(s) \in Nat /\ Len(Append(s, e)) = Len(s) + 1
         /\ Append(s, e)[Len(s) + 1] = e /\ \A k \in 1..Len(s) : Append(s, e)[k] = s[k]
<1>1. PICK S : s \in Seq(S)
  BY DEF IsSeq
<1>2. PICK T : T = S \cup {e}
  OBVIOUS
<1>3. s \in Seq(T) /\ e \in T /\ Len(s) \in Nat
  <2>1. Len(s) \in Nat /\ \A k \in 1..Len(s) : s[k] \in T
    BY <1>1, <1>2, LenProperties, ElementOfSeq
  <2> QED
    BY <2>1, <1>1, <1>2
<1> QED
  BY <1>2, <1>3, AppendProperties DEF IsSeq

\* One verdict is right about the tree and its contents.
Right(v) ==
  LET at == {x \in 1..Len(leaves) : PageNo(leaves[x]) = v.page}
  IN  v.equal # "unread" =>
        /\ v.found <=> at # {}
        /\ \A x \in at : v.equal = "yes" <=> DbHash(v.page) = contents[x]

VerdictInv == IsSeq(verdicts) /\ VerdictsFollowContents

\* Page numbers in order and in range ascend however they are compared.
LEMMA SearchableAscends ==
  ASSUME SearchInv, TypeOK, Searchable
  PROVE  Ascending /\ \A x \in 1..Len(leaves) : Seen(PageNo(leaves[x])) = PageNo(leaves[x])
<1>1. \A x \in 1..Len(leaves) : PageNo(leaves[x]) >= 0 /\ PageNo(leaves[x]) \in Int
  BY FieldTypes, ElementOfSeq DEF TypeOK, Searchable, InRange
<1>2. \A x \in 1..Len(leaves) : Seen(PageNo(leaves[x])) = PageNo(leaves[x])
  BY <1>1 DEF Seen, AsUnsigned
<1>3. \A j, k \in 1..Len(leaves) : j < k => PageNo(leaves[j]) < PageNo(leaves[k])
  BY DEF SearchInv, PagesIncrease, Searchable
<1> QED
  BY <1>2, <1>3 DEF Ascending

\* What getMHash found is the page's leaf if the tree has one.
LEMMA NewVerdict ==
  ASSUME TreeInv, DescentInv, LeafInv, Searchable, GetReturns
  PROVE  \E v : verdicts' = Append(verdicts, v) /\ Right(v)
<1>1. /\ apc = "get" /\ ~Inner(temp)
      /\ mhash' = (IF AsUnsigned(PageNo(temp)) = pgno THEN m_hash[temp] ELSE mhash)
  BY DEF GetReturns, Go, AtLeaf, GetHasPage, Inner, LevelOf
<1>2. PICK v : v = [page |-> pgno, found |-> AsUnsigned(PageNo(temp)) = pgno,
                    equal |-> IF DbHash(pgno) = mhash' THEN "yes" ELSE "no"]
  OBVIOUS
<1>3. verdicts' = Append(verdicts, v)
  BY <1>2 DEF GetReturns, GetHasPage, compare_two_hashes
<1>4. PICK at : at = {x \in 1..Len(leaves) : PageNo(leaves[x]) = pgno}
  OBVIOUS
<1>5. /\ temp \in Nodes /\ lo(temp) = hi(temp) /\ lo(temp) \in 1..Len(leaves)
      /\ leaves[lo(temp)] = temp /\ AsUnsigned(PageNo(temp)) = PageNo(temp)
  BY <1>1, LeafAt DEF DescentInv
<1>6. ASSUME NEW x \in at PROVE x = lo(temp) /\ PageNo(temp) = pgno
  <2>1. x \in 1..Len(leaves) /\ PageNo(leaves[x]) = pgno
    BY <1>4
  <2>2. lo(temp) <= x /\ x <= hi(temp)
    <3>1. Ascending /\ Seen(PageNo(leaves[x])) = PageNo(leaves[x])
      BY <2>1, SearchableAscends DEF TreeInv, IInv
    <3> QED
      BY <2>1, <1>1, <3>1 DEF DescentInv, DescentKeepsPage
  <2>3. x = lo(temp)
    <3>1. lo(temp) \in Int /\ x \in Int
      BY <2>1, <1>5
    <3> QED
      BY <3>1, <2>2, <1>5
  <2> QED
    BY <2>1, <2>3, <1>5
<1>7. PageNo(temp) = pgno => lo(temp) \in at
  BY <1>4, <1>5
<1>8. v.found <=> at # {}
  BY <1>2, <1>5, <1>6, <1>7
<1>9. ASSUME NEW x \in at PROVE v.equal = "yes" <=> DbHash(pgno) = contents[x]
  <2>1. x = lo(temp) /\ PageNo(temp) = pgno
    BY <1>6, <1>9
  <2>2. m_hash[leaves[x]] = contents[x]
    BY <2>1, <1>1, <1>5 DEF LeafInv, LeavesHoldContents
  <2>3. mhash' = contents[x]
    BY <2>1, <2>2, <1>1, <1>5
  <2> QED
    BY <2>3, <1>2
<1>10. Right(v)
  BY <1>2, <1>4, <1>8, <1>9 DEF Right
<1> QED
  BY <1>3, <1>10

\* The steps that end in selectHash or getMHash.
LEMMA SelectSteps ==
  ASSUME AccessStep \/ UNCHANGED vars, apc' \in {"select", "get"}
  PROVE  CallSelectHash \/ PageUnreadable \/ CallGetMHash \/ GetDescend \/ GetReturns \/ UNCHANGED vars
BY DEF AccessStep, Climb, ReadStep, EnterDriver, SelectHashReturns, CallUpdateTime, UpdateTimeReturns,
   CallUpdateMTree, UpdateDescend, UpdateNotFound, UpdateFound, UpdateReturns,
   DereferenceNullRoot, SelectHashExits, UpdateOverruns, MainReturns, Begin, Go

LEMMA VerdictStep ==
  ASSUME TreeInv, DescentInv, LeafInv, VerdictInv, [BuildPhase \/ AccessStep]_vars
  PROVE  VerdictInv'
<1>1. IsSeq(verdicts)
  BY DEF VerdictInv
<1>2. CASE apc' \notin {"select", "get"}
  <2>1. verdicts' = verdicts
    BY <1>2 DEF BuildPhase, accessVars, AccessStep, Climb, ReadStep, EnterDriver, CallSelectHash,
       SelectHashReturns, PageUnreadable, CallGetMHash, GetDescend, GetReturns, CallUpdateTime,
       UpdateTimeReturns, CallUpdateMTree, UpdateDescend, UpdateNotFound, UpdateFound,
       UpdateReturns,
       DereferenceNullRoot, SelectHashExits, UpdateOverruns, MainReturns, Begin, Go, selectVars, vars
  <2> QED
    BY <2>1, <1>1, <1>2 DEF VerdictInv, VerdictsFollowContents
<1>3. CASE apc' \in {"select", "get"}
  <2>1. /\ AccessStep \/ UNCHANGED vars
        /\ leaves' = leaves /\ heap' = heap /\ Searchable' = Searchable
    BY <1>3, FixedStep DEF Searchable, Built, Ordered, InRange, PageNo
  <2>2. contents' = contents
    BY <1>3, <2>1, SelectSteps DEF CallSelectHash, PageUnreadable, CallGetMHash, GetDescend,
       GetReturns, updateVars, vars, accessVars
  <2>3. \A v : Right(v)' = Right(v)
    BY <2>1, <2>2 DEF Right, PageNo
  <2>4. ASSUME Searchable, apc \in {"select", "get"}
        PROVE  \A k \in 1..Len(verdicts) : Right(verdicts[k])
    BY <2>4 DEF VerdictInv, VerdictsFollowContents, Right
  <2> SUFFICES IsSeq(verdicts') /\ (Searchable => \A k \in 1..Len(verdicts') : Right(verdicts'[k]))
    BY <1>3, <2>1, <2>2 DEF VerdictInv, VerdictsFollowContents, Right, PageNo
  <2>5. CASE CallSelectHash
    <3>1. verdicts' = <<>>
      BY <2>5 DEF CallSelectHash
    <3>2. IsSeq(verdicts') /\ 1..Len(verdicts') = {}
      BY <3>1, EmptySeq DEF IsSeq
    <3> QED
      BY <3>2
  <2>6. CASE PageUnreadable
    <3>1. PICK v : v = [page |-> Head(pages), found |-> FALSE, equal |-> "unread"]
      OBVIOUS
    <3>2. verdicts' = Append(verdicts, v) /\ apc = "select" /\ Right(v)
      BY <2>6, <3>1 DEF PageUnreadable, Right
    <3>3. /\ IsSeq(verdicts') /\ Len(verdicts) \in Nat /\ Len(verdicts') = Len(verdicts) + 1
          /\ verdicts'[Len(verdicts) + 1] = v /\ \A k \in 1..Len(verdicts) : verdicts'[k] = verdicts[k]
      BY <1>1, <3>2, AppendAny
    <3> QED
      BY <3>2, <3>3, <2>4
  <2>7. CASE GetReturns
    <3>1. apc = "get" /\ \E v : verdicts' = Append(verdicts, v) /\ (Searchable => Right(v))
      <4>1. CASE Searchable
        BY <4>1, <2>7, NewVerdict DEF GetReturns
      <4>2. CASE ~Searchable
        BY <4>2, <2>7 DEF GetReturns
      <4> QED
        BY <4>1, <4>2
    <3>2. PICK v : verdicts' = Append(verdicts, v) /\ (Searchable => Right(v))
      BY <3>1
    <3>3. /\ IsSeq(verdicts') /\ Len(verdicts) \in Nat /\ Len(verdicts') = Len(verdicts) + 1
          /\ verdicts'[Len(verdicts) + 1] = v /\ \A k \in 1..Len(verdicts) : verdicts'[k] = verdicts[k]
      BY <1>1, <3>2, AppendAny
    <3> QED
      BY <3>1, <3>2, <3>3, <2>4
  <2>8. CASE CallGetMHash \/ GetDescend
    <3>1. verdicts' = verdicts /\ apc \in {"select", "get"}
      BY <2>8 DEF CallGetMHash, GetDescend, selectVars
    <3> QED
      BY <3>1, <1>1, <2>4
  <2>9. CASE UNCHANGED vars
    <3>1. verdicts' = verdicts /\ apc' = apc
      BY <2>9 DEF vars, accessVars, selectVars
    <3> QED
      BY <3>1, <1>1, <1>3, <2>4
  <2> QED
    BY <1>3, <2>1, <2>5, <2>6, <2>7, <2>8, <2>9, SelectSteps
<1> QED
  BY <1>2, <1>3

LEMMA VerdictsAreKept == AccessSpec => []VerdictInv
<1>1. Init /\ AccessInit => VerdictInv
  BY EmptySeq DEF AccessInit, VerdictInv, VerdictsFollowContents, IsSeq
<1>2. TreeInv /\ DescentInv /\ LeafInv /\ VerdictInv /\ [BuildPhase \/ AccessStep]_vars => VerdictInv'
  BY VerdictStep
<1> QED
  BY <1>1, <1>2, TreeIsFixed, DescentIsKept, LeavesAreKept, PTL DEF AccessSpec

\* On a tree of any size, and whatever updates came before, selectHash finds a page
\* exactly if the tree has a leaf of it and accepts it exactly if the database's
\* hash is the one last stored for that page.
THEOREM VerdictsAreRight == AccessSpec => []VerdictsFollowContents
<1>1. VerdictInv => VerdictsFollowContents
  BY DEF VerdictInv
<1> QED
  BY <1>1, VerdictsAreKept, PTL

-----------------------------------------------------------------------------
(* Types *)

\* What AccessTypeOK needs besides: main has not begun a descent.
TypesInv == AccessTypeOK /\ (apc = "main" => nodeList = <<>> /\ temp = NULL)

LEMMA ControlTypes ==
  ASSUME AccessTypeOK, ReadStep \/ Climb
  PROVE  /\ apc' \in {"main", "ready", "select", "get", "update", "descend", "climb", "crash",
                      "exited", "returned"}
         /\ calls' \in 0..MaxCalls /\ todo' \in 0..MaxUpdates
<1>1. apc' \in {"main", "ready", "select", "get", "update", "descend", "climb", "crash", "exited",
               "returned"}
  BY DEF AccessTypeOK, ReadStep, Climb, EnterDriver, CallSelectHash, SelectHashReturns,
     PageUnreadable, CallGetMHash, GetDescend, GetReturns, CallUpdateTime, UpdateTimeReturns,
     CallUpdateMTree, UpdateDescend, UpdateNotFound, UpdateFound, UpdateReturns,
     DereferenceNullRoot, SelectHashExits, UpdateOverruns, MainReturns, Begin, Go
<1>2. calls' \in 0..MaxCalls
  <2>1. calls' = calls \/ (calls < MaxCalls /\ calls' = calls + 1)
    BY DEF ReadStep, Climb, EnterDriver, CallSelectHash, SelectHashReturns,
       PageUnreadable, CallGetMHash, GetDescend, GetReturns, CallUpdateTime, UpdateTimeReturns,
       CallUpdateMTree, UpdateDescend, UpdateNotFound, UpdateFound, UpdateReturns,
       DereferenceNullRoot, SelectHashExits, UpdateOverruns, MainReturns, Begin, Go
  <2> QED
    BY <2>1, AccessAssumption DEF AccessTypeOK
<1>3. todo' \in 0..MaxUpdates
  <2>1. todo' = todo \/ todo' \in 1..MaxUpdates \/ (todo > 0 /\ todo' = todo - 1)
    BY DEF ReadStep, Climb, EnterDriver, CallSelectHash, SelectHashReturns,
       PageUnreadable, CallGetMHash, GetDescend, GetReturns, CallUpdateTime, UpdateTimeReturns,
       CallUpdateMTree, UpdateDescend, UpdateNotFound, UpdateFound, UpdateReturns,
       DereferenceNullRoot, SelectHashExits, UpdateOverruns, MainReturns, updateVars
  <2> QED
    BY <2>1, AccessAssumption DEF AccessTypeOK
<1> QED
  BY <1>1, <1>2, <1>3

LEMMA PageTypes ==
  ASSUME AccessTypeOK, ReadStep \/ Climb
  PROVE  pages' \in Seq(Nat) /\ request' \in Seq(Nat) /\ pgno' \in Nat
<1>1. CASE CallSelectHash
  <2>1. PICK list \in SelectLists : request' = list /\ pages' = diffPgno(list)
    BY <1>1 DEF CallSelectHash
  <2>2. list \in Seq(Nat)
    BY AccessAssumption
  <2>3. diffPgno(list) \in Seq(Nat)
    BY <2>2, DiffFacts DEF KeptOf
  <2> QED
    BY <2>1, <2>2, <2>3, <1>1 DEF AccessTypeOK, CallSelectHash, searchVars
<1>2. CASE PageUnreadable \/ CallGetMHash
  <2>1. pages # <<>> /\ pages' = Tail(pages) /\ request' = request /\ pgno' \in {pgno, Head(pages)}
    BY <1>2 DEF PageUnreadable, CallGetMHash, searchVars
  <2>2. pages \in Seq(Nat) /\ pages[1] \in Nat /\ Tail(pages) \in Seq(Nat)
    BY <2>1, HeadTailProperties, EmptySeq, ElementOfSeq DEF AccessTypeOK
  <2> QED
    BY <2>1, <2>2, HeadTailProperties DEF AccessTypeOK
<1>3. CASE ~CallSelectHash /\ ~PageUnreadable /\ ~CallGetMHash
  <2>1. pages' = pages /\ request' = request /\ (pgno' = pgno \/ pgno' \in PagesDrawn)
    BY <1>3 DEF ReadStep, Climb, EnterDriver, SelectHashReturns,
       GetDescend, GetReturns, CallUpdateTime, UpdateTimeReturns,
       CallUpdateMTree, UpdateDescend, UpdateNotFound, UpdateFound, UpdateReturns,
       DereferenceNullRoot, SelectHashExits, UpdateOverruns, MainReturns, selectVars, searchVars
  <2> QED
    BY <2>1, AccessAssumption DEF AccessTypeOK
<1> QED
  BY <1>1, <1>2, <1>3

LEMMA NodeTypes ==
  ASSUME TreeInv, StackInv, AccessTypeOK, ReadStep \/ Climb
  PROVE  /\ temp' \in Nodes \cup {NULL} /\ (apc' \in {"get", "descend"} => temp' # NULL)
         /\ nodeList' \in Seq(Nodes)
<1>1. NULL \notin Nodes /\ IInv /\ NodeShape /\ TypeOK
  BY DEF Nodes, NULL, TreeInv, IInv
<1>2. CASE CallGetMHash \/ CallUpdateMTree
  <2>1. temp' = pmhtroot /\ nodeList' \in {nodeList, <<pmhtroot>>} /\ pmhtroot \in Nodes
    BY <1>2, RootSpans DEF CallGetMHash, CallUpdateMTree, updateVars
  <2>2. <<pmhtroot>> \in Seq(Nodes)
    BY <2>1
  <2> QED
    BY <2>1, <2>2, <1>1 DEF AccessTypeOK
<1>3. CASE GetDescend \/ UpdateDescend
  <2>1. /\ temp \in Nodes /\ Inner(temp) /\ temp' \in {lchild(temp), rchild(temp)}
        /\ nodeList' = nodeList \/ nodeList' = Append(nodeList, temp')
    BY <1>3 DEF AccessTypeOK, GetDescend, UpdateDescend, GetChild, Push, AtLeaf, Inner, LevelOf, updateVars
  <2>2. temp' \in Nodes
    BY <2>1, <1>1, ChildrenAreOlder
  <2>3. nodeList' \in Seq(Nodes)
    <3>1. nodeList \in Seq(Nodes)
      BY DEF AccessTypeOK
    <3>2. Append(nodeList, temp') \in Seq(Nodes)
      BY <2>2, <3>1, AppendProperties
    <3> QED
      BY <2>1, <3>1, <3>2
  <2> QED
    BY <2>2, <2>3, <1>1
<1>4. CASE Climb
  <2>1. /\ nodeList # <<>> /\ temp' = nodeList[Len(nodeList)] /\ apc' = "climb"
        /\ nodeList' = SubSeq(nodeList, 1, Len(nodeList) - 1) /\ nodeList \in Seq(Nodes)
    BY <1>4 DEF Climb, OnPath, Go, AccessTypeOK
  <2>2. temp' \in Nodes
    BY <1>4, <2>1, ClimbStep
  <2>3. nodeList' \in Seq(Nodes)
    BY <2>1, PathPopped
  <2> QED
    BY <2>1, <2>2, <2>3
<1>5. CASE ReadStep /\ ~CallGetMHash /\ ~CallUpdateMTree /\ ~GetDescend /\ ~UpdateDescend
  <2>1. temp' = temp /\ nodeList' = nodeList /\ apc' \notin {"get", "descend"}
    BY <1>5 DEF ReadStep, EnterDriver, CallSelectHash, SelectHashReturns, PageUnreadable,
       GetReturns, CallUpdateTime, UpdateTimeReturns, UpdateNotFound, UpdateFound, UpdateReturns,
       DereferenceNullRoot, SelectHashExits, UpdateOverruns, MainReturns, searchVars, updateVars, Begin, Go
  <2> QED
    BY <2>1 DEF AccessTypeOK
<1> QED
  BY <1>2, <1>3, <1>4, <1>5

\* found is a truth value in every verdict.
LEMMA FoundTypes ==
  ASSUME AccessTypeOK, IsSeq(verdicts), ReadStep \/ Climb
  PROVE  \A k \in 1..Len(verdicts') : verdicts'[k].found \in BOOLEAN
<1>1. \A k \in 1..Len(verdicts) : verdicts[k].found \in BOOLEAN
  BY DEF AccessTypeOK
<1>2. CASE CallSelectHash
  <2>1. verdicts' = <<>> /\ 1..Len(<<>>) = {}
    BY <1>2, EmptySeq DEF CallSelectHash
  <2> QED
    BY <2>1
<1>3. CASE PageUnreadable \/ GetReturns
  <2>1. PICK v : verdicts' = Append(verdicts, v) /\ v.found \in BOOLEAN
    <3>1. CASE PageUnreadable
      <4>1. [page |-> Head(pages), found |-> FALSE, equal |-> "unread"].found \in BOOLEAN
        OBVIOUS
      <4> QED
        BY <3>1, <4>1 DEF PageUnreadable
    <3>2. CASE GetReturns
      <4>1. PICK e : e = IF compare_two_hashes(DbHash(pgno), mhash') THEN "yes" ELSE "no"
        OBVIOUS
      <4>2. [page |-> pgno, found |-> GetHasPage, equal |-> e].found \in BOOLEAN
        BY DEF GetHasPage
      <4> QED
        BY <3>2, <4>1, <4>2 DEF GetReturns
    <3> QED
      BY <1>3, <3>1, <3>2
  <2>2. /\ Len(verdicts) \in Nat /\ Len(verdicts') = Len(verdicts) + 1
        /\ verdicts'[Len(verdicts) + 1] = v /\ \A k \in 1..Len(verdicts) : verdicts'[k] = verdicts[k]
    BY <2>1, AppendAny
  <2> QED
    BY <2>1, <2>2, <1>1
<1>4. CASE ~CallSelectHash /\ ~PageUnreadable /\ ~GetReturns
  <2>1. verdicts' = verdicts
    BY <1>4 DEF ReadStep, Climb, EnterDriver, SelectHashReturns, CallGetMHash, GetDescend,
       CallUpdateTime, UpdateTimeReturns, CallUpdateMTree, UpdateDescend, UpdateNotFound,
       UpdateFound, UpdateReturns,
       DereferenceNullRoot, SelectHashExits, UpdateOverruns, MainReturns, selectVars
  <2> QED
    BY <2>1, <1>1
<1> QED
  BY <1>2, <1>3, <1>4

LEMMA TypesStep ==
  ASSUME TreeInv, StackInv, VerdictInv, TypesInv, [BuildPhase \/ AccessStep]_vars, TreeInv'
  PROVE  TypesInv'
<1>1. DOMAIN m_hash' = Nodes'
  BY DEF TreeInv, IInv, TypeOK
<1>2. CASE apc' = "main"
  <2>1. apc = "main" /\ UNCHANGED accessVars
    <3>1. CASE BuildPhase
      BY <3>1, <1>2 DEF BuildPhase, accessVars
    <3>2. CASE AccessStep
      BY <3>2, <1>2 DEF AccessStep, ReadStep, Climb, EnterDriver, CallSelectHash, SelectHashReturns,
         PageUnreadable, CallGetMHash, GetDescend, GetReturns, CallUpdateTime, UpdateTimeReturns,
         CallUpdateMTree, UpdateDescend, UpdateNotFound, UpdateFound, UpdateReturns,
         DereferenceNullRoot, SelectHashExits, UpdateOverruns, MainReturns, Begin, Go
    <3>3. CASE UNCHANGED vars
      BY <3>3, <1>2 DEF vars, accessVars
    <3> QED
      BY <3>1, <3>2, <3>3
  <2>2. /\ calls' = calls /\ pages' = pages /\ request' = request /\ todo' = todo /\ pgno' = pgno
        /\ temp' = temp /\ nodeList' = nodeList /\ verdicts' = verdicts
    BY <2>1 DEF accessVars, selectVars, searchVars, updateVars
  <2>3. nodeList = <<>> /\ temp = NULL /\ <<>> \in Seq(Nodes')
    BY <2>1, EmptySeq DEF TypesInv
  <2> QED
    BY <1>1, <1>2, <2>2, <2>3 DEF TypesInv, AccessTypeOK
<1>3. CASE apc' # "main"
  <2>1. (AccessStep \/ UNCHANGED vars) /\ heap' = heap
    BY <1>3, FixedStep
  <2>2. Nodes' = Nodes
    BY <2>1 DEF Nodes
  <2>3. CASE AccessStep
    <3>1. (ReadStep \/ Climb) /\ AccessTypeOK /\ IsSeq(verdicts)
      BY <2>3 DEF AccessStep, TypesInv, VerdictInv
    <3> QED
      BY <3>1, <1>1, <1>3, <2>2, ControlTypes, PageTypes, NodeTypes, FoundTypes DEF TypesInv, AccessTypeOK
  <2>4. CASE UNCHANGED vars
    BY <2>4, <1>3, <1>1, <2>2 DEF vars, accessVars, selectVars, searchVars, updateVars, TypesInv, AccessTypeOK
  <2> QED
    BY <2>1, <2>3, <2>4
<1> QED
  BY <1>2, <1>3

LEMMA TypesInit == Init /\ AccessInit => TypesInv
<1> SUFFICES ASSUME Init, AccessInit PROVE TypesInv
  OBVIOUS
<1>1. DOMAIN m_hash = Nodes
  BY InitIInv DEF IInv, TypeOK
<1>2. <<>> \in Seq(Nodes) /\ <<>> \in Seq(Nat) /\ 1..Len(<<>>) = {}
  BY EmptySeq
<1> QED
  BY <1>1, <1>2, AccessAssumption DEF AccessInit, TypesInv, AccessTypeOK

LEMMA TypesAreKept == AccessSpec => []TypesInv
<1>1. Init /\ AccessInit => TypesInv
  BY TypesInit
<1>2. TreeInv /\ StackInv /\ VerdictInv /\ TypesInv /\ TreeInv' /\ [BuildPhase \/ AccessStep]_vars => TypesInv'
  BY TypesStep
<1> QED
  BY <1>1, <1>2, TreeIsFixed, StackIsKept, VerdictsAreKept, PTL DEF AccessSpec

\* The driver's variables have their types: what diffPgno hands to the descents is
\* a list of page numbers, and both descents are at a node whenever they read one.
THEOREM DriverTypes == AccessSpec => []AccessTypeOK
<1>1. TypesInv => AccessTypeOK
  BY DEF TypesInv
<1> QED
  BY <1>1, TypesAreKept, PTL

-----------------------------------------------------------------------------
(* Which pages selectHash looks at *)

\* How far selectHash has come in the list d that diffPgno made: the verdicts, the
\* page at hand and the pages left are d, in that order.
AtHand == IF apc = "get" THEN 1 ELSE 0
Progress(d) ==
  /\ Len(d) = Len(verdicts) + AtHand + Len(pages)
  /\ \A k \in 1..Len(verdicts) : verdicts[k].page = d[k]
  /\ apc = "get" => pgno = d[Len(verdicts) + 1]
  /\ \A k \in 1..Len(pages) : pages[k] = d[Len(verdicts) + AtHand + k]
  /\ apc \notin {"select", "get", "crash"} => pages = <<>>
ProgressInv == Progress(diffPgno(request))

LEMMA PageTaken ==
  ASSUME pages \in Seq(Nat), pages # <<>>
  PROVE  /\ Len(pages) \in Nat /\ 1 \in 1..Len(pages) /\ Head(pages) = pages[1]
         /\ Len(Tail(pages)) = Len(pages) - 1
         /\ \A k \in 1..(Len(pages) - 1) : Tail(pages)[k] = pages[k + 1]
<1>1. Len(pages) \in Nat
  BY LenProperties
<1>2. Len(pages) # 0
  BY EmptySeq
<1> QED
  BY <1>1, <1>2, HeadTailProperties

LEMMA ProgressStep ==
  ASSUME AccessTypeOK, IsSeq(verdicts), ProgressInv, ReadStep \/ Climb
  PROVE  ProgressInv'
<1>1. PICK d : d = diffPgno(request) /\ Progress(d)
  BY DEF ProgressInv
<1>2. PICK n, s : n = Len(verdicts) /\ s = Len(pages)
  OBVIOUS
<1>3. n \in Nat /\ s \in Nat /\ pages \in Seq(Nat)
  BY <1>2, LenProperties DEF IsSeq, AccessTypeOK
<1>4. CASE CallSelectHash
  <2>1. /\ verdicts' = <<>> /\ pages' = diffPgno(request') /\ apc' = "select"
        /\ Len(<<>>) = 0 /\ 1..0 = {}
    BY <1>4, EmptySeq DEF CallSelectHash, Begin
  <2>2. PICK e : e = diffPgno(request')
    OBVIOUS
  <2>3. Len(e) \in Nat
    <3>1. e = pages' /\ pages' \in Seq(Nat)
      BY <2>1, <2>2, PageTypes
    <3> QED
      BY <3>1, LenProperties
  <2>4. Progress(e)'
    BY <2>1, <2>2, <2>3 DEF Progress, AtHand
  <2> QED
    BY <2>2, <2>4 DEF ProgressInv
<1>5. CASE PageUnreadable \/ GetReturns
  <2>1. PICK v : /\ verdicts' = Append(verdicts, v) /\ apc' = "select" /\ request' = request
                 /\ IF apc = "get" THEN v.page = pgno /\ pages' = pages
                    ELSE v.page = Head(pages) /\ pages' = Tail(pages) /\ pages # <<>>
    <3>1. CASE PageUnreadable
      <4>1. PICK v : v = [page |-> Head(pages), found |-> FALSE, equal |-> "unread"]
        OBVIOUS
      <4> QED
        BY <3>1, <4>1 DEF PageUnreadable, Go
    <3>2. CASE GetReturns
      <4>1. PICK v : v = [page |-> pgno, found |-> GetHasPage,
                          equal |-> IF compare_two_hashes(DbHash(pgno), mhash') THEN "yes" ELSE "no"]
        OBVIOUS
      <4> QED
        BY <3>2, <4>1 DEF GetReturns, Go
    <3> QED
      BY <1>5, <3>1, <3>2
  <2>2. /\ Len(verdicts') = n + 1 /\ verdicts'[n + 1] = v
        /\ \A k \in 1..n : verdicts'[k] = verdicts[k]
    BY <1>2, <2>1, AppendAny
  <2>3. v.page = d[n + 1]
    BY <2>1, <1>1, <1>2, <1>3, PageTaken DEF Progress, AtHand
  <2>4. \A k \in 1..(n + 1) : verdicts'[k].page = d[k]
    <3>1. \A k \in 1..n : verdicts[k].page = d[k]
      BY <1>1, <1>2 DEF Progress
    <3> QED
      BY <3>1, <2>2, <2>3, <1>3
  <2>5. /\ Len(d) = n + 1 + Len(pages') /\ \A k \in 1..Len(pages') : pages'[k] = d[n + 1 + k]
    <3>1. CASE apc = "get"
      BY <3>1, <2>1, <1>1, <1>2, <1>3 DEF Progress, AtHand
    <3>2. CASE apc # "get"
      <4>1. /\ Len(d) = n + s /\ \A k \in 1..s : pages[k] = d[n + k]
        BY <3>2, <1>1, <1>2, <1>3 DEF Progress, AtHand
      <4>2. Len(pages') = s - 1 /\ \A k \in 1..(s - 1) : pages'[k] = pages[k + 1]
        BY <3>2, <2>1, <1>2, <1>3, PageTaken
      <4>3. ASSUME NEW k \in 1..(s - 1) PROVE pages'[k] = d[n + 1 + k]
        <5>1. k + 1 \in 1..s /\ n + (k + 1) = n + 1 + k
          BY <1>3
        <5>2. pages[k + 1] = d[n + (k + 1)]
          BY <5>1, <4>1
        <5> QED
          BY <4>2, <5>1, <5>2
      <4>4. Len(d) = n + 1 + Len(pages')
        BY <4>1, <4>2, <1>3
      <4> QED
        BY <4>2, <4>3, <4>4
    <3> QED
      BY <3>1, <3>2
  <2>6. Len(pages') \in Nat
    BY <2>1, <1>2, <1>3, PageTaken
  <2>7. Progress(d)'
    BY <2>1, <2>2, <2>4, <2>5, <2>6, <1>3 DEF Progress, AtHand
  <2> QED
    BY <1>1, <2>1, <2>7 DEF ProgressInv
<1>6. CASE CallGetMHash
  <2>1. /\ apc = "select" /\ pages # <<>> /\ apc' = "get" /\ verdicts' = verdicts
        /\ pgno' = Head(pages) /\ pages' = Tail(pages) /\ request' = request
    BY <1>6 DEF CallGetMHash, Go
  <2>2. Len(d) = n + s /\ \A k \in 1..s : pages[k] = d[n + k]
    BY <2>1, <1>1, <1>2, <1>3 DEF Progress, AtHand
  <2>3. /\ s \in Nat /\ 1 \in 1..s /\ pgno' = pages[1] /\ Len(pages') = s - 1
        /\ \A k \in 1..(s - 1) : pages'[k] = pages[k + 1]
    BY <2>1, <1>2, <1>3, PageTaken
  <2>4. pgno' = d[n + 1]
    BY <2>2, <2>3
  <2>5. ASSUME NEW k \in 1..(s - 1) PROVE pages'[k] = d[n + 1 + k]
    <3>1. k + 1 \in 1..s /\ n + (k + 1) = n + 1 + k
      BY <1>3
    <3>2. pages[k + 1] = d[n + (k + 1)]
      BY <3>1, <2>2
    <3> QED
      BY <2>3, <3>1, <3>2
  <2>6. Len(d) = n + 1 + (s - 1)
    BY <2>2, <1>3
  <2>7. \A k \in 1..n : verdicts[k].page = d[k]
    BY <1>1, <1>2 DEF Progress
  <2>8. Progress(d)'
    BY <2>1, <2>3, <2>4, <2>5, <2>6, <2>7, <1>2, <1>3 DEF Progress, AtHand
  <2> QED
    BY <1>1, <2>1, <2>8 DEF ProgressInv
<1>7. CASE ~CallSelectHash /\ ~PageUnreadable /\ ~GetReturns /\ ~CallGetMHash
  <2>1. /\ verdicts' = verdicts /\ pages' = pages /\ request' = request
        /\ AtHand' = AtHand
        /\ apc' = "get" => apc = "get" /\ pgno' = pgno
        /\ apc' \in {"select", "get", "crash"} \/ apc \notin {"select", "get", "crash"} \/ pages = <<>>
    BY <1>7 DEF AtHand, ReadStep, Climb, EnterDriver, SelectHashReturns, GetDescend,
       CallUpdateTime, UpdateTimeReturns, CallUpdateMTree, UpdateDescend, UpdateNotFound,
       UpdateFound, UpdateReturns,
       DereferenceNullRoot, SelectHashExits, UpdateOverruns, MainReturns, Begin, Go, selectVars
  <2>2. Progress(d)'
    BY <2>1, <1>1 DEF Progress
  <2> QED
    BY <1>1, <2>1, <2>2 DEF ProgressInv
<1> QED
  BY <1>4, <1>5, <1>6, <1>7

\* What has been looked at when selectHash returned.
LEMMA ProgressGivesEachPage ==
  ASSUME AccessTypeOK, ProgressInv, IsSeq(verdicts)
  PROVE  EachPageOnce
<1> SUFFICES ASSUME apc = "ready", Sorted(request)
             PROVE  /\ \A k \in 1..(Len(verdicts) - 1) : verdicts[k].page < verdicts[k + 1].page
                    /\ {verdicts[k].page : k \in 1..Len(verdicts)} = {request[k] : k \in 1..Len(request)}
  BY DEF EachPageOnce
<1>1. PICK d : d = diffPgno(request) /\ Progress(d)
  BY DEF ProgressInv
<1>2. PICK n, m : n = Len(verdicts) /\ m = Len(request)
  OBVIOUS
<1>3. request \in Seq(Nat) /\ n \in Nat /\ m \in Nat
  BY <1>2, LenProperties DEF AccessTypeOK, IsSeq
<1>4. KeptOf(d, m, request)
  BY <1>1, <1>2, <1>3, DiffFacts
<1>5. Len(d) = n /\ \A k \in 1..n : verdicts[k].page = d[k]
  <2>1. pages = <<>> /\ AtHand = 0
    BY <1>1 DEF Progress, AtHand
  <2> QED
    BY <2>1, <1>1, <1>2, <1>3, EmptySeq DEF Progress
<1>6. ASSUME NEW k \in 1..(n - 1) PROVE verdicts[k].page < verdicts[k + 1].page
  <2>1. k \in 1..n /\ k + 1 \in 1..n /\ k < k + 1
    BY <1>3
  <2>2. \A a, b \in 1..n : a < b => d[a] < d[b]
    BY <1>4, <1>5 DEF KeptOf
  <2> QED
    BY <2>1, <2>2, <1>5
<1>7. {verdicts[k].page : k \in 1..n} = {request[k] : k \in 1..m}
  <2>1. \A j \in 1..n : \E k \in 1..m : d[j] = request[k]
    BY <1>4, <1>5 DEF KeptOf
  <2>2. \A k \in 1..m : \E j \in 1..n : d[j] = request[k]
    BY <1>4, <1>5 DEF KeptOf
  <2>3. \A j \in 1..n : \E k \in 1..m : verdicts[j].page = request[k]
    BY <2>1, <1>5
  <2>4. \A k \in 1..m : \E j \in 1..n : request[k] = verdicts[j].page
    BY <2>2, <1>5
  <2>5. ASSUME NEW x \in {verdicts[k].page : k \in 1..n} PROVE x \in {request[k] : k \in 1..m}
    BY <2>3
  <2>6. ASSUME NEW x \in {request[k] : k \in 1..m} PROVE x \in {verdicts[k].page : k \in 1..n}
    BY <2>4
  <2> QED
    BY <2>5, <2>6
<1> QED
  BY <1>2, <1>6, <1>7

\* For every sorted page list, however often it repeats a page, selectHash looks at
\* each of its pages once and in order.
THEOREM EveryPageIsLookedAt == AccessSpec => []EachPageOnce
<1>1. Init /\ AccessInit => ProgressInv
  <2> SUFFICES ASSUME AccessInit PROVE ProgressInv
    OBVIOUS
  <2>1. /\ verdicts = <<>> /\ pages = <<>> /\ request = <<>> /\ apc = "main"
        /\ <<>> \in Seq(Nat) /\ Len(<<>>) = 0 /\ 1..0 = {}
    BY EmptySeq DEF AccessInit
  <2>2. KeptOf(diffPgno(<<>>), 0, <<>>)
    BY <2>1, DiffFacts
  <2>3. diffPgno(<<>>) = <<>>
    BY <2>2 DEF KeptOf
  <2> QED
    BY <2>1, <2>3 DEF ProgressInv, Progress, AtHand
<1>2. VerdictInv /\ TypesInv /\ ProgressInv /\ [BuildPhase \/ AccessStep]_vars => ProgressInv'
  <2> SUFFICES ASSUME VerdictInv, TypesInv, ProgressInv, [BuildPhase \/ AccessStep]_vars
               PROVE  ProgressInv'
    OBVIOUS
  <2>1. CASE BuildPhase \/ UNCHANGED vars
    <3>1. UNCHANGED accessVars
      BY <2>1 DEF BuildPhase, vars
    <3>2. apc' = apc /\ verdicts' = verdicts /\ pages' = pages /\ request' = request /\ pgno' = pgno
      BY <3>1 DEF accessVars, selectVars, searchVars
    <3> QED
      BY <3>2 DEF ProgressInv, Progress, AtHand
  <2>2. CASE ReadStep \/ Climb
    BY <2>2, ProgressStep DEF TypesInv, VerdictInv
  <2> QED
    BY <2>1, <2>2 DEF AccessStep
<1>3. VerdictInv /\ TypesInv /\ ProgressInv => EachPageOnce
  BY ProgressGivesEachPage DEF VerdictInv, TypesInv
<1> QED
  BY <1>1, <1>2, <1>3, TypesAreKept, VerdictsAreKept, PTL DEF AccessSpec

-----------------------------------------------------------------------------
(* The path fits into nodeList *)

\* What the construction counted stays true of the finished tree.
HeightInv == CountInv /\ (pmhtroot # NULL => pds # NullDs)

LEMMA HeightStep ==
  ASSUME TreeInv, HeightInv, [BuildPhase \/ AccessStep]_vars
  PROVE  HeightInv'
<1>1. CASE BuildPhase
  <2>1. BuildStep /\ apc' = apc
    BY <1>1 DEF BuildPhase, accessVars
  <2>2. pc # "done"
    BY <2>1 DEF BuildStep, RejectNull, InitQueue, FeedLeaf, ScanStop, ScanSkip, ScanMatch,
       WalkRight, Combine, Drain, DrainStop, StartPadding, PadLeaf, LeaveLoops, PaddingDone,
       PopRoot, PopEmpty
  <2>3. [Next]_buildVars /\ IInv /\ OrderInv /\ SearchInv /\ CountInv
    BY <2>1, <2>2 DEF TreeInv, HeightInv, Next
  <2>4. OrderInv' /\ CountInv'
    BY <2>3, OrderStep, CountStep
  <2> QED
    BY <2>4 DEF HeightInv, OrderInv, LeafCount
<1>2. CASE AccessStep \/ UNCHANGED vars
  <2>1. UNCHANGED structureVars
    BY <1>2, DriverSteps
  <2>2. /\ phase' = phase /\ pds' = pds /\ leaves' = leaves /\ qHeaderLevel' = qHeaderLevel
        /\ pmhtroot' = pmhtroot /\ heap' = heap
    BY <2>1 DEF structureVars
  <2>3. Live' = Live /\ tail' = tail /\ LevelOf(tail)' = LevelOf(tail)
    BY <2>2 DEF Live, Nodes, tail, LevelOf, lchild, rchild
  <2> QED
    BY <2>2, <2>3 DEF HeightInv, CountInv
<1> QED
  BY <1>1, <1>2

\* The tree is no higher than its data set needs.
LEMMA HeightIsLeast ==
  ASSUME TreeInv, HeightInv, pmhtroot # NULL
  PROVE  /\ LevelOf(pmhtroot) \in Nat /\ pds.m_size \in Nat
         /\ LevelOf(pmhtroot) > 0 => Pow2[LevelOf(pmhtroot) - 1] < pds.m_size
<1>1. PICK root, size, height : root = pmhtroot /\ size = pds.m_size /\ height = LevelOf(root)
  OBVIOUS
<1>2. /\ root \in Nodes /\ Live = {root} /\ lo(root) = 1 /\ hi(root) = Len(leaves)
      /\ TypeOK /\ pds # NullDs /\ height \in Nat /\ size \in Nat /\ Len(leaves) \in Nat
  <2>1. root \in Nodes /\ Live = {root} /\ lo(root) = 1 /\ hi(root) = Len(leaves) /\ TypeOK
    BY <1>1, RootSpans DEF TreeInv, IInv
  <2>2. pds # NullDs /\ height \in Nat /\ size \in Nat
    BY <1>1, <2>1, SizeType, FieldTypes DEF HeightInv
  <2>3. Len(leaves) \in Nat
    BY <2>1, LenProperties DEF TypeOK
  <2> QED
    BY <2>1, <2>2, <2>3
<1>3. root = tail
  <2>1. heap # <<>>
    BY <1>2, EmptySeq DEF Nodes
  <2> QED
    BY <2>1, <1>2 DEF TreeInv, IInv, LiveAreQueued
<1>4. Len(leaves) = Pow2[height]
  <2>1. PICK w : w = Pow2[height]
    OBVIOUS
  <2>2. w \in Nat /\ hi(root) + 1 = lo(root) + w
    BY <2>1, <1>1, <1>2, Powers, SpanWidth DEF TreeInv
  <2> QED
    BY <2>1, <2>2, <1>2
<1>5. ASSUME height > 0 PROVE Pow2[height - 1] < size
  <2>1. height - 1 \in Nat /\ (height - 1) + 1 = height
    BY <1>2, <1>5
  <2>2. Pow2[height - 1] \in Nat /\ Pow2[height - 1] > 0 /\ Pow2[height] = 2 * Pow2[height - 1]
    <3>1. Pow2[height - 1] > height - 1
      BY <2>1, Powers
    <3> QED
      BY <2>1, <3>1, Powers
  <2>3. CASE phase = "feed"
    <3>1. Pow2[height] <= size
      BY <2>3, <1>1, <1>2, <1>4 DEF HeightInv, CountInv
    <3> QED
      BY <3>1, <2>2, <1>2
  <2>4. CASE phase = "pad"
    <3>1. LevelOf(tail) = qHeaderLevel + 1 /\ Pow2[qHeaderLevel] < size
      BY <2>4, <1>1, <1>2, <1>3 DEF HeightInv, CountInv
    <3>2. qHeaderLevel = height - 1
      BY <3>1, <1>1, <1>2, <1>3 DEF TypeOK
    <3> QED
      BY <3>1, <3>2
  <2> QED
    BY <2>3, <2>4, <1>2 DEF TypeOK
<1> QED
  BY <1>1, <1>2, <1>5

\* A descent that finds nodeList full is in a tree of more than 2^(NodeListLen - 1) pages.
LEMMA OverrunNeedsPages ==
  ASSUME TreeInv, HeightInv, DescentInv, StackInv, apc = "descend", ~AtLeaf, ~Room
  PROVE  pmhtroot # NULL => Pow2[NodeListLen - 1] < pds.m_size
<1> SUFFICES ASSUME pmhtroot # NULL PROVE Pow2[NodeListLen - 1] < pds.m_size
  OBVIOUS
<1>1. PICK len, h, l, n : len = Len(nodeList) /\ h = LevelOf(pmhtroot) /\ l = LevelOf(temp) /\ n = NodeListLen
  OBVIOUS
<1>2. n \in Nat \ {0} /\ h \in Nat /\ pds.m_size \in Nat /\ (h > 0 => Pow2[h - 1] < pds.m_size)
  BY <1>1, HeightIsLeast, AccessAssumption
<1>3. l \in Nat /\ l # 0 /\ len = h - l + 1 /\ ~ (len < n)
  <2>1. temp \in Nodes /\ TypeOK
    BY DEF DescentInv, TreeInv, IInv
  <2>2. l \in Nat
    BY <1>1, <2>1, FieldTypes
  <2> QED
    BY <1>1, <2>2 DEF AtLeaf, NODELEVEL_LEAF, StackInv, PathIsRootToLeaf, Room
<1>4. h - 1 \in Nat /\ n - 1 \in Nat /\ n - 1 <= h - 1 /\ h > 0
  BY <1>2, <1>3
<1>5. PICK u, v : u = Pow2[n - 1] /\ v = Pow2[h - 1]
  OBVIOUS
<1>6. u \in Nat /\ v \in Nat /\ u <= v /\ v < pds.m_size
  BY <1>2, <1>4, <1>5, Powers, PowerDivides
<1> QED
  BY <1>1, <1>2, <1>5, <1>6

\* For every data set and whatever nodeList's length: an update writes behind nodeList only in
\* a tree of more than 2^(NodeListLen - 1) pages, and nothing else the driver does with
\* a tree in hand makes it die.
THEOREM NodeListIsLongEnough == AccessSpec => []NodeListSuffices
<1>1. Init /\ AccessInit => HeightInv /\ NodeListSuffices
  BY InitCount DEF HeightInv, NodeListSuffices, AccessInit, Init
<1>2. TreeInv /\ HeightInv /\ [BuildPhase \/ AccessStep]_vars => HeightInv'
  BY HeightStep
<1>3. /\ TreeInv /\ HeightInv /\ DescentInv /\ StackInv /\ NodeListSuffices
      /\ [BuildPhase \/ AccessStep]_vars
      => NodeListSuffices'
  <2> SUFFICES ASSUME TreeInv, HeightInv, DescentInv, StackInv, NodeListSuffices,
                      [BuildPhase \/ AccessStep]_vars, apc' = "crash"
               PROVE  NodeListSuffices'
    BY DEF NodeListSuffices
  <2>1. pmhtroot' = pmhtroot /\ pds' = pds
    BY FixedStep
  <2>2. DereferenceNullRoot \/ UpdateOverruns \/ apc = "crash"
    <3>1. CASE BuildPhase
      BY <3>1 DEF BuildPhase, accessVars
    <3>2. CASE ReadStep \/ Climb
      BY <3>2 DEF ReadStep, Climb, EnterDriver, CallSelectHash, SelectHashReturns, PageUnreadable,
         CallGetMHash, GetDescend, GetReturns, CallUpdateTime, UpdateTimeReturns, CallUpdateMTree,
         UpdateDescend, UpdateNotFound, UpdateFound, UpdateReturns, SelectHashExits,
         MainReturns, Begin, Go
    <3>3. CASE UNCHANGED vars
      BY <3>3 DEF vars, accessVars
    <3> QED
      BY <3>1, <3>2, <3>3 DEF AccessStep
  <2>3. CASE DereferenceNullRoot
    BY <2>1, <2>3 DEF DereferenceNullRoot, NodeListSuffices
  <2>4. CASE UpdateOverruns
    <3>1. PICK u, s : u = Pow2[NodeListLen - 1] /\ s = pds.m_size
      OBVIOUS
    <3>2. pmhtroot # NULL => u < s /\ s \in Nat /\ u \in Nat
      <4>1. NodeListLen - 1 \in Nat
        BY AccessAssumption
      <4>2. u \in Nat
        BY <3>1, <4>1, Powers
      <4> QED
        BY <2>4, <3>1, <4>2, OverrunNeedsPages, HeightIsLeast DEF UpdateOverruns
    <3>3. pmhtroot # NULL => ~ (s <= u)
      BY <3>2
    <3> QED
      BY <2>1, <3>1, <3>3 DEF NodeListSuffices
  <2>5. CASE apc = "crash"
    BY <2>1, <2>5 DEF NodeListSuffices
  <2> QED
    BY <2>2, <2>3, <2>4, <2>5
<1> QED
  BY <1>1, <1>2, <1>3, TreeIsFixed, DescentIsKept, StackIsKept, PTL DEF AccessSpec

-----------------------------------------------------------------------------
(* The driver implements PageMap *)

\* No hash in the tree is stale.
Fresh == \A n \in Nodes : Inner(n) => m_hash[n] = sha256_2(lchild(n), rchild(n))
Hashes == [k \in 1..Len(leaves) |-> m_hash[leaves[k]]]

\* When updateMTree is about to write its leaf nothing is stale yet.
FreshInv ==
  \A n \in Nodes :
    apc = "climb" /\ nodeList # <<>> /\ nodeList[Len(nodeList)] = n /\ ~Inner(n) => Fresh

\* Nothing is looked up before the tree is there.
NoneYet == apc = "main" => verdicts = <<>>

\* A table that is loaded is of a data set in order and in range.
LEMMA LoadedIsSound == Loaded => Ordered /\ InRange
BY DataSetsAssumption DEF Loaded, Orderly, Ordered, InRange

LEMMA FreshStep ==
  ASSUME TreeInv, StackInv, OnlyThePathIsStale, FreshInv, [BuildPhase \/ AccessStep]_vars
  PROVE  FreshInv'
<1> SUFFICES ASSUME apc' = "climb" PROVE FreshInv'
  BY DEF FreshInv
<1>1. (AccessStep \/ UNCHANGED vars) /\ heap' = heap
  BY FixedStep
<1>2. /\ Nodes' = Nodes
      /\ \A n : Inner(n)' = Inner(n) /\ lchild(n)' = lchild(n) /\ rchild(n)' = rchild(n)
  BY <1>1 DEF Nodes, Inner, LevelOf, lchild, rchild
<1> SUFFICES ASSUME NEW y \in Nodes, nodeList' # <<>>, nodeList'[Len(nodeList')] = y, ~Inner(y)
             PROVE  Fresh'
  BY <1>2 DEF FreshInv
<1>3. CASE Climb
  <2>1. PICK x : x = nodeList[Len(nodeList)]
    OBVIOUS
  <2>2. x \in Nodes /\ x \in {lchild(y), rchild(y)}
    BY <1>3, <2>1, ClimbStep
  <2>3. Inner(y)
    BY <2>2 DEF TreeInv, IInv, NodeShape, ShapeOf, NULL, Nodes
  <2> QED
    BY <2>3
<1>4. CASE ReadStep
  <2>1. m_hash' = m_hash /\ UpdateFound
    BY <1>4, ReadsInDriver
  <2>2. Fresh
    BY <2>1 DEF UpdateFound, OnlyThePathIsStale, Fresh
  <2> QED
    BY <1>2, <2>1, <2>2 DEF Fresh, sha256_2
<1>5. CASE UNCHANGED vars
  <2>1. apc' = apc /\ nodeList' = nodeList /\ m_hash' = m_hash
    BY <1>5 DEF vars, accessVars, buildVars, updateVars
  <2>2. Fresh
    BY <2>1 DEF FreshInv
  <2> QED
    BY <1>2, <2>1, <2>2 DEF Fresh, sha256_2
<1> QED
  BY <1>1, <1>3, <1>4, <1>5 DEF AccessStep

\* A tree without a stale hash has the root of its leaves.
LEMMA FreshRoot ==
  ASSUME TreeInv, pmhtroot # NULL
  PROVE  /\ pmhtroot \in Nodes /\ Len(leaves) \in Nat \ {0}
         /\ Fresh => m_hash[pmhtroot] = MerkleRoot(Hashes)
<1>1. pmhtroot \in Nodes /\ lo(pmhtroot) = 1 /\ hi(pmhtroot) = Len(leaves)
  BY RootSpans
<1>2. Len(leaves) \in Nat \ {0}
  <2>1. lo(pmhtroot) \in 1..hi(pmhtroot) /\ hi(pmhtroot) \in Nat
    BY <1>1, SpanFields DEF TreeInv, IInv, SearchInv, SpansInRange
  <2> QED
    BY <2>1, <1>1
<1>3. ASSUME Fresh PROVE m_hash[pmhtroot] = MerkleRoot(Hashes)
  <2>1. PICK h : h = Hashes
    OBVIOUS
  <2>2. Len(h) = Len(leaves) /\ \A k \in 1..Len(leaves) : m_hash[leaves[k]] = h[k]
    BY <2>1, <1>2 DEF Hashes
  <2>3. PICK f : RowsUpTo(f, Len(h) - 1, h) /\ MerkleRoot(h) = f[Len(h) - 1][1]
    BY <1>2, <2>2, RootIsInRows
  <2>4. m_hash[pmhtroot] = f[hi(pmhtroot) - lo(pmhtroot)][lo(pmhtroot)]
    <3>1. \A n \in Nodes : Inner(n) => m_hash[n] = sha256_2(lchild(n), rchild(n))
      BY <1>3 DEF Fresh
    <3> QED
      BY <1>1, <2>2, <2>3, <3>1, NodesHaveRows
  <2> QED
    BY <1>1, <2>1, <2>2, <2>3, <2>4
<1> QED
  BY <1>1, <1>2, <1>3

\* The table of PageMap has a row for each leaf, and its commitment is the root hash
\* if nothing in the tree is stale.
TableInv ==
  pmhtroot # NULL =>
    /\ DOMAIN LeafTable = 1..Len(leaves) /\ Len(leaves) \in Nat \ {0} /\ LeafTable # <<>>
    /\ \A k \in 1..Len(leaves) :
         LeafTable[k] = [page |-> PageNo(leaves[k]), hash |-> m_hash[leaves[k]]]
    /\ Fresh => m_hash[pmhtroot] = Pages!CommitTo(LeafTable)

LEMMA TableIsRight ==
  ASSUME TreeInv
  PROVE  TableInv
<1> SUFFICES ASSUME pmhtroot # NULL
             PROVE  /\ DOMAIN LeafTable = 1..Len(leaves) /\ Len(leaves) \in Nat \ {0} /\ LeafTable # <<>>
                    /\ \A k \in 1..Len(leaves) :
                         LeafTable[k] = [page |-> PageNo(leaves[k]), hash |-> m_hash[leaves[k]]]
                    /\ Fresh => m_hash[pmhtroot] = Pages!CommitTo(LeafTable)
  BY DEF TableInv
<1>1. Len(leaves) \in Nat \ {0} /\ (Fresh => m_hash[pmhtroot] = MerkleRoot(Hashes))
  BY FreshRoot
<1>2. PICK t : t = LeafTable
  OBVIOUS
<1>3. t = [k \in 1..Len(leaves) |-> [page |-> PageNo(leaves[k]), hash |-> m_hash[leaves[k]]]]
  BY <1>2 DEF LeafTable
<1>4. DOMAIN t = 1..Len(leaves) /\ 1 \in 1..Len(leaves)
  BY <1>1, <1>3
<1>5. t # <<>>
  <2>1. DOMAIN <<>> = {}
    OBVIOUS
  <2> QED
    BY <1>4, <2>1
<1>6. [k \in DOMAIN t |-> t[k].hash] = Hashes
  BY <1>3, <1>4 DEF Hashes
<1>7. Pages!CommitTo(LeafTable) = MerkleRoot(Hashes)
  BY <1>2, <1>6 DEF Pages!CommitTo
<1> QED
  BY <1>1, <1>2, <1>3, <1>4, <1>5, <1>7

Mapped == <<Table, Root, Answer>>

\* main gets the tree: the table is loaded, or there is none.
LEMMA EnterLoads ==
  ASSUME TreeInv, TableInv, EnterDriver, UNCHANGED buildVars, OnlyThePathIsStale', NoneYet
  PROVE  Pages!Load \/ UNCHANGED Mapped
<1>1. /\ apc = "main" /\ apc' = "ready" /\ verdicts' = verdicts /\ pc = "done"
      /\ leaves' = leaves /\ heap' = heap /\ m_hash' = m_hash /\ pmhtroot' = pmhtroot /\ pds' = pds
  BY DEF EnterDriver, selectVars, buildVars
<1>2. Answer = Garbage /\ Answer' = Garbage /\ ~Loaded /\ Table = <<>> /\ Root = Garbage
  BY <1>1 DEF Answer, Loaded, Table, Root, NoneYet
<1>3. CASE ~Loaded'
  BY <1>1, <1>2, <1>3 DEF Mapped, Table, Root
<1>4. CASE Loaded'
  <2>0. pmhtroot # NULL /\ Ordered /\ InRange
    <3>1. Loaded' => pmhtroot # NULL /\ pds \in Orderly /\ \A k \in 1..Len(leaves) : PageNo(leaves[k]) >= 0
      BY <1>1 DEF Loaded, PageNo
    <3> QED
      BY <3>1, <1>4, DataSetsAssumption DEF Orderly, Ordered, InRange
  <2>1. LeafTable' = LeafTable
    BY <1>1 DEF LeafTable, PageNo
  <2>2. Table' = LeafTable /\ Root' = m_hash[pmhtroot]
    BY <1>1, <1>4, <2>1 DEF Table, Root
  <2>3. Fresh
    BY <1>1 DEF OnlyThePathIsStale, Fresh, Nodes, Inner, LevelOf, lchild, rchild, sha256_2
  <2>4. Root' = Pages!CommitTo(LeafTable) /\ LeafTable # <<>> /\ DOMAIN LeafTable = 1..Len(leaves)
    BY <2>0, <2>2, <2>3 DEF TableInv
  <2>5. \A j, k \in 1..Len(leaves) : j < k => LeafTable[j].page < LeafTable[k].page
    <3>1. Ordered /\ InRange
      BY <2>0
    <3>2. \A j, k \in 1..Len(leaves) : j < k => PageNo(leaves[j]) < PageNo(leaves[k])
      BY <3>1 DEF TreeInv, SearchInv, PagesIncrease
    <3> QED
      BY <3>2, <2>0 DEF TableInv
  <2>6. Pages!CommitTo(Table') = Pages!CommitTo(LeafTable)
    BY <2>2
  <2> QED
    BY <1>2, <2>2, <2>4, <2>5, <2>6 DEF Pages!Load, Pages!CommitTo
<1> QED
  BY <1>3, <1>4

\* The climb writes the leaf, leaves the table alone, and renews the root hash last.
LEMMA ClimbWrites ==
  ASSUME TreeInv, StackInv, FreshInv, TableInv, TableInv', OnlyThePathIsStale', Climb, Loaded
  PROVE  Pages!Write \/ Pages!Recommit \/ UNCHANGED Mapped
<1>1. PICK x : x = nodeList[Len(nodeList)]
  OBVIOUS
<1>2. /\ apc = "climb" /\ apc' = "climb" /\ x \in Nodes /\ nodeList # <<>>
      /\ \A n \in Nodes \ {x} : m_hash'[n] = m_hash[n]
      /\ nodeList' # <<>> =>
           /\ nodeList'[Len(nodeList')] \in Nodes
           /\ x \in {lchild(nodeList'[Len(nodeList')]), rchild(nodeList'[Len(nodeList')])}
  BY <1>1, ClimbStep
<1>3. /\ heap' = heap /\ leaves' = leaves /\ pmhtroot' = pmhtroot /\ verdicts' = verdicts
      /\ pmhtroot # NULL
  BY DEF Climb, structureVars, selectVars, Loaded
<1>4. /\ Nodes' = Nodes
      /\ \A n : Inner(n)' = Inner(n) /\ lchild(n)' = lchild(n) /\ rchild(n)' = rchild(n)
  BY <1>3 DEF Nodes, Inner, LevelOf, lchild, rchild
<1>5. /\ Table = LeafTable /\ Table' = LeafTable' /\ Answer' = Answer
      /\ Root = m_hash[pmhtroot] /\ Root' = m_hash'[pmhtroot]
  <2>1. Loaded'
    BY <1>2, <1>3 DEF Loaded, PageNo, Climb, structureVars
  <2> QED
    BY <2>1, <1>3 DEF Table, Root, Answer
<1>6. /\ DOMAIN LeafTable = 1..Len(leaves) /\ DOMAIN LeafTable' = 1..Len(leaves)
      /\ \A k \in 1..Len(leaves) :
           /\ LeafTable[k] = [page |-> PageNo(leaves[k]), hash |-> m_hash[leaves[k]]]
           /\ LeafTable'[k] = [page |-> PageNo(leaves[k]), hash |-> m_hash'[leaves[k]]]
  BY <1>3 DEF TableInv, PageNo
<1>7. IF nodeList' = <<>> THEN Root' = Pages!CommitTo(LeafTable') ELSE Root' = Root
  <2>1. CASE nodeList' = <<>>
    <3>1. Fresh'
      <4>1. ~ \E k \in 1..Len(nodeList') : TRUE
        BY <2>1, EmptySeq
      <4> QED
        BY <4>1, <1>2 DEF OnlyThePathIsStale, Fresh
    <3> QED
      BY <3>1, <2>1, <1>3, <1>5 DEF TableInv
  <2>2. CASE nodeList' # <<>>
    <3>1. x \notin Live
      BY <2>2, <1>2 DEF Live
    <3>2. pmhtroot \in Nodes /\ pmhtroot \in Live
      BY <1>3, RootSpans
    <3> QED
      BY <3>1, <3>2, <2>2, <1>2, <1>5
  <2> QED
    BY <2>1, <2>2
<1>8. CASE ~Inner(x)
  <2>1. Fresh
    BY <1>1, <1>2, <1>8 DEF FreshInv
  <2>2. Root = Pages!CommitTo(Table)
    BY <2>1, <1>3, <1>5 DEF TableInv
  <2>3. PICK p : p = lo(x)
    OBVIOUS
  <2>4. p \in 1..Len(leaves) /\ \A k \in 1..Len(leaves) : leaves[k] = x => k = p
    <3>1. p = hi(x) /\ p \in 1..Len(leaves)
      BY <2>3, <1>2, <1>8, LeafAt
    <3> QED
      BY <3>1 DEF TreeInv, SearchInv, LeavesSpanThemselves
  <2>5. LeafTable' = [LeafTable EXCEPT ![p].hash = LeafTable'[p].hash]
    <3>1. PICK t, u : t = LeafTable /\ u = LeafTable'
      OBVIOUS
    <3>2. /\ t = [k \in 1..Len(leaves) |-> [page |-> PageNo(leaves[k]), hash |-> m_hash[leaves[k]]]]
          /\ u = [k \in 1..Len(leaves) |-> [page |-> PageNo(leaves[k]), hash |-> m_hash'[leaves[k]]]]
      BY <3>1, <1>3 DEF LeafTable, PageNo
    <3>3. \A k \in 1..Len(leaves) : k # p => u[k] = t[k]
      <4>1. \A k \in 1..Len(leaves) : k # p => m_hash'[leaves[k]] = m_hash[leaves[k]]
        BY <2>4, <1>2, LeavesAreLeaves
      <4> QED
        BY <4>1, <3>2
    <3>4. u[p] = [t[p] EXCEPT !.hash = u[p].hash]
      BY <3>2, <2>4
    <3>5. u = [t EXCEPT ![p].hash = u[p].hash]
      BY <3>2, <3>3, <3>4, <2>4
    <3> QED
      BY <3>1, <3>5
  <2>6. Pages!Write
    <3>1. Pages!Settled
      BY <2>2 DEF Pages!Settled
    <3>2. p \in DOMAIN Table /\ Table' = [Table EXCEPT ![p].hash = Table'[p].hash]
      BY <2>4, <2>5, <1>5, <1>6
    <3>3. Root' \in {Root, Pages!CommitTo(Table')}
      BY <1>5, <1>7
    <3> QED
      BY <3>1, <3>2, <3>3, <1>5 DEF Pages!Write
  <2> QED
    BY <2>6
<1>9. CASE Inner(x)
  <2>1. LeafTable' = LeafTable
    <3>1. \A k \in 1..Len(leaves) : m_hash'[leaves[k]] = m_hash[leaves[k]]
      BY <1>2, <1>9, LeavesAreLeaves
    <3>2. LeafTable' = [k \in 1..Len(leaves) |-> [page |-> PageNo(leaves[k]), hash |-> m_hash'[leaves[k]]]]
      BY <1>3 DEF LeafTable, PageNo
    <3> QED
      BY <3>1, <3>2 DEF LeafTable
  <2>2. Root' = Root \/ Root' = Pages!CommitTo(Table)
    BY <2>1, <1>5, <1>7
  <2>3. CASE Root' = Root
    BY <2>1, <2>3, <1>5 DEF Mapped
  <2>4. CASE Root' = Pages!CommitTo(Table) /\ Root' # Root
    <3>1. Table # <<>>
      BY <1>3, <1>5 DEF TableInv
    <3>2. ~Pages!Settled
      BY <2>4, <3>1 DEF Pages!Settled
    <3> QED
      BY <3>2, <2>1, <2>4, <1>5 DEF Pages!Recommit
  <2> QED
    BY <2>2, <2>3, <2>4
<1> QED
  BY <1>8, <1>9

\* Between updates the commitment is the table's.
LEMMA Committed ==
  ASSUME TableInv, OnlyThePathIsStale, Loaded, apc # "climb"
  PROVE  Root = Pages!CommitTo(Table) /\ Pages!Settled
<1>1. Fresh
  BY DEF OnlyThePathIsStale, Fresh, Loaded
<1>2. m_hash[pmhtroot] = Pages!CommitTo(LeafTable)
  BY <1>1 DEF TableInv, Loaded
<1>3. Root = Pages!CommitTo(Table)
  BY <1>2 DEF Root, Table
<1> QED
  BY <1>3 DEF Pages!Settled

\* A read leaves the table and its commitment alone; what it says of a page is an
\* answer of PageMap.
LEMMA ReadsAnswer ==
  ASSUME TreeInv, DescentInv, LeafInv, TableInv, OnlyThePathIsStale, IsSeq(verdicts),
         ReadStep, apc # "main", apc' # "main"
  PROVE  Pages!Lookup \/ Pages!Forget \/ UNCHANGED Mapped
<1>1. /\ heap' = heap /\ leaves' = leaves /\ pmhtroot' = pmhtroot /\ m_hash' = m_hash
      /\ Loaded' = Loaded
  BY DEF ReadStep, buildVars, Loaded, PageNo
<1>2. Table' = Table /\ Root' = Root
  BY <1>1 DEF Table, LeafTable, Root, PageNo
<1>3. ASSUME Loaded, NEW v, verdicts' = Append(verdicts, v)
      PROVE  Answer' = v
  <2>1. Len(verdicts) \in Nat /\ Len(verdicts') = Len(verdicts) + 1 /\ verdicts'[Len(verdicts) + 1] = v
    BY <1>3, AppendAny
  <2>2. verdicts' # <<>>
    <3>1. Len(verdicts') # 0
      BY <2>1
    <3> QED
      BY <3>1, EmptySeq
  <2> QED
    BY <2>1, <2>2, <1>1, <1>3 DEF Answer
<1>4. CASE CallSelectHash
  <2>1. verdicts' = <<>>
    BY <1>4 DEF CallSelectHash
  <2> QED
    BY <2>1, <1>2 DEF Answer, Pages!Forget
<1>5. apc # "climb" => Pages!Settled
  <2>1. CASE Loaded
    BY <2>1, Committed
  <2>2. CASE ~Loaded
    BY <2>2 DEF Pages!Settled, Table
  <2> QED
    BY <2>1, <2>2
<1>9. CASE ~Loaded
  BY <1>1, <1>2, <1>9 DEF Mapped, Answer
<1>6. CASE PageUnreadable /\ Loaded
  <2>1. PICK v : v = [page |-> Head(pages), found |-> FALSE, equal |-> "unread"]
    OBVIOUS
  <2>2. verdicts' = Append(verdicts, v) /\ apc = "select" /\ v.equal = "unread"
    BY <1>6, <2>1 DEF PageUnreadable
  <2>3. Answer'.equal = "unread"
    BY <2>2, <1>3, <1>6
  <2> QED
    BY <2>2, <2>3, <1>2, <1>5 DEF Pages!Lookup
<1>7. CASE GetReturns /\ Loaded
  <2>1. apc = "get" /\ Searchable /\ Loaded
    <3>1. apc = "get" /\ temp \in Nodes
      BY <1>7 DEF GetReturns, DescentInv
    <3>2. pmhtroot # NULL
      BY <3>1 DEF DescentInv
    <3> QED
      BY <3>1, <3>2, <1>7, LoadedIsSound DEF TreeInv, Searchable, Built
  <2>2. PICK v : verdicts' = Append(verdicts, v) /\ Right(v)
    BY <2>1, <1>7, NewVerdict
  <2>3. Answer' = v
    BY <2>1, <2>2, <1>3
  <2>4. /\ Table = LeafTable /\ Table # <<>> /\ DOMAIN Table = 1..Len(leaves)
        /\ \A k \in 1..Len(leaves) : Table[k].page = PageNo(leaves[k]) /\ Table[k].hash = contents[k]
    <3>1. Table = LeafTable /\ pmhtroot # NULL
      BY <2>1 DEF Table, Loaded
    <3>2. \A k \in 1..Len(leaves) : m_hash[leaves[k]] = contents[k]
      BY <2>1 DEF LeafInv, LeavesHoldContents
    <3> QED
      BY <3>1, <3>2 DEF TableInv
  <2>5. {k \in DOMAIN Table : Table[k].page = v.page} = {x \in 1..Len(leaves) : PageNo(leaves[x]) = v.page}
    BY <2>4
  <2>6. CASE v.equal = "unread"
    BY <2>1, <2>3, <2>6, <1>2, <1>5 DEF Pages!Lookup
  <2>7. CASE v.equal # "unread"
    <3>1. PICK at : at = {x \in 1..Len(leaves) : PageNo(leaves[x]) = v.page}
      OBVIOUS
    <3>2. /\ v.found <=> at # {}
          /\ \A x \in at : v.equal = "yes" <=> Table[x].hash = DbHash(v.page)
      BY <2>2, <2>4, <2>7, <3>1 DEF Right
    <3> QED
      BY <2>1, <2>3, <2>4, <2>5, <3>1, <3>2, <1>2, <1>5 DEF Pages!Lookup
  <2> QED
    BY <2>6, <2>7
<1>8. CASE ~CallSelectHash /\ ~PageUnreadable /\ ~GetReturns
  <2>1. verdicts' = verdicts
    BY <1>8 DEF ReadStep, EnterDriver, SelectHashReturns, CallGetMHash, GetDescend, CallUpdateTime,
       UpdateTimeReturns, CallUpdateMTree, UpdateDescend, UpdateNotFound, UpdateFound, UpdateReturns,
       DereferenceNullRoot, SelectHashExits, UpdateOverruns, MainReturns, selectVars
  <2> QED
    BY <2>1, <1>1, <1>2 DEF Answer, Mapped
<1> QED
  BY <1>4, <1>6, <1>7, <1>8, <1>9

\* Every step of the program is one of PageMap or leaves the table, the commitment and
\* the last answer as they are.
LEMMA StepsMap ==
  ASSUME TreeInv, StackInv, DescentInv, LeafInv, FreshInv, TableInv, OnlyThePathIsStale,
         IsSeq(verdicts), NoneYet, TableInv', OnlyThePathIsStale',
         [BuildPhase \/ AccessStep]_vars
  PROVE  Pages!MapNext \/ UNCHANGED Mapped
<1>1. CASE apc' = "main"
  <2>1. apc = "main" /\ verdicts' = verdicts
    <3>1. CASE BuildPhase
      BY <3>1, <1>1 DEF BuildPhase, accessVars, selectVars
    <3>2. CASE ReadStep
      BY <3>2, <1>1 DEF ReadStep, EnterDriver, CallSelectHash, SelectHashReturns, PageUnreadable,
         CallGetMHash, GetDescend, GetReturns, CallUpdateTime, UpdateTimeReturns, CallUpdateMTree,
         UpdateDescend, UpdateNotFound, UpdateFound, UpdateReturns,
         DereferenceNullRoot, SelectHashExits, UpdateOverruns,
         MainReturns, Begin, Go
    <3>3. CASE Climb
      BY <3>3, <1>1 DEF Climb, Go
    <3>4. CASE UNCHANGED vars
      BY <3>4, <1>1 DEF vars, accessVars, selectVars
    <3> QED
      BY <3>1, <3>2, <3>3, <3>4 DEF AccessStep
  <2> QED
    BY <2>1, <1>1 DEF Mapped, Table, Root, Answer, Loaded
<1>2. CASE apc' # "main"
  <2>1. AccessStep \/ UNCHANGED vars
    BY <1>2, FixedStep
  <2>2. CASE ReadStep /\ apc = "main"
    <3>1. EnterDriver /\ UNCHANGED buildVars
      BY <2>2, ReadsInDriver DEF ReadStep
    <3> QED
      BY <3>1, EnterLoads DEF Pages!MapNext
  <2>3. CASE ReadStep /\ apc # "main"
    BY <2>3, <1>2, ReadsAnswer DEF Pages!MapNext
  <2>4. CASE Climb
    <3>1. CASE Loaded
      BY <2>4, <3>1, ClimbWrites DEF Pages!MapNext
    <3>2. CASE ~Loaded
      <4>1. Loaded' = Loaded /\ verdicts' = verdicts
        BY <2>4 DEF Climb, Go, structureVars, selectVars, Loaded, PageNo
      <4> QED
        BY <3>2, <4>1 DEF Mapped, Table, Root, Answer
    <3> QED
      BY <3>1, <3>2
  <2>5. CASE UNCHANGED vars
    BY <2>5 DEF vars, accessVars, buildVars, selectVars, Mapped, Table, LeafTable, Root, Answer, Loaded, PageNo
  <2> QED
    BY <2>1, <2>2, <2>3, <2>4, <2>5 DEF AccessStep
<1> QED
  BY <1>1, <1>2

\* Nothing is looked up while the tree is built.
LEMMA NoneYetStep == NoneYet /\ [BuildPhase \/ AccessStep]_vars => NoneYet'
<1> SUFFICES ASSUME NoneYet, [BuildPhase \/ AccessStep]_vars, apc' = "main"
             PROVE  verdicts' = <<>>
  BY DEF NoneYet
<1>1. apc = "main" /\ verdicts' = verdicts
  <2>1. CASE BuildPhase
    BY <2>1 DEF BuildPhase, accessVars, selectVars
  <2>2. CASE ReadStep
    BY <2>2 DEF ReadStep, EnterDriver, CallSelectHash, SelectHashReturns, PageUnreadable,
       CallGetMHash, GetDescend, GetReturns, CallUpdateTime, UpdateTimeReturns, CallUpdateMTree,
       UpdateDescend, UpdateNotFound, UpdateFound, UpdateReturns,
       DereferenceNullRoot, SelectHashExits, UpdateOverruns,
       MainReturns, Begin, Go
  <2>3. CASE Climb
    BY <2>3 DEF Climb, Go
  <2>4. CASE UNCHANGED vars
    BY <2>4 DEF vars, accessVars, selectVars
  <2> QED
    BY <2>1, <2>2, <2>3, <2>4 DEF AccessStep
<1> QED
  BY <1>1 DEF NoneYet

\* For every data set, where no hash contains a zero byte: the program, tree, descents
\* and climbs and all, takes no step that the table of pages under one commitment would
\* not take.  Where the data set is out of order or out of range the table stays empty.
THEOREM DriverIsPageMap ==
  ASSUME NEW Byte, NEW Digest, NulFree(Byte, Digest)
  PROVE  AccessSpec => Pages!MapSteps
<1>1. Init /\ AccessInit => Pages!MapInit
  BY DEF AccessInit, Pages!MapInit, Table, Root, Answer, Loaded
<1>2. Init /\ AccessInit => FreshInv /\ NoneYet
  BY DEF AccessInit, FreshInv, NoneYet
<1>3. TreeInv /\ StackInv /\ OnlyThePathIsStale /\ FreshInv /\ [BuildPhase \/ AccessStep]_vars => FreshInv'
  BY FreshStep
<1>4. TreeInv => TableInv
  BY TableIsRight
<1>5. VerdictInv => IsSeq(verdicts)
  BY DEF VerdictInv
<1>6. /\ TreeInv /\ StackInv /\ DescentInv /\ LeafInv /\ FreshInv /\ TableInv /\ OnlyThePathIsStale
      /\ IsSeq(verdicts) /\ NoneYet /\ TableInv' /\ OnlyThePathIsStale'
      /\ [BuildPhase \/ AccessStep]_vars
      => [Pages!MapNext]_(Pages!mapVars)
  BY StepsMap DEF Pages!mapVars, Mapped
<1>7. AccessSpec => []OnlyThePathIsStale
  BY UpdatesRestoreHashes
<1>8. NoneYet /\ [BuildPhase \/ AccessStep]_vars => NoneYet'
  BY NoneYetStep
<1> QED
  BY <1>1, <1>2, <1>3, <1>4, <1>5, <1>6, <1>7, <1>8, TreeIsFixed, StackIsKept, DescentIsKept,
     LeavesAreKept, VerdictsAreKept, PTL DEF AccessSpec, Pages!MapSteps

=============================================================================
