----------------------------- MODULE MhtAccess -----------------------------
(***************************************************************************)
(* The driver test_1.c on the tree of MhtBuild: selectHash compares the    *)
(* pages a query touched with the tree (diffPgno, getMHash,                *)
(* compare_two_hashes), updateTime replaces the hashes of random pages     *)
(* (updateMTree).                                                          *)
(*                                                                         *)
(* One action is one step of a descent or of the climb back to the root,   *)
(* so that the tree is seen half updated, as the code leaves it between    *)
(* two iterations.  The structure of the tree (heap) is only read here;    *)
(* updateMTree writes m_hash.                                              *)
(***************************************************************************)
EXTENDS MhtBuildProps

CONSTANTS
  SelectLists,   \* the page lists getSelectPgno may return (external)
  DbHash(_),     \* getInfo1: the hash of a page of the database (external)
  PagesDrawn,    \* the page numbers rand() % 16384 may draw
  Texts,         \* the digests of the random texts of updateTime (external)
  Garbage,       \* the contents of an uninitialized hash buffer
  NodeListLen,   \* the entries of nodeList in updateMTree: 30 in the code
  MaxCalls,      \* bound: calls of selectHash and updateTime
  MaxUpdates     \* bound: n, the updates of one updateTime

ASSUME AccessAssumption ==
  /\ \A s \in SelectLists : s \in Seq(Nat)
  /\ PagesDrawn \subseteq Nat
  /\ NodeListLen \in Nat \ {0} /\ MaxCalls \in Nat /\ MaxUpdates \in Nat

VARIABLES
  apc,        \* where the driver is
  calls,      \* calls of selectHash and updateTime so far
  pages,      \* selectHash: the part of selectDiff still to be looked at
  todo,       \* updateTime: updates still to do
  text,       \* updateTime: the digest of randText
  pgno,       \* the page looked for
  temp,       \* the node a descent is at
  nodeList,   \* updateMTree: the path from the root, nodeList[index - 1] last
  hashRet,    \* updateMTree: the caller's hash buffer
  mhash,      \* selectHash: the caller's buffer for the tree's hash
  request,    \* history: the list selectHash works on
  verdicts,   \* history: what selectHash found for each page it looked at
  contents    \* history: the hash last given to each leaf, in leaf order

selectVars == <<pages, mhash, request, verdicts>>
searchVars == <<pgno, temp>>
updateVars == <<todo, text, nodeList, hashRet, contents>>
accessVars == <<apc, calls, selectVars, searchVars, updateVars>>
structureVars == <<pc, phase, pds, i, heap, queue, cur, walk, cbd, bCombined,
                   last_mhtnode_index, qHeaderLevel, pmhtroot, ret_val, freed, leaves, span>>
vars == <<buildVars, accessVars>>

-----------------------------------------------------------------------------
(* Conversions and helpers *)

\* An int compared with an unsigned int is converted to unsigned.
AsUnsigned(x) == IF x < 0 THEN x + 2 * (MAX_SIGNED_INT + 1) ELSE x

\* Mutant: compared with the first element kept.
RepeatsFirst(kept, page) == kept # <<>> /\ kept[1] = page

\* A page is dropped if it is the last one kept.
Repeats(kept, page) == kept # <<>> /\ kept[Len(kept)] = page

diffPgno(listIn) ==
  LET out[k \in 0..Len(listIn)] ==
        IF k = 0 THEN <<>>
        ELSE IF Repeats(out[k - 1], listIn[k]) THEN out[k - 1] ELSE Append(out[k - 1], listIn[k])
  IN out[Len(listIn)]

\* sha256_2 of the children's two hashes: all their bytes are hashed.
sha256_2(l, r) == Sha(m_hash[l] \o m_hash[r])

compare_two_hashes(h1, h2) == h1 = h2

\* Mutant: the descent goes on until there is no child.
AtNull == temp = NULL

AtLeaf == LevelOf(temp) = NODELEVEL_LEAF

-----------------------------------------------------------------------------

AccessInit ==
  /\ apc = "main" /\ calls = 0
  /\ pages = <<>> /\ todo = 0 /\ text = Garbage
  /\ pgno = 0 /\ temp = NULL /\ nodeList = <<>>
  /\ hashRet = Garbage /\ mhash = Garbage
  /\ request = <<>> /\ verdicts = <<>> /\ contents = <<>>

\* main goes on after create_mht_from_ordered_ds whatever it returned.
EnterDriver ==
  /\ apc = "main" /\ pc = "done"
  /\ apc' = "ready"
  /\ contents' = [k \in 1..Len(leaves) |-> m_hash[leaves[k]]]
  /\ UNCHANGED <<calls, selectVars, searchVars, todo, text, nodeList, hashRet>>

Begin(at) == apc = "ready" /\ calls < MaxCalls /\ apc' = at /\ calls' = calls + 1
Go(at) == apc' = at /\ UNCHANGED calls

(* selectHash *)

\* mhash is not initialised: it holds what the stack held, perhaps the hash the
\* previous call left there.
CallSelectHash ==
  /\ Begin("select")
  /\ \E list \in SelectLists :
       request' = list /\ pages' = diffPgno(list)
  /\ mhash' \in {Garbage, mhash} /\ verdicts' = <<>>
  /\ UNCHANGED <<searchVars, updateVars>>

\* sqlite3_open fails: exit(1), before any page is looked at.
SelectHashExits ==
  /\ Begin("exited")
  /\ UNCHANGED <<selectVars, searchVars, updateVars>>

SelectHashReturns ==
  /\ apc = "select" /\ pages = <<>> /\ Go("ready")
  /\ UNCHANGED <<selectVars, searchVars, updateVars>>

\* getInfo1 reads no page: nothing is compared.
PageUnreadable ==
  /\ apc = "select" /\ pages # <<>> /\ Go("select")
  /\ verdicts' = Append(verdicts, [page |-> Head(pages), found |-> FALSE, equal |-> "unread"])
  /\ pages' = Tail(pages)
  /\ UNCHANGED <<mhash, request, searchVars, updateVars>>

CallGetMHash ==
  /\ apc = "select" /\ pages # <<>> /\ pmhtroot # NULL /\ Go("get")
  /\ pgno' = Head(pages) /\ pages' = Tail(pages)
  /\ temp' = pmhtroot
  /\ UNCHANGED <<mhash, request, verdicts, updateVars>>

\* Mutant: a page equal to the separator is looked for on the right.
GetChildLess == IF pgno < AsUnsigned(PageNo(temp)) THEN lchild(temp) ELSE rchild(temp)

\* Mutant: the loop forgets to move.
GetChildSame == temp

GetChild == IF pgno <= AsUnsigned(PageNo(temp)) THEN lchild(temp) ELSE rchild(temp)

GetDescend ==
  /\ apc = "get" /\ ~AtLeaf /\ Go("get")
  /\ temp' = GetChild
  /\ UNCHANGED <<selectVars, pgno, updateVars>>

\* Mutant: the leaf's page number is not compared.
GetAnyLeaf == TRUE

GetHasPage == AsUnsigned(PageNo(temp)) = pgno

\* getMHash returns.  On FAIL mhash keeps what it held, and selectHash compares
\* it with the page's hash all the same.
GetReturns ==
  /\ apc = "get" /\ AtLeaf /\ Go("select")
  /\ mhash' = IF GetHasPage THEN m_hash[temp] ELSE mhash
  /\ verdicts' = Append(verdicts,
       [page |-> pgno, found |-> GetHasPage,
        equal |-> IF compare_two_hashes(DbHash(pgno), mhash') THEN "yes" ELSE "no"])
  /\ UNCHANGED <<pages, request, searchVars, updateVars>>

(* updateTime *)

CallUpdateTime ==
  /\ Begin("update")
  /\ todo' \in 1..MaxUpdates /\ text' \in Texts
  /\ UNCHANGED <<selectVars, searchVars, nodeList, hashRet, contents>>

UpdateTimeReturns ==
  /\ apc = "update" /\ todo = 0 /\ Go("ready")
  /\ UNCHANGED <<selectVars, searchVars, updateVars>>

CallUpdateMTree ==
  /\ apc = "update" /\ todo > 0 /\ pmhtroot # NULL /\ Go("descend")
  /\ pgno' \in PagesDrawn /\ hashRet' = text
  /\ temp' = pmhtroot /\ nodeList' = <<pmhtroot>>
  /\ todo' = todo - 1
  /\ UNCHANGED <<selectVars, text, contents>>

Push == Append(nodeList, temp')

\* Mutant: the root's entry is not counted.
RoomButRoot == Len(nodeList) < NodeListLen - 1

Room == Len(nodeList) < NodeListLen

UpdateDescend ==
  /\ apc = "descend" /\ ~AtLeaf /\ Room /\ Go("descend")
  /\ temp' = IF pgno <= PageNo(temp) THEN lchild(temp) ELSE rchild(temp)
  /\ nodeList' = Push
  /\ UNCHANGED <<selectVars, pgno, todo, text, hashRet, contents>>

\* index is not compared with the length of nodeList: the store goes behind the array,
\* and nothing is said of what comes after.
UpdateOverruns ==
  /\ apc = "descend" /\ ~AtLeaf /\ ~Room /\ Go("crash")
  /\ UNCHANGED <<selectVars, searchVars, updateVars>>

\* Mutant: the leaf's page number is not compared.
UpdateAnyLeaf == TRUE

UpdateHasPage == PageNo(temp) = pgno

\* No leaf of that page: updateMTree returns, its caller cannot tell.
UpdateNotFound ==
  /\ apc = "descend" /\ AtLeaf /\ ~UpdateHasPage /\ Go("update")
  /\ UNCHANGED <<selectVars, searchVars, updateVars>>

UpdateFound ==
  /\ apc = "descend" /\ AtLeaf /\ UpdateHasPage /\ Go("climb")
  /\ contents' = [k \in 1..Len(leaves) |-> IF PageNo(leaves[k]) = pgno THEN text ELSE contents[k]]
  /\ UNCHANGED <<selectVars, searchVars, todo, text, nodeList, hashRet>>

\* Mutant: the loop ends before the last entry, nodeList[0].
OnPathButRoot == Len(nodeList) > 1

OnPath == nodeList # <<>>

\* Mutant: the hashes are taken in the wrong order.
RehashedSwapped(n) == IF Inner(n) THEN sha256_2(rchild(n), lchild(n)) ELSE hashRet

\* The new hash for the leaf, then at each inner node that of the children's
\* present hashes.
Rehashed(n) == IF Inner(n) THEN sha256_2(lchild(n), rchild(n)) ELSE hashRet

\* Pop a node and rewrite its hash.
Climb ==
  /\ apc = "climb" /\ OnPath /\ Go("climb")
  /\ temp' = nodeList[Len(nodeList)]
  /\ nodeList' = SubSeq(nodeList, 1, Len(nodeList) - 1)
  /\ hashRet' = Rehashed(temp')
  /\ m_hash' = [m_hash EXCEPT ![temp'] = hashRet']
  /\ UNCHANGED <<selectVars, pgno, todo, text, contents, structureVars>>

UpdateReturns ==
  /\ apc = "climb" /\ ~OnPath /\ Go("update")
  /\ UNCHANGED <<selectVars, searchVars, updateVars>>

\* Both descents begin with pmhtroot->m_level.
DereferenceNullRoot ==
  /\ pmhtroot = NULL /\ Go("crash")
  /\ \/ apc = "select" /\ pages # <<>>
     \/ apc = "update" /\ todo > 0
  /\ UNCHANGED <<selectVars, searchVars, updateVars>>

\* free_mht_postorder, the last call of main: it returns at a NULL pointer, and frees
\* a node, after its children, if the pointer to it is NULL.
MainReturns ==
  /\ apc = "ready" /\ Go("returned")
  /\ UNCHANGED <<selectVars, searchVars, updateVars>>

-----------------------------------------------------------------------------

BuildPhase == BuildStep /\ UNCHANGED accessVars

\* All but the climb only read the tree.
ReadStep ==
  /\ \/ EnterDriver
     \/ CallSelectHash \/ SelectHashExits \/ SelectHashReturns \/ PageUnreadable
     \/ CallGetMHash \/ GetDescend \/ GetReturns
     \/ CallUpdateTime \/ UpdateTimeReturns \/ CallUpdateMTree
     \/ UpdateDescend \/ UpdateOverruns \/ UpdateNotFound \/ UpdateFound \/ UpdateReturns
     \/ DereferenceNullRoot \/ MainReturns
  /\ UNCHANGED buildVars

AccessStep == ReadStep \/ Climb

AccessSpec == Init /\ AccessInit /\ [][BuildPhase \/ AccessStep]_vars

\* One thread: a call that has begun goes on; main need not begin another.
FairAccessSpec ==
  /\ AccessSpec
  /\ WF_vars(BuildPhase)
  /\ WF_vars(AccessStep /\ apc # "ready")

-----------------------------------------------------------------------------
(* Correctness *)

Searchable == Built /\ Ordered /\ InRange

\* The type invariant of the driver's variables.
AccessTypeOK ==
  /\ apc \in {"main", "ready", "select", "get", "update", "descend", "climb", "crash",
              "exited", "returned"}
  /\ calls \in 0..MaxCalls
  /\ pages \in Seq(Nat) /\ request \in Seq(Nat)
  /\ todo \in 0..MaxUpdates
  /\ pgno \in Nat
  /\ temp \in Nodes \cup {NULL} /\ (apc \in {"get", "descend"} => temp # NULL)
  /\ nodeList \in Seq(Nodes)
  /\ DOMAIN m_hash = Nodes
  /\ \A k \in 1..Len(verdicts) : verdicts[k].found \in BOOLEAN

\* A page number as the running descent compares it: getMHash's pgno is unsigned,
\* updateMTree's an int.
Seen(x) == IF apc = "get" THEN AsUnsigned(x) ELSE x
Ascending == \A j, k \in 1..Len(leaves) : j < k => Seen(PageNo(leaves[j])) < Seen(PageNo(leaves[k]))

\* A descent never leaves the part of the tree that can hold the page: if a leaf
\* has the page, temp spans it.  So a descent that fails fails rightly.  Each descent
\* needs no more than that the leaves ascend as it compares them: getMHash is right
\* also where the padding's page numbers have wrapped around, or the pages' are
\* negative, and updateMTree where the first are negative.
DescentKeepsPage ==
  apc \in {"get", "descend"} /\ Ascending =>
    \A k \in 1..Len(leaves) : Seen(PageNo(leaves[k])) = pgno => lo(temp) <= k /\ k <= hi(temp)

\* With a tree in hand the driver dies of no update as long as the data set has at most
\* two to the NodeListLen - 1 pages (2^29 in the code): padding makes the tree no higher
\* than that needs, and a path has one node for each level.
NodeListSuffices ==
  pmhtroot # NULL /\ pds.m_size <= Pow2[NodeListLen - 1] => apc # "crash"

\* selectHash looks at every page of a sorted request, once and in order, however
\* often the request repeats it ("the pages are all in order, no sort is added").
Sorted(list) == \A j, k \in 1..Len(list) : j < k => list[j] <= list[k]
EachPageOnce ==
  apc = "ready" /\ verdicts # <<>> /\ Sorted(request) =>
    /\ \A k \in 1..(Len(verdicts) - 1) : verdicts[k].page < verdicts[k + 1].page
    /\ {verdicts[k].page : k \in 1..Len(verdicts)} = {request[k] : k \in 1..Len(request)}

\* selectHash finds a page if and only if the tree has a leaf for it, and then
\* accepts the page if and only if the database's hash is the one last stored for
\* that very page: at construction or by the last update that drew it.
VerdictsFollowContents ==
  Searchable /\ apc \in {"select", "get"} =>
    \A k \in 1..Len(verdicts) :
      LET v == verdicts[k]
          at == {x \in 1..Len(leaves) : PageNo(leaves[x]) = v.page}
      IN  v.equal # "unread" =>
            /\ v.found <=> at # {}
            /\ \A x \in at : v.equal = "yes" <=> DbHash(v.page) = contents[x]

\* Between updates each leaf has the hash last stored for its page: an update
\* reaches the leaf of its page and no other, and an unknown page none.
LeavesHoldContents ==
  Searchable /\ apc \notin {"main", "climb"} =>
    \A k \in 1..Len(leaves) : m_hash[leaves[k]] = contents[k]

\* The hash a Merkle tree over these leaf hashes has at its root: over[d][a] is the
\* hash of the d + 1 leaves from a on, taken half and half.
MerkleRoot(hashes) ==
  LET over[d \in 0..(Len(hashes) - 1)] ==
        [a \in 1..(Len(hashes) - d) |->
           IF d = 0 THEN hashes[a]
           ELSE LET half == (d - 1) \div 2
                IN Sha(over[half][a] \o over[d - 1 - half][a + half + 1])]
  IN over[Len(hashes) - 1][1]

\* Between updates the root hash is a function of the leaves' contents alone:
\* a tree updated in place has the root a tree built from scratch would have.
RootCommitsContents ==
  Searchable /\ apc \notin {"main", "climb"} => m_hash[pmhtroot] = MerkleRoot(contents)

\* The path stack of updateMTree holds one node per level, and is the path from the
\* root to temp.
PathIsRootToLeaf ==
  apc = "descend" =>
    /\ Len(nodeList) = LevelOf(pmhtroot) - LevelOf(temp) + 1
    /\ nodeList[1] = pmhtroot /\ nodeList[Len(nodeList)] = temp
    /\ \A k \in 1..(Len(nodeList) - 1) :
         nodeList[k + 1] \in {lchild(nodeList[k]), rchild(nodeList[k])}

\* While updateMTree climbs, nodeList is what is left of that path, and the hash in
\* the caller's buffer is that of the leaf it was called for until the leaf has it.
PathIsLeft ==
  apc \in {"descend", "climb"} =>
    /\ nodeList # <<>> => nodeList[1] = pmhtroot
    /\ \A k \in 1..(Len(nodeList) - 1) :
         nodeList[k + 1] \in {lchild(nodeList[k]), rchild(nodeList[k])}
HashReachesLeaf ==
  /\ apc = "descend" => hashRet = text
  /\ Searchable /\ apc = "climb" =>
       \A k \in 1..Len(leaves) :
         IF nodeList # <<>> /\ nodeList[Len(nodeList)] = leaves[k]
         THEN hashRet = contents[k]
         ELSE m_hash[leaves[k]] = contents[k]
ClimbInv == PathIsRootToLeaf /\ PathIsLeft /\ HashReachesLeaf

\* While updateMTree climbs, the only inner nodes whose hash is not that of their
\* children are on the path it has still to pop; outside it there is none.  Here
\* the digest is of both hashes, as updateMTree computes it and as the comment
\* in it says of the tree.
OnlyThePathIsStale ==
  apc # "main" =>
    \A n \in Nodes : Inner(n) =>
      \/ apc = "climb" /\ \E k \in 1..Len(nodeList) : nodeList[k] = n
      \/ m_hash[n] = sha256_2(lchild(n), rchild(n))

\* The data sets whose pages are handed over in order, with numbers that are not negative
\* and below the sentinel: those Ordered and the first part of InRange are true of.
Orderly ==
  {d \in DataSets \ {NullDs} :
     /\ \A j, k \in 1..d.m_size : j < k => d.m_pDE[j].m_index < d.m_pDE[k].m_index
     /\ \A k \in 1..d.m_size : d.m_pDE[k].m_index \in 0..(UNASSIGNED_INDEX - 1)}

\* The tree, updated node by node, is to the driver a table of pages with a
\* commitment that is renewed after every write and before the next call.  For the
\* other data sets, and where padding has wrapped around, it is the empty table.
Loaded == apc # "main" /\ pmhtroot # NULL /\ pds \in Orderly /\ \A k \in 1..Len(leaves) : PageNo(leaves[k]) >= 0
LeafTable == [k \in 1..Len(leaves) |-> [page |-> PageNo(leaves[k]), hash |-> m_hash[leaves[k]]]]
Table == IF Loaded THEN LeafTable ELSE <<>>
Root == IF Loaded THEN m_hash[pmhtroot] ELSE Garbage
Answer == IF ~Loaded \/ verdicts = <<>> THEN Garbage ELSE verdicts[Len(verdicts)]
Pages == INSTANCE PageMap WITH
           Commit <- MerkleRoot, None <- Garbage, table <- Table, root <- Root, answer <- Answer
IsPageMap == Pages!MapSpec

\* Every call of selectHash or updateTime comes to an end.
CallsReturn == (apc # "main") ~> (apc \in {"ready", "crash", "exited", "returned"})

-----------------------------------------------------------------------------
(* Statements of the documentation that the code does not keep *)

\* "compare the hashes": what is compared with the page's hash is the hash the
\* tree holds for that page.
ComparedWithThePagesHash ==
  \A k \in 1..Len(verdicts) : verdicts[k].equal = "yes" => verdicts[k].found

=============================================================================
