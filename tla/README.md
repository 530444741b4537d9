# A verification project for the in-memory Merkle hash tree

The repository is a small C program, one thread, that keeps a Merkle hash tree
(MHT) in memory over the pages of an SQLite database.  `create_mht_from_ordered_ds`
builds the tree from an ordered data set of pages and their hashes; the driver
`test_1.c` then runs queries, compares the hash of every page a query touched with
the one in the tree, and replaces the hashes of pages that were updated.  This
directory holds TLA+ modules that model it, TLC configurations that check them on
small instances, and proofs that TLAPS checks for every data set.

Contents: 1 the system, 2 the modules and the code, 3 the runs, 4 the proofs,
5 disagreements between documentation and code, 6 what is not modelled,
7 what comes next.

## 1. The system: components, state, operations

| component | state it keeps | operations | correct means |
|---|---|---|---|
| tree construction, `mht.c` | the queue of subtrees not yet combined, the nodes | `create_mht_from_ordered_ds`, `process_queue`, `deal_with_remaining_nodes_in_queue`, `get_the_last_leaf_node_index` | the tree is perfect, of least height, its leaves are the data set in order and then padding; no node is lost, none is released; page numbers of inner nodes divide their subtrees; the call returns |
| node constructors, `mhtdefs.c` | none of their own | `makeMHTNode`, `combineNodes`, `makeZeroMHTNode`, `generateCombinedHash_SHA256`, `get_the_right_most_child` | an inner node's hash is the digest of its children's hashes; its page number is that of the right-most leaf on its left |
| queue, `dbqueue.c` | doubly linked cells behind a header, `pQHeader`, `pQ` | `initQueue`, `enqueue`, `dequeue`, `dequeue_sub`, `dequeue_sppos`, `peekQueue`, `lookBackward`, `search_node_by_level`, `freeQueue`, `freeQueue2`, `freeQueue3` | a first-in first-out queue; the links stay consistent; nothing leaks or is freed twice |
| lookup, verification and update, `test_1.c` | the hashes in the tree, the buffers `mhash` and `hashRet`, the path stack `nodeList` | `selectHash`, `diffPgno`, `getMHash`, `updateTime`, `updateMTree` | every page of the tree is found, and no other; an update changes the leaf of its page and the path above it, after which the root hash is that of a tree built anew |
| data sets and their sources, `utils.c` | `DATA_SET`: an array of `(m_index, m_pdata)`, `m_is_hashed` | `gen_ds`, `gen_ds_from_dbfile`, file generators | ordered, sized as told, owned by one holder |
| release, `mht.c` | ownership of data sets and trees | `free_ds`, `free_mht_postorder` | everything allocated is freed once |
| data elements, `dataelem.c` | a `DATA_ELEM` | `de_init`, `de_create`, `de_free` (no caller) | as above |
| SHA-256, `sha256.c` | block buffer, bit count, chaining value | `sha256_init`, `sha256_update`, `sha256_final`, `convert_hash_to_string`, `compare_two_hashes` | chunking makes no difference; padding of the last block |
| helpers, `defs.c` | none | `is_power_of_2`, `cal_the_least_pow2_to_n` (no caller), `check_pointer_ex` | arithmetic at 0 and the ends of `int` |
| stubs, `mht.c` | none | `verify_spfc_dataelem_int`, `create_mht_from_ordered_ds_file` | they return 0 |
| SQLite, `sqlite3.h` (vendored) with the fork's `getInfo1`, `getSelectPgno`, `getCount` | outside | read pages | external |

**How they interact.**  `main` calls `gen_ds_from_dbfile`, hands the data set to
`create_mht_from_ordered_ds`, and the root it gets to `selectHash` and `updateTime`,
whatever the earlier calls returned.  Construction keeps the roots of the trees built
so far in the queue, and consumed nodes among them: each cell's `m_ptr` points to an
MHT node, and combining two nodes leaves both in the queue until a *drain* takes them
off the front.  `freeQueue` releases the MHT nodes of whatever is left in the queue,
so construction is right only if nothing of the tree is.  `updateMTree` and
`getMHash` rely on the page numbers construction gave to the inner nodes.

**What is hard.**  There is no concurrency, no persistence and no message: the hazards
are of *sequences* and of *boundaries*.  For each size of the data set the scans,
combinations, drains and padding leaves interleave differently; the queue contains nodes
which must be passed over; the padding loop compares with a level read before it
began; the padding's page numbers continue the data's up to the end of `int`; binary
hashes are treated as C strings; a buffer keeps the previous page's hash; the
tree is half updated during a climb; messages are cut anywhere into chunks and blocks.  Two
things come from outside: each call of the database or of the file system may fail, and
another process may write the database between two calls that read it, while memory
has to keep an owner on each of the early returns.  `PROJECT.json` lists every hazard at its line,
with the properties that would catch it.

## 2. The modules and the code

| module | what it is |
|---|---|
| `MhtBuild` | the call `create_mht_from_ordered_ds`, one action per loop iteration |
| `MhtBuildProps` | what a caller relies on, and the inductive invariants |
| `MhtBuildProofs`, `MhtBuildOrderProofs`, `MhtBuildCountProofs` | theorems about construction: the queue; the order of leaves, hashes, separators; sizes, and the finished tree |
| `MhtAccess` | the driver on that tree; EXTENDS `MhtBuildProps`, so its behaviours begin with a construction |
| `PageMap` | what the tree is to the driver: a table of pages with a commitment |
| `MhtAccessProofs` | theorems about descents, updates, the root and `selectHash` |
| `FifoQueue` | the abstract sequence the queue promises |
| `DbQueue`, `DbQueueProofs` | the linked cells; they implement `FifoQueue` |
| `Sha256Stream`, `Sha256Proofs` | `sha256_init`, `sha256_update`, `sha256_final` on one context |
| `Sha256Transform` | `sha256_transform`, on 32-bit words; no theorem |
| `DataSets` | data sets and data elements in memory: who holds what, and what is released |
| `DsFile`, `HashText`, `Defs` | the file generators, `convert_hash_to_string`, the arithmetic helpers |
| `DataSetsProofs`, `RoutinesProofs` | theorems about `DataSets`, and about `DsFile`, `HashText` and `Defs` |
| `MCMhtBuild`, `MCMhtAccess`, `MCDbQueue`, `MCSha256`, `MCRoutines` | instances for TLC |

**`MhtBuild`.**  A pointer to an MHT node is the node's number in order of
allocation, `NULL` is 0, and `heap` and `m_hash` are the nodes' fields; `queue` is the
sequence of nodes the cells point to (that cells implement such a sequence is what
`DbQueue` shows).  `pc` says which loop runs and `phase` on behalf of
which routine: `process_queue` and `deal_with_remaining_nodes_in_queue` contain the
same scan and the same drain, and share the actions.

| actions | code |
|---|---|
| `RejectNull`, `InitQueue` | `mht.c` 44-50 |
| `FeedLeaf` | one iteration of the `for` loop up to the call of `process_queue`, 52-67, and its start, 117-122 |
| `ScanStop`, `ScanSkip`, `ScanMatch` | the backward `while`, 123-138 and 222-236: it ends at the header or a higher node, passes a lower one, combines with an equal one |
| `WalkRight`, `Combine` | `combineNodes`, `mhtdefs.c` 27-55, with the walk of `get_the_right_most_child`, 133-145 |
| `Drain`, `DrainStop` | the forward `while` of dequeues, 140-158 and 238-256; `process_queue` also marks leaves it drops |
| `StartPadding`, `PadLeaf` | `deal_with_remaining_nodes_in_queue`, 203-221 |
| `LeaveLoops`, `PopRoot`, `PopEmpty` | 68-95: the root leaves the queue, `freeQueue` releases the rest; with an empty queue the NULL from `dequeue` is dereferenced, `pc = "crash"` |

`leaves` and `span` are history variables (the leaves in order of creation; the first
and the last leaf below each node) that no guard reads.  `Increment` wraps an `int`
around, as the build does, at `MAX_SIGNED_INT`, which is a parameter.

*Hashes.*  A digest is a sequence of byte tokens and `Sha` an opaque function of the
message; the instances use an injective one.  `generateCombinedHash_SHA256` is modelled
with its `strlen`: what follows a zero byte in the buffer is not hashed.  A random
32-byte digest contains a zero byte with probability 1-(255/256)^32, nearly one in
eight, so this is no corner.  The passing runs take digests without zero bytes, and
the theorem about hashes has that as its hypothesis; `build_nul` shows
what happens otherwise.

**`MhtAccess`.**  One action per step of a descent and of the climb.  The query's page
list (`getSelectPgno`), the database's hashes (`getInfo1`), the random pages and texts of
`updateTime` are inputs.  `mhash`, uninitialised in the code, holds at each call either
garbage or what the previous call left on the stack.  A database that does not open ends the
program (`SelectHashExits`).  A NULL root (a data set that could
not be read) leads to `DereferenceNullRoot`, and a path longer than `nodeList` to
`UpdateOverruns`: the length of that array, 30 in the code, is the parameter `NodeListLen`.
`getMHash` compares page numbers as unsigned
(`AsUnsigned`), `updateMTree` as signed.  `request`, `verdicts` and `contents` are history.

**`DbQueue`.**  A cell is an address, `malloc` picks any free one and fails when there is
none, a freed cell forgets what it held.  `word` is the union of `m_ptr` and `m_qsize`.
`Used` has the calls `mht.c` makes, `Declared` all that `dbqueue.h` declares.  The calls
are single actions, `freeQueue` and `freeQueue2` one per iteration.

`MainReturns` is main's last call, `free_mht_postorder`: it frees a node only if the
pointer to it is NULL, so the tree stays as it is.

**`PageMap`** is the refinement target of `MhtAccess`: a table of `[page, hash]`, a root that
is a commitment to the hashes, and the last answer.  `Load` is the end of construction, `Lookup` a
verdict, `Write` the climb's first step, which sets the leaf, and `Recommit` its last, which sets
the root; the steps between them stutter.  While the commitment lags nobody looks up or
writes, and it does not lag for ever.  The driver promises no table for a data set that is out of order or
out of range: it maps to the empty table, and the page table takes no step.

**`Sha256Stream`.**  `data`, `datalen`, `bitlen`, `state` are `SHA256_CTX`; an iteration of
the loop of `sha256_update` is an action, as are the two branches of the padding in `sha256_final`
(`PadShort`, `PadLong`) and what follows them (`AppendLength`).  The loop's counter is an `unsigned
int` and the length a `size_t`: a chunk the counter cannot pass (`CounterReaches`) never ends
(`CallUpdateForever`).  `sha256_init` leaves the
buffer as the message before left it, and a context's first buffer is garbage (`StaleData`).  The
compression function is a parameter, so that the theorem holds for each.
`Sha256Transform` has the code's, on words that are pairs of 16-bit halves, since TLC's
integers have 32 bits and a sign.  `AbsorbsPaddedMessage` compares the blocks compressed
with the padding the standard defines, which is stated apart from the code (`PaddedByte`).

**`DataSets`.**  `mem` maps the addresses of live blocks to what they hold; addresses are not
used twice, so that a pointer to released memory shows.  A client owns `pds` and `pelem` and makes
calls one after another:

| actions | code |
|---|---|
| `CallFreeDs`, `FreeElement`, `FreeSet` | `free_ds`, `mht.c` 3-22; also called by the generators for the set they replace |
| `CallGenDs`, `GenSet`, `GenString`, `GenElement`, `GenReturns` | `gen_ds`, `utils.c` 182-205, with `generate_random_string` of `defs.c` |
| `NegativeString` | the same with a negative `string_len`: `memcpy` from the NULL that `generate_random_string` returns |
| `CallFromDb`, `Open`, `Exec`, `Count`, `AllocateTemps`, `ReadPages`, `Collect`, `BuildSet`, `CopyPage`, `Publish` | `gen_ds_from_dbfile`, 40-107: opening and each query may fail |
| `CountUnknown` | `getCount` returned -1: `memset` writes to the NULL that `malloc` of -1 elements gives |
| `CallPageCount`, `Close` | `get_page_count_from_db`, 7-28, with the same `Open`, `Exec` and `Count` |
| `DatabaseChanges` | another process commits between `getCount` and `getInfo1` |
| `CallDeCreate`, `CallDeFree` | `dataelem.c` 8-50 |

**`DsFile`** is `gen_ds_file` and `gen_hashed_ds_file` (`utils.c` 109-180).  The file is a stream
of bytes without frames (`written`): a record is what stands at a multiple of `buffer_len`.  The file may not
open, and each `write` may store any number of the buffer's first bytes, which the code does not look at; the next one
goes where it ended, so a short write moves every record behind it
(its variables `wpc` and `wi` are the place in the function and the code's `i`).
**`HashText`** is `convert_hash_to_string` (`sha256.c` 161-182), one action per `sprintf`, either pointer
NULL or not; the
byte behind the array `tmp_string` is part of the state, since the last `sprintf` writes to it, and
is padding in the build: nothing reads it.
**`Defs`** has `is_power_of_2` and `cal_the_least_pow2_to_n` (`defs.c` 37-43) with the
wrap-around of the width; the `log10` quotients are exact where it matters, at the powers of two
and next to them.

Definitions that begin with the comment `Mutant:` are not part of any specification.
Each is the form a plausible bug would give to the definition after it, and each
property is known to be violated by one of them (`PROJECT.json`, "mutants").

## 3. The runs

| run | checks | result |
|---|---|---|
| `build` (`MCMhtBuild.cfg`) | `TypeOK`, `RootHoldsDataSet`, `QueueCountsLeaves`, `SeparatorsDivide`, `EveryNodeIsInTree`, `FlagsMarkPadding`, `PaddingIsLeast`, `InnerHashIsHashOfChildren`, `BuildInv`, `CallReturns` | hold; 7 797 states |
| `access` (`MCMhtAccess.cfg`) | `AccessTypeOK`, `DescentKeepsPage`, `NodeListSuffices`, `EachPageOnce`, `VerdictsFollowContents`, `LeavesHoldContents`, `RootCommitsContents`, `OnlyThePathIsStale`, `ClimbInv`, `CallsReturn`, `IsPageMap` | hold; 78 539 states |
| `queue_used` (`MCDbQueueUsed.cfg`) | `DbTypeOK`, `NothingLeaks`, `IsFifo` | hold; 73 024 states |
| `queue_declared` (`MCDbQueueDeclared.cfg`) | `WellLinked`, `ReleasedAreGone`, `SearchFindsLast`, `IsSequence` | hold; 242 928 states |
| `routines` (`MCRoutines.cfg`) | `DsInv`, `WholeAtRest`, `HoldsWhatWasRead`, `FitsTheCount`, `LosesNoDataSet`, `HeldOrNone`, `SizeShowsDamage`, `TextIsHash`, `AbsorbsPaddedMessage`, `KnownAnswers` | hold; 78 015 states |
| `build_nul`, `build_empty`, `build_marks`, `access_stale`, `queue_sppos`, `queue_free2`, `helpers` | one statement of the documentation each | violated, see 5 |

**`build`** shows that construction returns the least padded perfect Merkle tree
over its data set.  Between two leaves the queue is a binary counter
(`QueueCountsLeaves`): the live trees have the levels of the bits of the number of
leaves.  *Bounds*: all subsets of the pages 0..5, with data and with hashes (the empty
one included, which crashes); one data set of each size from 1 to 17; every subset of the last six
`int`s, with `int` cut down to end at 20.  A size decides the whole sequence of scans and drains
and page numbers decide none of it but the marking, so sizes to 17 meet every carry
pattern of up to four combinations, padding from none to 15 leaves, and the size past a power of
two; what holds for *every* size is in part 4.  Page numbers matter for the separators
and at the end of `int`, where the subsets of the last six make the padding wrap and meet the sentinel
`UNASSIGNED_INDEX`.  `SeparatorsDivide` and
`FlagsMarkPadding` are stated of data sets that are ordered (the header's precondition) and
leave room for the padding's indices (`InRange`); `build_marks` shows what happens at the
end of the range.  There is no `CHECK_DEADLOCK FALSE`: a finished call stutters
(`Returned`) and any other state must have a step.

**`access`** shows that `selectHash` finds exactly the pages of the tree, compares each
with the hash last stored for it, and that after each update the root is the one a
tree built from scratch over the present leaf hashes would have.  During a climb only nodes still
on the stack are stale, and the whole implements `PageMap`.  Descents are right under what each of them needs:
`getMHash` wherever the page numbers ascend as unsigned numbers, `updateMTree` where they ascend as
ints (`DescentKeepsPage`).  `nodeList` has room for the path in every tree of at most 2^(`NodeListLen` - 1) pages
(`NodeListSuffices`).  *Bounds*: trees of height 0 to 3 with zero, one and three padding
leaves; a tree whose padding has wrapped around, two data sets with negative page numbers, one ascending as
unsigned numbers and one as ints, and one of nine pages, which is one more than a `nodeList` of
four entries takes, so that `UpdateOverruns` happens; two calls (`MaxCalls`) of up to two updates each (`MaxUpdates`), which
gives select after update, update after select, two updates of the same and of
different pages; pages drawn below the first, past the last, absent between two, and
those only a padding leaf has; queries with repetitions, absent pages and an unsorted
list.  `CHECK_DEADLOCK FALSE`: the driver makes a bounded number of calls and stops.

**`queue_used`** and **`queue_declared`** show that the list implements a sequence
(`IsFifo` and `IsSequence` are the abstract `FifoQueue` specifications under the
refinement mapping `q <- the m_ptr of the cells in chain order`), with four and five cells
(one is the header's) and four MHT nodes of two levels: queues of up to four elements,
removals from the front, the middle and the end, `malloc` failing.  The cells are
interchangeable, and so are the nodes of a level, hence the symmetry sets; every property
checked under symmetry is a safety property and names no cell or node.  `queue_used` has the calls of `mht.c` alone and five cells; what is not specific to it
(`WellLinked`, `SearchFindsLast`, `ReleasedAreGone`) is checked with all calls.  `queue_declared` leaves out `NothingLeaks`, which `freeQueue2` and a second `initQueue` break, and says of a
removal only that one element goes and the others keep their order: which one, the code
and its header disagree about (`queue_sppos`).

**`routines`** puts four parts that do not interact into one run: a behaviour runs one of them.

- `DataSets` with three calls, database contents of none to three pages, sizes -1, 0, 2 and
  lengths -1, 0, 3: three calls give a set replaced by either generator and then freed, with each
  database call failing on the way.
- `DsFile` with `data_block_num` of -1, 0, 1, 3 and `string_len` of -1, 0, 2, an `int` of two bytes and a digest of
  three, so that each write of up to five bytes may end at every byte.
- `HashText` with hashes of 4 bytes instead of 32 (every byte is treated
  alike) from four values, either pointer NULL, and buffers that are absent, one too short, just enough, and
  larger.
- `Sha256Stream` with the code's compression function: a message of up to 130 bytes, all
  different, so three blocks and every edge of the padding (55, 56, 57, 63, 64, 65, 119, 120);
  two texts of `sha256_test.c` and "0"; chunks that end at each of these places or nowhere else, empty ones
  included; any message after any other on one context; a loop counter of 129 values, so that a chunk
  of 129 bytes or more is one `sha256_update` does not return from.

`CHECK_DEADLOCK FALSE`: calls return, clients stop, and `CountUnknown`, `CallDeFree`, `NegativeString` and `NegativeLength`
crash, as the program does.

What `Sha256Stream` shows: chunking and the buffer's history make no difference, and what is compressed is the
padded message.  The digests are two of the three that `sha256_test.c` expects (the third, of a million letters
in 100 000 chunks, lines 47-51, is left out), and the constant hash of
the padding leaves (`defs.c`) is the digest of "0".  What `DsFile` shows: a short write goes
unnoticed, but not without a trace: the records before it stand at their offsets, each with its number and its string, and the
file is shorter than the records asked for (`SizeShowsDamage`).

What `DataSets` shows: a set the client holds is whole and is what was read, nothing is written
past the arrays although the database grows in between, a released or replaced set leaves nothing behind, and a set never
changes under its holder.  `LosesNoDataSet` names what *is* lost: the connection, the error message
and the page information that `gen_ds_from_dbfile` never gives back, and `de_free`'s element.

**`helpers`** is the one run of `Defs`, with every argument of 8 bits: the two helpers do not do what `defs.h` says of them
(part 5); what they do instead is a theorem.

**Fairness.**  One thread runs, nothing in it blocks, and every loop iteration is
one action, so weak fairness of the call's steps (`BuildStep`; in `MhtAccess` the steps
of a call that has begun) is what the code's scheduling gives.  `main` need not make
another call, so beginning one is not fair.  The liveness properties are `CallReturns`
(padding ends) and `CallsReturn` (descents and climbs end).

## 4. The proofs

All hold for every value of the constants under the named assumptions of the modules.
For `MhtBuild` these are `DataSetsAssumption` (a data set has a natural size and integer
indices; *not* that it is ordered) and `IntAssumption` (the largest int is a natural number
and the padding's start is not above it); for the driver `AccessAssumption` (the inputs have their types); for the queue
`CellsAssumption` (finite memory, `NULL` is no cell; levels are natural numbers); for SHA-256 the four on `Byte`, the messages and
the buffer, and `UintAssumption` (an unsigned int has a value); for data sets `DataSetsAssumption` of `DataSets` (pages are sequences with natural numbers, lengths
and sizes any integers); for the files `FileAssumption` (integers, and an `int` has a byte); for the text of a hash `TextAssumption` (naturals); for the helpers
`WidthAssumption` (an `int` has a sign bit and another).

| theorem | states |
|---|---|
| `Inductive` (`MhtBuildProofs`) | `Spec => []IInv` |
| `TypeCorrect` | `Spec => []TypeOK`: no step reads a node or a cell that does not exist |
| `NothingIsLost` | `Spec => []EveryNodeIsInTree`: when a tree is handed out every other node allocated is some node's child, and `freeQueue` released none |
| `NothingIsReordered` (`MhtBuildOrderProofs`) | `Spec => []LeavesInOrder`: below the root, left to right, stand the data set's elements in order and then padding |
| `HashesAreMerkle` | if no digest that occurs contains a zero byte, `Spec => []InnerHashIsHashOfChildren` |
| `SeparatorsAreRight` | `Spec => []SeparatorsDivide` |
| `OnlyPaddingIsMarked` | `Spec => []FlagsMarkPadding` |
| `ConstructionIsKept` (`MhtBuildCountProofs`) | `Spec => []BuildInv`: `IInv`, `OrderInv`, `SearchInv` and `CountInv` together |
| `QueueIsCounter` | `Spec => []QueueCountsLeaves`: between two leaves the queue is a binary counter |
| `PaddingStopsInTime` | `Spec => []PaddingIsLeast`: never more leaves than the least power of two with room for the data set |
| `TreeIsWhole` | `Spec => []RootHoldsDataSet`: the child pointers of the tree handed out lead to 2^height leaves, the data set in order and then padding, and no lower tree would do |
| `DescentIsRight` (`MhtAccessProofs`) | `AccessSpec => []DescentKeepsPage`: wherever the leaves ascend as the descent compares them, signed or unsigned |
| `NodeListIsLongEnough` | `AccessSpec => []NodeListSuffices`: a tree of at most 2^(`NodeListLen` - 1) pages, 2^29 in the code, has no path longer than `nodeList` |
| `StackHoldsPath`, `ClimbsAreRight` | `AccessSpec => []PathIsRootToLeaf`, `AccessSpec => []ClimbInv` |
| `UpdatesReachTheirLeaf` | `AccessSpec => []LeavesHoldContents` |
| `UpdatesRestoreHashes`, `RootIsOfContents` | if no digest contains a zero byte, `AccessSpec => []OnlyThePathIsStale` and `AccessSpec => []RootCommitsContents` |
| `VerdictsAreRight` | `AccessSpec => []VerdictsFollowContents` |
| `DriverTypes`, `EveryPageIsLookedAt` | `AccessSpec => []AccessTypeOK`, `AccessSpec => []EachPageOnce` |
| `DriverIsPageMap` | if no digest contains a zero byte, `AccessSpec => Pages!MapSteps`, for every data set: the tree and the driver implement the page table |
| `QueueTypes`, `QueueIsLinked`, `ReleasesAreRight` (`DbQueueProofs`) | `DeclaredSpec => []DbTypeOK`, `[]WellLinked`, `[]ReleasedAreGone` |
| `SearchIsRight` | `DeclaredSpec => []SearchFindsLast` |
| `QueueIsSequence` | `DeclaredSpec => IsSequence`: the list implements a sequence from which a removal takes one element |
| `UsedIsSafe`, `NoCellIsLost` | the same of `UsedSpec`, and `UsedSpec => []NothingLeaks` |
| `QueueIsFifo` | `UsedSpec => IsFifo`: the list implements the abstract queue |
| `PaddingIsStandard` (`Sha256Proofs`) | `StreamSpec => []AbsorbsPaddedMessage` |
| `DataSetsKept` (`DataSetsProofs`) | `DsSpec => []DsInv` |
| `WholeBetweenCalls`, `PagesArrive`, `NeverOverfills`, `NoDataSetIsLost` | `DsSpec => []WholeAtRest`, `[]HoldsWhatWasRead`, `[]FitsTheCount`, `[]LosesNoDataSet` |
| `NoSetChangesInHand` | `DsSpec => HeldOrNone`, an action property |
| `DamageShows` (`RoutinesProofs`) | `FileSpec => []SizeShowsDamage` |
| `HashIsPrinted` | `TextSpec => []TextIsHash` |
| `HelpersAreRight` | `DefsSpec => []HelpersReturn`, for every width of an `int`: what the helpers return, which is not what `defs.h` says |

**The argument for `IInv`.**  `EveryNodeIsInTree` speaks of the end of the call and is not
inductive.  What carries it: the queue is the newest nodes in order of
allocation (`QueueIsSuffix`); call a node *live* if it is no node's child.  Live nodes
never leave the queue and the newest node is live (`LiveAreQueued`); their levels fall
from front to tail, except that while a scan runs the tail may be level with the one before
it (`LevelsFall`); a consumed node is lower than the next live node behind it
(`ConsumedAreLow`).  So the backward scan, which passes lower nodes and stops at a higher
one, meets consumed nodes only (`ScanPosition`) until it finds the last live node
before the tail, and combines exactly those two; when it ends without a
match the levels fall strictly (`StopMeansStrict`).  The front of the queue is live unless a combination has
just consumed it, and then the tail is the only live node (`FrontIsLive`), so the
drain takes consumed nodes alone and ends with the front live again
(`DrainedAreConsumed`).  While padding runs the front keeps the level read at its start, until
one tree is left, whose level is higher (`PaddingLevel`): so the loop's test
`tail level > qHeaderLevel` says "one live node", and with `FrontIsLive` one node in the queue.
`NodeShape` and `Control` tie the rest.  There is one lemma per action; the
allocating ones rest on `EnqueueStep`, `EnqueueLeafStep` and `CombineStep`, which say
how `Live` changes.

**The argument for `OrderInv`.**  The history variable `span` gives every node its first and last
leaf.  Given `IInv` the two nodes combined are neighbours among the live ones, whose spans
adjoin (`LiveSpansAdjoin`), so the new span is put together of its children's
(`SpansNest`); `LeafCount` ties the loop counter to the number of leaves, and when one live
node is left its span is all of them.

**The argument for `SearchInv`.**  A leaf's span is itself, and if the data set is ordered and leaves room for the padding's
indices the leaves' page numbers increase with their
place (`PagesIncrease`, `PaddingContinues`).  Of every data set: the walk of `get_the_right_most_child` goes from the left
subtree's root to right children only, whose spans end where the left one's ends (`WalkStaysRight`), so it ends
at the leaf with which that span ends, and the new node's page number is that leaf's
(`Separators`).  Numbers that increase with the place are divided by it.

**The argument for `CountInv`.**  A node of level l spans 2^l leaves (`SpanWidth`), and where the levels of the live
nodes fall strictly, the leaves behind one are fewer than it spans (`RestIsSmaller`), as in a binary numeral.  When
padding starts from a front of level q there is another live node behind it, so the data set is larger than
2^q; while padding runs the leaves are at most twice 2^q, and the tree that ends it has level q+1
(`PadLeafCount`, `CombineCount`).  From this `PaddingStopsInTime`, and with `LeavesInOrder` the order and number of leaves of
`TreeIsWhole`: that the recursive functions `LeavesBelow` and `Below` exist, and meet the
leaves of a node's span in order, is shown node by node, since children are older than their
parent.  For `QueueIsCounter` the leaves before a live node are a multiple of twice what it spans
(`SpanStartsEven`), so its span ends at an odd multiple (`SpanEndsOdd`): its level is a set bit of the
number of leaves.  Between two live nodes no level occurs, and `NoLevelNoBit` finds a zero there.

**The argument for the driver.**  The tree is fixed once `main` has it (`TreeInv`): only hashes change.
A descent keeps, in the span of `temp`, every leaf with the wanted number (`DescentInv`): an inner node has the number of a
leaf of its own (`Separators`), so where the leaves ascend as the descent compares them the comparison with it says on which
side a leaf is (`ChildSpans`), whether or not they ascend as ints.
The stack is the path to `temp` (`StackInv`), and with it the climb reaches the ancestors of the
leaf written and no other node, from below: so what is stale is on the stack (`HashInv`),
and what a leaf holds is what was stored for its page (`LeafInv`).  The path has a node for each level, and `CountInv`
bounds the height of the finished tree (`HeightInv`, `HeightIsLeast`): a path of more than `NodeListLen` nodes is in a
tree of more than 2^(`NodeListLen` - 1) pages (`OverrunNeedsPages`).  A verdict is then about that hash
(`VerdictInv`).  For the root, all leaves have level 0 and children one level below their parent, so that spans have
2^level leaves and a node's hash is the one `MerkleRoot` defines of its span.  `MerkleRoot`, `diffPgno` and
the queue's `Chain` are recursive functions over numbers; facts about them are proved by taking the least
number at which they fail, from the well-foundedness of `<` on `Nat` (`UpTo`), since the library's
induction theorems cannot be instantiated.

**The argument for the refinement.**  When the climb is about to write its leaf nothing is stale yet (`FreshInv`), and
a tree without a stale hash has the root `MerkleRoot` gives its leaves (`TableInv`): so `Write` starts from a table that is
committed to.  Popping a node under the root changes neither leaf nor root; popping the root leaves nothing stale, so it is
`Recommit`.  The mapping says itself when there is a table (`Loaded`: the tree is there, the data set in order and in range,
and the padding has not wrapped around); that cannot change once `main` has the tree (`FixedStep`), and elsewhere the empty table
stutters, so nothing is assumed of the behaviour.

**The argument for the queue.**  `ListInv` says that while there is a queue, and while `freeQueue` empties it, there is
a sequence of cells, without repetition, the header first and `pQ` last, of which `next` and `prev` are
the links (`IsList`), and that the cells' words differ.  It says nothing of other cells but that
they are allocated: a second `initQueue` and `freeQueue2` leave some behind.  `freeQueue2` keeps neither `prev` nor
`pQ` nor the count, so while it runs only the chain of `next` is left of the list (`IsRest`).
All removals and both loops take one cell out; that the others remain a list is proved once, for a cell
at any place (`CellTaken`), and each routine is shown to do that for its place (`DequeueRemoves`,
`DequeueSubRemoves`, `DequeueSpposRemoves`, `FreeLoopKeeps`).  `Chain`
computes the sequence of cells, so the refinement mapping is the words along it, and a removal changes it as the abstract
step at the cell's place does (`RemovalTakes`).  `NothingLeaks` is kept by the calls of `mht.c` alone (`UsedInv`): the cells the caller
does not hold are those of the list (`NothingLeaksIf`).

**The argument for SHA-256.**  `StreamInv` is inductive: while data is taken, the blocks and the buffer up to
`datalen` are the message so far (`Buffered`); once padded, everything but the length is in place (`PaddedInv`).

**The argument for `DsInv`.**  None of the five properties of data sets is inductive: in the middle of a call the set is
half freed or half made.  There is one data set at a time (`Cur`), the client's or the one `gen_ds_from_dbfile` is
building, and its *filled* elements (`Filled`) are those the loop has set, or those `free_ds` has not come to.
`SetInv` says that filled elements have blocks of their own, of the length stated, and hold what was
read; `Carried` says the same of the temporary arrays on the way.  `SetsOwned` and `LocalsOwned` give every
block of a kind that must not be lost its owner; `Control` says which pointers are set at which line.  A step either leaves
the blocks of the set alone (`KeepsSets`, `Quiet`), or sets or frees one element
(`ElementSet`, `ElementFreed`): that moves the border of `Filled` by one, and the block's address is
new or no other element's.

**The two small ones.**  `FileInv`: until the file has been opened it is the old one; then the file begins with the records before
the first that was cut, each at its offset, and is no longer than the records written so far, and as long only if
none was cut: a later write appends, so it can neither disturb those records nor make up for the missing bytes.  `TextInv`: the digits of the first `i` bytes
are in the array, and the zero of the last `sprintf` stands where the next byte's digits go.

**The argument for the helpers.**  `And` works from the lowest bit to the halves of its operands.  An odd number above 1 shares all
but its lowest bit with the one below it, and is no power of two; an even one shares with the one below it twice what their
halves share, and these are neighbours again (`AndWithPredecessor`, by complete induction over a set of counterexamples).
Negative arguments are their bits, of which the least int's are the one power of two (`PowerTest`).
The least power is the first the exponent reaches (`LeastPower`).

**What the prover asks of the definitions.**  Powers of two are a recursive function (`Pow2`), since the prover knows nothing about `^` with
a variable exponent, and memory changes by `Put` and `Without`, since it does not know `@@`; `&` is a
recursive function on the halves of its operands instead of the library's, whose module declares a RECURSIVE operator.  Its
temporal steps do not take formulas of a named instance, so each module of proofs EXTENDS the one it is about.

**Only model-checked.**  Liveness (outside the prover's reach), and with it the half of `IsPageMap` that says the
commitment catches up; its steps are `DriverIsPageMap`.
`KnownAnswers`, whose module `Sha256Transform` needs `Bitwise` and a
RECURSIVE operator.  The inductive invariants `BuildInv`, `ClimbInv` and `DsInv` are properties of runs as well: TLC shows by which steps
a change would break them.

## 5. Where documentation and code disagree

Each is a run that finds a statement of the repository violated; all in `PROJECT.json`,
"findings", with the lines quoted.

- `build_nul`: `generateCombinedHash_SHA256` hashes `strlen` of two binary hashes
  (`mhtdefs.c:127`).  `updateMTree` hashes all 64 bytes, so tree and update differ.
- `build_empty`: an empty data set makes `create_mht_from_ordered_ds` dereference NULL (`mht.c:78`).
- `build_marks`: a data page with the largest `int` as its number is marked as padding (`mht.c:149`).
- `access_stale`: after `getMHash` failed, `selectHash` compares the page with the hash of an
  earlier page (`test_1.c:107`).
- `queue_sppos`: `dequeue_sppos` of the last cell removes the first (`dbqueue.c:167`).  No caller.
- `queue_free2`: `freeQueue2` forgets the last cell and its MHT node (`dbqueue.c:214`).  No caller.
- `helpers`: `is_power_of_2` returns 0 for 0 and the least `int` as well (`defs.c:38`, against `defs.h:108`), and
  `cal_the_least_pow2_to_n` of a power of two is that power, not "larger than n" (`defs.c:42`, against `defs.h:113`).  No caller.

Seen while modelling, without a run of its own, and no part of "findings":

- `free_mht_postorder`, with which `main` ends, frees a node only if the pointer to it is NULL (`mht.c:298`),
  so it frees nothing (`MainReturns`).  `de_free` is written the same way (`dataelem.c:43`).
- `gen_ds_from_dbfile` does not close its connection, nor does `get_page_count_from_db` when it
  fails; neither frees the message of `sqlite3_exec`; `pg_info_ptr` is not freed (`LosesNoDataSet`).
- The file generators complain of arguments that are not positive, and use them (`utils.c:120`, `155`).
- The last `sprintf` of `convert_hash_to_string` puts its zero behind `tmp_string` (`sha256.c:176`).

## 6. What is not modelled, and why

- SQLite: `sqlite3.h` is a vendored header of 12 266 lines without code, of the 14 147 implementation
  lines of the repository; what the program uses of it (with `getInfo1`, `getCount`, `getSelectPgno` of a
  patched library that is not here) is modelled as inputs that may fail.
  Of the other 17 files' 2 246 lines, declarations and comments included, the model stands for 1 133.
- `malloc` failing during construction and in `DataSets`: the code does not look at its
  results there, and would stop.  `DbQueue` has it failing for cells.
- Printing (`print_ds`, `print_mht_*`, `print_pg_info_vector`, `check_pointer`, `debug_print`): no state changes.
- `generateHashByBuffer_SHA256`, `deleteMHTNode`, and `generateHashByPageNo_SHA256` but for page
  number 0: no caller.
- The stubs `verify_spfc_dataelem_int`, `create_mht_from_ordered_ds_file`,
  `gen_page_info_array_from_db`: they do nothing.
- `updateHash`, which `main` has commented out.
- The hazards without a property (`PROJECT.json`): `main` ignoring that there is no tree (`test_1.c:39`), `freeQueue3`
  (`dbqueue.c:233`), `enqueue` without memory (`dbqueue.c:93`), a count of -1 (`utils.c:67`), arguments that are not positive
  (`utils.c:120`, `197`), the sentinel as a data index, after which the tree is not ordered any more (`mht.c:208`), a chunk
  of 2^32 bytes or more (`sha256.c:104`), the byte behind `tmp_string` (`sha256.c:176`), and the two release routines that
  release nothing.  The modules have these steps and the passing runs reach them, but
  nothing in the repository says what should happen instead.

## 7. Plan

Done: construction, driver, queue, SHA-256, data sets and the small routines; the theorems of part 4, which state
every safety property of the runs but those it lists as only model-checked.

What is left, most valuable first:

1. The cells of `DbQueue` under `MhtBuild`: today `MhtBuild` has the sequence that `QueueIsFifo` shows the cells
   to implement; `search_node_by_level` and the backward walk are read off it by hand.
2. `main` from `gen_ds_from_dbfile` to `free_mht_postorder` as one module.
