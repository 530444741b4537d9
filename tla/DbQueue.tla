------------------------------ MODULE DbQueue ------------------------------
(***************************************************************************)
(* The queue of dbqueue.c: a doubly linked list of cells behind a header   *)
(* cell, with a second pointer pQ to the last cell, or to the header if    *)
(* the queue is empty.                                                     *)
(*                                                                         *)
(* A cell is an address; alloc is the set of those malloc has given out,   *)
(* and malloc fails when there is none left.  What a freed cell holds is   *)
(* forgotten: it reads as NULL until malloc gives the cell out again.      *)
(* Dereferencing NULL or freeing an address twice leads to pc = "crash".   *)
(***************************************************************************)
EXTENDS Naturals, Sequences, FiniteSets

CONSTANTS
  Cells,      \* the addresses malloc may give to QNODEs
  MhtNodes,   \* what m_ptr may point to
  m_level,    \* the level of each MHT node
  NULL

ASSUME CellsAssumption ==
  /\ IsFiniteSet(Cells) /\ NULL \notin Cells /\ NULL \notin MhtNodes
  /\ m_level \in [MhtNodes -> Nat]

VARIABLES
  pc,         \* "idle" between calls, else the loop that runs, or "crash"
  alloc,      \* the cells allocated and not freed
  next, prev,
  word,       \* the union of m_ptr and m_qsize; m_qsize in the header
  pQHeader, pQ,
  held,       \* the cells a removal has returned, the caller's to delete
  ret,        \* history: the m_ptr of the cell the last removal returned
  asked,      \* history: the position it was asked for, NULL if none
  released    \* the MHT nodes freeQueue and freeQueue2 have freed

queueVars == <<pc, alloc, next, prev, word, pQHeader, pQ, held, ret, asked, released>>

Free == Cells \ alloc
Open == pc = "idle" /\ pQHeader # NULL /\ pQHeader \in alloc

DbInit ==
  /\ pc = "idle" /\ alloc = {}
  /\ next = [c \in Cells |-> NULL] /\ prev = [c \in Cells |-> NULL]
  /\ word = [c \in Cells |-> NULL]
  /\ pQHeader = NULL /\ pQ = NULL
  /\ held = {} /\ ret = NULL /\ asked = NULL /\ released = {}

-----------------------------------------------------------------------------
(* Reading the queue *)

peekQueue == IF pQHeader # NULL THEN next[pQHeader] ELSE NULL
lookBackward(c) == prev[c]

\* Mutant: the walk goes from the first cell towards the last.
search_from_front(level) ==
  LET tmp_ptr[k \in 0..Cardinality(Cells)] ==
        IF k = 0 THEN next[pQHeader]
        ELSE IF tmp_ptr[k - 1] = NULL \/ m_level[word[tmp_ptr[k - 1]]] = level THEN tmp_ptr[k - 1]
        ELSE next[tmp_ptr[k - 1]]
  IN tmp_ptr[Cardinality(Cells)]

\* Where the walk ends: at the header, or at a cell of the level.
EndsAt(c, level) == c = pQHeader \/ c = NULL \/ m_level[word[c]] = level

\* The walk from pQ towards the header, tmp_ptr[k] after k iterations; NULL if no
\* cell has the level.
search_node_by_level(level) ==
  LET tmp_ptr[k \in 0..Cardinality(Cells)] ==
        IF k = 0 THEN pQ
        ELSE IF EndsAt(tmp_ptr[k - 1], level) THEN tmp_ptr[k - 1] ELSE prev[tmp_ptr[k - 1]]
      last == tmp_ptr[Cardinality(Cells)]
  IN IF last = pQHeader THEN NULL ELSE last

\* The cells behind the header, first to last, and those of a sequence.
Chain ==
  LET at[k \in 0..Cardinality(Cells)] ==
        IF k = 0 THEN pQHeader ELSE IF at[k - 1] = NULL THEN NULL ELSE next[at[k - 1]]
      length == Cardinality({k \in 1..Cardinality(Cells) : at[k] # NULL})
  IN [k \in 1..length |-> at[k]]
CellsOf(cells) == {cells[k] : k \in 1..Len(cells)}

-----------------------------------------------------------------------------
(* The calls *)

\* The memory f without what the given cells hold.
Forget(f, cells) == [c \in Cells |-> IF c \in cells THEN NULL ELSE f[c]]

\* initQueue: an old header is freed, its cells are not.
initQueue ==
  /\ pc = "idle" /\ pQHeader \in alloc \cup {NULL}
  /\ LET rest == alloc \ {pQHeader} IN
     \/ \E h \in Cells \ rest :
          /\ alloc' = rest \cup {h}
          /\ word' = [Forget(word, {pQHeader}) EXCEPT ![h] = 0]
          /\ prev' = Forget(prev, {pQHeader}) /\ next' = Forget(next, {pQHeader})
          /\ pQHeader' = h /\ pQ' = h
     \/ /\ Cells = rest
        /\ alloc' = rest /\ pQHeader' = NULL /\ pQ' = NULL
        /\ UNCHANGED <<word, prev, next>>
  /\ UNCHANGED <<pc, held, ret, asked, released>>

\* freeQueue3 leaves its caller the address of a header it has freed.
initQueueFreesTwice ==
  /\ pc = "idle" /\ pQHeader \notin alloc \cup {NULL}
  /\ pc' = "crash"
  /\ UNCHANGED <<alloc, next, prev, word, pQHeader, pQ, held, ret, asked, released>>

\* MHT nodes the caller may enqueue: alive, and in no cell.
Loose == MhtNodes \ (released \cup {word[c] : c \in alloc})

\* enqueue(pQHeader, pQ, makeQNode(m)), as mht.c calls it.
enqueue ==
  /\ Open
  /\ \E m \in Loose, c \in Free :
       /\ alloc' = alloc \cup {c}
       /\ next' = [next EXCEPT ![pQ] = c, ![c] = NULL]
       /\ prev' = [prev EXCEPT ![c] = pQ]
       /\ word' = [word EXCEPT ![c] = m, ![pQHeader] = @ + 1]
       /\ pQ' = c
  /\ UNCHANGED <<pc, pQHeader, held, ret, asked, released>>

\* makeQNode found no memory: enqueue looks for a NULL argument, but gives up
\* only if its other two arguments are NULL as well.
enqueueNull ==
  /\ Open /\ Free = {} /\ Loose # {}
  /\ pc' = "crash"
  /\ UNCHANGED <<alloc, next, prev, word, pQHeader, pQ, held, ret, asked, released>>

CountDown == [word EXCEPT ![pQHeader] = IF @ > 0 THEN @ - 1 ELSE @]

\* The pointers with the cell that follows the cell at taken out.
NextWithout(at) == [next EXCEPT ![at] = next[next[at]]]
PrevWithout(at) == IF next[next[at]] # NULL THEN [prev EXCEPT ![next[next[at]]] = at] ELSE prev
\* Mutant: pQ stays on the cell taken out.
UnlinkKeepsTail(at) ==
  /\ next' = NextWithout(at) /\ prev' = PrevWithout(at)
  /\ UNCHANGED pQ

Unlink(at) ==
  /\ next' = NextWithout(at) /\ prev' = PrevWithout(at)
  /\ pQ' = IF next[next[at]] # NULL THEN pQ ELSE at

\* A removal asked for pos returns cell c, or NULL and changes nothing.
Return(c, pos) ==
  /\ asked' = pos /\ ret' = word[c] /\ held' = held \cup {c} /\ word' = CountDown
  /\ UNCHANGED <<pc, alloc, pQHeader, released>>
ReturnNull(pos) ==
  /\ ret' = NULL /\ asked' = pos
  /\ UNCHANGED <<pc, alloc, next, prev, word, pQHeader, pQ, held, released>>

\* Mutant: the second cell is removed, if there is one.
dequeueSecond ==
  /\ Open
  /\ LET first == next[pQHeader] IN
     IF pQ = pQHeader THEN ReturnNull(NULL)
     ELSE IF next[first] = NULL THEN Unlink(pQHeader) /\ Return(first, NULL)
     ELSE Unlink(first) /\ Return(next[first], NULL)

dequeue ==
  /\ Open
  /\ IF pQ = pQHeader THEN ReturnNull(NULL)
     ELSE Unlink(pQHeader) /\ Return(next[pQHeader], NULL)

\* Remove the second cell.
dequeue_sub ==
  /\ Open
  /\ LET first == next[pQHeader]
         c == next[first]
     IN  IF pQ = pQHeader \/ c = NULL THEN ReturnNull(NULL)
         ELSE Unlink(first) /\ Return(c, NULL)

\* Mutant: only the backward pointer is set.
sppos_half(pos) ==
  IF pQ = pQHeader \/ pos = pQHeader THEN ReturnNull(pos)
  ELSE IF next[pos] # NULL
  THEN /\ prev' = [prev EXCEPT ![next[pos]] = prev[pos]]
       /\ Return(pos, pos) /\ UNCHANGED <<next, pQ>>
  ELSE Unlink(pQHeader) /\ Return(next[pQHeader], pos)

\* Remove the cell pos; if it is the last one, dequeue is called instead.
dequeue_sppos(pos) ==
  IF pQ = pQHeader \/ pos = pQHeader THEN ReturnNull(pos)
  ELSE IF next[pos] # NULL
  THEN /\ next' = [next EXCEPT ![prev[pos]] = next[pos]]
       /\ prev' = [prev EXCEPT ![next[pos]] = prev[pos]]
       /\ Return(pos, pos) /\ UNCHANGED pQ
  ELSE Unlink(pQHeader) /\ Return(next[pQHeader], pos)

\* Mutant: the caller keeps the pointer.
deleteQNodeKeepsPointer ==
  /\ pc = "idle"
  /\ \E c \in held :
       /\ alloc' = alloc \ {c}
       /\ next' = Forget(next, {c}) /\ prev' = Forget(prev, {c}) /\ word' = Forget(word, {c})
  /\ UNCHANGED <<pc, pQHeader, pQ, held, ret, asked, released>>

deleteQNode ==
  /\ pc = "idle"
  /\ \E c \in held :
       /\ alloc' = alloc \ {c} /\ held' = held \ {c}
       /\ next' = Forget(next, {c}) /\ prev' = Forget(prev, {c}) /\ word' = Forget(word, {c})
  /\ UNCHANGED <<pc, pQHeader, pQ, ret, asked, released>>

(* freeQueue and freeQueue2: each iteration takes the first cell *)

\* Mutant: the header is not freed.
KeepHeader ==
  /\ pc' = "idle" /\ pQHeader' = NULL
  /\ UNCHANGED <<alloc, next, prev, word, pQ, held, ret, asked, released>>

\* The header is freed and *pQHeader becomes NULL, which after freeQueue3 is not
\* the caller's pointer; *pQ is left as it is.
FreeHeader ==
  /\ alloc' = alloc \ {pQHeader} /\ pc' = "idle"
  /\ pQHeader' = IF pc = "freeQueue3" THEN pQHeader ELSE NULL
  /\ next' = Forget(next, {pQHeader}) /\ prev' = Forget(prev, {pQHeader})
  /\ word' = Forget(word, {pQHeader})
  /\ UNCHANGED <<pQ, held, ret, asked, released>>

StartFree(loop) ==
  /\ Open
  /\ IF next[pQHeader] = NULL THEN FreeHeader
     ELSE pc' = loop /\ UNCHANGED <<alloc, next, prev, word, pQHeader, pQ, held, ret, asked, released>>

\* Mutant: the MHT node is released but not the cell.
freeQueueKeepsCells ==
  /\ pc = "freeQueue"
  /\ IF pQ = pQHeader THEN FreeHeader
     ELSE /\ Unlink(pQHeader)
          /\ released' = released \cup {word[next[pQHeader]]}
          /\ word' = CountDown
          /\ UNCHANGED <<pc, alloc, pQHeader, held, ret, asked>>

freeQueueLoop ==
  /\ pc = "freeQueue"
  /\ IF pQ = pQHeader THEN FreeHeader
     ELSE LET c == next[pQHeader] IN
          /\ pQ' = IF next[c] # NULL THEN pQ ELSE pQHeader
          /\ next' = Forget(NextWithout(pQHeader), {c})
          /\ prev' = Forget(PrevWithout(pQHeader), {c})
          /\ word' = Forget(CountDown, {c})
          /\ alloc' = alloc \ {c} /\ released' = released \cup {word[c]}
          /\ UNCHANGED <<pc, pQHeader, held, ret, asked>>

\* The cell is freed only if another one follows it, and is not counted.
freeQueue2Loop ==
  /\ pc \in {"freeQueue2", "freeQueue3"}
  /\ IF next[pQHeader] = NULL THEN FreeHeader
     ELSE LET c == next[pQHeader]
              gone == IF next[c] # NULL THEN {c} ELSE {} IN
          /\ next' = Forget(NextWithout(pQHeader), gone)
          /\ prev' = Forget(PrevWithout(pQHeader), gone)
          /\ word' = Forget(word, gone)
          /\ alloc' = alloc \ gone /\ released' = released \cup {word[x] : x \in gone}
          /\ UNCHANGED <<pc, pQHeader, pQ, held, ret, asked>>

\* freeQueue3 looks for the header from pQ, behind which it starts, and calls
\* freeQueue2 with it; of an empty queue it looks behind the header.
freeQueue3 ==
  /\ Open
  /\ pc' = IF pQ = pQHeader THEN "crash" ELSE "freeQueue3"
  /\ UNCHANGED <<alloc, next, prev, word, pQHeader, pQ, held, ret, asked, released>>

-----------------------------------------------------------------------------

Crashed == pc = "crash" /\ UNCHANGED queueVars

\* The calls create_mht_from_ordered_ds makes, in any order it could.
Used ==
  \/ pQHeader = NULL /\ initQueue
  \/ enqueue \/ enqueueNull \/ dequeue \/ deleteQNode
  \/ StartFree("freeQueue") \/ freeQueueLoop
  \/ Crashed

\* The calls dbqueue.h declares.
Declared ==
  \/ Used
  \/ initQueue \/ initQueueFreesTwice
  \/ dequeue_sub
  \/ Open /\ \E pos \in {pQHeader} \cup CellsOf(Chain) : dequeue_sppos(pos)
  \/ StartFree("freeQueue2") \/ freeQueue3 \/ freeQueue2Loop

UsedSpec == DbInit /\ [][Used]_queueVars
DeclaredSpec == DbInit /\ [][Declared]_queueVars

-----------------------------------------------------------------------------
(* Correctness *)

Values == MhtNodes \cup {NULL} \cup 0..Cardinality(Cells)

\* The type invariant.
DbTypeOK ==
  /\ pc \in {"idle", "freeQueue", "freeQueue2", "freeQueue3", "crash"}
  /\ alloc \subseteq Cells /\ held \subseteq alloc
  /\ next \in [Cells -> Cells \cup {NULL}] /\ prev \in [Cells -> Cells \cup {NULL}]
  /\ word \in [Cells -> Values]
  /\ pQHeader \in Cells \cup {NULL} /\ pQ \in Cells \cup {NULL}
  /\ ret \in Values /\ asked \in Cells \cup {NULL} /\ released \subseteq MhtNodes

\* The list is doubly linked from the header to pQ and back, over allocated cells
\* the caller does not hold, and the header counts them: after any sequence of
\* removals from the front, the middle and the end, also while freeQueue empties
\* it.  Every routine of mht.c that scans the queue backwards relies on it.
WellLinked ==
  Open \/ pc = "freeQueue" =>
    LET cell == <<pQHeader>> \o Chain IN
    /\ pQ = cell[Len(cell)]
    /\ prev[pQHeader] = NULL
    /\ \A k \in 2..Len(cell) : prev[cell[k]] = cell[k - 1]
    /\ CellsOf(cell) \subseteq alloc \ held
    /\ word[pQHeader] = Len(Chain)

\* No cell is lost: what is allocated is in the queue or with the caller.
NothingLeaks ==
  alloc = held \cup (IF pQHeader = NULL THEN {} ELSE {pQHeader} \cup CellsOf(Chain))

\* freeQueue releases the MHT nodes in the queue and no other: none that the
\* caller has taken out (create_mht_from_ordered_ds keeps the root), and none twice.
ReleasedAreGone == released \cap {word[c] : c \in alloc \ {pQHeader}} = {}

\* The search from the tail finds the last cell of the level, if there is one.
SearchFindsLast ==
  Open => \A level \in {m_level[m] : m \in MhtNodes} :
    LET at == {k \in 1..Len(Chain) : m_level[word[Chain[k]]] = level}
        found == search_node_by_level(level)
    IN  IF at = {} THEN found = NULL
        ELSE found = Chain[CHOOSE k \in at : \A j \in at : j <= k]

\* The list implements a queue: followed from the header it holds what a sequence
\* would, and each removal returns what the sequence loses.
Contents == IF Open THEN [k \in 1..Len(Chain) |-> word[Chain[k]]] ELSE <<>>
Fifo == INSTANCE FifoQueue WITH None <- NULL, open <- Open, q <- Contents, ret <- ret

\* With enqueue, dequeue and freeQueue it is a first-in first-out queue.
IsFifo == Fifo!FifoSpec

\* With dequeue_sub and dequeue_sppos too, a removal takes one element, wherever
\* it stands, and leaves the order of the others.
IsSequence == Fifo!AnySpec

-----------------------------------------------------------------------------
(* Statements of the documentation that the code does not keep *)

\* dequeue_sppos(..., PQNODE pos): only the header is an "invalid position";
\* of any other it is the cell at pos that is removed.
PositionIsRemoved ==
  [][held' \ held # {} /\ asked' # NULL => held' \ held = {asked'}]_queueVars

\* freeQueue2: "this function will release the memory that m_ptr takes".
MemoryIsReleased ==
  [][freeQueue2Loop /\ Chain # <<>> => word[Chain[1]] \in released']_queueVars

=============================================================================
