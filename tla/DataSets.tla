------------------------------ MODULE DataSets ------------------------------
(***************************************************************************)
(* Data sets in memory: gen_ds, gen_ds_from_dbfile, get_page_count_from_db *)
(* (utils.c), free_ds (mht.c) and the data elements of dataelem.c, called  *)
(* one after another by a client that owns pds and pelem.                  *)
(*                                                                         *)
(* mem maps the addresses of the live blocks to what they hold; addresses  *)
(* are never reused, so that a pointer to released memory stays dead.      *)
(* Every call of the database may fail, and another process may write the  *)
(* database between the two calls that read it.                            *)
(***************************************************************************)
EXTENDS Integers, Sequences, FiniteSets

CONSTANTS
  Files,       \* the leaf pages the database may have: sequences of [pgno, hash]
  Sizes,       \* data_block_num of gen_ds
  Lengths,     \* its string_len, an int; those above 0 also d_len of de_create
  Text,        \* what generate_random_string returns
  MaxCalls     \* bound: calls of the client

ASSUME DataSetsAssumption ==
  /\ \A f \in Files : f \in Seq({f[k] : k \in DOMAIN f}) /\ \A k \in 1..Len(f) : f[k].pgno \in Nat
  /\ Sizes \subseteq Int /\ Lengths \subseteq Int /\ MaxCalls \in Nat

VARIABLES
  pc,      \* "client" between calls, else the next step; "crash"
  calls,   \* calls made
  mem, next,   \* the live blocks, and the address malloc returns next
  pds, pelem,  \* the client's pointers
  loc,     \* the local variables of the running call
  file,    \* the database
  read     \* history: the pages the present data set was made of

dsVars == <<pc, calls, mem, next, pds, pelem, loc, file, read>>

-----------------------------------------------------------------------------
(* Memory *)

NULL == 0

Live == DOMAIN mem

\* The memory m with this block at address a, where there may have been another.
Put(a, block, m) == [b \in DOMAIN m \cup {a} |-> IF b = a THEN block ELSE m[b]]

\* m with the blocks of these addresses gone; free(NULL) does nothing.
Without(freed, m) == [b \in DOMAIN m \ freed |-> m[b]]

Malloc(block) == mem' = Put(next, block, mem) /\ next' = next + 1

DE(index, pdata, len) == [m_index |-> index, m_pdata |-> pdata, m_data_len |-> len]

\* A DATA_ELEM of malloc'ed memory, nothing set.
Unset == DE(0, NULL, 0)

DataSet(n, array, hashed) == [kind |-> "ds", m_size |-> n, m_pDE |-> array, m_is_hashed |-> hashed]

\* The array of DATA_ELEM of a data set, and its elements.
Array(ds) == mem[mem[ds].m_pDE].elems
PData(ds) == {Array(ds)[k].m_pdata : k \in DOMAIN Array(ds)}

ArrayOf(elems) == [kind |-> "array", elems |-> elems]

\* malloc of a negative number of elements asks for more than there is.
ArrayBlock(n) == ArrayOf([k \in 1..n |-> Unset])

NoLocals == [fn |-> "none", n |-> 0, len |-> 0, i |-> 0, db |-> NULL,
             pgnos |-> NULL, hashes |-> NULL, info |-> NULL, ds |-> NULL, gen_str |-> NULL]

Begin(fn, n, len, at) ==
  /\ pc = "client" /\ calls < MaxCalls /\ calls' = calls + 1
  /\ loc' = [NoLocals EXCEPT !.fn = fn, !.n = n, !.len = len]
  /\ pc' = at

Go(at) == pc' = at /\ UNCHANGED calls
Return == Go("client") /\ loc' = NoLocals

DsInit ==
  /\ pc = "client" /\ calls = 0 /\ mem = <<>> /\ next = 1
  /\ pds = NULL /\ pelem = NULL /\ loc = NoLocals
  /\ file \in Files /\ read = <<>>

-----------------------------------------------------------------------------
(* free_ds, called by the client and by the generators for a set they replace *)

Size(ds) == mem[ds].m_size

\* Mutant: the last element is passed over.
ElementsLeftButLast == loc.i < Size(pds) - 1

ElementsLeft == loc.i < Size(pds)

CallFreeDs ==
  /\ Begin("free_ds", 0, 0, "free") /\ pds # NULL
  /\ UNCHANGED <<mem, next, pds, pelem, file, read>>

\* Mutant: m_pdata still points to the block.
NotCleared(p) == p

Cleared(p) == NULL

FreeElement ==
  /\ pc = "free" /\ ElementsLeft
  /\ LET k == loc.i + 1
         elems == [Array(pds) EXCEPT ![k].m_pdata = Cleared(@)]
     IN mem' = Put(mem[pds].m_pDE, ArrayOf(elems), Without({Array(pds)[k].m_pdata}, mem))
  /\ loc' = [loc EXCEPT !.i = @ + 1]
  /\ UNCHANGED <<pc, calls, next, pds, pelem, file, read>>

FreeSet ==
  /\ pc = "free" /\ ~ElementsLeft
  /\ mem' = Without({mem[pds].m_pDE, pds}, mem)
  /\ pds' = NULL /\ read' = <<>>
  /\ CASE loc.fn = "free_ds" -> Return
       [] loc.fn = "gen_ds" -> Go("gen") /\ loc' = [loc EXCEPT !.i = 0]
       [] loc.fn = "from_db" -> Go("open") /\ loc' = [loc EXCEPT !.i = 0]
  /\ UNCHANGED <<next, pelem, file>>

-----------------------------------------------------------------------------
(* gen_ds *)

CallGenDs ==
  /\ \E n \in Sizes, len \in Lengths :
       Begin("gen_ds", n, len, IF pds = NULL THEN "gen" ELSE "free")
  /\ UNCHANGED <<mem, next, pds, pelem, file, read>>

\* The set is the client's from here on, its elements still unset.
GenSet ==
  /\ pc = "gen"
  /\ LET array == IF loc.n < 0 THEN NULL ELSE next + 1
         blocks == Put(next, DataSet(loc.n, array, FALSE), mem)
     IN mem' = IF array = NULL THEN blocks ELSE Put(array, ArrayBlock(loc.n), blocks)
  /\ pds' = next /\ next' = next + 2
  /\ Go("string")
  /\ UNCHANGED <<pelem, loc, file, read>>

\* generate_random_string returns NULL for a length of 0.
GenString ==
  /\ pc = "string" /\ loc.i < loc.n /\ loc.len >= 0
  /\ IF loc.len = 0
     THEN loc' = loc /\ UNCHANGED <<mem, next>>
     ELSE loc' = [loc EXCEPT !.gen_str = next] /\ Malloc([kind |-> "string", bytes |-> Text])
  /\ Go("element")
  /\ UNCHANGED <<pds, pelem, file, read>>

\* It does for a negative length too, and memcpy reads about 2^64 bytes from there.
NegativeString ==
  /\ pc = "string" /\ loc.i < loc.n /\ loc.len < 0
  /\ Go("crash")
  /\ UNCHANGED <<mem, next, pds, pelem, loc, file, read>>

\* Mutant: all elements get the block of the first.
FirstBlock(ds, k) == IF k = 1 THEN next ELSE Array(ds)[1].m_pdata

OwnBlock(ds, k) == next

\* Element k of the array gets a block with these bytes.
SetElement(ds, k, index, len, bytes) ==
  LET elems == [Array(ds) EXCEPT ![k] = DE(index, OwnBlock(ds, k), len)]
  IN  Put(OwnBlock(ds, k), [kind |-> "data", bytes |-> bytes, len |-> len],
          Put(mem[ds].m_pDE, ArrayOf(elems), mem))

\* The string is copied and freed.
GenElement ==
  /\ pc = "element"
  /\ LET k == loc.i + 1
         bytes == IF loc.len = 0 THEN <<>> ELSE mem[loc.gen_str].bytes
     IN mem' = Without({loc.gen_str}, SetElement(pds, k, k, loc.len, bytes))
  /\ next' = next + 1
  /\ loc' = [loc EXCEPT !.i = @ + 1, !.gen_str = NULL]
  /\ Go("string")
  /\ UNCHANGED <<pds, pelem, file, read>>

-----------------------------------------------------------------------------
(* gen_ds_from_dbfile and get_page_count_from_db *)

\* Mutant: the set pds points to is not freed first.
CallFromDbKeeps ==
  /\ Begin("from_db", 0, 0, "open")
  /\ UNCHANGED <<mem, next, pds, pelem, file, read>>

CallFromDb ==
  /\ Begin("from_db", 0, 0, IF pds = NULL THEN "open" ELSE "free")
  /\ UNCHANGED <<mem, next, pds, pelem, file, read>>

CallPageCount ==
  /\ Begin("page_count", 0, 0, "open")
  /\ UNCHANGED <<mem, next, pds, pelem, file, read>>

\* There is a connection even if the file cannot be opened; the callers then return.
Open ==
  /\ pc = "open" /\ Malloc([kind |-> "db"])
  /\ \/ Go("exec") /\ loc' = [loc EXCEPT !.db = next]
     \/ Return
  /\ UNCHANGED <<pds, pelem, file, read>>

Exec ==
  /\ pc = "exec"
  /\ \/ Go("count") /\ UNCHANGED <<mem, next, loc>>
     \/ Malloc([kind |-> "errmsg"]) /\ Return
  /\ UNCHANGED <<pds, pelem, file, read>>

\* getCount, -1 if it cannot tell.
Count ==
  /\ pc = "count"
  /\ \E n \in {Len(file), -1} : loc' = [loc EXCEPT !.n = n]
  /\ Go(IF loc.fn = "page_count" THEN "close" ELSE "temps")
  /\ UNCHANGED <<mem, next, pds, pelem, file, read>>

\* get_page_count_from_db closes what it opened.
Close ==
  /\ pc = "close" /\ mem' = Without({loc.db}, mem) /\ Return
  /\ UNCHANGED <<next, pds, pelem, file, read>>

\* Another process commits between getCount and getInfo1.
DatabaseChanges ==
  /\ pc \in {"temps", "read"} /\ file' \in Files
  /\ UNCHANGED <<pc, calls, mem, next, pds, pelem, loc, read>>

\* The arrays of getInfo1, with room for as many pages as were counted.
Temp(kind, room, vals) == [kind |-> kind, room |-> room, vals |-> vals]

AllocateTemps ==
  /\ pc = "temps" /\ loc.n >= 0
  /\ mem' = Put(next, Temp("pgnos", loc.n, <<>>), Put(next + 1, Temp("hashes", loc.n, <<>>), mem))
  /\ loc' = [loc EXCEPT !.pgnos = next, !.hashes = next + 1] /\ next' = next + 2
  /\ Go("read")
  /\ UNCHANGED <<pds, pelem, file, read>>

\* There is no memory for -1 pages, and memset writes to NULL.
CountUnknown ==
  /\ pc = "temps" /\ loc.n < 0 /\ Go("crash")
  /\ UNCHANGED <<mem, next, pds, pelem, loc, file, read>>

\* Mutant: getInfo1 is asked for all pages up to 0x7fffffff.
AllPages == Len(file)

\* It is asked for at most pg_num pages.
PagesAsked == IF loc.n < Len(file) THEN loc.n ELSE Len(file)

\* getInfo1: it fills both arrays, or can read nothing.
ReadPages ==
  /\ pc = "read"
  /\ \E got \in {0, PagesAsked} :
       /\ mem' = Put(loc.pgnos, Temp("pgnos", mem[loc.pgnos].room, [k \in 1..got |-> file[k].pgno]),
                 Put(loc.hashes, Temp("hashes", mem[loc.hashes].room, [k \in 1..got |-> file[k].hash]), mem))
       /\ read' = [k \in 1..got |-> file[k]]
       /\ loc' = [loc EXCEPT !.n = got]
  /\ Go("collect")
  /\ UNCHANGED <<next, pds, pelem, file>>

\* Mutant: without i in tmp_hash_array + i * SHA256_BLOCK_SIZE.
FirstHash(k) == mem[loc.hashes].vals[1]

HashOf(k) == mem[loc.hashes].vals[k]

\* Page numbers and hashes are copied to pg_info_ptr, the arrays freed.
Collect ==
  /\ pc = "collect"
  /\ LET info == [kind |-> "info",
                  vals |-> [k \in 1..loc.n |-> [pgno |-> mem[loc.pgnos].vals[k], hash |-> HashOf(k)]]]
     IN mem' = Put(next, info, Without({loc.pgnos, loc.hashes}, mem))
  /\ loc' = [loc EXCEPT !.info = next, !.pgnos = NULL, !.hashes = NULL] /\ next' = next + 1
  /\ Go("build")
  /\ UNCHANGED <<pds, pelem, file, read>>

BuildSet ==
  /\ pc = "build"
  /\ mem' = Put(next, DataSet(loc.n, next + 1, TRUE), Put(next + 1, ArrayBlock(loc.n), mem))
  /\ loc' = [loc EXCEPT !.ds = next, !.i = 0] /\ next' = next + 2
  /\ Go("copy")
  /\ UNCHANGED <<pds, pelem, file, read>>

CopyPage ==
  /\ pc = "copy" /\ loc.i < Size(loc.ds)
  /\ LET page == mem[loc.info].vals[loc.i + 1]
     IN mem' = SetElement(loc.ds, loc.i + 1, page.pgno, 32, page.hash)
  /\ next' = next + 1 /\ loc' = [loc EXCEPT !.i = @ + 1]
  /\ UNCHANGED <<pc, calls, pds, pelem, file, read>>

\* *pds = ds_ptr.  Neither pg_info_ptr is freed nor the connection closed.
Publish ==
  /\ pc = "copy" /\ loc.i = Size(loc.ds)
  /\ pds' = loc.ds /\ Return
  /\ UNCHANGED <<mem, next, pelem, file, read>>

GenReturns ==
  /\ pc = "string" /\ loc.i >= loc.n /\ Return
  /\ UNCHANGED <<mem, next, pds, pelem, file, read>>

-----------------------------------------------------------------------------
(* dataelem.c: de_create takes over memory of the client's. *)

CallDeCreate ==
  /\ pelem = NULL
  /\ \E len \in {l \in Lengths : l > 0} :
       /\ Begin("none", 0, 0, "client")
       /\ mem' = Put(next, [kind |-> "payload", bytes |-> Text, len |-> len],
                 Put(next + 1, [kind |-> "elem", m_index |-> 1, m_pdata |-> next, m_data_len |-> len], mem))
  /\ pelem' = next + 1 /\ next' = next + 2
  /\ UNCHANGED <<pds, file, read>>

\* The body of de_free is for a NULL pointer only, which it then dereferences.
CallDeFree ==
  /\ Begin("none", 0, 0, IF pelem = NULL THEN "crash" ELSE "client")
  /\ pelem' = NULL
  /\ UNCHANGED <<mem, next, pds, file, read>>

-----------------------------------------------------------------------------

DsNext ==
  \/ CallFreeDs \/ FreeElement \/ FreeSet
  \/ CallGenDs \/ GenSet \/ GenString \/ NegativeString \/ GenElement \/ GenReturns
  \/ CallFromDb \/ CallPageCount \/ Open \/ Exec \/ Count \/ Close
  \/ DatabaseChanges \/ AllocateTemps \/ CountUnknown \/ ReadPages \/ Collect
  \/ BuildSet \/ CopyPage \/ Publish
  \/ CallDeCreate \/ CallDeFree

DsSpec == DsInit /\ [][DsNext]_dsVars

-----------------------------------------------------------------------------
(* Correctness *)

\* Every pointer the code may still follow is to a live block of the right kind, or NULL
\* where the code looks at that.
PointsTo(p, kind) == p # NULL => p \in Live /\ mem[p].kind = kind

Pointers ==
  /\ PointsTo(pds, "ds") /\ PointsTo(loc.ds, "ds") /\ PointsTo(pelem, "elem")
  /\ PointsTo(loc.gen_str, "string") /\ PointsTo(loc.db, "db") /\ PointsTo(loc.info, "info")
  /\ PointsTo(loc.pgnos, "pgnos") /\ PointsTo(loc.hashes, "hashes")

Blocks ==
  \A b \in Live : mem[b].kind = "ds" =>
    /\ PointsTo(mem[b].m_pDE, "array")
    /\ mem[b].m_pDE # NULL => /\ DOMAIN Array(b) = 1..Size(b)
                              /\ \A k \in 1..Size(b) : PointsTo(Array(b)[k].m_pdata, "data")

\* The type invariant.
DsTypeOK ==
  /\ calls \in 0..MaxCalls /\ Live \subseteq 1..(next - 1)
  /\ Pointers /\ Blocks

\* A data set the client holds between calls is whole: every element has data of its
\* own, of the length it says, and all lengths are the first one's, which is what
\* print_ds sizes its buffer by.
WholeAtRest ==
  pc = "client" /\ pds # NULL /\ Size(pds) >= 0 =>
    /\ Cardinality(PData(pds)) = Size(pds) /\ PData(pds) \subseteq Live
    /\ \A k \in 1..Size(pds) :
         LET de == Array(pds)[k]
         IN  de.m_data_len = mem[de.m_pdata].len /\ de.m_data_len = Array(pds)[1].m_data_len

\* A data set read from the database is what getInfo1 delivered, page by page.
HoldsWhatWasRead ==
  pc = "client" /\ pds # NULL /\ mem[pds].m_is_hashed =>
    /\ Size(pds) = Len(read)
    /\ \A k \in 1..Size(pds) :
         Array(pds)[k].m_index = read[k].pgno /\ mem[Array(pds)[k].m_pdata].bytes = read[k].hash

\* getInfo1 never writes past the arrays, though the database may have grown since
\* its pages were counted.
FitsTheCount == \A b \in Live : mem[b].kind \in {"pgnos", "hashes"} => Len(mem[b].vals) <= mem[b].room

\* What the client can reach of its pointers.
Reachable ==
  (IF pds = NULL THEN {} ELSE {pds} \cup {mem[pds].m_pDE} \cup (IF Size(pds) < 0 THEN {} ELSE PData(pds)))
    \cup (IF pelem = NULL THEN {} ELSE {pelem, mem[pelem].m_pdata})

\* No call loses memory but what gen_ds_from_dbfile and get_page_count_from_db leave of
\* the database and pg_info_ptr, and de_free of its element: data sets, strings
\* and temporary arrays are released by whoever lets go of them.
LosesNoDataSet ==
  pc = "client" =>
    \A b \in Live \ Reachable : mem[b].kind \in {"db", "errmsg", "info", "elem", "payload"}

\* What the client sees: no data set, or one with these elements.
Held ==
  IF pds = NULL \/ pc \in {"free", "string", "element", "crash"} THEN {}
  ELSE {[k \in 1..Size(pds) |->
           [index |-> Array(pds)[k].m_index, data |-> mem[Array(pds)[k].m_pdata].bytes]]}

\* A data set never changes in the client's hands: it is whole until a call lets go of
\* it, and another is whole when a call hands it out.
HeldOrNone == [][Held = {} \/ Held' = {}]_Held

-----------------------------------------------------------------------------
(* The inductive invariant: the properties above and what they rest on *)

DEs == [m_index : Int, m_pdata : Nat, m_data_len : Int]

\* In m there is a data set at ds.  Its elements in filled have data of their own, of the
\* length they say, all of one length; the others have none.
IsDataSet(m, ds, filled) ==
  /\ ds \in DOMAIN m /\ m[ds].kind = "ds" /\ m[ds].m_size \in Int /\ filled \subseteq 1..m[ds].m_size
  /\ IF m[ds].m_size < 0 THEN m[ds].m_pDE = NULL
     ELSE LET elems == m[m[ds].m_pDE].elems
          IN  /\ m[ds].m_pDE \in DOMAIN m /\ m[m[ds].m_pDE].kind = "array"
              /\ elems \in [1..m[ds].m_size -> DEs]
              /\ \A k \in 1..m[ds].m_size \ filled : elems[k].m_pdata = NULL
              /\ \A k \in filled :
                   /\ elems[k].m_pdata \in DOMAIN m /\ m[elems[k].m_pdata].kind = "data"
                   /\ m[elems[k].m_pdata].len = elems[k].m_data_len
              /\ \A j, k \in filled :
                   /\ elems[j].m_pdata = elems[k].m_pdata => j = k
                   /\ elems[j].m_data_len = elems[k].m_data_len

\* Its filled elements are these pages.
HoldsPages(m, ds, filled, pages) ==
  /\ m[ds].m_size = Len(pages)
  /\ LET elems == m[m[ds].m_pDE].elems
     IN  \A k \in filled : /\ elems[k].m_index = pages[k].pgno
                          /\ m[elems[k].m_pdata].bytes = pages[k].hash

\* Block b is part of it.
Owns(m, ds, filled, b) ==
  \/ b = ds
  \/ /\ m[ds].m_size >= 0
     /\ b = m[ds].m_pDE \/ \E k \in filled : b = m[m[ds].m_pDE].elems[k].m_pdata

\* The one data set there may be is the client's or the one gen_ds_from_dbfile builds; the
\* elements that have their data are those not freed yet, or those set already.  A crash
\* inside gen_ds leaves the set as it was.
Cur == IF pds # NULL THEN pds ELSE loc.ds
Filled == {k \in 1..Size(Cur) :
             IF pc = "free" THEN k > loc.i
             ELSE pc \in {"string", "element", "copy"} \/ (pc = "crash" /\ loc.fn = "gen_ds") => k <= loc.i}

Types ==
  /\ pc \in {"client", "free", "gen", "string", "element", "open", "exec", "count", "close",
             "temps", "read", "collect", "build", "copy", "crash"}
  /\ next \in Nat \ {0} /\ pds \in Nat /\ pelem \in Nat /\ file \in Files
  /\ loc \in [fn : {"none", "free_ds", "gen_ds", "from_db", "page_count"}, n : Int, len : Int, i : Nat, db : Nat,
              pgnos : Nat, hashes : Nat, info : Nat, ds : Nat, gen_str : Nat]
  /\ \A b \in Live : mem[b].kind \in {"ds", "array", "data", "string", "db", "errmsg", "pgnos",
                                     "hashes", "info", "elem", "payload"}
  /\ Len(read) \in Nat /\ \A k \in 1..Len(read) : read[k].pgno \in Nat

\* Which pointers are set where, and how far each loop is.
Control ==
  /\ pc \in {"gen", "temps", "read", "collect", "build", "copy"} => pds = NULL
  /\ pc \in {"open", "exec", "count"} => loc.fn = "page_count" \/ (loc.fn = "from_db" /\ pds = NULL)
  /\ pc \in {"free", "string", "element"} => pds # NULL /\ (loc.i = 0 \/ loc.i <= Size(pds))
  /\ pc = "temps" => loc.fn = "from_db"
  /\ pc = "free" => loc.fn \in {"free_ds", "gen_ds", "from_db"}
  /\ pc = "gen" => loc.i = 0 /\ loc.fn = "gen_ds"
  /\ pc \in {"string", "element"} => /\ Size(pds) = loc.n /\ ~mem[pds].m_is_hashed /\ loc.fn = "gen_ds"
                                   /\ \A k \in Filled : Array(pds)[k].m_data_len = loc.len
  /\ pc = "element" => loc.i < loc.n /\ (loc.gen_str = NULL => loc.len = 0)
  /\ loc.gen_str # NULL => pc = "element"
  /\ loc.pgnos # NULL <=> pc \in {"read", "collect"}
  /\ loc.hashes # NULL <=> pc \in {"read", "collect"}
  /\ loc.info # NULL <=> pc \in {"build", "copy"}
  /\ loc.ds # NULL <=> pc = "copy"

\* What gen_ds_from_dbfile carries from array to array is what getInfo1 delivered.
Carried ==
  /\ pc = "read" => loc.n >= 0 /\ mem[loc.pgnos].room = loc.n /\ mem[loc.hashes].room = loc.n
  /\ pc \in {"collect", "build", "copy"} => loc.n = Len(read)
  /\ pc = "collect" => \A k \in 1..loc.n : /\ mem[loc.pgnos].vals[k] = read[k].pgno
                                          /\ mem[loc.hashes].vals[k] = read[k].hash
  /\ pc \in {"build", "copy"} => \A k \in 1..loc.n : /\ mem[loc.info].vals[k].pgno = read[k].pgno
                                                    /\ mem[loc.info].vals[k].hash = read[k].hash
  /\ pc = "copy" => /\ Size(loc.ds) = loc.n /\ mem[loc.ds].m_is_hashed /\ loc.i <= loc.n
                    /\ \A k \in Filled : Array(loc.ds)[k].m_data_len = 32

SetInv ==
  Cur # NULL => /\ IsDataSet(mem, Cur, Filled)
                /\ mem[Cur].m_is_hashed => HoldsPages(mem, Cur, Filled, read)

\* Every block of a kind that must not be lost is someone's.
SetKinds == {"ds", "array", "data"}
SetsOwned == \A b \in Live : mem[b].kind \in SetKinds => Cur # NULL /\ Owns(mem, Cur, Filled, b)
LocalsOwned ==
  \A b \in Live : /\ mem[b].kind = "string" => b = loc.gen_str
                  /\ mem[b].kind = "pgnos" => b = loc.pgnos
                  /\ mem[b].kind = "hashes" => b = loc.hashes

\* The inductive invariant: nothing of the above is ever violated.
DsInv == DsTypeOK /\ FitsTheCount /\ Types /\ Control /\ Carried /\ SetInv /\ SetsOwned /\ LocalsOwned

=============================================================================
