--------------------------- MODULE DataSetsProofs ---------------------------
(***************************************************************************)
(* DataSets keeps its inductive invariant DsInv, for any contents of the   *)
(* database, any sizes and lengths and any number of calls; the properties *)
(* of its run follow.                                                      *)
(***************************************************************************)
EXTENDS DataSets, FiniteSetTheorems, TLAPS

-----------------------------------------------------------------------------
(* Memory: operators on the function from addresses to blocks *)

\* m2 has all of m that data sets are made of.
KeepsSets(m, m2) ==
  \A b \in DOMAIN m : m[b].kind \in SetKinds => b \in DOMAIN m2 /\ m2[b] = m[b]

\* The parts of a data set with elements, by names of their own.
IsArray(m, ds, filled, n, array, elems) ==
  /\ ds \in DOMAIN m /\ m[ds].kind = "ds" /\ m[ds].m_size = n /\ n \in Nat /\ filled \subseteq 1..n
  /\ m[ds].m_pDE = array /\ array \in DOMAIN m /\ m[array].kind = "array" /\ m[array].elems = elems
  /\ elems \in [1..n -> DEs]
  /\ \A k \in 1..n \ filled : elems[k].m_pdata = NULL
  /\ \A k \in filled : /\ elems[k].m_pdata \in DOMAIN m /\ m[elems[k].m_pdata].kind = "data"
                       /\ m[elems[k].m_pdata].len = elems[k].m_data_len
  /\ \A j, k \in filled : elems[j].m_pdata = elems[k].m_pdata => j = k
  /\ \A j, k \in filled : elems[j].m_data_len = elems[k].m_data_len

LEMMA SetHasArray ==
  ASSUME NEW m, NEW ds, NEW filled, IsDataSet(m, ds, filled), m[ds].m_size >= 0
  PROVE  IsArray(m, ds, filled, m[ds].m_size, m[ds].m_pDE, m[m[ds].m_pDE].elems)
<1>1. PICK n : n = m[ds].m_size
  OBVIOUS
<1>2. ds \in DOMAIN m /\ m[ds].kind = "ds" /\ n \in Int /\ filled \subseteq 1..n
  BY <1>1 DEF IsDataSet
<1>3. n \in Nat /\ ~(n < 0)
  BY <1>1, <1>2
<1>4. PICK elems : elems = m[m[ds].m_pDE].elems
  OBVIOUS
<1>5. /\ m[ds].m_pDE \in DOMAIN m /\ m[m[ds].m_pDE].kind = "array"
      /\ elems \in [1..n -> DEs]
      /\ \A k \in 1..n \ filled : elems[k].m_pdata = NULL
      /\ \A k \in filled : /\ elems[k].m_pdata \in DOMAIN m /\ m[elems[k].m_pdata].kind = "data"
                           /\ m[elems[k].m_pdata].len = elems[k].m_data_len
      /\ \A j, k \in filled : /\ elems[j].m_pdata = elems[k].m_pdata => j = k
                              /\ elems[j].m_data_len = elems[k].m_data_len
  BY <1>1, <1>3, <1>4, Zenon DEF IsDataSet
<1> QED  BY <1>1, <1>2, <1>3, <1>4, <1>5, Zenon DEF IsArray

LEMMA ArrayMakesSet ==
  ASSUME NEW m, NEW ds, NEW filled, NEW n, NEW array, NEW elems, IsArray(m, ds, filled, n, array, elems)
  PROVE  IsDataSet(m, ds, filled)
  BY DEF IsDataSet, IsArray

\* A data set stays what it is if its blocks do.
LEMMA SetKept ==
  ASSUME NEW m, NEW m2, NEW ds, NEW filled, KeepsSets(m, m2), IsDataSet(m, ds, filled)
  PROVE  /\ m2[ds] = m[ds]
         /\ m[ds].m_size >= 0 => m2[m[ds].m_pDE] = m[m[ds].m_pDE]
         /\ IsDataSet(m2, ds, filled)
         /\ \A pages : m[ds].m_is_hashed /\ HoldsPages(m, ds, filled, pages) => HoldsPages(m2, ds, filled, pages)
         /\ \A b : Owns(m, ds, filled, b) => Owns(m2, ds, filled, b)
<1>1. PICK size, array, elems : size = m[ds].m_size /\ array = m[ds].m_pDE /\ elems = m[array].elems
  OBVIOUS
<1>2. ds \in DOMAIN m /\ m[ds].kind = "ds" /\ size \in Int /\ filled \subseteq 1..size
  BY <1>1 DEF IsDataSet
<1>3. ds \in DOMAIN m2 /\ m2[ds] = m[ds]
  BY <1>2 DEF KeepsSets, SetKinds
<1>4. CASE size < 0
  <2>1. array = NULL
    BY <1>1, <1>4 DEF IsDataSet
  <2>2. filled = {} /\ ~(size >= 0)
    BY <1>2, <1>4
  <2>3. IsDataSet(m2, ds, filled)
    BY <1>1, <1>2, <1>3, <1>4, <2>1 DEF IsDataSet
  <2> QED  BY <1>1, <1>3, <2>2, <2>3 DEF HoldsPages, Owns
<1>5. CASE size >= 0
  <2>1. IsArray(m, ds, filled, size, array, elems)
    BY <1>1, <1>5, SetHasArray
  <2>2. array \in DOMAIN m2 /\ m2[array] = m[array]
    BY <2>1 DEF IsArray, KeepsSets, SetKinds
  <2>3. \A k \in filled : elems[k].m_pdata \in DOMAIN m2 /\ m2[elems[k].m_pdata] = m[elems[k].m_pdata]
    BY <2>1 DEF IsArray, KeepsSets, SetKinds
  <2>4. IsArray(m2, ds, filled, size, array, elems)
    BY <1>3, <2>1, <2>2, <2>3 DEF IsArray
  <2>5. IsDataSet(m2, ds, filled)
    BY <2>4, ArrayMakesSet
  <2>6. m2[m2[ds].m_pDE].elems = elems /\ m2[ds].m_pDE = array /\ m2[ds].m_size = size
    BY <1>1, <1>3, <2>2
  <2>7. ASSUME NEW pages, HoldsPages(m, ds, filled, pages)
        PROVE  HoldsPages(m2, ds, filled, pages)
    <3>1. size = Len(pages) /\ \A k \in filled : elems[k].m_index = pages[k].pgno /\ m[elems[k].m_pdata].bytes = pages[k].hash
      BY <1>1, <2>7, Zenon DEF HoldsPages
    <3>2. \A k \in filled : elems[k].m_index = pages[k].pgno /\ m2[elems[k].m_pdata].bytes = pages[k].hash
      BY <2>3, <3>1
    <3> QED  BY <2>6, <3>1, <3>2, Zenon DEF HoldsPages
  <2>8. \A b : Owns(m, ds, filled, b) => Owns(m2, ds, filled, b)
    BY <1>1, <2>6 DEF Owns
  <2> QED  BY <1>1, <1>3, <2>2, <2>5, <2>7, <2>8
<1> QED  BY <1>2, <1>4, <1>5

\* What a block put where there was one, and one where there was none, leave of the memory;
\* and what is left with a block freed and another changed.
Gains(m, m2, array, a) == DOMAIN m2 = DOMAIN m \cup {a} /\ \A b \in DOMAIN m : b # array => m2[b] = m[b]
Loses(m, m2, array, freed) ==
  DOMAIN m2 = DOMAIN m \ {freed} /\ \A b \in DOMAIN m \ {freed} : b # array => m2[b] = m[b]

LEMMA PutBoth ==
  ASSUME NEW m, NEW array \in DOMAIN m, NEW full, NEW a, a \notin DOMAIN m, NEW block,
         NEW m2, m2 = Put(a, block, Put(array, full, m))
  PROVE  Gains(m, m2, array, a) /\ m2[a] = block /\ m2[array] = full
  BY DEF Put, Gains

LEMMA FreeAndPut ==
  ASSUME NEW m, NEW array \in DOMAIN m, NEW full, NEW freed, freed # array,
         NEW m2, m2 = Put(array, full, Without({freed}, m))
  PROVE  Loses(m, m2, array, freed) /\ m2[array] = full
  BY DEF Put, Without, Loses

\* The elements of an array, of one length, and with one of them set.
OfLength(elems, filled, len) == \A k \in filled : elems[k].m_data_len = len
SetAt(elems, new, k, de) == new = [elems EXCEPT ![k] = de]
ClearedAt(elems, new, k) == new = [elems EXCEPT ![k].m_pdata = NULL]

\* The pages and the blocks of a data set with elements.
LEMMA ArrayPages ==
  ASSUME NEW m, NEW ds, NEW filled, NEW n, NEW array, NEW elems, IsArray(m, ds, filled, n, array, elems), NEW pages
  PROVE  HoldsPages(m, ds, filled, pages) <=>
           /\ n = Len(pages)
           /\ \A k \in filled : elems[k].m_index = pages[k].pgno /\ m[elems[k].m_pdata].bytes = pages[k].hash
  BY DEF IsArray, HoldsPages

LEMMA ArrayOwns ==
  ASSUME NEW m, NEW ds, NEW filled, NEW n, NEW array, NEW elems, IsArray(m, ds, filled, n, array, elems), NEW b
  PROVE  Owns(m, ds, filled, b) <=> b = ds \/ b = array \/ \E k \in filled : b = elems[k].m_pdata
<1>1. m[ds].m_size >= 0 /\ m[ds].m_pDE = array /\ m[m[ds].m_pDE].elems = elems
  BY DEF IsArray
<1> QED  BY <1>1 DEF Owns

\* The step from m to m2 gives element k, which has no data, the data at a.
Setting(m, ds, filled, n, array, elems, k, a, index, len, m2, new) ==
  /\ IsArray(m, ds, filled, n, array, elems) /\ k \in 1..n /\ k \notin filled
  /\ a \in Nat /\ a \notin DOMAIN m /\ index \in Int /\ len \in Int /\ OfLength(elems, filled, len)
  /\ Gains(m, m2, array, a) /\ SetAt(elems, new, k, DE(index, a, len))
  /\ m2[a].kind = "data" /\ m2[a].len = len /\ m2[array].kind = "array" /\ m2[array].elems = new

\* An element without data is given a block of its own.
LEMMA ArrayElementSet ==
  ASSUME NEW m, NEW ds, NEW filled, NEW n, NEW array, NEW elems, NEW k, NEW a, NEW index, NEW len, NEW m2, NEW new,
         Setting(m, ds, filled, n, array, elems, k, a, index, len, m2, new)
  PROVE  IsArray(m2, ds, filled \cup {k}, n, array, new) /\ OfLength(new, filled \cup {k}, len)
<1> USE DEF OfLength, SetAt, Gains, Setting
<1>1. PICK de : de = DE(index, a, len)
  OBVIOUS
<1>2. ds \in DOMAIN m /\ array # a /\ ds # array /\ ds # a /\ n \in Nat /\ elems \in [1..n -> DEs] /\ filled \subseteq 1..n
  BY DEF IsArray
<1>3. de \in DEs /\ de.m_pdata = a /\ de.m_data_len = len
  BY <1>1 DEF DEs, DE
<1>4. new \in [1..n -> DEs] /\ new[k] = de /\ \A j \in 1..n : j # k => new[j] = elems[j]
  BY <1>1, <1>2, <1>3
<1>5. \A j \in filled : new[j] = elems[j]
  BY <1>2, <1>4
<1>6. ASSUME NEW j \in filled
      PROVE  /\ new[j].m_pdata \in DOMAIN m /\ new[j].m_pdata # a
             /\ m2[new[j].m_pdata].kind = "data" /\ m2[new[j].m_pdata].len = new[j].m_data_len
  <2>1. PICK p : p = elems[j].m_pdata
    OBVIOUS
  <2>2. p \in DOMAIN m /\ m[p].kind = "data" /\ m[p].len = elems[j].m_data_len /\ p # array
    BY <2>1 DEF IsArray
  <2>3. m2[p] = m[p]
    BY <2>2
  <2> QED  BY <1>5, <2>1, <2>2, <2>3
<1>7. \A j \in 1..n \ (filled \cup {k}) : new[j].m_pdata = NULL
  BY <1>4 DEF IsArray
<1>8. \A j \in filled \cup {k} : /\ new[j].m_pdata \in DOMAIN m2 /\ m2[new[j].m_pdata].kind = "data"
                                /\ m2[new[j].m_pdata].len = new[j].m_data_len
  BY <1>3, <1>4, <1>6
<1>9. /\ \A j, h \in filled : new[j].m_pdata = new[h].m_pdata => j = h
      /\ \A j \in filled : new[j].m_data_len = len
  BY <1>5 DEF IsArray
<1>10. \A j, h \in filled \cup {k} : new[j].m_pdata = new[h].m_pdata => j = h
  BY <1>3, <1>4, <1>6, <1>9
<1>11. \A j, h \in filled \cup {k} : new[j].m_data_len = new[h].m_data_len
  BY <1>3, <1>4, <1>9
<1>12. m2[ds] = m[ds] /\ m[ds].kind = "ds" /\ m[ds].m_size = n /\ m[ds].m_pDE = array /\ array \in DOMAIN m2
  BY <1>2 DEF IsArray
<1>13. ds \in DOMAIN m2 /\ filled \cup {k} \subseteq 1..n
  BY <1>2
<1>14. IsArray(m2, ds, filled \cup {k}, n, array, new)
  BY <1>2, <1>4, <1>7, <1>8, <1>10, <1>11, <1>12, <1>13 DEF IsArray
<1>15. OfLength(new, filled \cup {k}, len)
  BY <1>3, <1>4, <1>9
<1> QED  BY <1>14, <1>15

\* The step from m to m2 frees the data of element k.
Freeing(m, ds, filled, n, array, elems, k, freed, m2, new) ==
  /\ IsArray(m, ds, filled, n, array, elems) /\ k \in filled /\ freed = elems[k].m_pdata
  /\ Loses(m, m2, array, freed) /\ ClearedAt(elems, new, k)
  /\ m2[array].kind = "array" /\ m2[array].elems = new

\* The data of an element is freed and its pointer cleared.
LEMMA ArrayElementFreed ==
  ASSUME NEW m, NEW ds, NEW filled, NEW n, NEW array, NEW elems, NEW k, NEW freed, NEW m2, NEW new,
         Freeing(m, ds, filled, n, array, elems, k, freed, m2, new)
  PROVE  IsArray(m2, ds, filled \ {k}, n, array, new)
<1> USE DEF Loses, ClearedAt, Freeing
<1>1. PICK de : de = [elems[k] EXCEPT !.m_pdata = NULL]
  OBVIOUS
<1>2. /\ freed \in DOMAIN m /\ array # freed /\ ds # freed /\ ds # array /\ k \in 1..n
      /\ ds \in DOMAIN m /\ n \in Nat /\ elems \in [1..n -> DEs] /\ filled \subseteq 1..n
  BY <1>1 DEF IsArray
<1>3. de \in DEs /\ de.m_pdata = NULL
  <2>1. elems[k] \in DEs
    BY <1>2
  <2> QED  BY <1>1, <2>1 DEF DEs, NULL
<1>4. new \in [1..n -> DEs] /\ new[k] = de /\ \A j \in 1..n : j # k => new[j] = elems[j]
  BY <1>1, <1>2, <1>3
<1>5. \A j \in filled \ {k} : new[j] = elems[j]
  BY <1>2, <1>4
<1>6. ASSUME NEW j \in filled \ {k}
      PROVE  /\ new[j].m_pdata \in DOMAIN m2
             /\ m2[new[j].m_pdata].kind = "data" /\ m2[new[j].m_pdata].len = new[j].m_data_len
  <2>1. PICK p : p = elems[j].m_pdata
    OBVIOUS
  <2>2. p \in DOMAIN m /\ m[p].kind = "data" /\ m[p].len = elems[j].m_data_len /\ p # array /\ p # freed
    BY <1>1, <2>1 DEF IsArray
  <2>3. m2[p] = m[p] /\ p \in DOMAIN m2
    BY <1>1, <2>2
  <2> QED  BY <1>5, <2>1, <2>2, <2>3
<1>7. \A j \in 1..n \ (filled \ {k}) : new[j].m_pdata = NULL
  BY <1>3, <1>4 DEF IsArray
<1>8. /\ \A j, h \in filled \ {k} : new[j].m_pdata = new[h].m_pdata => j = h
      /\ \A j, h \in filled \ {k} : new[j].m_data_len = new[h].m_data_len
  BY <1>5 DEF IsArray
<1>9. /\ m2[ds] = m[ds] /\ m[ds].kind = "ds" /\ m[ds].m_size = n /\ m[ds].m_pDE = array
      /\ array \in DOMAIN m2 /\ ds \in DOMAIN m2 /\ filled \ {k} \subseteq 1..n
  BY <1>1, <1>2 DEF IsArray
<1>10. IsArray(m2, ds, filled \ {k}, n, array, new)
  BY <1>2, <1>4, <1>6, <1>7, <1>8, <1>9 DEF IsArray
<1> QED  BY <1>10

\* The blocks of a data set are of its kinds, and of these only the set itself is one.
LEMMA SetBlocks ==
  ASSUME NEW m, NEW ds, NEW filled, IsDataSet(m, ds, filled)
  PROVE  /\ \A b : Owns(m, ds, filled, b) => /\ b \in DOMAIN m /\ m[b].kind \in SetKinds
                                             /\ m[b].kind = "ds" => b = ds
         /\ m[ds].m_pDE # NULL =>
              /\ m[ds].m_size >= 0 /\ m[ds].m_pDE \in DOMAIN m /\ m[m[ds].m_pDE].kind = "array"
              /\ DOMAIN m[m[ds].m_pDE].elems = 1..m[ds].m_size
              /\ \A k \in 1..m[ds].m_size :
                   m[m[ds].m_pDE].elems[k].m_pdata # NULL =>
                     /\ m[m[ds].m_pDE].elems[k].m_pdata \in DOMAIN m
                     /\ m[m[m[ds].m_pDE].elems[k].m_pdata].kind = "data"
<1>1. \A b : Owns(m, ds, filled, b) => /\ b \in DOMAIN m /\ m[b].kind \in SetKinds
                                       /\ m[b].kind = "ds" => b = ds
  BY DEF IsDataSet, Owns, SetKinds
<1>2. ASSUME m[ds].m_pDE # NULL
      PROVE  m[ds].m_size >= 0
  BY <1>2 DEF IsDataSet
<1>3. CASE m[ds].m_size >= 0
  <2>1. PICK n, array, elems : n = m[ds].m_size /\ array = m[ds].m_pDE /\ elems = m[m[ds].m_pDE].elems
    OBVIOUS
  <2>2. IsArray(m, ds, filled, n, array, elems)
    BY <1>3, <2>1, SetHasArray
  <2>3. /\ array \in DOMAIN m /\ m[array].kind = "array" /\ elems \in [1..n -> DEs]
        /\ \A k \in 1..n : elems[k].m_pdata # NULL => elems[k].m_pdata \in DOMAIN m /\ m[elems[k].m_pdata].kind = "data"
    BY <2>2 DEF IsArray
  <2> QED  BY <1>1, <1>3, <2>1, <2>3
<1> QED  BY <1>1, <1>2, <1>3

-----------------------------------------------------------------------------
(* Steps that leave the data set alone *)

\* The data set, how far it is filled, its blocks and what it was read from stay.
Quiet ==
  /\ Cur' = Cur /\ (Cur = NULL \/ (Filled' = Filled /\ read' = read))
  /\ KeepsSets(mem, mem') /\ KeepsSets(mem', mem)

LEMMA SetUntouched ==
  ASSUME SetInv, SetsOwned, Quiet
  PROVE  SetInv' /\ SetsOwned'
<1>1. Cur' = Cur /\ (Cur = NULL \/ (Filled' = Filled /\ read' = read)) /\ KeepsSets(mem, mem')
  BY DEF Quiet
<1>2. SetInv'
  <2>1. CASE Cur = NULL
    BY <1>1, <2>1 DEF SetInv
  <2>2. CASE Cur # NULL
    <3>1. IsDataSet(mem, Cur, Filled) /\ (mem[Cur].m_is_hashed => HoldsPages(mem, Cur, Filled, read))
      BY <2>2 DEF SetInv
    <3>2. mem'[Cur] = mem[Cur] /\ IsDataSet(mem', Cur, Filled)
      BY <1>1, <3>1, SetKept
    <3>3. ASSUME mem[Cur].m_is_hashed
          PROVE  HoldsPages(mem', Cur, Filled, read)
      <4>1. \A pages : mem[Cur].m_is_hashed /\ HoldsPages(mem, Cur, Filled, pages) => HoldsPages(mem', Cur, Filled, pages)
        BY <1>1, <3>1, SetKept
      <4> QED  BY <3>1, <3>3, <4>1
    <3> QED  BY <1>1, <2>2, <3>2, <3>3 DEF SetInv
  <2> QED  BY <2>1, <2>2
<1>3. SetsOwned'
  <2> SUFFICES ASSUME NEW b \in Live', mem'[b].kind \in SetKinds
               PROVE  Cur # NULL /\ Owns(mem', Cur, Filled, b)
    BY <1>1 DEF SetsOwned
  <2>1. b \in Live /\ mem'[b] = mem[b]
    BY DEF Quiet, KeepsSets, Live
  <2>2. Cur # NULL /\ Owns(mem, Cur, Filled, b)
    BY <2>1 DEF SetsOwned
  <2> QED  BY <1>1, <2>2, SetKept DEF SetInv
<1> QED  BY <1>2, <1>3

\* What is said of the pointers in a data set follows.
LEMMA BlocksAgain ==
  ASSUME SetInv', SetsOwned'
  PROVE  Blocks'
<1> SUFFICES ASSUME NEW b \in Live', mem'[b].kind = "ds"
             PROVE  (/\ PointsTo(mem[b].m_pDE, "array")
                     /\ mem[b].m_pDE # NULL => /\ DOMAIN Array(b) = 1..Size(b)
                                               /\ \A k \in 1..Size(b) : PointsTo(Array(b)[k].m_pdata, "data"))'
  BY DEF Blocks
<1>1. Cur' # NULL /\ Owns(mem', Cur', Filled', b) /\ IsDataSet(mem', Cur', Filled')
  BY DEF SetsOwned, SetInv, SetKinds
<1>2. b = Cur'
  BY <1>1, SetBlocks
<1>3. b # NULL /\ IsDataSet(mem', b, Filled')
  BY <1>1, <1>2
<1> QED  BY <1>3, SetBlocks DEF PointsTo, Array, Size, Live

\* A step that leaves the memory and the data set alone changes none of the properties
\* of memory.
LEMMA MemoryUntouched ==
  ASSUME DsInv, UNCHANGED <<mem, next>>, calls' \in 0..MaxCalls, Cur' = Cur, Filled' = Filled,
         Cur = NULL \/ read' = read, Pointers'
  PROVE  DsTypeOK' /\ FitsTheCount' /\ SetInv' /\ SetsOwned'
<1>1. Quiet
  BY DEF Quiet, KeepsSets
<1>2. SetInv' /\ SetsOwned'
  BY <1>1, SetUntouched DEF DsInv
<1>3. Blocks'
  BY <1>2, BlocksAgain
<1>4. DsTypeOK'
  BY <1>3 DEF DsInv, DsTypeOK, Live
<1>5. FitsTheCount'
  BY DEF DsInv, FitsTheCount, Live
<1> QED  BY <1>2, <1>4, <1>5

Functions == {"none", "free_ds", "gen_ds", "from_db", "page_count"}

\* Between calls no local variable points to anything; a call starts with none that does.
LEMMA Began ==
  ASSUME DsInv, NEW f \in Functions, NEW n \in Int, NEW len \in Int, NEW at, Begin(f, n, len, at)
  PROVE  /\ pc = "client" /\ pc' = at /\ calls' \in 0..MaxCalls
         /\ loc'.fn = f /\ loc'.n = n /\ loc'.len = len /\ loc'.i = 0
         /\ loc.ds = NULL /\ loc'.ds = NULL /\ loc'.db = NULL /\ loc'.gen_str = NULL
         /\ loc'.pgnos = NULL /\ loc'.hashes = NULL /\ loc'.info = NULL
         /\ loc' \in [fn : Functions, n : Int, len : Int, i : Nat, db : Nat, pgnos : Nat, hashes : Nat,
                      info : Nat, ds : Nat, gen_str : Nat]
<1>1. pc = "client" /\ pc' = at /\ loc' = [NoLocals EXCEPT !.fn = f, !.n = n, !.len = len]
  BY DEF Begin
<1>2. calls' \in 0..MaxCalls
  BY DataSetsAssumption DEF Begin, DsInv, DsTypeOK
<1>3. loc' = [fn |-> f, n |-> n, len |-> len, i |-> 0, db |-> NULL, pgnos |-> NULL, hashes |-> NULL,
              info |-> NULL, ds |-> NULL, gen_str |-> NULL]
  BY <1>1 DEF NoLocals
<1>4. loc.ds = NULL
  BY <1>1 DEF DsInv, Control
<1>5. /\ loc'.fn = f /\ loc'.n = n /\ loc'.len = len /\ loc'.i = 0
      /\ loc'.ds = NULL /\ loc'.db = NULL /\ loc'.gen_str = NULL
      /\ loc'.pgnos = NULL /\ loc'.hashes = NULL /\ loc'.info = NULL
  BY <1>3
<1>6. loc' \in [fn : Functions, n : Int, len : Int, i : Nat, db : Nat, pgnos : Nat, hashes : Nat,
                info : Nat, ds : Nat, gen_str : Nat]
  BY <1>3 DEF NULL
<1> QED  BY <1>1, <1>2, <1>4, <1>5, <1>6

\* A call that starts with a step of its own, or is over at once.
LEMMA CallStarts ==
  ASSUME DsInv, NEW f \in Functions, NEW n \in Int, NEW len \in Int,
         NEW at \in {"client", "free", "gen", "open", "crash"}, Begin(f, n, len, at),
         UNCHANGED <<mem, next, pds, file, read>>, pelem' \in {pelem, NULL},
         at = "free" => pds # NULL /\ f \in {"free_ds", "gen_ds", "from_db"},
         at = "gen" => pds = NULL /\ f = "gen_ds",
         at = "crash" => f # "gen_ds",
         at = "open" => f = "page_count" \/ (f = "from_db" /\ pds = NULL)
  PROVE  DsInv'
<1>1. /\ pc = "client" /\ pc' = at /\ calls' \in 0..MaxCalls
      /\ loc'.fn = f /\ loc'.n = n /\ loc'.len = len /\ loc'.i = 0
      /\ loc.ds = NULL /\ loc'.ds = NULL /\ loc'.db = NULL /\ loc'.gen_str = NULL
      /\ loc'.pgnos = NULL /\ loc'.hashes = NULL /\ loc'.info = NULL
  BY Began
<1>2. loc' \in [fn : Functions, n : Int, len : Int, i : Nat, db : Nat, pgnos : Nat, hashes : Nat,
                info : Nat, ds : Nat, gen_str : Nat]
  BY Began
<1>3. Cur' = Cur
  BY <1>1 DEF Cur
<1>4. Filled' = Filled
  BY <1>1, <1>3 DEF Filled, Size
<1>5. Pointers'
  BY <1>1 DEF DsInv, DsTypeOK, Pointers, PointsTo, Live
<1>6. DsTypeOK' /\ FitsTheCount' /\ SetInv' /\ SetsOwned'
  BY <1>1, <1>3, <1>4, <1>5, MemoryUntouched
<1>7. Types'
  BY <1>1, <1>2 DEF DsInv, Types, Functions, Live, NULL
<1>8. Control'
  BY <1>1 DEF Control
<1>9. Carried'
  BY <1>1 DEF Carried
<1>10. LocalsOwned'
  <2>1. loc.gen_str = NULL /\ loc.pgnos = NULL /\ loc.hashes = NULL
    BY <1>1 DEF DsInv, Control
  <2> QED  BY <1>1, <2>1 DEF DsInv, LocalsOwned, Live
<1> QED  BY <1>6, <1>7, <1>8, <1>9, <1>10 DEF DsInv

LEMMA CallsKeepInv ==
  ASSUME DsInv, CallFreeDs \/ CallGenDs \/ CallFromDb \/ CallPageCount \/ CallDeFree
  PROVE  DsInv'
<1>1. CASE CallFreeDs
  BY <1>1, CallStarts DEF CallFreeDs, Functions
<1>2. CASE CallGenDs
  <2>1. PICK n \in Sizes, len \in Lengths : Begin("gen_ds", n, len, IF pds = NULL THEN "gen" ELSE "free")
    BY <1>2 DEF CallGenDs
  <2>2. n \in Int /\ len \in Int
    BY <2>1, DataSetsAssumption
  <2>3. CASE pds = NULL
    BY <1>2, <2>1, <2>2, <2>3, CallStarts DEF CallGenDs, Functions
  <2>4. CASE pds # NULL
    BY <1>2, <2>1, <2>2, <2>4, CallStarts DEF CallGenDs, Functions
  <2> QED  BY <2>3, <2>4
<1>3. CASE CallFromDb
  <2>1. CASE pds = NULL
    BY <1>3, <2>1, CallStarts DEF CallFromDb, Functions
  <2>2. CASE pds # NULL
    BY <1>3, <2>2, CallStarts DEF CallFromDb, Functions
  <2> QED  BY <2>1, <2>2
<1>4. CASE CallPageCount
  BY <1>4, CallStarts DEF CallPageCount, Functions
<1>5. CASE CallDeFree
  <2>1. CASE pelem = NULL
    BY <1>5, <2>1, CallStarts DEF CallDeFree, Functions
  <2>2. CASE pelem # NULL
    BY <1>5, <2>2, CallStarts DEF CallDeFree, Functions
  <2> QED  BY <2>1, <2>2
<1> QED  BY <1>1, <1>2, <1>3, <1>4, <1>5

-----------------------------------------------------------------------------
(* Steps of a call that leave the data set alone *)

LocType == [fn : Functions, n : Int, len : Int, i : Nat, db : Nat, pgnos : Nat, hashes : Nat,
            info : Nat, ds : Nat, gen_str : Nat]

\* A step inside a call is no step of the client's.
LEMMA Going ==
  ASSUME DsInv, NEW at, Go(at)
  PROVE  pc' = at /\ calls' = calls /\ calls' \in 0..MaxCalls
  BY DEF Go, DsInv, DsTypeOK

\* With the local variables gone only the memory has to be looked at.
LEMMA Returned ==
  ASSUME DsInv, Return, DsTypeOK', FitsTheCount', SetInv', SetsOwned',
         \A b \in Live' : mem'[b].kind \notin {"string", "pgnos", "hashes"},
         \A b \in Live' : mem'[b].kind \in SetKinds \cup {"db", "errmsg", "info", "elem", "payload"},
         next' \in Nat \ {0}, pds' \in Nat, pelem' = pelem, file' \in Files,
         Len(read') \in Nat, \A k \in 1..Len(read') : read'[k].pgno \in Nat
  PROVE  DsInv'
<1>1. pc' = "client" /\ loc' = NoLocals
  BY DEF Return, Go
<1>2. /\ loc'.ds = NULL /\ loc'.db = NULL /\ loc'.gen_str = NULL
      /\ loc'.pgnos = NULL /\ loc'.hashes = NULL /\ loc'.info = NULL
  BY <1>1 DEF NoLocals
<1>3. loc' \in LocType
  BY <1>1 DEF NoLocals, LocType, Functions, NULL
<1>4. Types'
  BY <1>1, <1>3 DEF DsInv, Types, LocType, Functions, Live, SetKinds
<1>5. Control' /\ Carried'
  BY <1>1, <1>2 DEF Control, Carried
<1>6. LocalsOwned'
  BY DEF LocalsOwned
<1> QED  BY <1>4, <1>5, <1>6 DEF DsInv

\* A step that changes the memory but no data set.
LEMMA MemoryChanged ==
  ASSUME DsInv, calls' = calls, Live' \subseteq 1..(next' - 1), Quiet, Pointers'
  PROVE  DsTypeOK' /\ SetInv' /\ SetsOwned'
<1>1. SetInv' /\ SetsOwned'
  BY SetUntouched DEF DsInv
<1>2. Blocks'
  BY <1>1, BlocksAgain
<1> QED  BY <1>1, <1>2 DEF DsInv, DsTypeOK

\* malloc returns an address that is not in use.
LEMMA NewBlock ==
  ASSUME DsInv, NEW block, mem' = Put(next, block, mem), next' = next + 1
  PROVE  /\ next \in Nat \ {0} /\ next' \in Nat \ {0} /\ next \notin Live /\ Live' = Live \cup {next}
         /\ Live' \subseteq 1..(next' - 1) /\ mem'[next] = block
         /\ \A b \in Live : mem'[b] = mem[b]
<1>1. next \in Nat \ {0} /\ Live \subseteq 1..(next - 1)
  BY DEF DsInv, Types, DsTypeOK
<1>2. next \notin Live
  BY <1>1
<1>3. Live' = Live \cup {next} /\ mem'[next] = block /\ \A b \in Live : b # next => mem'[b] = mem[b]
  BY DEF Live, Put
<1>4. Live' \subseteq 1..(next' - 1)
  BY <1>1, <1>3
<1> QED  BY <1>1, <1>2, <1>3, <1>4

\* How far the data set is filled depends on its size and the loop only.
SameProgress ==
  \/ /\ pc \notin {"free", "string", "element", "copy", "crash"}
     /\ pc' \notin {"free", "string", "element", "copy", "crash"}
  \/ pc \in {"string", "element", "copy"} /\ pc' \in {"string", "element", "copy"} /\ loc'.i = loc.i

LEMMA QuietStep ==
  ASSUME DsInv, Cur' = Cur, Cur = NULL \/ (read' = read /\ SameProgress),
         KeepsSets(mem, mem'), KeepsSets(mem', mem)
  PROVE  Quiet
<1>1. ASSUME Cur # NULL
      PROVE  Filled' = Filled
  <2>1. Cur \in Live /\ mem[Cur].kind = "ds"
    BY <1>1 DEF DsInv, SetInv, IsDataSet, Live
  <2>2. mem'[Cur] = mem[Cur]
    BY <2>1 DEF KeepsSets, SetKinds, Live
  <2>3. Size(Cur)' = Size(Cur)
    BY <2>2 DEF Size
  <2> QED  BY <1>1, <2>3 DEF Filled, SameProgress
<1> QED  BY <1>1 DEF Quiet

\* Another block of a kind of its own disturbs no data set.
LEMMA NewBlockQuiet ==
  ASSUME DsInv, NEW block, mem' = Put(next, block, mem), next' = next + 1, block.kind \notin SetKinds,
         Cur' = Cur, Cur = NULL \/ (read' = read /\ SameProgress)
  PROVE  Quiet
<1>1. next \notin Live /\ Live' = Live \cup {next} /\ mem'[next] = block /\ \A b \in Live : mem'[b] = mem[b]
  BY NewBlock
<1>2. KeepsSets(mem, mem') /\ KeepsSets(mem', mem)
  BY <1>1 DEF KeepsSets, Live
<1> QED  BY <1>2, QuietStep

LEMMA OpenKeepsInv ==
  ASSUME DsInv, Open
  PROVE  DsInv'
<1>1. PICK block : block = [kind |-> "db"]
  OBVIOUS
<1>2. /\ pc = "open" /\ mem' = Put(next, block, mem) /\ next' = next + 1 /\ UNCHANGED <<pds, pelem, file, read>>
      /\ calls' = calls /\ block.kind = "db"
  BY <1>1 DEF Open, Malloc, Go, Return
<1>3. /\ next \in Nat \ {0} /\ next' \in Nat \ {0} /\ next \notin Live /\ Live' = Live \cup {next}
      /\ Live' \subseteq 1..(next' - 1) /\ mem'[next] = block /\ \A b \in Live : mem'[b] = mem[b]
  BY <1>2, NewBlock
<1>4. /\ loc.ds = NULL /\ loc.gen_str = NULL /\ loc.pgnos = NULL /\ loc.hashes = NULL /\ loc.info = NULL
      /\ loc.fn = "page_count" \/ (loc.fn = "from_db" /\ pds = NULL)
      /\ loc \in LocType
  BY <1>2 DEF DsInv, Control, Types, LocType, Functions
<1>5. FitsTheCount'
  BY <1>2, <1>3 DEF DsInv, FitsTheCount
<1>6. \A b \in Live' : mem'[b].kind \notin {"string", "pgnos", "hashes"}
  <2>1. \A b \in Live : mem[b].kind \notin {"string", "pgnos", "hashes"}
    BY <1>4 DEF DsInv, LocalsOwned, DsTypeOK, NULL
  <2> QED  BY <1>2, <1>3, <2>1
<1>7. \A b \in Live' : mem'[b].kind \in SetKinds \cup {"db", "errmsg", "info", "elem", "payload"}
  <2>1. \A b \in Live' : mem'[b].kind \in SetKinds \cup {"string", "pgnos", "hashes", "db", "errmsg", "info", "elem", "payload"}
    BY <1>2, <1>3 DEF DsInv, Types, SetKinds
  <2> QED  BY <2>1, <1>6
<1>8. Return \/ (pc' = "exec" /\ loc' = [loc EXCEPT !.db = next])
  BY DEF Open, Go
<1>9. loc'.ds = NULL /\ pc' \in {"client", "exec"} /\ pc = "open"
  BY <1>2, <1>4, <1>8 DEF Return, Go, NoLocals, LocType
<1>10. Cur' = Cur
  BY <1>2, <1>4, <1>9 DEF Cur
<1>11. Quiet
  BY <1>2, <1>9, <1>10, NewBlockQuiet DEF SameProgress, SetKinds
<1>12. CASE Return
  <2>1. loc' = NoLocals
    BY <1>12 DEF Return, Go
  <2>2. Pointers'
    <3>1. /\ loc'.ds = NULL /\ loc'.db = NULL /\ loc'.gen_str = NULL
          /\ loc'.pgnos = NULL /\ loc'.hashes = NULL /\ loc'.info = NULL
      BY <2>1 DEF NoLocals
    <3> QED  BY <1>2, <1>3, <3>1 DEF DsInv, DsTypeOK, Pointers, PointsTo
  <2>3. DsTypeOK' /\ SetInv' /\ SetsOwned'
    BY <1>2, <1>3, <1>11, <2>2, MemoryChanged
  <2> QED  BY <1>2, <1>3, <1>5, <1>6, <1>7, <1>12, <2>3, Returned DEF DsInv, Types
<1>13. CASE pc' = "exec" /\ loc' = [loc EXCEPT !.db = next]
  <2>1. /\ loc' \in LocType /\ loc'.db = next /\ loc'.fn = loc.fn
        /\ loc'.gen_str = NULL /\ loc'.pgnos = NULL /\ loc'.hashes = NULL /\ loc'.info = NULL
    BY <1>3, <1>4, <1>13 DEF LocType
  <2>2. Pointers'
    BY <1>2, <1>3, <1>9, <2>1 DEF DsInv, DsTypeOK, Pointers, PointsTo
  <2>3. DsTypeOK' /\ SetInv' /\ SetsOwned'
    BY <1>2, <1>3, <1>11, <2>2, MemoryChanged
  <2>4. Types'
    BY <1>2, <1>3, <1>7, <1>13, <2>1 DEF DsInv, Types, LocType, Functions, SetKinds
  <2>5. Control'
    BY <1>2, <1>4, <1>9, <1>13, <2>1 DEF Control
  <2>6. Carried' /\ LocalsOwned'
    BY <1>6, <1>13 DEF Carried, LocalsOwned
  <2> QED  BY <1>5, <2>3, <2>4, <2>5, <2>6 DEF DsInv
<1> QED  BY <1>8, <1>12, <1>13

\* In the steps before anything was allocated but the connection nothing is there that a call could lose.
LEMMA NoTemporaries ==
  ASSUME DsInv, pc \in {"client", "open", "exec", "count", "close", "temps", "string", "copy", "free", "gen", "build"}
  PROVE  \A b \in Live : mem[b].kind \in SetKinds \cup {"db", "errmsg", "info", "elem", "payload"}
<1>1. loc.gen_str = NULL /\ loc.pgnos = NULL /\ loc.hashes = NULL
  BY DEF DsInv, Control
<1>2. \A b \in Live : mem[b].kind \notin {"string", "pgnos", "hashes"}
  BY <1>1 DEF DsInv, LocalsOwned, DsTypeOK, NULL
<1>3. \A b \in Live : mem[b].kind \in SetKinds \cup {"string", "pgnos", "hashes", "db", "errmsg", "info", "elem", "payload"}
  BY DEF DsInv, Types, SetKinds
<1> QED  BY <1>2, <1>3

\* A call that returns and leaves the memory as it is, or with another block.
LEMMA ReturnKeepsInv ==
  ASSUME DsInv, Return, DsTypeOK', FitsTheCount', SetInv', SetsOwned',
         \A b \in Live' : mem'[b].kind \in SetKinds \cup {"db", "errmsg", "info", "elem", "payload"},
         next' \in Nat \ {0}, pds' \in Nat, UNCHANGED <<pelem, file, read>>
  PROVE  DsInv'
<1>1. \A b \in Live' : mem'[b].kind \notin {"string", "pgnos", "hashes"}
  BY DEF SetKinds
<1> QED  BY <1>1, Returned DEF DsInv, Types

LEMMA ReturnPointers ==
  ASSUME DsInv, Return, PointsTo(pds, "ds")', PointsTo(pelem, "elem")'
  PROVE  Pointers'
<1>1. loc' = NoLocals
  BY DEF Return, Go
<1>2. /\ loc'.ds = NULL /\ loc'.db = NULL /\ loc'.gen_str = NULL
      /\ loc'.pgnos = NULL /\ loc'.hashes = NULL /\ loc'.info = NULL
  BY <1>1 DEF NoLocals
<1> QED  BY <1>2 DEF Pointers, PointsTo

LEMMA ExecKeepsInv ==
  ASSUME DsInv, Exec
  PROVE  DsInv'
<1>1. pc = "exec" /\ UNCHANGED <<pds, pelem, file, read>>
  BY DEF Exec
<1>2. /\ loc.ds = NULL /\ loc.gen_str = NULL /\ loc.pgnos = NULL /\ loc.hashes = NULL /\ loc.info = NULL
      /\ loc.fn = "page_count" \/ (loc.fn = "from_db" /\ pds = NULL)
  BY <1>1 DEF DsInv, Control
<1>3. CASE Go("count") /\ UNCHANGED <<mem, next, loc>>
  <2>1. pc' = "count" /\ calls' = calls /\ calls' \in 0..MaxCalls
    BY <1>3, Going
  <2>2. Cur' = Cur
    BY <1>1, <1>3 DEF Cur
  <2>3. Filled' = Filled
    BY <1>1, <1>3, <2>1, <2>2 DEF Filled, Size
  <2>4. Pointers'
    BY <1>1, <1>3 DEF DsInv, DsTypeOK, Pointers, PointsTo, Live
  <2>5. DsTypeOK' /\ FitsTheCount' /\ SetInv' /\ SetsOwned'
    BY <1>1, <1>3, <2>1, <2>2, <2>3, <2>4, MemoryUntouched
  <2>6. Types'
    BY <1>1, <1>3, <2>1 DEF DsInv, Types, Live
  <2>7. Control' /\ Carried'
    BY <1>1, <1>2, <1>3, <2>1 DEF Control, Carried
  <2>8. LocalsOwned'
    BY <1>3 DEF DsInv, LocalsOwned, Live
  <2> QED  BY <2>5, <2>6, <2>7, <2>8 DEF DsInv
<1>4. CASE Malloc([kind |-> "errmsg"]) /\ Return
  <2>1. PICK block : block = [kind |-> "errmsg"]
    OBVIOUS
  <2>2. /\ mem' = Put(next, block, mem) /\ next' = next + 1 /\ block.kind = "errmsg"
        /\ pc' = "client" /\ calls' = calls /\ loc' = NoLocals
    BY <1>4, <2>1 DEF Malloc, Return, Go
  <2>3. /\ next \in Nat \ {0} /\ next' \in Nat \ {0} /\ next \notin Live /\ Live' = Live \cup {next}
        /\ Live' \subseteq 1..(next' - 1) /\ mem'[next] = block /\ \A b \in Live : mem'[b] = mem[b]
    BY <2>2, NewBlock
  <2>4. Cur' = Cur
    <3>1. loc'.ds = NULL
      BY <2>2 DEF NoLocals
    <3> QED  BY <1>1, <1>2, <3>1 DEF Cur
  <2>5. Quiet
    BY <1>1, <2>2, <2>4, NewBlockQuiet DEF SameProgress, SetKinds
  <2>6. Pointers'
    BY <1>1, <1>4, <2>3, ReturnPointers DEF DsInv, DsTypeOK, Pointers, PointsTo
  <2>7. DsTypeOK' /\ SetInv' /\ SetsOwned'
    BY <2>2, <2>3, <2>5, <2>6, MemoryChanged
  <2>8. FitsTheCount'
    BY <2>2, <2>3 DEF DsInv, FitsTheCount
  <2>9. \A b \in Live' : mem'[b].kind \in SetKinds \cup {"db", "errmsg", "info", "elem", "payload"}
    BY <1>1, <2>2, <2>3, NoTemporaries
  <2> QED  BY <1>1, <1>4, <2>3, <2>7, <2>8, <2>9, ReturnKeepsInv DEF DsInv, Types
<1> QED  BY <1>3, <1>4 DEF Exec

\* The file's length is a number.
LEMMA FileLen ==
  ASSUME NEW f \in Files
  PROVE  Len(f) \in Nat /\ DOMAIN f = 1..Len(f) /\ \A k \in 1..Len(f) : f[k].pgno \in Nat
<1>1. PICK S : f \in Seq(S)
  BY DataSetsAssumption
<1>2. Len(f) \in Nat /\ DOMAIN f = 1..Len(f)
  BY <1>1
<1>3. \A k \in 1..Len(f) : f[k].pgno \in Nat
  BY DataSetsAssumption
<1> QED  BY <1>2, <1>3

LEMMA CountKeepsInv ==
  ASSUME DsInv, Count
  PROVE  DsInv'
<1>1. pc = "count" /\ UNCHANGED <<mem, next, pds, pelem, file, read>>
  BY DEF Count
<1>2. PICK n \in {Len(file), -1} : loc' = [loc EXCEPT !.n = n]
  BY DEF Count
<1>3. /\ loc.ds = NULL /\ loc.gen_str = NULL /\ loc.pgnos = NULL /\ loc.hashes = NULL /\ loc.info = NULL
      /\ loc.fn = "page_count" \/ (loc.fn = "from_db" /\ pds = NULL)
      /\ loc \in LocType /\ file \in Files
  BY <1>1 DEF DsInv, Control, Types, LocType, Functions
<1>4. n \in Int
  BY <1>2, <1>3, FileLen
<1>5. /\ loc' \in LocType /\ loc'.fn = loc.fn /\ loc'.ds = NULL /\ loc'.gen_str = NULL /\ loc'.pgnos = NULL
      /\ loc'.hashes = NULL /\ loc'.info = NULL /\ loc'.db = loc.db
  BY <1>2, <1>3, <1>4 DEF LocType
<1>6. pc' = (IF loc.fn = "page_count" THEN "close" ELSE "temps") /\ calls' = calls /\ calls' \in 0..MaxCalls
  BY Going DEF Count
<1>7. Cur' = Cur
  BY <1>1, <1>3, <1>5 DEF Cur
<1>8. Filled' = Filled
  <2>1. pc' \in {"close", "temps"}
    BY <1>6
  <2> QED  BY <1>1, <1>7, <2>1 DEF Filled, Size
<1>9. Pointers'
  BY <1>1, <1>5 DEF DsInv, DsTypeOK, Pointers, PointsTo, Live
<1>10. DsTypeOK' /\ FitsTheCount' /\ SetInv' /\ SetsOwned'
  BY <1>1, <1>6, <1>7, <1>8, <1>9, MemoryUntouched
<1>11. Types'
  <2>1. pc' \in {"close", "temps"}
    BY <1>6
  <2> QED  BY <1>1, <1>5, <2>1 DEF DsInv, Types, LocType, Functions, Live
<1>12. Control' /\ Carried'
  <2>1. CASE loc.fn = "page_count"
    BY <1>5, <1>6, <2>1 DEF Control, Carried
  <2>2. CASE loc.fn # "page_count"
    BY <1>1, <1>3, <1>5, <1>6, <2>2 DEF Control, Carried
  <2> QED  BY <2>1, <2>2
<1>13. LocalsOwned'
  BY <1>1, <1>3, <1>5 DEF DsInv, LocalsOwned, Live
<1> QED  BY <1>10, <1>11, <1>12, <1>13 DEF DsInv

\* The step of another process, and the steps that end a call or the program.
LEMMA DatabaseKeepsInv ==
  ASSUME DsInv, DatabaseChanges
  PROVE  DsInv'
<1>1. /\ pc \in {"temps", "read"} /\ file' \in Files
      /\ UNCHANGED <<pc, calls, mem, next, pds, pelem, loc, read>>
  BY DEF DatabaseChanges
<1>2. Cur' = Cur /\ Filled' = Filled
  BY <1>1 DEF Cur, Filled, Size
<1>3. Pointers' /\ calls' \in 0..MaxCalls
  BY <1>1 DEF DsInv, DsTypeOK, Pointers, PointsTo, Live
<1>4. DsTypeOK' /\ FitsTheCount' /\ SetInv' /\ SetsOwned'
  BY <1>1, <1>2, <1>3, MemoryUntouched
<1>5. Types' /\ Control' /\ LocalsOwned'
  BY <1>1 DEF DsInv, Types, Control, LocalsOwned, Live
<1>6. Carried'
  BY <1>1 DEF DsInv, Carried
<1> QED  BY <1>4, <1>5, <1>6 DEF DsInv

LEMMA CountUnknownKeepsInv ==
  ASSUME DsInv, CountUnknown
  PROVE  DsInv'
<1>1. /\ pc = "temps" /\ pc' = "crash" /\ calls' = calls /\ UNCHANGED <<mem, next, pds, pelem, loc, file, read>>
      /\ loc.fn = "from_db"
  BY DEF CountUnknown, Go, DsInv, Control
<1>2. Cur' = Cur
  BY <1>1 DEF Cur
<1>3. Filled' = Filled
  BY <1>1, <1>2 DEF Filled, Size
<1>4. Pointers' /\ calls' \in 0..MaxCalls
  BY <1>1 DEF DsInv, DsTypeOK, Pointers, PointsTo, Live
<1>5. DsTypeOK' /\ FitsTheCount' /\ SetInv' /\ SetsOwned'
  BY <1>1, <1>2, <1>3, <1>4, MemoryUntouched
<1>6. Types'
  BY <1>1 DEF DsInv, Types, Live
<1>7. Control'
  <2>1. loc.ds = NULL /\ loc.gen_str = NULL /\ loc.pgnos = NULL /\ loc.hashes = NULL /\ loc.info = NULL
    BY <1>1 DEF DsInv, Control
  <2> QED  BY <1>1, <2>1 DEF Control
<1>8. Carried' /\ LocalsOwned'
  BY <1>1 DEF DsInv, Carried, LocalsOwned, Live
<1> QED  BY <1>5, <1>6, <1>7, <1>8 DEF DsInv

\* The last element is set, and the data set whole.
LEMMA GenReturnsKeepsInv ==
  ASSUME DsInv, GenReturns
  PROVE  DsInv'
<1>1. /\ pc = "string" /\ loc.i >= loc.n /\ pc' = "client" /\ calls' = calls /\ loc' = NoLocals
      /\ UNCHANGED <<mem, next, pds, pelem, file, read>> /\ Return
  BY DEF GenReturns, Return, Go
<1>2. pds # NULL /\ Size(pds) = loc.n /\ loc.n \in Int /\ loc.i \in Nat /\ (loc.i = 0 \/ loc.i <= Size(pds))
  BY <1>1 DEF DsInv, Control, Types
<1>3. Cur' = pds /\ Cur = pds
  BY <1>1, <1>2 DEF Cur
<1>4. Filled' = Filled
  <2>1. Filled' = {k \in 1..Size(pds) : TRUE}
    BY <1>1, <1>3 DEF Filled, Size
  <2>2. Filled = {k \in 1..Size(pds) : k <= loc.i}
    BY <1>1, <1>3 DEF Filled, Size
  <2>3. \A k \in 1..Size(pds) : k <= loc.i
    BY <1>1, <1>2
  <2> QED  BY <2>1, <2>2, <2>3
<1>5. Pointers'
  BY <1>1, ReturnPointers DEF DsInv, DsTypeOK, Pointers, PointsTo, Live
<1>6. DsTypeOK' /\ FitsTheCount' /\ SetInv' /\ SetsOwned'
  <2>1. calls' \in 0..MaxCalls /\ Cur' = Cur
    BY <1>1, <1>3 DEF DsInv, DsTypeOK
  <2> QED  BY <1>1, <1>4, <1>5, <2>1, MemoryUntouched
<1>7. \A b \in Live' : mem'[b].kind \in SetKinds \cup {"db", "errmsg", "info", "elem", "payload"}
  BY <1>1, NoTemporaries DEF Live
<1> QED  BY <1>1, <1>6, <1>7, ReturnKeepsInv DEF DsInv, Types

\* The data set that was built becomes the client's.
LEMMA PublishKeepsInv ==
  ASSUME DsInv, Publish
  PROVE  DsInv'
<1>1. /\ pc = "copy" /\ loc.i = Size(loc.ds) /\ pds' = loc.ds /\ pc' = "client" /\ calls' = calls /\ loc' = NoLocals
      /\ UNCHANGED <<mem, next, pelem, file, read>> /\ Return
  BY DEF Publish, Return, Go
<1>2. pds = NULL /\ loc.ds # NULL /\ loc.ds \in Nat
  BY <1>1 DEF DsInv, Control, Types
<1>3. Cur' = loc.ds /\ Cur = loc.ds
  BY <1>1, <1>2 DEF Cur
<1>4. Filled' = Filled
  <2>1. Filled' = {k \in 1..Size(loc.ds) : TRUE}
    BY <1>1, <1>3 DEF Filled, Size
  <2>2. Filled = {k \in 1..Size(loc.ds) : k <= loc.i}
    BY <1>1, <1>3 DEF Filled, Size
  <2> QED  BY <1>1, <2>1, <2>2
<1>5. Pointers'
  BY <1>1, ReturnPointers DEF DsInv, DsTypeOK, Pointers, PointsTo, Live
<1>6. DsTypeOK' /\ FitsTheCount' /\ SetInv' /\ SetsOwned'
  <2>1. calls' \in 0..MaxCalls /\ Cur' = Cur
    BY <1>1, <1>3 DEF DsInv, DsTypeOK
  <2> QED  BY <1>1, <1>4, <1>5, <2>1, MemoryUntouched
<1>7. \A b \in Live' : mem'[b].kind \in SetKinds \cup {"db", "errmsg", "info", "elem", "payload"}
  BY <1>1, NoTemporaries DEF Live
<1> QED  BY <1>1, <1>2, <1>6, <1>7, ReturnKeepsInv DEF DsInv, Types

LEMMA CloseKeepsInv ==
  ASSUME DsInv, Close
  PROVE  DsInv'
<1>1. /\ pc = "close" /\ mem' = Without({loc.db}, mem) /\ pc' = "client" /\ calls' = calls /\ loc' = NoLocals
      /\ UNCHANGED <<next, pds, pelem, file, read>> /\ Return
  BY DEF Close, Return, Go
<1>2. Live' = Live \ {loc.db} /\ \A b \in Live' : mem'[b] = mem[b]
  BY <1>1 DEF Without, Live
<1>3. \A b \in Live : b = loc.db => mem[b].kind = "db"
  <2>1. \A b \in Live : b # NULL
    BY DEF DsInv, DsTypeOK, NULL
  <2> QED  BY <2>1 DEF DsInv, DsTypeOK, Pointers, PointsTo
<1>4. KeepsSets(mem, mem') /\ KeepsSets(mem', mem)
  BY <1>2, <1>3 DEF KeepsSets, SetKinds, Live
<1>5. loc.ds = NULL /\ loc'.ds = NULL
  BY <1>1 DEF DsInv, Control, NoLocals
<1>6. Cur' = Cur
  BY <1>1, <1>5 DEF Cur
<1>7. Quiet
  BY <1>1, <1>4, <1>6, QuietStep DEF SameProgress
<1>8. Pointers'
  <2>1. PointsTo(pds, "ds") /\ PointsTo(pelem, "elem")
    BY DEF DsInv, DsTypeOK, Pointers
  <2>2. PointsTo(pds, "ds")' /\ PointsTo(pelem, "elem")'
    BY <1>1, <1>2, <1>3, <2>1 DEF PointsTo
  <2> QED  BY <1>1, <2>2, ReturnPointers
<1>9. DsTypeOK' /\ SetInv' /\ SetsOwned'
  <2>1. Live' \subseteq 1..(next' - 1)
    BY <1>1, <1>2 DEF DsInv, DsTypeOK
  <2> QED  BY <1>1, <1>7, <1>8, <2>1, MemoryChanged
<1>10. FitsTheCount'
  BY <1>2 DEF DsInv, FitsTheCount
<1>11. \A b \in Live' : mem'[b].kind \in SetKinds \cup {"db", "errmsg", "info", "elem", "payload"}
  BY <1>1, <1>2, NoTemporaries
<1> QED  BY <1>1, <1>9, <1>10, <1>11, ReturnKeepsInv DEF DsInv, Types

\* Two new blocks.
LEMMA NewBlocks ==
  ASSUME DsInv, NEW one, NEW two, mem' = Put(next, one, Put(next + 1, two, mem)), next' = next + 2
  PROVE  /\ next \in Nat \ {0} /\ next' \in Nat \ {0} /\ next \notin Live /\ next + 1 \notin Live
         /\ Live' = Live \cup {next, next + 1} /\ Live' \subseteq 1..(next' - 1)
         /\ mem'[next] = one /\ mem'[next + 1] = two
         /\ \A b \in Live : mem'[b] = mem[b]
<1>1. next \in Nat \ {0} /\ Live \subseteq 1..(next - 1)
  BY DEF DsInv, Types, DsTypeOK
<1>2. next \notin Live /\ next + 1 \notin Live /\ next # next + 1
  BY <1>1
<1>3. PICK after : after = next + 1
  OBVIOUS
<1>4. Live' = Live \cup {next, after} /\ mem'[next] = one /\ mem'[after] = two
      /\ \A b \in Live : b # next /\ b # after => mem'[b] = mem[b]
  BY <1>2, <1>3 DEF Live, Put
<1>5. Live' \subseteq 1..(next' - 1)
  BY <1>1, <1>3, <1>4
<1> QED  BY <1>1, <1>2, <1>3, <1>4, <1>5

LEMMA DeCreateKeepsInv ==
  ASSUME DsInv, CallDeCreate
  PROVE  DsInv'
<1>1. PICK len \in {l \in Lengths : l > 0} :
        /\ Begin("none", 0, 0, "client")
        /\ mem' = Put(next, [kind |-> "payload", bytes |-> Text, len |-> len],
                      Put(next + 1, [kind |-> "elem", m_index |-> 1, m_pdata |-> next, m_data_len |-> len], mem))
  BY DEF CallDeCreate
<1>2. pelem = NULL /\ pelem' = next + 1 /\ next' = next + 2 /\ UNCHANGED <<pds, file, read>>
  BY DEF CallDeCreate
<1>3. PICK one, two : /\ one = [kind |-> "payload", bytes |-> Text, len |-> len]
                      /\ two = [kind |-> "elem", m_index |-> 1, m_pdata |-> next, m_data_len |-> len]
  OBVIOUS
<1>4. one.kind = "payload" /\ two.kind = "elem" /\ mem' = Put(next, one, Put(next + 1, two, mem))
  BY <1>1, <1>3
<1>5. /\ next \in Nat \ {0} /\ next' \in Nat \ {0} /\ next \notin Live /\ next + 1 \notin Live
      /\ Live' = Live \cup {next, next + 1} /\ Live' \subseteq 1..(next' - 1)
      /\ mem'[next] = one /\ mem'[next + 1] = two /\ \A b \in Live : mem'[b] = mem[b]
  BY <1>2, <1>4, NewBlocks
<1>6. /\ pc = "client" /\ pc' = "client" /\ calls' \in 0..MaxCalls
      /\ loc.ds = NULL /\ loc'.ds = NULL /\ loc'.db = NULL /\ loc'.gen_str = NULL
      /\ loc'.pgnos = NULL /\ loc'.hashes = NULL /\ loc'.info = NULL
  BY <1>1, Began DEF Functions
<1>7. loc' \in LocType
  BY <1>1, Began DEF Functions, LocType
<1>8. KeepsSets(mem, mem') /\ KeepsSets(mem', mem)
  BY <1>4, <1>5 DEF KeepsSets, SetKinds, Live
<1>9. Cur' = Cur
  BY <1>2, <1>6 DEF Cur
<1>10. SetInv' /\ SetsOwned'
  <2>1. Quiet
    BY <1>2, <1>6, <1>8, <1>9, QuietStep DEF SameProgress
  <2> QED  BY <2>1, SetUntouched DEF DsInv
<1>11. Pointers'
  <2>1. PointsTo(pds, "ds")
    BY DEF DsInv, DsTypeOK, Pointers
  <2>2. PointsTo(pds, "ds")' /\ PointsTo(pelem, "elem")'
    BY <1>2, <1>4, <1>5, <2>1 DEF PointsTo
  <2> QED  BY <1>6, <2>2 DEF Pointers, PointsTo
<1>12. DsTypeOK'
  BY <1>5, <1>6, <1>10, <1>11, BlocksAgain DEF DsTypeOK
<1>13. FitsTheCount'
  BY <1>4, <1>5 DEF DsInv, FitsTheCount
<1>14. \A b \in Live' : mem'[b].kind \in SetKinds \cup {"db", "errmsg", "info", "elem", "payload"}
  BY <1>4, <1>5, <1>6, NoTemporaries
<1>15. Types'
  <2>1. \A b \in Live' : mem'[b].kind \in {"ds", "array", "data", "string", "db", "errmsg", "pgnos",
                                       "hashes", "info", "elem", "payload"}
    BY <1>14 DEF SetKinds
  <2>2. pelem' \in Nat
    BY <1>2, <1>5
  <2> QED  BY <1>2, <1>5, <1>6, <1>7, <2>1, <2>2 DEF DsInv, Types, LocType, Functions
<1>16. Control' /\ Carried'
  BY <1>6 DEF Control, Carried
<1>17. LocalsOwned'
  BY <1>14 DEF LocalsOwned, SetKinds
<1> QED  BY <1>10, <1>12, <1>13, <1>15, <1>16, <1>17 DEF DsInv

\* Which elements of the client's set have data while its elements are made.
LEMMA GenProgress ==
  ASSUME DsInv, pc \in {"string", "element"}
  PROVE  /\ pds # NULL /\ Cur = pds /\ loc.ds = NULL /\ Size(pds) = loc.n /\ loc.n \in Int /\ loc.i \in Nat
         /\ Filled = {k \in 1..Size(pds) : k <= loc.i}
         /\ \A k \in Filled : Array(pds)[k].m_data_len = loc.len
         /\ IsDataSet(mem, pds, Filled) /\ ~mem[pds].m_is_hashed
         /\ loc \in LocType /\ loc.info = NULL /\ loc.pgnos = NULL /\ loc.hashes = NULL /\ loc.fn = "gen_ds"
<1>1. /\ pds # NULL /\ ~mem[pds].m_is_hashed /\ loc.ds = NULL /\ Size(pds) = loc.n /\ loc.info = NULL /\ loc.pgnos = NULL /\ loc.hashes = NULL
      /\ \A k \in Filled : Array(pds)[k].m_data_len = loc.len
      /\ loc.fn = "gen_ds"
  BY DEF DsInv, Control
<1>2. loc \in LocType
  BY DEF DsInv, Types, LocType, Functions
<1>3. loc.n \in Int /\ loc.i \in Nat
  BY <1>2 DEF LocType
<1>4. Cur = pds
  BY <1>1 DEF Cur
<1>5. Filled = {k \in 1..Size(pds) : k <= loc.i}
  BY <1>4 DEF Filled
<1> QED  BY <1>1, <1>2, <1>3, <1>4, <1>5 DEF DsInv, SetInv

LEMMA NegativeStringKeepsInv ==
  ASSUME DsInv, NegativeString
  PROVE  DsInv'
<1>1. pc = "string" /\ pc' = "crash" /\ calls' = calls /\ UNCHANGED <<mem, next, pds, pelem, loc, file, read>>
  BY DEF NegativeString, Go
<1>2. /\ pds # NULL /\ Cur = pds /\ Filled = {k \in 1..Size(pds) : k <= loc.i}
      /\ loc.fn = "gen_ds" /\ loc.ds = NULL /\ loc.info = NULL /\ loc.pgnos = NULL /\ loc.hashes = NULL
      /\ loc.gen_str = NULL
  BY <1>1, GenProgress DEF DsInv, Control
<1>3. Cur' = Cur
  BY <1>1 DEF Cur
<1>4. Filled' = Filled
  BY <1>1, <1>2, <1>3 DEF Filled, Size
<1>5. Pointers' /\ calls' \in 0..MaxCalls
  BY <1>1 DEF DsInv, DsTypeOK, Pointers, PointsTo, Live
<1>6. DsTypeOK' /\ FitsTheCount' /\ SetInv' /\ SetsOwned'
  BY <1>1, <1>3, <1>4, <1>5, MemoryUntouched
<1>7. Types'
  BY <1>1 DEF DsInv, Types, Live
<1>8. Control'
  BY <1>1, <1>2 DEF Control
<1>9. Carried' /\ LocalsOwned'
  BY <1>1 DEF DsInv, Carried, LocalsOwned, Live
<1> QED  BY <1>6, <1>7, <1>8, <1>9 DEF DsInv

LEMMA GenStringKeepsInv ==
  ASSUME DsInv, GenString
  PROVE  DsInv'
<1>1. pc = "string" /\ loc.i < loc.n /\ pc' = "element" /\ calls' = calls /\ UNCHANGED <<pds, pelem, file, read>>
  BY DEF GenString, Go
<1>2. /\ pds # NULL /\ Cur = pds /\ loc.ds = NULL /\ Size(pds) = loc.n /\ loc.n \in Int /\ loc.i \in Nat
      /\ \A k \in Filled : Array(pds)[k].m_data_len = loc.len
      /\ loc \in LocType /\ loc.info = NULL /\ loc.pgnos = NULL /\ loc.hashes = NULL /\ pds \in Live
      /\ loc.fn = "gen_ds"
  BY <1>1, GenProgress DEF IsDataSet, Live
<1>3. loc.gen_str = NULL
  BY <1>1 DEF DsInv, Control
<1>4. CASE loc.len = 0
  <2>1. loc' = loc /\ UNCHANGED <<mem, next>>
    BY <1>4 DEF GenString
  <2>2. Cur' = Cur
    BY <1>1, <2>1 DEF Cur
  <2>3. Filled' = Filled
    BY <1>1, <2>1, <2>2 DEF Filled, Size
  <2>4. Pointers' /\ calls' \in 0..MaxCalls
    BY <1>1, <2>1 DEF DsInv, DsTypeOK, Pointers, PointsTo, Live
  <2>5. DsTypeOK' /\ FitsTheCount' /\ SetInv' /\ SetsOwned'
    BY <1>1, <2>1, <2>2, <2>3, <2>4, MemoryUntouched
  <2>6. Types'
    BY <1>1, <2>1 DEF DsInv, Types, Live
  <2>7. Control'
    <3>1. ~mem'[pds'].m_is_hashed
      BY <1>1, <2>1, GenProgress
    <3> QED  BY <1>1, <1>2, <1>3, <1>4, <2>1, <2>3, <3>1 DEF Control, Array, Size
  <2>8. Carried' /\ LocalsOwned'
    BY <1>1, <2>1 DEF DsInv, Carried, LocalsOwned, Live
  <2> QED  BY <2>5, <2>6, <2>7, <2>8 DEF DsInv
<1>5. CASE loc.len # 0
  <2>1. PICK block : block = [kind |-> "string", bytes |-> Text]
    OBVIOUS
  <2>2. block.kind = "string" /\ loc' = [loc EXCEPT !.gen_str = next] /\ mem' = Put(next, block, mem) /\ next' = next + 1
    BY <1>5, <2>1 DEF GenString, Malloc
  <2>3. /\ next \in Nat \ {0} /\ next' \in Nat \ {0} /\ next \notin Live /\ Live' = Live \cup {next}
        /\ Live' \subseteq 1..(next' - 1) /\ mem'[next] = block /\ \A b \in Live : mem'[b] = mem[b]
    BY <2>2, NewBlock
  <2>4. /\ loc' \in LocType /\ loc'.gen_str = next /\ loc'.i = loc.i /\ loc'.n = loc.n /\ loc'.len = loc.len
        /\ loc'.ds = loc.ds /\ loc'.db = loc.db /\ loc'.info = NULL /\ loc'.pgnos = NULL /\ loc'.hashes = NULL
        /\ loc'.fn = loc.fn
    BY <1>2, <2>2, <2>3 DEF LocType
  <2>5. Cur' = Cur
    BY <1>1, <2>4 DEF Cur
  <2>6. Quiet
    BY <1>1, <2>2, <2>4, <2>5, NewBlockQuiet DEF SameProgress, SetKinds
  <2>7. Pointers'
    BY <1>1, <2>2, <2>3, <2>4 DEF DsInv, DsTypeOK, Pointers, PointsTo
  <2>8. DsTypeOK' /\ SetInv' /\ SetsOwned'
    BY <1>1, <2>3, <2>6, <2>7, MemoryChanged
  <2>9. FitsTheCount'
    BY <2>2, <2>3 DEF DsInv, FitsTheCount
  <2>10. Types'
    <3>1. \A b \in Live' : mem'[b].kind \in {"ds", "array", "data", "string", "db", "errmsg", "pgnos",
                                     "hashes", "info", "elem", "payload"}
      BY <2>2, <2>3 DEF DsInv, Types
    <3>2. pc' = "element" /\ pds' = pds /\ pelem' = pelem /\ file' = file /\ read' = read
      BY <1>1
    <3> QED  BY <2>3, <2>4, <3>1, <3>2 DEF DsInv, Types, LocType, Functions
  <2>11. Control'
    <3>1. Filled' = Filled /\ mem'[pds] = mem[pds]
      BY <1>2, <2>3, <2>6 DEF Quiet
    <3>2. \A k \in Filled' : Array(pds)'[k].m_data_len = loc'.len
      <4>1. mem[pds].m_size >= 0 /\ IsDataSet(mem, pds, Filled)
        BY <1>1, <1>2, GenProgress DEF Size
      <4>2. mem[pds].m_pDE \in Live
        BY <4>1 DEF IsDataSet, Live
      <4>3. Array(pds)' = Array(pds)
        BY <1>1, <2>3, <3>1, <4>2 DEF Array
      <4> QED  BY <1>2, <2>4, <3>1, <4>3
    <3>3. Size(pds)' = loc'.n
      BY <1>1, <1>2, <2>4, <3>1 DEF Size
    <3>4. loc'.i = 0 \/ loc'.i <= Size(pds)'
      BY <1>1, <1>2, <2>4, <3>3
    <3>5. ~mem'[pds'].m_is_hashed
      BY <1>1, <3>1, GenProgress
    <3> QED  BY <1>1, <1>2, <2>3, <2>4, <3>2, <3>3, <3>4, <3>5 DEF Control, NULL
  <2>12. Carried'
    BY <1>1 DEF Carried
  <2>13. LocalsOwned'
    BY <1>2, <1>3, <2>2, <2>3, <2>4 DEF DsInv, LocalsOwned, DsTypeOK, NULL
  <2> QED  BY <2>8, <2>9, <2>10, <2>11, <2>12, <2>13 DEF DsInv
<1> QED  BY <1>4, <1>5

LEMMA AllocateTempsKeepsInv ==
  ASSUME DsInv, AllocateTemps
  PROVE  DsInv'
<1>1. /\ pc = "temps" /\ loc.n >= 0 /\ pc' = "read" /\ calls' = calls /\ UNCHANGED <<pds, pelem, file, read>>
      /\ next' = next + 2 /\ loc' = [loc EXCEPT !.pgnos = next, !.hashes = next + 1]
  BY DEF AllocateTemps, Go
<1>2. PICK one, two : one = Temp("pgnos", loc.n, <<>>) /\ two = Temp("hashes", loc.n, <<>>)
  OBVIOUS
<1>3. /\ one.kind = "pgnos" /\ one.room = loc.n /\ one.vals = <<>>
      /\ two.kind = "hashes" /\ two.room = loc.n /\ two.vals = <<>>
  BY <1>2 DEF Temp
<1>4. mem' = Put(next, one, Put(next + 1, two, mem))
  BY <1>2 DEF AllocateTemps
<1>5. /\ next \in Nat \ {0} /\ next' \in Nat \ {0} /\ next \notin Live /\ next + 1 \notin Live
      /\ Live' = Live \cup {next, next + 1} /\ Live' \subseteq 1..(next' - 1)
      /\ mem'[next] = one /\ mem'[next + 1] = two /\ \A b \in Live : mem'[b] = mem[b]
  BY <1>1, <1>4, NewBlocks
<1>6. pds = NULL /\ loc.ds = NULL /\ loc.info = NULL /\ loc.gen_str = NULL /\ loc \in LocType
  BY <1>1 DEF DsInv, Control, Types, LocType, Functions
<1>7. /\ loc' \in LocType /\ loc'.pgnos = next /\ loc'.hashes = next + 1 /\ loc'.n = loc.n
      /\ loc'.ds = NULL /\ loc'.info = NULL /\ loc'.gen_str = NULL /\ loc'.db = loc.db
  <2>1. PICK after \in Nat : after = next + 1
    BY <1>5
  <2>2. loc' = [loc EXCEPT !.pgnos = next, !.hashes = after]
    BY <1>1, <2>1
  <2>3. /\ loc' \in LocType /\ loc'.pgnos = next /\ loc'.hashes = after /\ loc'.n = loc.n
        /\ loc'.ds = loc.ds /\ loc'.info = loc.info /\ loc'.gen_str = loc.gen_str /\ loc'.db = loc.db
    BY <1>5, <1>6, <2>2 DEF LocType
  <2> QED  BY <1>6, <2>1, <2>3
<1>8. Cur = NULL /\ Cur' = NULL
  BY <1>1, <1>6, <1>7 DEF Cur
<1>9. Quiet
  <2>1. KeepsSets(mem, mem') /\ KeepsSets(mem', mem)
    BY <1>3, <1>5 DEF KeepsSets, SetKinds, Live
  <2> QED  BY <1>8, <2>1 DEF Quiet
<1>10. Pointers'
  BY <1>1, <1>3, <1>5, <1>7 DEF DsInv, DsTypeOK, Pointers, PointsTo
<1>11. DsTypeOK' /\ SetInv' /\ SetsOwned'
  BY <1>1, <1>5, <1>9, <1>10, MemoryChanged
<1>12. FitsTheCount'
  <2>1. Len(one.vals) <= one.room /\ Len(two.vals) <= two.room
    BY <1>1, <1>3
  <2> QED  BY <1>5, <2>1 DEF DsInv, FitsTheCount
<1>13. Types'
  BY <1>1, <1>3, <1>5, <1>7 DEF DsInv, Types, LocType, Functions
<1>14. Control'
  BY <1>1, <1>5, <1>6, <1>7 DEF Control, NULL
<1>15. Carried'
  BY <1>1, <1>3, <1>5, <1>7 DEF Carried
<1>16. LocalsOwned'
  <2>1. \A b \in Live : mem[b].kind \in SetKinds \cup {"db", "errmsg", "info", "elem", "payload"}
    BY <1>1, NoTemporaries
  <2> QED  BY <1>3, <1>5, <1>7, <2>1 DEF LocalsOwned, SetKinds
<1> QED  BY <1>11, <1>12, <1>13, <1>14, <1>15, <1>16 DEF DsInv

\* getInfo1 delivers at most what was counted, and both arrays are of the pages delivered.
LEMMA ReadPagesKeepsInv ==
  ASSUME DsInv, ReadPages
  PROVE  DsInv'
<1>1. pc = "read" /\ pc' = "collect" /\ calls' = calls /\ UNCHANGED <<next, pds, pelem, file>>
  BY DEF ReadPages, Go
<1>2. PICK got \in {0, PagesAsked} :
        /\ mem' = Put(loc.pgnos, Temp("pgnos", mem[loc.pgnos].room, [k \in 1..got |-> file[k].pgno]),
                  Put(loc.hashes, Temp("hashes", mem[loc.hashes].room, [k \in 1..got |-> file[k].hash]), mem))
        /\ read' = [k \in 1..got |-> file[k]]
        /\ loc' = [loc EXCEPT !.n = got]
  BY DEF ReadPages
<1>3. PICK p, h : p = loc.pgnos /\ h = loc.hashes
  OBVIOUS
<1>4. /\ p \in Live /\ mem[p].kind = "pgnos" /\ h \in Live /\ mem[h].kind = "hashes" /\ p # h
      /\ p # NULL /\ h # NULL
      /\ pds = NULL /\ loc.ds = NULL /\ loc.info = NULL /\ loc.gen_str = NULL
      /\ loc.n \in Nat /\ mem[p].room = loc.n /\ mem[h].room = loc.n /\ file \in Files /\ loc \in LocType
  <2>1. p # NULL /\ h # NULL /\ pds = NULL /\ loc.ds = NULL /\ loc.info = NULL /\ loc.gen_str = NULL
    BY <1>1, <1>3 DEF DsInv, Control
  <2>2. p \in Live /\ mem[p].kind = "pgnos" /\ h \in Live /\ mem[h].kind = "hashes"
    BY <1>3, <2>1 DEF DsInv, DsTypeOK, Pointers, PointsTo
  <2>3. loc.n \in Nat /\ mem[p].room = loc.n /\ mem[h].room = loc.n
    BY <1>1, <1>3 DEF DsInv, Carried, Types
  <2>4. file \in Files /\ loc \in LocType
    BY DEF DsInv, Types, LocType, Functions
  <2> QED  BY <2>1, <2>2, <2>3, <2>4
<1>5. got \in Nat /\ got <= loc.n /\ got <= Len(file)
  BY <1>2, <1>4, FileLen DEF PagesAsked
<1>6. PICK one, two : /\ one = Temp("pgnos", loc.n, [k \in 1..got |-> file[k].pgno])
                      /\ two = Temp("hashes", loc.n, [k \in 1..got |-> file[k].hash])
  OBVIOUS
<1>7. /\ one.kind = "pgnos" /\ one.room = loc.n /\ two.kind = "hashes" /\ two.room = loc.n
      /\ one.vals = [k \in 1..got |-> file[k].pgno] /\ two.vals = [k \in 1..got |-> file[k].hash]
  BY <1>6 DEF Temp
<1>8. /\ Len(one.vals) = got /\ Len(two.vals) = got /\ Len(read') = got
      /\ \A k \in 1..got : one.vals[k] = read'[k].pgno /\ two.vals[k] = read'[k].hash
  <2>1. Len([k \in 1..got |-> file[k].pgno]) = got
    BY <1>5
  <2>2. Len([k \in 1..got |-> file[k].hash]) = got
    BY <1>5
  <2>3. Len([k \in 1..got |-> file[k]]) = got
    BY <1>5
  <2> QED  BY <1>2, <1>7, <2>1, <2>2, <2>3
<1>9. mem' = Put(p, one, Put(h, two, mem))
  BY <1>2, <1>3, <1>4, <1>6
<1>10. Live' = Live /\ mem'[p] = one /\ mem'[h] = two /\ \A b \in Live : b # p /\ b # h => mem'[b] = mem[b]
  BY <1>4, <1>9 DEF Put, Live
<1>11. /\ loc' \in LocType /\ loc'.n = got /\ loc'.pgnos = p /\ loc'.hashes = h
       /\ loc'.ds = NULL /\ loc'.info = NULL /\ loc'.gen_str = NULL /\ loc'.db = loc.db
  BY <1>2, <1>3, <1>4, <1>5, SMTT(30) DEF LocType
<1>12. Cur = NULL /\ Cur' = NULL
  BY <1>1, <1>4, <1>11 DEF Cur
<1>13. Quiet
  <2>1. KeepsSets(mem, mem') /\ KeepsSets(mem', mem)
    BY <1>4, <1>7, <1>10 DEF KeepsSets, SetKinds, Live
  <2> QED  BY <1>12, <2>1 DEF Quiet
<1>14. Pointers'
  <2>1. PointsTo(pelem, "elem") /\ PointsTo(loc.db, "db")
    BY DEF DsInv, DsTypeOK, Pointers
  <2>2. PointsTo(pelem, "elem")'
    BY <1>1, <1>4, <1>10, <2>1 DEF PointsTo
  <2>3. PointsTo(loc.db, "db")'
    BY <1>4, <1>10, <1>11, <2>1 DEF PointsTo
  <2>4. PointsTo(loc.pgnos, "pgnos")' /\ PointsTo(loc.hashes, "hashes")'
    BY <1>4, <1>7, <1>10, <1>11 DEF PointsTo
  <2> QED  BY <1>1, <1>4, <1>11, <2>2, <2>3, <2>4 DEF Pointers, PointsTo
<1>15. DsTypeOK' /\ SetInv' /\ SetsOwned'
  <2>1. Live' \subseteq 1..(next' - 1)
    BY <1>1, <1>10 DEF DsInv, DsTypeOK
  <2> QED  BY <1>1, <1>13, <1>14, <2>1, MemoryChanged
<1>16. FitsTheCount'
  BY <1>5, <1>7, <1>8, <1>10 DEF DsInv, FitsTheCount
<1>17. Types'
  <2>1. Len(read') \in Nat /\ \A k \in 1..Len(read') : read'[k].pgno \in Nat
    BY <1>2, <1>4, <1>5, <1>8, FileLen
  <2> QED  BY <1>1, <1>7, <1>10, <1>11, <2>1 DEF DsInv, Types, LocType, Functions
<1>18. Control'
  BY <1>1, <1>4, <1>11 DEF Control
<1>19. Carried'
  BY <1>1, <1>8, <1>10, <1>11 DEF Carried
<1>20. LocalsOwned'
  BY <1>3, <1>4, <1>7, <1>10, <1>11 DEF DsInv, LocalsOwned
<1> QED  BY <1>15, <1>16, <1>17, <1>18, <1>19, <1>20 DEF DsInv

\* What was read is copied once more, and the arrays it was read to are freed.
LEMMA CollectKeepsInv ==
  ASSUME DsInv, Collect
  PROVE  DsInv'
<1>1. /\ pc = "collect" /\ pc' = "build" /\ calls' = calls /\ next' = next + 1 /\ UNCHANGED <<pds, pelem, file, read>>
      /\ loc' = [loc EXCEPT !.info = next, !.pgnos = NULL, !.hashes = NULL]
  BY DEF Collect, Go
<1>2. PICK p, h : p = loc.pgnos /\ h = loc.hashes
  OBVIOUS
<1>3. /\ p \in Live /\ mem[p].kind = "pgnos" /\ h \in Live /\ mem[h].kind = "hashes"
      /\ pds = NULL /\ loc.ds = NULL /\ loc.gen_str = NULL /\ loc \in LocType
      /\ loc.n = Len(read) /\ \A k \in 1..loc.n : mem[p].vals[k] = read[k].pgno /\ mem[h].vals[k] = read[k].hash
  <2>1. p # NULL /\ h # NULL /\ pds = NULL /\ loc.ds = NULL /\ loc.info = NULL /\ loc.gen_str = NULL
    BY <1>1, <1>2 DEF DsInv, Control
  <2>2. p \in Live /\ mem[p].kind = "pgnos" /\ h \in Live /\ mem[h].kind = "hashes"
    BY <1>2, <2>1 DEF DsInv, DsTypeOK, Pointers, PointsTo
  <2>3. loc.n = Len(read) /\ \A k \in 1..loc.n : mem[p].vals[k] = read[k].pgno /\ mem[h].vals[k] = read[k].hash
    BY <1>1, <1>2 DEF DsInv, Carried
  <2>4. loc \in LocType
    BY DEF DsInv, Types, LocType, Functions
  <2> QED  BY <2>1, <2>2, <2>3, <2>4
<1>4. PICK vals : vals = [k \in 1..loc.n |-> [pgno |-> mem[p].vals[k], hash |-> mem[h].vals[k]]]
  OBVIOUS
<1>5. \A k \in 1..loc.n : vals[k].pgno = read[k].pgno /\ vals[k].hash = read[k].hash
  BY <1>3, <1>4
<1>6. PICK block : block = [kind |-> "info", vals |-> vals]
  OBVIOUS
<1>7. block.kind = "info" /\ block.vals = vals
  BY <1>6
<1>8. mem' = Put(next, block, Without({p, h}, mem))
  BY <1>2, <1>4, <1>6 DEF Collect, HashOf
<1>9. next \in Nat \ {0} /\ Live \subseteq 1..(next - 1) /\ next \notin Live
  BY DEF DsInv, Types, DsTypeOK
<1>10. /\ Live' = (Live \ {p, h}) \cup {next} /\ mem'[next] = block
       /\ \A b \in Live \ {p, h} : mem'[b] = mem[b]
  BY <1>8, <1>9 DEF Put, Without, Live
<1>11. /\ loc' \in LocType /\ loc'.n = loc.n /\ loc'.info = next /\ loc'.pgnos = NULL /\ loc'.hashes = NULL
       /\ loc'.ds = NULL /\ loc'.gen_str = NULL /\ loc'.db = loc.db
  BY <1>1, <1>3, <1>9 DEF LocType, NULL
<1>12. Cur = NULL /\ Cur' = NULL
  BY <1>1, <1>3, <1>11 DEF Cur
<1>13. Quiet
  <2>1. KeepsSets(mem, mem')
    BY <1>3, <1>9, <1>10 DEF KeepsSets, SetKinds, Live
  <2>2. KeepsSets(mem', mem)
    BY <1>7, <1>10 DEF KeepsSets, SetKinds, Live
  <2> QED  BY <1>12, <2>1, <2>2 DEF Quiet
<1>14. Pointers'
  <2>1. PointsTo(pelem, "elem") /\ PointsTo(loc.db, "db")
    BY DEF DsInv, DsTypeOK, Pointers
  <2>2. PointsTo(pelem, "elem")'
    BY <1>1, <1>3, <1>10, <2>1 DEF PointsTo
  <2>3. PointsTo(loc.db, "db")'
    BY <1>3, <1>10, <1>11, <2>1 DEF PointsTo
  <2>4. PointsTo(loc.info, "info")'
    BY <1>7, <1>10, <1>11 DEF PointsTo
  <2> QED  BY <1>1, <1>3, <1>11, <2>2, <2>3, <2>4 DEF Pointers, PointsTo
<1>15. DsTypeOK' /\ SetInv' /\ SetsOwned'
  <2>1. Live' \subseteq 1..(next' - 1)
    BY <1>1, <1>9, <1>10
  <2> QED  BY <1>1, <1>13, <1>14, <2>1, MemoryChanged
<1>16. FitsTheCount'
  BY <1>7, <1>10 DEF DsInv, FitsTheCount
<1>17. Types'
  <2>1. \A b \in Live' : mem'[b].kind \in {"ds", "array", "data", "string", "db", "errmsg", "pgnos",
                                       "hashes", "info", "elem", "payload"}
    BY <1>7, <1>10 DEF DsInv, Types
  <2>2. next' \in Nat \ {0}
    BY <1>1, <1>9
  <2> QED  BY <1>1, <1>11, <2>1, <2>2 DEF DsInv, Types, LocType, Functions
<1>18. Control'
  BY <1>1, <1>3, <1>9, <1>11 DEF Control, NULL
<1>19. Carried'
  BY <1>1, <1>3, <1>5, <1>7, <1>10, <1>11 DEF Carried
<1>20. LocalsOwned'
  <2>1. \A b \in Live \ {p, h} : mem[b].kind \notin {"string", "pgnos", "hashes"}
    BY <1>2, <1>3, <1>9 DEF DsInv, LocalsOwned, NULL
  <2> QED  BY <1>7, <1>10, <2>1 DEF LocalsOwned
<1> QED  BY <1>15, <1>16, <1>17, <1>18, <1>19, <1>20 DEF DsInv

-----------------------------------------------------------------------------
(* A data set comes to be *)

\* A new data set has no element with data, and without memory none at all.
LEMMA NewSet ==
  ASSUME NEW m, NEW ds \in DOMAIN m, NEW n \in Nat, NEW array \in DOMAIN m, NEW one, NEW two,
         m[ds] = one, m[array] = two, one.kind = "ds", one.m_size = n, one.m_pDE = array, two = ArrayBlock(n)
  PROVE  IsDataSet(m, ds, {}) /\ Owns(m, ds, {}, array)
<1>1. PICK elems : elems = [k \in 1..n |-> Unset]
  OBVIOUS
<1>2. m[array].kind = "array" /\ m[array].elems = elems
  BY <1>1 DEF ArrayBlock, ArrayOf
<1>3. Unset \in DEs /\ Unset.m_pdata = NULL
  BY DEF Unset, DE, DEs, NULL
<1>4. elems \in [1..n -> DEs] /\ \A k \in 1..n : elems[k].m_pdata = NULL
  BY <1>1, <1>3
<1>5. IsArray(m, ds, {}, n, array, elems)
  BY <1>2, <1>4 DEF IsArray
<1>6. IsDataSet(m, ds, {})
  BY <1>5, ArrayMakesSet
<1> QED  BY <1>6 DEF Owns

LEMMA NewEmptySet ==
  ASSUME NEW m, NEW ds \in DOMAIN m, NEW n \in Int, n < 0, NEW one,
         m[ds] = one, one.kind = "ds", one.m_size = n, one.m_pDE = NULL
  PROVE  IsDataSet(m, ds, {})
  BY DEF IsDataSet

\* Without a data set there is none of its blocks.
LEMMA NoSetNoBlocks ==
  ASSUME DsInv, Cur = NULL
  PROVE  \A b \in Live : mem[b].kind \notin SetKinds
  BY DEF DsInv, SetsOwned

LEMMA BuildSetKeepsInv ==
  ASSUME DsInv, BuildSet
  PROVE  DsInv'
<1>1. /\ pc = "build" /\ pc' = "copy" /\ calls' = calls /\ next' = next + 2 /\ UNCHANGED <<pds, pelem, file, read>>
      /\ loc' = [loc EXCEPT !.ds = next, !.i = 0]
  BY DEF BuildSet, Go
<1>2. /\ pds = NULL /\ loc.ds = NULL /\ loc.gen_str = NULL /\ loc.pgnos = NULL /\ loc.hashes = NULL /\ loc.info # NULL
      /\ loc \in LocType /\ loc.n = Len(read) /\ loc.n \in Nat
      /\ \A k \in 1..loc.n : mem[loc.info].vals[k].pgno = read[k].pgno /\ mem[loc.info].vals[k].hash = read[k].hash
  BY <1>1 DEF DsInv, Control, Carried, Types, LocType, Functions
<1>3. PICK one, two : one = DataSet(loc.n, next + 1, TRUE) /\ two = ArrayBlock(loc.n)
  OBVIOUS
<1>4. one.kind = "ds" /\ two.kind = "array" /\ mem' = Put(next, one, Put(next + 1, two, mem))
  BY <1>3 DEF BuildSet, DataSet, ArrayBlock, ArrayOf
<1>5. /\ next \in Nat \ {0} /\ next' \in Nat \ {0} /\ next \notin Live /\ next + 1 \notin Live
      /\ Live' = Live \cup {next, next + 1} /\ Live' \subseteq 1..(next' - 1)
      /\ mem'[next] = one /\ mem'[next + 1] = two /\ \A b \in Live : mem'[b] = mem[b]
  BY <1>1, <1>4, NewBlocks
<1>6. /\ loc' \in LocType /\ loc'.ds = next /\ loc'.i = 0 /\ loc'.n = loc.n /\ loc'.info = loc.info
      /\ loc'.pgnos = NULL /\ loc'.hashes = NULL /\ loc'.gen_str = NULL /\ loc'.db = loc.db
  BY <1>1, <1>2, <1>5 DEF LocType
<1>7. Cur = NULL /\ Cur' = next /\ next # NULL
  BY <1>1, <1>2, <1>5, <1>6 DEF Cur, NULL
<1>8. /\ IsDataSet(mem', next, {}) /\ mem'[next].m_size = loc.n /\ mem'[next].m_is_hashed
      /\ Owns(mem', next, {}, next + 1)
  <2>1. PICK after : after = next + 1
    OBVIOUS
  <2>2. next \in DOMAIN mem' /\ after \in DOMAIN mem' /\ mem'[next] = one /\ mem'[after] = two
    BY <1>5, <2>1 DEF Live
  <2>3. one.kind = "ds" /\ one.m_size = loc.n /\ one.m_pDE = after /\ one.m_is_hashed /\ two = ArrayBlock(loc.n)
    BY <1>3, <2>1 DEF DataSet
  <2>4. IsDataSet(mem', next, {}) /\ Owns(mem', next, {}, after)
    BY <1>2, <2>2, <2>3, NewSet
  <2> QED  BY <2>1, <2>2, <2>3, <2>4
<1>9. Filled' = {}
  BY <1>1, <1>6 DEF Filled
<1>10. SetInv'
  <2>1. HoldsPages(mem', next, {}, read)
    BY <1>2, <1>8 DEF HoldsPages
  <2> QED  BY <1>1, <1>7, <1>8, <1>9, <2>1 DEF SetInv
<1>11. SetsOwned'
  <2>1. Owns(mem', next, {}, next) /\ Owns(mem', next, {}, next + 1)
    BY <1>8 DEF Owns
  <2>2. \A b \in Live : mem'[b].kind \notin SetKinds
    BY <1>5, <1>7, NoSetNoBlocks
  <2> QED  BY <1>5, <1>7, <1>9, <2>1, <2>2 DEF SetsOwned
<1>12. Pointers'
  BY <1>1, <1>2, <1>4, <1>5, <1>6 DEF DsInv, DsTypeOK, Pointers, PointsTo
<1>13. DsTypeOK'
  BY <1>1, <1>5, <1>10, <1>11, <1>12, BlocksAgain DEF DsInv, DsTypeOK
<1>14. FitsTheCount'
  BY <1>4, <1>5 DEF DsInv, FitsTheCount
<1>15. Types'
  <2>1. \A b \in Live' : mem'[b].kind \in {"ds", "array", "data", "string", "db", "errmsg", "pgnos",
                                   "hashes", "info", "elem", "payload"}
    BY <1>4, <1>5 DEF DsInv, Types
  <2> QED  BY <1>1, <1>5, <1>6, <2>1 DEF DsInv, Types, LocType, Functions
<1>16. Control'
  BY <1>1, <1>2, <1>6, <1>7 DEF Control
<1>17. Carried'
  <2>1. loc.info \in Live
    BY <1>2 DEF DsInv, DsTypeOK, Pointers, PointsTo
  <2>2. \A b \in Live : mem'[b] = mem[b]
    BY <1>5
  <2>3. mem'[loc'.info] = mem[loc.info]
    BY <1>6, <2>1, <2>2
  <2>4. pc' = "copy" /\ loc'.n = Len(read') /\ loc'.ds = next /\ loc'.i = 0 /\ loc'.n \in Nat
    BY <1>1, <1>2, <1>6
  <2>5. \A k \in 1..loc'.n : mem'[loc'.info].vals[k].pgno = read'[k].pgno /\ mem'[loc'.info].vals[k].hash = read'[k].hash
    BY <1>1, <1>2, <1>6, <2>3
  <2>6. mem'[loc'.ds].m_size = loc'.n /\ mem'[loc'.ds].m_is_hashed
    BY <1>6, <1>8
  <2> QED  BY <1>9, <2>4, <2>5, <2>6 DEF Carried, Size
<1>18. LocalsOwned'
  <2>1. \A b \in Live : mem[b].kind \in SetKinds \cup {"db", "errmsg", "info", "elem", "payload"}
    BY <1>1, NoTemporaries
  <2> QED  BY <1>4, <1>5, <2>1 DEF LocalsOwned, SetKinds
<1> QED  BY <1>10, <1>11, <1>13, <1>14, <1>15, <1>16, <1>17, <1>18 DEF DsInv

\* For a negative number of elements there is a set without an array.
LEMMA GenSetKeepsInv ==
  ASSUME DsInv, GenSet
  PROVE  DsInv'
<1>1. /\ pc = "gen" /\ pc' = "string" /\ calls' = calls /\ pds' = next /\ next' = next + 2
      /\ UNCHANGED <<pelem, loc, file, read>>
  BY DEF GenSet, Go
<1>2. /\ pds = NULL /\ loc.ds = NULL /\ loc.gen_str = NULL /\ loc.pgnos = NULL /\ loc.hashes = NULL /\ loc.info = NULL
      /\ loc \in LocType /\ loc.i = 0 /\ loc.fn = "gen_ds"
  BY <1>1 DEF DsInv, Control, Types, LocType, Functions
<1>3. PICK array, one, two : /\ array = (IF loc.n < 0 THEN NULL ELSE next + 1)
                             /\ one = DataSet(loc.n, array, FALSE) /\ two = ArrayBlock(loc.n)
  OBVIOUS
<1>4. one.kind = "ds" /\ two.kind = "array"
  BY <1>3 DEF DataSet, ArrayBlock, ArrayOf
<1>5. next \in Nat \ {0} /\ Live \subseteq 1..(next - 1) /\ next \notin Live /\ next + 1 \notin Live /\ next + 1 # next
      /\ loc.n \in Int /\ next + 1 # NULL /\ next # NULL
  BY <1>2 DEF DsInv, Types, DsTypeOK, LocType, NULL
<1>6. /\ Live \subseteq Live' /\ next \in Live' /\ Live' \subseteq Live \cup {next, next + 1}
      /\ mem'[next] = one /\ \A b \in Live : mem'[b] = mem[b]
      /\ \A b \in Live' : b = next + 1 => loc.n >= 0 /\ mem'[b] = two
      /\ loc.n >= 0 => array = next + 1 /\ array \in Live' /\ mem'[array] = two
      /\ loc.n < 0 => array = NULL
  <2>1. CASE loc.n < 0
    <3>1. mem' = Put(next, one, mem) /\ array = NULL
      BY <1>3, <2>1 DEF GenSet
    <3>2. Live' = Live \cup {next} /\ mem'[next] = one /\ \A b \in Live : mem'[b] = mem[b]
      BY <1>5, <3>1 DEF Put, Live
    <3> QED  BY <1>5, <2>1, <3>1, <3>2
  <2>2. CASE ~(loc.n < 0)
    <3>1. PICK after : after = next + 1
      OBVIOUS
    <3>2. array = after /\ after # NULL /\ after # next /\ after \notin Live /\ loc.n >= 0
      BY <1>3, <1>5, <2>2, <3>1
    <3>3. mem' = Put(after, two, Put(next, one, mem))
      BY <1>3, <2>2, <3>1, <3>2 DEF GenSet
    <3>4. Live' = Live \cup {next, after} /\ mem'[next] = one /\ mem'[after] = two
          /\ \A b \in Live : mem'[b] = mem[b]
      BY <1>5, <3>2, <3>3 DEF Put, Live
    <3> QED  BY <2>2, <3>1, <3>2, <3>4
  <2> QED  BY <2>1, <2>2
<1>7. Cur = NULL /\ Cur' = next
  BY <1>1, <1>2, <1>5 DEF Cur
<1>8. /\ IsDataSet(mem', next, {}) /\ mem'[next].m_size = loc.n /\ mem'[next].m_is_hashed = FALSE
      /\ loc.n >= 0 => Owns(mem', next, {}, array)
  <2>1. one.kind = "ds" /\ one.m_size = loc.n /\ one.m_pDE = array /\ one.m_is_hashed = FALSE /\ two = ArrayBlock(loc.n)
    BY <1>3 DEF DataSet
  <2>2. next \in DOMAIN mem' /\ mem'[next] = one
    BY <1>6 DEF Live
  <2>3. CASE loc.n < 0
    <3>1. IsDataSet(mem', next, {})
      BY <1>5, <1>6, <2>1, <2>2, <2>3, NewEmptySet
    <3> QED  BY <1>5, <2>1, <2>2, <2>3, <3>1
  <2>4. CASE ~(loc.n < 0)
    <3>1. loc.n \in Nat /\ array \in DOMAIN mem' /\ mem'[array] = two
      BY <1>5, <1>6, <2>4 DEF Live
    <3>2. IsDataSet(mem', next, {}) /\ Owns(mem', next, {}, array)
      BY <2>1, <2>2, <3>1, NewSet
    <3> QED  BY <2>1, <2>2, <3>2
  <2> QED  BY <2>3, <2>4
<1>9. Filled' = {}
  BY <1>1, <1>2 DEF Filled
<1>10. SetInv'
  BY <1>5, <1>7, <1>8, <1>9 DEF SetInv
<1>11. SetsOwned'
  <2>1. Owns(mem', next, {}, next) /\ (loc.n >= 0 => Owns(mem', next, {}, next + 1))
    BY <1>6, <1>8 DEF Owns
  <2>2. \A b \in Live : mem'[b].kind \notin SetKinds
    BY <1>6, <1>7, NoSetNoBlocks
  <2> QED  BY <1>5, <1>6, <1>7, <1>9, <2>1, <2>2 DEF SetsOwned
<1>12. Pointers'
  <2>1. PointsTo(pelem, "elem") /\ PointsTo(loc.db, "db")
    BY DEF DsInv, DsTypeOK, Pointers
  <2>2. PointsTo(pelem, "elem")' /\ PointsTo(loc.db, "db")' /\ PointsTo(pds, "ds")'
    BY <1>1, <1>4, <1>6, <2>1 DEF PointsTo
  <2> QED  BY <1>1, <1>2, <2>2 DEF Pointers, PointsTo
<1>13. DsTypeOK'
  <2>1. Live' \subseteq 1..(next' - 1)
    BY <1>1, <1>5, <1>6
  <2> QED  BY <1>1, <1>10, <1>11, <1>12, <2>1, BlocksAgain DEF DsInv, DsTypeOK
<1>14. FitsTheCount'
  BY <1>4, <1>6 DEF DsInv, FitsTheCount
<1>15. Types'
  <2>1. \A b \in Live' : mem'[b].kind \in {"ds", "array", "data", "string", "db", "errmsg", "pgnos",
                                       "hashes", "info", "elem", "payload"}
    BY <1>4, <1>6 DEF DsInv, Types
  <2>2. next' \in Nat \ {0}
    BY <1>1, <1>5
  <2> QED  BY <1>1, <1>5, <2>1, <2>2 DEF DsInv, Types
<1>16. Control'
  <2>1. Size(pds)' = loc.n
    BY <1>1, <1>8 DEF Size
  <2>2. ~mem'[pds'].m_is_hashed
    BY <1>1, <1>8
  <2> QED  BY <1>1, <1>2, <1>5, <1>9, <2>1, <2>2 DEF Control
<1>17. Carried'
  BY <1>1 DEF Carried
<1>18. LocalsOwned'
  <2>1. \A b \in Live : mem[b].kind \in SetKinds \cup {"db", "errmsg", "info", "elem", "payload"}
    BY <1>1, NoTemporaries
  <2> QED  BY <1>4, <1>6, <2>1 DEF LocalsOwned, SetKinds
<1> QED  BY <1>10, <1>11, <1>13, <1>14, <1>15, <1>16, <1>17, <1>18 DEF DsInv

-----------------------------------------------------------------------------
(* A data set is filled *)

\* The block of an element's data and the array with the element set, in the memory.
LEMMA ElementSet ==
  ASSUME NEW m, NEW ds, NEW filled, NEW n, NEW array, NEW elems, NEW k, NEW a, NEW index, NEW len, NEW m2, NEW new,
         Setting(m, ds, filled, n, array, elems, k, a, index, len, m2, new)
  PROVE  /\ IsArray(m2, ds, filled \cup {k}, n, array, new) /\ OfLength(new, filled \cup {k}, len)
         /\ \A pages : HoldsPages(m, ds, filled, pages) /\ index = pages[k].pgno /\ m2[a].bytes = pages[k].hash
                         => HoldsPages(m2, ds, filled \cup {k}, pages)
         /\ Owns(m2, ds, filled \cup {k}, a)
         /\ \A b : Owns(m, ds, filled, b) => Owns(m2, ds, filled \cup {k}, b)
<1>1. /\ IsArray(m2, ds, filled \cup {k}, n, array, new) /\ OfLength(new, filled \cup {k}, len)
      /\ new[k] = DE(index, a, len) /\ \A j \in filled : new[j] = elems[j]
  <2>1. IsArray(m2, ds, filled \cup {k}, n, array, new)
    BY ArrayElementSet
  <2>2. OfLength(new, filled \cup {k}, len)
    BY ArrayElementSet
  <2>3. new[k] = DE(index, a, len) /\ \A j \in filled : new[j] = elems[j]
    <3>1. elems \in [1..n -> DEs] /\ filled \subseteq 1..n /\ k \in 1..n /\ k \notin filled
      BY DEF Setting, IsArray
    <3>2. PICK de : de = DE(index, a, len)
      OBVIOUS
    <3>3. new = [elems EXCEPT ![k] = de]
      BY <3>2 DEF Setting, SetAt
    <3> QED  BY <3>1, <3>2, <3>3
  <2> QED  BY <2>1, <2>2, <2>3
<1>2. new[k].m_pdata = a /\ new[k].m_index = index
  BY <1>1 DEF DE
<1>3. ASSUME NEW pages, HoldsPages(m, ds, filled, pages), index = pages[k].pgno, m2[a].bytes = pages[k].hash
      PROVE  HoldsPages(m2, ds, filled \cup {k}, pages)
  <2>1. /\ n = Len(pages)
        /\ \A j \in filled : elems[j].m_index = pages[j].pgno /\ m[elems[j].m_pdata].bytes = pages[j].hash
    BY <1>3, ArrayPages DEF Setting
  <2>2. ASSUME NEW j \in filled
        PROVE  new[j].m_index = pages[j].pgno /\ m2[new[j].m_pdata].bytes = pages[j].hash
    <3>1. PICK p : p = elems[j].m_pdata
      OBVIOUS
    <3>2. p \in DOMAIN m /\ p # array
      BY <3>1 DEF Setting, IsArray
    <3>3. m2[p] = m[p]
      BY <3>2 DEF Setting, Gains
    <3> QED  BY <1>1, <2>1, <3>1, <3>3
  <2>3. new[k].m_index = pages[k].pgno /\ m2[new[k].m_pdata].bytes = pages[k].hash
    BY <1>2, <1>3
  <2>4. \A j \in filled \cup {k} : new[j].m_index = pages[j].pgno /\ m2[new[j].m_pdata].bytes = pages[j].hash
    BY <2>2, <2>3
  <2> QED  BY <1>1, <2>1, <2>4, ArrayPages
<1>4. Owns(m2, ds, filled \cup {k}, a)
  <2>1. \E j \in filled \cup {k} : a = new[j].m_pdata
    BY <1>2
  <2> QED  BY <1>1, <2>1, ArrayOwns
<1>5. ASSUME NEW b, Owns(m, ds, filled, b)
      PROVE  Owns(m2, ds, filled \cup {k}, b)
  <2>1. b = ds \/ b = array \/ \E j \in filled : b = elems[j].m_pdata
    BY <1>5, ArrayOwns DEF Setting
  <2>2. b = ds \/ b = array \/ \E j \in filled \cup {k} : b = new[j].m_pdata
    BY <1>1, <2>1
  <2> QED  BY <1>1, <2>2, ArrayOwns
<1> QED  BY <1>1, <1>3, <1>4, <1>5

\* A step after which there is this data set, but for blocks of other kinds.
LEMMA SetChanged ==
  ASSUME NEW m2, Cur' # NULL, IsDataSet(m2, Cur', Filled'),
         m2[Cur'].m_is_hashed => HoldsPages(m2, Cur', Filled', read'),
         \A b \in DOMAIN m2 : m2[b].kind \in SetKinds => Owns(m2, Cur', Filled', b),
         KeepsSets(m2, mem'), KeepsSets(mem', m2)
  PROVE  SetInv' /\ SetsOwned' /\ Blocks' /\ mem'[Cur'] = m2[Cur']
<1>1. mem'[Cur'] = m2[Cur'] /\ IsDataSet(mem', Cur', Filled')
  BY SetKept
<1>2. ASSUME m2[Cur'].m_is_hashed
      PROVE  HoldsPages(mem', Cur', Filled', read')
  <2>1. HoldsPages(m2, Cur', Filled', read')
    BY <1>2
  <2>2. \A pages : m2[Cur'].m_is_hashed /\ HoldsPages(m2, Cur', Filled', pages) => HoldsPages(mem', Cur', Filled', pages)
    BY SetKept
  <2> QED  BY <1>2, <2>1, <2>2
<1>3. SetInv'
  BY <1>1, <1>2 DEF SetInv
<1>4. SetsOwned'
  <2> SUFFICES ASSUME NEW b \in Live', mem'[b].kind \in SetKinds
               PROVE  Owns(mem', Cur', Filled', b)
    BY DEF SetsOwned
  <2>1. b \in DOMAIN m2 /\ m2[b].kind \in SetKinds
    BY DEF KeepsSets, Live
  <2>2. Owns(m2, Cur', Filled', b)
    BY <2>1
  <2> QED  BY <2>2, SetKept
<1> QED  BY <1>1, <1>3, <1>4, BlocksAgain

\* Element k of the present data set is set; what this leaves of the memory, and makes of it.
Sets(m2, k, index, len, bytes) ==
  /\ Cur # NULL /\ k \in 1..Size(Cur) /\ k \notin Filled /\ index \in Int /\ len \in Int
  /\ OfLength(Array(Cur), Filled, len) /\ m2 = SetElement(Cur, k, index, len, bytes)

HasSet(m2, ds, array, filled, len) ==
  /\ DOMAIN m2 = Live \cup {next} /\ m2[next].kind = "data"
  /\ array \in Live /\ mem[array].kind = "array" /\ m2[array].kind = "array"
  /\ \A b \in Live : b # array => m2[b] = mem[b]
  /\ m2[ds] = mem[ds] /\ IsDataSet(m2, ds, filled) /\ OfLength(m2[array].elems, filled, len)
  /\ \A b \in DOMAIN m2 : m2[b].kind \in SetKinds => Owns(m2, ds, filled, b)

LEMMA ElementIsSet ==
  ASSUME DsInv, NEW m2, NEW k, NEW index, NEW len, NEW bytes, Sets(m2, k, index, len, bytes)
  PROVE  /\ HasSet(m2, Cur, mem[Cur].m_pDE, Filled \cup {k}, len)
         /\ mem[Cur].m_is_hashed /\ index = read[k].pgno /\ bytes = read[k].hash
              => HoldsPages(m2, Cur, Filled \cup {k}, read)
<1>1. PICK ds, filled, n, array, elems, new, a, block :
        /\ ds = Cur /\ filled = Filled /\ n = mem[ds].m_size /\ array = mem[ds].m_pDE /\ elems = mem[array].elems
        /\ a = next /\ new = [elems EXCEPT ![k] = DE(index, a, len)]
        /\ block = [kind |-> "data", bytes |-> bytes, len |-> len]
  OBVIOUS
<1>2. IsDataSet(mem, ds, filled) /\ n = Size(Cur) /\ n >= 0 /\ n \in Int /\ k \in 1..n
  <2>1. IsDataSet(mem, ds, filled)
    BY <1>1 DEF DsInv, SetInv, Sets
  <2>2. n = Size(Cur) /\ k \in 1..n
    BY <1>1 DEF Size, Sets
  <2>3. n \in Int
    BY <1>1, <2>1 DEF IsDataSet
  <2> QED  BY <2>1, <2>2, <2>3
<1>3. IsArray(mem, ds, filled, n, array, elems)
  BY <1>1, <1>2, SetHasArray
<1>4. a \in Nat /\ a \notin Live /\ array \in Live /\ array # a /\ ds \in Live /\ ds # array /\ mem[array].kind = "array"
  <2>1. a \in Nat /\ a \notin Live
    BY <1>1 DEF DsInv, Types, DsTypeOK
  <2>2. array \in Live /\ ds \in Live /\ ds # array /\ mem[array].kind = "array"
    BY <1>3 DEF IsArray, Live
  <2> QED  BY <2>1, <2>2
<1>5. PICK full : full = ArrayOf(new)
  OBVIOUS
<1>6. m2 = Put(a, block, Put(array, full, mem))
  BY <1>1, <1>5 DEF Sets, SetElement, OwnBlock, Array
<1>7. Gains(mem, m2, array, a) /\ m2[a] = block /\ m2[array] = full
  BY <1>4, <1>6, PutBoth DEF Live
<1>8. m2[a].kind = "data" /\ m2[a].len = len /\ m2[a].bytes = bytes /\ m2[array].kind = "array" /\ m2[array].elems = new
  BY <1>1, <1>5, <1>7 DEF ArrayOf
<1>9. OfLength(elems, filled, len) /\ SetAt(elems, new, k, DE(index, a, len))
  BY <1>1 DEF Sets, Array, SetAt
<1>10. Setting(mem, ds, filled, n, array, elems, k, a, index, len, m2, new)
  BY <1>1, <1>2, <1>3, <1>4, <1>7, <1>8, <1>9 DEF Setting, Sets, Live
<1>11. /\ IsArray(m2, ds, filled \cup {k}, n, array, new) /\ OfLength(new, filled \cup {k}, len)
       /\ Owns(m2, ds, filled \cup {k}, a)
  BY <1>10, ElementSet
<1>12. \A pages : HoldsPages(mem, ds, filled, pages) /\ index = pages[k].pgno /\ m2[a].bytes = pages[k].hash
                    => HoldsPages(m2, ds, filled \cup {k}, pages)
  BY <1>10, ElementSet
<1>13. \A b : Owns(mem, ds, filled, b) => Owns(m2, ds, filled \cup {k}, b)
  BY <1>10, ElementSet
<1>14. IsDataSet(m2, ds, filled \cup {k})
  BY <1>11, ArrayMakesSet
<1>15. DOMAIN m2 = Live \cup {a} /\ (\A b \in Live : b # array => m2[b] = mem[b]) /\ m2[ds] = mem[ds]
  BY <1>4, <1>7 DEF Gains, Live
<1>16. ASSUME mem[Cur].m_is_hashed, index = read[k].pgno, bytes = read[k].hash
       PROVE  HoldsPages(m2, ds, filled \cup {k}, read)
  <2>1. HoldsPages(mem, ds, filled, read)
    BY <1>1, <1>16 DEF DsInv, SetInv, Sets
  <2> QED  BY <1>8, <1>12, <1>16, <2>1
<1>17. ASSUME NEW b \in DOMAIN m2, m2[b].kind \in SetKinds
       PROVE  Owns(m2, ds, filled \cup {k}, b)
  <2>1. CASE b = a
    BY <1>11, <2>1
  <2>2. CASE b # a
    <3>1. b \in Live /\ mem[b].kind \in SetKinds
      BY <1>4, <1>15, <1>17, <2>2 DEF SetKinds
    <3>2. Owns(mem, ds, filled, b)
      BY <1>1, <3>1 DEF DsInv, SetsOwned
    <3> QED  BY <1>13, <3>2
  <2> QED  BY <2>1, <2>2
<1>18. HasSet(m2, ds, array, filled \cup {k}, len)
  BY <1>1, <1>4, <1>8, <1>11, <1>14, <1>15, <1>17 DEF HasSet
<1> QED  BY <1>1, <1>16, <1>18

\* The string an element is made of is no part of a data set.
LEMMA GenElementKeepsInv ==
  ASSUME DsInv, GenElement
  PROVE  DsInv'
<1>1. /\ pc = "element" /\ pc' = "string" /\ calls' = calls /\ next' = next + 1 /\ UNCHANGED <<pds, pelem, file, read>>
      /\ loc' = [loc EXCEPT !.i = @ + 1, !.gen_str = NULL]
  BY DEF GenElement, Go
<1>2. /\ pds # NULL /\ Cur = pds /\ loc.ds = NULL /\ Size(pds) = loc.n /\ loc.n \in Int /\ loc.i \in Nat
      /\ Filled = {j \in 1..Size(pds) : j <= loc.i} /\ IsDataSet(mem, pds, Filled) /\ ~mem[pds].m_is_hashed
      /\ loc \in LocType /\ loc.info = NULL /\ loc.pgnos = NULL /\ loc.hashes = NULL /\ loc.fn = "gen_ds"
  BY <1>1, GenProgress
<1>3. OfLength(Array(pds), Filled, loc.len)
  BY <1>1, GenProgress DEF OfLength
<1>4. loc.i < loc.n
  BY <1>1 DEF DsInv, Control
<1>5. PICK k, len, str, bytes, array :
        /\ k = loc.i + 1 /\ len = loc.len /\ str = loc.gen_str /\ array = mem[pds].m_pDE
        /\ bytes = (IF loc.len = 0 THEN <<>> ELSE mem[loc.gen_str].bytes)
  OBVIOUS
<1>6. k \in Int /\ k \in 1..Size(pds) /\ k \notin Filled /\ len \in Int
  BY <1>2, <1>4, <1>5 DEF LocType
<1>7. PICK m2 : m2 = SetElement(pds, k, k, len, bytes)
  OBVIOUS
<1>8. mem' = Without({str}, m2)
  BY <1>5, <1>7 DEF GenElement
<1>9. /\ DOMAIN m2 = Live \cup {next} /\ m2[next].kind = "data"
      /\ array \in Live /\ mem[array].kind = "array" /\ m2[array].kind = "array"
      /\ \A b \in Live : b # array => m2[b] = mem[b]
      /\ m2[pds] = mem[pds] /\ IsDataSet(m2, pds, Filled \cup {k})
      /\ OfLength(m2[array].elems, Filled \cup {k}, len)
      /\ \A b \in DOMAIN m2 : m2[b].kind \in SetKinds => Owns(m2, pds, Filled \cup {k}, b)
  <2>1. Sets(m2, k, k, len, bytes)
    BY <1>2, <1>3, <1>5, <1>6, <1>7 DEF Sets
  <2>2. HasSet(m2, Cur, mem[Cur].m_pDE, Filled \cup {k}, len)
    BY <2>1, ElementIsSet
  <2> QED  BY <1>2, <1>5, <2>2 DEF HasSet
<1>10. next \in Nat \ {0} /\ Live \subseteq 1..(next - 1) /\ next \notin Live
  BY DEF DsInv, Types, DsTypeOK
<1>11. str # next /\ (str \in Live => mem[str].kind = "string" /\ str # array)
  <2>1. str # NULL => str \in Live /\ mem[str].kind = "string"
    BY <1>5 DEF DsInv, DsTypeOK, Pointers, PointsTo
  <2>2. NULL \notin Live /\ next # NULL
    BY <1>10 DEF NULL
  <2> QED  BY <1>9, <1>10, <2>1, <2>2
<1>12. Live' = (Live \cup {next}) \ {str} /\ \A b \in Live' : mem'[b] = m2[b]
  BY <1>8, <1>9 DEF Without, Live
<1>13. KeepsSets(m2, mem') /\ KeepsSets(mem', m2)
  <2>1. KeepsSets(m2, mem')
    BY <1>9, <1>11, <1>12 DEF KeepsSets, SetKinds, Live
  <2>2. KeepsSets(mem', m2)
    BY <1>9, <1>12 DEF KeepsSets, Live
  <2> QED  BY <2>1, <2>2
<1>14. /\ \A b \in Live : mem[b].kind \notin {"array", "string"} => b \in Live' /\ mem'[b] = mem[b]
       /\ \A b \in Live' : mem'[b].kind \in {"data", "array"} \/ (b \in Live /\ b # str /\ mem'[b] = mem[b])
  BY <1>9, <1>10, <1>11, <1>12
<1>15. pds \in Live /\ mem[pds].kind = "ds" /\ mem'[pds] = mem[pds] /\ pds \in Live'
  <2>1. pds \in Live /\ mem[pds].kind = "ds"
    BY <1>2 DEF IsDataSet, Live
  <2> QED  BY <1>14, <2>1
<1>16. /\ loc' \in LocType /\ loc'.n = loc.n /\ loc'.len = len /\ loc'.i = k /\ loc'.ds = NULL /\ loc'.db = loc.db
       /\ loc'.info = NULL /\ loc'.pgnos = NULL /\ loc'.hashes = NULL /\ loc'.gen_str = NULL
       /\ loc'.fn = loc.fn
  <2>1. loc' = [loc EXCEPT !.i = k, !.gen_str = NULL] /\ k \in Nat
    BY <1>1, <1>2, <1>5
  <2>2. loc \in LocType
    BY <1>2
  <2>3. /\ loc' \in LocType /\ loc'.n = loc.n /\ loc'.len = loc.len /\ loc'.i = k /\ loc'.ds = loc.ds /\ loc'.db = loc.db
        /\ loc'.info = loc.info /\ loc'.pgnos = loc.pgnos /\ loc'.hashes = loc.hashes /\ loc'.gen_str = NULL
        /\ loc'.fn = loc.fn
    BY <2>1, <2>2 DEF LocType, NULL
  <2> QED  BY <1>2, <1>5, <2>3
<1>17. Cur' = pds
  BY <1>1, <1>2 DEF Cur
<1>18. Filled' = Filled \cup {k}
  <2>1. Size(Cur)' = Size(pds)
    BY <1>15, <1>17 DEF Size
  <2>2. Filled' = {j \in 1..Size(pds) : j <= k}
    BY <1>1, <1>16, <2>1 DEF Filled
  <2> QED  BY <1>2, <1>5, <1>6, <2>2
<1>19. SetInv' /\ SetsOwned' /\ Blocks'
  BY <1>2, <1>9, <1>13, <1>17, <1>18, SetChanged
<1>20. Pointers'
  <2>1. PointsTo(pelem, "elem") /\ PointsTo(loc.db, "db")
    BY DEF DsInv, DsTypeOK, Pointers
  <2>2. PointsTo(pelem, "elem")' /\ PointsTo(loc.db, "db")'
    BY <1>1, <1>14, <1>16, <2>1 DEF PointsTo
  <2> QED  BY <1>1, <1>15, <1>16, <2>2 DEF Pointers, PointsTo
<1>21. DsTypeOK'
  <2>1. Live' \subseteq 1..(next' - 1)
    BY <1>1, <1>10, <1>12
  <2> QED  BY <1>1, <1>19, <1>20, <2>1 DEF DsInv, DsTypeOK
<1>22. FitsTheCount'
  BY <1>14 DEF DsInv, FitsTheCount
<1>23. Types'
  <2>1. \A b \in Live' : mem'[b].kind \in {"ds", "array", "data", "string", "db", "errmsg", "pgnos",
                                       "hashes", "info", "elem", "payload"}
    BY <1>14 DEF DsInv, Types
  <2>2. next' \in Nat \ {0}
    BY <1>1, <1>10
  <2> QED  BY <1>1, <1>16, <2>1, <2>2 DEF DsInv, Types, LocType, Functions
<1>24. Control'
  <2>1. Size(pds)' = loc'.n /\ ~mem'[pds'].m_is_hashed /\ loc'.i <= Size(pds)'
    BY <1>1, <1>2, <1>6, <1>15, <1>16 DEF Size
  <2>2. Array(pds)' = m2[array].elems
    BY <1>1, <1>5, <1>9, <1>11, <1>12, <1>15 DEF Array
  <2>3. \A j \in Filled' : Array(pds)'[j].m_data_len = loc'.len
    BY <1>9, <1>16, <1>18, <2>2 DEF OfLength
  <2> QED  BY <1>1, <1>2, <1>16, <2>1, <2>3 DEF Control
<1>25. Carried'
  BY <1>1 DEF Carried
<1>26. LocalsOwned'
  BY <1>2, <1>5, <1>14, <1>16 DEF DsInv, LocalsOwned
<1> QED  BY <1>19, <1>21, <1>22, <1>23, <1>24, <1>25, <1>26 DEF DsInv

\* Page loc.i + 1 is copied: what the element gets is what was read.
LEMMA CopyPageKeepsInv ==
  ASSUME DsInv, CopyPage
  PROVE  DsInv'
<1>1. /\ pc = "copy" /\ pc' = "copy" /\ loc.i < Size(loc.ds) /\ calls' = calls /\ next' = next + 1
      /\ UNCHANGED <<pds, pelem, file, read>> /\ loc' = [loc EXCEPT !.i = @ + 1]
  BY DEF CopyPage
<1>2. PICK ds, info, array : ds = loc.ds /\ info = loc.info /\ array = mem[loc.ds].m_pDE
  OBVIOUS
<1>3. /\ pds = NULL /\ ds # NULL /\ info # NULL /\ loc.pgnos = NULL /\ loc.hashes = NULL /\ loc.gen_str = NULL
      /\ loc \in LocType /\ loc.n = Len(read) /\ Size(ds) = loc.n /\ mem[ds].m_is_hashed
      /\ Cur = ds
  BY <1>1, <1>2 DEF DsInv, Control, Carried, Types, LocType, Functions, Cur
<1>4. loc.n \in Int /\ loc.i \in Nat
  BY <1>3 DEF LocType
<1>5. Filled = {j \in 1..Size(ds) : j <= loc.i}
  BY <1>1, <1>3 DEF Filled
<1>6. OfLength(Array(ds), Filled, 32)
  BY <1>1, <1>2 DEF DsInv, Carried, OfLength
<1>7. PICK k, index, bytes : k = loc.i + 1 /\ index = mem[info].vals[loc.i + 1].pgno /\ bytes = mem[info].vals[loc.i + 1].hash
  OBVIOUS
<1>8. k \in Nat /\ k \in 1..Size(ds) /\ k \notin Filled /\ k <= loc.n
  BY <1>1, <1>2, <1>3, <1>4, <1>5, <1>7
<1>9. index = read[k].pgno /\ bytes = read[k].hash /\ index \in Int
  <2>1. \A j \in 1..loc.n : mem[info].vals[j].pgno = read[j].pgno /\ mem[info].vals[j].hash = read[j].hash
    BY <1>1, <1>2 DEF DsInv, Carried
  <2>2. \A j \in 1..loc.n : read[j].pgno \in Nat
    BY <1>3 DEF DsInv, Types
  <2>3. k \in 1..loc.n
    BY <1>3, <1>8
  <2> QED  BY <1>7, <2>1, <2>2, <2>3
<1>10. PICK m2 : m2 = SetElement(ds, k, index, 32, bytes)
  OBVIOUS
<1>11. mem' = m2
  BY <1>2, <1>7, <1>10 DEF CopyPage
<1>12. Sets(m2, k, index, 32, bytes)
  BY <1>3, <1>6, <1>8, <1>9, <1>10 DEF Sets
<1>13. HasSet(m2, Cur, mem[Cur].m_pDE, Filled \cup {k}, 32)
  BY <1>12, ElementIsSet
<1>14. HoldsPages(m2, Cur, Filled \cup {k}, read)
  <2>1. mem[Cur].m_is_hashed /\ index = read[k].pgno /\ bytes = read[k].hash
              => HoldsPages(m2, Cur, Filled \cup {k}, read)
    BY <1>12, ElementIsSet
  <2> QED  BY <1>3, <1>9, <2>1
<1>15. /\ Live' = Live \cup {next} /\ mem'[next].kind = "data"
       /\ array \in Live /\ mem[array].kind = "array" /\ mem'[array].kind = "array"
       /\ \A b \in Live : b # array => mem'[b] = mem[b]
       /\ mem'[ds] = mem[ds] /\ IsDataSet(mem', ds, Filled \cup {k})
       /\ OfLength(mem'[array].elems, Filled \cup {k}, 32)
       /\ \A b \in DOMAIN mem' : mem'[b].kind \in SetKinds => Owns(mem', ds, Filled \cup {k}, b)
  BY <1>2, <1>3, <1>11, <1>13 DEF HasSet, Live
<1>16. next \in Nat \ {0} /\ Live \subseteq 1..(next - 1) /\ next \notin Live
  BY DEF DsInv, Types, DsTypeOK
<1>17. /\ \A b \in Live : mem[b].kind # "array" => b \in Live' /\ mem'[b] = mem[b]
       /\ \A b \in Live' : mem'[b].kind \in {"data", "array"} \/ (b \in Live /\ mem'[b] = mem[b])
  BY <1>15, <1>16
<1>18. ds \in Live /\ mem[ds].kind = "ds"
  BY <1>2, <1>3 DEF DsInv, DsTypeOK, Pointers, PointsTo
<1>19. /\ loc' \in LocType /\ loc'.n = loc.n /\ loc'.i = k /\ loc'.ds = ds /\ loc'.db = loc.db
       /\ loc'.info = info /\ loc'.pgnos = NULL /\ loc'.hashes = NULL /\ loc'.gen_str = NULL
  <2>1. loc' = [loc EXCEPT !.i = k]
    BY <1>1, <1>7
  <2>2. loc \in LocType
    BY <1>3
  <2>3. /\ loc' \in LocType /\ loc'.n = loc.n /\ loc'.i = k /\ loc'.ds = loc.ds /\ loc'.db = loc.db
        /\ loc'.info = loc.info /\ loc'.pgnos = loc.pgnos /\ loc'.hashes = loc.hashes /\ loc'.gen_str = loc.gen_str
    BY <1>8, <2>1, <2>2 DEF LocType
  <2> QED  BY <1>2, <1>3, <2>3
<1>20. Cur' = ds
  BY <1>1, <1>3, <1>19 DEF Cur
<1>21. Filled' = Filled \cup {k}
  <2>1. Size(Cur)' = Size(ds)
    BY <1>15, <1>20 DEF Size
  <2>2. Filled' = {j \in 1..Size(ds) : j <= k}
    BY <1>1, <1>19, <2>1 DEF Filled
  <2> QED  BY <1>4, <1>5, <1>7, <1>8, <2>2
<1>22. SetInv' /\ SetsOwned' /\ Blocks'
  <2>1. KeepsSets(m2, mem') /\ KeepsSets(mem', m2)
    BY <1>11 DEF KeepsSets
  <2>2. IsDataSet(m2, Cur', Filled') /\ HoldsPages(m2, Cur', Filled', read')
    BY <1>1, <1>3, <1>11, <1>14, <1>15, <1>20, <1>21
  <2>3. \A b \in DOMAIN m2 : m2[b].kind \in SetKinds => Owns(m2, Cur', Filled', b)
    BY <1>11, <1>15, <1>20, <1>21
  <2>4. Cur' # NULL
    BY <1>3, <1>20
  <2> QED  BY <2>1, <2>2, <2>3, <2>4, SetChanged
<1>23. Pointers'
  <2>1. PointsTo(pelem, "elem") /\ PointsTo(loc.db, "db") /\ PointsTo(loc.info, "info")
    BY DEF DsInv, DsTypeOK, Pointers
  <2>2. PointsTo(pelem, "elem")' /\ PointsTo(loc.db, "db")' /\ PointsTo(loc.info, "info")'
    BY <1>1, <1>2, <1>17, <1>19, <2>1 DEF PointsTo
  <2>3. PointsTo(loc.ds, "ds")'
    BY <1>17, <1>18, <1>19 DEF PointsTo
  <2> QED  BY <1>1, <1>3, <1>19, <2>2, <2>3 DEF Pointers, PointsTo
<1>24. DsTypeOK'
  <2>1. Live' \subseteq 1..(next' - 1)
    BY <1>1, <1>15, <1>16
  <2> QED  BY <1>1, <1>22, <1>23, <2>1 DEF DsInv, DsTypeOK
<1>25. FitsTheCount'
  BY <1>17 DEF DsInv, FitsTheCount
<1>26. Types'
  <2>1. \A b \in Live' : mem'[b].kind \in {"ds", "array", "data", "string", "db", "errmsg", "pgnos",
                                       "hashes", "info", "elem", "payload"}
    BY <1>17 DEF DsInv, Types
  <2>2. next' \in Nat \ {0}
    BY <1>1, <1>16
  <2> QED  BY <1>1, <1>19, <2>1, <2>2 DEF DsInv, Types, LocType, Functions
<1>27. Control'
  BY <1>1, <1>3, <1>19 DEF Control
<1>28. Carried'
  <2>1. info \in Live /\ mem[info].kind = "info"
    BY <1>2, <1>3 DEF DsInv, DsTypeOK, Pointers, PointsTo
  <2>2. mem'[info] = mem[info]
    BY <1>17, <2>1
  <2>3. \A j \in 1..loc.n : mem[info].vals[j].pgno = read[j].pgno /\ mem[info].vals[j].hash = read[j].hash
    BY <1>1, <1>2 DEF DsInv, Carried
  <2>4. Array(loc.ds)' = mem'[array].elems
    BY <1>2, <1>15, <1>19 DEF Array
  <2>5. \A j \in Filled' : Array(loc.ds)'[j].m_data_len = 32
    BY <1>15, <1>21, <2>4 DEF OfLength
  <2>6. Size(loc.ds)' = loc'.n /\ mem'[loc'.ds].m_is_hashed /\ loc'.i <= loc'.n
    BY <1>3, <1>8, <1>15, <1>19 DEF Size
  <2> QED  BY <1>1, <1>3, <1>19, <2>2, <2>3, <2>5, <2>6 DEF Carried
<1>29. LocalsOwned'
  BY <1>3, <1>17, <1>19 DEF DsInv, LocalsOwned
<1> QED  BY <1>22, <1>24, <1>25, <1>26, <1>27, <1>28, <1>29 DEF DsInv

-----------------------------------------------------------------------------
(* A data set is freed *)

\* With an element's data gone, the data set is what is left of it.
LEMMA ElementFreed ==
  ASSUME NEW m, NEW ds, NEW filled, NEW n, NEW array, NEW elems, NEW k, NEW freed, NEW m2, NEW new,
         Freeing(m, ds, filled, n, array, elems, k, freed, m2, new)
  PROVE  /\ IsArray(m2, ds, filled \ {k}, n, array, new)
         /\ \A pages : HoldsPages(m, ds, filled, pages) => HoldsPages(m2, ds, filled \ {k}, pages)
         /\ \A b : Owns(m, ds, filled, b) /\ b # freed => Owns(m2, ds, filled \ {k}, b)
<1>1. IsArray(m2, ds, filled \ {k}, n, array, new) /\ IsArray(m, ds, filled, n, array, elems)
  BY ArrayElementFreed DEF Freeing
<1>2. \A j \in filled \ {k} : new[j] = elems[j]
  <2>1. elems \in [1..n -> DEs] /\ filled \subseteq 1..n /\ new = [elems EXCEPT ![k].m_pdata = NULL]
    BY DEF Freeing, IsArray, ClearedAt
  <2> QED  BY <2>1
<1>3. ASSUME NEW pages, HoldsPages(m, ds, filled, pages)
      PROVE  HoldsPages(m2, ds, filled \ {k}, pages)
  <2>1. /\ n = Len(pages)
        /\ \A j \in filled : elems[j].m_index = pages[j].pgno /\ m[elems[j].m_pdata].bytes = pages[j].hash
    BY <1>1, <1>3, ArrayPages
  <2>2. ASSUME NEW j \in filled \ {k}
        PROVE  new[j].m_index = pages[j].pgno /\ m2[new[j].m_pdata].bytes = pages[j].hash
    <3>1. PICK p : p = elems[j].m_pdata
      OBVIOUS
    <3>2. p \in DOMAIN m /\ p # array /\ p # freed
      BY <3>1 DEF Freeing, IsArray
    <3>3. m2[p] = m[p]
      BY <3>2 DEF Freeing, Loses
    <3> QED  BY <1>2, <2>1, <3>1, <3>3
  <2> QED  BY <1>1, <2>1, <2>2, ArrayPages
<1>4. ASSUME NEW b, Owns(m, ds, filled, b), b # freed
      PROVE  Owns(m2, ds, filled \ {k}, b)
  <2>1. b = ds \/ b = array \/ \E j \in filled : b = elems[j].m_pdata
    BY <1>1, <1>4, ArrayOwns
  <2>2. freed = elems[k].m_pdata
    BY DEF Freeing
  <2>3. b = ds \/ b = array \/ \E j \in filled \ {k} : b = new[j].m_pdata
    BY <1>2, <1>4, <2>1, <2>2
  <2> QED  BY <1>1, <2>3, ArrayOwns
<1> QED  BY <1>1, <1>3, <1>4

\* While a data set is freed it is the client's, its first loc.i elements gone.
LEMMA FreeProgress ==
  ASSUME DsInv, pc = "free"
  PROVE  /\ pds # NULL /\ Cur = pds /\ loc.ds = NULL /\ loc.i \in Nat /\ (loc.i = 0 \/ loc.i <= Size(pds))
         /\ Filled = {k \in 1..Size(pds) : k > loc.i} /\ IsDataSet(mem, pds, Filled)
         /\ loc \in LocType /\ loc.info = NULL /\ loc.pgnos = NULL /\ loc.hashes = NULL /\ loc.gen_str = NULL
         /\ loc.fn \in {"free_ds", "gen_ds", "from_db"}
<1>1. /\ pds # NULL /\ loc.ds = NULL /\ loc.info = NULL /\ loc.pgnos = NULL /\ loc.hashes = NULL /\ loc.gen_str = NULL
      /\ (loc.i = 0 \/ loc.i <= Size(pds)) /\ loc.fn \in {"free_ds", "gen_ds", "from_db"}
  BY DEF DsInv, Control
<1>2. loc \in LocType
  BY DEF DsInv, Types, LocType, Functions
<1>3. loc.i \in Nat
  BY <1>2 DEF LocType
<1>4. Cur = pds
  BY <1>1 DEF Cur
<1>5. Filled = {k \in 1..Size(pds) : k > loc.i}
  BY <1>4 DEF Filled
<1> QED  BY <1>1, <1>2, <1>3, <1>4, <1>5 DEF DsInv, SetInv

LEMMA FreeElementKeepsInv ==
  ASSUME DsInv, FreeElement
  PROVE  DsInv'
<1>1. /\ pc = "free" /\ pc' = "free" /\ loc.i < Size(pds) /\ UNCHANGED <<calls, next, pds, pelem, file, read>>
      /\ loc' = [loc EXCEPT !.i = @ + 1]
  BY DEF FreeElement, ElementsLeft
<1>2. /\ pds # NULL /\ Cur = pds /\ loc.ds = NULL /\ loc.i \in Nat
      /\ Filled = {k \in 1..Size(pds) : k > loc.i} /\ IsDataSet(mem, pds, Filled)
      /\ loc \in LocType /\ loc.info = NULL /\ loc.pgnos = NULL /\ loc.hashes = NULL /\ loc.gen_str = NULL
      /\ loc.fn \in {"free_ds", "gen_ds", "from_db"}
  BY <1>1, FreeProgress
<1>3. PICK k, n, array, elems, freed :
        /\ k = loc.i + 1 /\ n = mem[pds].m_size /\ array = mem[pds].m_pDE /\ elems = mem[mem[pds].m_pDE].elems
        /\ freed = mem[mem[pds].m_pDE].elems[loc.i + 1].m_pdata
  OBVIOUS
<1>4. n \in Int /\ Size(pds) = n
  BY <1>2, <1>3 DEF IsDataSet, Size
<1>5. k \in Nat /\ k \in Filled /\ n >= 0 /\ k <= n
  BY <1>1, <1>2, <1>3, <1>4
<1>6. IsArray(mem, pds, Filled, n, array, elems)
  BY <1>2, <1>3, <1>5, SetHasArray
<1>7. freed = elems[k].m_pdata
  BY <1>3
<1>8. /\ array \in Live /\ mem[array].kind = "array" /\ pds \in Live /\ mem[pds].kind = "ds"
      /\ freed \in Live /\ mem[freed].kind = "data"
  BY <1>5, <1>6, <1>7 DEF IsArray, Live
<1>9. PICK new, full : new = [elems EXCEPT ![k].m_pdata = NULL] /\ full = ArrayOf(new)
  OBVIOUS
<1>10. mem' = Put(array, full, Without({freed}, mem))
  <2>1. mem' = Put(mem[pds].m_pDE, ArrayOf([Array(pds) EXCEPT ![loc.i + 1].m_pdata = NULL]),
                   Without({Array(pds)[loc.i + 1].m_pdata}, mem))
    BY DEF FreeElement, Cleared
  <2> QED  BY <1>3, <1>9, <2>1 DEF Array
<1>11. Loses(mem, mem', array, freed) /\ mem'[array] = full
  <2>1. array # freed /\ array \in DOMAIN mem
    BY <1>8 DEF Live
  <2> QED  BY <1>10, <2>1, FreeAndPut
<1>12. mem'[array].kind = "array" /\ mem'[array].elems = new
  BY <1>9, <1>11 DEF ArrayOf
<1>13. Freeing(mem, pds, Filled, n, array, elems, k, freed, mem', new)
  BY <1>5, <1>6, <1>7, <1>9, <1>11, <1>12 DEF Freeing, ClearedAt
<1>14. IsArray(mem', pds, Filled \ {k}, n, array, new)
  BY <1>13, ElementFreed
<1>15. IsDataSet(mem', pds, Filled \ {k})
  BY <1>14, ArrayMakesSet
<1>16. \A pages : HoldsPages(mem, pds, Filled, pages) => HoldsPages(mem', pds, Filled \ {k}, pages)
  BY <1>13, ElementFreed
<1>17. \A b : Owns(mem, pds, Filled, b) /\ b # freed => Owns(mem', pds, Filled \ {k}, b)
  BY <1>13, ElementFreed
<1>18. Live' = Live \ {freed} /\ \A b \in Live' : b # array => mem'[b] = mem[b]
  BY <1>11 DEF Loses, Live
<1>19. /\ \A b \in Live : mem[b].kind \notin {"array", "data"} => b \in Live' /\ mem'[b] = mem[b]
       /\ \A b \in Live' : (mem[b].kind = "array" /\ mem'[b].kind = "array") \/ (b \in Live /\ mem'[b] = mem[b])
  BY <1>8, <1>12, <1>18
<1>20. mem'[pds] = mem[pds] /\ pds \in Live'
  BY <1>8, <1>19
<1>21. /\ loc' \in LocType /\ loc'.i = k /\ loc'.ds = NULL /\ loc'.db = loc.db /\ loc'.fn = loc.fn
       /\ loc'.info = NULL /\ loc'.pgnos = NULL /\ loc'.hashes = NULL /\ loc'.gen_str = NULL
  <2>1. loc' = [loc EXCEPT !.i = k]
    BY <1>1, <1>3
  <2>2. loc \in LocType
    BY <1>2
  <2>3. /\ loc' \in LocType /\ loc'.i = k /\ loc'.ds = loc.ds /\ loc'.db = loc.db /\ loc'.fn = loc.fn
        /\ loc'.info = loc.info /\ loc'.pgnos = loc.pgnos /\ loc'.hashes = loc.hashes /\ loc'.gen_str = loc.gen_str
    BY <1>5, <2>1, <2>2 DEF LocType
  <2> QED  BY <1>2, <2>3
<1>22. Cur' = pds
  BY <1>1, <1>2 DEF Cur
<1>23. Filled' = Filled \ {k}
  <2>1. Size(Cur)' = Size(pds)
    BY <1>20, <1>22 DEF Size
  <2>2. Filled' = {j \in 1..Size(pds) : j > k}
    BY <1>1, <1>21, <2>1 DEF Filled
  <2> QED  BY <1>2, <1>3, <1>4, <2>2
<1>24. SetInv'
  <2>1. ASSUME mem'[pds].m_is_hashed
        PROVE  HoldsPages(mem', pds, Filled \ {k}, read)
    <3>1. HoldsPages(mem, pds, Filled, read)
      BY <1>2, <1>20, <2>1 DEF DsInv, SetInv
    <3> QED  BY <1>16, <3>1
  <2> QED  BY <1>1, <1>15, <1>22, <1>23, <2>1 DEF SetInv
<1>25. SetsOwned'
  <2> SUFFICES ASSUME NEW b \in Live', mem'[b].kind \in SetKinds
               PROVE  Owns(mem', pds, Filled \ {k}, b)
    BY <1>2, <1>22, <1>23 DEF SetsOwned
  <2>1. b \in Live /\ b # freed /\ mem[b].kind \in SetKinds
    BY <1>18, <1>19 DEF SetKinds
  <2>2. Owns(mem, pds, Filled, b)
    BY <1>2, <2>1 DEF DsInv, SetsOwned
  <2> QED  BY <1>17, <2>1, <2>2
<1>26. Pointers'
  <2>1. PointsTo(pelem, "elem") /\ PointsTo(loc.db, "db")
    BY DEF DsInv, DsTypeOK, Pointers
  <2>2. PointsTo(pelem, "elem")' /\ PointsTo(loc.db, "db")'
    BY <1>1, <1>19, <1>21, <2>1 DEF PointsTo
  <2>3. PointsTo(pds, "ds")'
    BY <1>1, <1>8, <1>20 DEF PointsTo
  <2> QED  BY <1>21, <2>2, <2>3 DEF Pointers, PointsTo
<1>27. DsTypeOK'
  <2>1. Live' \subseteq 1..(next' - 1) /\ calls' \in 0..MaxCalls
    BY <1>1, <1>18 DEF DsInv, DsTypeOK
  <2> QED  BY <1>24, <1>25, <1>26, <2>1, BlocksAgain DEF DsTypeOK
<1>28. FitsTheCount'
  BY <1>19 DEF DsInv, FitsTheCount
<1>29. Types'
  <2>1. \A b \in Live' : mem'[b].kind \in {"ds", "array", "data", "string", "db", "errmsg", "pgnos",
                                       "hashes", "info", "elem", "payload"}
    BY <1>19 DEF DsInv, Types
  <2> QED  BY <1>1, <1>21, <2>1 DEF DsInv, Types, LocType, Functions
<1>30. Control'
  <2>1. loc'.i <= Size(pds)'
    BY <1>1, <1>4, <1>5, <1>20, <1>21 DEF Size
  <2> QED  BY <1>1, <1>2, <1>21, <2>1 DEF Control
<1>31. Carried'
  BY <1>1 DEF Carried
<1>32. LocalsOwned'
  BY <1>2, <1>19, <1>21 DEF DsInv, LocalsOwned
<1> QED  BY <1>24, <1>25, <1>27, <1>28, <1>29, <1>30, <1>31, <1>32 DEF DsInv

\* With all elements freed there are only the array and the set itself.
LEMMA FreeSetKeepsInv ==
  ASSUME DsInv, FreeSet
  PROVE  DsInv'
<1>1. /\ pc = "free" /\ ~(loc.i < Size(pds)) /\ pds' = NULL /\ read' = <<>> /\ UNCHANGED <<next, pelem, file>>
      /\ mem' = Without({mem[pds].m_pDE, pds}, mem)
  BY DEF FreeSet, ElementsLeft
<1>2. /\ pds # NULL /\ Cur = pds /\ loc.ds = NULL /\ loc.i \in Nat
      /\ Filled = {k \in 1..Size(pds) : k > loc.i} /\ IsDataSet(mem, pds, Filled)
      /\ loc \in LocType /\ loc.info = NULL /\ loc.pgnos = NULL /\ loc.hashes = NULL /\ loc.gen_str = NULL
      /\ loc.fn \in {"free_ds", "gen_ds", "from_db"}
  BY <1>1, FreeProgress
<1>3. PICK array : array = mem[pds].m_pDE
  OBVIOUS
<1>4. Live' = Live \ {array, pds} /\ \A b \in Live' : mem'[b] = mem[b]
  BY <1>1, <1>3 DEF Without, Live
<1>5. mem[pds].kind = "ds" /\ (array \in Live => mem[array].kind = "array")
  <2>1. pds \in Live /\ mem[pds].kind = "ds"
    BY <1>2 DEF IsDataSet, Live
  <2>2. array # NULL => mem[array].kind = "array"
    BY <1>2, <1>3, SetBlocks
  <2>3. NULL \notin Live
    BY DEF DsInv, DsTypeOK, Types, NULL
  <2> QED  BY <2>1, <2>2, <2>3
<1>6. Filled = {}
  <2>1. Size(pds) \in Int
    BY <1>2 DEF IsDataSet, Size
  <2> QED  BY <1>1, <1>2, <2>1
<1>7. \A b \in Live : mem[b].kind \in SetKinds => b = pds \/ b = array
  <2> SUFFICES ASSUME NEW b \in Live, mem[b].kind \in SetKinds
               PROVE  b = pds \/ b = array
    OBVIOUS
  <2>1. Owns(mem, pds, {}, b)
    BY <1>2, <1>6 DEF DsInv, SetsOwned
  <2> QED  BY <1>3, <2>1 DEF Owns
<1>8. \A b \in Live' : mem'[b].kind \notin SetKinds
  BY <1>4, <1>7
<1>9. \A b \in Live : mem[b].kind \notin SetKinds => b \in Live' /\ mem'[b] = mem[b]
  BY <1>4, <1>5 DEF SetKinds
<1>10. \A b \in Live' : b \in Live /\ mem'[b] = mem[b]
  BY <1>4
<1>11. calls' = calls /\ loc'.ds = NULL
  <2>1. CASE loc.fn = "free_ds"
    <3>1. Return
      BY <2>1 DEF FreeSet
    <3> QED  BY <3>1 DEF Return, Go, NoLocals
  <2>2. CASE loc.fn = "gen_ds"
    <3>1. Go("gen") /\ loc' = [loc EXCEPT !.i = 0]
      BY <2>2 DEF FreeSet
    <3> QED  BY <1>2, <3>1 DEF Go, LocType
  <2>3. CASE loc.fn = "from_db"
    <3>1. Go("open") /\ loc' = [loc EXCEPT !.i = 0]
      BY <2>3 DEF FreeSet
    <3> QED  BY <1>2, <3>1 DEF Go, LocType
  <2> QED  BY <1>2, <2>1, <2>2, <2>3
<1>12. Cur' = NULL
  BY <1>1, <1>11 DEF Cur
<1>13. SetInv' /\ SetsOwned'
  BY <1>8, <1>12 DEF SetInv, SetsOwned
<1>14. Blocks'
  BY <1>13, BlocksAgain
<1>15. Live' \subseteq 1..(next' - 1) /\ calls' \in 0..MaxCalls
  BY <1>1, <1>4, <1>11 DEF DsInv, DsTypeOK
<1>16. PointsTo(pelem, "elem") /\ PointsTo(loc.db, "db")
  BY DEF DsInv, DsTypeOK, Pointers
<1>17. PointsTo(pelem, "elem")'
  BY <1>1, <1>9, <1>16 DEF PointsTo, SetKinds
<1>18. FitsTheCount'
  BY <1>10 DEF DsInv, FitsTheCount
<1>19. \A b \in Live' : mem'[b].kind \in {"ds", "array", "data", "string", "db", "errmsg", "pgnos",
                                       "hashes", "info", "elem", "payload"}
  BY <1>10 DEF DsInv, Types
<1>20. Len(read') \in Nat /\ \A k \in 1..Len(read') : read'[k].pgno \in Nat
  <2>1. Len(read') = 0
    BY <1>1
  <2> QED  BY <2>1
<1>21. CASE loc.fn = "free_ds"
  <2>1. Return
    BY <1>21 DEF FreeSet
  <2>2. loc' = NoLocals
    BY <2>1 DEF Return
  <2>3. Pointers'
    BY <1>1, <1>17, <2>2 DEF Pointers, PointsTo, NoLocals
  <2>4. DsTypeOK'
    BY <1>14, <1>15, <2>3 DEF DsTypeOK
  <2>5. \A b \in Live' : mem'[b].kind \notin {"string", "pgnos", "hashes"}
    <3>1. NULL \notin Live
      BY DEF DsInv, DsTypeOK, Types, NULL
    <3> QED  BY <1>2, <1>10, <3>1 DEF DsInv, LocalsOwned
  <2>6. \A b \in Live' : mem'[b].kind \in SetKinds \cup {"db", "errmsg", "info", "elem", "payload"}
    BY <1>19, <2>5 DEF SetKinds
  <2>7. next' \in Nat \ {0} /\ pds' \in Nat /\ pelem' = pelem /\ file' \in Files
    BY <1>1 DEF DsInv, Types, NULL
  <2> QED  BY <1>13, <1>18, <1>20, <2>1, <2>4, <2>5, <2>6, <2>7, Returned
<1>22. CASE loc.fn # "free_ds"
  <2>1. pc' \in {"gen", "open"} /\ loc' = [loc EXCEPT !.i = 0] /\ (pc' = "open" => loc.fn = "from_db")
        /\ (pc' = "gen" => loc.fn = "gen_ds")
    <3>1. loc.fn = "gen_ds" => Go("gen") /\ loc' = [loc EXCEPT !.i = 0]
      BY DEF FreeSet
    <3>2. loc.fn = "from_db" => Go("open") /\ loc' = [loc EXCEPT !.i = 0]
      BY DEF FreeSet
    <3> QED  BY <1>2, <1>22, <3>1, <3>2 DEF Go
  <2>2. /\ loc' \in LocType /\ loc'.i = 0 /\ loc'.ds = NULL /\ loc'.db = loc.db /\ loc'.fn = loc.fn
        /\ loc'.info = NULL /\ loc'.pgnos = NULL /\ loc'.hashes = NULL /\ loc'.gen_str = NULL
    BY <1>2, <2>1 DEF LocType
  <2>3. Pointers'
    <3>1. PointsTo(loc.db, "db")'
      BY <1>9, <1>16, <2>2 DEF PointsTo, SetKinds
    <3> QED  BY <1>1, <1>17, <2>2, <3>1 DEF Pointers, PointsTo
  <2>4. DsTypeOK'
    BY <1>14, <1>15, <2>3 DEF DsTypeOK
  <2>5. Types'
    BY <1>1, <1>19, <1>20, <2>1, <2>2 DEF DsInv, Types, LocType, Functions, NULL
  <2>6. Control'
    BY <1>1, <2>1, <2>2 DEF Control
  <2>7. Carried'
    BY <2>1 DEF Carried
  <2>8. LocalsOwned'
    BY <1>2, <1>10, <2>2 DEF DsInv, LocalsOwned
  <2> QED  BY <1>13, <1>18, <2>4, <2>5, <2>6, <2>7, <2>8 DEF DsInv
<1> QED  BY <1>21, <1>22

-----------------------------------------------------------------------------
(* The invariant *)

LEMMA InitMakesInv ==
  ASSUME DsInit
  PROVE  DsInv
<1>1. /\ pc = "client" /\ calls = 0 /\ mem = <<>> /\ next = 1 /\ pds = NULL /\ pelem = NULL /\ loc = NoLocals
      /\ file \in Files /\ read = <<>>
  BY DEF DsInit
<1>2. Live = {}
  BY <1>1 DEF Live
<1>3. /\ loc.ds = NULL /\ loc.db = NULL /\ loc.gen_str = NULL /\ loc.pgnos = NULL /\ loc.hashes = NULL /\ loc.info = NULL
      /\ loc \in LocType
  BY <1>1 DEF NoLocals, LocType, Functions, NULL
<1>4. Cur = NULL
  BY <1>1, <1>3 DEF Cur
<1>5. DsTypeOK
  BY <1>1, <1>2, <1>3, DataSetsAssumption DEF DsTypeOK, Pointers, PointsTo, Blocks
<1>6. Types
  BY <1>1, <1>2, <1>3 DEF Types, LocType, Functions, NULL
<1>7. Control /\ Carried
  BY <1>1, <1>3 DEF Control, Carried
<1> QED  BY <1>2, <1>4, <1>5, <1>6, <1>7 DEF DsInv, FitsTheCount, SetInv, SetsOwned, LocalsOwned

LEMMA StepKeepsInv ==
  ASSUME DsInv, [DsNext]_dsVars
  PROVE  DsInv'
<1>1. CASE CallFreeDs \/ CallGenDs \/ CallFromDb \/ CallPageCount \/ CallDeFree
  BY <1>1, CallsKeepInv
<1>2. CASE FreeElement \/ FreeSet
  BY <1>2, FreeElementKeepsInv, FreeSetKeepsInv
<1>3. CASE GenSet \/ GenString \/ NegativeString \/ GenElement \/ GenReturns
  BY <1>3, GenSetKeepsInv, GenStringKeepsInv, NegativeStringKeepsInv, GenElementKeepsInv, GenReturnsKeepsInv
<1>4. CASE Open \/ Exec \/ Count \/ Close
  BY <1>4, OpenKeepsInv, ExecKeepsInv, CountKeepsInv, CloseKeepsInv
<1>5. CASE DatabaseChanges \/ AllocateTemps \/ CountUnknown \/ ReadPages \/ Collect
  BY <1>5, DatabaseKeepsInv, AllocateTempsKeepsInv, CountUnknownKeepsInv, ReadPagesKeepsInv, CollectKeepsInv
<1>6. CASE BuildSet \/ CopyPage \/ Publish \/ CallDeCreate
  BY <1>6, BuildSetKeepsInv, CopyPageKeepsInv, PublishKeepsInv, DeCreateKeepsInv
<1>7. CASE UNCHANGED dsVars
  <2>1. UNCHANGED <<pc, calls, mem, next, pds, pelem, loc, file, read>>
    BY <1>7 DEF dsVars
  <2>2. Cur' = Cur /\ Filled' = Filled
    BY <2>1 DEF Cur, Filled, Size
  <2>3. calls' \in 0..MaxCalls /\ Pointers'
    BY <2>1 DEF DsInv, DsTypeOK, Pointers, PointsTo, Live
  <2>4. DsTypeOK' /\ FitsTheCount' /\ SetInv' /\ SetsOwned'
    BY <2>1, <2>2, <2>3, MemoryUntouched
  <2>5. Types'
    BY <2>1 DEF DsInv, Types, Live
  <2>6. Control'
    BY <2>1, <2>2 DEF DsInv, Control, Array, Size
  <2>7. Carried'
    BY <2>1, <2>2 DEF DsInv, Carried, Array, Size
  <2>8. LocalsOwned'
    BY <2>1 DEF DsInv, LocalsOwned, Live
  <2> QED  BY <2>4, <2>5, <2>6, <2>7, <2>8 DEF DsInv
<1> QED  BY <1>1, <1>2, <1>3, <1>4, <1>5, <1>6, <1>7 DEF DsNext

\* DsInv is an invariant: through all of gen_ds, gen_ds_from_dbfile and free_ds there is one
\* data set, of which the elements that have been set and not freed have data of their own.
THEOREM DataSetsKept == DsSpec => []DsInv
<1>1. DsInit => DsInv
  BY InitMakesInv
<1>2. DsInv /\ [DsNext]_dsVars => DsInv'
  BY StepKeepsInv
<1> QED  BY <1>1, <1>2, PTL DEF DsSpec

-----------------------------------------------------------------------------
(* What follows from it *)

\* getInfo1 never writes more pages than there is room for, whatever was committed to the
\* database between the two calls that read it.
THEOREM NeverOverfills == DsSpec => []FitsTheCount
<1>1. DsInv => FitsTheCount
  BY DEF DsInv
<1> QED  BY <1>1, DataSetsKept, PTL

\* Between calls the client's data set, if it has one, is complete.
LEMMA AtRest ==
  ASSUME DsInv, pc = "client", pds # NULL
  PROVE  Cur = pds /\ Filled = 1..Size(pds) /\ IsDataSet(mem, pds, 1..Size(pds))
<1>1. Cur = pds
  BY DEF Cur
<1>2. Filled = 1..Size(pds)
  BY <1>1 DEF Filled
<1> QED  BY <1>1, <1>2 DEF DsInv, SetInv

\* A data set read from the database has, page by page, the numbers and hashes getInfo1
\* delivered, though they went through two arrays of temporaries and pg_info_ptr.
THEOREM PagesArrive == DsSpec => []HoldsWhatWasRead
<1>1. DsInv => HoldsWhatWasRead
  <2> SUFFICES ASSUME DsInv, pc = "client", pds # NULL, mem[pds].m_is_hashed
               PROVE  /\ Size(pds) = Len(read)
                      /\ \A k \in 1..Size(pds) : /\ Array(pds)[k].m_index = read[k].pgno
                                                /\ mem[Array(pds)[k].m_pdata].bytes = read[k].hash
    BY DEF HoldsWhatWasRead
  <2>1. HoldsPages(mem, pds, 1..Size(pds), read)
    BY AtRest DEF DsInv, SetInv
  <2> QED  BY <2>1 DEF HoldsPages, Size, Array
<1> QED  BY <1>1, DataSetsKept, PTL

\* Whoever lets go of a data set, a string or a temporary array has released it: between
\* calls there is none the client cannot reach.
THEOREM NoDataSetIsLost == DsSpec => []LosesNoDataSet
<1>1. DsInv => LosesNoDataSet
  <2> SUFFICES ASSUME DsInv, pc = "client", NEW b \in Live, b \notin Reachable
               PROVE  mem[b].kind \in {"db", "errmsg", "info", "elem", "payload"}
    BY DEF LosesNoDataSet
  <2>1. mem[b].kind \notin {"string", "pgnos", "hashes"}
    <3>1. loc.gen_str = NULL /\ loc.pgnos = NULL /\ loc.hashes = NULL
      BY DEF DsInv, Control
    <3>2. NULL \notin Live
      BY DEF DsInv, DsTypeOK, Types, NULL
    <3> QED  BY <3>1, <3>2 DEF DsInv, LocalsOwned
  <2>2. ASSUME mem[b].kind \in SetKinds
        PROVE  FALSE
    <3>1. Cur # NULL /\ Owns(mem, Cur, Filled, b)
      BY <2>2 DEF DsInv, SetsOwned
    <3>2. pds # NULL
      <4>1. loc.ds = NULL
        BY DEF DsInv, Control
      <4> QED  BY <3>1, <4>1 DEF Cur
    <3>3. Owns(mem, pds, 1..Size(pds), b) /\ IsDataSet(mem, pds, 1..Size(pds))
      BY <3>1, <3>2, AtRest
    <3>4. CASE b = pds \/ b = mem[pds].m_pDE
      BY <3>2, <3>4 DEF Reachable
    <3>5. CASE b # pds /\ b # mem[pds].m_pDE
      <4>1. mem[pds].m_size >= 0
        BY <3>3, <3>5 DEF Owns
      <4>2. PICK k \in 1..Size(pds) : b = Array(pds)[k].m_pdata
        BY <3>3, <3>5 DEF Owns, Array
      <4>3. DOMAIN Array(pds) = 1..Size(pds) /\ mem[pds].m_size \in Int
        BY <3>3, <4>1 DEF IsDataSet, Array, Size
      <4>4. b \in PData(pds)
        BY <4>2, <4>3 DEF PData
      <4> QED  BY <3>2, <4>1, <4>3, <4>4 DEF Reachable, Size
    <3> QED  BY <3>4, <3>5
  <2> QED  BY <2>1, <2>2 DEF DsInv, Types, SetKinds
<1> QED  BY <1>1, DataSetsKept, PTL

\* The client's data set has as many blocks of data as elements, each of the length its
\* element says and all of one length.
THEOREM WholeBetweenCalls == DsSpec => []WholeAtRest
<1>1. DsInv => WholeAtRest
  <2> SUFFICES ASSUME DsInv, pc = "client", pds # NULL, Size(pds) >= 0
               PROVE  /\ Cardinality(PData(pds)) = Size(pds) /\ PData(pds) \subseteq Live
                      /\ \A k \in 1..Size(pds) :
                           /\ Array(pds)[k].m_data_len = mem[Array(pds)[k].m_pdata].len
                           /\ Array(pds)[k].m_data_len = Array(pds)[1].m_data_len
    BY DEF WholeAtRest
  <2>1. PICK n, array, elems : n = Size(pds) /\ array = mem[pds].m_pDE /\ elems = Array(pds)
    OBVIOUS
  <2>2. IsDataSet(mem, pds, 1..n)
    BY <2>1, AtRest
  <2>3. IsArray(mem, pds, 1..n, n, array, elems)
    BY <2>1, <2>2, SetHasArray DEF Size, Array
  <2>4. /\ n \in Nat /\ elems \in [1..n -> DEs]
        /\ \A k \in 1..n : elems[k].m_pdata \in Live /\ mem[elems[k].m_pdata].len = elems[k].m_data_len
        /\ \A j, k \in 1..n : elems[j].m_pdata = elems[k].m_pdata => j = k
        /\ \A j, k \in 1..n : elems[j].m_data_len = elems[k].m_data_len
    BY <2>3 DEF IsArray, Live
  <2>5. PICK P : P = PData(pds)
    OBVIOUS
  <2>6. P = {elems[k].m_pdata : k \in 1..n}
    BY <2>1, <2>4, <2>5 DEF PData
  <2>7. Cardinality(P) = n
    <3>1. PICK f : f = [k \in 1..n |-> elems[k].m_pdata]
      OBVIOUS
    <3>2. f \in [1..n -> P] /\ \A p \in P : \E k \in 1..n : f[k] = p
      BY <2>6, <3>1
    <3>3. \A j, k \in 1..n : f[j] = f[k] => j = k
      BY <2>4, <3>1
    <3>4. f \in Bijection(1..n, P)
      BY <3>2, <3>3 DEF Bijection, Injection, Surjection, IsInjective
    <3>5. ExistsBijection(1..n, P)
      BY <3>4 DEF ExistsBijection
    <3>6. IsFiniteSet(1..n) /\ Cardinality(1..n) = n
      BY <2>4, FS_Interval
    <3> QED  BY <3>5, <3>6, FS_Bijection
  <2>8. P \subseteq Live
    BY <2>4, <2>6
  <2>9. \A k \in 1..n : elems[k].m_data_len = elems[1].m_data_len
    BY <2>4
  <2> QED  BY <2>1, <2>4, <2>5, <2>7, <2>8, <2>9
<1> QED  BY <1>1, DataSetsKept, PTL

\* A step that leaves the blocks of data sets and pds alone leaves what the client holds.
LEMMA HeldStays ==
  ASSUME DsInv, pds # NULL, pds' = pds, pc \notin {"free", "string", "element", "copy"},
         pc' \notin {"free", "string", "element", "crash"}, pc # "crash", KeepsSets(mem, mem')
  PROVE  Held' = Held
<1>1. Cur = pds /\ Filled = 1..Size(pds)
  BY DEF Cur, Filled
<1>2. IsDataSet(mem, pds, 1..Size(pds))
  BY <1>1 DEF DsInv, SetInv
<1>3. mem'[pds] = mem[pds] /\ (mem[pds].m_size >= 0 => mem'[mem[pds].m_pDE] = mem[mem[pds].m_pDE])
  BY <1>2 DEF KeepsSets, SetKinds, IsDataSet
<1>4. Size(pds)' = Size(pds) /\ Size(pds) \in Int
  BY <1>2, <1>3 DEF Size, IsDataSet
<1>5. ASSUME NEW k \in 1..Size(pds)
      PROVE  Array(pds)'[k] = Array(pds)[k] /\ mem'[Array(pds)[k].m_pdata] = mem[Array(pds)[k].m_pdata]
  <2>1. mem[pds].m_size >= 0
    BY <1>4 DEF Size
  <2>2. Array(pds)' = Array(pds)
    BY <1>3, <2>1 DEF Array
  <2>3. PICK p : p = Array(pds)[k].m_pdata
    OBVIOUS
  <2>4. p \in DOMAIN mem /\ mem[p].kind = "data"
    BY <1>2, <2>1, <2>3 DEF IsDataSet, Array, Size
  <2>5. mem'[p] = mem[p]
    BY <2>4 DEF KeepsSets, SetKinds
  <2> QED  BY <2>2, <2>3, <2>5
<1>6. PICK n, one, two : /\ n = Size(pds)
                         /\ one = [k \in 1..n |-> [index |-> Array(pds)[k].m_index, data |-> mem[Array(pds)[k].m_pdata].bytes]]
                         /\ two = [k \in 1..n |-> [index |-> Array(pds)'[k].m_index, data |-> mem'[Array(pds)'[k].m_pdata].bytes]]
  OBVIOUS
<1>7. \A k \in 1..n : one[k] = two[k]
  BY <1>5, <1>6
<1>8. one = two
  BY <1>6, <1>7
<1>9. Held = {one}
  BY <1>6 DEF Held
<1>10. Held' = {two}
  BY <1>4, <1>6 DEF Held
<1> QED  BY <1>8, <1>9, <1>10

\* No step takes the client from one data set to another: there is a state between in
\* which it holds none.
THEOREM NoSetChangesInHand == DsSpec => HeldOrNone
<1>1. DsInv /\ [DsNext]_dsVars => [Held = {} \/ Held' = {}]_Held
  <2> SUFFICES ASSUME DsInv, [DsNext]_dsVars, Held # {}, Held' # {}
               PROVE  Held' = Held
    OBVIOUS
  <2>1. /\ pds # NULL /\ pc \notin {"free", "string", "element", "crash"}
        /\ pds' # NULL /\ pc' \notin {"free", "string", "element", "crash"}
    BY DEF Held
  <2>2. pc \notin {"gen", "temps", "read", "collect", "build", "copy"}
    BY <2>1 DEF DsInv, Control
  <2>3. \A b \in Live : b # next /\ b # next + 1
    BY DEF DsInv, DsTypeOK, Types
  <2>4. CASE UNCHANGED <<mem, pds>>
    BY <2>1, <2>2, <2>4, HeldStays DEF KeepsSets
  <2>5. CASE Open \/ Exec
    <3>1. UNCHANGED mem \/ \E block : Malloc(block)
      BY <2>5 DEF Open, Exec
    <3>2. \A b \in Live : b \in Live' /\ mem'[b] = mem[b]
      BY <2>3, <3>1 DEF Malloc, Put, Live
    <3>3. pds' = pds
      BY <2>5 DEF Open, Exec
    <3> QED  BY <2>1, <2>2, <3>2, <3>3, HeldStays DEF KeepsSets, Live
  <2>6. CASE CallDeCreate
    <3>1. PICK one, two : mem' = Put(next, one, Put(next + 1, two, mem))
      BY <2>6 DEF CallDeCreate
    <3>2. \A b \in Live : b \in Live' /\ mem'[b] = mem[b]
      BY <2>3, <3>1 DEF Put, Live
    <3>3. pds' = pds
      BY <2>6 DEF CallDeCreate
    <3> QED  BY <2>1, <2>2, <3>2, <3>3, HeldStays DEF KeepsSets, Live
  <2>7. CASE Close
    <3>1. mem' = Without({loc.db}, mem) /\ pds' = pds
      BY <2>7 DEF Close
    <3>2. loc.db \in Live => mem[loc.db].kind = "db"
      <4>1. NULL \notin Live
        BY DEF DsInv, DsTypeOK, Types, NULL
      <4> QED  BY <4>1 DEF DsInv, DsTypeOK, Pointers, PointsTo
    <3>3. \A b \in Live : mem[b].kind \in SetKinds => b \in Live' /\ mem'[b] = mem[b]
      BY <3>1, <3>2 DEF Without, Live, SetKinds
    <3> QED  BY <2>1, <2>2, <3>1, <3>3, HeldStays DEF KeepsSets, Live
  <2>8. CASE CallFreeDs \/ CallGenDs \/ CallFromDb \/ CallPageCount \/ CallDeFree
    <3>1. UNCHANGED <<mem, pds>>
      BY <2>8 DEF CallFreeDs, CallGenDs, CallFromDb, CallPageCount, CallDeFree
    <3> QED  BY <2>4, <3>1
  <2>9. CASE DatabaseChanges \/ CountUnknown \/ Count
    <3>1. UNCHANGED <<mem, pds>>
      BY <2>9 DEF DatabaseChanges, CountUnknown, Count
    <3> QED  BY <2>4, <3>1
  <2>10. CASE FreeElement \/ FreeSet \/ GenString \/ NegativeString \/ GenElement \/ GenReturns
    BY <2>1, <2>10 DEF FreeElement, FreeSet, GenString, NegativeString, GenElement, GenReturns
  <2>11. CASE GenSet \/ AllocateTemps \/ ReadPages \/ Collect \/ BuildSet \/ CopyPage \/ Publish
    BY <2>2, <2>11 DEF GenSet, AllocateTemps, ReadPages, Collect, BuildSet, CopyPage, Publish
  <2>12. CASE UNCHANGED dsVars
    <3>1. UNCHANGED <<mem, pds>>
      BY <2>12 DEF dsVars
    <3> QED  BY <2>4, <3>1
  <2> QED  BY <2>4, <2>5, <2>6, <2>7, <2>8, <2>9, <2>10, <2>11, <2>12 DEF DsNext
<1> QED  BY <1>1, DataSetsKept, PTL DEF DsSpec, HeldOrNone

=============================================================================
