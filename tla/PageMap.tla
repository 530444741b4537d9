------------------------------ MODULE PageMap ------------------------------
(***************************************************************************)
(* What the tree is to the driver test_1.c: a table of pages and their     *)
(* hashes under one commitment, the root hash.  A page's hash is replaced  *)
(* in place and the commitment follows; nobody looks a page up, or         *)
(* replaces another, before it has.  MhtAccess implements it.              *)
(***************************************************************************)
EXTENDS Integers, Sequences

CONSTANTS
  Commit(_),   \* the commitment to a sequence of hashes
  DbHash(_),   \* the hash of a page of the database
  None         \* no commitment, no answer

VARIABLES
  table,    \* the pages in order, with the hash held for each
  root,     \* the commitment
  answer    \* what the last lookup said

mapVars == <<table, root, answer>>

CommitTo(t) == Commit([k \in DOMAIN t |-> t[k].hash])
Settled == table = <<>> \/ root = CommitTo(table)

MapInit == table = <<>> /\ root = None /\ answer = None

\* The data set and its padding, once.
Load ==
  /\ table = <<>> /\ table' # <<>>
  /\ \A j, k \in DOMAIN table' : j < k => table'[j].page < table'[k].page
  /\ root' = CommitTo(table')
  /\ UNCHANGED answer

\* One page gets another hash; the commitment may lag behind.
Write ==
  /\ Settled
  /\ \E k \in DOMAIN table : table' = [table EXCEPT ![k].hash = table'[k].hash]
  /\ root' \in {root, CommitTo(table')}
  /\ UNCHANGED answer

Recommit == ~Settled /\ root' = CommitTo(table) /\ UNCHANGED <<table, answer>>

\* A page of the table is accepted exactly if the hash held for it is the
\* database's; of a page not in it the answer is that it is not found, or that
\* the database has none.
Lookup ==
  /\ Settled /\ UNCHANGED <<table, root>>
  /\ \/ answer'.equal = "unread"
     \/ LET at == {k \in DOMAIN table : table[k].page = answer'.page}
        IN  /\ table # <<>> /\ (answer'.found <=> at # {})
            /\ \A k \in at : answer'.equal = "yes" <=> table[k].hash = DbHash(answer'.page)

Forget == answer' = None /\ UNCHANGED <<table, root>>

MapNext == Load \/ Write \/ Recommit \/ Forget \/ Lookup

\* What no step does, and with it that the commitment follows.
MapSteps == MapInit /\ [][MapNext]_mapVars
MapSpec == MapSteps /\ (~Settled ~> Settled)

=============================================================================
