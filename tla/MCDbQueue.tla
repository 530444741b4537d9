----------------------------- MODULE MCDbQueue -----------------------------
(***************************************************************************)
(* Instances of DbQueue for TLC: MHT nodes of two levels in a memory of a  *)
(* few cells, one of which the header takes.                               *)
(***************************************************************************)
EXTENDS DbQueue, TLC

CONSTANTS c1, c2, c3, c4, c5, n1, n2, n3, n4

MCCells == {c1, c2, c3, c4}
MCMoreCells == {c1, c2, c3, c4, c5}
MCMhtNodes == {n1, n2, n3, n4}
MCLevel == [n \in MCMhtNodes |-> IF n \in {n1, n2} THEN 0 ELSE 1]

\* Which free cell malloc picks makes no difference, nor which node of a level.
Renamings == Permutations(MCMoreCells) \cup Permutations({n1, n2}) \cup Permutations({n3, n4})
FewRenamings == Permutations(MCCells) \cup Permutations({n1, n2}) \cup Permutations({n3, n4})

=============================================================================
