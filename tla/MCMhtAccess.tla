---------------------------- MODULE MCMhtAccess ----------------------------
(***************************************************************************)
(* Instances of MhtAccess for TLC; bytes and digests as in MCMhtBuild.     *)
(***************************************************************************)
EXTENDS MhtAccess, FiniteSets

CONSTANTS Fill, Changed, t1, t2, d1, d2, d3, d4, d5

MCMax == 40
MCUpper == 30
MCZeroHash == <<Fill, <<>>>>
MCSha(m) == <<m, Fill>>
Content == <<d1, d2, d3, d4, d5>>

\* A hashed data set, as gen_ds_from_dbfile makes it, with the given pages.
DsOf(pagenos) ==
  [m_size |-> Len(pagenos), m_is_hashed |-> TRUE,
   m_pDE |-> [k \in 1..Len(pagenos) |->
                [m_index |-> pagenos[k], m_pdata |-> <<Content[pagenos[k]], Fill>>]]]

\* The same with one content for all.
DsAt(pagenos) ==
  [m_size |-> Len(pagenos), m_is_hashed |-> TRUE,
   m_pDE |-> [k \in 1..Len(pagenos) |-> [m_index |-> pagenos[k], m_pdata |-> <<d1, Fill>>]]]

\* A perfect tree of each height, and trees with one and three padding leaves.  A tree
\* whose padding wraps around; negative page numbers that ascend as unsigned ones, and as
\* ints; and one page more than nodeList has room for.
MCDataSets == {DsOf(<<2>>), DsOf(<<1, 3>>), DsOf(<<2, 3, 5>>), DsOf(<<1, 2, 3, 4>>),
               DsOf(<<1, 2, 3, 4, 5>>),
               DsAt(<<1, 36, 37, 38, 39>>), DsAt(<<1, -41>>), DsAt(<<-3, 1, 3>>),
               DsAt(<<-8, -7, -6, -5, -4, -3, -2, -1, 3>>)}

\* The database agrees with the tree except on page 3.
MCDbHash(p) == IF p \in {1, 2, 4, 5} THEN <<Content[p], Fill>> ELSE <<Changed, Fill>>

\* A database in which a page the tree lacks is like page 5.
MCDbHashAlike(p) == IF p = 41 THEN <<d5, Fill>> ELSE MCDbHash(p)

\* Lists with repeated pages, pages the tree lacks, and an unsorted one; 41 is what
\* -41 is as an unsigned number.
MCSelectLists == {<<>>, <<2, 2, 3>>, <<1, 5, 5, 41>>, <<3, 2, 3>>}

\* 0 is below every page; 6 and 7 are padding leaves of some of the trees.
MCPagesDrawn == {0, 1, 3, 6, 7}
MCTexts == {<<t1, Fill>>, <<t2, Fill>>}

=============================================================================
