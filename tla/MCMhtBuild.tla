----------------------------- MODULE MCMhtBuild -----------------------------
(***************************************************************************)
(* Instances of MhtBuild for TLC.                                          *)
(*                                                                         *)
(* A byte is an opaque token.  A digest has two bytes, one that stands for *)
(* the whole message, so that distinct messages have distinct digests, and *)
(* a filler; a digest that contains a zero byte is a chosen one.           *)
(***************************************************************************)
EXTENDS MhtBuildProps, FiniteSets

CONSTANTS Fill, MaxSize, d0, d1, d2, d3, d4, d5, d6, d7, d8, d9

MCMax == 20
MCUpper == 17
MCZeroHash == <<Fill, <<>>>>

\* Distinct pages have distinct contents, named by the page number modulo 10.
Content == <<d0, d1, d2, d3, d4, d5, d6, d7, d8, d9>>
ContentOf(p) == Content[(p % 10) + 1]

MCSha(m) == <<m, Fill>>

\* The data set of the given page numbers, in the given order.
DsOf(pages, hashed) ==
  [m_size |-> Len(pages), m_is_hashed |-> hashed,
   m_pDE |-> [k \in 1..Len(pages) |->
                [m_index |-> pages[k],
                 m_pdata |-> IF hashed THEN <<ContentOf(pages[k]), Fill>>
                                       ELSE <<ContentOf(pages[k])>>]]]

\* The increasing sequence of a set of page numbers.
AsSeq(S) == [k \in 1..Cardinality(S) |->
               CHOOSE p \in S : Cardinality({q \in S : q < p}) = k - 1]

Consecutive(n) == [k \in 1..n |-> k]

\* Every data set of pages 0..5, one of each size up to MaxSize, and every one
\* at the upper end of the int range; each with data and with hashes.
MCDataSets ==
  {DsOf(AsSeq(S), h) : S \in SUBSET (0..5), h \in BOOLEAN} \cup
  {DsOf(Consecutive(n), h) : n \in 1..MaxSize, h \in BOOLEAN} \cup
  {DsOf(AsSeq(S), TRUE) : S \in SUBSET ((MCMax - 5)..MCMax)}

\* Data sets whose page hashes may contain a zero byte, first or second.
DigestsOf(d) == {<<d, Fill>>, <<d, NulByte>>, <<NulByte, d>>}
MCNulDataSets ==
  {[m_size |-> 2, m_is_hashed |-> TRUE,
    m_pDE |-> <<[m_index |-> 1, m_pdata |-> a], [m_index |-> 2, m_pdata |-> b]>>]
     : a \in DigestsOf(d1), b \in DigestsOf(d2)}

=============================================================================
