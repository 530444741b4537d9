SPECIFICATION FairAccessSpec
CONSTANTS
  DataSets <- MCDataSets
  NullDs = NullDs
  Sha <- MCSha
  NulByte = NulByte
  g_zeroHash <- MCZeroHash
  MAX_SIGNED_INT <- MCMax
  DEF_UPPER_BOUND_INDEX <- MCUpper
  SelectLists <- MCSelectLists
  DbHash <- MCDbHash
  PagesDrawn <- MCPagesDrawn
  Texts <- MCTexts
  Garbage = Garbage
  NodeListLen = 4
  MaxCalls = 2
  MaxUpdates = 2
  Fill = Fill
  Changed = Changed
  t1 = t1
  t2 = t2
  d1 = d1
  d2 = d2
  d3 = d3
  d4 = d4
  d5 = d5
INVARIANTS
  AccessTypeOK
  DescentKeepsPage
  NodeListSuffices
  EachPageOnce
  VerdictsFollowContents
  LeavesHoldContents
  RootCommitsContents
  OnlyThePathIsStale
  ClimbInv
PROPERTIES
  CallsReturn
  IsPageMap
\* The driver may stop: main makes a bounded number of calls.
CHECK_DEADLOCK FALSE
