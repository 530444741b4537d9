SPECIFICATION FairSpec
CONSTANTS
  DataSets <- MCDataSets
  NullDs = NullDs
  Sha <- MCSha
  NulByte = NulByte
  g_zeroHash <- MCZeroHash
  MAX_SIGNED_INT <- MCMax
  DEF_UPPER_BOUND_INDEX <- MCUpper
  Fill = Fill
  MaxSize = 17
  d0 = d0
  d1 = d1
  d2 = d2
  d3 = d3
  d4 = d4
  d5 = d5
  d6 = d6
  d7 = d7
  d8 = d8
  d9 = d9
INVARIANT
  DataLeavesAreUnmarked
