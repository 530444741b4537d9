SPECIFICATION RoutinesSpec
CONSTANTS
  Files <- MCFiles
  Sizes <- MCSizes
  Lengths <- MCLengths
  Text = Text
  MaxCalls = 3
\* A hash of 4 bytes; buffers of none, too little, just enough and more.
  SHA256_BLOCK_SIZE = 4
  Bytes = {0, 10, 161, 255}
  BufferLens = {0, 8, 9, 10}
  Width = 8
  BlockNums <- MCBlockNums
  StringLens <- MCStringLens
  Strings = {"s1", "s2"}
  Empty = ""
  Digest <- MCDigest
\* A digest of 3 bytes, an int of 2.
  DigestLen = 3
  IntSize = 2
  Old <- MCOld
\* A text of 129 bytes or more in one chunk is one sha256_update does not return from.
  UintRange = 129
  MaxLen = 130
  Messages <- MCMessages
  CallEnds <- MCCallEnds
  Byte <- MCByte
  Compress <- MCCompress
  H0 <- MCH0
  Output <- MCOutput
  StaleData <- MCStaleData
  h1 = h1
  h2 = h2
  h3 = h3
INVARIANTS
  DsInv
  WholeAtRest
  HoldsWhatWasRead
  FitsTheCount
  LosesNoDataSet
  SizeShowsDamage
  TextIsHash
  AbsorbsPaddedMessage
  KnownAnswers
PROPERTY HeldOrNone
\* The client may stop, a call returns, and the program may crash.
CHECK_DEADLOCK FALSE
