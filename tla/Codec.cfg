SPECIFICATION MCSpec
CONSTANTS
  Width = 16
  Absent = Absent
  HashLen = 2
  NamespaceLen = 1
  MaxSignatureSize = 3
  Digest <- MCDigest
  Blocks <- MCBlockSet
  OldBlocks <- MCOldBlocks
  States <- MCStates
  Contents <- MCContents
  FlushEvery = 1
  MaxStoreHeight = 3
  HeightKey <- HeightBytes
  HashOf <- BlockHash
  BlockIDOf <- MetaBlockID
  EncodeBlock <- BlockMarshalBinary
  EncodeCommit <- CommitMarshalBinary
  EncodeState <- StateMarshal
  EncodeContent <- ContentMarshal
  DecodeBlock <- BlockUnmarshalBinary
  DecodeCommit <- CommitUnmarshalBinary
  DecodeState <- StateUnmarshal
  DecodeContent <- ContentUnmarshal
  OldWrites <- OldOps
  MaxWrites = 3
  MCBlocks = 3
  Objects <- MCObjects
  RawMsgs <- MCRawMsgs
  Unknown <- MCUnknown
  Chain <- MCChain
  Num <- MCNum
  ContainsPairs <- MCContains
  IntWidth = 4
  HeaderCap = 1
  TxCap = 1
  DefaultPerPage = 2
  MaxPerPage = 3
  TxQueries <- MCTxQueries
  BlockQueries <- MCBlockQueries
  MaxIndexFaults = 1
INVARIANT ReadBack PruneIsExact SizeIsExact Delivered TruncationShows SearchIsExact EveryBlockIsIndexed
CHECK_DEADLOCK FALSE
