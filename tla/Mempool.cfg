SPECIFICATION MCSpec
CONSTANTS
  a = a
  b = b
  c = c
  p = p
  r = r
  NoSender = NoSender
  Nil = 0
  Elems <- MCElems
  Txs = {a, b, c}
  TxSize <- MCTxSize
  GasWanted <- MCGasWanted
  Sender <- MCSender
  Priorities = {1, 2}
  Callers = {p, r}
  IsValidator = {p}
  AppErrors = TRUE
  MaxSize = 2
  MaxTxsBytes = 4
  MaxTxBytes = 3
  CacheSize = 2
  KeepInvalid = FALSE
  Recheck = TRUE
  TTLNumBlocks = 1
  MaxBytes = 4
  MaxGas = 2
  MaxBlockTxs = 1
  MaxHeight = 2
  MaxCalls = 3
  Peers = {a, b, c}
  IDSpace = 4
  NoID = NoID
INVARIANT IndexesAgree WithinCapacity PooledOnce ReapedBlockFits PeerIDsUnique
CHECK_DEADLOCK FALSE
