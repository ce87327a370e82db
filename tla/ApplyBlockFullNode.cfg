SPECIFICATION Spec
CONSTANTS
  i1 = i1
  i2 = i2
  None = None
  Receivers = {"retriever"}
  Producers = {}
  Ids <- MCIds
  MaxHeight = 3
  MaxFaults = 3
  BatchEnd <- MCBatchEnd
  Retains = {0, 1, 2}
  FaultPoints = {"save", "afterCommit", "prune", "final", "index"}
SYMMETRY MCSymmetry
INVARIANTS
  IInv
  ExecuteOnlyOnPredecessor
  RecoverableFromDisk
  ExecutedOnce
  StoredBlockIsExecuted
  NeededBlocksKept
  InitChainMatchesApp
PROPERTIES
  ImplementsLedger
