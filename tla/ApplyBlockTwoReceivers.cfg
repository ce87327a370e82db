SPECIFICATION Spec
CONSTANTS
  i1 = i1
  i2 = i2
  None = None
  Receivers = {"retriever", "gossip"}
  Producers = {}
  Ids = {i1}
  MaxHeight = 2
  MaxFaults = 0
  BatchEnd <- MCBatchEnd
  Retains = {0}
  FaultPoints = {}
INVARIANTS
  ExecuteOnlyOnPredecessor
