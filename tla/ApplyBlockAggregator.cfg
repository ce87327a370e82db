SPECIFICATION FairSpec
CONSTANTS
  i1 = i1
  i2 = i2
  None = None
  Receivers = {}
  Producers = {"produceLoop", "submitLoop"}
  Ids <- MCIds
  MaxHeight = 3
  MaxFaults = 3
  BatchEnd <- MCBatchEnd
  Retains = {0, 2}
  FaultPoints = {"appInfo", "alignLoad", "alignUpdate", "save", "execute", "batch",
                 "commit", "afterCommit", "prune", "final"}
INVARIANTS
  ProducedBlockIsValid
PROPERTIES
  StoredBlockIsFinal
  AlignmentCompletes
