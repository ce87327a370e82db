SPECIFICATION FairSpec
CONSTANTS
  Blocks <- MCBlocks
  BlockBatchMaxSizeBytes = 3
  Earlier <- NoBatches
  None = None
  PromptStart = FALSE
  MaxHeight = 4
  MaxFaults = 2
  Faults = {"drop", "lost", "broadcast"}
INVARIANTS NoPanic EventIsForPostedBatch
PROPERTIES SyncTargetGrows EveryBlockSettles
