SPECIFICATION FairSpec
CONSTANTS
  Blocks <- MCBlocks
  BlockBatchMaxSizeBytes = 3
  Earlier <- EarlierBatches
  None = None
  PromptStart = TRUE
  MaxHeight = 4
  MaxFaults = 1
  Faults = {"crash", "drop", "lost", "query"}
PROPERTY SettlesAfterCrash
