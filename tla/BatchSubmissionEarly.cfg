SPECIFICATION Spec
CONSTANTS
  Blocks <- MCBlocks
  BlockBatchMaxSizeBytes = 3
  Earlier <- EarlierBatches
  None = None
  PromptStart = FALSE
  MaxHeight = 4
  MaxFaults = 0
  Faults = {}
INVARIANT ProducesOnlyInSync
