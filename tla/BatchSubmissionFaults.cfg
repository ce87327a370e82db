SPECIFICATION Spec
CONSTANTS
  Blocks <- MCBlocks
  BlockBatchMaxSizeBytes = 3
  Earlier <- NoBatches
  None = None
  PromptStart = FALSE
  MaxHeight = 3
  MaxFaults = 2
  Faults = {"crash", "produce", "load", "da", "broadcast", "drop", "lost", "disconnect", "late", "query"}
INVARIANTS SettledIsAvailable SettledIsStored NeverAheadOfHub PostedBatchIsSound SubmissionInv
