SPECIFICATION Spec
CONSTANTS
  Clients = {"celestia", "avail", "mock"}
  MaxHeight = 2
  MaxDAHeight = 3
  MaxTxs = 2
  Attempts = 2
  Roles = {"full", "aggregator"}
  None = None
  Faults = {"sequencer", "query", "lost", "overflow", "da", "apply", "persist", "crash"}
  MaxFaults = 1
INVARIANT SettledIsRetrievable IndexIsApplied
PROPERTY SyncCompletes
CHECK_DEADLOCK FALSE
