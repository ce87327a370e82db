SPECIFICATION FairSpec
CONSTANTS
  MaxHeight = 2
  MaxFaults = 2
INVARIANTS RecoveryIsSeen IInv
PROPERTIES ProductionResumes RequestIsTaken
CHECK_DEADLOCK FALSE
