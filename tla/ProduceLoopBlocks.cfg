SPECIFICATION Spec
CONSTANTS
  MaxHeight = 2
  MaxFaults = 1
INVARIANT LoopDoesNotBlock
CHECK_DEADLOCK FALSE
