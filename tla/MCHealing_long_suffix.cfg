SPECIFICATION Spec
CONSTANTS
  MaxInt64 = 7
  Requests <- Suffixes
  Sizes <- OneVersion
  Attempts = 3
  Minimum = 2
  Windows = 4
  Faults <- Errors
INVARIANTS
  DeliversRequested
CHECK_DEADLOCK FALSE
