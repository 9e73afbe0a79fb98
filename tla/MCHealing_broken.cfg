SPECIFICATION FairSpec
CONSTANTS
  MaxInt64 = 7
  Requests <- Reads
  Sizes <- TwoVersions
  Attempts = 3
  Minimum = 2
  Windows = 4
  Faults <- Broken
INVARIANTS
  TypeOK
  DeliversRequested
  EOFIsComplete
PROPERTIES
  ReadReturns
CHECK_DEADLOCK FALSE
