SPECIFICATION FetchSpec
CONSTANTS
  Size = 9
  Threshold = 3
  PartSize = 2
  Concurrency = 2
INVARIANTS
  TypeOK
  DeliversInOrder
  EOFIsComplete
  ContextErrorIsCallers
  BuffersBounded
  RangedTypeOK
  SuccessIsComplete
  RootCause
  NoStragglers
  BoundedParts
PROPERTIES
  ReadReturns
  CloseEndsGoroutines
  FetchReturns
