SPECIFICATION Spec
CONSTANTS
  Size = 5
  Threshold = 3
  PartSize = 2
  Concurrency = 2
INVARIANT
  SuccessMeansDownloaded
