SPECIFICATION Spec
CONSTANTS
  K = 1
  Requests = {q1, q2, q3}
  Stripes = 3
  Window = 8
  Floor = 1
  Chunks = {8}
  MaxTime = 12
  MaxBytes = 8
SYMMETRY Interchangeable
INVARIANTS
  InflightExact
  PinnedIsLeft
PROPERTIES
  ServesAWindow
  SickWasBusy
  SickWasSlow
CHECK_DEADLOCK FALSE
