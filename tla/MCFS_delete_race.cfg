SPECIFICATION Spec
CONSTANTS
  w1 = w1
  w2 = w2
  p1 = p1
  i1 = i1
  i2 = i2
  Absent = Absent
  Free = Free
  DotNames = {"..", "d..1"}
  Bodies <- MCBodies
  Clients <- Two
  Keys <- HeadOnly
  Calls <- DeleteCalls
  Instances <- Shared
  Home <- HomeTwo
INVARIANTS
  CommitsCheckedView
