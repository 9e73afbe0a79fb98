SPECIFICATION MCSpec
CONSTANTS
  Clients = {"w", "d"}
  Instances = {"fs"}
  Absent = Absent
  Free = Free
  DotNames = {"..", "d..1"}
  Keys <- MCKeys
  Bodies <- MCBodies
  Calls <- MCCalls
  Home <- MCHome
  Prefixes <- MCPrefixes
  KeyOrder <- MCKeyOrder
  TempNames = {"a.tmp.1"}
  NameOrder <- MCNameOrder
  MaxKeys = 2
  MaxCalls = 2
INVARIANTS
  PagesAscend
  NoneMissed
  ListedExisted
  FailsOnlyBesideRemoval
