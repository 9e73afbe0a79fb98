CONSTANTS
  Clients = {"w", "p", "q"}
  Absent = Absent
  Keys <- MCKeys
  Bodies <- MCBodies
  Calls <- Disciplined
  Leader = "leader"
  Regions = {"far"}
  Site <- MCSite
  Seat <- MCSeat
  Consistent = {"p"}
  MaxAttempts <- CasRetry
  MissingStatus = {"412"}
SPECIFICATION Spec
INVARIANT
  RefusedUnchanged
