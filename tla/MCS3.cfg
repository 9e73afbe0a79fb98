CONSTANTS
  Clients = {"w", "p", "q"}
  Absent = Absent
  Keys <- MCKeys
  Bodies <- MCBodies
  Calls <- Disciplined
  Leader = "leader"
  Regions = {"far"}
  Site <- MCSite
  Seat <- MCSeat
  Consistent = {"p"}
  MaxAttempts <- PlainRetry
  MissingStatus = {"412"}
SPECIFICATION Spec
PROPERTIES
  ImplementsBucket
