SPECIFICATION Spec
CONSTANTS
  Clients = {"p", "w"}
  Pager = "p"
  Slash = 1
  MaxKeys = 1
  MaxSize = 2
  S3Prefix <- MCPrefix
  Opened <- MCOpened
  Paged <- MCPaged
  Calls <- MCCalls
  MaxCalls <- MCMaxCalls
  Stored <- MCStored
  Classify <- FirstName
INVARIANTS
  NoCountLost
  BytesHaveRequests
  ViewAscends
  ViewNoneMissed
PROPERTIES
  ViewsIsolated
CHECK_DEADLOCK FALSE
