SPECIFICATION FairSpec
CONSTANTS
  AllowIncoming = TRUE
  FailPoints = {"veth", "forward accept", "route"}
  MaxCreated = 2
  Pairs <- Three
  Addresses <- Three
  Clients = {c1, c2}
  Others <- Two
  None = None
  MaxRuns = 3
  MaxFaults = 1
INVARIANTS
  NATInv
  ExclusiveUse
  CleanExit
PROPERTIES
  Ends
CHECK_DEADLOCK FALSE
