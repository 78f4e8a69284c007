SPECIFICATION FairSpec
CONSTANTS
  Callers = {g1}
  MaxConnections = 4
INVARIANTS
  OneCallerInv
PROPERTIES
  NewestRemote
  AgentReachable
