SPECIFICATION FairSpec
CONSTANTS
  N = 2
  Blocks = {b1}
  Patient <- LastIsPatient
  Faults <- BrokenLink
PROPERTIES
  ProtocolErrorReturns
CHECK_DEADLOCK FALSE
