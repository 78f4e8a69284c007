SPECIFICATION FairSpec
CONSTANTS
  Owners = {owner, other}
  Exits = {"ok", "failed", "killed"}
INVARIANTS
  MachineInv
  ClosedIsGone
  ReportsAgree
PROPERTIES
  FailureReported
  CloseReturns
CHECK_DEADLOCK FALSE
