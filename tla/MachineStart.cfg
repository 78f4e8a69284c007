SPECIFICATION Spec
CONSTANTS
  Owners = {owner}
  Exits = {"ok"}
INVARIANT StartGivesMachineOrError
CHECK_DEADLOCK FALSE
