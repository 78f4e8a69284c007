SPECIFICATION Spec
CONSTANTS
  Owner = owner
  Movers = {m1}
  Grabber = grabber
  Nobody = nobody
  Blocks = {1}
  GrabFaults = {grabber}
  Configs <- SoftDirtyCopy
  Faults = {"copy"}
INVARIANT FlushedIsComplete
CHECK_DEADLOCK FALSE
