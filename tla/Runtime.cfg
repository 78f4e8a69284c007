SPECIFICATION FairSpec
CONSTANTS
  Owner = owner
  Movers = {m1}
  Grabber = grabber
  Nobody = nobody
  Blocks = {1}
  GrabFaults = {m1, grabber}
  Configs <- EveryConfig
  Faults = {"load", "direct", "startAgent", "afterResume", "beforeSuspend", "pauseVM", "snapshot", "msync", "pause", "read", "clear", "cont", "copy", "exit"}
INVARIANTS
  RuntimeInv
  NoGrabAfterSuspend
  ClosedIsQuiet
PROPERTIES
  ImplementsContract
  SuspendReturns
CHECK_DEADLOCK FALSE
