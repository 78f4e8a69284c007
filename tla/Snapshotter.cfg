SPECIFICATION SFairSpec
CONSTANTS
  Owners = {"CreateSnapshot"}
  Exits = {"ok", "failed", "killed"}
  Devices <- ThreeDevices
  Inputs <- Disk
  Size <- Sizes
  Faults = {"openLiveness", "chownLiveness", "startAgent", "chownAgent", "copyIn", "select", "ready", "pause", "snapshot", "config", "copyOut"}
  MiB = 1048576
  MaxWrites = 2
INVARIANTS
  SnapshotterInv
  Consistent
  CleanedUp
PROPERTIES
  TakenInOrder
  ReturnsOrPanics
CHECK_DEADLOCK FALSE
