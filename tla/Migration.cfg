SPECIFICATION FairSpec
CONSTANTS
  N = 3
  Blocks = {b1}
  Patient <- LastIsPatient
  Faults <- MiddleFails
INVARIANTS
  MigrationInv
  OneVM
  ResumesWithData
PROPERTIES
  ImplementsMovingVM
  Stops
  Arrives
CHECK_DEADLOCK FALSE
