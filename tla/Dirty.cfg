SPECIFICATION FairSpec
CONSTANTS
  Devices <- OneDisk
  Memory = "memory"
  Blocks = {1}
  MinCycles <- Once
  Limits <- EitherLimit
  MaxDirtyBlocks <- Once
  CycleCap = 4
  Faults = {"msync", "send", "suspend", "authority", "completed"}
  Nobody = Nobody
INVARIANTS
  IInv
  NoLostWrites
  TransferOnce
  ConvergenceBound
PROPERTIES
  SuspendOnceWhenReady
  NoTransferAfterError
  ImplementsHandover
  Returns
