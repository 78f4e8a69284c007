SPECIFICATION Spec
CONSTANTS
  Ports <- TwoPorts
  Loopback = {"local"}
  Address <- Addresses
  Veth <- OneVeth
  Target <- OneTarget
  Others <- SharedRules
  Faults = {"lookup"}
INVARIANT SuccessMeansForwarded
