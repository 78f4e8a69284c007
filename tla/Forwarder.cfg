SPECIFICATION FairSpec
CONSTANTS
  Ports <- TwoPorts
  Loopback = {"local"}
  Address <- Addresses
  Veth <- OneVeth
  Target <- OneTarget
  Others <- SharedRules
  Faults = {"iptables", "lookup", "append", "delete"}
INVARIANTS
  ForwarderInv
  NothingLeft
  AnnouncedWorks
PROPERTIES
  Ends
CHECK_DEADLOCK FALSE
