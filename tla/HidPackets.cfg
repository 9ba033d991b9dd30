\* Hosts that wait for their answers, and are stopped and started at any packet.
CONSTANTS
  MaxPackets = 3
  MaxMessages = 3
  Interface = "USB"
  Waits = TRUE
  LateResets = FALSE
SPECIFICATION FairSpec
INVARIANTS WholeMessages NothingTorn
PROPERTY EveryHostServed
