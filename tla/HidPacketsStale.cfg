\* A packet received before a bus reset is handled after it.
CONSTANTS
  MaxPackets = 3
  MaxMessages = 3
  Interface = "USB"
  Waits = TRUE
  LateResets = FALSE
SPECIFICATION FairSpec
INVARIANT AlwaysWhole
