\* Bluetooth: a packet overwrites the one before it.
CONSTANTS
  MaxPackets = 3
  MaxMessages = 3
  Interface = "BLE"
  Waits = TRUE
  LateResets = FALSE
SPECIFICATION FairSpec
INVARIANT WholeMessages
