\* A second bus reset, before comms_usb_just_enumerated is cleared.
CONSTANTS
  MaxPackets = 3
  MaxMessages = 3
  Interface = "USB"
  Waits = TRUE
  LateResets = TRUE
SPECIFICATION FairSpec
PROPERTY EveryHostServed
