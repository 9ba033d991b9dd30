\* The host sends its next message before it has the answer.
CONSTANTS
  MaxPackets = 3
  MaxMessages = 3
  Interface = "USB"
  Waits = FALSE
  LateResets = FALSE
SPECIFICATION FairSpec
INVARIANT NothingTorn
