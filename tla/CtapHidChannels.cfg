\* Channels that stay busy: ctaphid_check_timeouts is never called.
CONSTANTS
  Apps = {a1, a2}
  Slots = 2
  MaxPackets = 3
  MaxCid = 3
SPECIFICATION Spec
CHECK_DEADLOCK FALSE
INVARIANT ChannelsRemain
