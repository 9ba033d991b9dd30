\* Two applications and a table of two channels; the bound on the channels ends a run:
\* one application starts again, with the table full.
CONSTANTS
  Apps = {a1, a2}
  Slots = 2
  MaxPackets = 3
  MaxCid = 3
SPECIFICATION Spec
SYMMETRY AppSymmetry
INVARIANTS TypeOK WholeMessages NoSilence ChannelsFreed
CHECK_DEADLOCK FALSE
