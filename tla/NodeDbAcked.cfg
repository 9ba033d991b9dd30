\* One power cut in the middle of an operation, then the same credential again.
CONSTANTS
  NSlots = 12
  Services = {1, 2, 3}
  Logins = {1}
  MaxCuts = 1
  MaxDeletes = 0
SPECIFICATION Spec
INVARIANTS
  AckedIsStored
