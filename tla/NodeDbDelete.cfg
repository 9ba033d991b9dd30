\* A user with more than one service is deleted.
CONSTANTS
  NSlots = 12
  Services = {1, 2, 3}
  Logins = {1}
  MaxCuts = 0
  MaxDeletes = 1
SPECIFICATION Spec
INVARIANTS
  DeletedUserLeavesNothing
