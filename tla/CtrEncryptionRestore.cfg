\* The host restores a backup and the user goes on without logging in again.
CONSTANTS
  Users = {u1}
  NoUser = NoUser
  MinIncr = 3
  CtrSpace = 10
  Sizes = {1, 2}
SPECIFICATION Spec
INVARIANTS
  FreshBlocksAfterRestore
