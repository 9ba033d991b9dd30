\* One user, whose sessions, lives and restores follow one another with the same
\* counter in RAM, and a counter of 8 values that moves by 3: the reservation is
\* renewed within a session, and the counter can wrap.  The theorems are for any
\* number of users.
CONSTANTS
  Users = {u1}
  NoUser = NoUser
  MinIncr = 3
  CtrSpace = 8
  Sizes = {1, 2}
SPECIFICATION Spec
INVARIANTS
  FreshBlocks
  BoundedLoss
