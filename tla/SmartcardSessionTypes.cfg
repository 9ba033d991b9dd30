SPECIFICATION Spec
CONSTANTS
  alice = alice
  bob = bob
  a1 = a1
  b1 = b1
  Nobody = Nobody
  Garbage = Garbage
  Users <- TwoUsers
  Cards <- TwoCards
  Owner <- TwoOwner
  Debounce = 1
  MaxTries = 2
  MaxPreempted = 0
INVARIANT TypeOK
