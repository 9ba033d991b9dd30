SPECIFICATION Spec
CONSTANTS
  alice = alice
  bob = bob
  a1 = a1
  b1 = b1
  Nobody = Nobody
  Garbage = Garbage
  Users <- OneUsers
  Cards <- OneCards
  Owner <- OneOwner
  Debounce = 1
  MaxTries = 2
  MaxPreempted = 1
INVARIANT ReleaseReported
