CONSTANTS
  Cards = {c1, c2}
  Rows = 2
  RowSize = 2
  MaxUsers = 3
  MaxCuts = 1
  PullAtRead = FALSE
SPECIFICATION Spec
INVARIANT PlacesReturn
