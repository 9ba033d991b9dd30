SPECIFICATION Spec
CONSTANTS
  Kinds = {"event"}
  MaxMessages = 3
  MaxTyping = 1
INVARIANTS NothingDropped
CHECK_DEADLOCK FALSE
