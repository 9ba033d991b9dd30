SPECIFICATION Spec
CONSTANTS
  Kinds = {"late", "event"}
  MaxMessages = 3
  MaxTyping = 0
INVARIANTS WholeMessage
CHECK_DEADLOCK FALSE
