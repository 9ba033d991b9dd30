SPECIFICATION Spec
CONSTANTS
  Kinds = {"ask"}
  MaxMessages = 3
  MaxTyping = 1
INVARIANTS WholeMessage
CHECK_DEADLOCK FALSE
