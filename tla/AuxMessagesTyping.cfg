SPECIFICATION Spec
CONSTANTS
  Kinds = {"ask"}
  MaxMessages = 3
  MaxTyping = 1
INVARIANTS HandledOnce
CHECK_DEADLOCK FALSE
