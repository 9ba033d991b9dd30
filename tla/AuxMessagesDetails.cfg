SPECIFICATION Spec
CONSTANTS
  Kinds = {"platinfo"}
  MaxMessages = 3
  MaxTyping = 0
INVARIANTS FlagIsComplete
CHECK_DEADLOCK FALSE
