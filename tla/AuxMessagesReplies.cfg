SPECIFICATION Spec
CONSTANTS
  Kinds = {"ask"}
  MaxMessages = 3
  MaxTyping = 0
INVARIANTS SentIntact
CHECK_DEADLOCK FALSE
