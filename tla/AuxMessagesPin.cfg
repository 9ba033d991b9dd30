SPECIFICATION Spec
CONSTANTS
  Kinds = {"pin", "ask"}
  MaxMessages = 3
  MaxTyping = 0
INVARIANTS OwnReply
CHECK_DEADLOCK FALSE
