SPECIFICATION Spec
CONSTANTS
  Kinds = {"event", "ask", "store", "pin", "late", "platinfo"}
  MaxMessages = 3
  MaxTyping = 1
INVARIANT NeverDeaf
CHECK_DEADLOCK FALSE
