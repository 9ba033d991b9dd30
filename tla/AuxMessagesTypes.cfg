SPECIFICATION Spec
CONSTANTS
  Kinds = {"event", "ask", "store", "pin", "late", "platinfo"}
  MaxMessages = 3
  MaxTyping = 1
INVARIANT TypeOK
CHECK_DEADLOCK FALSE
