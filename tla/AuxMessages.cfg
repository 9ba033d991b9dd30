\* Every kind of message whose handling keeps to the receive buffer's rules: four
\* messages let one be received behind two nested handlers and the next behind it.
SPECIFICATION FairSpec
CONSTANTS
  Kinds = {"event", "ask", "store", "pin"}
  MaxMessages = 4
  MaxTyping = 0
INVARIANTS HandledOnce NothingDropped WholeMessage FlagIsComplete
PROPERTY EveryMessageHandled
CHECK_DEADLOCK FALSE
