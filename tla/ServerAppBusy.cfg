SPECIFICATION Spec
CONSTANTS
  MaxConns = 2
  MaxMsgs = 1
  Sequential = TRUE
INVARIANT AcceptsIntoFreeSocket
CHECK_DEADLOCK FALSE
