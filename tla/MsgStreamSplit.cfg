SPECIFICATION Spec
CONSTANTS
  Base = 2
  Suggested = 4
  Messages <- MCMessages
  MaxSends = 2
  MaxConns = 1
INVARIANT InOrder
CHECK_DEADLOCK FALSE
