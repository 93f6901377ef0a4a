SPECIFICATION Spec
CONSTANTS
  Base = 2
  Suggested = 4
  Messages <- MCMessages
  MaxSends = 1
  MaxConns = 2
INVARIANT ReuseInOrder
CHECK_DEADLOCK FALSE
