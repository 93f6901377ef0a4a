SPECIFICATION LiveSpec
CONSTANTS
  MaxConns = 3
  MaxMsgs = 2
  Sequential = FALSE
INVARIANTS
  ClientGoneFirst
  HandlesRespected
PROPERTY SignalEnds
CHECK_DEADLOCK FALSE
