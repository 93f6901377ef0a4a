SPECIFICATION LiveSpec
CONSTANTS
  Lines = 8
  EndSeen = FALSE
INVARIANTS
  LinesInOrder
  EndsComplete
  HandlesRespected
PROPERTIES
  SignalEnds
  EndsWithInput
CHECK_DEADLOCK FALSE
