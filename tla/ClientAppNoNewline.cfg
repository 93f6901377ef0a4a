SPECIFICATION LiveSpec
CONSTANTS
  Lines = 2
  EndSeen = TRUE
PROPERTY
  EndsWithInput
CHECK_DEADLOCK FALSE
