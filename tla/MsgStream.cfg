SPECIFICATION LiveSpec
CONSTANTS
  Base = 2
  Suggested = 4
  Messages <- MCMessages
  MaxSends = 2
  MaxConns = 2
INVARIANTS
  InOrderWhileFramed
  CompleteAtEof
  WindowNotEmpty
  InAllocation
  IndInv
PROPERTIES
  ImplementsChannel
  DeliveredEventually
  EndReported
CHECK_DEADLOCK FALSE
