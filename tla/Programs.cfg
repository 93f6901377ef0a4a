SPECIFICATION ProgLive
CONSTANTS
  MaxConns = 1
  Sockets = {"server", "client"}
  UriStrings = {"tcp"}
  MaxNesting = 3
  MaxMsgs = 2
INVARIANTS
  RightUse
  NothingLeft
PROPERTIES
  ProgramsEnd
CHECK_DEADLOCK FALSE
