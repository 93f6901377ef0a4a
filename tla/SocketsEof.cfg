SPECIFICATION LiveSpec
CONSTANTS
  UriStrings = {"tcp"}
  MaxNesting = 2
  MaxMsgs = 1
  Sockets = {a}
PROPERTY EndOfAnyConnectionReported
