SPECIFICATION LiveSpec
CONSTANTS
  UriStrings = {"tcp", "bad"}
  MaxNesting = 2
  MaxMsgs = 1
  Sockets = {a, b}
INVARIANTS
  TypeOK
  AnsweredBeforeClosed
  UrisOwned
  MsgsOwned
  AliveAfterRecv
  ListenerHasProto
PROPERTIES
  CloseCompletes
  ConnectAnswered
  EndReported
