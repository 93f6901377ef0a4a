SPECIFICATION LibSpec
CONSTANTS
  Strings <- MCStrings
  digits <- MCdigits
  NS_INADDRSZ = 2
  OctetMax = 2
  PortMax = 2
  NULL = NULL
  Loops = {l1, l2}
  Allocators = {a1, a2}
  Sockets = {s1, s2}
  MaxMsgs = 1
  MaxLost = 1
  Platforms <- MCPlatforms
  errno <- MCerrno
  negative <- MCnegative
  OtherCodes = {0, 1, 64}
INVARIANTS
  TpInside
  HeapOwned
  ParsesRight
  NullOnlyAfterColons
  SettingsRespected
  LostOnlyWithoutBackend
  ErrorsTold
CHECK_DEADLOCK FALSE
