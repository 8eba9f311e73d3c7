SPECIFICATION FairSpec
CONSTANTS
  MaxFiles = 3
  PrefixLen = 2
  BufferLen = 3
  SocketCap = 4
  MessageSizes = {1, 2}
  LargeSizes = {4, 5}
  Mishaps = {"cut", "create", "write", "metadata", "open", "read", "shrink"}
  MaxMishaps = 3
INVARIANTS
  CountsAgree
  AnswersMatch
PROPERTIES
  KeepsDelivery
  TransferEnds
CHECK_DEADLOCK FALSE
