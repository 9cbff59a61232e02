\* The selector does not choose as the documentation says.
SPECIFICATION FairSpec
CONSTANTS
  RrCount = 3
  Bitstreams <- MCBitstreams
  Tasks <- MCTasks
  TypeOf <- MCTypeOf
  TaskNodes <- MCTaskNodes
  StartNodes <- MCStartNodes
  Neighbors <- MCNeighbors
  NoBs = NoBs
  NoTask = NoTask
  Uninitialised = Uninitialised
  GarbageBsIds <- MCGarbageBsIds
  HandlesLive = TRUE
  TransferBsAtStart = NoBs
  PrcMc = 0
PROPERTY
  RequestsAsDocumented
\* The process may end.
CHECK_DEADLOCK FALSE
