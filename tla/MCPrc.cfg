\* The PRC against an ICAP and controllers that do anything their ports allow.
SPECIFICATION FairSpec
CONSTANTS
  RrCount = 3
  Bitstreams <- MCBitstreams
  Tasks <- MCTasks
  TypeOf <- MCTypeOf
  TaskNodes <- MCTaskNodes
  StartNodes <- MCStartNodes
  Neighbors <- MCNeighbors
  NoBs = NoBs
  NoTask = NoTask
  Uninitialised = Uninitialised
  GarbageBsIds <- MCGarbageBsIds
  HandlesLive = TRUE
  TransferBsAtStart = NoBs
  PrcMc = 0
INVARIANTS
  TypeOK
  RequestServesTask
  UnknownStateByAccident
  SelectorTakesTop
PROPERTIES
  RefusedOnlyWhenBusy
  GrantIsFatal
  PrcComesToRest
  ImplementsPrcPort
\* The process may end.
CHECK_DEADLOCK FALSE
