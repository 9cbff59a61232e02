\* The device as it is wired; bitstream_id_ matches nothing, and nothing stalls.
SPECIFICATION FairSpec
CONSTANTS
  RrCount = 2
  Bitstreams <- MCBitstreams
  Tasks <- MCTasks
  TypeOf <- MCTypeOf
  TaskNodes <- MCTaskNodes
  StartNodes <- MCStartNodes
  Neighbors <- MCNeighbors
  NoBs = NoBs
  NoTask = NoTask
  Uninitialised = Uninitialised
  GarbageBsIds <- MCNoBsId
  HandlesLive = FALSE
  TransferBsAtStart = NoBs
  PrcMc = 0
  GarbageStalls <- MCNoStall
  TransferLatency <- MCTransferLatency
  ULongMax = 7
  GarbageModules <- MCGarbageModules
  HierarchyDepth = 2
  StopCcc = 20
  DebugStop = 12
PROPERTY TasksReachARegion
\* The process ends.
CHECK_DEADLOCK FALSE
