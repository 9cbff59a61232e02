\* The device as it is wired: the handles are null, and the ICAP has no target.
SPECIFICATION FairSpec
CONSTANTS
  RrCount = 2
  Bitstreams <- MCBitstreams
  Tasks <- MCTasks
  TypeOf <- MCTypeOf
  TaskNodes <- MCTaskNodes
  StartNodes <- MCStartNodes
  Neighbors <- MCNeighbors
  NoBs = NoBs
  NoTask = NoTask
  Uninitialised = Uninitialised
  GarbageBsIds <- MCGarbageBsIds
  HandlesLive = FALSE
  TransferBsAtStart = NoBs
  PrcMc = 0
  GarbageStalls <- MCGarbageStalls
  TransferLatency <- MCTransferLatency
  ULongMax = 7
  GarbageModules <- MCGarbageModules
  HierarchyDepth = 2
  StopCcc = 20
  DebugStop = 12
INVARIANTS
  TypeOK
  NoTransferEver
  NoRegionExecutes
  Ends
PROPERTY
  OneRequest
\* The process ends.
CHECK_DEADLOCK FALSE
