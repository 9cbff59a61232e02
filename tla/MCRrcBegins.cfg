\* An idle module is asked to execute again.
SPECIFICATION Spec
CONSTANTS
  RrCount = 2
  Bitstreams <- MCBitstreams
  Tasks <- MCTasks
  NoBs = NoBs
  NoTask = NoTask
  Uninitialised = Uninitialised
  GarbageBsIds <- MCGarbageBsIds
  HandlesLive = TRUE
  TransferBsAtStart = NoBs
  PrcMc = 1
  GarbageModules <- MCGarbageModules
  HierarchyDepth = 2
  TypeOf <- MCTypeOf
  TaskNodes <- MCTaskNodes
  MaxQueue = 1
PROPERTY
  BeginsOnRequest
CHECK_DEADLOCK FALSE
