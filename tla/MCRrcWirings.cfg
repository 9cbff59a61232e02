\* Controllers with every pointer connected and the ICAP pointing at main memory,
\* or with null handles, or with the ICAP pointing at the regions.
SPECIFICATION WiringSpec
CONSTANTS
  RrCount = 2
  Bitstreams <- MCBitstreams
  Tasks <- MCTasks
  NoBs = NoBs
  NoTask = NoTask
  Uninitialised = Uninitialised
  GarbageBsIds <- MCGarbageBsIds
  HandlesLive = TRUE
  TransferBsAtStart = NoBs
  PrcMc = 1
  GarbageModules <- MCGarbageModules
  HierarchyDepth = 2
  TypeOf <- MCTypeOf
  TaskNodes <- MCTaskNodes
  MaxQueue = 1
  Vacancy <- MCVacancy
INVARIANTS
  TypeOK
  ExecutingTruthful
  ReceivesOverPlaceholder
  InstalledIsResident
  NullHandlesStopAll
  CounterStopsInstallation
PROPERTIES
  ProgrammedOnce
  StartsOnlyAsInstalled
  TransferIsInstalled
  ImplementsRrcPort
CHECK_DEADLOCK FALSE
