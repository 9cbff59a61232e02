\* The ICAP with the handles live and a first target: its later states are reached.
SPECIFICATION FairSpec
CONSTANTS
  RrCount = 2
  Bitstreams <- MCBitstreams
  Tasks <- MCTasks
  TypeOf <- MCTypeOf
  NoBs = NoBs
  NoTask = NoTask
  Uninitialised = Uninitialised
  GarbageBsIds <- MCGarbageBsIds
  HandlesLive = TRUE
  TransferBsAtStart <- MCStart
  PrcMc = 0
  GarbageStalls <- MCGarbageStalls
  TransferLatency <- MCTransferLatency
  ULongMax = 7
INVARIANTS
  TypeOK
  AckExactlyInAck
PROPERTIES
  PutOffForGood
  RequestedTarget
  AnsweredByTarget
  TransferEnds
  ImplementsIcapPort
