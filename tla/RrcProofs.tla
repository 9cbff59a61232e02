------------------------------ MODULE RrcProofs ------------------------------
(***************************************************************************)
(* The safety properties of RrcBench, for every application, every memory  *)
(* contents at start-up, any PRC and any ICAP that keep their ports, and   *)
(* any number of regions, none included.  With live handles the books of   *)
(* the controllers are right (IInv); with null ones, as built, nothing     *)
(* ever reaches a controller (NothingReaches).                             *)
(***************************************************************************)
EXTENDS RrcBench, TLAPS

----------------------------------------------------------------------------
\* Types.

\* The queues hold tasks.
QueuesTyped == action_queue \in [RrIds -> Seq(TaskNodes \ {NoTask})]

\* The part of the types that a step of a controller changes.
RrcTyped ==
  /\ status \in Faults \cup {"running", Finished}
  /\ prr_executing \in BusType /\ prr_prc_ack \in BusType /\ prr_icap_ack \in BusType
  /\ rrc_bitstream \in [RrIds -> BsIdType]
  /\ rrc_state \in [RrIds -> RrcStates]
  /\ icap_transfer_bs \in [RrIds -> Bitstreams \cup {NoBs, DefaultBs}]
  /\ installed_bs \in [RrIds -> Bitstreams \cup {NoBs, DefaultBs}]
  /\ resident \in [RrIds -> Objects]
  /\ rr_module \in [Objects -> ModuleType]
  /\ QueuesTyped

\* The part that it reads.
InputsTyped ==
  /\ stored_prc_enqueue_prr \in BusType /\ stored_prc_start_prr \in BusType
  /\ stored_icap_prr_ctrl_req \in BusType
  /\ stored_icap_mc \in Nat \cup {Uninitialised}
  /\ scheduled_task \in TaskNodes \cup {NoTask}
  /\ scheduled_bs \in Bitstreams \cup {NoBs, DefaultBs}
  /\ transfer_bs \in Bitstreams \cup {NoBs, DefaultBs}

\* The operations of a module.
LEMMA ModuleOperations ==
  ASSUME NEW module \in ModuleType, NEW latency \in Nat
  PROVE  /\ StepModule(module) \in ModuleType
         /\ BeginTransfer(module) \in ModuleType
         /\ BeginExecution(module, latency) \in ModuleType
<1> USE DEF ModuleType, ModuleStates
<1>1. [module EXCEPT !.in_simulation = TRUE, !.timestep = 0, !.state = "IDLE"] \in ModuleType
  OBVIOUS
<1>2. [module EXCEPT !.in_simulation = TRUE, !.timestep = module.timestep + 1] \in ModuleType
  <2>1. module.timestep + 1 \in Nat
    OBVIOUS
  <2>2. [module EXCEPT !.in_simulation = TRUE] \in ModuleType
    OBVIOUS
  <2> QED
    BY <2>1, <2>2
<1>3. StepModule(module) \in ModuleType
  BY <1>1, <1>2 DEF StepModule
<1>4. BeginTransfer(module) \in ModuleType
  BY DEF BeginTransfer
<1>5. BeginExecution(module, latency) \in ModuleType
  BY DEF BeginExecution
<1> QED
  BY <1>3, <1>4, <1>5

\* What is left of a step's inputs once the common part is done.
LEMMA CommonPartTyped ==
  ASSUME RrcTyped, InputsTyped, NEW rr \in RrIds
  PROVE  /\ resident[rr] \in Objects
         /\ ModulesNow(rr) \in [Objects -> ModuleType]
         /\ IcapAckNow(rr) \in BOOLEAN /\ ExecutingNow(rr) \in BOOLEAN
         /\ ~CannotEnqueue(rr) => QueueNow(rr) \in Seq(TaskNodes \ {NoTask})
<1> USE DEF RrcTyped, InputsTyped, BusType
<1>1. resident[rr] \in Objects /\ ResidentModule(rr) \in ModuleType
  BY DEF ResidentModule
<1>2. ModulesNow(rr) \in [Objects -> ModuleType]
  BY <1>1, ModuleOperations DEF ModulesNow
<1>3. IcapAckNow(rr) \in BOOLEAN /\ ExecutingNow(rr) \in BOOLEAN
  BY DEF IcapAckNow, ExecutingNow
<1>4. ASSUME ~CannotEnqueue(rr) PROVE QueueNow(rr) \in Seq(TaskNodes \ {NoTask})
  <2>1. action_queue[rr] \in Seq(TaskNodes \ {NoTask})
    BY DEF QueuesTyped
  <2>2. Enqueuing(rr) => PrcScheduledTask \in TaskNodes \ {NoTask}
    BY <1>4 DEF CannotEnqueue, PrcScheduledTask
  <2> QED
    BY <2>1, <2>2 DEF QueueNow
<1> QED
  BY <1>1, <1>2, <1>3, <1>4

\* A task type that can be started has a latency.
LEMMA StartableHasLatency ==
  ASSUME NEW bs, NEW type, NEW module, StartFault(bs, type, module) = "running"
  PROVE  bs \in Bitstreams /\ Tasks[bs][type].latency \in Nat /\ SpeedCanBeSet(module)
<1>1. HasSpec(bs, type) /\ SpeedCanBeSet(module)
  BY DEF StartFault
<1> QED
  BY <1>1, TasksAssumption DEF HasSpec

LEMMA FaultsAreFaults ==
  /\ \A bs, type, module : StartFault(bs, type, module) \in Faults \cup {"running"}
  /\ \A rr : InstallFault(rr) \in Faults \cup {"running"}
<1>1. \A bs, type, module : StartFault(bs, type, module) \in Faults \cup {"running"}
  BY DEF StartFault, Faults
<1>2. \A mc : FetchFault(mc) \in Faults \cup {"running"}
  BY DEF FetchFault, Faults
<1> QED
  BY <1>1, <1>2 DEF InstallFault, Faults

----------------------------------------------------------------------------
\* The ways a controller's step can go.

Faulted == status' \in Faults /\ UNCHANGED rrcVars

\* The common part, and nothing that concerns a transfer.
OnlyServed(rr) ==
  /\ Unaltered(rr)
  /\ \/ UNCHANGED rrc_state
     \/ rrc_state[rr] = "INIT" /\ rrc_state' = [rrc_state EXCEPT ![rr] = "IDLE"]
  /\ \/ UNCHANGED icap_transfer_bs
     \/ /\ rrc_state[rr] = "IDLE"
        /\ icap_transfer_bs' = [icap_transfer_bs EXCEPT ![rr] = IcapTransferBitstream]
  /\ rrc_state[rr] = "TRANSFER" => stored_icap_transfer

LEMMA StepOutcomes ==
  ASSUME NEW rr, RrcStep(rr), Running
  PROVE  \/ Faulted
         \/ ~CannotEnqueue(rr) /\ OnlyServed(rr)
         \/ Running' /\ (RrcRunQueued(rr) \/ RrcStart(rr) \/ RrcInstall(rr))
         \/ RrcAccept(rr)
<1>1. CASE RrcEnqueueNull(rr)
  BY <1>1 DEF RrcEnqueueNull, RrcFault, Faulted, Faults
<1>2. CASE RrcLeaveInit(rr) /\ ~CannotEnqueue(rr)
  BY <1>2 DEF RrcLeaveInit, OnlyServed
<1>3. CASE RrcStayIdle(rr)
  BY <1>3 DEF RrcStayIdle, InState, OnlyServed
<1>4. CASE RrcRunQueued(rr)
  BY <1>4, FaultsAreFaults DEF RrcRunQueued, Running, Faulted
<1>5. CASE RrcStart(rr)
  BY <1>5, FaultsAreFaults DEF RrcStart, Running, Faulted, RrcFault, Faults
<1>6. CASE RrcReadNoBitstream(rr)
  BY <1>6 DEF RrcReadNoBitstream, RrcFault, Faulted, Faults
<1>7. CASE RrcAlreadyResident(rr)
  BY <1>7 DEF RrcAlreadyResident, RrcFault, Faulted, Faults
<1>8. CASE RrcRefuse(rr)
  BY <1>8 DEF RrcRefuse, Requested, InState, OnlyServed
<1>9. CASE RrcReceive(rr)
  BY <1>9 DEF RrcReceive, InState, OnlyServed
<1>10. CASE RrcInstall(rr)
  BY <1>10, FaultsAreFaults DEF RrcInstall, Running, Faulted
<1> QED
  BY <1>1, <1>2, <1>3, <1>4, <1>5, <1>6, <1>7, <1>8, <1>9, <1>10 DEF RrcStep

LEMMA StepTyped ==
  ASSUME RrcTyped, InputsTyped, Running, NEW rr \in RrIds, RrcStep(rr)
  PROVE  RrcTyped'
<1>1. CASE Faulted
  BY <1>1 DEF Faulted, RrcTyped, QueuesTyped, rrcVars, rrcSignals
<1> SUFFICES ASSUME ~Faulted PROVE RrcTyped'
  BY <1>1
<1> USE DEF RrcTyped, InputsTyped, BusType
<1>2. /\ resident[rr] \in Objects
      /\ ModulesNow(rr) \in [Objects -> ModuleType]
      /\ IcapAckNow(rr) \in BOOLEAN /\ ExecutingNow(rr) \in BOOLEAN
      /\ ~CannotEnqueue(rr) => QueueNow(rr) \in Seq(TaskNodes \ {NoTask})
  BY CommonPartTyped
<1> USE <1>2
<1>3. CASE ~CannotEnqueue(rr) /\ OnlyServed(rr)
  <2>1. IcapTransferBitstream \in Bitstreams \cup {NoBs, DefaultBs}
    BY SignalContextAssumption DEF IcapTransferBitstream
  <2>2. /\ rrc_state' \in [RrIds -> RrcStates]
        /\ icap_transfer_bs' \in [RrIds -> Bitstreams \cup {NoBs, DefaultBs}]
    BY <1>3, <2>1 DEF OnlyServed, RrcStates
  <2> QED
    BY <1>3, <2>2 DEF OnlyServed, Unaltered, Served, QueuesTyped
<1>4. CASE Running' /\ RrcRunQueued(rr)
  <2>1. PICK n \in Nat :
          rr_module' = [ModulesNow(rr) EXCEPT ![resident[rr]] = BeginExecution(@, n)]
    BY <1>4, StartableHasLatency DEF RrcRunQueued, Running
  <2>2. rr_module' \in [Objects -> ModuleType]
    BY <2>1, ModuleOperations
  <2>3. action_queue' = [action_queue EXCEPT ![rr] = Tail(QueueNow(rr))]
    BY <1>4 DEF RrcRunQueued, Running
  <2>4. QueueNow(rr) \in Seq(TaskNodes \ {NoTask}) /\ QueueNow(rr) # <<>>
    BY <1>4 DEF RrcRunQueued, InState, Pending
  <2>5. QueuesTyped'
    BY <2>3, <2>4 DEF QueuesTyped
  <2>6. /\ prr_prc_ack' = [prr_prc_ack EXCEPT ![rr] = stored_prc_enqueue_prr[rr]]
        /\ prr_icap_ack' = [prr_icap_ack EXCEPT ![rr] = IcapAckNow(rr)]
        /\ prr_executing' = [prr_executing EXCEPT ![rr] = TRUE]
    BY <1>4 DEF RrcRunQueued, Running, Served
  <2>7. UNCHANGED <<rrc_bitstream, rrc_state, icap_transfer_bs, installed_bs, resident>>
    BY <1>4 DEF RrcRunQueued, Running, Served
  <2> QED
    BY <1>4, <2>2, <2>5, <2>6, <2>7 DEF Running
<1>5. CASE Running' /\ RrcStart(rr)
  <2> DEFINE target == resident[PrcScheduledBitstream.region_id]
  <2>1. PICK n \in Nat : rr_module' = [ModulesNow(rr) EXCEPT ![target] = BeginExecution(@, n)]
    BY <1>5, StartableHasLatency DEF RrcStart, Running, RrcFault
  <2>2. rr_module' \in [Objects -> ModuleType]
    BY <2>1, ModuleOperations
  <2> QED
    BY <1>5, <2>2 DEF RrcStart, Running, RrcFault, Served, QueuesTyped
<1>6. CASE Running' /\ RrcInstall(rr)
  <2> DEFINE bs == icap_transfer_bs[rr]
  <2>1. /\ bs \in Bitstreams
        /\ StartFault(IcapTransferBitstream, prev_task_type[rr], ModulesNow(rr)[bs]) = "running"
    BY <1>6 DEF RrcInstall, InstallFault, Running
  <2>2. /\ IcapTransferBitstream \in Bitstreams
        /\ Tasks[IcapTransferBitstream][prev_task_type[rr]].latency \in Nat
    BY <2>1, StartableHasLatency
  <2>3. bs \in Objects /\ bs.region_id \in RrIds
    BY <2>1, BitstreamsAssumption DEF Objects, BitstreamId
  <2>4. PICK n \in Nat : rr_module' = [ModulesNow(rr) EXCEPT ![bs] = BeginExecution(@, n)]
    BY <1>6, <2>2 DEF RrcInstall, Running
  <2>5. rr_module' \in [Objects -> ModuleType]
    BY <2>4, ModuleOperations
  <2>6. resident' = [resident EXCEPT ![bs.region_id] = bs]
    BY <1>6 DEF RrcInstall, Running
  <2>7. installed_bs' = [installed_bs EXCEPT ![rr] = IcapTransferBitstream]
    BY <1>6 DEF RrcInstall, Running
  <2>8. /\ action_queue' = [action_queue EXCEPT ![rr] = QueueNow(rr)]
        /\ ~CannotEnqueue(rr)
    BY <1>6 DEF RrcInstall, Running, InState
  <2>9. QueuesTyped'
    BY <2>8 DEF QueuesTyped
  <2>10. /\ rrc_state' \in [RrIds -> RrcStates]
        /\ UNCHANGED <<rrc_bitstream, icap_transfer_bs>>
    BY <1>6 DEF RrcInstall, Running, Served, RrcStates
  <2>11. /\ prr_prc_ack' = [prr_prc_ack EXCEPT ![rr] = stored_prc_enqueue_prr[rr]]
         /\ prr_icap_ack' = [prr_icap_ack EXCEPT ![rr] = IcapAckNow(rr)]
         /\ prr_executing' = [prr_executing EXCEPT ![rr] = TRUE]
    BY <1>6 DEF RrcInstall, Running, Served
  <2> QED
    BY <1>6, <2>2, <2>3, <2>5, <2>6, <2>7, <2>9, <2>10, <2>11 DEF Running
<1>7. CASE RrcAccept(rr)
  <2>1. rr_module' \in [Objects -> ModuleType]
    BY <1>7, ModuleOperations DEF RrcAccept
  <2>2. IcapTransferBitstream \in Bitstreams \cup {NoBs, DefaultBs}
    BY SignalContextAssumption DEF IcapTransferBitstream
  <2> QED
    BY <1>7, <2>1, <2>2 DEF RrcAccept, Served, RrcStates, QueuesTyped
<1> QED
  BY <1>3, <1>4, <1>5, <1>6, <1>7, StepOutcomes

----------------------------------------------------------------------------
\* Type correctness of the bench.

Typed == TypeOK /\ QueuesTyped /\ scheduled_task \in TaskNodes \cup {NoTask}

LEMMA TypedParts == Typed => RrcTyped /\ InputsTyped
  BY DEF Typed, TypeOK, SignalsTypeOK, RrcTypeOK, RrcTyped, InputsTyped

LEMMA InitTyped == BenchInit => Typed
<1> SUFFICES ASSUME BenchInit PROVE Typed
  OBVIOUS
<1> USE DEF BenchInit
<1>1. Off \in BusType
  BY DEF Off, BusType
<1>2. SignalsTypeOK
  <2>1. /\ rrc_bitstream \in [RrIds -> BsIdType] /\ stored_rrc_bitstream \in [RrIds -> BsIdType]
        /\ {icap_mc, stored_icap_mc} \subseteq Nat \cup {Uninitialised}
    BY SignalContextAssumption
    DEF RrcInit, RrcSignalsInit, StoredSignalsInit, IcapSignalsInit, BsIdType, NoId
  <2> QED
    BY <1>1, <2>1, SignalContextAssumption
    DEF SignalsTypeOK, ProcessInit, PrcSignalsInit, IcapSignalsInit, RrcSignalsInit,
        StoredSignalsInit, RrcInit, Phases
<1>3. /\ resident \in [RrIds -> Objects]
      /\ rr_module \in [Objects -> ModuleType]
  <2>1. \A rr \in RrIds : Placeholder(rr) \in Objects
    BY DEF Objects, Placeholders
  <2>2. LibraryModule \in ModuleType
    BY DEF LibraryModule, ModuleType, ModuleStates
  <2>3. \A obj \in Objects \ Bitstreams : obj.region_id \in RrIds
    BY DEF Objects, Placeholders, Placeholder
  <2> QED
    BY <2>1, <2>2, <2>3, RrControllerAssumption DEF RrcInit
<1>4. RrcTypeOK /\ QueuesTyped
  BY <1>3 DEF RrcTypeOK, QueuesTyped, RrcInit, RrcStates
<1>5. scheduled_task = NoTask
  BY DEF PrcSignalsInit
<1> QED
  BY <1>2, <1>4, <1>5 DEF Typed, TypeOK

LEMMA NextTyped == Typed /\ [Next]_vars => Typed'
<1> SUFFICES ASSUME Typed, [Next]_vars PROVE Typed'
  OBVIOUS
<1> USE DEF Typed, TypeOK
<1>1. CASE PrcTurn
  <2>1. /\ prc_icap_req' \in BOOLEAN /\ scheduled_bs' \in Bitstreams \cup {NoBs, DefaultBs}
    BY <1>1 DEF PrcTurn, PrcSide!PortStep, PrcSide!Proceed, PrcSide!ChooseNothing,
                PrcSide!Request, PrcSide!Hold, PrcSide!Release, PrcSide!prcPortVars, SignalsTypeOK
  <2> QED
    BY <1>1, <2>1 DEF PrcTurn, SignalsTypeOK, RrcTypeOK, QueuesTyped, Phases,
                      rrcVars, rrcSignals, icapSignals, storedSignals
<1>2. CASE IcapTurn
  <2>1. PrcScheduledBitstream \in Bitstreams \cup {NoBs, DefaultBs}
    BY DEF PrcScheduledBitstream, SignalsTypeOK
  <2>2. /\ icap_prc_ack' \in BOOLEAN /\ icap_transfer' \in BOOLEAN
        /\ icap_prr_ctrl_req' \in BusType
        /\ transfer_bs' \in Bitstreams \cup {NoBs, DefaultBs}
    BY <1>2, <2>1 DEF IcapTurn, IcapSide!PortStep, IcapSide!Wait, IcapSide!Grant,
                IcapSide!GetStuck, IcapSide!TakeOver, IcapSide!BeginTransfer,
                IcapSide!EndTransfer, IcapSide!icapPortVars, SignalsTypeOK, BusType
  <2>3. icap_mc' \in Nat \cup {Uninitialised}
    BY <1>2, SignalContextAssumption DEF IcapTurn, SignalsTypeOK
  <2> QED
    BY <1>2, <2>2, <2>3 DEF IcapTurn, SignalsTypeOK, RrcTypeOK, QueuesTyped, Phases,
                            rrcVars, rrcSignals, prcSignals, storedSignals
<1>3. CASE IcapReadNoBitstream
  <2>1. RrcTypeOK' /\ QueuesTyped'
    BY <1>3 DEF IcapReadNoBitstream, RrcTypeOK, QueuesTyped, rrcVars
  <2>2. SignalsTypeOK'
    BY <1>3 DEF IcapReadNoBitstream, SignalsTypeOK, Phases, Faults,
                rrcVars, rrcSignals, prcSignals, icapSignals, storedSignals
  <2> QED
    BY <1>3, <2>1, <2>2 DEF IcapReadNoBitstream, prcSignals
<1>4. CASE RrcTurn
  <2>1. next_rrc' \in RrIds \cup {0} /\ phase' \in Phases
    BY <1>4, RrCountAssumption DEF RrcTurn, RrcTurnStep, RrcTypeOK, RrIds, Phases
  <2>2. RrcTyped'
    <3>1. CASE next_rrc \in RrIds /\ RrcStep(next_rrc)
      BY <1>4, <3>1, TypedParts, StepTyped DEF RrcTurn
    <3>2. CASE UNCHANGED <<status, rrcVars>>
      BY <3>2, TypedParts DEF RrcTyped, QueuesTyped, rrcVars, rrcSignals
    <3> QED
      BY <1>4, <3>1, <3>2 DEF RrcTurn, RrcTurnStep
  <2> QED
    BY <1>4, <2>1, <2>2 DEF RrcTurn, RrcTyped, SignalsTypeOK, RrcTypeOK, QueuesTyped,
                            prcSignals, icapSignals, storedSignals
<1>5. CASE Refresh
  <2>1. stored_prr_prc_ack' \in BOOLEAN /\ stored_prr_icap_ack' \in BOOLEAN
    BY <1>5 DEF Refresh, RefreshContext, RefreshRrcSignals
  <2> QED
    BY <1>5, <2>1 DEF Refresh, RefreshContext, RefreshPrcSignals, RefreshIcapSignals,
              RefreshRrcSignals, SignalsTypeOK, RrcTypeOK, QueuesTyped, Phases,
              prcSignals, icapSignals, rrcSignals
<1>6. CASE UNCHANGED vars
  BY <1>6 DEF vars, SignalsTypeOK, RrcTypeOK, QueuesTyped, rrcVars, processVars,
              prcSignals, icapSignals, rrcSignals, storedSignals
<1> QED
  BY <1>1, <1>2, <1>4, <1>5, <1>6, <1>3 DEF Next

\* The controllers, the modules and the signals around them keep their types,
\* whatever the placeholders' memory holds (prrLevelController.cpp:118-370).
THEOREM RrcTypeCorrect == Spec => []TypeOK
<1>1. Typed => TypeOK
  BY DEF Typed
<1> QED
  BY <1>1, InitTyped, NextTyped, PTL DEF Spec

----------------------------------------------------------------------------
\* The controllers' own port.

LEMMA StepAcks ==
  ASSUME Typed, Running, NEW rr \in RrIds, RrcStep(rr), ~Faulted
  PROVE  /\ Served(rr)
         /\ \E ack \in BOOLEAN :
              /\ prr_icap_ack' = [prr_icap_ack EXCEPT ![rr] = ack]
              /\ ack => stored_icap_prr_ctrl_req[rr]
              /\ IcapAckNow(rr) => ack
         /\ \E exe \in BOOLEAN : prr_executing' = [prr_executing EXCEPT ![rr] = exe]
<1>1. IcapAckNow(rr) \in BOOLEAN /\ ExecutingNow(rr) \in BOOLEAN
  BY TypedParts, CommonPartTyped
<1>2. IcapAckNow(rr) => stored_icap_prr_ctrl_req[rr]
  BY DEF IcapAckNow
<1>3. CASE ~CannotEnqueue(rr) /\ OnlyServed(rr)
  BY <1>1, <1>2, <1>3 DEF OnlyServed, Unaltered
<1>4. CASE Running' /\ RrcRunQueued(rr)
  BY <1>1, <1>2, <1>4 DEF RrcRunQueued, Running
<1>5. CASE Running' /\ RrcStart(rr)
  BY <1>1, <1>2, <1>5 DEF RrcStart, Running, RrcFault
<1>6. CASE Running' /\ RrcInstall(rr)
  BY <1>1, <1>2, <1>6 DEF RrcInstall, Running
<1>7. CASE RrcAccept(rr)
  BY <1>1, <1>7 DEF RrcAccept, Requested
<1> QED
  BY <1>3, <1>4, <1>5, <1>6, <1>7, StepOutcomes

LEMMA NextIsPortTurn == Typed /\ [Next]_vars => [RrcSide!PortTurn]_(RrcSide!portVars)
<1> SUFFICES ASSUME Typed, [Next]_vars PROVE RrcSide!PortTurn \/ UNCHANGED RrcSide!portVars
  OBVIOUS
<1> USE DEF RrcSide!PortTurn, RrcSide!portVars, RrcSide!rrcPortVars, RrcSide!inputs
<1>1. CASE PrcTurn
  BY <1>1 DEF PrcTurn, rrcVars, rrcSignals
<1>2. CASE IcapTurn
  BY <1>2 DEF IcapTurn, rrcVars, rrcSignals
<1>3. CASE IcapReadNoBitstream
  BY <1>3 DEF IcapReadNoBitstream, rrcVars, rrcSignals
<1>4. CASE RrcTurn /\ UNCHANGED <<status, rrcVars>> /\ RrIds = {}
  BY <1>4 DEF RrcTurn, rrcVars, rrcSignals
<1>5. CASE RrcTurn /\ next_rrc \in RrIds /\ RrcStep(next_rrc)
  <2> DEFINE rr == next_rrc
  <2>1. rr \in RrIds /\ {rr} \cap RrIds = {rr} /\ RrcStep(rr) /\ Running /\ phase = "rrc"
    BY <1>5 DEF RrcTurn, RrcTurnStep
  <2>2. UNCHANGED <<stored_icap_prr_ctrl_req, stored_prc_enqueue_prr>>
    BY <1>5 DEF RrcTurn, storedSignals
  <2>3. CASE Faulted
    BY <2>1, <2>2, <2>3 DEF Faulted, Faults, Running, rrcVars, rrcSignals
  <2>4. CASE ~Faulted
    <3>1. /\ prr_prc_ack \in [RrIds -> BOOLEAN] /\ prr_icap_ack \in [RrIds -> BOOLEAN]
          /\ prr_executing \in [RrIds -> BOOLEAN]
          /\ stored_prc_enqueue_prr \in [RrIds -> BOOLEAN]
      BY DEF Typed, TypeOK, SignalsTypeOK, BusType
    <3>2. /\ prr_prc_ack' = [prr_prc_ack EXCEPT ![rr] = stored_prc_enqueue_prr[rr]]
          /\ UNCHANGED rrc_bitstream
      BY <2>1, <2>4, StepAcks DEF Served
    <3>3. PICK ack \in BOOLEAN :
            /\ prr_icap_ack' = [prr_icap_ack EXCEPT ![rr] = ack]
            /\ ack => stored_icap_prr_ctrl_req[rr]
            /\ IcapAckNow(rr) => ack
      BY <2>1, <2>4, StepAcks
    <3>4. PICK exe \in BOOLEAN : prr_executing' = [prr_executing EXCEPT ![rr] = exe]
      BY <2>1, <2>4, StepAcks
    <3>5. RrcSide!PortSteps({rr})
      BY <2>1, <3>1, <3>2, <3>3, <3>4 DEF RrcSide!PortSteps, IcapAckNow
    <3> QED
      BY <2>1, <2>2, <3>5
  <2> QED
    BY <2>3, <2>4
<1>6. CASE Refresh
  BY <1>6 DEF Refresh, RefreshContext, rrcSignals
<1>7. CASE UNCHANGED vars
  BY <1>7 DEF vars, rrcVars, rrcSignals, storedSignals, processVars
<1> QED
  BY <1>1, <1>2, <1>5, <1>6, <1>7, <1>3, <1>4 DEF Next, RrcTurn, RrcTurnStep

\* The controllers keep the promises the PRC and the ICAP are checked against:
\* an acknowledgement is up only under a request (prrLevelController.cpp:118-135,
\* 245-291).
THEOREM RrcImplementsPort == Spec => ImplementsRrcPort
<1>1. BenchInit => RrcSide!PortInit
  BY DEF BenchInit, RrcInit, RrcSignalsInit, Off, RrcSide!PortInit
<1> QED
  BY <1>1, InitTyped, NextTyped, NextIsPortTurn, PTL
  DEF Spec, ImplementsRrcPort, RrcSide!Spec

----------------------------------------------------------------------------
\* An object stays in its own region.
ResidentInOwnRegion == \A rr \in RrIds : resident[rr].region_id = rr

\* A bitstream is recorded as installed only if the region holds one.
InstalledOnlyIfResident ==
  \A rr \in RrIds : installed_bs[rr] \in Bitstreams => resident[rr] \in Bitstreams

\* The module of an installed bitstream runs from its installation on, stays
\* marked as executing, and has been stepped by the time it is idle.
ResidentHasRun ==
  \A rr \in RrIds : resident[rr] \in Bitstreams =>
    /\ ResidentModule(rr).executing
    /\ \/ ResidentModule(rr).state = "EXEC"
       \/ ResidentModule(rr).state = "IDLE" /\ ResidentModule(rr).in_simulation

BooksRight ==
  /\ Typed
  /\ ExecutingTruthful /\ ReceivesOverPlaceholder /\ InstalledIsResident
  /\ ResidentInOwnRegion /\ InstalledOnlyIfResident /\ ResidentHasRun

----------------------------------------------------------------------------
\* What holds of the signals around them while the process runs.

\* What the context stored last is still what the PRC and the ICAP show.
StoredInStep ==
  /\ phase = "prc" => /\ stored_prc_icap_req = prc_icap_req
                      /\ stored_prc_start_prr = prc_start_prr
  /\ phase \in {"prc", "icap"} => /\ stored_icap_prr_ctrl_req = icap_prr_ctrl_req
                                  /\ stored_icap_transfer = icap_transfer

\* The PRC keeps the bitstream of a request until the ICAP has taken it over.
HeldForTheIcap ==
  /\ prc_icap_req <=> prc_at = "requesting"
  /\ prc_icap_req => scheduled_bs \in Bitstreams
  /\ phase = "icap" /\ stored_prc_icap_req => prc_at # "choosing" /\ scheduled_bs \in Bitstreams
  /\ icap_at = "granting" =>
       scheduled_bs \in Bitstreams /\ (phase # "icap" => prc_at # "choosing")

\* A start signal is for the region of the PRC's bitstream.
StartsForOwnBitstream ==
  \A rr \in RrIds : prc_start_prr[rr] \/ stored_prc_start_prr[rr] =>
    scheduled_bs # NoBs /\ scheduled_bs.region_id = rr

\* The transfer under way.
UnderWay == icap_at \in {"requesting", "transferring"} /\ transfer_bs \in Bitstreams

TransferReported ==
  /\ icap_transfer => UnderWay
  /\ icap_at \in {"requesting", "transferring"} => icap_transfer

\* A controller sees a request only for the transfer under way.
RequestsItsTransfer ==
  \A rr \in RrIds :
    /\ icap_prr_ctrl_req[rr] => icap_at = "requesting" /\ transfer_bs.region_id = rr
    /\ phase \in {"rrc", "refresh"} /\ stored_icap_prr_ctrl_req[rr] =>
         UnderWay /\ transfer_bs.region_id = rr

\* The ICAP's bitstream is the accepted one until the controller has installed
\* it: the end of a transfer is seen a cycle later, and by then the ICAP has at
\* most granted the next request.
NotOvertaken ==
  \A rr \in RrIds : rrc_state[rr] = "TRANSFER" =>
    /\ icap_transfer_bs[rr] = transfer_bs
    /\ \/ UnderWay
       \/ phase \in {"rrc", "refresh"} /\ icap_at = "free" /\ stored_icap_transfer
       \/ phase \in {"prc", "icap"} /\ icap_at = "free"
       \/ phase = "rrc" /\ ~stored_icap_transfer /\ rr >= next_rrc

LoopFromZero == phase # "rrc" => next_rrc = 0

Timely ==
  /\ StoredInStep /\ HeldForTheIcap /\ StartsForOwnBitstream
  /\ TransferReported /\ RequestsItsTransfer /\ NotOvertaken /\ LoopFromZero

\* The inductive invariant.
IInv == BooksRight /\ (Running => Timely)

----------------------------------------------------------------------------
\* Objects.

LEMMA ObjectFacts ==
  ASSUME NEW rr \in RrIds
  PROVE  /\ Placeholder(rr) \notin Bitstreams
         /\ \A obj \in Objects :
              obj.region_id = rr /\ obj \notin Bitstreams => obj = Placeholder(rr)
<1>1. Placeholder(rr) \notin Bitstreams
  BY BitstreamsAssumption DEF Placeholder, BitstreamId, NoId
<1> QED
  BY <1>1 DEF Objects, Placeholders, Placeholder

\* The module of a resident bitstream refuses a speed from the step on in which
\* it is found idle.
LEMMA IdleHasRun ==
  ASSUME Typed, ResidentHasRun, NEW rr \in RrIds, resident[rr] \in Bitstreams,
         ModuleNow(rr).state = "IDLE"
  PROVE  ~SpeedCanBeSet(ModuleNow(rr))
<1>1. resident[rr] \in Objects /\ rr_module \in [Objects -> ModuleType]
  BY DEF Typed, TypeOK, RrcTypeOK
<1>2. CASE Stepping(rr)
  <2>1. ModuleNow(rr) = StepModule(ResidentModule(rr))
    BY <1>1, <1>2 DEF ModuleNow, ModulesNow, ResidentModule
  <2>2. StepModule(ResidentModule(rr)).in_simulation
    BY <1>1 DEF StepModule, ResidentModule, ModuleType
  <2> QED
    BY <2>1, <2>2 DEF SpeedCanBeSet
<1>3. CASE ~Stepping(rr)
  BY <1>3 DEF ModuleNow, ModulesNow, ResidentModule, Stepping, ResidentHasRun, SpeedCanBeSet
<1> QED
  BY <1>2, <1>3

\* The effect of the common part on the module of the region.
LEMMA ModuleNowFacts ==
  ASSUME Typed, NEW rr \in RrIds
  PROVE  /\ ModulesNow(rr) \in [Objects -> ModuleType]
         /\ \A obj \in Objects : obj # resident[rr] => ModulesNow(rr)[obj] = rr_module[obj]
         /\ ModuleNow(rr).executing = ResidentModule(rr).executing
         /\ Stepping(rr) => \/ FinishesOnStep(ResidentModule(rr)) /\ ModuleNow(rr).state = "IDLE"
                            \/ ~FinishesOnStep(ResidentModule(rr)) /\ ModuleNow(rr).state = "EXEC"
         /\ Stepping(rr) => ModuleNow(rr).in_simulation
         /\ ~Stepping(rr) => ModuleNow(rr) = ResidentModule(rr)
<1>1. resident[rr] \in Objects /\ rr_module \in [Objects -> ModuleType]
  BY DEF Typed, TypeOK, RrcTypeOK
<1>2. ModulesNow(rr) \in [Objects -> ModuleType]
  BY TypedParts, CommonPartTyped
<1>3. ResidentModule(rr) \in ModuleType
  BY <1>1 DEF ResidentModule
<1>4. CASE Stepping(rr)
  <2>1. /\ ModuleNow(rr) = StepModule(ResidentModule(rr))
        /\ \A obj \in Objects : obj # resident[rr] => ModulesNow(rr)[obj] = rr_module[obj]
    BY <1>1, <1>4 DEF ModuleNow, ModulesNow, ResidentModule
  <2>2. ResidentModule(rr).state = "EXEC"
    BY <1>4 DEF Stepping
  <2> QED
    BY <1>2, <1>3, <1>4, <2>1, <2>2 DEF StepModule, ModuleType
<1>5. CASE ~Stepping(rr)
  BY <1>2, <1>5 DEF ModuleNow, ModulesNow, ResidentModule
<1> QED
  BY <1>4, <1>5

----------------------------------------------------------------------------
\* What a controller's step does while the books are right and the signals are
\* timely: it serves, it accepts a transfer, or it installs one.

Accepted(rr) ==
  /\ resident[rr] = Placeholder(rr)
  /\ transfer_bs \in Bitstreams /\ transfer_bs.region_id = rr /\ UnderWay
  /\ rrc_state' = [rrc_state EXCEPT ![rr] = "TRANSFER"]
  /\ icap_transfer_bs' = [icap_transfer_bs EXCEPT ![rr] = transfer_bs]
  /\ prr_executing' = [prr_executing EXCEPT ![rr] = ExecutingNow(rr)]
  /\ rr_module' = [ModulesNow(rr) EXCEPT ![resident[rr]] = BeginTransfer(@)]
  /\ UNCHANGED <<status, installed_bs, resident>>

Installed(rr) ==
  /\ rrc_state[rr] = "TRANSFER"
  /\ \E latency \in Nat :
       rr_module' = [ModulesNow(rr) EXCEPT ![transfer_bs] = BeginExecution(@, latency)]
  /\ transfer_bs \in Bitstreams /\ transfer_bs.region_id = rr
  /\ resident' = [resident EXCEPT ![rr] = transfer_bs]
  /\ installed_bs' = [installed_bs EXCEPT ![rr] = transfer_bs]
  /\ prr_executing' = [prr_executing EXCEPT ![rr] = TRUE]
  /\ rrc_state' = [rrc_state EXCEPT ![rr] = "IDLE"]
  /\ UNCHANGED icap_transfer_bs

LEMMA StartsNothing ==
  ASSUME HandlesLive, BooksRight, Timely, NEW rr \in RrIds, Running'
  PROVE  ~RrcRunQueued(rr) /\ ~RrcStart(rr)
<1>1. ASSUME ModuleNow(rr).state = "IDLE", NEW type,
             StartFault(installed_bs[rr], type, ModuleNow(rr)) = "running"
      PROVE  FALSE
  <2>1. installed_bs[rr] \in Bitstreams /\ SpeedCanBeSet(ModuleNow(rr))
    BY <1>1, StartableHasLatency
  <2>2. resident[rr] \in Bitstreams
    BY <2>1 DEF BooksRight, InstalledOnlyIfResident
  <2> QED
    BY <1>1, <2>1, <2>2, IdleHasRun DEF BooksRight
<1>2. ~RrcRunQueued(rr)
  BY <1>1 DEF RrcRunQueued, Running
<1>3. ASSUME RrcStart(rr) PROVE FALSE
  <2>1. stored_prc_start_prr[rr] /\ ModuleNow(rr).state = "IDLE"
    BY <1>3 DEF RrcStart
  <2>2. PrcScheduledBitstream.region_id = rr
    BY <2>1 DEF PrcScheduledBitstream, Timely, StartsForOwnBitstream
  <2>3. ModulesNow(rr)[resident[PrcScheduledBitstream.region_id]] = ModuleNow(rr)
    BY <2>2 DEF ModuleNow
  <2>4. StartFault(installed_bs[rr], prev_task_type[rr], ModuleNow(rr)) = "running"
    BY <1>3, <2>3 DEF RrcStart, RrcFault, Running
  <2> QED
    BY <1>1, <2>1, <2>4
<1> QED
  BY <1>2, <1>3

LEMMA AcceptsOverPlaceholder ==
  ASSUME HandlesLive, BooksRight, Timely, phase = "rrc", NEW rr \in RrIds, RrcAccept(rr)
  PROVE  Accepted(rr)
<1>1. UnderWay /\ transfer_bs.region_id = rr /\ transfer_bs \in Bitstreams
  BY DEF RrcAccept, Requested, Timely, RequestsItsTransfer, UnderWay
<1>2. IcapTransferBitstream = transfer_bs /\ Target(transfer_bs) = resident[rr]
  BY <1>1 DEF IcapTransferBitstream, Target
<1>3. ~ModuleNow(rr).executing
  BY <1>2 DEF RrcAccept, IsRunning, ModuleNow
<1>4. resident[rr] \notin Bitstreams
  BY <1>3, ModuleNowFacts DEF BooksRight, ResidentHasRun
<1>5. resident[rr] = Placeholder(rr)
  BY <1>4, ObjectFacts DEF BooksRight, ResidentInOwnRegion, Typed, TypeOK, RrcTypeOK
<1> QED
  BY <1>1, <1>2, <1>5 DEF RrcAccept, Accepted

LEMMA InstallsItsTransfer ==
  ASSUME HandlesLive, BooksRight, Timely, NEW rr \in RrIds, Running', RrcInstall(rr)
  PROVE  Installed(rr)
<1>1. rrc_state[rr] = "TRANSFER"
  BY DEF RrcInstall, InState
<1>2. /\ icap_transfer_bs[rr] = transfer_bs /\ IcapTransferBitstream = transfer_bs
      /\ transfer_bs \in Bitstreams /\ transfer_bs.region_id = rr
  BY <1>1 DEF BooksRight, ReceivesOverPlaceholder, Timely, NotOvertaken, IcapTransferBitstream
<1>3. StartFault(transfer_bs, prev_task_type[rr], ModulesNow(rr)[transfer_bs]) = "running"
  BY <1>2 DEF RrcInstall, InstallFault, Running
<1>4. Tasks[transfer_bs][prev_task_type[rr]].latency \in Nat
  BY <1>3, StartableHasLatency
<1>5. rr_module' = [ModulesNow(rr) EXCEPT ![transfer_bs] =
                      BeginExecution(@, Tasks[transfer_bs][prev_task_type[rr]].latency)]
  BY <1>2 DEF RrcInstall, Running
<1> QED
  BY <1>1, <1>2, <1>4, <1>5 DEF RrcInstall, Installed, Running

LEMMA StepEffect ==
  ASSUME HandlesLive, BooksRight, Timely, Running, phase = "rrc",
         NEW rr \in RrIds, RrcStep(rr)
  PROVE  \/ Faulted
         \/ ~CannotEnqueue(rr) /\ OnlyServed(rr)
         \/ Accepted(rr)
         \/ Running' /\ Installed(rr)
  BY StepOutcomes, StartsNothing, AcceptsOverPlaceholder, InstallsItsTransfer

----------------------------------------------------------------------------
\* A controller's step keeps the books right.

RegionBooks(rr) ==
  /\ prr_executing[rr] <=> resident[rr] \in Bitstreams /\ ResidentModule(rr).state = "EXEC"
  /\ rrc_state[rr] = "TRANSFER" =>
       /\ resident[rr] = Placeholder(rr)
       /\ ResidentModule(rr).state = "TRANSFER"
       /\ icap_transfer_bs[rr] \in Bitstreams /\ icap_transfer_bs[rr].region_id = rr
  /\ resident[rr] \in Bitstreams => installed_bs[rr] = resident[rr]
  /\ resident[rr].region_id = rr
  /\ installed_bs[rr] \in Bitstreams => resident[rr] \in Bitstreams
  /\ resident[rr] \in Bitstreams =>
       /\ ResidentModule(rr).executing
       /\ \/ ResidentModule(rr).state = "EXEC"
          \/ ResidentModule(rr).state = "IDLE" /\ ResidentModule(rr).in_simulation

LEMMA BooksByRegion == BooksRight <=> Typed /\ \A rr \in RrIds : RegionBooks(rr)
  BY DEF BooksRight, RegionBooks, ExecutingTruthful, ReceivesOverPlaceholder, InstalledIsResident,
         ResidentInOwnRegion, InstalledOnlyIfResident, ResidentHasRun

LEMMA BooksByRegionAfter == Typed' /\ (\A rr \in RrIds : RegionBooks(rr)') => BooksRight'
  BY DEF BooksRight, RegionBooks, ExecutingTruthful, ReceivesOverPlaceholder, InstalledIsResident,
         ResidentInOwnRegion, InstalledOnlyIfResident, ResidentHasRun

\* The regions share no object, so that a step leaves the others' books alone.
OthersKept(rr) ==
  \A other \in RrIds \ {rr} :
    /\ prr_executing'[other] = prr_executing[other]
    /\ rrc_state'[other] = rrc_state[other]
    /\ icap_transfer_bs'[other] = icap_transfer_bs[other]
    /\ installed_bs'[other] = installed_bs[other]
    /\ resident'[other] = resident[other]
    /\ \A obj \in Objects : obj.region_id # rr => rr_module'[obj] = rr_module[obj]

LEMMA OthersBooksRight ==
  ASSUME BooksRight, NEW rr \in RrIds, OthersKept(rr), NEW other \in RrIds \ {rr}
  PROVE  RegionBooks(other)'
<1>1. RegionBooks(other) /\ resident[other] \in Objects /\ resident[other].region_id # rr
  BY BooksByRegion DEF RegionBooks, Typed, TypeOK, RrcTypeOK
<1>2. ResidentModule(other)' = ResidentModule(other)
  BY <1>1 DEF OthersKept, ResidentModule
<1> QED
  BY <1>1, <1>2 DEF OthersKept, RegionBooks

LEMMA OtherModulesKept ==
  ASSUME BooksRight, NEW rr \in RrIds, NEW obj \in Objects, obj.region_id # rr
  PROVE  ModulesNow(rr)[obj] = rr_module[obj]
  BY ModuleNowFacts DEF BooksRight, ResidentInOwnRegion

\* The types that the arrays' updates need.
LEMMA ArrayTypes ==
  ASSUME BooksRight, NEW rr \in RrIds
  PROVE  /\ prr_executing \in [RrIds -> BOOLEAN]
         /\ rrc_state \in [RrIds -> RrcStates]
         /\ icap_transfer_bs \in [RrIds -> Bitstreams \cup {NoBs, DefaultBs}]
         /\ installed_bs \in [RrIds -> Bitstreams \cup {NoBs, DefaultBs}]
         /\ resident \in [RrIds -> Objects]
         /\ ModulesNow(rr) \in [Objects -> ModuleType]
  BY ModuleNowFacts DEF BooksRight, Typed, TypeOK, SignalsTypeOK, RrcTypeOK, BusType

LEMMA ServedKeepsBooks ==
  ASSUME BooksRight, NEW rr \in RrIds, OnlyServed(rr), Typed'
  PROVE  BooksRight'
<1>1. RegionBooks(rr)
  BY BooksByRegion
<1>2. OthersKept(rr)
  BY ArrayTypes, OtherModulesKept DEF OnlyServed, Unaltered, OthersKept
<1>3. /\ resident' = resident /\ installed_bs' = installed_bs
      /\ prr_executing'[rr] = ExecutingNow(rr)
      /\ ResidentModule(rr)' = ModuleNow(rr)
  BY ArrayTypes DEF OnlyServed, Unaltered, ResidentModule, ModuleNow
<1>4. rrc_state'[rr] = "TRANSFER" =>
        rrc_state[rr] = "TRANSFER" /\ icap_transfer_bs' = icap_transfer_bs
  BY ArrayTypes DEF OnlyServed
<1>5. ModuleNow(rr).executing = ResidentModule(rr).executing
  BY ModuleNowFacts DEF BooksRight
<1>6. RegionBooks(rr)'
  <2>1. CASE Stepping(rr)
    <3>1. /\ ResidentModule(rr).state = "EXEC" /\ ModuleNow(rr).in_simulation
          /\ \/ FinishesOnStep(ResidentModule(rr)) /\ ModuleNow(rr).state = "IDLE"
             \/ ~FinishesOnStep(ResidentModule(rr)) /\ ModuleNow(rr).state = "EXEC"
      BY <2>1, ModuleNowFacts DEF BooksRight, Stepping
    <3>2. rrc_state'[rr] # "TRANSFER"
      BY <1>1, <1>4, <3>1 DEF RegionBooks
    <3> QED
      BY <1>1, <1>3, <1>5, <2>1, <3>1, <3>2 DEF RegionBooks, ExecutingNow
  <2>2. CASE ~Stepping(rr)
    <3>1. ModuleNow(rr) = ResidentModule(rr)
      BY <2>2, ModuleNowFacts DEF BooksRight
    <3> QED
      BY <1>1, <1>3, <1>4, <2>2, <3>1 DEF RegionBooks, ExecutingNow
  <2> QED
    BY <2>1, <2>2
<1> QED
  BY <1>2, <1>6, OthersBooksRight, BooksByRegionAfter

LEMMA AcceptedKeepsBooks ==
  ASSUME BooksRight, NEW rr \in RrIds, Accepted(rr), Typed'
  PROVE  BooksRight'
<1>1. RegionBooks(rr) /\ resident[rr] \notin Bitstreams /\ resident[rr] = Placeholder(rr)
  BY BooksByRegion, ObjectFacts DEF Accepted
<1>2. OthersKept(rr)
  BY <1>1, ArrayTypes, OtherModulesKept DEF Accepted, OthersKept, RegionBooks
<1>3. ResidentModule(rr)' = BeginTransfer(ModuleNow(rr)) /\ ModuleNow(rr) \in ModuleType
  BY ArrayTypes DEF Accepted, ResidentModule, ModuleNow
<1>4. ResidentModule(rr)'.state = "TRANSFER"
  BY <1>3 DEF BeginTransfer, ModuleType
<1>5. ~prr_executing'[rr]
  BY <1>1, ArrayTypes DEF Accepted, ExecutingNow, RegionBooks
<1>6. RegionBooks(rr)'
  BY <1>1, <1>4, <1>5, ArrayTypes DEF Accepted, RegionBooks
<1> QED
  BY <1>2, <1>6, OthersBooksRight, BooksByRegionAfter

LEMMA InstalledKeepsBooks ==
  ASSUME BooksRight, NEW rr \in RrIds, Installed(rr), Typed'
  PROVE  BooksRight'
<1>1. PICK latency \in Nat :
        rr_module' = [ModulesNow(rr) EXCEPT ![transfer_bs] = BeginExecution(@, latency)]
  BY DEF Installed
<1>2. transfer_bs \in Objects /\ transfer_bs \in Bitstreams /\ transfer_bs.region_id = rr
  BY DEF Installed, Objects
<1>3. OthersKept(rr)
  BY <1>1, <1>2, ArrayTypes, OtherModulesKept DEF Installed, OthersKept
<1>4. /\ resident'[rr] = transfer_bs /\ installed_bs'[rr] = transfer_bs
      /\ prr_executing'[rr] = TRUE /\ rrc_state'[rr] = "IDLE"
  BY ArrayTypes DEF Installed
<1>5. /\ ResidentModule(rr)' = BeginExecution(ModulesNow(rr)[transfer_bs], latency)
      /\ ModulesNow(rr)[transfer_bs] \in ModuleType
  BY <1>1, <1>2, <1>4, ArrayTypes DEF ResidentModule
<1>6. ResidentModule(rr)'.state = "EXEC" /\ ResidentModule(rr)'.executing
  BY <1>5 DEF BeginExecution, ModuleType
<1>7. RegionBooks(rr)'
  BY <1>2, <1>4, <1>6 DEF RegionBooks
<1> QED
  BY <1>3, <1>7, OthersBooksRight, BooksByRegionAfter

----------------------------------------------------------------------------
\* The inductive invariant, turn by turn.

LEMMA InitIInv == BenchInit => IInv
<1> SUFFICES ASSUME BenchInit PROVE IInv
  OBVIOUS
<1> USE DEF BenchInit
<1>1. \A rr \in RrIds : /\ resident[rr] = Placeholder(rr) /\ Placeholder(rr) \notin Bitstreams
                        /\ Placeholder(rr).region_id = rr
  BY ObjectFacts DEF RrcInit, Placeholder
<1>2. NoBs \notin Bitstreams
  BY NoBsAssumption, BitstreamsAssumption
<1>3. \A rr \in RrIds : RegionBooks(rr)
  BY <1>1, <1>2 DEF RrcInit, RrcSignalsInit, Off, RegionBooks
<1>4. Timely
  BY DEF Timely, StoredInStep, HeldForTheIcap, StartsForOwnBitstream, TransferReported,
         RequestsItsTransfer, NotOvertaken, LoopFromZero, UnderWay, Off,
         ProcessInit, PrcSignalsInit, IcapSignalsInit, StoredSignalsInit, RrcInit,
         PrcSide!PortInit, IcapSide!PortInit
<1> QED
  BY <1>3, <1>4, InitTyped, BooksByRegion DEF IInv

\* Whoever leaves the controllers' variables alone keeps their books right.
LEMMA ElsewhereBooks ==
  ASSUME BooksRight, Typed', UNCHANGED rrcVars
  PROVE  BooksRight'
<1>1. \A rr \in RrIds : RegionBooks(rr)'
  BY BooksByRegion DEF RegionBooks, ResidentModule, rrcVars, rrcSignals
<1> QED
  BY <1>1, BooksByRegionAfter

LEMMA PrcTurnTimely ==
  ASSUME IInv, PrcTurn
  PROVE  Timely'
<1> USE DEF Timely, IInv
<1>1. Running /\ phase = "prc" /\ phase' = "icap"
      /\ UNCHANGED <<rrcVars, next_rrc, icapSignals, storedSignals, icap_at>>
  BY DEF PrcTurn
<1>2. StoredInStep'
  BY <1>1 DEF StoredInStep, icapSignals, storedSignals
<1>3. HeldForTheIcap'
  BY <1>1 DEF StoredInStep, HeldForTheIcap, icapSignals, storedSignals, PrcTurn,
         PrcSide!PortStep, PrcSide!Proceed, PrcSide!ChooseNothing, PrcSide!Request,
         PrcSide!Hold, PrcSide!Release, PrcSide!prcPortVars
<1>4. StartsForOwnBitstream'
  <2> SUFFICES ASSUME NEW rr \in RrIds, (prc_start_prr[rr] \/ stored_prc_start_prr[rr])'
               PROVE  (scheduled_bs # NoBs /\ scheduled_bs.region_id = rr)'
    BY DEF StartsForOwnBitstream
  <2>1. CASE prc_start_prr'[rr]
    BY <2>1 DEF PrcTurn, StartsOwnBitstream
  <2>2. CASE stored_prc_start_prr'[rr]
    <3>1. prc_start_prr[rr] /\ stored_prc_start_prr[rr]
      BY <1>1, <2>2 DEF StoredInStep, storedSignals
    <3>2. prc_start_prr # Off
      BY <3>1 DEF Off
    <3> QED
      BY <1>1, <3>1, <3>2 DEF PrcTurn, StartsOwnBitstream, StartsForOwnBitstream
  <2> QED
    BY <2>1, <2>2
<1>5. UnderWay' <=> UnderWay
  BY <1>1 DEF UnderWay, icapSignals
<1>6. TransferReported' /\ RequestsItsTransfer'
  BY <1>1, <1>5 DEF TransferReported, RequestsItsTransfer, icapSignals, storedSignals
<1>7. NotOvertaken'
  BY <1>1, <1>5 DEF NotOvertaken, icapSignals, storedSignals, rrcVars
<1>8. LoopFromZero'
  BY <1>1 DEF LoopFromZero
<1> QED
  BY <1>2, <1>3, <1>4, <1>6, <1>7, <1>8

LEMMA IcapTurnTimely ==
  ASSUME HandlesLive, IInv, IcapTurn
  PROVE  Timely'
<1> USE DEF Timely, IInv
<1>1. Running /\ phase = "icap" /\ phase' = "rrc" /\ next_rrc = 0
      /\ UNCHANGED <<rrcVars, next_rrc, prcSignals, storedSignals, prc_at>>
  BY DEF IcapTurn, LoopFromZero
<1>2. StoredInStep' /\ LoopFromZero'
  BY <1>1 DEF StoredInStep, LoopFromZero
<1>3. PrcScheduledBitstream = scheduled_bs
  BY DEF PrcScheduledBitstream
<1>4. StartsForOwnBitstream'
  BY <1>1 DEF StartsForOwnBitstream, prcSignals, storedSignals
<1>5. IcapSide!PortStep
  BY DEF IcapTurn
<1>6. /\ icap_at = "granting" => scheduled_bs \in Bitstreams
      /\ stored_prc_icap_req => prc_at # "choosing" /\ scheduled_bs \in Bitstreams
  BY <1>1 DEF HeldForTheIcap
<1>7. /\ stored_icap_transfer' = icap_transfer
      /\ \A rr \in RrIds : stored_icap_prr_ctrl_req'[rr] = icap_prr_ctrl_req[rr]
  BY <1>1 DEF StoredInStep, storedSignals
<1>8. /\ phase' # "icap" /\ phase' # "prc" /\ phase' = "rrc"
  BY <1>1
<1> USE DEF IcapSide!icapPortVars
<1>9. CASE IcapSide!Wait
  <2>1. HeldForTheIcap'
    BY <1>1, <1>6, <1>9 DEF HeldForTheIcap, IcapSide!Wait, prcSignals
  <2>2. TransferReported' /\ RequestsItsTransfer' /\ NotOvertaken'
    BY <1>1, <1>7, <1>9, RrCountAssumption
    DEF TransferReported, RequestsItsTransfer, NotOvertaken, UnderWay,
        IcapSide!Wait, rrcVars, RrIds
  <2> QED
    BY <1>2, <1>4, <2>1, <2>2
<1>10. CASE IcapSide!Grant \/ IcapSide!GetStuck
  <2>1. HeldForTheIcap'
    BY <1>1, <1>6, <1>10 DEF HeldForTheIcap, IcapSide!Grant, IcapSide!GetStuck, prcSignals
  <2>2. TransferReported' /\ RequestsItsTransfer' /\ NotOvertaken'
    BY <1>1, <1>7, <1>10, RrCountAssumption
    DEF TransferReported, RequestsItsTransfer, NotOvertaken, UnderWay,
        IcapSide!Grant, IcapSide!GetStuck, rrcVars, RrIds
  <2> QED
    BY <1>2, <1>4, <2>1, <2>2
<1>11. CASE IcapSide!TakeOver
  <2>1. HeldForTheIcap'
    BY <1>1, <1>11 DEF HeldForTheIcap, IcapSide!TakeOver, prcSignals
  <2>2. transfer_bs' = scheduled_bs /\ scheduled_bs \in Bitstreams /\ icap_at' = "requesting"
        /\ icap_transfer' = TRUE /\ icap_at = "granting"
        /\ icap_prr_ctrl_req' = [rr \in RrIds |-> rr = scheduled_bs.region_id]
    BY <1>3, <1>6, <1>11 DEF IcapSide!TakeOver
  <2>3. TransferReported' /\ RequestsItsTransfer'
    BY <1>1, <1>7, <2>2 DEF TransferReported, RequestsItsTransfer, UnderWay
  <2>4. NotOvertaken'
    BY <1>1, <2>2 DEF NotOvertaken, UnderWay, rrcVars
  <2> QED
    BY <1>2, <1>4, <2>1, <2>3, <2>4
<1>12. CASE IcapSide!BeginTransfer
  <2>1. HeldForTheIcap'
    BY <1>1, <1>12 DEF HeldForTheIcap, IcapSide!BeginTransfer, prcSignals
  <2>2. TransferReported' /\ RequestsItsTransfer' /\ NotOvertaken'
    BY <1>1, <1>7, <1>12 DEF TransferReported, RequestsItsTransfer, NotOvertaken, UnderWay,
                                     IcapSide!BeginTransfer, rrcVars
  <2> QED
    BY <1>2, <1>4, <2>1, <2>2
<1>13. CASE IcapSide!EndTransfer
  <2>1. HeldForTheIcap'
    BY <1>1, <1>13 DEF HeldForTheIcap, IcapSide!EndTransfer, prcSignals
  <2>2. TransferReported' /\ RequestsItsTransfer' /\ NotOvertaken'
    BY <1>1, <1>7, <1>13 DEF TransferReported, RequestsItsTransfer, NotOvertaken, UnderWay,
                                     IcapSide!EndTransfer, rrcVars
  <2> QED
    BY <1>2, <1>4, <2>1, <2>2
<1> QED
  BY <1>5, <1>9, <1>10, <1>11, <1>12, <1>13 DEF IcapSide!PortStep

LEMMA RrcTurnKeepsIInv ==
  ASSUME HandlesLive, IInv, Typed', RrcTurn
  PROVE  IInv'
<1> DEFINE rr == next_rrc
<1>1. CASE RrIds = {} /\ UNCHANGED <<status, rrcVars>>
  <2>1. rr = 0
    BY <1>1 DEF IInv, BooksRight, Typed, TypeOK, RrcTypeOK
  <2>2. ~(0 < RrCount)
    <3>1. 0 \notin RrIds
      BY <1>1
    <3> QED
      BY <3>1, RrCountAssumption DEF RrIds
  <2>3. ~(rr + 1 < RrCount)
    BY <2>1, <2>2, RrCountAssumption
  <2>4. /\ Running /\ phase = "rrc" /\ phase' = "refresh" /\ next_rrc' = 0
        /\ UNCHANGED <<prcSignals, icapSignals, storedSignals, prc_at, icap_at>>
    BY <2>3 DEF RrcTurn, RrcTurnStep
  <2>5. BooksRight' /\ Timely
    BY <1>1, ElsewhereBooks DEF IInv, RrcTurn
  <2>6. StoredInStep' /\ LoopFromZero'
    BY <2>4 DEF StoredInStep, LoopFromZero
  <2>7. HeldForTheIcap' /\ TransferReported'
    BY <2>4, <2>5 DEF Timely, HeldForTheIcap, TransferReported, UnderWay,
                      prcSignals, icapSignals, storedSignals
  <2>8. StartsForOwnBitstream' /\ RequestsItsTransfer' /\ NotOvertaken'
    BY <1>1 DEF StartsForOwnBitstream, RequestsItsTransfer, NotOvertaken
  <2>9. Timely'
    BY <2>6, <2>7, <2>8 DEF Timely
  <2> QED
    BY <2>5, <2>9 DEF IInv
<1> SUFFICES ASSUME rr \in RrIds, RrcStep(rr) PROVE IInv'
  BY <1>1 DEF RrcTurn, RrcTurnStep
<1>2. rr \in RrIds /\ RrcStep(rr) /\ Running /\ phase = "rrc" /\ BooksRight /\ Timely
  BY DEF RrcTurn, RrcTurnStep, IInv
<1>3. /\ phase' \in {"rrc", "refresh"}
      /\ phase' = "rrc" => next_rrc' = rr + 1
      /\ phase' # "rrc" => next_rrc' = 0
      /\ UNCHANGED <<prcSignals, icapSignals, storedSignals, prc_at, icap_at>>
  BY RrCountAssumption DEF RrcTurn, RrcTurnStep
<1>4. CASE Faulted
  BY <1>2, <1>4, ElsewhereBooks DEF Faulted, Faults, Running, IInv
<1>5. CASE OnlyServed(rr) \/ Accepted(rr) \/ Installed(rr)
  <2>1. BooksRight'
    BY <1>2, <1>5, ServedKeepsBooks, AcceptedKeepsBooks, InstalledKeepsBooks
  <2>2. StoredInStep' /\ HeldForTheIcap' /\ StartsForOwnBitstream' /\ LoopFromZero'
    BY <1>2, <1>3 DEF Timely, StoredInStep, HeldForTheIcap, StartsForOwnBitstream, LoopFromZero,
                      prcSignals, icapSignals, storedSignals
  <2>3. UnderWay' <=> UnderWay
    BY <1>3 DEF UnderWay, icapSignals
  <2>4. TransferReported' /\ RequestsItsTransfer'
    BY <1>2, <1>3, <2>3
    DEF Timely, TransferReported, RequestsItsTransfer, icapSignals, storedSignals
  <2>5. ASSUME NEW other \in RrIds, rrc_state'[other] = "TRANSFER"
        PROVE  \/ /\ rrc_state[other] = "TRANSFER"
                  /\ icap_transfer_bs'[other] = icap_transfer_bs[other]
                  /\ other = rr => stored_icap_transfer
               \/ UnderWay /\ icap_transfer_bs'[other] = transfer_bs
    BY <1>2, <1>5, <2>5, ArrayTypes DEF OnlyServed, Unaltered, Accepted, Installed
  <2>6. NotOvertaken'
    <3> SUFFICES ASSUME NEW other \in RrIds, rrc_state'[other] = "TRANSFER"
                 PROVE  (/\ icap_transfer_bs[other] = transfer_bs
                         /\ \/ UnderWay
                            \/ /\ phase \in {"rrc", "refresh"}
                               /\ icap_at = "free" /\ stored_icap_transfer
                            \/ phase \in {"prc", "icap"} /\ icap_at = "free"
                            \/ phase = "rrc" /\ ~stored_icap_transfer /\ other >= next_rrc)'
      BY DEF NotOvertaken
    <3>1. transfer_bs' = transfer_bs /\ icap_at' = icap_at
          /\ stored_icap_transfer' = stored_icap_transfer
      BY <1>3 DEF icapSignals, storedSignals
    <3>2. CASE UnderWay /\ icap_transfer_bs'[other] = transfer_bs
      BY <2>3, <3>1, <3>2
    <3>3. CASE /\ rrc_state[other] = "TRANSFER"
               /\ icap_transfer_bs'[other] = icap_transfer_bs[other]
               /\ other = rr => stored_icap_transfer
      <4>1. /\ icap_transfer_bs[other] = transfer_bs
            /\ \/ UnderWay
               \/ icap_at = "free" /\ stored_icap_transfer
               \/ ~stored_icap_transfer /\ other >= rr
        BY <1>2, <3>3 DEF Timely, NotOvertaken
      <4>2. CASE UnderWay \/ (icap_at = "free" /\ stored_icap_transfer)
        BY <1>3, <2>3, <3>1, <3>3, <4>1, <4>2
      <4>3. CASE ~stored_icap_transfer /\ other >= rr
        <5>1. other # rr /\ rr \in Int /\ other \in Int /\ other <= RrCount - 1 /\ RrCount \in Nat
          BY <1>2, <3>3, <4>3, RrCountAssumption DEF RrIds
        <5>2. phase' = "rrc" /\ other >= rr + 1
          BY <4>3, <5>1 DEF RrcTurn, RrcTurnStep
        <5>3. phase' = "rrc" /\ ~stored_icap_transfer' /\ other >= next_rrc'
          BY <1>3, <3>1, <4>3, <5>2
        <5> QED
          BY <3>1, <3>3, <4>1, <5>3
      <4> QED
        BY <4>1, <4>2, <4>3
    <3> QED
      BY <2>5, <3>2, <3>3
  <2> QED
    BY <2>1, <2>2, <2>4, <2>6 DEF IInv, Timely
<1> QED
  BY <1>2, <1>4, <1>5, StepEffect

LEMMA RefreshTimely ==
  ASSUME IInv, Refresh
  PROVE  Timely'
<1> USE DEF Timely, IInv
<1>1. Running /\ phase = "refresh" /\ phase' = "prc"
      /\ UNCHANGED <<rrc_state, icap_transfer_bs, next_rrc, prcSignals, icapSignals,
                     prc_at, icap_at>>
      /\ RefreshPrcSignals /\ RefreshIcapSignals
  BY DEF Refresh, RefreshContext
<1>2. StoredInStep' /\ LoopFromZero'
  BY <1>1 DEF StoredInStep, LoopFromZero, RefreshPrcSignals, RefreshIcapSignals,
              prcSignals, icapSignals
<1>3. HeldForTheIcap' /\ StartsForOwnBitstream'
  BY <1>1 DEF HeldForTheIcap, StartsForOwnBitstream, RefreshPrcSignals, prcSignals
<1>4. UnderWay' <=> UnderWay
  BY <1>1 DEF UnderWay, icapSignals
<1>5. TransferReported' /\ RequestsItsTransfer'
  BY <1>1, <1>4 DEF TransferReported, RequestsItsTransfer, icapSignals
<1>6. NotOvertaken'
  BY <1>1, <1>4 DEF NotOvertaken, icapSignals
<1> QED
  BY <1>2, <1>3, <1>5, <1>6

LEMMA NextIInv == ASSUME HandlesLive PROVE IInv /\ [Next]_vars => IInv'
<1> SUFFICES ASSUME IInv, [Next]_vars PROVE IInv'
  OBVIOUS
<1>1. Typed' /\ BooksRight
  BY NextTyped DEF IInv, BooksRight
<1>2. CASE PrcTurn
  BY <1>1, <1>2, PrcTurnTimely, ElsewhereBooks DEF PrcTurn, IInv
<1>3. CASE IcapTurn
  BY <1>1, <1>3, IcapTurnTimely, ElsewhereBooks DEF IcapTurn, IInv
<1>4. CASE IcapReadNoBitstream
  BY <1>1, <1>4, ElsewhereBooks DEF IcapReadNoBitstream, IInv, Running
<1>5. CASE RrcTurn
  BY <1>1, <1>5, RrcTurnKeepsIInv
<1>6. CASE Refresh
  BY <1>1, <1>6, RefreshTimely, ElsewhereBooks
  DEF Refresh, RefreshContext, rrcVars, rrcSignals, IInv
<1>7. CASE UNCHANGED vars
  <2>1. Running' <=> Running
    BY <1>7 DEF vars, processVars, Running
  <2>2. BooksRight'
    BY <1>1, <1>7, ElsewhereBooks DEF vars
  <2>3. Timely => Timely'
    BY <1>7 DEF vars, processVars, rrcVars, rrcSignals, prcSignals, icapSignals, storedSignals,
         Timely, StoredInStep, HeldForTheIcap, StartsForOwnBitstream, TransferReported,
         RequestsItsTransfer, NotOvertaken, LoopFromZero, UnderWay
  <2> QED
    BY <2>1, <2>2, <2>3 DEF IInv
<1> QED
  BY <1>2, <1>3, <1>5, <1>6, <1>7, <1>4 DEF Next

----------------------------------------------------------------------------
\* The books while the handles are null: the ICAP cannot take a bitstream over,
\* no controller can take a task or a start, and so all regions stay as they were.

NothingReaches ==
  /\ Typed
  /\ icap_at \in {"free", "granting", "stuck"}
  /\ icap_prr_ctrl_req = Off /\ stored_icap_prr_ctrl_req = Off
  /\ rrc_state \in [RrIds -> {"INIT", "IDLE"}]
  /\ action_queue = [rr \in RrIds |-> <<>>]
  /\ prr_executing = Off
  /\ resident = [rr \in RrIds |-> Placeholder(rr)]

LEMMA InitNothingReaches == BenchInit => NothingReaches
  BY InitTyped DEF BenchInit, RrcInit, RrcSignalsInit, IcapSignalsInit, StoredSignalsInit,
     IcapSide!PortInit, NothingReaches

\* A task that cannot be read ends the step, and the process.
LEMMA FaultsOnNull ==
  ASSUME NEW rr, RrcStep(rr), CannotEnqueue(rr)
  PROVE  Faulted
  BY DEF RrcStep, RrcEnqueueNull, RrcFault, Faulted, Faults, RrcStayIdle, RrcRunQueued, RrcStart,
         RrcReadNoBitstream, RrcAlreadyResident, RrcAccept, RrcRefuse, Requested, InState,
         RrcReceive, RrcInstall

\* A controller's step without a task to take or a request to answer.
LEMMA StepAlone ==
  ASSUME ~HandlesLive, NothingReaches, NEW rr \in RrIds, RrcStep(rr), ~Faulted
  PROVE  /\ Unaltered(rr) /\ QueueNow(rr) = <<>> /\ ExecutingNow(rr) = FALSE
         /\ rrc_state' \in [RrIds -> {"INIT", "IDLE"}]
<1> USE DEF NothingReaches
<1>1. PrcScheduledTask = NoTask
  BY DEF PrcScheduledTask
<1>2. ~CannotEnqueue(rr)
  BY FaultsOnNull
<1>3. QueueNow(rr) = <<>> /\ ~Pending(rr) /\ ExecutingNow(rr) = FALSE
  BY <1>1, <1>2 DEF QueueNow, CannotEnqueue, Pending, ExecutingNow, Off
<1>4. ~RrcEnqueueNull(rr) /\ ~RrcRunQueued(rr)
  BY <1>2, <1>3 DEF RrcEnqueueNull, RrcRunQueued
<1>5. ~RrcStart(rr)
  BY <1>1 DEF RrcStart, RrcFault, Faulted, Faults
<1>6. ~Requested(rr)
  BY DEF Requested, Off
<1>7. ~RrcReceive(rr) /\ ~RrcInstall(rr)
  BY DEF RrcReceive, RrcInstall, InState
<1>8. RrcLeaveInit(rr) \/ RrcStayIdle(rr)
  BY <1>4, <1>5, <1>6, <1>7
     DEF RrcStep, RrcReadNoBitstream, RrcAlreadyResident, RrcAccept, RrcRefuse
<1>9. Unaltered(rr) /\ rrc_state' \in [RrIds -> {"INIT", "IDLE"}]
  BY <1>8 DEF RrcLeaveInit, RrcStayIdle
<1> QED
  BY <1>3, <1>9

LEMMA NextNothingReaches ==
  ASSUME ~HandlesLive PROVE NothingReaches /\ [Next]_vars => NothingReaches'
<1> SUFFICES ASSUME NothingReaches, [Next]_vars PROVE NothingReaches'
  OBVIOUS
<1>1. Typed'
  BY NextTyped DEF NothingReaches
<1> USE DEF NothingReaches
<1>2. CASE PrcTurn
  BY <1>1, <1>2 DEF PrcTurn, rrcVars, rrcSignals, icapSignals, storedSignals
<1>3. CASE IcapTurn
  <2>1. ~(icap_at = "granting" /\ ~stored_prc_icap_req)
    BY <1>3 DEF IcapTurn, TakesOverNull, PrcScheduledBitstream
  <2>2. icap_at' \in {"free", "granting", "stuck"} /\ icap_prr_ctrl_req' = icap_prr_ctrl_req
    BY <1>3, <2>1 DEF IcapTurn, IcapSide!PortStep, IcapSide!Wait, IcapSide!Grant,
       IcapSide!GetStuck, IcapSide!TakeOver, IcapSide!BeginTransfer, IcapSide!EndTransfer,
       IcapSide!icapPortVars
  <2> QED
    BY <1>1, <1>3, <2>2 DEF IcapTurn, rrcVars, rrcSignals, storedSignals
<1>4. CASE IcapReadNoBitstream
  BY <1>1, <1>4 DEF IcapReadNoBitstream, rrcVars, rrcSignals, icapSignals, storedSignals
<1>5. CASE RrcTurn
  <2>1. UNCHANGED <<icapSignals, storedSignals, icap_at>>
    BY <1>5 DEF RrcTurn
  <2>2. CASE Faulted \/ UNCHANGED <<status, rrcVars>>
    BY <1>1, <2>1, <2>2 DEF Faulted, rrcVars, rrcSignals, icapSignals, storedSignals
  <2>3. CASE next_rrc \in RrIds /\ RrcStep(next_rrc) /\ ~Faulted
    <3>1. /\ Unaltered(next_rrc) /\ QueueNow(next_rrc) = <<>> /\ ExecutingNow(next_rrc) = FALSE
          /\ rrc_state' \in [RrIds -> {"INIT", "IDLE"}]
      BY <2>3, StepAlone
    <3>2. action_queue' = action_queue /\ prr_executing' = prr_executing /\ resident' = resident
      BY <2>3, <3>1 DEF Unaltered, Off
    <3> QED
      BY <1>1, <2>1, <3>1, <3>2 DEF icapSignals, storedSignals
  <2> QED
    BY <1>5, <2>2, <2>3 DEF RrcTurn, RrcTurnStep
<1>6. CASE Refresh
  BY <1>1, <1>6 DEF Refresh, RefreshContext, RefreshIcapSignals, rrcSignals, icapSignals
<1>7. CASE UNCHANGED vars
  BY <1>1, <1>7 DEF vars, rrcVars, rrcSignals, icapSignals, storedSignals
<1> QED
  BY <1>2, <1>3, <1>4, <1>5, <1>6, <1>7 DEF Next

----------------------------------------------------------------------------
\* Whatever the handles lead to.
BooksKept == IF HandlesLive THEN IInv ELSE NothingReaches

LEMMA SpecBooksKept == Spec => []BooksKept
<1>1. BenchInit => BooksKept
  BY InitIInv, InitNothingReaches DEF BooksKept
<1>2. BooksKept /\ [Next]_vars => BooksKept'
  BY NextIInv, NextNothingReaches DEF BooksKept
<1> QED
  BY <1>1, <1>2, PTL DEF Spec

----------------------------------------------------------------------------
\* The theorems.

\* PRR_EXE tells the truth about the module in the region
\* (prrLevelController.cpp:124-129, 185, 226, 358).
THEOREM RrcExecutingTruthful == Spec => []ExecutingTruthful
<1>1. BooksKept => ExecutingTruthful
  BY ObjectFacts DEF BooksKept, IInv, BooksRight, NothingReaches, ExecutingTruthful, Off
<1> QED
  BY <1>1, SpecBooksKept, PTL

\* A region receives a bitstream only over its placeholder
\* (prrLevelController.cpp:281-290, 327-359).
THEOREM RrcReceivesOverPlaceholder == Spec => []ReceivesOverPlaceholder
<1>1. BooksKept => ReceivesOverPlaceholder
  BY DEF BooksKept, IInv, BooksRight, NothingReaches, ReceivesOverPlaceholder
<1> QED
  BY <1>1, SpecBooksKept, PTL

\* The record of the installed bitstream and the module in the region agree,
\* although the record is read through the ICAP's pointer when the transfer is
\* over (prrLevelController.cpp:256, 331-345).
THEOREM RrcInstalledIsResident == Spec => []InstalledIsResident
<1>1. BooksKept => InstalledIsResident
  BY ObjectFacts DEF BooksKept, IInv, BooksRight, NothingReaches, InstalledIsResident
<1> QED
  BY <1>1, SpecBooksKept, PTL

\* What a step may change of the modules in the regions.
LEMMA ResidentsChangeOnInstall ==
  ASSUME BooksKept, [Next]_vars, NEW rr \in RrIds
  PROVE  \/ UNCHANGED <<prr_executing[rr], resident[rr]>>
         \/ resident'[rr] = resident[rr] /\ (prr_executing'[rr] => prr_executing[rr])
         \/ resident[rr] \notin Bitstreams /\ resident'[rr] \in Bitstreams
<1>1. CASE ~HandlesLive
  <2>1. NothingReaches /\ NothingReaches'
    BY <1>1, NextNothingReaches DEF BooksKept
  <2> QED
    BY <2>1 DEF NothingReaches
<1>2. CASE HandlesLive /\ RrcTurn /\ next_rrc \in RrIds /\ RrcStep(next_rrc)
  <2>1. next_rrc \in RrIds /\ RrcStep(next_rrc) /\ Running /\ phase = "rrc" /\ BooksRight /\ Timely
    BY <1>2 DEF RrcTurn, RrcTurnStep, BooksKept, IInv
  <2>2. CASE Faulted
    BY <2>2 DEF Faulted, rrcVars, rrcSignals
  <2>3. CASE OnlyServed(next_rrc)
    BY <2>1, <2>3, ArrayTypes DEF OnlyServed, Unaltered, ExecutingNow
  <2>4. CASE Accepted(next_rrc)
    BY <2>1, <2>4, ArrayTypes DEF Accepted, ExecutingNow
  <2>5. CASE Installed(next_rrc)
    <3>1. resident[next_rrc] \notin Bitstreams
      BY <2>1, <2>5, ObjectFacts DEF Installed, BooksRight, ReceivesOverPlaceholder
    <3> QED
      BY <2>1, <2>5, <3>1, ArrayTypes DEF Installed
  <2> QED
    BY <1>2, <2>1, <2>2, <2>3, <2>4, <2>5, StepEffect
<1>3. CASE RrcTurn /\ UNCHANGED <<status, rrcVars>>
  BY <1>3 DEF rrcVars, rrcSignals
<1>4. CASE ~RrcTurn
  BY <1>4 DEF Next, vars, PrcTurn, IcapTurn, IcapReadNoBitstream, Refresh, RefreshContext,
              rrcVars, rrcSignals
<1> QED
  BY <1>1, <1>2, <1>3, <1>4 DEF RrcTurn, RrcTurnStep

\* A region is programmed once per run at most (rrModule.cpp:113-116, 149-151,
\* prrLevelController.cpp:281).
THEOREM RrcProgrammedOnce == Spec => ProgrammedOnce
<1>1. BooksKept /\ [Next]_vars =>
        [\A rr \in RrIds : resident[rr] \in Bitstreams => resident'[rr] = resident[rr]]_vars
  BY ResidentsChangeOnInstall
<1> QED
  BY <1>1, SpecBooksKept, PTL DEF Spec, ProgrammedOnce

\* A module starts executing only as it is installed: no queued task and no
\* start signal ever starts one, whatever the texts say of them
\* (prrLevelController.cpp:169-185, 204-226, rrModule.cpp:77-83, 128-129).
THEOREM RrcStartsOnlyAsInstalled == Spec => StartsOnlyAsInstalled
<1>1. BooksKept /\ [Next]_vars =>
        [\A rr \in RrIds :
           prr_executing'[rr] /\ ~prr_executing[rr] => resident'[rr] # resident[rr]]_vars
  BY ResidentsChangeOnInstall
<1> QED
  BY <1>1, SpecBooksKept, PTL DEF Spec, StartsOnlyAsInstalled

\* With the handles as built, no controller queues a task, accepts a transfer or
\* executes, whatever PRC and ICAP do (signalContext.cpp:41-50,
\* prrLevelController.cpp:84, 206-207, icap.cpp:134).
THEOREM RrcNothingGetsThrough == ASSUME ~HandlesLive PROVE Spec => []NothingGetsThrough
<1>1. BooksKept => NothingGetsThrough
  BY DEF BooksKept, NothingReaches, NothingGetsThrough, Off
<1> QED
  BY <1>1, SpecBooksKept, PTL

----------------------------------------------------------------------------
\* The memory counter.

\* ICAP_MC holds what the PRC's counter holds, or nothing yet.
CounterAsBuilt == {icap_mc, stored_icap_mc} \subseteq {Uninitialised, PrcMc}

\* The inductive invariant: nothing is fetched, so nothing is installed, and
\* without an installed bitstream nothing can be started.
NothingFetched == Typed /\ CounterAsBuilt /\ NothingInstalled

LEMMA InitNothingFetched == BenchInit => NothingFetched
<1> SUFFICES ASSUME BenchInit PROVE NothingFetched
  OBVIOUS
<1>1. CounterAsBuilt
  BY DEF BenchInit, IcapSignalsInit, StoredSignalsInit, CounterAsBuilt
<1>2. NothingInstalled
  BY DEF BenchInit, RrcInit, RrcSignalsInit, Off, NothingInstalled
<1> QED
  BY <1>1, <1>2, InitTyped DEF NothingFetched

LEMMA StepInstallsNothing ==
  ASSUME PrcMc < HierarchyDepth - 1, NothingFetched, Running, NEW rr \in RrIds, RrcStep(rr)
  PROVE  NothingInstalled'
<1>1. NoBs \notin Bitstreams
  BY NoBsAssumption, BitstreamsAssumption
<1>2. \A type, module : StartFault(NoBs, type, module) # "running"
  BY <1>1, StartableHasLatency
<1>3. ~(Running' /\ RrcRunQueued(rr)) /\ ~(Running' /\ RrcStart(rr))
  BY <1>2 DEF RrcRunQueued, RrcStart, RrcFault, Running, NothingFetched, NothingInstalled
<1>4. FetchFault(stored_icap_mc) # "running"
  BY SignalContextAssumption, RrControllerAssumption DEF FetchFault, NothingFetched, CounterAsBuilt
<1>5. ~(Running' /\ RrcInstall(rr))
  BY <1>4 DEF RrcInstall, InstallFault, Running
<1>6. ~ExecutingNow(rr) /\ prr_executing \in [RrIds -> BOOLEAN]
  BY DEF ExecutingNow, NothingFetched, NothingInstalled, Typed, TypeOK, SignalsTypeOK, BusType
<1>7. CASE Faulted
  BY <1>7 DEF Faulted, NothingFetched, NothingInstalled, rrcVars, rrcSignals
<1>8. CASE OnlyServed(rr)
  BY <1>6, <1>8 DEF OnlyServed, Unaltered, NothingFetched, NothingInstalled
<1>9. CASE RrcAccept(rr)
  BY <1>6, <1>9 DEF RrcAccept, NothingFetched, NothingInstalled
<1> QED
  BY <1>3, <1>5, <1>7, <1>8, <1>9, StepOutcomes

LEMMA NextNothingFetched ==
  ASSUME PrcMc < HierarchyDepth - 1 PROVE NothingFetched /\ [Next]_vars => NothingFetched'
<1> SUFFICES ASSUME NothingFetched, [Next]_vars PROVE NothingFetched'
  OBVIOUS
<1>1. Typed'
  BY NextTyped DEF NothingFetched
<1>2. CounterAsBuilt'
  BY DEF NothingFetched, CounterAsBuilt, Next, PrcTurn, IcapTurn, IcapReadNoBitstream, RrcTurn,
         Refresh, RefreshContext, RefreshIcapSignals, vars, icapSignals, storedSignals
<1>3. NothingInstalled'
  <2>1. CASE RrcTurn /\ next_rrc \in RrIds /\ RrcStep(next_rrc)
    BY <2>1, StepInstallsNothing DEF RrcTurn
  <2>2. CASE RrcTurn /\ UNCHANGED <<status, rrcVars>>
    BY <2>2 DEF NothingFetched, NothingInstalled, rrcVars, rrcSignals
  <2>3. CASE ~RrcTurn
    BY <2>3 DEF Next, vars, PrcTurn, IcapTurn, IcapReadNoBitstream, Refresh, RefreshContext,
                rrcVars, rrcSignals, NothingFetched, NothingInstalled
  <2> QED
    BY <2>1, <2>2, <2>3 DEF RrcTurn, RrcTurnStep
<1> QED
  BY <1>1, <1>2, <1>3 DEF NothingFetched

\* While ICAP_MC points above main memory, no transfer is ever installed and no
\* region executes, whatever the handles lead to (prrLevelController.cpp:335-342,
\* icap.cpp:130).
THEOREM RrcNothingInstalled ==
  ASSUME PrcMc < HierarchyDepth - 1 PROVE Spec => []NothingInstalled
<1>1. NothingFetched => NothingInstalled
  BY DEF NothingFetched
<1>2. NothingFetched /\ [Next]_vars => NothingFetched'
  BY NextNothingFetched
<1> QED
  BY <1>1, <1>2, InitNothingFetched, PTL DEF Spec
=============================================================================
