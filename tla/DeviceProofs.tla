---------------------------- MODULE DeviceProofs ----------------------------
(***************************************************************************)
(* For every application, every memory contents at start-up, every stop    *)
(* condition and every wiring of the handles (HandlesLive and              *)
(* TransferBsAtStart are free): the device never starts a transfer and     *)
(* never executes a task.  Without regions, it never asks for one.         *)
(***************************************************************************)
EXTENDS Device, PrcLaws

\* Nobody asks for a region and nobody answers, on either side of the context.
WiresDown ==
  /\ icap_prr_ctrl_req = Off /\ stored_icap_prr_ctrl_req = Off
  /\ prr_icap_ack = Off /\ ~stored_prr_icap_ack
  /\ prc_start_prr = Off /\ stored_prc_start_prr = Off
  /\ prc_enqueue_prr = Off /\ stored_prc_enqueue_prr = Off
  /\ prr_executing = Off /\ stored_prr_executing = Off
  /\ ~stored_icap_prc_ack

\* The ICAP has granted nothing and still has the target it started with.
IcapUngranted ==
  /\ ~icap_prc_ack /\ ~icap_transfer
  /\ icap_state \in {"INIT", "IDLE", "WAIT"}
  /\ transfer_bs = TransferBsAtStart

\* The controllers have nothing to do.
RrcsAtRest ==
  /\ next_rrc \in RrIds \cup {0}
  /\ rrc_state \in [RrIds -> {"INIT", "IDLE"}]
  /\ action_queue = [rr \in RrIds |-> <<>>]
  /\ resident = [rr \in RrIds |-> Placeholder(rr)]

\* The inductive invariant: a grant needs an executing region, a transfer needs
\* a grant, and an executing region needs a transfer.
NothingStarts == WiresDown /\ IcapUngranted /\ RrcsAtRest /\ Ends

----------------------------------------------------------------------------
LEMMA InitNothingStarts == DeviceInit => NothingStarts
<1> SUFFICES ASSUME DeviceInit PROVE NothingStarts
  OBVIOUS
<1>1. WiresDown
  BY DEF DeviceInit, PrcInit, PrcSignalsInit, IcapInit, IcapSignalsInit, RrcInit,
     RrcSignalsInit, StoredSignalsInit, WiresDown
<1>2. IcapUngranted
  BY DEF DeviceInit, IcapInit, IcapSignalsInit, IcapUngranted
<1>3. RrcsAtRest
  BY RrCountAssumption DEF DeviceInit, RrcInit, RrcsAtRest, RrIds
<1>4. Ends
  BY DEF DeviceInit, Ends, Finished
<1> QED
  BY <1>1, <1>2, <1>3, <1>4 DEF NothingStarts

\* The PRC raises neither a start nor an enqueue signal, and drops its request
\* only when it is acknowledged.
LEMMA PrcStepEffect ==
  ASSUME PrcStep
  PROVE  /\ prc_start_prr' = prc_start_prr /\ prc_enqueue_prr' = prc_enqueue_prr
         /\ status' \in {status, "undefined", "user error", "segfault", "unknown state"}
         /\ prc_icap_req /\ ~stored_icap_prc_ack => prc_icap_req'
<1>1. CASE PrcLeaveInit
  BY <1>1 DEF PrcLeaveInit, prcSignals
<1>2. CASE PrcScheduleTask
  BY <1>2 DEF PrcScheduleTask
<1>3. CASE PrcRunOutOfTasks
  BY <1>3 DEF PrcRunOutOfTasks, PrcFault, prcVars, prcSignals
<1>4. CASE PrcReportTask
  BY <1>4 DEF PrcReportTask, PrcFault, prcVars, prcSignals
<1>5. CASE PrcReadTargetRr
  BY <1>5 DEF PrcReadTargetRr, PrcFault, prcVars, prcSignals
<1>6. CASE PrcRefuseTask
  BY <1>6 DEF PrcRefuseTask
<1>7. CASE PrcScheduleRr
  <2>1. PICK bs \in TargetBitstreams : PrcEnqueue(bs) \/ PrcRequest(bs)
    BY <1>7 DEF PrcScheduleRr
  <2>2. CASE PrcEnqueue(bs)
    BY <2>2 DEF PrcEnqueue
  <2>3. CASE PrcRequest(bs)
    BY <2>3 DEF PrcRequest
  <2> QED
    BY <2>1, <2>2, <2>3
<1>8. CASE PrcAwaitAck
  BY <1>8 DEF PrcAwaitAck, prcVars, prcSignals
<1>9. CASE PrcRequestGranted
  BY <1>9 DEF PrcRequestGranted
<1>10. CASE PrcUnknownState
  BY <1>10 DEF PrcUnknownState, PrcFault, prcVars, prcSignals
<1> QED
  BY <1>1, <1>2, <1>3, <1>4, <1>5, <1>6, <1>7, <1>8, <1>9, <1>10 DEF PrcStep

\* While no region executes, the ICAP grants nothing; without an answer of a
\* controller, it transfers nothing.
LEMMA IcapStepEffect ==
  ASSUME IcapStep, IcapUngranted, stored_prr_executing = Off, ~stored_prr_icap_ack
  PROVE  /\ IcapUngranted'
         /\ icap_prr_ctrl_req' = icap_prr_ctrl_req
         /\ status' \in {status, "segfault"}
<1> USE DEF IcapUngranted, At, KeepAck, IcapOnlyMoves
<1>1. CASE IcapStall
  BY <1>1 DEF IcapStall, icapSignals
<1>2. CASE IcapLeaveInit
  BY <1>2 DEF IcapLeaveInit
<1>3. CASE IcapStayIdle
  BY <1>3 DEF IcapStayIdle
<1>4. ~IcapGrant
  <2>1. transfer_bs # NoBs => transfer_bs.region_id \in RrIds
    BY SignalContextAssumption, BitstreamsAssumption DEF BitstreamId
  <2> QED
    BY <2>1 DEF IcapGrant, RrcReadyForTransfer, Off
<1>5. CASE IcapPutOff
  BY <1>5 DEF IcapPutOff
<1>6. CASE IcapReadNoTarget
  BY <1>6 DEF IcapReadNoTarget, IcapFault, icapVars, icapSignals
<1>7. ~(IcapHoldAck \/ IcapAssertionFails \/ IcapTakeTarget \/ IcapReadNoBitstream)
  BY DEF IcapHoldAck, IcapAssertionFails, IcapTakeTarget, IcapReadNoBitstream
<1>8. CASE IcapAwaitRrc
  BY <1>8 DEF IcapAwaitRrc
<1>9. ~(IcapBeginTransfer \/ IcapTransfer \/ IcapEndTransfer)
  BY DEF IcapBeginTransfer, IcapTransfer, IcapEndTransfer
<1> QED
  BY <1>1, <1>2, <1>3, <1>4, <1>5, <1>6, <1>7, <1>8, <1>9 DEF IcapStep

\* A controller at rest only does what all states share while nobody signals it.
LEMMA RrcStepAtRest ==
  ASSUME NEW rr \in RrIds, RrcStep(rr), WiresDown, RrcsAtRest
  PROVE  /\ Unaltered(rr) /\ icap_transfer_bs' = icap_transfer_bs
         /\ rrc_state' \in [RrIds -> {"INIT", "IDLE"}]
         /\ QueueNow(rr) = action_queue[rr] /\ ~IcapAckNow(rr) /\ ~ExecutingNow(rr)
<1>1. ~Enqueuing(rr) /\ ~CannotEnqueue(rr) /\ QueueNow(rr) = action_queue[rr] /\ ~Pending(rr)
  BY DEF Enqueuing, CannotEnqueue, QueueNow, Pending, WiresDown, RrcsAtRest, Off
<1>2. ~IcapAckNow(rr) /\ ~ExecutingNow(rr)
  BY DEF IcapAckNow, ExecutingNow, WiresDown, Off
<1>3. CASE RrcLeaveInit(rr)
  BY <1>1, <1>2, <1>3 DEF RrcLeaveInit, RrcsAtRest
<1>4. CASE RrcStayIdle(rr)
  BY <1>1, <1>2, <1>4 DEF RrcStayIdle, RrcsAtRest
<1>5. ~RrcEnqueueNull(rr) /\ ~RrcRunQueued(rr) /\ ~RrcStart(rr)
  BY <1>1 DEF RrcEnqueueNull, RrcRunQueued, RrcStart, WiresDown, Off
<1>6. ~Requested(rr)
  BY DEF Requested, WiresDown, Off
<1>7. ~RrcReceive(rr) /\ ~RrcInstall(rr)
  BY DEF RrcReceive, RrcInstall, InState, RrcsAtRest
<1> QED
  BY <1>3, <1>4, <1>5, <1>6, <1>7
     DEF RrcStep, RrcReadNoBitstream, RrcAlreadyResident, RrcAccept, RrcRefuse

\* So it stays at rest.
LEMMA RrcStepEffect ==
  ASSUME NEW rr \in RrIds, RrcStep(rr), WiresDown, RrcsAtRest
  PROVE  /\ prr_icap_ack' = Off /\ prr_executing' = Off
         /\ rrc_state' \in [RrIds -> {"INIT", "IDLE"}]
         /\ action_queue' = action_queue /\ resident' = resident
         /\ status' = status
<1>1. /\ Unaltered(rr) /\ rrc_state' \in [RrIds -> {"INIT", "IDLE"}]
      /\ QueueNow(rr) = action_queue[rr] /\ ~IcapAckNow(rr) /\ ~ExecutingNow(rr)
  BY RrcStepAtRest
<1>2. IcapAckNow(rr) = FALSE /\ ExecutingNow(rr) = FALSE
  BY <1>1 DEF IcapAckNow, ExecutingNow
<1>3. [Off EXCEPT ![rr] = FALSE] = Off
  BY DEF Off
<1>4. [action_queue EXCEPT ![rr] = QueueNow(rr)] = action_queue
  BY <1>1 DEF RrcsAtRest
<1> QED
  BY <1>1, <1>2, <1>3, <1>4 DEF Unaltered, WiresDown

----------------------------------------------------------------------------
LEMMA NextNothingStarts == NothingStarts /\ [Next]_vars => NothingStarts'
<1> SUFFICES ASSUME NothingStarts, [Next]_vars PROVE NothingStarts'
  OBVIOUS
<1> USE DEF NothingStarts
<1>1. CASE PrcTurn
  <2>1. /\ prc_start_prr' = prc_start_prr /\ prc_enqueue_prr' = prc_enqueue_prr
        /\ status' \in {status, "undefined", "user error", "segfault", "unknown state"}
    BY <1>1, PrcStepEffect DEF PrcTurn
  <2>2. UNCHANGED <<icapVars, rrcVars, next_rrc, storedSignals>>
    BY <1>1 DEF PrcTurn
  <2>3. WiresDown'
    BY <2>1, <2>2 DEF WiresDown, icapVars, icapSignals, rrcVars, rrcSignals, storedSignals
  <2>4. IcapUngranted' /\ RrcsAtRest'
    BY <2>2 DEF IcapUngranted, RrcsAtRest, icapVars, icapSignals, rrcVars, rrcSignals
  <2> QED
    BY <2>1, <2>3, <2>4 DEF Ends
<1>2. CASE IcapTurn
  <2>1. /\ IcapUngranted' /\ icap_prr_ctrl_req' = icap_prr_ctrl_req
        /\ status' \in {status, "segfault"}
    BY <1>2, IcapStepEffect DEF IcapTurn, WiresDown
  <2>2. UNCHANGED <<prcVars, rrcVars, next_rrc, storedSignals>>
    BY <1>2 DEF IcapTurn
  <2>3. WiresDown'
    BY <2>1, <2>2 DEF WiresDown, prcVars, prcSignals, rrcVars, rrcSignals, storedSignals
  <2>4. RrcsAtRest'
    BY <2>2 DEF RrcsAtRest, rrcVars
  <2> QED
    BY <2>1, <2>3, <2>4 DEF Ends
<1>3. CASE RrcTurn
  <2>1. \/ next_rrc \in RrIds /\ RrcStep(next_rrc)
        \/ UNCHANGED <<status, rrcVars>>
    BY <1>3 DEF RrcTurn, RrcTurnStep
  <2>2. /\ prr_icap_ack' = Off /\ prr_executing' = Off
        /\ rrc_state' \in [RrIds -> {"INIT", "IDLE"}]
        /\ action_queue' = action_queue /\ resident' = resident
        /\ status' = status
    BY <2>1, RrcStepEffect DEF WiresDown, RrcsAtRest, rrcVars, rrcSignals
  <2>3. UNCHANGED <<prcVars, icapVars, storedSignals>>
    BY <1>3 DEF RrcTurn
  <2>4. next_rrc' \in RrIds \cup {0}
    BY <1>3, RrCountAssumption DEF RrcTurn, RrcTurnStep, RrcsAtRest, RrIds
  <2>5. WiresDown'
    BY <2>2, <2>3 DEF WiresDown, prcVars, prcSignals, icapVars, icapSignals, storedSignals
  <2>6. IcapUngranted'
    BY <2>3 DEF IcapUngranted, icapVars, icapSignals
  <2>7. RrcsAtRest'
    BY <2>2, <2>4 DEF RrcsAtRest
  <2> QED
    BY <2>2, <2>5, <2>6, <2>7 DEF Ends
<1>4. CASE Refresh
  <2>1. UNCHANGED <<prcVars, icapVars, rrcVars, next_rrc>>
    BY <1>4 DEF Refresh
  <2>2. ~stored_prr_icap_ack' /\ ~stored_icap_prc_ack'
    BY <1>4 DEF Refresh, RefreshRrcSignals, RefreshIcapSignals, WiresDown, IcapUngranted, Off
  <2>3. WiresDown'
    BY <1>4, <2>1, <2>2
       DEF Refresh, RefreshPrcSignals, RefreshIcapSignals, RefreshRrcSignals, WiresDown,
           prcVars, prcSignals, icapVars, icapSignals, rrcVars, rrcSignals
  <2>4. IcapUngranted' /\ RrcsAtRest'
    BY <2>1 DEF IcapUngranted, RrcsAtRest, icapVars, icapSignals, rrcVars
  <2>5. Ends'
    BY <1>4 DEF Refresh, Ends
  <2> QED
    BY <2>3, <2>4, <2>5
<1>5. CASE UNCHANGED vars
  <2>1. UNCHANGED <<processVars, prcVars, icapVars, rrcVars, next_rrc, storedSignals>>
    BY <1>5 DEF vars
  <2> QED
    BY <2>1 DEF WiresDown, IcapUngranted, RrcsAtRest, Ends, processVars, prcVars, prcSignals,
       icapVars, icapSignals, rrcVars, rrcSignals, storedSignals
<1> QED
  BY <1>1, <1>2, <1>3, <1>4, <1>5 DEF Next

\* No behaviour of the device ever starts anything.
LEMMA AlwaysNothingStarts == Spec => []NothingStarts
BY InitNothingStarts, NextNothingStarts, PTL DEF Spec

----------------------------------------------------------------------------
\* No request is ever granted and no transfer ever starts (icap.cpp:102-111).
THEOREM DeviceNoTransferEver == Spec => []NoTransferEver
<1>1. NothingStarts => NoTransferEver
  BY DEF NothingStarts, IcapUngranted, NoTransferEver
<1> QED
  BY <1>1, AlwaysNothingStarts, PTL

\* No region ever executes a task (prrLevelController.cpp:162-366).
THEOREM DeviceNoRegionExecutes == Spec => []NoRegionExecutes
<1>1. NothingStarts => NoRegionExecutes
  BY DEF NothingStarts, WiresDown, RrcsAtRest, NoRegionExecutes, Off
<1> QED
  BY <1>1, AlwaysNothingStarts, PTL

\* The faults a run can end with: no assertion of the ICAP, no exception of a
\* controller.
THEOREM DeviceEnds == Spec => []Ends
<1>1. NothingStarts => Ends
  BY DEF NothingStarts
<1> QED
  BY <1>1, AlwaysNothingStarts, PTL

\* A request stays up until the process ends (prc.cpp:152-157).
THEOREM DeviceOneRequest == Spec => OneRequest
<1>1. NothingStarts /\ [Next]_vars => (prc_icap_req => prc_icap_req')
  <2> SUFFICES ASSUME NothingStarts, [Next]_vars, prc_icap_req PROVE prc_icap_req'
    OBVIOUS
  <2>1. CASE PrcTurn
    BY <2>1, PrcStepEffect DEF PrcTurn, NothingStarts, WiresDown
  <2>2. CASE IcapTurn
    BY <2>2 DEF IcapTurn, prcVars, prcSignals
  <2>3. CASE RrcTurn
    BY <2>3 DEF RrcTurn, prcVars, prcSignals
  <2>4. CASE Refresh
    BY <2>4 DEF Refresh, prcVars, prcSignals
  <2>5. CASE UNCHANGED vars
    BY <2>5 DEF vars, prcVars, prcSignals
  <2> QED
    BY <2>1, <2>2, <2>3, <2>4, <2>5 DEF Next
<1> QED
  BY <1>1, AlwaysNothingStarts, PTL DEF Spec, OneRequest

----------------------------------------------------------------------------
\* Types.  Of the ICAP and of the controllers, only what NothingStarts leaves
\* possible has to keep them.

LEMMA IcapStepTyped ==
  ASSUME IcapStep, IcapUngranted, stored_prr_executing = Off, ~stored_prr_icap_ack,
         IcapTypeOK, icap_prc_ack \in BOOLEAN
  PROVE  /\ IcapTypeOK'
         /\ icap_prc_ack' \in BOOLEAN
         /\ UNCHANGED <<icap_transfer, icap_mc>>
<1> USE DEF IcapUngranted, At, KeepAck, IcapOnlyMoves, IcapTypeOK, IcapStates
<1>1. CASE IcapStall
  BY <1>1 DEF IcapStall, icapSignals
<1>2. CASE IcapLeaveInit
  BY <1>2 DEF IcapLeaveInit
<1>3. CASE IcapStayIdle
  BY <1>3 DEF IcapStayIdle
<1>4. ~IcapGrant
  <2>1. transfer_bs # NoBs => transfer_bs.region_id \in RrIds
    BY SignalContextAssumption, BitstreamsAssumption DEF BitstreamId
  <2> QED
    BY <2>1 DEF IcapGrant, RrcReadyForTransfer, Off
<1>5. CASE IcapPutOff
  BY <1>5 DEF IcapPutOff
<1>6. CASE IcapReadNoTarget
  BY <1>6 DEF IcapReadNoTarget, IcapFault, icapVars, icapSignals
<1>7. ~(IcapHoldAck \/ IcapAssertionFails \/ IcapTakeTarget \/ IcapReadNoBitstream)
  BY DEF IcapHoldAck, IcapAssertionFails, IcapTakeTarget, IcapReadNoBitstream
<1>8. CASE IcapAwaitRrc
  BY <1>8 DEF IcapAwaitRrc
<1>9. ~(IcapBeginTransfer \/ IcapTransfer \/ IcapEndTransfer)
  BY DEF IcapBeginTransfer, IcapTransfer, IcapEndTransfer
<1> QED
  BY <1>1, <1>2, <1>3, <1>4, <1>5, <1>6, <1>7, <1>8, <1>9 DEF IcapStep

LEMMA ModuleStepTyped ==
  ASSUME NEW module \in ModuleType
  PROVE  StepModule(module) \in ModuleType
<1>1. [module EXCEPT !.in_simulation = TRUE, !.timestep = 0, !.state = "IDLE"] \in ModuleType
  BY DEF ModuleType, ModuleStates
<1>2. [module EXCEPT !.in_simulation = TRUE, !.timestep = module.timestep + 1] \in ModuleType
  <2>1. module.timestep + 1 \in Nat
    BY DEF ModuleType
  <2>2. [module EXCEPT !.in_simulation = TRUE] \in ModuleType
    BY DEF ModuleType
  <2> QED
    BY <2>1, <2>2 DEF ModuleType
<1> QED
  BY <1>1, <1>2 DEF StepModule

\* The types of what a controller's step changes beside what RrcStepEffect tells.
LEMMA RrcStepTyped ==
  ASSUME NEW rr \in RrIds, RrcStep(rr), WiresDown, RrcsAtRest, RrcTypeOK, prr_prc_ack \in BusType
  PROVE  /\ rr_module' \in [Objects -> ModuleType]
         /\ prr_prc_ack' \in BusType
         /\ UNCHANGED <<icap_transfer_bs, installed_bs, rrc_bitstream>>
<1>1. Unaltered(rr) /\ icap_transfer_bs' = icap_transfer_bs
  BY RrcStepAtRest
<1>2. resident[rr] \in Objects /\ ResidentModule(rr) \in ModuleType
  BY DEF RrcTypeOK, ResidentModule
<1>3. ModulesNow(rr) \in [Objects -> ModuleType]
  BY <1>2, ModuleStepTyped DEF ModulesNow, RrcTypeOK, ResidentModule
<1>4. prr_prc_ack' \in BusType
  BY <1>1 DEF Unaltered, Served, WiresDown, Off, BusType
<1> QED
  BY <1>1, <1>3, <1>4 DEF Unaltered, Served

\* The loop has not run out of cycles while the device runs.
Typed == TypeOK /\ (Running => ccc < DebugStop)

LEMMA InitTyped == DeviceInit => Typed
<1> SUFFICES ASSUME DeviceInit PROVE Typed
  OBVIOUS
<1> USE DEF DeviceInit
<1>1. PrcTyped
  BY PrcInitTyped
<1>2. IcapTypeOK
  BY IcapAssumption DEF IcapInit, IcapTypeOK, IcapStates
<1>3. RrcTypeOK
  <2>1. /\ resident \in [RrIds -> Objects]
        /\ rr_module \in [Objects -> ModuleType]
    <3>1. \A rr \in RrIds : Placeholder(rr) \in Objects
      BY DEF Objects, Placeholders
    <3>2. LibraryModule \in ModuleType
      BY DEF LibraryModule, ModuleType, ModuleStates
    <3>3. \A obj \in Objects \ Bitstreams : obj.region_id \in RrIds
      BY DEF Objects, Placeholders, Placeholder
    <3> QED
      BY <3>1, <3>2, <3>3, RrControllerAssumption DEF RrcInit
  <2> QED
    BY <2>1 DEF RrcInit, RrcTypeOK, RrcStates
<1>4. SignalsTypeOK
  <2>1. /\ rrc_bitstream \in [RrIds -> BsIdType] /\ stored_rrc_bitstream \in [RrIds -> BsIdType]
        /\ {icap_mc, stored_icap_mc} \subseteq Nat \cup {Uninitialised}
    BY SignalContextAssumption
       DEF RrcInit, RrcSignalsInit, StoredSignalsInit, IcapInit, IcapSignalsInit, BsIdType, NoId
  <2>2. Off \in BusType
    BY DEF Off, BusType
  <2> QED
    BY <1>1, <2>1, <2>2, SignalContextAssumption
       DEF PrcTyped, PrcInit, PrcSignalsInit, IcapInit, IcapSignalsInit, RrcInit, RrcSignalsInit,
           StoredSignalsInit, SignalsTypeOK, Phases
<1> QED
  BY <1>1, <1>2, <1>3, <1>4, DeviceAssumption DEF PrcTyped, Typed, TypeOK

LEMMA NextTyped == NothingStarts /\ Typed /\ [Next]_vars => Typed'
<1> SUFFICES ASSUME NothingStarts, Typed, [Next]_vars PROVE Typed'
  OBVIOUS
<1> USE DEF Typed, TypeOK
<1>0. PrcTyped
  BY DEF SignalsTypeOK, PrcTyped
<1>1. CASE PrcTurn
  <2>1. PrcTyped' /\ status' \in {status} \cup Faults
    BY <1>0, <1>1, PrcStepTyped DEF PrcTurn
  <2>2. IcapTypeOK' /\ RrcTypeOK'
    BY <1>1 DEF PrcTurn, IcapTypeOK, RrcTypeOK, icapVars, rrcVars
  <2>3. SignalsTypeOK'
    BY <1>1, <2>1 DEF PrcTurn, PrcTyped, PrcTypeOK, SignalsTypeOK, Phases, icapVars, icapSignals,
                     rrcVars, rrcSignals, storedSignals
  <2>4. ccc' = ccc /\ (Running' => Running)
    BY <1>1 DEF PrcTurn
  <2> QED
    BY <2>1, <2>2, <2>3, <2>4 DEF PrcTyped
<1>2. CASE IcapTurn
  <2>1. /\ IcapUngranted' /\ icap_prr_ctrl_req' = icap_prr_ctrl_req
        /\ status' \in {status, "segfault"}
    BY <1>2, IcapStepEffect DEF IcapTurn, NothingStarts, WiresDown
  <2>2. IcapTypeOK' /\ icap_prc_ack' \in BOOLEAN /\ UNCHANGED <<icap_transfer, icap_mc>>
    BY <1>2, IcapStepTyped DEF IcapTurn, NothingStarts, WiresDown, SignalsTypeOK
  <2>3. transfer_bs' = transfer_bs
    BY <2>1 DEF NothingStarts, IcapUngranted
  <2>4. PrcTypeOK' /\ RrcTypeOK'
    BY <1>2 DEF IcapTurn, PrcTypeOK, SchedulerTypeOK, prcVars, prcSignals, schedulerVars,
                RrcTypeOK, rrcVars
  <2>5. SignalsTypeOK'
    <3>1. status' \in Faults \cup {"running", Finished}
      BY <2>1 DEF SignalsTypeOK, Faults
    <3>2. phase' \in Phases /\ UNCHANGED <<prcVars, rrcVars, storedSignals>>
      BY <1>2 DEF IcapTurn, Phases
    <3> QED
      BY <2>1, <2>2, <2>3, <3>1, <3>2
         DEF SignalsTypeOK, prcVars, prcSignals, rrcVars, rrcSignals, storedSignals
  <2>6. ccc' = ccc /\ (Running' => Running)
    BY <1>2 DEF IcapTurn
  <2> QED
    BY <2>2, <2>4, <2>5, <2>6
<1>3. CASE RrcTurn
  <2>1. \/ next_rrc \in RrIds /\ RrcStep(next_rrc)
        \/ UNCHANGED <<status, rrcVars>>
    BY <1>3 DEF RrcTurn, RrcTurnStep
  <2>2. /\ prr_icap_ack' = Off /\ prr_executing' = Off
        /\ rrc_state' \in [RrIds -> {"INIT", "IDLE"}]
        /\ action_queue' = action_queue /\ resident' = resident
        /\ status' = status
    BY <2>1, RrcStepEffect DEF NothingStarts, WiresDown, RrcsAtRest, rrcVars, rrcSignals
  <2>3. /\ rr_module' \in [Objects -> ModuleType]
        /\ prr_prc_ack' \in BusType
        /\ UNCHANGED <<icap_transfer_bs, installed_bs, rrc_bitstream>>
    BY <2>1, RrcStepTyped DEF NothingStarts, SignalsTypeOK, RrcTypeOK, rrcVars, rrcSignals
  <2>4. next_rrc' \in RrIds \cup {0} /\ phase' \in Phases
    BY <1>3, RrCountAssumption DEF RrcTurn, RrcTurnStep, RrcTypeOK, RrIds, Phases
  <2>5. RrcTypeOK'
    <3>1. rrc_state' \in [RrIds -> RrcStates]
      BY <2>2 DEF RrcStates
    <3> QED
      BY <2>2, <2>3, <2>4, <3>1 DEF RrcTypeOK
  <2>6. PrcTypeOK' /\ IcapTypeOK'
    BY <1>3 DEF RrcTurn, PrcTypeOK, SchedulerTypeOK, prcVars, prcSignals, schedulerVars,
                IcapTypeOK, icapVars
  <2>7. SignalsTypeOK'
    <3>1. Off \in BusType
      BY DEF Off, BusType
    <3> QED
      BY <1>3, <2>2, <2>3, <2>4, <3>1
         DEF RrcTurn, SignalsTypeOK, prcVars, prcSignals, icapVars, icapSignals, storedSignals
  <2>8. ccc' = ccc /\ (Running' => Running)
    BY <1>3 DEF RrcTurn
  <2> QED
    BY <2>5, <2>6, <2>7, <2>8
<1>4. CASE Refresh
  <2>1. PrcTypeOK' /\ IcapTypeOK' /\ RrcTypeOK'
    BY <1>4 DEF Refresh, PrcTypeOK, SchedulerTypeOK, prcVars, prcSignals, schedulerVars,
                IcapTypeOK, icapVars, RrcTypeOK, rrcVars
  <2>2. stored_prr_prc_ack' \in BOOLEAN /\ stored_prr_icap_ack' \in BOOLEAN
    BY <1>4, RefreshTyped DEF Refresh
  <2>3. SignalsTypeOK'
    BY <1>4, <2>2 DEF Refresh, RefreshPrcSignals, RefreshIcapSignals, RefreshRrcSignals,
       SignalsTypeOK, Phases, prcVars, prcSignals, icapVars, icapSignals, rrcVars, rrcSignals
  <2>4. ccc \in Nat /\ DebugStop \in Nat /\ ccc < DebugStop
    BY <1>4, DeviceAssumption DEF Refresh
  <2>5. ccc' \in 0 .. DebugStop /\ (Running' => ccc' < DebugStop)
    BY <1>4, <2>4 DEF Refresh, LoopEnds, Running, Finished
  <2> QED
    BY <2>1, <2>3, <2>5
<1>5. CASE UNCHANGED vars
  <2>1. UNCHANGED <<processVars, prcVars, icapVars, rrcVars, next_rrc, storedSignals, ccc>>
    BY <1>5 DEF vars
  <2>2. PrcTypeOK' /\ IcapTypeOK' /\ RrcTypeOK'
    BY <2>1 DEF PrcTypeOK, SchedulerTypeOK, prcVars, prcSignals, schedulerVars,
                IcapTypeOK, icapVars, RrcTypeOK, rrcVars
  <2> QED
    BY <2>1, <2>2 DEF SignalsTypeOK, Running, processVars, prcVars, prcSignals, icapVars,
       icapSignals, rrcVars, rrcSignals, storedSignals
<1> QED
  BY <1>1, <1>2, <1>3, <1>4, <1>5 DEF Next

\* Type correctness of the device; that it counts no further than to its safety
\* stop is a part of it (device.cpp:simulateApplication).
THEOREM DeviceTypeCorrect == Spec => []TypeOK
<1>1. Typed => TypeOK
  BY DEF Typed
<1> QED
  BY <1>1, InitTyped, NextTyped, AlwaysNothingStarts, PTL DEF Spec

----------------------------------------------------------------------------
\* The device without regions.

\* What WithoutRegions rests on: the PRC never gets past the choice of a region.
NeverRequests ==
  /\ WithoutRegions
  /\ RrIds = {} => prc_state \in {"INIT", "TASK_SCHEDULE", "RR_SCHEDULE"}

LEMMA PrcFindsNoRegion ==
  ASSUME RrIds = {}, PrcStep, prc_state \in {"INIT", "TASK_SCHEDULE", "RR_SCHEDULE"}
  PROVE  /\ prc_state' \in {"INIT", "TASK_SCHEDULE", "RR_SCHEDULE"}
         /\ UNCHANGED <<scheduled_bs, prc_icap_req>>
         /\ status' \in {status, "undefined", "user error"}
<1>1. TaskHasNoBitstream
  BY DEF TaskHasNoBitstream, CapableRrs
<1>2. ~PrcScheduleRr
  BY TargetsImplement DEF PrcScheduleRr
<1>3. ~PrcReadTargetRr /\ ~PrcRefuseTask
  BY <1>1 DEF PrcReadTargetRr, PrcRefuseTask
<1>4. ~PrcAwaitAck /\ ~PrcRequestGranted /\ ~PrcUnknownState
  BY DEF PrcAwaitAck, PrcRequestGranted, PrcUnknownState
<1>5. CASE PrcLeaveInit \/ PrcScheduleTask
  BY <1>5 DEF PrcLeaveInit, PrcScheduleTask, prcSignals
<1>6. CASE PrcRunOutOfTasks \/ PrcReportTask
  BY <1>6 DEF PrcRunOutOfTasks, PrcReportTask, PrcFault, prcVars, prcSignals
<1> QED
  BY <1>2, <1>3, <1>4, <1>5, <1>6 DEF PrcStep

LEMMA NextNeverRequests == NothingStarts /\ NeverRequests /\ [Next]_vars => NeverRequests'
<1> SUFFICES ASSUME NothingStarts, NeverRequests, [Next]_vars, RrIds = {}
             PROVE  NeverRequests'
  BY DEF NeverRequests, WithoutRegions
<1> USE DEF NeverRequests, WithoutRegions
<1>1. CASE PrcTurn
  <2>1. PrcStep /\ prc_state \in {"INIT", "TASK_SCHEDULE", "RR_SCHEDULE"}
    BY <1>1 DEF PrcTurn
  <2>2. prc_state' \in {"INIT", "TASK_SCHEDULE", "RR_SCHEDULE"}
        /\ prc_icap_req' = prc_icap_req /\ scheduled_bs' = scheduled_bs
        /\ status' \in {status, "undefined", "user error"}
    BY <2>1, PrcFindsNoRegion
  <2>3. stored_prc_icap_req' = stored_prc_icap_req
    BY <1>1 DEF PrcTurn, storedSignals
  <2> QED
    BY <2>2, <2>3
<1>2. CASE IcapTurn
  <2>1. ~IcapReadNoTarget
    BY DEF IcapReadNoTarget
  <2>2. ~(IcapHoldAck \/ IcapAssertionFails \/ IcapTakeTarget \/ IcapReadNoBitstream)
    BY DEF NothingStarts, IcapUngranted, IcapHoldAck, IcapAssertionFails, IcapTakeTarget,
           IcapReadNoBitstream, At
  <2>3. status' = status
    BY <1>2, <2>1, <2>2
       DEF IcapTurn, IcapStep, IcapStall, IcapLeaveInit, IcapStayIdle, IcapGrant, IcapPutOff,
           IcapAwaitRrc, IcapBeginTransfer, IcapTransfer, IcapEndTransfer, IcapOnlyMoves
  <2> QED
    BY <1>2, <2>3 DEF IcapTurn, prcVars, prcSignals, storedSignals
<1>3. CASE RrcTurn
  BY <1>3 DEF RrcTurn, RrcTurnStep, prcVars, prcSignals, storedSignals
<1>4. CASE Refresh
  BY <1>4 DEF Refresh, RefreshPrcSignals, prcVars, prcSignals
<1>5. CASE UNCHANGED vars
  BY <1>5 DEF vars, processVars, prcVars, prcSignals, storedSignals
<1> QED
  BY <1>1, <1>2, <1>3, <1>4, <1>5 DEF Next

\* A device without regions reports its first task and asks the ICAP for nothing
\* (lftFeSelector.cpp:228-232, device.cpp:105).
THEOREM DeviceWithoutRegions == Spec => []WithoutRegions
<1>1. DeviceInit => NeverRequests
  BY DEF DeviceInit, PrcInit, PrcSignalsInit, StoredSignalsInit, NeverRequests, WithoutRegions,
         Finished
<1>2. NeverRequests => WithoutRegions
  BY DEF NeverRequests
<1> QED
  BY <1>1, <1>2, NextNeverRequests, AlwaysNothingStarts, PTL DEF Spec
=============================================================================
