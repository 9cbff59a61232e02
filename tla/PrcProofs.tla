------------------------------ MODULE PrcProofs ------------------------------
(***************************************************************************)
(* For every application, every task graph, any ICAP and any controllers   *)
(* that keep their ports, and any wiring of the handles: what the PRC's    *)
(* request stands for, how it gets into a state without a case, and that   *)
(* it keeps its own port.                                                  *)
(***************************************************************************)
EXTENDS PrcBench, PrcLaws

\* The request is up exactly in PRC_REQ_ICAP.
RequestExactlyInReq == prc_icap_req <=> prc_state = "REQ_ICAP"

\* Until the first refresh the context reports that no bitstream is known.
BsIdStoredOrUnknown ==
  \A rr \in RrIds : stored_rrc_bitstream[rr] \in {NoId, rrc_bitstream[rr]}

\* PRC_RR_ENQUEUE is entered for a bitstream whose region reports its id, and
\* the process ends there.
EnqueuesWhatIsReported ==
  prc_state = "RR_ENQUEUE" \/ status = "unknown state" =>
    rrc_bitstream[scheduled_bs.region_id] # NoId

\* The inductive invariant.  UnknownStateByAccident is a part of
\* EnqueuesWhatIsReported, which adds the state that leads to the fault.
IInv ==
  /\ RequestExactlyInReq
  /\ RequestServesTask
  /\ BsIdStoredOrUnknown
  /\ EnqueuesWhatIsReported

----------------------------------------------------------------------------
\* Whichever regions are busy and however ties fall, the selector's loop ends at
\* what its order prefers among the idle regions that can execute the task, and
\* finds none only if there is none (lftFeSelector.cpp:140-155, 228-253).
THEOREM PrcSelectorTakesTop == Spec => []SelectorTakesTop
<1>1. SelectorTakesTop
  BY LoopTakesTop DEF SelectorTakesTop, RrsForTask, CapableRrs
<1> QED
  BY <1>1, PTL

\* A task is refused only while every region that could execute it is busy
\* (lftFeSelector.cpp:228-253, prc.cpp:135-140).
THEOREM PrcRefusedOnlyWhenBusy == Spec => RefusedOnlyWhenBusy
<1> DEFINE Refused == prc_state = "RR_SCHEDULE" /\ prc_state' = "TASK_SCHEDULE"
           AllBusy == \A rr \in CapableRrs(TypeOf[scheduled_task]) : stored_prr_executing[rr]
<1>1. ASSUME PrcStep, Refused PROVE AllBusy
  <2>1. PrcRefuseTask
    <3>1. ~PrcScheduleRr
      BY <1>1 DEF PrcScheduleRr, PrcEnqueue, PrcRequest
    <3> QED
      BY <1>1, <3>1 DEF PrcStep, PrcLeaveInit, PrcScheduleTask, PrcRunOutOfTasks, PrcReportTask,
         PrcReadTargetRr, PrcAwaitAck, PrcRequestGranted, PrcUnknownState, PrcFault, prcVars
  <2> QED
    BY <2>1, NotFoundMeansBusy DEF PrcRefuseTask
<1>2. Next /\ Refused => AllBusy
  <2> SUFFICES ASSUME Next, Refused PROVE AllBusy
    OBVIOUS
  <2> HIDE DEF AllBusy
  <2>1. PrcTurn
    BY DEF Next, IcapTurn, RrcTurn, Refresh, prcVars
  <2> QED
    BY <1>1, <2>1 DEF PrcTurn
<1>3. [Next]_vars => [Refused => AllBusy]_vars
  BY <1>2
<1> QED
  BY <1>3, PTL DEF Spec, RefusedOnlyWhenBusy

----------------------------------------------------------------------------
\* The signals around the PRC keep their types, part by part.

LEMMA InitTyped == BenchInit => TypeOK
<1> SUFFICES ASSUME BenchInit PROVE TypeOK
  OBVIOUS
<1>1. PrcTyped
  BY PrcInitTyped DEF BenchInit
<1>2. rrc_bitstream \in [RrIds -> BsIdType] /\ stored_rrc_bitstream \in [RrIds -> BsIdType]
  BY SignalContextAssumption
     DEF BenchInit, RrcSignalsInit, StoredSignalsInit, BsIdType
<1> QED
  BY <1>1, <1>2, SignalContextAssumption
     DEF BenchInit, ProcessInit, PrcInit, PrcSignalsInit, IcapSignalsInit, RrcSignalsInit,
         StoredSignalsInit, TypeOK, SignalsTypeOK, PrcTyped, PrcTypeOK, BusType, Off, Phases

LEMMA NextTyped == TypeOK /\ [Next]_vars => TypeOK'
<1> SUFFICES ASSUME TypeOK, [Next]_vars PROVE TypeOK'
  OBVIOUS
<1>0. PrcTyped
  BY DEF TypeOK, SignalsTypeOK, PrcTyped
<1>1. CASE PrcTurn
  <2>1. PrcTyped' /\ status' \in {status} \cup Faults
    BY <1>0, <1>1, PrcStepTyped DEF PrcTurn
  <2> QED
    BY <1>1, <2>1 DEF PrcTurn, TypeOK, SignalsTypeOK, PrcTyped, PrcTypeOK, Phases,
                     icapSignals, rrcSignals, storedSignals
<1>2. CASE IcapTurn
  <2>1. PrcTypeOK'
    BY <1>2 DEF IcapTurn, TypeOK, PrcTypeOK, SchedulerTypeOK, prcVars, prcSignals, schedulerVars
  <2>2. PrcScheduledBitstream \in Bitstreams \cup {NoBs, DefaultBs}
    BY DEF PrcScheduledBitstream, TypeOK, SignalsTypeOK
  <2>3. /\ icap_prc_ack' \in BOOLEAN /\ icap_transfer' \in BOOLEAN
        /\ icap_prr_ctrl_req' \in BusType
        /\ transfer_bs' \in Bitstreams \cup {NoBs, DefaultBs}
    BY <1>2, <2>2 DEF IcapTurn, TypeOK, SignalsTypeOK, BusType, IcapSide!PortStep,
       IcapSide!Wait, IcapSide!Grant, IcapSide!GetStuck, IcapSide!TakeOver,
       IcapSide!BeginTransfer, IcapSide!EndTransfer, IcapSide!icapPortVars
  <2> QED
    BY <1>2, <2>1, <2>3 DEF IcapTurn, TypeOK, SignalsTypeOK, Phases, prcVars, prcSignals,
                            rrcSignals, storedSignals
<1>3. CASE RrcTurn
  <2>1. PrcTypeOK'
    BY <1>3 DEF RrcTurn, TypeOK, PrcTypeOK, SchedulerTypeOK, prcVars, prcSignals, schedulerVars
  <2>2. /\ prr_executing' \in BusType /\ prr_icap_ack' \in BusType
        /\ prr_prc_ack' \in BusType
        /\ rrc_bitstream' = rrc_bitstream
    BY <1>3 DEF RrcTurn, TypeOK, SignalsTypeOK, BusType, RrcSide!PortSteps
  <2> QED
    BY <1>3, <2>1, <2>2 DEF RrcTurn, TypeOK, SignalsTypeOK, Phases, prcVars, prcSignals,
                            icapSignals, storedSignals
<1>4. CASE Refresh
  <2>1. PrcTypeOK'
    BY <1>4 DEF Refresh, RefreshContext, TypeOK, PrcTypeOK, SchedulerTypeOK, prcSignals,
                schedulerVars
  <2>2. stored_prr_prc_ack' \in BOOLEAN /\ stored_prr_icap_ack' \in BOOLEAN
    BY <1>4, RefreshTyped DEF Refresh, RefreshContext
  <2> QED
    BY <1>4, <2>1, <2>2 DEF Refresh, RefreshContext, RefreshPrcSignals, RefreshIcapSignals,
       RefreshRrcSignals, TypeOK, SignalsTypeOK, Phases, prcSignals, icapSignals, rrcSignals
<1>5. CASE UNCHANGED vars
  BY <1>5 DEF vars, processVars, prcVars, prcSignals, schedulerVars, icapSignals, rrcSignals,
              storedSignals, TypeOK, SignalsTypeOK, PrcTypeOK, SchedulerTypeOK
<1> QED
  BY <1>1, <1>2, <1>3, <1>4, <1>5 DEF Next

\* The PRC, its scheduler and the signals around it keep their types: what the
\* selector hands over is a bitstream of the application (prc.cpp:82-157).
THEOREM PrcTypeCorrect == Spec => []TypeOK
  BY InitTyped, NextTyped, PTL DEF Spec

----------------------------------------------------------------------------
LEMMA InitIInv == BenchInit => IInv
<1> SUFFICES ASSUME BenchInit PROVE IInv
  OBVIOUS
<1>1. RequestExactlyInReq /\ RequestServesTask
  BY DEF BenchInit, PrcInit, PrcSignalsInit, RequestExactlyInReq, RequestServesTask
<1>2. BsIdStoredOrUnknown
  BY DEF BenchInit, StoredSignalsInit, BsIdStoredOrUnknown
<1>3. EnqueuesWhatIsReported
  BY DEF BenchInit, PrcInit, ProcessInit, EnqueuesWhatIsReported
<1> QED
  BY <1>1, <1>2, <1>3 DEF IInv

\* A step of the PRC: the request, with the task and the bitstream it is for.
LEMMA PrcStepIInv ==
  ASSUME IInv, Running, PrcStep,
         rrc_bitstream' = rrc_bitstream, stored_rrc_bitstream' = stored_rrc_bitstream
  PROVE  IInv'
<1>1. BsIdStoredOrUnknown'
  BY DEF IInv, BsIdStoredOrUnknown
<1> SUFFICES (RequestExactlyInReq /\ RequestServesTask /\ EnqueuesWhatIsReported)'
  BY <1>1 DEF IInv
<1> USE DEF IInv, RequestExactlyInReq, RequestServesTask, EnqueuesWhatIsReported, Running
<1>2. CASE PrcLeaveInit
  BY <1>2 DEF PrcLeaveInit, prcSignals
<1>3. CASE PrcScheduleTask
  BY <1>3 DEF PrcScheduleTask
<1>4. CASE PrcRunOutOfTasks
  BY <1>4 DEF PrcRunOutOfTasks, PrcFault, prcVars, prcSignals
<1>5. CASE PrcReportTask
  BY <1>5 DEF PrcReportTask, PrcFault, prcVars, prcSignals
<1>6. CASE PrcReadTargetRr
  BY <1>6 DEF PrcReadTargetRr, PrcFault, prcVars, prcSignals
<1>7. CASE PrcRefuseTask
  BY <1>7 DEF PrcRefuseTask
<1>8. CASE PrcScheduleRr
  <2>1. PICK bs \in TargetBitstreams : PrcEnqueue(bs) \/ PrcRequest(bs)
    BY <1>8 DEF PrcScheduleRr
  <2>2. /\ bs \in Implementations(bs.region_id, TypeOf[scheduled_task])
        /\ bs.region_id \in RrIds /\ bs.id \in Nat
    BY TargetsImplement
  <2>3. CASE PrcEnqueue(bs)
    <3>1. rrc_bitstream[bs.region_id] = bs.id
      BY <2>2, <2>3 DEF PrcEnqueue, Available, BsIdStoredOrUnknown, NoId
    <3> QED
      BY <1>8, <2>2, <2>3, <3>1 DEF PrcEnqueue, PrcScheduleRr, NoId
  <2>4. CASE PrcRequest(bs)
    BY <2>2, <2>4 DEF PrcRequest, Implementations
  <2> QED
    BY <2>1, <2>3, <2>4
<1>9. CASE PrcAwaitAck
  BY <1>9 DEF PrcAwaitAck, prcVars, prcSignals
<1>10. CASE PrcRequestGranted
  BY <1>10 DEF PrcRequestGranted
<1>11. CASE PrcUnknownState
  BY <1>11 DEF PrcUnknownState, PrcFault, prcVars, prcSignals
<1> QED
  BY <1>2, <1>3, <1>4, <1>5, <1>6, <1>7, <1>8, <1>9, <1>10, <1>11 DEF PrcStep

\* The steps that leave the PRC alone.
LEMMA ElsewhereIInv ==
  ASSUME IInv, UNCHANGED <<status, prc_state, prcSignals, rrc_bitstream>>,
         \/ stored_rrc_bitstream' = stored_rrc_bitstream
         \/ stored_rrc_bitstream' = rrc_bitstream
  PROVE  IInv'
<1>1. BsIdStoredOrUnknown'
  BY DEF IInv, BsIdStoredOrUnknown
<1> QED
  BY <1>1 DEF IInv, RequestExactlyInReq, RequestServesTask, EnqueuesWhatIsReported, prcSignals

LEMMA NextIInv == IInv /\ [Next]_vars => IInv'
<1> SUFFICES ASSUME IInv, [Next]_vars PROVE IInv'
  OBVIOUS
<1>1. CASE PrcTurn
  BY <1>1, PrcStepIInv DEF PrcTurn, rrcSignals, storedSignals
<1>2. CASE IcapTurn
  BY <1>2, ElsewhereIInv DEF IcapTurn, prcVars, rrcSignals, storedSignals
<1>3. CASE RrcTurn
  BY <1>3, ElsewhereIInv DEF RrcTurn, RrcSide!PortSteps, prcVars, storedSignals
<1>4. CASE Refresh
  BY <1>4, ElsewhereIInv DEF Refresh, RefreshContext, RefreshRrcSignals, rrcSignals
<1>5. CASE UNCHANGED vars
  BY <1>5, ElsewhereIInv DEF vars, processVars, prcVars, rrcSignals, storedSignals
<1> QED
  BY <1>1, <1>2, <1>3, <1>4, <1>5 DEF Next

LEMMA SpecIInv == Spec => []IInv
  BY InitIInv, NextIInv, PTL DEF Spec

\* The bitstream a request stands for executes the task it was made for, until
\* the request is lowered (prc.cpp:120-157).
THEOREM PrcRequestServesTask == Spec => []RequestServesTask
<1>1. IInv => RequestServesTask
  BY DEF IInv
<1> QED
  BY <1>1, SpecIInv, PTL

\* PRC_RR_ENQUEUE is reached only through a bitstream_id_ that nothing wrote and
\* that matches by accident (prc.cpp:130, 144-145).
THEOREM PrcUnknownStateByAccident == Spec => []UnknownStateByAccident
<1>1. IInv => UnknownStateByAccident
  BY DEF IInv, EnqueuesWhatIsReported, UnknownStateByAccident
<1> QED
  BY <1>1, SpecIInv, PTL

----------------------------------------------------------------------------
\* Every step of prc::step is a step of the port, or ends the process.
LEMMA PrcStepIsPortStep ==
  ASSUME Running, PrcStep
  PROVE  PrcSide!PortStep \/ (~Running' /\ UNCHANGED PrcSide!prcPortVars)
<1> USE DEF PrcAt, PrcSide!PortStep, PrcSide!prcPortVars
<1>1. CASE PrcLeaveInit
  BY <1>1 DEF PrcLeaveInit, prcSignals, PrcSide!Proceed
<1>2. CASE PrcScheduleTask
  BY <1>2 DEF PrcScheduleTask, PrcSide!Proceed
<1>3. CASE PrcRunOutOfTasks
  BY <1>3 DEF PrcRunOutOfTasks, PrcFault, prcVars, prcSignals, Running
<1>4. CASE PrcReportTask
  BY <1>4 DEF PrcReportTask, PrcFault, prcVars, prcSignals, Running
<1>5. CASE PrcReadTargetRr
  BY <1>5 DEF PrcReadTargetRr, PrcFault, prcVars, prcSignals, Running
<1>6. CASE PrcRefuseTask
  BY <1>6 DEF PrcRefuseTask, PrcSide!ChooseNothing
<1>7. CASE PrcScheduleRr
  <2>1. PICK bs \in TargetBitstreams : PrcEnqueue(bs) \/ PrcRequest(bs)
    BY <1>7 DEF PrcScheduleRr
  <2>2. bs \in Bitstreams /\ prc_state = "RR_SCHEDULE"
    BY <1>7, TargetsImplement DEF PrcScheduleRr
  <2>3. CASE PrcEnqueue(bs)
    BY <2>2, <2>3 DEF PrcEnqueue, PrcSide!ChooseNothing
  <2>4. CASE PrcRequest(bs)
    BY <2>2, <2>4 DEF PrcRequest, PrcSide!Request
  <2> QED
    BY <2>1, <2>3, <2>4
<1>8. CASE PrcAwaitAck
  BY <1>8 DEF PrcAwaitAck, prcVars, prcSignals, PrcSide!Hold
<1>9. CASE PrcRequestGranted
  BY <1>9 DEF PrcRequestGranted, PrcSide!Release
<1>10. CASE PrcUnknownState
  BY <1>10 DEF PrcUnknownState, PrcFault, prcVars, prcSignals, Running
<1> QED
  BY <1>1, <1>2, <1>3, <1>4, <1>5, <1>6, <1>7, <1>8, <1>9, <1>10 DEF PrcStep

\* In the turns of the others the PRC's side of the port does not move.
LEMMA NextIsPortTurn == [Next]_vars => [PrcSide!PortTurn]_(PrcSide!portVars)
<1> SUFFICES ASSUME [Next]_vars PROVE PrcSide!PortTurn \/ UNCHANGED PrcSide!portVars
  OBVIOUS
<1>1. CASE PrcTurn
  BY <1>1, PrcStepIsPortStep DEF PrcTurn, storedSignals, PrcSide!PortTurn
<1>2. CASE IcapTurn
  BY <1>2 DEF IcapTurn, prcVars, prcSignals, PrcAt, PrcSide!PortTurn, PrcSide!prcPortVars
<1>3. CASE RrcTurn
  BY <1>3 DEF RrcTurn, prcVars, prcSignals, PrcAt, PrcSide!PortTurn, PrcSide!prcPortVars
<1>4. CASE Refresh
  BY <1>4 DEF Refresh, RefreshContext, prcSignals, PrcAt, PrcSide!PortTurn, PrcSide!prcPortVars
<1>5. CASE UNCHANGED vars
  BY <1>5 DEF vars, processVars, prcVars, prcSignals, storedSignals, PrcAt, PrcSide!portVars,
     PrcSide!prcPortVars
<1> QED
  BY <1>1, <1>2, <1>3, <1>4, <1>5 DEF Next

\* The PRC implements PrcPort, the interface the ICAP and the controllers are
\* checked against (prc.cpp:82-157).
THEOREM PrcImplementsPort == Spec => ImplementsPrcPort
<1>1. BenchInit => PrcSide!PortInit
  BY DEF BenchInit, PrcInit, PrcSignalsInit, PrcAt, PrcSide!PortInit
<1> QED
  BY <1>1, NextIsPortTurn, PTL DEF Spec, ImplementsPrcPort, PrcSide!Spec
=============================================================================
