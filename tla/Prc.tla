-------------------------------- MODULE Prc --------------------------------
(***************************************************************************)
(* prc::step: take a task from the scheduler, let the selector choose an   *)
(* RR and a bitstream for it, and request the transfer from the ICAP.      *)
(* No state stalls (prcStateStalls is all zeros).                          *)
(***************************************************************************)
EXTENDS SignalContext, LftFeSelector, FcfsScheduler

VARIABLE prc_state   \* next_state_

prcVars == <<prc_state, prcSignals, schedulerVars>>

PrcStates == {"INIT", "TASK_SCHEDULE", "RR_SCHEDULE", "REQ_ICAP", "RR_ENQUEUE"}

PrcTypeOK ==
  /\ SchedulerTypeOK
  /\ prc_state \in PrcStates
  /\ scheduled_task \in TaskNodes \cup {NoTask}
  /\ scheduled_bs \in Bitstreams \cup {NoBs, DefaultBs}

PrcInit == prc_state = "INIT" /\ PrcSignalsInit /\ SchedulerInit

PrcFault(fault) == status' = fault /\ UNCHANGED prcVars

----------------------------------------------------------------------------
\* case PRC_INIT
PrcLeaveInit ==
  /\ prc_state = "INIT"
  /\ prc_state' = "TASK_SCHEDULE"
  /\ UNCHANGED <<status, prcSignals, schedulerVars>>

\* Mutant: the next state is one that has been commented out.
PrcLatchTask ==
  /\ prc_state = "TASK_SCHEDULE"
  /\ PrepareNextTask
  /\ scheduled_task' = GetCurrentTask
  /\ prc_state' = "LATCH"
  /\ UNCHANGED <<status, scheduled_bs, prc_icap_req, prc_start_prr, prc_enqueue_prr>>

\* case PRC_TASK_SCHEDULE
PrcScheduleTask ==
  /\ prc_state = "TASK_SCHEDULE"
  /\ PrepareNextTask
  /\ scheduled_task' = GetCurrentTask
  /\ prc_state' = "RR_SCHEDULE"
  /\ UNCHANGED <<status, scheduled_bs, prc_icap_req, prc_start_prr, prc_enqueue_prr>>

PrcRunOutOfTasks ==
  /\ prc_state = "TASK_SCHEDULE"
  /\ ~CurrentTaskDefined
  /\ PrcFault("undefined")

----------------------------------------------------------------------------
\* case PRC_RR_SCHEDULE

\* What getBitstreamForTask may return for the scheduled task.
TargetBitstreams == BitstreamsForTask(TypeOf[scheduled_task], stored_prr_executing)

BsNotFound == TargetBitstreams = {}

TaskHasNoBitstream == CapableRrs(TypeOf[scheduled_task]) = {}

\* Mutant: the comparison is inverted.
NotAvailable(bs) == stored_rrc_bitstream[bs.region_id] # bs.id

\* target_bs_available
Available(bs) == stored_rrc_bitstream[bs.region_id] = bs.id

\* getRrForTask throws when no region at all can execute the task.
PrcReportTask ==
  /\ prc_state = "RR_SCHEDULE"
  /\ TaskHasNoBitstream
  /\ PrcFault("user error")

\* Mutant: the PRC waits for any transfer to end.
PrcAwaitTransferEnd ==
  /\ prc_state = "RR_SCHEDULE"
  /\ ~TaskHasNoBitstream
  /\ stored_icap_transfer
  /\ UNCHANGED <<status, prcVars>>

\* icap_target_rr_ is null; it is read whenever the ICAP is transferring.
PrcReadTargetRr ==
  /\ prc_state = "RR_SCHEDULE"
  /\ ~TaskHasNoBitstream
  /\ stored_icap_transfer
  /\ PrcFault("segfault")

\* Mutant: the refused task is tried again.
PrcRetryTask ==
  /\ prc_state = "RR_SCHEDULE"
  /\ ~TaskHasNoBitstream /\ BsNotFound /\ ~stored_icap_transfer
  /\ UNCHANGED <<status, prcVars>>

PrcRefuseTask ==
  /\ prc_state = "RR_SCHEDULE"
  /\ ~TaskHasNoBitstream /\ BsNotFound /\ ~stored_icap_transfer
  /\ scheduled_bs' = DefaultBs
  /\ prc_state' = "TASK_SCHEDULE"
  /\ UNCHANGED <<status, scheduled_task, prc_icap_req, prc_start_prr, prc_enqueue_prr,
                 schedulerVars>>

PrcEnqueue(bs) ==
  /\ Available(bs) /\ ~stored_icap_transfer
  /\ scheduled_bs' = bs
  /\ prc_state' = "RR_ENQUEUE"
  /\ UNCHANGED <<status, scheduled_task, prc_icap_req, prc_start_prr, prc_enqueue_prr,
                 schedulerVars>>

PrcRequest(bs) ==
  /\ ~Available(bs) /\ ~stored_icap_transfer
  /\ scheduled_bs' = bs
  /\ prc_icap_req' = TRUE
  /\ prc_state' = "REQ_ICAP"
  /\ UNCHANGED <<status, scheduled_task, prc_start_prr, prc_enqueue_prr, schedulerVars>>

PrcScheduleRr ==
  /\ prc_state = "RR_SCHEDULE"
  /\ \E bs \in TargetBitstreams : PrcEnqueue(bs) \/ PrcRequest(bs)

----------------------------------------------------------------------------
\* Mutant: the request is only pulsed.
PrcPulseRequest ==
  /\ prc_state = "REQ_ICAP"
  /\ ~stored_icap_prc_ack
  /\ prc_icap_req' = FALSE
  /\ UNCHANGED <<status, prc_state, scheduled_task, scheduled_bs, prc_start_prr,
                 prc_enqueue_prr, schedulerVars>>

\* case PRC_REQ_ICAP
PrcAwaitAck ==
  /\ prc_state = "REQ_ICAP"
  /\ ~stored_icap_prc_ack
  /\ UNCHANGED <<status, prcVars>>

\* Mutant: the PRC chooses for the old task again.
PrcRequestAgain ==
  /\ prc_state = "REQ_ICAP"
  /\ stored_icap_prc_ack
  /\ prc_icap_req' = FALSE
  /\ prc_state' = "RR_SCHEDULE"
  /\ UNCHANGED <<status, scheduled_task, scheduled_bs, prc_start_prr, prc_enqueue_prr,
                 schedulerVars>>

PrcRequestGranted ==
  /\ prc_state = "REQ_ICAP"
  /\ stored_icap_prc_ack
  /\ prc_icap_req' = FALSE
  /\ prc_state' = "TASK_SCHEDULE"
  /\ UNCHANGED <<status, scheduled_task, scheduled_bs, prc_start_prr, prc_enqueue_prr,
                 schedulerVars>>

\* default: PRC_RR_ENQUEUE has no case of its own.
PrcUnknownState ==
  /\ prc_state = "RR_ENQUEUE"
  /\ PrcFault("unknown state")

PrcStep ==
  \/ PrcLeaveInit
  \/ PrcScheduleTask \/ PrcRunOutOfTasks
  \/ PrcReportTask \/ PrcReadTargetRr \/ PrcRefuseTask \/ PrcScheduleRr
  \/ PrcAwaitAck \/ PrcRequestGranted
  \/ PrcUnknownState
=============================================================================
