-------------------------------- MODULE Icap --------------------------------
(***************************************************************************)
(* icap::step: grant the PRC's request, ask the RR controller of the       *)
(* target region, transfer the bitstream, report the end.                  *)
(***************************************************************************)
EXTENDS SignalContext

CONSTANTS
  GarbageStalls,    \* possible values of stall_count_, which nothing initialises
  TransferLatency,  \* calculateTransferLatency for each region
  ULongMax          \* the value that 0 - 1 wraps to in transfer_latency_

ASSUME IcapAssumption ==
  /\ GarbageStalls \subseteq Nat
  /\ TransferLatency \in [RrIds -> Nat]
  /\ ULongMax \in Nat

VARIABLES
  icap_state,       \* next_state_
  icap_stall,       \* stall_count_
  transfer_latency

icapVars == <<icap_state, icap_stall, transfer_latency, icapSignals>>

IcapStates == {"INIT", "IDLE", "ACK", "WAIT", "TRANSFER"}

IcapTypeOK ==
  /\ icap_state \in IcapStates
  /\ icap_stall \in Nat
  /\ transfer_latency \in Nat

\* transfer_latency_ is first written before it is first read.
IcapInit ==
  /\ icap_state = "INIT"
  /\ icap_stall \in GarbageStalls
  /\ transfer_latency = 0
  /\ IcapSignalsInit

At(state) == icap_stall = 0 /\ icap_state = state

\* The acknowledgement after the part of step() that all states share: it
\* does not outlive the request.
KeepAck == icap_prc_ack' = (icap_prc_ack /\ stored_prc_icap_req)

IcapFault(fault) == status' = fault /\ UNCHANGED icapVars

\* Nothing else than the acknowledgement and the state changes.
IcapOnlyMoves ==
  UNCHANGED <<status, icap_stall, transfer_latency,
              transfer_bs, icap_transfer, icap_prr_ctrl_req, icap_mc>>

----------------------------------------------------------------------------
IcapStall ==
  /\ icap_stall # 0
  /\ icap_stall' = icap_stall - 1
  /\ UNCHANGED <<status, icap_state, transfer_latency, icapSignals>>

\* case ICAP_INIT
IcapLeaveInit ==
  /\ At("INIT")
  /\ icap_state' = "IDLE" /\ KeepAck /\ IcapOnlyMoves

\* case ICAP_IDLE
IcapStayIdle ==
  /\ At("IDLE") /\ ~stored_prc_icap_req
  /\ KeepAck /\ IcapOnlyMoves /\ UNCHANGED icap_state

\* rrc_ready_for_transfer, as the code computes it: of the previous target.
RrcReadyForTransfer == stored_prr_executing[transfer_bs.region_id]

IcapGrant ==
  /\ At("IDLE") /\ stored_prc_icap_req /\ transfer_bs # NoBs
  /\ RrcReadyForTransfer
  /\ icap_prc_ack' = TRUE
  /\ icap_state' = "ACK" /\ IcapOnlyMoves

\* Mutant: every request is acknowledged.
IcapAckAnyway ==
  /\ At("IDLE") /\ stored_prc_icap_req /\ transfer_bs # NoBs
  /\ ~RrcReadyForTransfer
  /\ icap_prc_ack' = TRUE
  /\ icap_state' = "WAIT" /\ IcapOnlyMoves

IcapPutOff ==
  /\ At("IDLE") /\ stored_prc_icap_req /\ transfer_bs # NoBs
  /\ ~RrcReadyForTransfer
  /\ KeepAck
  /\ icap_state' = "WAIT" /\ IcapOnlyMoves

\* Mutant: without a target there is nothing to be ready.
IcapGrantFirst ==
  /\ At("IDLE") /\ stored_prc_icap_req /\ transfer_bs = NoBs
  /\ icap_prc_ack' = TRUE
  /\ icap_state' = "ACK" /\ IcapOnlyMoves

\* Mutant: the same, and the acknowledgement is forgotten.
IcapGrantSilently ==
  /\ At("IDLE") /\ stored_prc_icap_req /\ transfer_bs = NoBs
  /\ KeepAck
  /\ icap_state' = "ACK" /\ IcapOnlyMoves

\* The first request finds transfer_bs_ null.
IcapReadNoTarget ==
  /\ At("IDLE") /\ stored_prc_icap_req /\ transfer_bs = NoBs
  /\ IcapFault("segfault")

----------------------------------------------------------------------------
\* case ICAP_ACK
IcapHoldAck ==
  /\ At("ACK") /\ stored_prc_icap_req
  /\ icap_prc_ack
  /\ UNCHANGED <<status, icapVars>>

IcapAssertionFails ==
  /\ At("ACK") /\ stored_prc_icap_req
  /\ ~icap_prc_ack
  /\ IcapFault("assertion")

IcapTakeTarget ==
  /\ At("ACK") /\ ~stored_prc_icap_req
  /\ PrcScheduledBitstream # NoBs
  /\ icap_prc_ack' = FALSE
  /\ icap_mc' = PrcMc
  /\ transfer_bs' = PrcScheduledBitstream
  /\ icap_prr_ctrl_req' = [icap_prr_ctrl_req EXCEPT ![PrcScheduledBitstream.region_id] = TRUE]
  /\ icap_transfer' = TRUE
  /\ icap_state' = "WAIT"
  /\ UNCHANGED <<status, icap_stall, transfer_latency>>

IcapReadNoBitstream ==
  /\ At("ACK") /\ ~stored_prc_icap_req
  /\ PrcScheduledBitstream = NoBs
  /\ IcapFault("segfault")

----------------------------------------------------------------------------
\* Mutant: without a transfer to wait for, the ICAP is idle again.
IcapRetry ==
  /\ At("WAIT") /\ ~stored_prr_icap_ack
  /\ icap_state' = IF icap_transfer THEN "WAIT" ELSE "IDLE"
  /\ KeepAck /\ IcapOnlyMoves

\* case ICAP_WAIT
IcapAwaitRrc ==
  /\ At("WAIT") /\ ~stored_prr_icap_ack
  /\ KeepAck /\ IcapOnlyMoves /\ UNCHANGED icap_state

\* Mutant: the ICAP does not wait for the controller.
IcapBeginUnasked ==
  /\ At("WAIT") /\ icap_transfer
  /\ KeepAck
  /\ icap_prr_ctrl_req' = [icap_prr_ctrl_req EXCEPT ![transfer_bs.region_id] = FALSE]
  /\ transfer_latency' = TransferLatency[transfer_bs.region_id]
  /\ icap_state' = "TRANSFER"
  /\ UNCHANGED <<status, icap_stall, transfer_bs, icap_transfer, icap_mc>>

IcapBeginTransfer ==
  /\ At("WAIT") /\ stored_prr_icap_ack
  /\ KeepAck
  /\ icap_prr_ctrl_req' = [icap_prr_ctrl_req EXCEPT ![transfer_bs.region_id] = FALSE]
  /\ transfer_latency' = TransferLatency[transfer_bs.region_id]
  /\ icap_state' = "TRANSFER"
  /\ UNCHANGED <<status, icap_stall, transfer_bs, icap_transfer, icap_mc>>

\* Mutant: the latency is not counted down.
IcapTransferUncounted ==
  /\ At("TRANSFER") /\ transfer_latency # 0
  /\ KeepAck /\ IcapOnlyMoves /\ UNCHANGED icap_state

\* case ICAP_TRANSFER: transfer_latency_-- == 0
IcapTransfer ==
  /\ At("TRANSFER") /\ transfer_latency # 0
  /\ KeepAck
  /\ transfer_latency' = transfer_latency - 1
  /\ UNCHANGED <<status, icap_state, icap_stall,
                 transfer_bs, icap_transfer, icap_prr_ctrl_req, icap_mc>>

\* Mutant: the end of the transfer is not reported.
IcapEndSilently ==
  /\ At("TRANSFER") /\ transfer_latency = 0
  /\ KeepAck
  /\ transfer_latency' = ULongMax
  /\ icap_state' = "IDLE"
  /\ UNCHANGED <<status, icap_stall, transfer_bs, icap_transfer, icap_prr_ctrl_req, icap_mc>>

\* Mutant: the latency is signed.
IcapEndBelowZero ==
  /\ At("TRANSFER") /\ transfer_latency = 0
  /\ KeepAck
  /\ transfer_latency' = transfer_latency - 1
  /\ icap_transfer' = FALSE
  /\ icap_state' = "IDLE"
  /\ UNCHANGED <<status, icap_stall, transfer_bs, icap_prr_ctrl_req, icap_mc>>

IcapEndTransfer ==
  /\ At("TRANSFER") /\ transfer_latency = 0
  /\ KeepAck
  /\ transfer_latency' = ULongMax
  /\ icap_transfer' = FALSE
  /\ icap_state' = "IDLE"
  /\ UNCHANGED <<status, icap_stall, transfer_bs, icap_prr_ctrl_req, icap_mc>>

IcapStep ==
  \/ IcapStall
  \/ IcapLeaveInit
  \/ IcapStayIdle \/ IcapGrant \/ IcapPutOff \/ IcapReadNoTarget
  \/ IcapHoldAck \/ IcapAssertionFails \/ IcapTakeTarget \/ IcapReadNoBitstream
  \/ IcapAwaitRrc \/ IcapBeginTransfer
  \/ IcapTransfer \/ IcapEndTransfer
=============================================================================
