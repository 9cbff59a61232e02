------------------------------ MODULE IcapPort ------------------------------
(***************************************************************************)
(* What the ICAP promises to the PRC and to the RR controllers, without    *)
(* latencies, stalls or faults: it acknowledges only a request that is up; *)
(* once the request is lowered it lowers the acknowledgement and, in the   *)
(* same step, takes over the PRC's bitstream, raises the request of that   *)
(* region alone and reports a transfer; it drops the controller's request  *)
(* only when acknowledged, and ends the transfer afterwards.               *)
(* It does not promise to acknowledge: it may be lost for good ("stuck").  *)
(* Every turn of the ICAP is a step of this module: it does not wait once  *)
(* the request is lowered or the controller has answered.                  *)
(***************************************************************************)
CONSTANTS RrIds

VARIABLES
  icap_at,     \* "free", "granting", "requesting", "transferring" or "stuck"
  icap_prc_ack, icap_transfer, icap_prr_ctrl_req, transfer_bs,
  offered_bs,  \* input: the bitstream the PRC's handle leads to
  stored_prc_icap_req, stored_prr_icap_ack,   \* inputs, as stored by the context
  turn,        \* input: it is the ICAP's turn
  ended        \* input: the process has ended

icapPortVars == <<icap_at, icap_prc_ack, icap_transfer, icap_prr_ctrl_req, transfer_bs>>
inputs == <<offered_bs, stored_prc_icap_req, stored_prr_icap_ack>>

PortInit ==
  /\ icap_at = "free"
  /\ icap_prc_ack = FALSE /\ icap_transfer = FALSE
  /\ icap_prr_ctrl_req = [rr \in RrIds |-> FALSE]

Wait ==
  /\ ~(icap_at = "granting" /\ ~stored_prc_icap_req)
  /\ ~(icap_at = "requesting" /\ stored_prr_icap_ack)
  /\ UNCHANGED icapPortVars

Grant ==
  /\ icap_at = "free" /\ stored_prc_icap_req
  /\ icap_at' = "granting"
  /\ icap_prc_ack' = TRUE
  /\ UNCHANGED <<icap_transfer, icap_prr_ctrl_req, transfer_bs>>

GetStuck ==
  /\ icap_at = "free" /\ stored_prc_icap_req
  /\ icap_at' = "stuck"
  /\ UNCHANGED <<icap_prc_ack, icap_transfer, icap_prr_ctrl_req, transfer_bs>>

TakeOver ==
  /\ icap_at = "granting" /\ ~stored_prc_icap_req
  /\ icap_at' = "requesting"
  /\ icap_prc_ack' = FALSE
  /\ icap_transfer' = TRUE
  /\ transfer_bs' = offered_bs
  /\ icap_prr_ctrl_req' = [rr \in RrIds |-> rr = offered_bs.region_id]

BeginTransfer ==
  /\ icap_at = "requesting" /\ stored_prr_icap_ack
  /\ icap_at' = "transferring"
  /\ icap_prr_ctrl_req' = [rr \in RrIds |-> FALSE]
  /\ UNCHANGED <<icap_prc_ack, icap_transfer, transfer_bs>>

EndTransfer ==
  /\ icap_at = "transferring"
  /\ icap_at' = "free"
  /\ icap_transfer' = FALSE
  /\ UNCHANGED <<icap_prc_ack, icap_prr_ctrl_req, transfer_bs>>

PortStep == Wait \/ Grant \/ GetStuck \/ TakeOver \/ BeginTransfer \/ EndTransfer

\* A turn of the component; the process may end in it instead.
PortTurn ==
  IF turn
    THEN /\ PortStep \/ (ended' /\ UNCHANGED icapPortVars)
         /\ UNCHANGED inputs
    ELSE UNCHANGED icapPortVars

portVars == <<icapPortVars, inputs, turn>>

Spec == PortInit /\ [][PortTurn]_portVars
=============================================================================
