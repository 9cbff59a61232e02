------------------------------- MODULE RrcPort -------------------------------
(***************************************************************************)
(* What the RR controllers promise to the PRC and to the ICAP: one of them *)
(* acknowledges a transfer only while its own request is up and drops the  *)
(* acknowledgement with the request, and answers the PRC's enqueue signal  *)
(* with the same value.  Nothing is promised about executing regions, and  *)
(* bitstream_id_ never changes.                                            *)
(***************************************************************************)
CONSTANTS RrIds

VARIABLES
  prr_executing, prr_prc_ack, prr_icap_ack, rrc_bitstream,
  stored_icap_prr_ctrl_req, stored_prc_enqueue_prr,   \* inputs, as stored by the context
  turns,   \* input: the controllers whose turn it is
  ended    \* input: the process has ended

rrcPortVars == <<prr_executing, prr_prc_ack, prr_icap_ack, rrc_bitstream>>
inputs == <<stored_icap_prr_ctrl_req, stored_prc_enqueue_prr>>

PortInit ==
  /\ prr_executing = [rr \in RrIds |-> FALSE]
  /\ prr_prc_ack = [rr \in RrIds |-> FALSE]
  /\ prr_icap_ack = [rr \in RrIds |-> FALSE]

\* The step of the controllers in the set rrs.
PortSteps(rrs) ==
  /\ prr_executing' \in [RrIds -> BOOLEAN]
  /\ prr_icap_ack' \in [RrIds -> BOOLEAN]
  /\ \A rr \in rrs :
       /\ prr_icap_ack'[rr] => stored_icap_prr_ctrl_req[rr]
       /\ prr_icap_ack[rr] /\ stored_icap_prr_ctrl_req[rr] => prr_icap_ack'[rr]
  /\ prr_prc_ack' = [rr \in RrIds |-> IF rr \in rrs THEN stored_prc_enqueue_prr[rr]
                                                    ELSE prr_prc_ack[rr]]
  /\ \A rr \in RrIds \ rrs :
       prr_executing'[rr] = prr_executing[rr] /\ prr_icap_ack'[rr] = prr_icap_ack[rr]
  /\ UNCHANGED rrc_bitstream

\* A turn of some controllers; the process may end in it instead.
PortTurn ==
  IF turns # {}
    THEN /\ PortSteps(turns) \/ (ended' /\ UNCHANGED rrcPortVars)
         /\ UNCHANGED inputs
    ELSE UNCHANGED rrcPortVars

portVars == <<rrcPortVars, inputs, turns>>

Spec == PortInit /\ [][PortTurn]_portVars
=============================================================================
