------------------------------ MODULE PrcPort ------------------------------
(***************************************************************************)
(* What the PRC promises to the ICAP, without tasks, selection or faults:  *)
(* it raises its request together with the bitstream it wants, holds both  *)
(* until it sees the acknowledgement, and after it has lowered the request *)
(* takes at least one more step before it touches the bitstream again (the *)
(* step in which prc::step asks the scheduler for the next task).          *)
(***************************************************************************)
CONSTANTS Bitstreams, NoBs, DefaultBs

VARIABLES
  prc_at,               \* "between" requests, "choosing" a bitstream or "requesting" it
  prc_icap_req,
  scheduled_bs,
  stored_icap_prc_ack,  \* input: the acknowledgement as stored by the context
  turn,                 \* input: it is the PRC's turn
  ended                 \* input: the process has ended

prcPortVars == <<prc_at, prc_icap_req, scheduled_bs>>

PortInit == prc_at = "between" /\ prc_icap_req = FALSE /\ scheduled_bs = NoBs

Proceed ==
  /\ prc_at = "between"
  /\ prc_at' \in {"between", "choosing"}
  /\ UNCHANGED <<prc_icap_req, scheduled_bs>>

ChooseNothing ==
  /\ prc_at = "choosing"
  /\ prc_at' = "between"
  /\ scheduled_bs' \in Bitstreams \cup {DefaultBs}
  /\ UNCHANGED prc_icap_req

Request ==
  /\ prc_at = "choosing"
  /\ prc_at' = "requesting"
  /\ scheduled_bs' \in Bitstreams
  /\ prc_icap_req' = TRUE

Hold ==
  /\ prc_at = "requesting" /\ ~stored_icap_prc_ack
  /\ UNCHANGED prcPortVars

Release ==
  /\ prc_at = "requesting" /\ stored_icap_prc_ack
  /\ prc_at' = "between"
  /\ prc_icap_req' = FALSE
  /\ UNCHANGED scheduled_bs

PortStep == Proceed \/ ChooseNothing \/ Request \/ Hold \/ Release

\* A turn of the component; the process may end in it instead.
PortTurn ==
  IF turn
    THEN /\ PortStep \/ (ended' /\ UNCHANGED prcPortVars)
         /\ UNCHANGED stored_icap_prc_ack
    ELSE UNCHANGED prcPortVars

portVars == <<prcPortVars, stored_icap_prc_ack, turn>>

Spec == PortInit /\ [][PortTurn]_portVars
=============================================================================
