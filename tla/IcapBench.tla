------------------------------ MODULE IcapBench ------------------------------
(***************************************************************************)
(* The ICAP between any PRC that keeps PrcPort and any RR controllers that *)
(* keep RrcPort, stepped in the order of device::simulateApplication.      *)
(***************************************************************************)
EXTENDS Icap

VARIABLES
  prc_at,        \* control of the abstract PRC
  requested_bs   \* history: the bitstream of the latest request

PrcSide == INSTANCE PrcPort WITH turn <- phase = "prc", ended <- ~Running
RrcSide == INSTANCE RrcPort
  WITH turns <- IF phase = "rrc" THEN RrIds ELSE {}, ended <- ~Running

vars == <<processVars, icapVars, prcSignals, rrcSignals, storedSignals, prc_at, requested_bs>>

BenchInit ==
  /\ ProcessInit /\ PrcSignalsInit /\ RrcSignalsInit /\ StoredSignalsInit
  /\ IcapInit
  /\ PrcSide!PortInit
  /\ requested_bs = NoBs

PrcTurn ==
  /\ Running /\ phase = "prc" /\ phase' = "icap"
  /\ PrcSide!PortStep
  /\ requested_bs' = IF prc_icap_req' /\ ~prc_icap_req THEN scheduled_bs' ELSE requested_bs
  /\ UNCHANGED <<status, scheduled_task, prc_start_prr, prc_enqueue_prr,
                 icapVars, rrcSignals, storedSignals>>

IcapTurn ==
  /\ Running /\ phase = "icap" /\ phase' = "rrc"
  /\ IcapStep
  /\ UNCHANGED <<prcSignals, rrcSignals, storedSignals, prc_at, requested_bs>>

RrcTurn ==
  /\ Running /\ phase = "rrc" /\ phase' = "refresh"
  /\ RrcSide!PortSteps(RrIds)
  /\ UNCHANGED <<status, prcSignals, icapVars, storedSignals, prc_at, requested_bs>>

Refresh ==
  /\ Running /\ phase = "refresh" /\ phase' = "prc"
  /\ RefreshContext
  /\ UNCHANGED <<icap_state, icap_stall, transfer_latency, prc_at, requested_bs>>

Next == PrcTurn \/ IcapTurn \/ RrcTurn \/ Refresh

Spec == BenchInit /\ [][Next]_vars

\* The simulation loop never pauses between two steps.
FairSpec == Spec /\ WF_vars(Next)

----------------------------------------------------------------------------
\* Type invariant of the ICAP and of the signals around it.
TypeOK == SignalsTypeOK /\ IcapTypeOK /\ requested_bs \in Bitstreams \cup {NoBs}

\* The acknowledgement is up exactly while the ICAP is in ICAP_ACK, so that
\* the assertion at the head of that state never fails (icap.cpp:119-123).
AckExactlyInAck ==
  /\ icap_prc_ack <=> icap_state = "ACK"
  /\ status # "assertion"

\* A controller is asked for its region only by a transfer under way that
\* waits for that region: never two controllers at once, never one whose
\* answer the ICAP would not use (icap.cpp:137-151, 163-181).
RequestsAreTheTargets ==
  \A rr \in RrIds : icap_prr_ctrl_req[rr] =>
    /\ icap_transfer /\ icap_state = "WAIT"
    /\ transfer_bs.region_id = rr

\* The ICAP has a granted request exactly while a transfer is reported; an
\* ICAP in ICAP_WAIT without one was put off in ICAP_IDLE.
PutOff == icap_state = "WAIT" /\ ~icap_transfer

\* A request that finds its region not ready is never served: an ICAP that
\* was put off raises no request to any controller, no controller answers,
\* and it waits for good (icap.cpp:109-111, 160-188).
PutOffForGood == [][PutOff => PutOff']_vars

\* What is transferred is what was requested: although the PRC's bitstream
\* is read through a pointer, two cycles after the grant and without a latch,
\* the PRC has not yet moved on to another one (icap.cpp:134-135, prc.cpp:152-157).
RequestedTarget == [][icap_transfer' /\ ~icap_transfer => transfer_bs' = requested_bs]_vars

\* All controllers acknowledge on one wire, but the answer that starts a
\* transfer is the target's own (signalContext.cpp:343-364, icap.cpp:168-180).
AnsweredByTarget ==
  [][icap_state' = "TRANSFER" /\ icap_state = "WAIT" =>
       /\ prr_icap_ack[transfer_bs.region_id]
       /\ \A rr \in RrIds \ {transfer_bs.region_id} : ~prr_icap_ack[rr]]_vars

\* A transfer that began ends (icap.cpp:189-201).
TransferEnds == icap_state = "TRANSFER" ~> icap_state = "IDLE"

----------------------------------------------------------------------------
\* The ICAP implements IcapPort, with the stuck state hidden in ICAP_WAIT.
IcapAt ==
  CASE icap_state \in {"INIT", "IDLE"} -> "free"
    [] icap_state = "ACK" -> "granting"
    [] icap_state = "TRANSFER" -> "transferring"
    [] icap_state = "WAIT" -> IF icap_transfer THEN "requesting" ELSE "stuck"

IcapSide == INSTANCE IcapPort
  WITH icap_at <- IcapAt, offered_bs <- PrcScheduledBitstream,
       turn <- phase = "icap", ended <- ~Running

ImplementsIcapPort == IcapSide!Spec
=============================================================================
