--------------------------- MODULE SignalContext ---------------------------
(***************************************************************************)
(* signalContext: the wires between the components.  Within one simulation *)
(* cycle every component reads the values the context stored at the end of *)
(* the previous cycle; refreshContext then stores the live values, so that *)
(* the components appear to step together.                                 *)
(*                                                                         *)
(* A live signal carries the name of the context's pointer to it, without  *)
(* the trailing underscore; the stored copy keeps its stored_ prefix.      *)
(* scheduled_task, scheduled_bs and transfer_bs are not latched: the       *)
(* context hands out copies of its owners' shared pointers.                *)
(***************************************************************************)
EXTENDS Application

CONSTANTS
  HandlesLive,        \* FALSE as built: the handles are null copies made at start-up
  TransferBsAtStart,  \* icap::transfer_bs_ at start-up, NoBs as built
  PrcMc,              \* prc::memory_counter_: 0 as built, set by the constructor alone
  Uninitialised,      \* icap::memory_counter_ at start-up: no constructor sets it
  GarbageBsIds,       \* possible values of bitstream_id_, which nothing ever sets
  NoTask              \* a null nallj::nodePtr

ASSUME SignalContextAssumption ==
  /\ HandlesLive \in BOOLEAN
  /\ TransferBsAtStart \in Bitstreams \cup {NoBs}
  /\ PrcMc \in Nat
  /\ Uninitialised \notin Nat
  /\ GarbageBsIds \subseteq Nat \cup {NoId}

VARIABLES
  phase,            \* whose turn it is within the cycle
  status,           \* "running", or how the process ended
  \* objects behind the shared pointers
  scheduled_task, scheduled_bs, transfer_bs,
  \* live signals of the PRC, the ICAP and the RR controllers
  prc_icap_req, prc_start_prr, prc_enqueue_prr,
  icap_prc_ack, icap_transfer, icap_prr_ctrl_req, icap_mc,
  prr_executing, prr_prc_ack, prr_icap_ack, rrc_bitstream,
  \* what the context stored
  stored_prc_icap_req, stored_prc_start_prr, stored_prc_enqueue_prr,
  stored_icap_prc_ack, stored_icap_transfer, stored_icap_prr_ctrl_req, stored_icap_mc,
  stored_prr_executing, stored_prr_prc_ack, stored_prr_icap_ack, stored_rrc_bitstream

processVars == <<phase, status>>
prcSignals == <<scheduled_task, scheduled_bs, prc_icap_req, prc_start_prr, prc_enqueue_prr>>
icapSignals == <<transfer_bs, icap_prc_ack, icap_transfer, icap_prr_ctrl_req, icap_mc>>
rrcSignals == <<prr_executing, prr_prc_ack, prr_icap_ack, rrc_bitstream>>
storedSignals ==
  <<stored_prc_icap_req, stored_prc_start_prr, stored_prc_enqueue_prr,
    stored_icap_prc_ack, stored_icap_transfer, stored_icap_prr_ctrl_req, stored_icap_mc,
    stored_prr_executing, stored_prr_prc_ack, stored_prr_icap_ack, stored_rrc_bitstream>>

Phases == {"prc", "icap", "rrc", "refresh"}

\* How a process ends: a null pointer is dereferenced, an exception reaches
\* main (which catches none), an assertion fails, or a value that nothing
\* defines is used.
Faults == {"segfault", "assertion", "user error", "unknown state", "already resident",
           "no task spec", "speed after start", "out of range", "undefined"}

\* The simulation loop of the device ends without a fault.
Finished == "finished"

Running == status = "running"

Off == [rr \in RrIds |-> FALSE]
BusType == [RrIds -> BOOLEAN]
BsIdType == Nat \cup {NoId}

----------------------------------------------------------------------------
\* The objects that the copies handed out by the context point to.

\* Mutant: the ICAP is handed its own bitstream.
OwnBitstream == IF HandlesLive THEN transfer_bs ELSE NoBs

\* accessContextPrcScheduledBitstream: taken while prc::scheduled_bs_ is null.
PrcScheduledBitstream == IF HandlesLive THEN scheduled_bs ELSE NoBs

\* Mutant: the task's handle is kept up to date.
TaskHandleKept == scheduled_task

\* accessContextCurrentTask; no controller keeps the pointer it is given.
PrcScheduledTask == IF HandlesLive THEN scheduled_task ELSE NoTask

\* Mutant: the controllers are handed the PRC's bitstream.
NotTheIcaps == IF HandlesLive THEN scheduled_bs ELSE NoBs

\* accessContextIcapTransferBitstream.
IcapTransferBitstream == IF HandlesLive THEN transfer_bs ELSE TransferBsAtStart

----------------------------------------------------------------------------
\* The signals at start-up.

ProcessInit == phase = "prc" /\ status = "running"

PrcSignalsInit ==
  /\ scheduled_task = NoTask /\ scheduled_bs = NoBs
  /\ prc_icap_req = FALSE
  /\ prc_start_prr = Off /\ prc_enqueue_prr = Off

IcapSignalsInit ==
  /\ transfer_bs = TransferBsAtStart
  /\ icap_prc_ack = FALSE /\ icap_transfer = FALSE
  /\ icap_prr_ctrl_req = Off
  /\ icap_mc = Uninitialised

\* No constructor sets prrLevelController::bitstream_id_.
RrcSignalsInit ==
  /\ prr_executing = Off /\ prr_prc_ack = Off /\ prr_icap_ack = Off
  /\ rrc_bitstream \in [RrIds -> GarbageBsIds]

StoredSignalsInit ==
  /\ stored_prc_icap_req = FALSE
  /\ stored_prc_start_prr = Off /\ stored_prc_enqueue_prr = Off
  /\ stored_icap_prc_ack = FALSE /\ stored_icap_transfer = FALSE
  /\ stored_icap_prr_ctrl_req = Off
  /\ stored_icap_mc = Uninitialised
  /\ stored_prr_executing = Off
  /\ stored_prr_prc_ack = FALSE /\ stored_prr_icap_ack = FALSE
  /\ stored_rrc_bitstream = [rr \in RrIds |-> NoId]

SignalsInit ==
  ProcessInit /\ PrcSignalsInit /\ IcapSignalsInit /\ RrcSignalsInit /\ StoredSignalsInit

SignalsTypeOK ==
  /\ phase \in Phases /\ status \in Faults \cup {"running", Finished}
  /\ prc_icap_req \in BOOLEAN /\ stored_prc_icap_req \in BOOLEAN
  /\ prc_start_prr \in BusType /\ stored_prc_start_prr \in BusType
  /\ prc_enqueue_prr \in BusType /\ stored_prc_enqueue_prr \in BusType
  /\ icap_prc_ack \in BOOLEAN /\ stored_icap_prc_ack \in BOOLEAN
  /\ icap_transfer \in BOOLEAN /\ stored_icap_transfer \in BOOLEAN
  /\ icap_prr_ctrl_req \in BusType /\ stored_icap_prr_ctrl_req \in BusType
  /\ {icap_mc, stored_icap_mc} \subseteq Nat \cup {Uninitialised}
  /\ prr_executing \in BusType /\ stored_prr_executing \in BusType
  /\ prr_prc_ack \in BusType /\ stored_prr_prc_ack \in BOOLEAN
  /\ prr_icap_ack \in BusType /\ stored_prr_icap_ack \in BOOLEAN
  /\ rrc_bitstream \in [RrIds -> BsIdType] /\ stored_rrc_bitstream \in [RrIds -> BsIdType]
  /\ scheduled_bs \in Bitstreams \cup {NoBs, DefaultBs}
  /\ transfer_bs \in Bitstreams \cup {NoBs, DefaultBs}

----------------------------------------------------------------------------
\* refreshContext, one part per component whose signals it stores.

RefreshPrcSignals ==
  /\ stored_prc_icap_req' = prc_icap_req
  /\ stored_prc_start_prr' = prc_start_prr
  /\ stored_prc_enqueue_prr' = prc_enqueue_prr

\* Mutant: the end of a transfer is not propagated.
RefreshIcapTransferOnce ==
  /\ stored_icap_mc' = icap_mc
  /\ stored_icap_prc_ack' = icap_prc_ack
  /\ stored_icap_transfer' = (stored_icap_transfer \/ icap_transfer)
  /\ stored_icap_prr_ctrl_req' = icap_prr_ctrl_req

RefreshIcapSignals ==
  /\ stored_icap_mc' = icap_mc
  /\ stored_icap_prc_ack' = icap_prc_ack
  /\ stored_icap_transfer' = icap_transfer
  /\ stored_icap_prr_ctrl_req' = icap_prr_ctrl_req

\* The acknowledgements of all controllers share one wire.
RefreshRrcSignals ==
  /\ stored_prr_prc_ack' = \E rr \in RrIds : prr_prc_ack[rr]
  /\ stored_prr_icap_ack' = \E rr \in RrIds : prr_icap_ack[rr]
  /\ stored_prr_executing' = prr_executing
  /\ stored_rrc_bitstream' = rrc_bitstream

RefreshContext ==
  /\ RefreshPrcSignals /\ RefreshIcapSignals /\ RefreshRrcSignals
  /\ UNCHANGED <<status, prcSignals, icapSignals, rrcSignals>>
=============================================================================
