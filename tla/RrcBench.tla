------------------------------ MODULE RrcBench ------------------------------
(***************************************************************************)
(* The RR controllers between any PRC that keeps PrcPort and any ICAP that *)
(* keeps IcapPort.  PrcPort says nothing of the start and enqueue signals, *)
(* which prc::step never raises: here the PRC may raise them at will, a    *)
(* start only for the region of its bitstream and only while it keeps it.  *)
(***************************************************************************)
EXTENDS RrController

CONSTANTS
  TaskNodes,   \* the tasks the PRC may schedule
  MaxQueue     \* bound: no enqueue signal is raised for a longer queue

VARIABLES prc_at, icap_at   \* control of the abstract PRC and ICAP

PrcSide == INSTANCE PrcPort WITH turn <- phase = "prc", ended <- ~Running
IcapSide == INSTANCE IcapPort
  WITH offered_bs <- PrcScheduledBitstream, turn <- phase = "icap", ended <- ~Running
RrcSide == INSTANCE RrcPort
  WITH turns <- IF phase = "rrc" THEN {next_rrc} \cap RrIds ELSE {}, ended <- ~Running

vars == <<processVars, rrcVars, next_rrc, prcSignals, icapSignals, storedSignals,
          prc_at, icap_at>>

BenchInit ==
  /\ ProcessInit /\ PrcSignalsInit /\ IcapSignalsInit /\ StoredSignalsInit
  /\ RrcInit
  /\ PrcSide!PortInit /\ IcapSide!PortInit

StartsOwnBitstream ==
  /\ \A rr \in RrIds : prc_start_prr'[rr] =>
       scheduled_bs' # NoBs /\ scheduled_bs'.region_id = rr
  /\ prc_start_prr # Off => scheduled_bs' = scheduled_bs

EnqueuesWithinBound ==
  \A rr \in RrIds : prc_enqueue_prr'[rr] => Len(action_queue[rr]) < MaxQueue

PrcTurn ==
  /\ Running /\ phase = "prc" /\ phase' = "icap"
  /\ PrcSide!PortStep
  /\ scheduled_task' \in IF scheduled_bs' = NoBs THEN {NoTask} ELSE TaskNodes
  /\ prc_start_prr' \in BusType /\ StartsOwnBitstream
  /\ prc_enqueue_prr' \in BusType /\ EnqueuesWithinBound
  /\ UNCHANGED <<status, rrcVars, next_rrc, icapSignals, storedSignals, icap_at>>

\* The bitstream to take over is behind a null handle.
TakesOverNull ==
  icap_at = "granting" /\ ~stored_prc_icap_req /\ PrcScheduledBitstream = NoBs

IcapTurn ==
  /\ Running /\ phase = "icap" /\ phase' = "rrc"
  /\ ~TakesOverNull
  /\ IcapSide!PortStep
  /\ icap_mc' = IF icap_at = "granting" /\ icap_at' = "requesting" THEN PrcMc ELSE icap_mc
  /\ UNCHANGED <<status, rrcVars, next_rrc, prcSignals, storedSignals, prc_at>>

IcapReadNoBitstream ==
  /\ Running /\ phase = "icap" /\ phase' = "rrc"
  /\ TakesOverNull
  /\ status' = "segfault"
  /\ UNCHANGED <<rrcVars, next_rrc, prcSignals, icapSignals, storedSignals, prc_at, icap_at>>

RrcTurn ==
  /\ Running
  /\ RrcTurnStep
  /\ UNCHANGED <<prcSignals, icapSignals, storedSignals, prc_at, icap_at>>

Refresh ==
  /\ Running /\ phase = "refresh" /\ phase' = "prc"
  /\ RefreshContext
  /\ UNCHANGED <<rrc_state, action_queue, icap_transfer_bs, installed_bs, prev_task_type,
                 resident, rr_module, next_rrc, prc_at, icap_at>>

Next == PrcTurn \/ IcapTurn \/ IcapReadNoBitstream \/ RrcTurn \/ Refresh

Spec == BenchInit /\ [][Next]_vars

\* The simulation loop never pauses, and the ICAP ends the transfers it
\* begins (TransferEnds of IcapBench).
FairSpec ==
  /\ Spec /\ WF_vars(Next)
  /\ SF_vars(IcapTurn /\ IcapSide!EndTransfer)

----------------------------------------------------------------------------
\* Type invariant of the controllers, the modules and the signals around them.
TypeOK == SignalsTypeOK /\ RrcTypeOK

\* PRR_EXE tells the truth: it is up exactly while the region's module, and
\* not whatever a placeholder's memory holds, is in EXEC
\* (prrLevelController.cpp:124-129, 185, 226, 358).
ExecutingTruthful ==
  \A rr \in RrIds :
    prr_executing[rr] <=> resident[rr] \in Bitstreams /\ ResidentModule(rr).state = "EXEC"

\* A region receives a bitstream only over its placeholder, and its module is
\* marked as receiving for as long as the controller waits
\* (prrLevelController.cpp:281-290, 327-359).
ReceivesOverPlaceholder ==
  \A rr \in RrIds : rrc_state[rr] = "TRANSFER" =>
    /\ resident[rr] = Placeholder(rr)
    /\ ResidentModule(rr).state = "TRANSFER"
    /\ icap_transfer_bs[rr] \in Bitstreams /\ icap_transfer_bs[rr].region_id = rr

\* The controller's record of the installed bitstream and the module in the
\* region agree, although the record is copied through the ICAP's pointer a
\* second time when the transfer is over (prrLevelController.cpp:256, 331-345).
InstalledIsResident ==
  \A rr \in RrIds : resident[rr] \in Bitstreams => installed_bs[rr] = resident[rr]

\* A region is programmed once per run at most: executing_ is never reset, so
\* every later request finds the region running (rrModule.cpp:113-116, 149-151,
\* prrLevelController.cpp:281).
ProgrammedOnce ==
  [][\A rr \in RrIds : resident[rr] \in Bitstreams => resident'[rr] = resident[rr]]_vars

\* A module starts executing only as it is installed.  The texts promise more
\* (README.md:44, prrLevelController.cpp:165, 191-193: a queued task and a start
\* signal begin an execution, too), but a module that has run once refuses a
\* speed, and the step that wanted to start it throws
\* (prrLevelController.cpp:169-185, 204-226, rrModule.cpp:77-83, 128-129).
StartsOnlyAsInstalled ==
  [][\A rr \in RrIds : prr_executing'[rr] /\ ~prr_executing[rr] => resident'[rr] # resident[rr]]_vars

\* A transfer the controller accepted is installed, or ends the process
\* (prrLevelController.cpp:324-366).
TransferIsInstalled ==
  \A rr \in RrIds : rrc_state[rr] = "TRANSFER" ~> (rrc_state[rr] = "IDLE" \/ ~Running)

\* The controllers implement RrcPort.
ImplementsRrcPort == RrcSide!Spec

----------------------------------------------------------------------------
\* As it is wired, every handle is null: whatever the PRC enqueues, starts or
\* requests, and whatever the ICAP grants, no controller queues a task, accepts
\* a transfer or executes.  Who follows a handle first ends the process
\* (signalContext.cpp:41-50, prrLevelController.cpp:53-62, 84, 206-207,
\* icap.cpp:134).
NothingGetsThrough ==
  \A rr \in RrIds :
    action_queue[rr] = <<>> /\ rrc_state[rr] # "TRANSFER" /\ ~prr_executing[rr]

\* While ICAP_MC points above main memory, as prc::memory_counter_ always does,
\* no accepted transfer is ever installed and no region executes, even with
\* live handles: the level it leads to is no memoryLevel, or an empty one
\* (prrLevelController.cpp:335-342, icap.cpp:130).
NothingInstalled ==
  \A rr \in RrIds :
    resident[rr] = Placeholder(rr) /\ installed_bs[rr] = NoBs /\ ~prr_executing[rr]

----------------------------------------------------------------------------
\* prrLevelController.cpp:191-193: "always handle requests from the PRC to begin
\* execution first; the target module is already present and all that is needed
\* is a simple run request", and :165: "Answering enqueued requests takes
\* greatest priority."  A controller whose module is idle and executes the task
\* begins execution when it is started or has a task queued.
BeginsOnRequest ==
  [][\A rr \in RrIds :
       /\ phase = "rrc" /\ next_rrc = rr /\ InState(rr, "IDLE")
       /\ resident[rr] \in Bitstreams /\ ModuleNow(rr).state = "IDLE"
       /\ \/ Pending(rr) /\ HasSpec(resident[rr], TypeOf[Head(QueueNow(rr))])
          \/ ~Pending(rr) /\ stored_prc_start_prr[rr] /\ scheduled_bs = resident[rr]
       => prr_executing'[rr]]_vars
=============================================================================
