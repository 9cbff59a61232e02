---------------------------- MODULE RrController ----------------------------
(***************************************************************************)
(* prrLevelController::step, once per region, and the region and library   *)
(* levels of the memory hierarchy that it changes.                         *)
(*                                                                         *)
(* A module object is named by its region and id; the bitstream library    *)
(* holds one per bitstream, and every region starts with a placeholder.    *)
(* Regions and library share objects, so rr_module maps each object to its *)
(* record.  Within a step, first the enqueue and acknowledgement signals   *)
(* and an executing module are served (the definitions that end in Now),   *)
(* then the controller's state.                                            *)
(***************************************************************************)
EXTENDS SignalContext, RrModule, Sequences

CONSTANTS
  GarbageModules,  \* records a placeholder may have: its constructor sets no state
  HierarchyDepth   \* number of levels, the regions first and main memory last

ASSUME RrControllerAssumption ==
  /\ GarbageModules \subseteq ModuleType
  /\ HierarchyDepth \in Nat \ {0, 1}

VARIABLES
  rrc_state,           \* next_state_
  action_queue,        \* action_queue_: tasks to run
  icap_transfer_bs,    \* icap_transfer_bs_: the bitstream being received
  installed_bs,        \* installed_bs_
  prev_task_type,      \* prev_task_type_id_
  resident,            \* the region level: the object in each region
  rr_module,           \* the module objects
  next_rrc             \* i of the loop over the controllers in simulateApplication

rrcVars == <<rrc_state, action_queue, icap_transfer_bs, installed_bs, prev_task_type,
             resident, rr_module, rrcSignals>>

RrcStates == {"INIT", "IDLE", "TRANSFER"}

Placeholder(rr) == [region_id |-> rr, id |-> NoId]
Placeholders == {Placeholder(rr) : rr \in RrIds}
Objects == Bitstreams \cup Placeholders

\* A default-constructed std::string.
EmptyType == ""

RrcTypeOK ==
  /\ rrc_state \in [RrIds -> RrcStates]
  /\ \A rr \in RrIds : \A i \in DOMAIN action_queue[rr] : action_queue[rr][i] # NoTask
  /\ icap_transfer_bs \in [RrIds -> Bitstreams \cup {NoBs, DefaultBs}]
  /\ installed_bs \in [RrIds -> Bitstreams \cup {NoBs, DefaultBs}]
  /\ resident \in [RrIds -> Objects]
  /\ rr_module \in [Objects -> ModuleType]
  /\ next_rrc \in RrIds \cup {0}

RrcInit ==
  /\ rrc_state = [rr \in RrIds |-> "INIT"]
  /\ action_queue = [rr \in RrIds |-> <<>>]
  /\ icap_transfer_bs = [rr \in RrIds |-> NoBs]
  /\ installed_bs = [rr \in RrIds |-> NoBs]
  /\ prev_task_type = [rr \in RrIds |-> EmptyType]
  /\ resident = [rr \in RrIds |-> Placeholder(rr)]
  /\ rr_module \in {[obj \in Objects |-> IF obj \in Bitstreams THEN LibraryModule
                                                              ELSE garbage[obj.region_id]] :
                      garbage \in [RrIds -> GarbageModules]}
  /\ next_rrc = 0
  /\ RrcSignalsInit

RrcFault(fault) == status' = fault /\ UNCHANGED rrcVars

----------------------------------------------------------------------------
\* The part of step() that all states share.

\* An enqueue signal that is not acknowledged yet is served by reading the task.
Enqueuing(rr) == stored_prc_enqueue_prr[rr] /\ ~prr_prc_ack[rr]

\* The task pointer is null: connect() does not keep it.
CannotEnqueue(rr) == Enqueuing(rr) /\ PrcScheduledTask = NoTask

QueueNow(rr) ==
  IF Enqueuing(rr) THEN Append(action_queue[rr], PrcScheduledTask) ELSE action_queue[rr]

\* Mutant: the acknowledgement outlives the request.
IcapAckStays(rr) == prr_icap_ack[rr]

IcapAckNow(rr) == prr_icap_ack[rr] /\ stored_icap_prr_ctrl_req[rr]

ResidentModule(rr) == rr_module[resident[rr]]

Stepping(rr) == ResidentModule(rr).state = "EXEC"

ModulesNow(rr) ==
  IF Stepping(rr) THEN [rr_module EXCEPT ![resident[rr]] = StepModule(@)] ELSE rr_module

ModuleNow(rr) == ModulesNow(rr)[resident[rr]]

\* Mutant: PRR_EXE is not lowered.
ExecutingStays(rr) == prr_executing[rr]

\* Mutant: PRR_EXE is what the module in the region looks like.
ExecutingAsModule(rr) == ModuleNow(rr).state = "EXEC"

ExecutingNow(rr) ==
  prr_executing[rr] /\ ~(Stepping(rr) /\ FinishesOnStep(ResidentModule(rr)))

\* The enqueue signal is answered with its own value; bitstream_id_ is never written.
Served(rr) ==
  /\ prr_prc_ack' = [prr_prc_ack EXCEPT ![rr] = stored_prc_enqueue_prr[rr]]
  /\ UNCHANGED rrc_bitstream

Unaltered(rr) ==
  /\ Served(rr)
  /\ action_queue' = [action_queue EXCEPT ![rr] = QueueNow(rr)]
  /\ prr_icap_ack' = [prr_icap_ack EXCEPT ![rr] = IcapAckNow(rr)]
  /\ prr_executing' = [prr_executing EXCEPT ![rr] = ExecutingNow(rr)]
  /\ rr_module' = ModulesNow(rr)
  /\ UNCHANGED <<status, installed_bs, prev_task_type, resident>>

\* Why a task type cannot be started on an object with the installed bitstream.
HasSpec(bs, type) == bs \in Bitstreams /\ type \in DOMAIN Tasks[bs]

StartFault(bs, type, module) ==
  CASE ~HasSpec(bs, type) -> "no task spec"
    [] ~SpeedCanBeSet(module) -> "speed after start"
    [] OTHER -> "running"

----------------------------------------------------------------------------
RrcEnqueueNull(rr) == CannotEnqueue(rr) /\ RrcFault("segfault")

\* Mutant: the controller enters the state that step() only skips over.
RrcLeaveInitWaiting(rr) ==
  /\ rrc_state[rr] = "INIT"
  /\ rrc_state' = [rrc_state EXCEPT ![rr] = "WAIT"]
  /\ Unaltered(rr) /\ UNCHANGED icap_transfer_bs

\* case PRR_INIT
RrcLeaveInit(rr) ==
  /\ rrc_state[rr] = "INIT"
  /\ rrc_state' = [rrc_state EXCEPT ![rr] = "IDLE"]
  /\ Unaltered(rr) /\ UNCHANGED icap_transfer_bs

InState(rr, state) == rrc_state[rr] = state /\ ~CannotEnqueue(rr)

Pending(rr) == QueueNow(rr) # <<>>

\* case PRR_IDLE, a task is queued but the module is not idle, or a start signal
\* finds the module not idle, or there is nothing to do.
RrcStayIdle(rr) ==
  /\ InState(rr, "IDLE")
  /\ \/ (Pending(rr) \/ stored_prc_start_prr[rr]) /\ ModuleNow(rr).state # "IDLE"
     \/ ~Pending(rr) /\ ~stored_prc_start_prr[rr] /\ ~stored_icap_prr_ctrl_req[rr]
  /\ Unaltered(rr) /\ UNCHANGED <<rrc_state, icap_transfer_bs>>

\* case PRR_IDLE, the head of the queue is to run on the idle module.
RrcRunQueued(rr) ==
  LET task == Head(QueueNow(rr))
      fault == StartFault(installed_bs[rr], TypeOf[task], ModuleNow(rr))
  IN
  /\ InState(rr, "IDLE") /\ Pending(rr) /\ ModuleNow(rr).state = "IDLE"
  /\ status' = fault
  /\ IF fault # "running"
       THEN UNCHANGED rrcVars
       ELSE /\ Served(rr)
            /\ action_queue' = [action_queue EXCEPT ![rr] = Tail(QueueNow(rr))]
            /\ prr_icap_ack' = [prr_icap_ack EXCEPT ![rr] = IcapAckNow(rr)]
            /\ prr_executing' = [prr_executing EXCEPT ![rr] = TRUE]
            /\ prev_task_type' = [prev_task_type EXCEPT ![rr] = TypeOf[task]]
            /\ rr_module' = [ModulesNow(rr) EXCEPT ![resident[rr]] =
                               BeginExecution(@, Tasks[installed_bs[rr]][TypeOf[task]].latency)]
            /\ UNCHANGED <<rrc_state, icap_transfer_bs, installed_bs, resident>>

\* case PRR_IDLE, the PRC starts the idle module: the task and bitstream
\* handles are copied, then the module of the bitstream's region is started
\* with the type of the last task taken from the queue.
RrcStart(rr) ==
  LET target == resident[PrcScheduledBitstream.region_id]
      fault == StartFault(installed_bs[rr], prev_task_type[rr], ModulesNow(rr)[target])
  IN
  /\ InState(rr, "IDLE") /\ ~Pending(rr)
  /\ stored_prc_start_prr[rr] /\ ModuleNow(rr).state = "IDLE"
  /\ IF PrcScheduledTask = NoTask \/ PrcScheduledBitstream = NoBs
       THEN RrcFault("segfault")
       ELSE /\ status' = fault
            /\ IF fault # "running"
                 THEN UNCHANGED rrcVars
                 ELSE /\ Served(rr)
                      /\ prr_icap_ack' = [prr_icap_ack EXCEPT ![rr] = IcapAckNow(rr)]
                      /\ prr_executing' = [prr_executing EXCEPT ![rr] = TRUE]
                      /\ rr_module' = [ModulesNow(rr) EXCEPT ![target] =
                           BeginExecution(@, Tasks[installed_bs[rr]][prev_task_type[rr]].latency)]
                      /\ UNCHANGED <<rrc_state, action_queue, icap_transfer_bs, installed_bs,
                                     prev_task_type, resident>>

----------------------------------------------------------------------------
\* case PRR_IDLE, the ICAP requests the region.
Requested(rr) ==
  /\ InState(rr, "IDLE") /\ ~Pending(rr)
  /\ ~stored_prc_start_prr[rr] /\ stored_icap_prr_ctrl_req[rr]

Target(bs) == resident[bs.region_id]

RrcReadNoBitstream(rr) ==
  Requested(rr) /\ IcapTransferBitstream = NoBs /\ RrcFault("segfault")

\* "This state should never occur."
RrcAlreadyResident(rr) ==
  /\ Requested(rr) /\ IcapTransferBitstream # NoBs
  /\ Target(IcapTransferBitstream).id = IcapTransferBitstream.id
  /\ RrcFault("already resident")

RrcAccept(rr) ==
  LET bs == IcapTransferBitstream IN
  /\ Requested(rr) /\ bs # NoBs
  /\ Target(bs).id # bs.id
  /\ ~IsRunning(ModulesNow(rr)[Target(bs)])
  /\ Served(rr)
  /\ icap_transfer_bs' = [icap_transfer_bs EXCEPT ![rr] = bs]
  /\ prr_icap_ack' = [prr_icap_ack EXCEPT ![rr] = TRUE]
  /\ prr_executing' = [prr_executing EXCEPT ![rr] = ExecutingNow(rr)]
  /\ rr_module' = [ModulesNow(rr) EXCEPT ![Target(bs)] = BeginTransfer(@)]
  /\ rrc_state' = [rrc_state EXCEPT ![rr] = "TRANSFER"]
  /\ UNCHANGED <<status, action_queue, installed_bs, prev_task_type, resident>>

RrcRefuse(rr) ==
  LET bs == IcapTransferBitstream IN
  /\ Requested(rr) /\ bs # NoBs
  /\ Target(bs).id # bs.id
  /\ IsRunning(ModulesNow(rr)[Target(bs)])
  /\ icap_transfer_bs' = [icap_transfer_bs EXCEPT ![rr] = bs]
  /\ Unaltered(rr) /\ UNCHANGED rrc_state

----------------------------------------------------------------------------
\* case PRR_TRANSFER
RrcReceive(rr) ==
  /\ InState(rr, "TRANSFER") /\ stored_icap_transfer
  /\ Unaltered(rr) /\ UNCHANGED <<rrc_state, icap_transfer_bs>>

\* Mutant: every level of the hierarchy holds the library.
FetchFromAnyLevel(mc) ==
  CASE mc = Uninitialised -> "undefined"
    [] mc \in Nat /\ mc >= HierarchyDepth -> "out of range"
    [] OTHER -> "running"

\* memory_hierarchy_->at(*icap_mc_)->getModule(region_id, module_id).  Only main
\* memory is ever filled: the regions are no memoryLevel and a cache yields null.
FetchFault(mc) ==
  CASE mc = Uninitialised -> "undefined"
    [] mc \in Nat /\ mc >= HierarchyDepth -> "out of range"
    [] mc \in Nat /\ mc < HierarchyDepth - 1 -> "segfault"
    [] OTHER -> "running"

\* What stops the installation of the received bitstream, in the order of the code.
InstallFault(rr) ==
  LET bs == icap_transfer_bs[rr] IN
  CASE FetchFault(stored_icap_mc) # "running" -> FetchFault(stored_icap_mc)
    [] bs \notin Bitstreams \/ IcapTransferBitstream = NoBs -> "segfault"
    [] OTHER -> StartFault(IcapTransferBitstream, prev_task_type[rr], ModulesNow(rr)[bs])

RrcInstall(rr) ==
  LET bs == icap_transfer_bs[rr]
      fault == InstallFault(rr)
  IN
  /\ InState(rr, "TRANSFER") /\ ~stored_icap_transfer
  /\ status' = fault
  /\ IF fault # "running"
       THEN UNCHANGED rrcVars
       ELSE /\ Served(rr)
            /\ action_queue' = [action_queue EXCEPT ![rr] = QueueNow(rr)]
            /\ prr_icap_ack' = [prr_icap_ack EXCEPT ![rr] = IcapAckNow(rr)]
            /\ resident' = [resident EXCEPT ![bs.region_id] = bs]
            /\ installed_bs' = [installed_bs EXCEPT ![rr] = IcapTransferBitstream]
            /\ rr_module' = [ModulesNow(rr) EXCEPT ![bs] =
                 BeginExecution(@, Tasks[IcapTransferBitstream][prev_task_type[rr]].latency)]
            /\ prr_executing' = [prr_executing EXCEPT ![rr] = TRUE]
            /\ rrc_state' = [rrc_state EXCEPT ![rr] = "IDLE"]
            /\ UNCHANGED <<icap_transfer_bs, prev_task_type>>

RrcStep(rr) ==
  \/ RrcEnqueueNull(rr)
  \/ RrcLeaveInit(rr) /\ ~CannotEnqueue(rr)
  \/ RrcStayIdle(rr) \/ RrcRunQueued(rr) \/ RrcStart(rr)
  \/ RrcReadNoBitstream(rr) \/ RrcAlreadyResident(rr) \/ RrcAccept(rr) \/ RrcRefuse(rr)
  \/ RrcReceive(rr) \/ RrcInstall(rr)

\* The controllers step one after the other, 0 first, if there are any.
RrcTurnStep ==
  /\ phase = "rrc"
  /\ \/ next_rrc \in RrIds /\ RrcStep(next_rrc)
     \/ RrIds = {} /\ UNCHANGED <<status, rrcVars>>
  /\ next_rrc' = IF next_rrc + 1 < RrCount THEN next_rrc + 1 ELSE 0
  /\ phase' = IF next_rrc + 1 < RrCount THEN "rrc" ELSE "refresh"
=============================================================================
