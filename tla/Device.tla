------------------------------- MODULE Device -------------------------------
(***************************************************************************)
(* device::simulateApplication: the PRC, the ICAP and the RR controllers   *)
(* step one after the other, the context stores their signals, and the     *)
(* loop ends after the cycles asked for or after a fixed number of them.   *)
(***************************************************************************)
EXTENDS Prc, Icap, RrController

CONSTANTS
  StopCcc,   \* the parameter stop_ccc
  DebugStop  \* the safety stop, 1000 in the code

ASSUME DeviceAssumption == StopCcc \in Nat /\ DebugStop \in Nat \ {0}

VARIABLE ccc   \* simulated cycles

prcLocals == <<prc_state, schedulerVars>>
icapLocals == <<icap_state, icap_stall, transfer_latency>>
rrcLocals == <<rrc_state, action_queue, icap_transfer_bs, installed_bs, prev_task_type,
               resident, rr_module, next_rrc>>

vars == <<processVars, prcVars, icapVars, rrcVars, next_rrc, storedSignals, ccc>>

\* Mutant: one cycle too many.
LoopEndsLate(cycles) == cycles > StopCcc \/ cycles = DebugStop + 1

\* The while condition, and the breaks at the end of its body.
LoopEnds(cycles) == cycles >= StopCcc \/ cycles = DebugStop

DeviceInit ==
  /\ phase = "prc"
  /\ status = IF StopCcc = 0 THEN Finished ELSE "running"
  /\ PrcInit /\ IcapInit /\ RrcInit /\ StoredSignalsInit
  /\ ccc = 0

PrcTurn ==
  /\ Running /\ phase = "prc" /\ phase' = "icap"
  /\ PrcStep
  /\ UNCHANGED <<icapVars, rrcVars, next_rrc, storedSignals, ccc>>

IcapTurn ==
  /\ Running /\ phase = "icap" /\ phase' = "rrc"
  /\ IcapStep
  /\ UNCHANGED <<prcVars, rrcVars, next_rrc, storedSignals, ccc>>

RrcTurn ==
  /\ Running
  /\ RrcTurnStep
  /\ UNCHANGED <<prcVars, icapVars, storedSignals, ccc>>

Refresh ==
  /\ Running /\ phase = "refresh" /\ phase' = "prc"
  /\ RefreshPrcSignals /\ RefreshIcapSignals /\ RefreshRrcSignals
  /\ ccc' = ccc + 1
  /\ status' = IF LoopEnds(ccc + 1) THEN Finished ELSE "running"
  /\ UNCHANGED <<prcVars, icapVars, rrcVars, next_rrc>>

Next == PrcTurn \/ IcapTurn \/ RrcTurn \/ Refresh

Spec == DeviceInit /\ [][Next]_vars

\* A single thread runs the loop and never waits.
FairSpec == Spec /\ WF_vars(Next)

----------------------------------------------------------------------------
\* Type invariant of the device.
TypeOK ==
  /\ SignalsTypeOK /\ PrcTypeOK /\ IcapTypeOK /\ RrcTypeOK
  /\ ccc \in 0 .. DebugStop

\* No request is ever granted and no transfer ever starts: the ICAP grants only
\* while the region it looks at executes (icap.cpp:102-111), and only a transfer
\* makes a region execute (prrLevelController.cpp:324-359; the queue and the
\* start signal are never used).  Live handles and a first target would not help.
NoTransferEver == ~icap_prc_ack /\ ~icap_transfer /\ icap_state \notin {"ACK", "TRANSFER"}

\* No region ever executes a task: PRR_EXE stays down on both sides of the
\* context, and nothing is installed over a placeholder, whatever state the
\* placeholders' memory shows (rrModule.cpp:14-18, prrLevelController.cpp:124-129).
NoRegionExecutes ==
  \A rr \in RrIds :
    /\ ~prr_executing[rr] /\ ~stored_prr_executing[rr]
    /\ resident[rr] = Placeholder(rr)

\* A request the PRC has raised stays up until the process ends: there is at
\* most one in a run.
OneRequest == [][prc_icap_req => prc_icap_req']_vars

\* How a run ends: without tasks, for want of a design, through bitstream_id_,
\* in the ICAP's first look at a request, or after its last cycle.  Neither an
\* assertion of the ICAP nor a fault of a controller is ever reached.
Ends ==
  status \in {"running", Finished, "undefined", "user error", "unknown state", "segfault"}

\* A file whose regions have no modules gives a device without regions.  On it
\* no task gets further than the selector, which reports the first one; the ICAP
\* is never asked (lftFeSelector.cpp:228-232, device.cpp:105).
WithoutRegions ==
  RrIds = {} =>
    /\ scheduled_bs = NoBs /\ ~prc_icap_req /\ ~stored_prc_icap_req
    /\ status \in {"running", Finished, "undefined", "user error"}

----------------------------------------------------------------------------
\* README.md:43-44: the PRC can "instantly enqueue jobs directly into any RR
\* controller's task queue", and the controller delivers "inputs as jobs are
\* popped from the task queue".  A task that some region can execute is enqueued
\* there or executed, unless the cycles asked for are over first.
TasksReachARegion ==
  \A t \in TaskNodes :
    scheduled_task = t /\ CapableRrs(TypeOf[t]) # {} ~>
      \/ status = Finished
      \/ \E rr \in RrIds :
           \/ \E i \in DOMAIN action_queue[rr] : action_queue[rr][i] = t
           \/ prr_executing[rr] /\ HasSpec(resident[rr], TypeOf[t])
=============================================================================
