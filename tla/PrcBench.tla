------------------------------ MODULE PrcBench ------------------------------
(***************************************************************************)
(* The PRC, with its scheduler and its selector, between any ICAP that     *)
(* keeps IcapPort and any RR controllers that keep RrcPort.                *)
(***************************************************************************)
EXTENDS Prc

VARIABLE icap_at   \* control of the abstract ICAP

IcapSide == INSTANCE IcapPort
  WITH offered_bs <- PrcScheduledBitstream, turn <- phase = "icap", ended <- ~Running
RrcSide == INSTANCE RrcPort
  WITH turns <- IF phase = "rrc" THEN RrIds ELSE {}, ended <- ~Running

vars == <<processVars, prcVars, icapSignals, rrcSignals, storedSignals, icap_at>>

BenchInit ==
  /\ ProcessInit /\ IcapSignalsInit /\ RrcSignalsInit /\ StoredSignalsInit
  /\ PrcInit
  /\ IcapSide!PortInit

PrcTurn ==
  /\ Running /\ phase = "prc" /\ phase' = "icap"
  /\ PrcStep
  /\ UNCHANGED <<icapSignals, rrcSignals, storedSignals, icap_at>>

IcapTurn ==
  /\ Running /\ phase = "icap" /\ phase' = "rrc"
  /\ IcapSide!PortStep
  /\ UNCHANGED <<status, prcVars, icap_mc, rrcSignals, storedSignals>>

RrcTurn ==
  /\ Running /\ phase = "rrc" /\ phase' = "refresh"
  /\ RrcSide!PortSteps(RrIds)
  /\ UNCHANGED <<status, prcVars, icapSignals, storedSignals, icap_at>>

Refresh ==
  /\ Running /\ phase = "refresh" /\ phase' = "prc"
  /\ RefreshContext
  /\ UNCHANGED <<prc_state, schedulerVars, icap_at>>

Next == PrcTurn \/ IcapTurn \/ RrcTurn \/ Refresh

Spec == BenchInit /\ [][Next]_vars

\* The simulation loop never pauses between two steps.
FairSpec == Spec /\ WF_vars(Next)

----------------------------------------------------------------------------
\* Type invariant of the PRC and of the signals around it.
TypeOK == SignalsTypeOK /\ PrcTypeOK

\* The bitstream a request stands for executes the task it was made for, and
\* stays that task's bitstream until the request is lowered: neither a refused
\* task, whose bitstream is a default one, nor the next task's choice shows
\* through (prc.cpp:120-157).
RequestServesTask ==
  prc_icap_req => scheduled_bs \in Implementations(scheduled_bs.region_id, TypeOf[scheduled_task])

\* PRC_RR_ENQUEUE, which prc::step has no case for, is reached only through a
\* bitstream_id_ that nothing wrote and that is the chosen bitstream's id by
\* accident (prc.cpp:130, 144-145; prrLevelController.cpp:30-36).
UnknownStateByAccident ==
  status = "unknown state" => rrc_bitstream[scheduled_bs.region_id] # NoId

\* A task is refused, and with that dropped, only while every region that could
\* execute it is busy: no idle region is overlooked (lftFeSelector.cpp:228-253,
\* prc.cpp:135-140).
RefusedOnlyWhenBusy ==
  [][prc_state = "RR_SCHEDULE" /\ prc_state' = "TASK_SCHEDULE" =>
       \A rr \in CapableRrs(TypeOf[scheduled_task]) : stored_prr_executing[rr]]_vars

\* Whichever regions are busy and however ties fall, the selector's loop over a
\* copy of its queue ends at what its order prefers among the idle regions that
\* can execute the task, and finds none only if there is none
\* (lftFeSelector.cpp:140-155, 228-253).
SelectorTakesTop ==
  \A t \in TaskNodes :
    RrsForTask(TypeOf[t], stored_prr_executing) =
      TopRrs({rr \in CapableRrs(TypeOf[t]) : ~stored_prr_executing[rr]})

\* A request that is granted is the last one: the ICAP reports the transfer to
\* the PRC before the PRC has chosen its next bitstream, and the choice then
\* follows the null icap_target_rr_ (prc.cpp:132, signalContext.cpp:512-523).
GrantIsFatal == icap_prc_ack ~> ~Running

\* The PRC comes to rest: it ends the process or waits for an acknowledgement.
\* Refused tasks are dropped (the queue moved on when they were taken), so even
\* with every region busy the PRC never just spins.
PrcComesToRest == <>[](~Running \/ prc_icap_req)

\* The PRC implements PrcPort.
PrcAt ==
  CASE prc_state = "REQ_ICAP" -> "requesting"
    [] prc_state = "RR_SCHEDULE" -> "choosing"
    [] OTHER -> "between"

PrcSide == INSTANCE PrcPort WITH prc_at <- PrcAt, turn <- phase = "prc", ended <- ~Running

ImplementsPrcPort == PrcSide!Spec

----------------------------------------------------------------------------
\* The choices README.md:26-28 and random.yaml:38-39 describe: "Choose the RR
\* that can support the least unique tasks leaving the more flexible RR free.
\* If more than one bitstream implements the desired task the fastest design
\* will be chosen."
LeastFlexible(rrs) == {rr \in rrs : \A other \in rrs : Flexibility(rr) <= Flexibility(other)}

Fastest(rr, type) ==
  {bs \in Implementations(rr, type) :
     \A other \in Implementations(rr, type) : Tasks[bs][type].speed >= Tasks[other][type].speed}

DocumentedChoices(type) ==
  UNION {Fastest(rr, type) :
           rr \in LeastFlexible({rr \in CapableRrs(type) : ~stored_prr_executing[rr]})}

\* Every request is for a bitstream that the documentation allows.
RequestsAsDocumented ==
  [][prc_icap_req' /\ ~prc_icap_req => scheduled_bs' \in DocumentedChoices(TypeOf[scheduled_task])]_vars
=============================================================================
