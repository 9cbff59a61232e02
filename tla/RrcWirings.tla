----------------------------- MODULE RrcWirings -----------------------------
(***************************************************************************)
(* RrcBench with any of three wirings: as the constants have it, with the  *)
(* handles null as signalContext copies them, or with the memory counter   *)
(* of the PRC, which is 0.                                                 *)
(***************************************************************************)
EXTENDS RrcBench

CONSTANT
  Vacancy   \* bound: what the placeholders' memory holds, if the counter is 0

VARIABLE wiring   \* "given", "null handles" or "counter 0", for the whole run

NullHandles == INSTANCE RrcBench WITH HandlesLive <- FALSE
CounterZero == INSTANCE RrcBench WITH PrcMc <- 0

wiringVars == <<vars, wiring>>

WiringInit ==
  \/ wiring = "given" /\ BenchInit
  \/ wiring = "null handles" /\ NullHandles!BenchInit
  \/ /\ wiring = "counter 0" /\ CounterZero!BenchInit
     /\ \A rr \in RrIds : ResidentModule(rr) = Vacancy

WiringNext ==
  /\ \/ wiring = "given" /\ Next
     \/ wiring = "null handles" /\ NullHandles!Next
     \/ wiring = "counter 0" /\ CounterZero!Next
  /\ UNCHANGED wiring

\* The fairness of RrcBench: the loop never pauses, and the ICAP ends the
\* transfers it begins, which it does in the same way with every wiring.
WiringSpec ==
  /\ WiringInit /\ [][WiringNext]_wiringVars /\ WF_wiringVars(WiringNext)
  /\ SF_wiringVars(IcapTurn /\ IcapSide!EndTransfer /\ UNCHANGED wiring)

----------------------------------------------------------------------------
\* As it is wired, every handle is null, and nothing gets through: whatever the
\* PRC enqueues, starts or requests, and whatever the ICAP grants, no controller
\* queues a task, accepts a transfer or executes (signalContext.cpp:41-50,
\* prrLevelController.cpp:53-62, 84, 206-207, icap.cpp:134).
NullHandlesStopAll == wiring = "null handles" => NothingGetsThrough

\* With the PRC's memory counter nothing is ever installed, even over live
\* handles (prrLevelController.cpp:335-342, icap.cpp:130, prc.cpp:24).
CounterStopsInstallation == wiring = "counter 0" => NothingInstalled
=============================================================================
