------------------------------- MODULE PrcLaws -------------------------------
(***************************************************************************)
(* Laws of the PRC and of its selector for every application and every     *)
(* task graph, wherever the PRC is used: what the selector's loop returns, *)
(* what a choice is worth, and that a step keeps the types.                *)
(***************************************************************************)
EXTENDS Prc, RecursionLaws

\* The selector, whatever its order makes of ties.

LEMMA FlexibilityType ==
  ASSUME NEW rr
  PROVE  Flexibility(rr) \in Nat
<1> DEFINE own == {bs \in Bitstreams : bs.region_id = rr}
           types == {DOMAIN Tasks[bs] : bs \in own}
           typesOf == [bs \in own |-> DOMAIN Tasks[bs]]
<1>1. IsFiniteSet(own)
  BY BitstreamsAssumption, FS_Subset
<1>2. typesOf \in Surjection(own, types)
  BY DEF Surjection
<1>3. IsFiniteSet(types)
  BY <1>1, <1>2, FS_Surjection
<1>4. \A set \in types : IsFiniteSet(set)
  BY TasksAssumption
<1>5. IsFiniteSet(UNION types)
  BY <1>3, <1>4, FS_UNION
<1> QED
  BY <1>5, FS_CardinalityType DEF Flexibility

LEMMA TopExists ==
  ASSUME NEW rrs \in SUBSET RrIds, rrs # {}
  PROVE  TopRrs(rrs) # {}
<1> DEFINE size == [rr \in rrs |-> Flexibility(rr)]
<1>1. size \in [rrs -> Nat]
  BY FlexibilityType
<1>2. IsFiniteSet(rrs)
  <2>1. IsFiniteSet(RrIds)
    BY FS_Interval, RrCountAssumption DEF RrIds
  <2> QED
    BY <2>1, FS_Subset
<1>3. PICK rr \in rrs : \A other \in rrs : size[other] <= size[rr]
  BY <1>1, <1>2, MaximumExists
<1>4. ASSUME NEW other \in rrs PROVE ~(Flexibility(rr) < Flexibility(other))
  BY <1>3, FlexibilityType
<1> QED
  BY <1>4 DEF TopRrs, MinPairCompare

\* The equation of the loop over a copy of the queue.
IsPopped(popped, executing) ==
  popped = [queue \in SUBSET RrIds |->
              UNION {IF executing[rr] THEN popped[queue \ {rr}] ELSE {rr} : rr \in TopRrs(queue)}]

LEMMA PopUntilIdleSteps ==
  ASSUME NEW executing
  PROVE  IsPopped(PopUntilIdle(executing), executing)
<1> DEFINE D == SUBSET RrIds
           from(g, queue, rr) == IF executing[rr] THEN g[queue \ {rr}] ELSE {rr}
           next(g, queue) == UNION {from(g, queue, rr) : rr \in TopRrs(queue)}
           body == [g \in [D -> D] |-> [queue \in D |-> next(g, queue)]]
<1>1. \A queue \in D : TopRrs(queue) \subseteq queue
  BY DEF TopRrs
<1>2. body \in [[D -> D] -> [D -> D]]
  <2>1. ASSUME NEW g \in [D -> D], NEW queue \in D PROVE next(g, queue) \in D
    <3>1. \A rr \in TopRrs(queue) : from(g, queue, rr) \subseteq RrIds
      BY <1>1
    <3> HIDE DEF from
    <3> QED
      BY <3>1
  <2> HIDE DEF next
  <2> QED
    BY <2>1
<1>3. ASSUME NEW g \in [D -> D], NEW h \in [D -> D], NEW queue \in D,
             \A rr \in queue : g[queue \ {rr}] = h[queue \ {rr}]
      PROVE  body[g][queue] = body[h][queue]
  <2>1. \A rr \in TopRrs(queue) : from(g, queue, rr) = from(h, queue, rr)
    BY <1>1, <1>3
  <2>2. next(g, queue) = next(h, queue)
    <3> HIDE DEF from
    <3> QED
      BY <2>1
  <2> HIDE DEF next
  <2> QED
    BY <2>2
<1>4. IsSubsetRecursion(RrIds, D, body)
  <2> HIDE DEF body
  <2> QED
    BY <1>2, <1>3 DEF IsSubsetRecursion
<1>5. IsFiniteSet(RrIds) /\ {} \in D
  BY FS_Interval, RrCountAssumption DEF RrIds
<1>6. HasSolution(D, D, body)
  <2> HIDE DEF body
  <2> QED
    BY <1>4, <1>5, SubsetRecursionExists
<1>7. \E popped : IsPopped(popped, executing)
  BY <1>6 DEF HasSolution, IsPopped
<1> QED
  BY <1>7 DEF PopUntilIdle, IsPopped

\* The loop ends at what the order prefers among the idle regions of the queue.
LEMMA LoopTakesTop ==
  ASSUME NEW executing, NEW queue \in SUBSET RrIds
  PROVE  PopUntilIdle(executing)[queue] = TopRrs({rr \in queue : ~executing[rr]})
<1> DEFINE idle(q) == {rr \in q : ~executing[rr]}
           popped == PopUntilIdle(executing)
           Right == {q \in SUBSET RrIds : popped[q] = TopRrs(idle(q))}
<1>1. ASSUME NEW q \in SUBSET RrIds
      PROVE  popped[q] = UNION {IF executing[rr] THEN popped[q \ {rr}] ELSE {rr} : rr \in TopRrs(q)}
  <2> HIDE DEF popped
  <2>1. IsPopped(popped, executing)
    BY PopUntilIdleSteps DEF popped
  <2> QED
    BY <2>1 DEF IsPopped
<1> HIDE DEF popped
<1>2. ASSUME NEW q \in SUBSET RrIds, \A rr \in q : q \ {rr} \in Right
      PROVE  popped[q] = TopRrs(idle(q))
  \* An idle top is preferred among the idle regions, too.
  <2>1. \A rr \in TopRrs(q) : ~executing[rr] => rr \in TopRrs(idle(q))
    BY DEF TopRrs
  \* Without a busy top the idle regions are.
  <2>2. ASSUME NEW rr \in TopRrs(q), executing[rr]
        PROVE  popped[q \ {rr}] = TopRrs(idle(q))
    <3>1. rr \in q /\ idle(q \ {rr}) = idle(q)
      BY <2>2 DEF TopRrs
    <3> QED
      BY <1>2, <3>1
  <2> DEFINE from(rr) == IF executing[rr] THEN popped[q \ {rr}] ELSE {rr}
  <2>3. popped[q] = UNION {from(rr) : rr \in TopRrs(q)}
    BY <1>1
  <2>4. CASE \E rr \in TopRrs(q) : executing[rr]
    <3>1. \A rr \in TopRrs(q) : from(rr) \subseteq TopRrs(idle(q))
      BY <2>1, <2>2
    <3>2. PICK rr \in TopRrs(q) : from(rr) = TopRrs(idle(q))
      BY <2>2, <2>4
    <3> HIDE DEF idle, from
    <3> QED
      BY <2>3, <3>1, <3>2
  <2>5. CASE \A rr \in TopRrs(q) : ~executing[rr]
    <3>1. popped[q] = TopRrs(q)
      <4>1. \A rr \in TopRrs(q) : from(rr) = {rr}
        BY <2>5
      <4> HIDE DEF from
      <4> QED
        BY <2>3, <4>1
    <3>2. ASSUME NEW rr \in TopRrs(idle(q)) PROVE rr \in TopRrs(q)
      <4>1. rr \in q /\ ~executing[rr]
        BY DEF TopRrs
      <4>2. PICK top \in TopRrs(q) : ~executing[top]
        BY <2>5, <4>1, TopExists
      <4>3. ~(Flexibility(rr) < Flexibility(top))
        BY <4>2 DEF TopRrs, MinPairCompare
      <4>4. \A other \in q : ~(Flexibility(top) < Flexibility(other))
        BY <4>2 DEF TopRrs, MinPairCompare
      <4> QED
        BY <4>1, <4>3, <4>4, FlexibilityType DEF TopRrs, MinPairCompare
    <3> QED
      BY <2>1, <2>5, <3>1, <3>2
  <2> QED
    BY <2>4, <2>5
<1>3. IsSubsetInductive(RrIds, Right)
  BY <1>2 DEF IsSubsetInductive
<1>4. IsFiniteSet(RrIds)
  BY FS_Interval, RrCountAssumption DEF RrIds
<1>5. SUBSET RrIds \subseteq Right
  <2> HIDE DEF Right
  <2> QED
    BY <1>3, <1>4, SubsetInduction
<1> QED
  BY <1>5 DEF popped

----------------------------------------------------------------------------
\* What the selector may return is a bitstream of the application for the task.
LEMMA TargetsImplement ==
  ASSUME NEW bs \in TargetBitstreams
  PROVE  /\ bs \in Implementations(bs.region_id, TypeOf[scheduled_task])
         /\ bs \in Bitstreams /\ bs.region_id \in RrIds /\ bs.id \in Nat
<1>1. PICK rr : bs \in TopBitstreams(rr, TypeOf[scheduled_task])
  BY DEF TargetBitstreams, BitstreamsForTask
<1>2. bs \in Implementations(rr, TypeOf[scheduled_task])
  BY <1>1 DEF TopBitstreams
<1> QED
  BY <1>2, BitstreamsAssumption DEF Implementations, BitstreamId

\* A region that can execute a task type has a bitstream the selector prefers.
LEMMA TopBitstreamExists ==
  ASSUME NEW rr, NEW type, Implementations(rr, type) # {}
  PROVE  TopBitstreams(rr, type) # {}
<1> DEFINE speed == [bs \in Implementations(rr, type) |-> Tasks[bs][type].speed]
<1>1. ASSUME NEW bs \in Implementations(rr, type) PROVE Tasks[bs][type].speed \in Nat
  BY TasksAssumption DEF Implementations
<1>2. speed \in [Implementations(rr, type) -> Nat]
  BY <1>1
<1>3. PICK bs \in Implementations(rr, type) :
        \A other \in Implementations(rr, type) : speed[bs] <= speed[other]
  BY <1>2, MinimumExists
<1>4. ASSUME NEW other \in Implementations(rr, type)
      PROVE  ~(Tasks[bs][type].speed > Tasks[other][type].speed)
  BY <1>1, <1>3
<1> QED
  BY <1>4 DEF TopBitstreams, MaxPairCompare

\* The selector finds no bitstream only if every region for the task is busy.
LEMMA NotFoundMeansBusy ==
  ASSUME BsNotFound, NEW rr \in CapableRrs(TypeOf[scheduled_task])
  PROVE  stored_prr_executing[rr]
<1> DEFINE type == TypeOf[scheduled_task]
           idle == {other \in CapableRrs(type) : ~stored_prr_executing[other]}
<1>1. SUFFICES ASSUME idle # {} PROVE FALSE
  OBVIOUS
<1>2. CapableRrs(type) \in SUBSET RrIds /\ idle \in SUBSET RrIds
  BY DEF CapableRrs
<1>3. RrsForTask(type, stored_prr_executing) = TopRrs(idle)
  BY <1>2, LoopTakesTop DEF RrsForTask
<1>4. PICK top : top \in TopRrs(idle)
  BY <1>1, <1>2, TopExists
<1>5. Implementations(top, type) # {}
  BY <1>4 DEF TopRrs, CapableRrs
<1>6. PICK bs : bs \in TopBitstreams(top, type)
  BY <1>5, TopBitstreamExists
<1> QED
  BY <1>3, <1>4, <1>6 DEF BsNotFound, TargetBitstreams, BitstreamsForTask

----------------------------------------------------------------------------
\* The types of what a step of the PRC may change.
PrcTyped ==
  /\ PrcTypeOK
  /\ prc_icap_req \in BOOLEAN
  /\ prc_start_prr \in BusType /\ prc_enqueue_prr \in BusType

LEMMA PrcInitTyped == PrcInit => PrcTyped
<1> SUFFICES ASSUME PrcInit PROVE PrcTyped
  OBVIOUS
<1>1. SchedulerTypeOK
  <2>1. <<>> \in Seq(TaskNodes)
    OBVIOUS
  <2> QED
    BY <2>1, TaskGraphAssumption DEF PrcInit, SchedulerInit, SchedulerTypeOK
<1> QED
  BY <1>1 DEF PrcInit, PrcSignalsInit, PrcTyped, PrcTypeOK, PrcStates, BusType, Off

\* Taking a task from the queue leaves a queue of tasks.
LEMMA NextTaskTyped ==
  ASSUME SchedulerTypeOK, PrepareNextTask
  PROVE  SchedulerTypeOK' /\ GetCurrentTask \in TaskNodes
<1>1. task_queue \in Seq(TaskNodes) /\ task_queue # <<>>
  BY DEF SchedulerTypeOK, PrepareNextTask, CurrentTaskDefined
<1>2. GetCurrentTask \in TaskNodes /\ Tail(task_queue) \in Seq(TaskNodes)
  BY <1>1 DEF GetCurrentTask
<1>3. NewTasks(GetCurrentTask) \in Seq(TaskNodes)
  BY <1>2, TaskGraphAssumption, KeptType DEF NewTasks
<1>4. task_queue' \in Seq(TaskNodes)
  BY <1>2, <1>3, ConcatProperties DEF PrepareNextTask
<1> QED
  BY <1>2, <1>4 DEF SchedulerTypeOK, PrepareNextTask

\* A step of the PRC keeps its types, or ends the process with one of its faults.
LEMMA PrcStepTyped ==
  ASSUME PrcTyped, PrcStep
  PROVE  PrcTyped' /\ status' \in {status} \cup Faults
<1> USE DEF PrcTyped, PrcTypeOK, PrcStates
<1>0. ASSUME UNCHANGED schedulerVars PROVE SchedulerTypeOK'
  BY <1>0 DEF schedulerVars, SchedulerTypeOK
<1>1. ASSUME NEW fault \in Faults, PrcFault(fault)
      PROVE  PrcTyped' /\ status' \in {status} \cup Faults
  BY <1>0, <1>1 DEF PrcFault, prcVars, prcSignals
<1>2. CASE PrcLeaveInit
  BY <1>0, <1>2 DEF PrcLeaveInit, prcSignals
<1>3. CASE PrcScheduleTask
  BY <1>3, NextTaskTyped DEF PrcScheduleTask
<1>4. CASE PrcRunOutOfTasks \/ PrcReportTask \/ PrcReadTargetRr \/ PrcUnknownState
  BY <1>1, <1>4 DEF PrcRunOutOfTasks, PrcReportTask, PrcReadTargetRr, PrcUnknownState, Faults
<1>5. CASE PrcRefuseTask
  BY <1>0, <1>5 DEF PrcRefuseTask
<1>6. CASE PrcScheduleRr
  <2>1. PICK bs \in TargetBitstreams : PrcEnqueue(bs) \/ PrcRequest(bs)
    BY <1>6 DEF PrcScheduleRr
  <2>2. bs \in Bitstreams
    BY TargetsImplement
  <2> QED
    BY <1>0, <2>1, <2>2 DEF PrcEnqueue, PrcRequest
<1>7. CASE PrcAwaitAck
  BY <1>0, <1>7 DEF PrcAwaitAck, prcVars, prcSignals
<1>8. CASE PrcRequestGranted
  BY <1>0, <1>8 DEF PrcRequestGranted
<1> QED
  BY <1>2, <1>3, <1>4, <1>5, <1>6, <1>7, <1>8 DEF PrcStep

\* What the context stores of the controllers' shared wires.
LEMMA RefreshTyped ==
  ASSUME RefreshRrcSignals
  PROVE  stored_prr_prc_ack' \in BOOLEAN /\ stored_prr_icap_ack' \in BOOLEAN
  BY DEF RefreshRrcSignals
=============================================================================
