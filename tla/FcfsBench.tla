------------------------------ MODULE FcfsBench ------------------------------
(***************************************************************************)
(* The scheduler as its caller sees it: tasks are taken (getCurrentTask,   *)
(* then prepareNextTask, as prc::step does) or put aside                   *)
(* (blockCurrentTask, which nothing calls yet), one after the other.       *)
(***************************************************************************)
EXTENDS FcfsScheduler, SequencesExt

VARIABLE handed   \* history: how often each task was taken

vars == <<schedulerVars, handed>>

BenchInit == SchedulerInit /\ handed = [t \in TaskNodes |-> 0]

Take ==
  /\ PrepareNextTask
  /\ handed' = [handed EXCEPT ![GetCurrentTask] = @ + 1]

Block == BlockCurrentTask /\ UNCHANGED handed

Next == Take \/ Block

\* Whoever schedules keeps taking tasks.
FairSpec == BenchInit /\ [][Next]_vars /\ WF_vars(Take)

----------------------------------------------------------------------------
IsStart(t) == t \in ToSet(StartNodes)

Parents(t) == {p \in TaskNodes : t \in ToSet(Neighbors[p])}

Occurrences(s, t) == Cardinality({i \in 1 .. Len(s) : s[i] = t})

\* Type invariant of the scheduler.
TypeOK == SchedulerTypeOK /\ handed \in [TaskNodes -> Nat]

\* No task is lost and none is made up: a task that is not a start node has
\* been queued exactly once for each time a predecessor was taken, a start
\* node exactly once, and each of those is still queued, put aside or taken
\* (fcfsScheduler.cpp:9-25, 34-43, 54-76).
EveryTaskAccountedFor ==
  \A t \in TaskNodes :
    handed[t] + Occurrences(task_queue, t) + Occurrences(blocked_tasks, t) =
      IF IsStart(t) THEN 1
                    ELSE SumFunctionOnSet(handed, Parents(t))

\* A task graph is executed from its start nodes on: a task is taken after at
\* least one of its predecessors.
AfterAPredecessor ==
  \A t \in TaskNodes : handed[t] > 0 /\ ~IsStart(t) => \E p \in Parents(t) : handed[p] > 0

\* The number of paths from the start nodes to a task, in an acyclic graph.
Paths[t \in TaskNodes] ==
  IF IsStart(t) THEN 1 ELSE SumFunctionOnSet(Paths, Parents(t))

\* When the queue has run empty and nothing was put aside, a task has been
\* taken once per path that leads to it, not once (fcfsScheduler.cpp:58-68).
TakenOncePerPath ==
  task_queue = <<>> /\ blocked_tasks = <<>> => \A t \in TaskNodes : handed[t] = Paths[t]

\* The queue of an acyclic task graph runs empty, although it may grow with
\* every task that is taken.
QueueDrains == <>[](task_queue = <<>>)

\* fcfsScheduler.cpp:64: "Only add this task to the queue if it's not already
\* present"; fcfsScheduler.hpp:22: the lookup is "for keeping track of tasks
\* already added to the queue".  Only the constructor writes that lookup.
NoTaskQueuedTwice == \A t \in TaskNodes : Occurrences(task_queue, t) <= 1
=============================================================================
