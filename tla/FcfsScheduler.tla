--------------------------- MODULE FcfsScheduler ---------------------------
(***************************************************************************)
(* fcfsScheduler: a queue of task graph nodes, first come first served.    *)
(* The graph library (nallj::graph) is external: the start nodes and the   *)
(* traversable neighbours of a node are given in the order in which its    *)
(* hash maps list them.                                                    *)
(***************************************************************************)
EXTENDS Naturals, FiniteSets, Functions, Selection

CONSTANTS
  TaskNodes,   \* the nodes of the task graph
  StartNodes,  \* getStartNodeMap(), in iteration order
  Neighbors    \* Neighbors[t]: getTraversableNeighborMap(), in iteration order

\* Both maps have nodes as keys, so that neither lists a node twice.
ASSUME TaskGraphAssumption ==
  /\ IsFiniteSet(TaskNodes)
  /\ StartNodes \in Seq(TaskNodes) /\ IsInjective(StartNodes)
  /\ Neighbors \in [TaskNodes -> Seq(TaskNodes)]
  /\ \A t \in TaskNodes : IsInjective(Neighbors[t])

VARIABLES
  task_queue,    \* task_queue_
  blocked_tasks  \* blocked_tasks_

schedulerVars == <<task_queue, blocked_tasks>>

\* task_queue_lookup_: filled by initialize(), and by nothing else.
TaskQueueLookup == {StartNodes[i] : i \in 1 .. Len(StartNodes)}

SchedulerTypeOK ==
  /\ task_queue \in Seq(TaskNodes)
  /\ blocked_tasks \in Seq(TaskNodes)

\* Mutant: the queue starts with the children of a start node as well.
InitWithChildren == task_queue = StartNodes \o Neighbors[Head(StartNodes)] /\ blocked_tasks = <<>>

\* initialize()
SchedulerInit == task_queue = StartNodes /\ blocked_tasks = <<>>

\* Mutant: the last task of the queue is never taken.
OtherTasksQueued == Len(task_queue) > 1

\* front() of an empty queue is undefined.
CurrentTaskDefined == task_queue # <<>>

GetCurrentTask == Head(task_queue)

\* Mutant: only the first child is added.
FirstNewTask(t) ==
  LET new == Kept(Neighbors[t], TaskNodes \ TaskQueueLookup)
  IN  IF new = <<>> THEN <<>> ELSE <<Head(new)>>

\* The children of a task that prepareNextTask adds to the queue.
NewTasks(t) == Kept(Neighbors[t], TaskNodes \ TaskQueueLookup)

PrepareNextTask ==
  /\ CurrentTaskDefined
  /\ task_queue' = Tail(task_queue) \o NewTasks(GetCurrentTask)
  /\ UNCHANGED blocked_tasks

\* Mutant: the blocked task is not removed from the queue.
BlockWithoutRemoving ==
  /\ CurrentTaskDefined
  /\ blocked_tasks' = Append(blocked_tasks, GetCurrentTask)
  /\ UNCHANGED task_queue

BlockCurrentTask ==
  /\ CurrentTaskDefined
  /\ blocked_tasks' = Append(blocked_tasks, GetCurrentTask)
  /\ task_queue' = Tail(task_queue)
=============================================================================
