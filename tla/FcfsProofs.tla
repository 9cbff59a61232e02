----------------------------- MODULE FcfsProofs -----------------------------
(***************************************************************************)
(* For every task graph: no task is lost or made up, a task is taken after *)
(* one of its predecessors, and when the queue of an acyclic graph has run *)
(* empty every task has been taken once per path that leads to it.         *)
(***************************************************************************)
EXTENDS FcfsBench, RecursionLaws

\* How often t occurs at one position.
Once(x, t) == IF x = t THEN 1 ELSE 0

LEMMA OccurrencesType ==
  ASSUME NEW T, NEW s \in Seq(T), NEW t
  PROVE  IsFiniteSet({i \in 1 .. Len(s) : s[i] = t}) /\ Occurrences(s, t) \in Nat
<1>1. IsFiniteSet(1 .. Len(s))
  BY FS_Interval
<1>2. IsFiniteSet({i \in 1 .. Len(s) : s[i] = t})
  BY <1>1, FS_Subset
<1> QED
  BY <1>2, FS_CardinalityType DEF Occurrences

LEMMA OccurrencesEmpty ==
  ASSUME NEW t
  PROVE  Occurrences(<<>>, t) = 0
<1>1. {i \in 1 .. Len(<<>>) : <<>>[i] = t} = {}
  OBVIOUS
<1> QED
  BY <1>1, FS_EmptySet DEF Occurrences

LEMMA OccurrencesAppend ==
  ASSUME NEW T, NEW s \in Seq(T), NEW x \in T, NEW t
  PROVE  Occurrences(Append(s, x), t) = Occurrences(s, t) + Once(x, t)
<1> DEFINE places == {i \in 1 .. Len(s) : s[i] = t}
           more == {i \in 1 .. Len(Append(s, x)) : Append(s, x)[i] = t}
<1>1. IsFiniteSet(places) /\ Cardinality(places) \in Nat
  BY OccurrencesType, FS_CardinalityType
<1>4. Occurrences(s, t) = Cardinality(places) /\ Occurrences(Append(s, x), t) = Cardinality(more)
  BY DEF Occurrences
<1>2. CASE x = t
  <2>1. more = places \cup {Len(s) + 1} /\ Len(s) + 1 \notin places
    BY <1>2
  <2> HIDE DEF places, more
  <2>2. Cardinality(more) = Cardinality(places) + 1
    BY <1>1, <2>1, FS_AddElement
  <2> QED
    BY <1>4, <1>2, <2>2 DEF Once
<1>3. CASE x # t
  <2>1. more = places
    BY <1>3
  <2> HIDE DEF places, more
  <2> QED
    BY <1>1, <1>4, <1>3, <2>1 DEF Once
<1> QED
  BY <1>2, <1>3

LEMMA OccurrencesConcat ==
  ASSUME NEW T, NEW s \in Seq(T), NEW u \in Seq(T), NEW t
  PROVE  Occurrences(s \o u, t) = Occurrences(s, t) + Occurrences(u, t)
<1> DEFINE Q == {w \in Seq(T) : Occurrences(s \o w, t) = Occurrences(s, t) + Occurrences(w, t)}
<1>1. <<>> \in Q
  <2>1. <<>> \in Seq(T) /\ s \o <<>> = s
    OBVIOUS
  <2>2. Occurrences(s, t) \in Nat
    BY OccurrencesType
  <2> QED
    BY <2>1, <2>2, OccurrencesEmpty
<1>2. ASSUME NEW w \in Seq(T), NEW x \in T, w \in Q PROVE Append(w, x) \in Q
  <2>1. /\ s \o w \in Seq(T) /\ Append(w, x) \in Seq(T)
        /\ s \o Append(w, x) = Append(s \o w, x)
    OBVIOUS
  <2>2. Occurrences(Append(s \o w, x), t) = Occurrences(s \o w, t) + Once(x, t)
    BY <2>1, OccurrencesAppend
  <2>3. Occurrences(Append(w, x), t) = Occurrences(w, t) + Once(x, t)
    BY OccurrencesAppend
  <2>4. Occurrences(s, t) \in Nat /\ Occurrences(w, t) \in Nat /\ Once(x, t) \in Nat
    BY OccurrencesType DEF Once
  <2>5. Occurrences(s \o Append(w, x), t) = Occurrences(s \o w, t) + Once(x, t)
    BY <2>1, <2>2
  <2>6. Occurrences(s \o w, t) = Occurrences(s, t) + Occurrences(w, t)
    BY <1>2
  <2>7. Occurrences(s \o Append(w, x), t) = Occurrences(s, t) + Occurrences(Append(w, x), t)
    BY <2>3, <2>4, <2>5, <2>6
  <2> QED
    BY <2>1, <2>7
<1>3. IsSeqInductive(T, Q)
  BY <1>1, <1>2 DEF IsSeqInductive
<1> QED
  BY <1>3, SeqInduction

LEMMA OccurrencesHead ==
  ASSUME NEW T, NEW s \in Seq(T), s # <<>>, NEW t
  PROVE  Occurrences(s, t) = Once(Head(s), t) + Occurrences(Tail(s), t)
<1> DEFINE x == Head(s)
           rest == Tail(s)
           single == <<x>>
<1>1. x \in T /\ rest \in Seq(T) /\ single \in Seq(T) /\ <<>> \in Seq(T)
  OBVIOUS
<1>2. s = single \o rest
  OBVIOUS
<1>3. single = Append(<<>>, x)
  BY <1>1
<1> HIDE DEF x, rest, single
<1>4. Occurrences(single, t) = Occurrences(<<>>, t) + Once(x, t)
  BY <1>1, <1>3, OccurrencesAppend
<1>5. Occurrences(single, t) = Once(x, t)
  BY <1>4, OccurrencesEmpty DEF Once
<1>6. Occurrences(single \o rest, t) = Occurrences(single, t) + Occurrences(rest, t)
  BY <1>1, OccurrencesConcat
<1>7. Occurrences(s, t) = Once(x, t) + Occurrences(rest, t)
  BY <1>2, <1>5, <1>6
<1> QED
  BY <1>7 DEF x, rest

LEMMA OccurrencesKept ==
  ASSUME NEW T, NEW s \in Seq(T), NEW S, NEW t
  PROVE  Occurrences(Kept(s, S), t) = IF t \in S THEN Occurrences(s, t) ELSE 0
<1> DEFINE Q == {u \in Seq(T) :
                   Occurrences(Kept(u, S), t) = IF t \in S THEN Occurrences(u, t) ELSE 0}
<1>1. <<>> \in Q
  <2>1. <<>> \in Seq(T)
    OBVIOUS
  <2> QED
    BY <2>1, KeptEmpty, OccurrencesEmpty
<1>2. ASSUME NEW u \in Seq(T), NEW x \in T, u \in Q PROVE Append(u, x) \in Q
  <2>1. Kept(u, S) \in Seq(T) /\ Append(u, x) \in Seq(T)
    BY KeptType
  <2>2. Occurrences(Append(u, x), t) = Occurrences(u, t) + Once(x, t)
    BY OccurrencesAppend
  <2>3. Occurrences(Append(Kept(u, S), x), t) = Occurrences(Kept(u, S), t) + Once(x, t)
    BY <2>1, OccurrencesAppend
  <2>4. Kept(Append(u, x), S) = IF x \in S THEN Append(Kept(u, S), x) ELSE Kept(u, S)
    BY KeptAppend
  <2>5. Occurrences(u, t) \in Nat
    BY OccurrencesType
  <2>6. Occurrences(Kept(u, S), t) = IF t \in S THEN Occurrences(u, t) ELSE 0
    BY <1>2
  <2>7. Occurrences(Kept(Append(u, x), S), t) =
          IF x \in S THEN Occurrences(Kept(u, S), t) + Once(x, t) ELSE Occurrences(Kept(u, S), t)
    BY <2>3, <2>4
  <2>8. Occurrences(Kept(Append(u, x), S), t) =
          IF t \in S THEN Occurrences(Append(u, x), t) ELSE 0
    BY <2>2, <2>5, <2>6, <2>7 DEF Once
  <2> QED
    BY <2>1, <2>8
<1>3. IsSeqInductive(T, Q)
  BY <1>1, <1>2 DEF IsSeqInductive
<1> QED
  BY <1>3, SeqInduction

\* A list without repetitions has each of its elements once.
LEMMA OccurrencesInjective ==
  ASSUME NEW T, NEW s \in Seq(T), IsInjective(s), NEW t
  PROVE  Occurrences(s, t) = IF t \in ToSet(s) THEN 1 ELSE 0
<1>1. CASE t \in ToSet(s)
  <2>1. PICK i \in 1 .. Len(s) : s[i] = t
    BY <1>1 DEF ToSet
  <2>2. {k \in 1 .. Len(s) : s[k] = t} = {i}
    BY <2>1 DEF IsInjective
  <2> QED
    BY <1>1, <2>2, FS_Singleton DEF Occurrences
<1>2. CASE t \notin ToSet(s)
  <2>1. {k \in 1 .. Len(s) : s[k] = t} = {}
    BY <1>2 DEF ToSet
  <2> QED
    BY <1>2, <2>1, FS_EmptySet DEF Occurrences
<1> QED
  BY <1>1, <1>2

----------------------------------------------------------------------------
\* What a predecessor's step adds to the queue: each child once, start nodes never.
LEMMA NewTasksOf ==
  ASSUME NEW p \in TaskNodes
  PROVE  /\ NewTasks(p) \in Seq(TaskNodes)
         /\ \A t \in TaskNodes :
              Occurrences(NewTasks(p), t) = IF ~IsStart(t) /\ p \in Parents(t) THEN 1 ELSE 0
<1>1. Neighbors[p] \in Seq(TaskNodes) /\ IsInjective(Neighbors[p])
  BY TaskGraphAssumption
<1>2. ASSUME NEW t \in TaskNodes
      PROVE  /\ t \in TaskNodes \ TaskQueueLookup <=> ~IsStart(t)
             /\ p \in Parents(t) <=> t \in ToSet(Neighbors[p])
  BY TaskGraphAssumption DEF TaskQueueLookup, IsStart, Parents, ToSet
<1>3. ASSUME NEW t \in TaskNodes
      PROVE  Occurrences(NewTasks(p), t) = IF ~IsStart(t) /\ p \in Parents(t) THEN 1 ELSE 0
  <2>1. Occurrences(Neighbors[p], t) = IF t \in ToSet(Neighbors[p]) THEN 1 ELSE 0
    BY <1>1, OccurrencesInjective
  <2>2. Occurrences(NewTasks(p), t) =
          IF t \in TaskNodes \ TaskQueueLookup THEN Occurrences(Neighbors[p], t) ELSE 0
    BY <1>1, OccurrencesKept DEF NewTasks
  <2> QED
    BY <1>2, <2>1, <2>2
<1> QED
  BY <1>1, <1>3, KeptType DEF NewTasks

LEMMA ParentsFinite ==
  ASSUME NEW t
  PROVE  IsFiniteSet(Parents(t)) /\ Parents(t) \subseteq TaskNodes
  BY TaskGraphAssumption, FS_Subset DEF Parents

\* The first task of a queue is a task, and so is everything behind it.
LEMMA QueueParts ==
  ASSUME SchedulerTypeOK, CurrentTaskDefined
  PROVE  GetCurrentTask \in TaskNodes /\ Tail(task_queue) \in Seq(TaskNodes)
  BY DEF SchedulerTypeOK, CurrentTaskDefined, GetCurrentTask

LEMMA InitTyped == BenchInit => TypeOK
<1> SUFFICES ASSUME BenchInit PROVE TypeOK
  OBVIOUS
<1>1. <<>> \in Seq(TaskNodes)
  OBVIOUS
<1> QED
  BY <1>1, TaskGraphAssumption DEF BenchInit, SchedulerInit, TypeOK, SchedulerTypeOK

LEMMA TakeTyped ==
  ASSUME TypeOK, Take
  PROVE  TypeOK'
<1>1. GetCurrentTask \in TaskNodes /\ Tail(task_queue) \in Seq(TaskNodes)
  BY QueueParts DEF TypeOK, Take, PrepareNextTask
<1>2. NewTasks(GetCurrentTask) \in Seq(TaskNodes)
  BY <1>1, NewTasksOf
<1>3. task_queue' \in Seq(TaskNodes)
  BY <1>1, <1>2, ConcatProperties DEF Take, PrepareNextTask
<1>4. handed' \in [TaskNodes -> Nat]
  BY <1>1 DEF TypeOK, Take
<1> QED
  BY <1>3, <1>4 DEF TypeOK, SchedulerTypeOK, Take, PrepareNextTask

LEMMA BlockTyped ==
  ASSUME TypeOK, Block
  PROVE  TypeOK'
<1>1. GetCurrentTask \in TaskNodes /\ Tail(task_queue) \in Seq(TaskNodes)
  BY QueueParts DEF TypeOK, Block, BlockCurrentTask
<1>2. Append(blocked_tasks, GetCurrentTask) \in Seq(TaskNodes)
  BY <1>1 DEF TypeOK, SchedulerTypeOK
<1> QED
  BY <1>1, <1>2 DEF TypeOK, SchedulerTypeOK, Block, BlockCurrentTask

\* Type correctness of the scheduler (fcfsScheduler.cpp:9-76).
THEOREM FcfsTypeCorrect == FairSpec => []TypeOK
<1>1. TypeOK /\ [Next]_vars => TypeOK'
  <2>1. ASSUME TypeOK, UNCHANGED vars PROVE TypeOK'
    BY <2>1 DEF vars, schedulerVars, TypeOK, SchedulerTypeOK
  <2> QED
    BY <2>1, TakeTyped, BlockTyped DEF Next
<1> QED
  BY <1>1, InitTyped, PTL DEF FairSpec

----------------------------------------------------------------------------
\* How often a task should have been queued so far.
Expected(t) == IF IsStart(t) THEN 1 ELSE SumFunctionOnSet(handed, Parents(t))

LEMMA InitAccounted == BenchInit => EveryTaskAccountedFor
<1> SUFFICES ASSUME BenchInit, NEW t \in TaskNodes
             PROVE  handed[t] + Occurrences(task_queue, t) + Occurrences(blocked_tasks, t) = Expected(t)
  BY DEF EveryTaskAccountedFor, Expected
<1>1. handed[t] = 0 /\ task_queue = StartNodes /\ blocked_tasks = <<>>
  BY DEF BenchInit, SchedulerInit
<1>2. Occurrences(StartNodes, t) = IF IsStart(t) THEN 1 ELSE 0
  BY TaskGraphAssumption, OccurrencesInjective DEF IsStart
<1>3. SumFunctionOnSet(handed, Parents(t)) = 0
  BY ParentsFinite, SumOfZeros DEF BenchInit
<1> QED
  BY <1>1, <1>2, <1>3, OccurrencesEmpty DEF Expected

\* A task that is taken leaves the queue and brings its children in.
LEMMA TakeAccounted ==
  ASSUME TypeOK, EveryTaskAccountedFor, Take
  PROVE  EveryTaskAccountedFor'
<1> DEFINE p == GetCurrentTask
           rest == Tail(task_queue)
           new == NewTasks(p)
<1>1. task_queue \in Seq(TaskNodes) /\ task_queue # <<>> /\ blocked_tasks \in Seq(TaskNodes)
  BY DEF TypeOK, SchedulerTypeOK, Take, PrepareNextTask, CurrentTaskDefined
<1>2. p \in TaskNodes /\ rest \in Seq(TaskNodes) /\ new \in Seq(TaskNodes)
  BY QueueParts, NewTasksOf DEF TypeOK, Take, PrepareNextTask
<1>3. /\ task_queue' = rest \o new /\ blocked_tasks' = blocked_tasks
      /\ handed' = [handed EXCEPT ![p] = @ + 1]
  BY DEF Take, PrepareNextTask
<1> SUFFICES ASSUME NEW t \in TaskNodes
             PROVE  handed'[t] + Occurrences(task_queue', t) + Occurrences(blocked_tasks', t) =
                      IF IsStart(t) THEN 1 ELSE SumFunctionOnSet(handed', Parents(t))
  BY DEF EveryTaskAccountedFor, IsStart, Parents, Occurrences
<1>4. handed \in [TaskNodes -> Nat]
  BY DEF TypeOK
<1>5. handed'[t] = handed[t] + Once(p, t)
  BY <1>2, <1>3, <1>4 DEF Once
<1>6. Occurrences(task_queue, t) = Once(p, t) + Occurrences(rest, t)
  BY <1>1, OccurrencesHead DEF GetCurrentTask
<1>7. Occurrences(rest \o new, t) = Occurrences(rest, t) + Occurrences(new, t)
  BY <1>2, OccurrencesConcat
<1>8. Occurrences(new, t) = IF ~IsStart(t) /\ p \in Parents(t) THEN 1 ELSE 0
  BY <1>2, NewTasksOf
<1>9. SumFunctionOnSet(handed', Parents(t)) =
        SumFunctionOnSet(handed, Parents(t)) + (IF p \in Parents(t) THEN 1 ELSE 0)
  BY <1>2, <1>3, <1>4, ParentsFinite, SumRaised
<1>10. handed[t] + Occurrences(task_queue, t) + Occurrences(blocked_tasks, t) =
         IF IsStart(t) THEN 1 ELSE SumFunctionOnSet(handed, Parents(t))
  BY DEF EveryTaskAccountedFor
<1>11. /\ handed[t] \in Nat /\ Occurrences(rest, t) \in Nat /\ Occurrences(blocked_tasks, t) \in Nat
       /\ Once(p, t) \in Nat /\ SumFunctionOnSet(handed, Parents(t)) \in Nat
  BY <1>1, <1>2, <1>4, OccurrencesType, ParentsFinite, SumType DEF Once
<1>12. /\ Occurrences(task_queue', t) = Occurrences(rest, t) + Occurrences(new, t)
       /\ Occurrences(blocked_tasks', t) = Occurrences(blocked_tasks, t)
  BY <1>3, <1>7
<1> HIDE DEF p, rest, new
<1>13. CASE IsStart(t)
  BY <1>5, <1>6, <1>8, <1>10, <1>11, <1>12, <1>13
<1>14. CASE ~IsStart(t)
  BY <1>5, <1>6, <1>8, <1>9, <1>10, <1>11, <1>12, <1>14
<1> QED
  BY <1>13, <1>14

\* A task that is put aside moves from the one list to the other.
LEMMA BlockAccounted ==
  ASSUME TypeOK, EveryTaskAccountedFor, Block
  PROVE  EveryTaskAccountedFor'
<1> DEFINE p == GetCurrentTask
           rest == Tail(task_queue)
<1>1. task_queue \in Seq(TaskNodes) /\ task_queue # <<>> /\ blocked_tasks \in Seq(TaskNodes)
  BY DEF TypeOK, SchedulerTypeOK, Block, BlockCurrentTask, CurrentTaskDefined
<1>2. p \in TaskNodes /\ rest \in Seq(TaskNodes)
  BY QueueParts DEF TypeOK, Block, BlockCurrentTask
<1>3. task_queue' = rest /\ blocked_tasks' = Append(blocked_tasks, p) /\ handed' = handed
  BY DEF Block, BlockCurrentTask
<1> SUFFICES ASSUME NEW t \in TaskNodes
             PROVE  handed'[t] + Occurrences(task_queue', t) + Occurrences(blocked_tasks', t) =
                      IF IsStart(t) THEN 1 ELSE SumFunctionOnSet(handed', Parents(t))
  BY DEF EveryTaskAccountedFor, IsStart, Parents, Occurrences
<1>4. Occurrences(task_queue, t) = Once(p, t) + Occurrences(rest, t)
  BY <1>1, OccurrencesHead DEF GetCurrentTask
<1>5. Occurrences(Append(blocked_tasks, p), t) = Occurrences(blocked_tasks, t) + Once(p, t)
  BY <1>1, <1>2, OccurrencesAppend
<1>6. handed[t] + Occurrences(task_queue, t) + Occurrences(blocked_tasks, t) =
        IF IsStart(t) THEN 1 ELSE SumFunctionOnSet(handed, Parents(t))
  BY DEF EveryTaskAccountedFor
<1>7. /\ handed[t] \in Nat /\ Occurrences(rest, t) \in Nat /\ Occurrences(blocked_tasks, t) \in Nat
      /\ Once(p, t) \in Nat
  BY <1>1, <1>2, OccurrencesType DEF TypeOK, Once
<1> HIDE DEF p, rest
<1> QED
  BY <1>3, <1>4, <1>5, <1>6, <1>7

LEMMA NextAccounted == TypeOK /\ EveryTaskAccountedFor /\ [Next]_vars => EveryTaskAccountedFor'
<1>1. ASSUME EveryTaskAccountedFor, UNCHANGED vars PROVE EveryTaskAccountedFor'
  <2>1. handed' = handed /\ task_queue' = task_queue /\ blocked_tasks' = blocked_tasks
    BY <1>1 DEF vars, schedulerVars
  <2> QED
    BY <1>1, <2>1 DEF EveryTaskAccountedFor, IsStart, Parents, Occurrences
<1> QED
  BY <1>1, TakeAccounted, BlockAccounted DEF Next

\* No task is lost and none is made up (fcfsScheduler.cpp:9-25, 34-43, 54-76).
THEOREM FcfsAccounted == FairSpec => []EveryTaskAccountedFor
  BY InitAccounted, NextAccounted, FcfsTypeCorrect, PTL DEF FairSpec

----------------------------------------------------------------------------
\* A task is taken after at least one of its predecessors, for otherwise it was
\* never queued (fcfsScheduler.cpp:54-76).
THEOREM FcfsAfterAPredecessor == FairSpec => []AfterAPredecessor
<1>1. TypeOK /\ EveryTaskAccountedFor => AfterAPredecessor
  <2> SUFFICES ASSUME TypeOK, EveryTaskAccountedFor,
                      NEW t \in TaskNodes, handed[t] > 0, ~IsStart(t),
                      \A p \in Parents(t) : handed[p] = 0
               PROVE  FALSE
    BY DEF AfterAPredecessor, TypeOK, Parents
  <2>1. handed[t] + Occurrences(task_queue, t) + Occurrences(blocked_tasks, t) = 0
    <3>1. SumFunctionOnSet(handed, Parents(t)) = 0
      BY ParentsFinite, SumOfZeros DEF TypeOK
    <3> QED
      BY <3>1 DEF EveryTaskAccountedFor
  <2>2. /\ handed[t] \in Nat
        /\ Occurrences(task_queue, t) \in Nat /\ Occurrences(blocked_tasks, t) \in Nat
    BY OccurrencesType DEF TypeOK, SchedulerTypeOK
  <2> QED
    BY <2>1, <2>2
<1> QED
  BY <1>1, FcfsTypeCorrect, FcfsAccounted, PTL

----------------------------------------------------------------------------
\* An order of the tasks in which a task comes after those that lead to it; the
\* task graph has one if and only if it is acyclic.
IsTopological(rank) ==
  /\ rank \in [TaskNodes -> Nat]
  /\ \A p, t \in TaskNodes : p \in Parents(t) => rank[p] < rank[t]

IsPaths(paths) ==
  paths = [t \in TaskNodes |->
             IF IsStart(t) THEN 1 ELSE SumFunctionOnSet(paths, Parents(t))]

\* In an acyclic graph the number of paths to each task is the only solution of
\* its equation.
LEMMA PathsUnique ==
  ASSUME NEW rank, IsTopological(rank), NEW count \in [TaskNodes -> Nat], IsPaths(count)
  PROVE  \A t \in TaskNodes : Paths[t] = count[t]
<1>1. IsPaths(Paths)
  <2>1. \E paths : IsPaths(paths)
    OBVIOUS
  <2>2. Paths = CHOOSE paths : IsPaths(paths)
    BY DEF Paths, IsPaths
  <2> QED
    BY <2>1, <2>2
<1> DEFINE Agree == {t \in TaskNodes : Paths[t] = count[t]}
<1>2. ASSUME NEW t \in TaskNodes, \A p \in TaskNodes : rank[p] < rank[t] => p \in Agree
      PROVE  t \in Agree
  <2>1. Paths[t] = IF IsStart(t) THEN 1 ELSE SumFunctionOnSet(Paths, Parents(t))
    BY <1>1 DEF IsPaths
  <2>2. count[t] = IF IsStart(t) THEN 1 ELSE SumFunctionOnSet(count, Parents(t))
    BY DEF IsPaths
  <2>3. \A p \in Parents(t) : count[p] \in Nat /\ count[p] = Paths[p]
    BY <1>2, ParentsFinite DEF IsTopological
  <2>4. SumFunctionOnSet(count, Parents(t)) = SumFunctionOnSet(Paths, Parents(t))
    BY <2>3, ParentsFinite, SumCongruence
  <2> QED
    BY <2>1, <2>2, <2>4
<1>3. TaskNodes \subseteq Agree
  <2> HIDE DEF Agree
  <2> QED
    BY <1>2, MeasureInduction DEF IsTopological
<1> QED
  BY <1>3

\* When the queue of an acyclic task graph has run empty and nothing was put
\* aside, a task has been taken once per path that leads to it, not once
\* (fcfsScheduler.cpp:58-68).
THEOREM FcfsOncePerPath ==
  ASSUME NEW CONSTANT rank, IsTopological(rank)
  PROVE  FairSpec => []TakenOncePerPath
<1>1. TypeOK /\ EveryTaskAccountedFor => TakenOncePerPath
  <2> SUFFICES ASSUME TypeOK, EveryTaskAccountedFor, task_queue = <<>>, blocked_tasks = <<>>
               PROVE  \A t \in TaskNodes : handed[t] = Paths[t]
    BY DEF TakenOncePerPath
  <2>1. handed \in [TaskNodes -> Nat]
    BY DEF TypeOK
  <2>2. ASSUME NEW t \in TaskNodes
        PROVE  handed[t] = IF IsStart(t) THEN 1 ELSE SumFunctionOnSet(handed, Parents(t))
    <3>1. Occurrences(task_queue, t) = 0 /\ Occurrences(blocked_tasks, t) = 0
      BY OccurrencesEmpty
    <3> QED
      BY <2>1, <3>1 DEF EveryTaskAccountedFor
  <2>3. IsPaths(handed)
    BY <2>1, <2>2 DEF IsPaths
  <2> QED
    BY <2>1, <2>3, PathsUnique
<1> QED
  BY <1>1, FcfsTypeCorrect, FcfsAccounted, PTL
=============================================================================
