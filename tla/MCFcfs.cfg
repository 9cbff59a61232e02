\* The scheduler on a task graph with joins.
SPECIFICATION FairSpec
CONSTANTS
  s1 = s1
  s2 = s2
  a = a
  b = b
  c = c
  j = j
  e = e
  TaskNodes <- MCTaskNodes
  StartNodes <- MCStartNodes
  Neighbors <- MCNeighbors
INVARIANTS
  EveryTaskAccountedFor
  AfterAPredecessor
  TakenOncePerPath
PROPERTY
  QueueDrains
\* The queue runs empty.
CHECK_DEADLOCK FALSE
