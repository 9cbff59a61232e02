\* A task that two queued predecessors lead to is queued twice.
SPECIFICATION FairSpec
CONSTANTS
  s1 = s1
  s2 = s2
  a = a
  b = b
  c = c
  j = j
  e = e
  TaskNodes <- MCTaskNodes
  StartNodes <- MCStartNodes
  Neighbors <- MCNeighbors
INVARIANT
  NoTaskQueuedTwice
CHECK_DEADLOCK FALSE
