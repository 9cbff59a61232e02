--------------------------- MODULE LftFeSelector ---------------------------
(***************************************************************************)
(* lftFeSelector: "Least Flexible, Task (RR) + Fastest Execution           *)
(* (bitstream)".  std::priority_queue keeps on top an element that its     *)
(* comparator puts before no other one; elements that tie are in an order  *)
(* the hash maps decide, so every one of them is a possible top.           *)
(***************************************************************************)
EXTENDS Application

\* max_pair_compare: the element with the higher value is the lesser one.
MaxPairCompare(left, right) == left > right

\* min_pair_compare: the element with the lower value is the lesser one.
MinPairCompare(left, right) == left < right

\* getRrTaskFlexabilies: the number of unique task types a region can host.
Flexibility(rr) ==
  Cardinality(UNION {DOMAIN Tasks[bs] : bs \in {b \in Bitstreams : b.region_id = rr}})

\* The possible tops of an lfRrModuleMinPq_t that holds the regions rrs.
TopRrs(rrs) ==
  {rr \in rrs : \A other \in rrs : ~MinPairCompare(Flexibility(rr), Flexibility(other))}

\* Mutant: only the top of the queue is looked at.
OnlyTopRrs(type, executing) == {rr \in TopRrs(CapableRrs(type)) : ~executing[rr]}

\* The loop of getRrForTask from each content of its copy of the queue: a top that
\* is not executing is the result, one that is gets popped.
PopUntilIdle(executing) ==
  LET result[queue \in SUBSET RrIds] ==
        UNION {IF executing[rr] THEN result[queue \ {rr}] ELSE {rr} : rr \in TopRrs(queue)}
  IN  result

\* Mutant: the top is popped before it is looked at.
RrsBelowTop(type, executing) ==
  UNION {PopUntilIdle(executing)[CapableRrs(type) \ {rr}] : rr \in TopRrs(CapableRrs(type))}

\* getRrForTask: the regions it may return for a task type.  The empty set is
\* { false, 0 }.
RrsForTask(type, executing) == PopUntilIdle(executing)[CapableRrs(type)]

\* Mutant: the speeds of a region are not kept per task type.
AnyBitstreams(rr, type) == {bs \in Bitstreams : bs.region_id = rr}

\* The possible tops of fastedSpeedMaxPq_t for a task type in a region.
TopBitstreams(rr, type) ==
  {bs \in Implementations(rr, type) :
     \A other \in Implementations(rr, type) :
       ~MaxPairCompare(Tasks[bs][type].speed, Tasks[other][type].speed)}

\* getBitstreamForTask: the empty set is { false, moduleSpec() }.
BitstreamsForTask(type, executing) ==
  UNION {TopBitstreams(rr, type) : rr \in RrsForTask(type, executing)}
=============================================================================
