---------------------------- MODULE Application ----------------------------
(***************************************************************************)
(* The application under simulation, as the YAML reader leaves it in       *)
(* application::rr_spec_map: which bitstreams exist for which              *)
(* reconfigurable region (RR), and which task types each one executes.     *)
(*                                                                         *)
(* A bitstream is identified by its region and its module id.  Speeds keep *)
(* only their order, and the execution latency of a task is given in       *)
(* simulation cycles (what rrModule::beginExecution computes from it).     *)
(***************************************************************************)
EXTENDS Integers, FiniteSets

CONSTANTS
  RrCount,      \* number of reconfigurable regions, prr_count in the device
  Bitstreams,   \* the entries of rr_spec_map
  Tasks,        \* Tasks[bs]: task type -> [speed, latency]
  TypeOf,       \* TypeOf[t]: the "type" metadata of a task graph node
  NoBs          \* a null std::shared_ptr<moduleSpec>

\* Region ids come from the YAML file; the device numbers its controllers
\* 0 .. RrCount-1 and the two must agree.
RrIds == 0 .. RrCount - 1

BitstreamId == [region_id : RrIds, id : Nat]

\* There may be none: a region without modules gets no entry.
ASSUME RrCountAssumption == RrCount \in Nat

\* The bitstreams are those a file lists, and every region has one
\* (application::getRrBitstreamSizes throws otherwise).
ASSUME BitstreamsAssumption ==
  /\ Bitstreams \subseteq BitstreamId /\ IsFiniteSet(Bitstreams)
  /\ \A rr \in RrIds : \E bs \in Bitstreams : bs.region_id = rr

\* Every module executes a task type (application::getRrTaskCapabilites throws otherwise).
ASSUME TasksAssumption ==
  \A bs \in Bitstreams :
    /\ DOMAIN Tasks[bs] # {} /\ IsFiniteSet(DOMAIN Tasks[bs])
    /\ \A type \in DOMAIN Tasks[bs] : Tasks[bs][type] \in [speed : Nat, latency : Nat]

ASSUME NoBsAssumption == NoBs \notin BitstreamId

\* moduleSpec(): value-initialised, hence region 0 and module 0.
DefaultBs == [region_id |-> 0, id |-> 0]

\* (unsigned) -1, the id of a placeholder module and of "no bitstream known".
NoId == -1

\* The bitstreams of region rr that execute a task type.
Implementations(rr, type) ==
  {bs \in Bitstreams : bs.region_id = rr /\ type \in DOMAIN Tasks[bs]}

\* The regions that can execute a task type: the keys of bs_capabilites[type].
CapableRrs(type) == {rr \in RrIds : Implementations(rr, type) # {}}
=============================================================================
