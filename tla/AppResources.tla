---------------------------- MODULE AppResources ----------------------------
(***************************************************************************)
(* What becomes of an application file and of a memory file: the decoded   *)
(* application (yaml/application.cpp), the memory hierarchy (wallet.cpp),  *)
(* and the device prepared with both (device.cpp).                         *)
(*                                                                         *)
(* A document is the YAML tree, reduced to what decides about a run: the   *)
(* two policies, and the regions with their modules and tasks.  Numbers    *)
(* are stored in unsigned and unsigned short variables.                    *)
(***************************************************************************)
EXTENDS FileHandler, FiniteSetsExt

CONSTANTS
  NoDocument,      \* not YAML, or a field is missing or of the wrong type
  NaN,             \* a double that no comparison holds for
  GarbageSpeeds,   \* what an uninitialised double may hold
  UShortRange,     \* 2^16 and 2^32, the ranges of unsigned short and unsigned
  UIntRange

ASSUME RangesAssumption ==
  UShortRange \in Nat \ {0} /\ UIntRange \in Nat /\ UShortRange <= UIntRange

ASSUME GarbageAssumption == GarbageSpeeds \subseteq Int \cup {NaN}

TaskNode == [type : STRING, speed : Nat]
ModuleNode == [id : Nat, tasks : Seq(TaskNode)]
RegionNode == [id : Nat, width : Nat, modules : Seq(ModuleNode)]
Document == [scheduling : STRING, selection : STRING, regions : Seq(RegionNode)]

----------------------------------------------------------------------------
\* decode: how it fails, if it does.
DecodeError(document) ==
  IF document = NoDocument THEN "exception"
  ELSE IF document.scheduling # "fcfs" \/ document.selection # "lft" THEN "user error"
  ELSE "none"

\* Mutant: an application file is accepted if it can be opened.
AnyAppFile(document) == TRUE

\* isValidAppFile
IsValidAppFile(document) == DecodeError(document) = "none"

\* The module nodes of a document, by their places in the file.
Places(document) ==
  UNION {{<<r, m>> : m \in DOMAIN document.regions[r].modules} : r \in DOMAIN document.regions}

RegionAt(document, p) == document.regions[p[1]]
NodeAt(document, p) == RegionAt(document, p).modules[p[2]]

PlacesOf(document, rr) == {p \in Places(document) : RegionAt(document, p).id = rr}

\* The last of a set of places, in the order of the file.
Latest(places) ==
  CHOOSE p \in places : \A q \in places : q[1] < p[1] \/ (q[1] = p[1] /\ q[2] <= p[2])

\* Of two nodes with the same pair of ids the later one stays.
SpecOf(document, rr, id) ==
  LET p == Latest({q \in PlacesOf(document, rr) : NodeAt(document, q).id = id})
  IN  [bitstream_width |-> RegionAt(document, p).width, tasks |-> NodeAt(document, p).tasks]

\* rr_spec_map: a region gets an entry with its first module.
RrSpecMap(document) ==
  [rr \in {RegionAt(document, p).id : p \in Places(document)} |->
     [id \in {NodeAt(document, p).id : p \in PlacesOf(document, rr)} |-> SpecOf(document, rr, id)]]

TaskSpeeds(document) ==
  UNION {{task.speed : task \in ToSet(NodeAt(document, p).tasks)} : p \in Places(document)}

\* fastest_module_speed: the maximum is taken over what the variable held before.
FastestModuleSpeed(document, garbage) ==
  IF garbage = NaN THEN NaN ELSE Max(TaskSpeeds(document) \cup {garbage})

\* decode, with what fastest_module_speed held.
Decode(document, garbage) ==
  [rr_spec_map |-> RrSpecMap(document), simulator_speed |-> FastestModuleSpeed(document, garbage)]

----------------------------------------------------------------------------
MemoryRules ==
  Rules({"name", "main name", "main size", "main read latency", "main search latency"},
        {<<"l name", TRUE>>, <<"l size", TRUE>>, <<"l read latency", TRUE>>,
         <<"l search latency", TRUE>>, <<"l has LUT", FALSE>>})

\* The parameter that was given last; std::stol fails on one that was not given.
LastArg(lines, key) ==
  LET args == ParamArgs(lines, MemoryRules, key)
  IN  IF args = <<>> THEN Word ELSE Last(args)

\* buildMemoryHierarchy: how it fails, if it does.
MemoryError(lines) ==
  IF ~IsFileValid(lines, MemoryRules) THEN "user error"
  ELSE IF \/ \E key \in {"main size", "main read latency", "main search latency"} :
               LastArg(lines, key) \notin Nat
          \/ \E line \in Data(lines, MemoryRules) :
               line.key \in {"l size", "l read latency", "l search latency"} /\ line.arg \notin Nat
       THEN "exception"
  ELSE "none"

\* The number of units from the regions down to main memory, with every cache
\* level up to the highest declared one.
Depth(lines) ==
  2 + Max({0} \cup {line.level : line \in Data(lines, MemoryRules)})

\* buildMemoryHierarchy: main memory's size in kB, and the depth.
BuildMemoryHierarchy(lines) ==
  [main_size |-> LastArg(lines, "main size") % UIntRange, depth |-> Depth(lines)]

----------------------------------------------------------------------------
\* The widths that may be taken for the regions: a region's width is that of the
\* module a hash map has first.
WidthChoices(rr_spec_map) ==
  LET WidthsOf(rr) == {rr_spec_map[rr][id].bitstream_width : id \in DOMAIN rr_spec_map[rr]}
      rrs == DOMAIN rr_spec_map
  IN  {w \in [rrs -> UNION {WidthsOf(rr) : rr \in rrs}] : \A rr \in rrs : w[rr] \in WidthsOf(rr)}

\* prepareAppResources: the space the library needs, which is kept in an unsigned.
RequiredSpace(rr_spec_map, width) ==
  SumFunctionOnSet(
    [rr \in DOMAIN rr_spec_map |-> Cardinality(DOMAIN rr_spec_map[rr]) * width[rr]],
    DOMAIN rr_spec_map)

\* getSize returns the size as an unsigned short.
GetSize(main_size) == main_size % UShortRange

\* getRrTaskCapabilites throws for a module without tasks.
SomeModuleWithoutTasks(rr_spec_map) ==
  \E rr \in DOMAIN rr_spec_map : \E id \in DOMAIN rr_spec_map[rr] : rr_spec_map[rr][id].tasks = <<>>

\* getRrTaskCapabilites: task type -> the regions with a module for it.
TaskCapabilities(rr_spec_map) ==
  LET TypesIn(rr) ==
        UNION {{task.type : task \in ToSet(rr_spec_map[rr][id].tasks)} : id \in DOMAIN rr_spec_map[rr]}
  IN  [type \in UNION {TypesIn(rr) : rr \in DOMAIN rr_spec_map} |->
         {rr \in DOMAIN rr_spec_map : type \in TypesIn(rr)}]

\* The device after prepareAppResources, for a choice of widths.
PreparedDevice(app, memory, width) ==
  [rr_spec_map |-> app.rr_spec_map,
   simulator_speed |-> app.simulator_speed,
   capabilities |-> TaskCapabilities(app.rr_spec_map),
   depth |-> memory.depth,
   main_size |-> memory.main_size,
   required |-> RequiredSpace(app.rr_spec_map, width)]

\* The result of prepareAppResources.
LibraryFits(device) == GetSize(device.main_size) >= device.required % UIntRange

\* Mutant: the controllers look up only what they are asked for.
AllRegionsPresent(device) == TRUE

\* The controllers are numbered from 0 and look up the region of their number in
\* every cycle; prepareAppResources put a placeholder in the regions of the file.
EveryControllerHasRegion(device) ==
  \A i \in 0 .. Cardinality(DOMAIN device.rr_spec_map) - 1 : i \in DOMAIN device.rr_spec_map
=============================================================================
