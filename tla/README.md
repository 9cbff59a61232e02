# A TLA+ model of the Drachma partial-reconfiguration simulator

This directory models the simulator in `src/src`: a controller (PRC) takes
tasks of a task graph and asks the configuration port (ICAP) to transfer a
bitstream into a reconfigurable region (RR), where an RR controller installs
and runs it; a wallet file keeps the user's memory, application and task graph
files from one invocation of the program to the next. The models are checked with TLC and their most important
properties are proved with TLAPS. Source lines are quoted as
`file.cpp:line`, relative to the directory of the file in `src/src`.

## 1. Inventory

| Component | State it keeps | Operations | Talks to |
|---|---|---|---|
| PRC, `components/prc.cpp` | `next_state_`, `scheduled_task_`, `scheduled_bs_`, `icap_req_` | `step` | scheduler and selector (calls), ICAP and RR controllers (signals) |
| FCFS scheduler, `algs/task` | `task_queue_`, `task_queue_lookup_`, `blocked_tasks_` | `initialize`, `getCurrentTask`, `prepareNextTask`, `blockCurrentTask` | task graph library |
| LFT+FE selector, `algs/bitstream` | priority queues built once | `getRrForTask`, `getBitstreamForTask` | reads `PRR_EXE` |
| ICAP, `components/icap.cpp` | `next_state_`, `stall_count_`, `transfer_latency_`, `transfer_bs_`, four signals | `step` | PRC, RR controllers (signals, a handle to the PRC's bitstream) |
| RR controller, one per region, `components/prrLevelController.cpp` | `next_state_`, `action_queue_`, `installed_bs_`, `icap_transfer_bs_`, `prev_task_type_id_`, four signals | `step` | PRC, ICAP (signals, handles), regions and memory (calls) |
| Module, `storage/rrModule.cpp` | state, timestep, latency, `executing_`, `in_simulation_` | `setSpeed`, `beginTransfer`, `beginExecution`, `step` | its controller |
| Memory hierarchy, `storage` | module per region; library in main memory | `insertModule`, `getModule` | device, RR controllers |
| Signal context, `signalContext.cpp` | a stored copy of every signal, copies of handles | `refreshContext`, accessors | everyone |
| Device, `device.cpp` | the components, the cycle count | `prepareAppResources`, `simulateApplication` | everyone |
| Application, YAML reader, `specs`, `yaml` | maps of regions, modules, tasks | built once per invocation | wallet, device |
| File handling, `fileHandler.cpp` | lines with their types, parameters | `parseContent`, `parseEntries`, `addToFile`, `findInFile`, `removeFromFile` | wallet, `main`, the disk |
| Wallet, `wallet.cpp` | lists of hierarchies, applications, graphs; the file `wallet.wal` | constructor, `add*`, `remove*`, `get*`, `printDetails` | file handling, YAML reader, `main` |
| Command line, `main.cpp` | none | `-ma -mr -aa -ar -ta -tr -w -s -h` | wallet, device |
| Replacement algorithms, trace tokens | see section 7 | never called | |

One thread runs the program. Its concurrency is that of the hardware it
imitates: in a cycle the PRC, the ICAP and every RR controller step in turn, on
the signal values that the context stored at the end of the previous cycle.
Signals therefore arrive a cycle late, answers two cycles late, and four-phase
handshakes (request, acknowledge, release, release) overlap with what each side
does next. The hard parts:

* **Timing of handshakes.** The ICAP reads the PRC's bitstream after the PRC
  has let go of its request; a controller decides by the latched transfer signal
  whether a transfer has ended; all controllers share one acknowledge wire.
* **State behind pointers.** Three objects are not latched but shared through
  handles, and the handles are copied while they are null.
* **State nobody writes.** `bitstream_id_`, the module state of placeholders,
  `stall_count_` and `memory_counter_` start as garbage; the first is never
  written at all.
* **Waiting.** A request the ICAP does not grant at once is never granted; the
  PRC has no time-out.
* **Persistence.** `wallet.wal` is changed in place: a line is added in two
  writes, one is removed by emptying the file and writing the others back. The
  program may be killed in between, and the listed files may change at any time.
  Every invocation loads everything that is listed before it looks at its
  command.
* **Numbers.** Sizes and ids pass through `unsigned`, `unsigned short`, `size_t`
  and an uninitialised `double`.

What makes each component correct:

* *Scheduler*: no task lost or made up, a task only after a predecessor, the
  queue of an acyclic graph runs empty.
* *PRC*: the bitstream it requests executes the task it is for, stays put until
  taken, and a task is refused only when no region is idle.
* *ICAP*: one transfer at a time, of what was requested, started by the answer
  of its own region, and it ends.
* *RR controller*: `PRR_EXE` is the truth about its region, what is recorded as
  installed is what is resident, nothing running is overwritten, an accepted
  transfer is installed.
* *Device*: the composition makes progress, and ends in known ways.
* *Wallet*: it is a list of entries; an addition appends one, a removal takes one
  out, and a process that is killed does neither more nor harm to the text.
* *Application*: the maps the components look things up in agree with each other
  and with the numbering of the controllers.

`PROJECT.json` lists every hazard at the line where it bites with the
properties that cover it.

## 2. Modules

```
Application ──┬── LftFeSelector ──┐
              └── SignalContext ──┼── Prc ───────────┐
FcfsScheduler ────────────────────┘                  │
   │                 SignalContext ── Icap ──────────┼── Device ── DeviceProofs
FcfsBench            SignalContext + RrModule        │
   │                    ── RrController ─────────────┘
FcfsProofs
Prc + IcapPort + RrcPort           = PrcBench   ⇒ PrcPort    ── PrcProofs
Icap + PrcPort + RrcPort           = IcapBench  ⇒ IcapPort   ── IcapProofs
RrController + PrcPort + IcapPort  = RrcBench   ⇒ RrcPort    ── RrcProofs
                                        └── RrcWirings

FileHandler ── AppResources ── Wallet ── Drachma ⇒ Library   ── DrachmaProofs
                               (Drachma's devices satisfy Application)
```

* `Application`, `LftFeSelector`, `FcfsScheduler`, `RrModule` are data and
  operators: what the YAML file described, which bitstreams the selector may
  return, the task queue, the state of a module.
* `SignalContext` holds every signal twice, live and stored, and
  `refreshContext`. A live variable has the name of the context's pointer
  (`prc_icap_req`), its stored copy the prefix `stored_`. The handles are the
  operators `PrcScheduledBitstream`, `PrcScheduledTask` and
  `IcapTransferBitstream`.
* `Prc`, `Icap`, `RrController` have one action per path through `step()`. An
  action is the whole step: the part that all states share (dropping an
  acknowledgement, serving the enqueue signal, stepping the module) is in every
  action. A path that ends the process sets `status`.
* `Device` is the loop of `simulateApplication`: `phase` says whose turn it is,
  `next_rrc` is the loop index over the controllers.
* `PrcPort`, `IcapPort`, `RrcPort` are the abstract specifications: what each
  component promises to the other two, without tasks, latencies or faults.
* The `*Bench` modules put one real component between the abstract other two,
  state its properties, and state that it implements its own port. The three
  port properties together are an assume-guarantee argument: each component is
  checked against anything that keeps the ports, and each keeps its port.
  Because every component moves in a turn of its own and a port constrains only
  its owner's turns, the argument is an induction over turns.
* `FcfsBench` drives the scheduler as its caller does.
* `Selection` has one operator, `Kept`: what a loop that skips some elements of
  a container sees. It is a recursive function, so that it can be proved about.
  `RecursionLaws` proves what such functions compute (`Kept`, and the sums of the
  community module `Functions`); `PrcLaws` has the lemmas about the selector and
  the PRC's step that `PrcProofs` and `DeviceProofs` share.
* `FileHandler` is what a text file's lines are to the program: comments, blank
  lines, parameters and data; whether a line lies in a comment block is stated by
  the lines before it (`InBlock`), not by a recursion. `AppResources` is what becomes of an application
  and a memory file: the decoded maps, the hierarchy, and the device prepared with
  both, with the exceptions on the way. `Wallet` has the variables of the wallet
  and its constructor.
* `Drachma` is `main`: one invocation after the other on the same `wallet.wal`.
  The actions are the construction of the wallet (`Invoke`), each command, the
  single writes of an addition and a removal, the kill of the process, and the
  edit of a listed file by someone else. The command is chosen after the wallet is
  loaded, which no command influences. `device` is what `prepareAppResources`
  built; from there `Device` takes over.
* `Library` is what the wallet is to its user: a list of entries, some of them
  commented out, changed by one request at a time. `Drachma` implements it, with
  the file's lines mapped to the entries (and, while the file is rewritten, the
  copy in memory).
* `RrcWirings` is `RrcBench` with a choice between three wirings at the start.
* The `MC*` modules supply constants.

In modules that `PROJECT.json` maps to code, some operators are commented
"Mutant:". They are deliberately broken variants of the operator that follows
them, used by no specification; replacing the original with the variant makes
the named run fail, which shows that the property depends on that code.

### Data

A bitstream is its pair of region and module id. Speeds keep only their order
and latencies are given in cycles: `execution_latency_` and
`calculateTransferLatency` are floating-point expressions that only scale them.
A null pointer is a model value, `NoBs` or `NoTask`. A default-constructed
`moduleSpec` is `DefaultBs`, region 0 and module 0 - it equals a real bitstream
if the file has one with these ids, as `random.yaml` does. `(unsigned) -1` is
`NoId`. Garbage is a choice from the sets `GarbageBsIds`, `GarbageStalls`,
`GarbageModules`; the use of a value that nothing defines ends the process
with status "undefined".

### As built, and with the wiring repaired

As built, the handles are null copies (`HandlesLive = FALSE`,
`TransferBsAtStart = NoBs`) and the ICAP's first look at a request ends the
process (`icap.cpp:103`). The `Device` run models exactly this. Most of the
components' code is then never reached. So the component runs switch these
constants (`HandlesLive = TRUE`, for the ICAP also a first target): the question
of those runs is what each component's own code does once its inputs are what
they are meant to be. No code path is changed by the switches, only what a
handle leads to. The proofs hold for all values of both; only
`RrcNothingGetsThrough`, which is about the null handles, assumes a value.

In the run of the RR controllers a PRC may also raise the start and enqueue
signals, which `prc.cpp` never raises today but the controllers serve, and the
ICAP's memory counter is that of main memory (`PrcMc = 1`; it is 0 as built,
which leads to a null pointer, `prrLevelController.cpp:337`). The run takes each of
these repairs back, too: in a part of its behaviours the handles are null, in
another the counter is 0 (`RrcWirings`). Each of the two alone keeps every region
empty, which the composition hides, because there the ICAP ends the process before
either matters.

## 3. Runs

| Run | Question | States | Result |
|---|---|---|---|
| `fcfs` | what the scheduler hands out, and how often | 617 | holds |
| `fcfs_twice` | "not already present" (`fcfsScheduler.cpp:64`) | | refuted |
| `prc` | what the PRC requests, refuses, and how it ends | 74,349 | holds |
| `prc_choice` | least flexible region, fastest design (`random.yaml:38-39`) | | refuted |
| `icap` | the ICAP's transfers | 9,873 | holds |
| `rrc` | what is installed and executed, with three wirings | 881,435 | holds |
| `rrc_begins` | "always handle requests ... to begin execution" (`prrLevelController.cpp:191`), wiring repaired | | refuted |
| `device` | the whole loop as built | 1,096 | holds |
| `device_tasks` | jobs are enqueued and delivered (`README.md:43-44`), as built | | refuted |
| `drachma` | the wallet through kills and edits, and what a simulation starts on | 222,979 | holds |
| `drachma_graph` | an accepted "task graph file" (`main.cpp:271`) can be loaded | | refuted |
| `drachma_fits` | "too large to fit" (`main.cpp:344`) | | refuted |

What the properties that hold say:

* **fcfs.** `EveryTaskAccountedFor`: taken, queued and put aside add up to one
  for a start node and to the number of times its predecessors were taken for
  any other. `TakenOncePerPath`: a task is executed once per path that leads to
  it, five times for the last node of the example. `AfterAPredecessor` is all
  the precedence there is: a join does not wait for all its inputs, and nothing
  waits for an execution. `QueueDrains`: still, the queue runs empty.
* **prc.** `RequestServesTask`, `RefusedOnlyWhenBusy`: what the PRC asks for is
  right, and it overlooks no idle region, although its choice is not the
  documented one. `SelectorTakesTop`: the loop over a copy of the priority queue
  ends at what the queue's order prefers among the idle regions, however ties
  fall. `UnknownStateByAccident`: the state without a case is reached
  only by garbage. `GrantIsFatal`: after a grant the PRC reads a null pointer
  (`prc.cpp:62` asks for `ICAP_TARGET_RR` among the Boolean signals, where it is
  not). `PrcComesToRest`: it never just spins.
* **icap.** `PutOffForGood`: a request that is not granted at once is never
  served. `RequestedTarget`: the late, unlatched read of the PRC's bitstream is
  nevertheless right, because the PRC's next change of it is a cycle later.
  `AnsweredByTarget`: the shared acknowledge wire is
  harmless, because at most one controller is asked and a stale answer is gone
  before the next transfer. `AckExactlyInAck`: the assertion cannot fail.
  `TransferEnds`.
* **rrc.** `ExecutingTruthful`, `InstalledIsResident`,
  `ReceivesOverPlaceholder`, `TransferIsInstalled`: the controller's book-keeping
  is right. `ProgrammedOnce` and `StartsOnlyAsInstalled`: a region is programmed
  at most once in a run, and its module runs only as it is installed - not, as the
  texts have it, when a task is queued or a start is signalled, which `rrc_begins`
  refutes.
  `NullHandlesStopAll`: whatever the others signal, a controller with null handles
  queues, accepts and executes nothing. `CounterStopsInstallation`: with the memory
  counter of the PRC, what a controller accepts ends the process and is never
  installed.
* **device.** `NoTransferEver`, `NoRegionExecutes`: as built, no bitstream is
  ever transferred and no task executed. `Ends` lists how a run ends, and
  `OneRequest` says that it contains at most one request.
* **drachma.** `EntriesLoad`: an entry that cannot be loaded, and thus keeps
  every invocation from starting, names a file that was edited since it was
  added, or one that `-ma` or `-ta` accepted although it cannot be loaded; no
  kill makes one, and the text of the wallet stays readable.
  `ImplementsLibrary`: an addition that is cut short changes nothing, a removal
  that is cut short keeps the head of the list; a removal takes the first equal
  line even if that one is commented out, and an addition after a comment that does
  not end is not in force. `IdsAsListed`: an id stays valid until an entry is
  removed. `SimulatedIsWellFormed`: a simulation that gets through a cycle has what
  module `Application` takes for granted (dense region ids, possibly none, a
  bitstream per region, a task per bitstream, look-ups that agree), a clock that no
  task is faster than unless the uninitialised maximum was not a number, and room
  in main memory for the space that was summed up, modulo the range of `unsigned`.
  An application whose regions have no modules is simulated, too, on no region at
  all: section 5 says what becomes of it.
  `OverreadsOnlyEmptyLists`: the check of an id fails only for an empty list.

### Bounds

Two regions are the least for which a shared wire, a wrong target or a choice
can matter; one of them has two bitstreams, so that a choice within it and a
second request for it can occur. `MCPrc` has a region that is more flexible and
a slower design in it, two that tie, a task nothing can execute, and ids of 0, which a default
`moduleSpec` looks like. Latencies 0 and 2 (transfer) and 1 (execution) and stalls 0
and 2 (20 in `MCDevice`, longer than the run) cover zero, the countdown and
overlap. The FCFS graph has two joins in sequence. `MaxQueue = 1` bounds a
controller's queue in `RrcBench`; a queued task is never executed
(`StartsOnlyAsInstalled`), so a longer queue behaves like one of length 1.
`ULongMax = 7` stands for the maximum of the counter: it is never read before it
is set again. `DebugStop = 12` stands for 1000: a run is decided after six
cycles. `StopCcc = 20` is larger so that the safety stop ends the run.
`device_tasks` has neither stalls nor an accidental match of `bitstream_id_`, so that
only the PRC's own course decides. A placeholder that looks executing does so for
three cycles (`MCRrc`), until the PRC has scheduled a task, so that a request meets a
region that is not idle. With the memory counter 0,
placeholders look idle (`Vacancy`), so that transfers are accepted.
`MCDrachma` starts from six wallets (none, empty, unreadable, an entry inside and
outside a comment, an unclosed comment, one with every application) and lets
twelve files be listed: seven applications that each reach another path of
`prepareAppResources` (a gap in the ids, no tasks, no modules, a region listed
twice, too large, overflowing, sound), one with an unknown policy, a memory file
that can become incomplete, and files that are not what they are listed as. The
ranges of `unsigned short`, `unsigned` and `size_t` are 8, 32 and 64, so that
small libraries are too large for one and overflow the next. `MaxLines = 3`
stops additions to a longer wallet; blank lines, a torn addition, two entries
and a removal in between still occur, and the longer wallets are reached as
starting points. Garbage is 0 or not a number. Only the program writes
`wallet.wal`, and one invocation runs at a time; one choice of garbage per
invocation suffices because it uses one application. `-s` is run with every
application and with ids that are too large, and with 0 and 5 cycles.

Deadlock is not checked where the process ends (`CHECK_DEADLOCK FALSE` in the
runs): a state with a final `status`, or an empty queue, has no successor.

### Fairness

`FairSpec` adds weak fairness of `Next`: one thread runs the loop and never
waits. In `FcfsBench` it is fairness of taking tasks: whoever owns the scheduler
keeps asking. `RrcBench` adds strong fairness of the abstract ICAP's end of a
transfer, which is the property `TransferEnds` of the real one.

## 4. Disagreements between code and text

1. *The scheduler queues a task again* (`fcfsScheduler.cpp:66`), although the
   comment says it is added only if not already present; the lookup is filled by
   the constructor alone.
2. *The selector's comparators are inverted* (`lftFeSelector.hpp:27-36`): it takes
   the most flexible region and the slowest design.
3. *No job is delivered* (`prc.cpp:154`): the PRC "instantly" enqueues jobs and a
   controller delivers inputs "as jobs are popped from the task queue"
   (`README.md:43-44`). The PRC raises neither the enqueue nor the start signal; the
   states that would are commented out (`device_tasks`, as built).
4. *A queued task or a start signal does not begin an execution*
   (`rrModule.cpp:78`), although the controller's comments say so
   (`prrLevelController.cpp:165, 191-193`): an installed module has run once and
   refuses a speed, so the step throws. This is about the controller's own code: the
   run `rrc_begins` has live handles, a memory counter that leads to main memory,
   and a PRC that raises these signals. As built, a null handle ends the process
   first (`NullHandlesStopAll`).
5. *A task graph is checked as a trace file* (`main.cpp:260`) and read as JSON
   (`wallet.cpp:246`): every graph is refused, and a trace file, once accepted,
   ends every later invocation (`drachma_graph`).
6. *Main memory's size is compared as an `unsigned short`* (`storageUnit.cpp:24`):
   a library that fits is refused, since 256000 counts as 59392 (`drachma_fits`).

Each of these is refuted by a run. Four more have no run of their own:

* "RRC is ready when it has no pending tasks" (`icap.cpp:102`). As built, the first
  request ends the process, because the region is looked up through the target of
  the previous transfer, which is null (`icap.cpp:103`; `NoTransferEver`, `Ends`).
  With a target, the test would be inverted: it is the `PRR_EXE` signal itself
  (`icap.cpp:104`).
* "The RR controller flushes its task queue when it accepts a new ICAP request"
  (`README.md:45`). Nothing is flushed; a request is only looked at while the queue
  is empty (`prrLevelController.cpp:166, 251`), so a controller with queued tasks
  does not accept, and one that has been programmed refuses every later request
  (`ProgrammedOnce`).
* "not a valid memory configuration file" (`main.cpp:162`). Only the form of the
  lines is checked (`main.cpp:157`), and `std::stol` throws for a size or latency
  that is not there (`wallet.cpp:153-156`): such a file, once accepted, ends every
  later invocation, like the trace file of item 5. It is one of the exceptions of
  `EntriesLoad`.
* "too large to fit" (`main.cpp:344`). The library's space is summed up in an
  `unsigned` (`device.cpp:64`): a library larger than main memory is simulated once
  the sum has wrapped, which is why `SimulatedIsWellFormed` speaks of the wrapped
  sum.

## 5. Proofs

Everything below holds for every value of the constants that satisfies the named
assumptions: any number of regions, bitstreams, tasks, any latencies, any
garbage, and any wiring of the handles unless a theorem names one.

**`DeviceProofs`** proves five properties of the whole loop, for any number of
regions, and a sixth for none. The types come from
those of the components and from the stop: the counter never passes `DebugStop`
while the loop runs. `NoTransferEver` is
not inductive: whether the ICAP grants depends on `PRR_EXE`, which depends on the
controllers, which depend on the ICAP's signals. The inductive invariant
`NothingStarts` closes this circle:

* `WiresDown`: no request, acknowledgement, start, enqueue or execution signal
  is up, live or stored;
* `IcapUngranted`: the ICAP is in INIT, IDLE or WAIT with its first target;
* `RrcsAtRest`: every controller is in INIT or IDLE with an empty queue and its
  placeholder;
* `Ends`.

A grant needs an executing region, an execution needs a transfer, and a transfer
needs a grant. Three lemmas say what a step of each component can do under these
conditions (`PrcStepEffect`, `IcapStepEffect`, `RrcStepEffect`), one combines
them (`NextNothingStarts`). The result needs no assumption on
`HandlesLive`: repairing the handles alone would not help. `WithoutRegions` adds to
it where the PRC is (`NeverRequests`): without regions, the selector knows none for
any task type (`PrcFindsNoRegion`), so the PRC never gets past it and requests
nothing.

**`IcapProofs`** proves every safety property of the `icap` run and that the ICAP
implements `IcapPort`. The inductive invariant `IInv` adds to `TypeOK`,
`AckExactlyInAck` and `RequestsAreTheTargets`:

* `HasTarget`, `StallsAtStartOnly`, `TransferReported`: facts about the ICAP's
  own state;
* `StoredInStep`: in the PRC's turn (and in part in the ICAP's) the stored
  signals are the live ones;
* `HeldForTheIcap`: from the grant until the ICAP takes over, the PRC's
  bitstream is the requested one - a statement about the phase of the cycle, the
  stored request and where the PRC is;
* `AnswersItsTransfer`: a controller that sees a request or acknowledges one does
  so for the transfer under way. It is stated for all phases but the
  controllers' own, in which an old acknowledgement is still up.

One lemma per turn preserves it; within the ICAP's turn there is a step per
action, once for what it assigns (`IcapStepTypes`) and once for how that relates
(`IcapStepRelates`). `IcapStepIsPortStep` maps every action to a step of the
port, or to the end of the process.

**`PrcProofs`** proves every safety property of the `prc` run and that the
PRC implements `PrcPort`. The inductive invariant is small:

* `RequestExactlyInReq`: the request is up exactly in PRC_REQ_ICAP, the state in
  which neither the task nor the bitstream changes;
* `RequestServesTask` itself;
* `BsIdStoredOrUnknown`: what the context reports of `bitstream_id_` is what the
  constructors left there, or "nothing known";
* `EnqueuesWhatIsReported`: PRC_RR_ENQUEUE is entered only for a region whose
  `bitstream_id_`, which nothing ever writes, is not the "nothing known" id.

`TargetsImplement` says that whatever the selector may put on top executes the
task. The loop over the copy of the priority queue takes as many turns as the
queue has elements, any number of them. `PopUntilIdleSteps` unfolds it, and
`LoopTakesTop` shows by induction over what is left of the queue that it ends at
an element which nothing idle precedes, or at nothing if nothing is idle:
`SelectorTakesTop` and `RefusedOnlyWhenBusy` follow. That a queue has a top at
all needs a finite application: `BitstreamsAssumption` and `TasksAssumption` say
that a file lists finitely many bitstreams with finitely many task types.

**`FcfsProofs`** proves every safety property of the `fcfs` run. `EveryTaskAccountedFor` is
inductive together with the types. When a task is taken, the count of each of its
children rises by one on both sides, whatever the order of the list; that the
list names no node twice is `TaskGraphAssumption`, because the graph library
keeps the neighbours in a map with the node as its key. `AfterAPredecessor` is then a statement about the count
being positive. `TakenOncePerPath` compares the history with a recursive count of
paths, which exists only in an acyclic graph: the theorem assumes a rank that
falls along every edge, and shows that the count is the only solution of the
equation that the history keeps, whatever the graph's size.

**Induction over data.** The library's induction theorems take an operator
and cannot be used here. `RecursionLaws` states induction over a *set*
instead (`SetInduction`, `MeasureInduction`, `SubsetInduction`, `SeqInduction`): whatever set contains the first element and
with each element the next contains them all. From it follows that a recursive
function over a measure exists (`RecursionExists`), without which nothing can be
said about a `CHOOSE`d one, and what sums and selections return.

**`RrcProofs`** proves every safety property of the `rrc` run and that the
controllers implement `RrcPort`, for every wiring; the two properties about a wiring
are `NothingGetsThrough`, which assumes null handles, and `NothingInstalled`, which
assumes that the memory counter points above main memory. What holds throughout,
`BooksKept`, depends on the handles. If they are null, it is `NothingReaches`: no controller has anything in its
queue, has accepted anything, or has more in its region than the placeholder,
because whoever follows a handle ends the process. If they are live, it is `IInv`.
`NothingInstalled` is inductive together with the types and the value of the
counter (`NothingFetched`). `IInv` has two halves. `BooksRight` holds also when the
process has ended and relates the controllers to the modules:

* `Typed`: `TypeOK`, and the queues hold tasks;
* `ExecutingTruthful`, `ReceivesOverPlaceholder`, `InstalledIsResident`;
* `ResidentInOwnRegion`, `InstalledOnlyIfResident`: regions share no object;
* `ResidentHasRun`: an installed module stays marked as executing, and has been
  stepped by the time it is idle. It then refuses a speed, which is why a queued
  task and a start signal always end the process and only an installation raises
  `PRR_EXE` (`StartsNothing`).

`Timely` holds while the process runs and relates the signals to the phase of the
cycle: `StoredInStep`, `HeldForTheIcap`, `StartsForOwnBitstream`,
`TransferReported`, `RequestsItsTransfer`, `LoopFromZero`, and above all
`NotOvertaken`: the bitstream a controller accepted is still the ICAP's until the
controller has installed it. The end of a transfer is seen a cycle late, so the
claim goes through each phase: the ICAP may be free, it may even have granted the
next request, but it takes over another bitstream only after the controllers had
their turn. `StepEffect` reduces the eleven paths of `step()` to four outcomes (a
fault, service, acceptance, installation), each of which keeps the books.

**`DrachmaProofs`** proves every property of the `drachma` run, for every
collection of files and contents, every set of command lines and every wallet to
start from, however long: `MaxLines`, which bounds the run, is not used. What
the proofs rest on, beside the assumptions on constants (what a file can hold is
lines and a document, an entry names a file, ids are natural numbers):

* *The text.* `BlockSteps` and `BlockOfPrefix` say how a comment block goes from
  one line to the next and that only the lines before matter. From them, a line
  that is appended leaves every other line what it was (`ParsedAppend`,
  `ValidAppend`, `ListedAppend`), and so does one that is removed, if it neither
  opens nor ends a block (`BlockRemove`); an entry does neither (`EntryFacts`).
* *Where a command is.* `Stages` relates the file to the program counter: a loaded
  wallet can be read and its lists are what the file says (`Loaded`); an addition
  under way has a readable file (`Appending`); a removal under way has written
  the lines of the copy in memory, without the entry, up to the loop's index
  (`Rewriting`). `TypeOK` and `Stages` are inductive together.
* `Sourced`: the lists of a loaded wallet were made of accepted files. With it an
  id that is beyond its list got past the check because the list is empty
  (`OverreadsOnlyEmptyLists`).
* `EntriesLoad` from `Readable` and `AllFine`. `Readable` is kept by a kill
  because what `Rewriting` says of the file holds after each line (`PartValid`).
  `AllFine` speaks of every file there is, listed or not: only an edit makes a file
  unfit, and an edit is recorded; `-aa` decodes the file as the constructor will.
* `IdsAsListed` from `Shown`, which holds at every stage: what `-w` showed is a
  prefix of what the text lists, also while a line is being added to it; a removal
  ends the claim.
* `SimulatedIsWellFormed` from `PreparedIfSimulated`: the device was built from an
  application and a hierarchy that were accepted, and passed every check. The
  rest is about the operators of `AppResources` alone: what `decode` makes of any
  document (`RrSpecMapIs`, with repeated regions and modules), that no task is
  faster than the maximum unless that was not a number (`SpeedsAre`), that ids
  0..n-1 are the only ones if every controller finds its region, that a
  comparison modulo two ranges bounds the wrapped sum by the size (`FitsIs`).
* `ImplementsLibrary`, step by step. `ItemsAppend`, `MarkedRemove` and `KeptRemove`
  say what an appended and a removed line do to the list of entries;
  `ItemsPart` that any part of a text that was being rewritten is, as a list, the
  head of the list without the first equal entry. Then the first write of an
  addition and the truncation of a removal are `Ask`, the last writes are
  `AddEntry` and `RemoveEntry`, a kill is `AddLost` or `RemoveLost`, and every
  other step leaves the list alone (`QuietSteps`).

Only model-checked: all liveness (`QueueDrains`, `GrantIsFatal`,
`PrcComesToRest`, `TransferEnds`, `TransferIsInstalled`), which is out of the
prover's reach.

## 6. What is abstracted

Printing, wording and the debug details of `refreshContext` are left out. The
priority queues of the selector are sets, with any element on top that the
comparator prefers: the order of ties is that of hash maps. The loop over a copy
of one is modelled step by step. The graph library gives the start
nodes and neighbours in a fixed order. `ccc` counts cycles up to `DebugStop`.
Signals that nobody reads are left out (`ICAP_TARGET_RR`, and the context's copy
of `PRC_MC`, a constant). The simulation modules assume region ids 0..n-1, as the
device numbers its controllers (`device.cpp:111-114`); `Drachma` shows that any
other application ends in the first cycle (`EveryControllerHasRegion`), or is
refused before.

A line of a text file is how it starts, the text before its colon and the text
after it; a YAML file is its document, reduced to the policies, regions, modules
and tasks. The static regions get modules that nothing looks at again. Uncaught
exceptions, `userError` among them, end the process; `outcome` tells them apart.

## 7. Components not modelled

* *Replacement algorithms*: dead code. `wallet.cpp:213` constructs one for each
  cache level and no line calls it; `memoryLevel::evictModule` is empty. There is
  no behaviour of the program to model.
* *Trace tokens*: superseded by task graphs (`signalContext.cpp:536`); nothing
  creates one.
* The YAML, JSON and graph libraries are external; so is the terminal output.
* Commented-out states of `prc::step` (memory search, enqueue, start), and
  functions that are never called (`printEntries`, `deleteIfExists`, the
  application rules in `wallet.hpp`).

## 8. Plan

Done: the three components, the loop that composes them, the abstract ports, the
scheduler, the selector with its loop, the wallet with the files it lists and its
abstract specification, the preparation of a device, the command line; the proofs
of section 5, with which every invariant and action property of a run, and every
refinement, is a theorem. In this order next:

1. **The composition of the port theorems**: that `Device`, with live handles,
   implements all three ports at once, by the induction over turns that section 2
   describes.
2. **`Synchronous`**: one cycle as a single simultaneous step of all
   components, which `Device` implements because the context latches.

## 9. Running

`tlc -config MCIcap.cfg MCIcap.tla` checks a model, `tlapm IcapProofs.tla` a
proof. The `rrc` and `drachma` runs take a few minutes each, the others seconds; the
proofs take less than a minute each, but `DrachmaProofs` about five.
