------------------------------- MODULE Drachma -------------------------------
(***************************************************************************)
(* main: one invocation of the program after the other, each with its own  *)
(* command line, on the same wallet.wal.  An invocation may be killed at   *)
(* any point, and the files the wallet lists may be edited at any time.    *)
(* What the constructor of wallet does is independent of the command, so   *)
(* the command is chosen once the wallet is loaded.                        *)
(***************************************************************************)
EXTENDS Wallet

CONSTANTS
  Commands,      \* command lines: [switches, file, ids]
  NoFile,        \* argv[2] is null
  MayContain,    \* MayContain[f]: the contents that f may be given from outside
  Wallets,       \* contents of wallet.wal to start from, with at_line_start
  InitialDisk,
  NoDevice,
  NoListing,
  SizeRange,     \* 2^64, the range of size_t: larger than any id
  MaxLines       \* bound: nothing is added to a wallet of this many lines

ASSUME DiskAssumption ==
  /\ InitialDisk \in [FileNames -> Contents \cup {Absent}]
  /\ MayContain \in [FileNames -> SUBSET (Contents \cup {Absent})]

ASSUME WalletsAssumption ==
  /\ Absent \notin Seq(WalletLines)
  /\ \A w \in Wallets : w.lines \in Seq(WalletLines) \cup {Absent} /\ w.at_line_start \in BOOLEAN

ASSUME CommandsAssumption ==
  /\ NoFile \notin FileNames
  /\ \A c \in Commands : c.file \in FileNames \cup {NoFile} /\ c.ids \in Seq(Nat)

ASSUME SizeRangeAssumption == SizeRange \in Nat \ {0}

VARIABLES
  pc,        \* "none" between invocations, "loaded", "appending", "rewriting", "ended"
  command,   \* the command under way
  next_line, \* removeFromFile: the loop's index into file_body_
  outcome,   \* how the last invocation ended
  device,    \* the device the last invocation simulated or refused
  listed,    \* history: the files and ids of the last -w, until a removal
  edited     \* history: the entries whose file was edited since they were last added,
             \* and those that did not load to begin with

controlVars == <<pc, command, next_line>>
historyVars == <<listed, edited>>
vars == <<disk, fileVars, libraryVars, controlVars, outcome, device, historyVars>>

NoCommand == [switches |-> <<>>, file |-> NoFile, ids |-> <<>>]

TraceRules == Rules({"name"}, {<<"trace", FALSE>>})

----------------------------------------------------------------------------
\* The command line.

\* The switch the loop acts on: 'h' only prints and the loop goes on.
ActiveSwitch(switches) ==
  LET others == SelectSeq(switches, LAMBDA s : s # "h")
  IN  IF others = <<>> THEN "h" ELSE Head(others)

\* What the loop does with it: 'm', 'a' and 't' want two switches, of which the
\* second says what to do.
Operation(switches) ==
  LET active == ActiveSwitch(switches)
  IN  CASE active = "h" -> "help"
        [] active = "w" -> "list"
        [] active = "s" -> "start"
        [] active \in Kinds /\ Len(switches) = 2 /\ switches[2] = "a" -> "add"
        [] active \in Kinds /\ Len(switches) = 2 /\ switches[2] = "r" -> "remove"
        [] OTHER -> "misuse"

\* The check the content of a file must pass.
Accepts(kind, content) ==
  CASE kind = "m" -> IsFileValid(LinesOf[content], MemoryRules)
    [] kind = "a" -> IsValidAppFile(DocumentOf[content])
    [] kind = "t" -> IsFileValid(LinesOf[content], TraceRules)

\* The file is there and passes the check.
Passes(kind, file) == disk[file] # Absent /\ Accepts(kind, disk[file])

\* Mutant: a null argv[2] is not noticed.
CanAddNull(c) == c.file # NoFile => Passes(ActiveSwitch(c.switches), c.file)

CanAdd(c) == c.file # NoFile /\ Passes(ActiveSwitch(c.switches), c.file)

----------------------------------------------------------------------------
TheEntry(c) == Entry(ActiveSwitch(c.switches), c.file)

\* The process ends.
End(result) ==
  /\ pc' = "ended" /\ command' = NoCommand /\ next_line' = 0
  /\ Forget
  /\ outcome' = result

EndWithoutDevice(result) == End(result) /\ device' = NoDevice

\* The process starts, with switches, and constructs its wallet.
Invoke ==
  /\ pc = "none"
  /\ IF LoadError = "none"
     THEN /\ Load
          /\ pc' = "loaded"
          /\ UNCHANGED <<command, next_line, outcome, device>>
     ELSE EndWithoutDevice(LoadError)
  /\ UNCHANGED <<disk, fileVars, historyVars>>

\* The process starts without switches.
InvokeWithoutSwitches ==
  /\ pc = "none"
  /\ EndWithoutDevice("user error")
  /\ UNCHANGED <<disk, fileVars, historyVars>>

\* -ma, -aa, -ta with a file that is missing or fails the check.
RefuseToAdd(c) ==
  /\ pc = "loaded" /\ Operation(c.switches) = "add" /\ c.file # NoFile
  /\ ~CanAdd(c)
  /\ EndWithoutDevice("user error")
  /\ UNCHANGED <<disk, fileVars, historyVars>>

\* The lists are not read again, only the copy of the lines is.
ForgetLists ==
  memories' = <<>> /\ applications' = <<>> /\ task_graphs' = <<>> /\ UNCHANGED file_body

\* -ma, -aa, -ta with any other file.  addToFile writes and flushes a newline
\* before the line: after a wallet that ends with one, it makes a blank line.
BeginAdd(c) ==
  /\ pc = "loaded" /\ Operation(c.switches) = "add" /\ CanAdd(c)
  /\ Len(wallet_file) < MaxLines
  /\ pc' = "appending" /\ command' = c
  /\ wallet_file' = IF at_line_start THEN Append(wallet_file, Blank) ELSE wallet_file
  /\ at_line_start' = TRUE
  /\ edited' = edited \ {TheEntry(c)}
  /\ ForgetLists
  /\ UNCHANGED <<disk, next_line, outcome, device, listed>>

\* addToFile: the line.
AppendEntry ==
  /\ pc = "appending"
  /\ wallet_file' = Append(wallet_file, TheEntry(command))
  /\ at_line_start' = FALSE
  /\ EndWithoutDevice("done")
  /\ UNCHANGED <<disk, historyVars>>

\* -mr, -ar, -tr: removeFromFile opens the file, which empties it.
BeginRemove(c) ==
  /\ pc = "loaded" /\ Operation(c.switches) = "remove" /\ c.file # NoFile
  /\ FindInFile(file_body, TheEntry(c)) # 0
  /\ pc' = "rewriting" /\ command' = c /\ next_line' = 1
  /\ wallet_file' = <<>> /\ at_line_start' = TRUE
  /\ listed' = NoListing
  /\ ForgetLists
  /\ UNCHANGED <<disk, outcome, device, edited>>

\* removeFromFile: the next line, flushed, unless it is the one to remove.
RewriteLine ==
  /\ pc = "rewriting" /\ next_line <= Len(file_body)
  /\ wallet_file' = IF next_line = FindInFile(file_body, TheEntry(command))
                    THEN wallet_file ELSE Append(wallet_file, file_body[next_line])
  /\ next_line' = next_line + 1
  /\ UNCHANGED <<disk, at_line_start, libraryVars, pc, command, outcome, device, historyVars>>

EndRemove ==
  /\ pc = "rewriting" /\ next_line > Len(file_body)
  /\ EndWithoutDevice("done")
  /\ UNCHANGED <<disk, fileVars, historyVars>>

\* -mr, -ar, -tr with a file that is not in the wallet.
NothingToRemove(c) ==
  /\ pc = "loaded" /\ Operation(c.switches) = "remove" /\ c.file # NoFile
  /\ FindInFile(file_body, TheEntry(c)) = 0
  /\ EndWithoutDevice("user error")
  /\ UNCHANGED <<disk, fileVars, historyVars>>

\* A std::string is made of the null argv[2].
NoFileGiven(c) ==
  /\ pc = "loaded" /\ Operation(c.switches) \in {"add", "remove"} /\ c.file = NoFile
  /\ EndWithoutDevice("exception")
  /\ UNCHANGED <<disk, fileVars, historyVars>>

\* The files of a list as -w prints them, by id.
Names(kind) ==
  CASE kind = "m" -> [n \in DOMAIN memories |-> memories[n].file]
    [] kind = "a" -> [n \in DOMAIN applications |-> applications[n].file]
    [] kind = "t" -> task_graphs

\* -w: printDetails
List(c) ==
  /\ pc = "loaded" /\ Operation(c.switches) = "list"
  /\ listed' = [kind \in Kinds |-> Names(kind)]
  /\ EndWithoutDevice("done")
  /\ UNCHANGED <<disk, fileVars, edited>>

\* -h, and every command line that is none of the others.
HelpOrMisuse(c) ==
  /\ pc = "loaded" /\ Operation(c.switches) \in {"help", "misuse"}
  /\ EndWithoutDevice(IF Operation(c.switches) = "help" THEN "done" ELSE "user error")
  /\ UNCHANGED <<disk, fileVars, historyVars>>

----------------------------------------------------------------------------
\* Starting a simulation: -s MEMORY_ID APPLICATION_ID TASK_GRAPH_ID [STOP_AT_CC].

\* Mutant: an id is compared with the size.
GetErrorLate(list, id) ==
  IF Len(list) < id THEN "user error" ELSE IF id >= Len(list) THEN "undefined" ELSE "none"

\* getMemory, getApplication, getTaskGraph: size() - 1 wraps if the list is empty.
GetError(list, id) ==
  IF (Len(list) - 1) % SizeRange < id THEN "user error"
  ELSE IF id >= Len(list) THEN "undefined" ELSE "none"

StartError(ids) ==
  IF Len(ids) \notin {3, 4} THEN "user error"
  ELSE LET errors == <<GetError(memories, ids[1]), GetError(applications, ids[2]),
                       GetError(task_graphs, ids[3])>>
           AppWithoutTasks == SomeModuleWithoutTasks(applications[ids[2] + 1].app.rr_spec_map)
       IN  IF ToSet(errors) # {"none"}
           THEN Head(Kept(errors, {"user error", "undefined"}))
           ELSE IF AppWithoutTasks THEN "exception" ELSE "none"

StartFails(c) ==
  /\ pc = "loaded" /\ Operation(c.switches) = "start"
  /\ StartError(c.ids) # "none"
  /\ EndWithoutDevice(StartError(c.ids))
  /\ UNCHANGED <<disk, fileVars, historyVars>>

\* What follows prepareAppResources.  "simulated" stands for a run that gets
\* through its first cycle; module Device says what comes of it.
ResultOf(prepared, ids) ==
  IF ~LibraryFits(prepared) THEN "too large"
  ELSE IF Len(ids) = 4 /\ ids[4] = 0 THEN "done"
  ELSE IF ~EveryControllerHasRegion(prepared) THEN "segfault" ELSE "simulated"

Start(c) ==
  /\ pc = "loaded" /\ Operation(c.switches) = "start"
  /\ StartError(c.ids) = "none"
  /\ LET app == applications[c.ids[2] + 1].app
         memory == memories[c.ids[1] + 1].unit
     IN  \E width \in WidthChoices(app.rr_spec_map) :
           /\ device' = PreparedDevice(app, memory, width)
           /\ End(ResultOf(device', c.ids))
  /\ UNCHANGED <<disk, fileVars, historyVars>>

----------------------------------------------------------------------------
\* The process is killed.
Kill ==
  /\ pc \notin {"none", "ended"}
  /\ EndWithoutDevice("killed")
  /\ UNCHANGED <<disk, fileVars, historyVars>>

\* The user is back at the prompt.
Return ==
  /\ pc = "ended" /\ pc' = "none"
  /\ outcome' = "none" /\ device' = NoDevice
  /\ UNCHANGED <<disk, fileVars, libraryVars, command, next_line, historyVars>>

\* A listed file is written, replaced or deleted by someone else.
Edit(f) ==
  /\ pc # "ended"
  /\ \E content \in MayContain[f] \ {disk[f]} : disk' = [disk EXCEPT ![f] = content]
  /\ edited' = edited \cup {Entry(kind, f) : kind \in Kinds}
  /\ UNCHANGED <<fileVars, libraryVars, controlVars, outcome, device, listed>>

Init ==
  /\ disk = InitialDisk
  /\ \E w \in Wallets : wallet_file = w.lines /\ at_line_start = w.at_line_start
  /\ file_body = <<>> /\ memories = <<>> /\ applications = <<>> /\ task_graphs = <<>>
  /\ pc = "none" /\ command = NoCommand /\ next_line = 0
  /\ outcome = "none" /\ device = NoDevice
  /\ listed = NoListing
  /\ edited = {e \in Entries : EntryError(e.key, e.arg) # "none"}

RunCommand(c) ==
  \/ RefuseToAdd(c) \/ BeginAdd(c) \/ BeginRemove(c) \/ NothingToRemove(c) \/ NoFileGiven(c)
  \/ List(c) \/ HelpOrMisuse(c) \/ StartFails(c) \/ Start(c)

Next ==
  \/ Invoke \/ InvokeWithoutSwitches
  \/ \E c \in Commands : RunCommand(c)
  \/ AppendEntry \/ RewriteLine \/ EndRemove
  \/ Kill \/ Return
  \/ \E f \in FileNames : Edit(f)

Spec == Init /\ [][Next]_vars

----------------------------------------------------------------------------
Outcomes ==
  {"none", "done", "user error", "exception", "undefined", "too large", "segfault",
   "simulated", "killed"}

\* Type invariant.
TypeOK ==
  /\ disk \in [FileNames -> Contents \cup {Absent}]
  /\ wallet_file \in Seq(WalletLines) \cup {Absent} /\ at_line_start \in BOOLEAN
  /\ file_body \in Seq(WalletLines)
  /\ pc \in {"none", "loaded", "appending", "rewriting", "ended"}
  /\ command \in Commands \cup {NoCommand}
  /\ next_line \in 0 .. Len(file_body) + 1
  /\ outcome \in Outcomes
  /\ edited \subseteq Entries

\* What -w prints stays usable: until an entry is removed, the ids it showed
\* denote the same files in every later invocation, whatever is added in
\* between, edited, or interrupted (wallet.cpp:9-40, 298-337).
IdsAsListed ==
  pc = "loaded" /\ listed # NoListing =>
    \A kind \in Kinds : IsPrefix(listed[kind], Names(kind))

\* One entry that cannot be loaded keeps every invocation from starting, the one
\* that would remove it included.  The wallet's text stays readable, and an
\* entry that does not load names a file that was edited since it was added, a
\* memory file that lacks a parameter, or a task graph (main.cpp:151-182,
\* 209-221, 260-275); killing the program never makes one.
EntriesLoad ==
  wallet_file # Absent =>
    /\ IsFileValid(wallet_file, WalletRules) \/ wallet_file \in {w.lines : w \in Wallets}
    /\ \A kind \in Kinds : \A f \in ToSet(Listed(wallet_file, kind)) :
         \/ EntryError(kind, f) = "none" \/ Entry(kind, f) \in edited
         \/ kind \in {"m", "t"} /\ Passes(kind, f)

\* The application of the device, as the simulation's components see it.
DeviceBitstreams ==
  UNION {{[region_id |-> rr, id |-> id] : id \in DOMAIN device.rr_spec_map[rr]} :
           rr \in DOMAIN device.rr_spec_map}

TasksOf(bs) == ToSet(device.rr_spec_map[bs.region_id][bs.id].tasks)

Simulated == INSTANCE Application
  WITH RrCount <- Cardinality(DOMAIN device.rr_spec_map),
       Bitstreams <- DeviceBitstreams,
       Tasks <- [bs \in DeviceBitstreams |-> [type \in {task.type : task \in TasksOf(bs)} |-> bs]],
       TypeOf <- <<>>,
       NoBs <- NoDevice

\* A simulation that gets through its first cycle has what module Application
\* assumes of it: regions 0..n-1, each with a bitstream, each bitstream with a
\* task, and the lookup of capable regions agreeing with them.  n is 0 if no
\* region of the file has a module: such an application is simulated, too (see
\* WithoutRegions of module Device).  The clock is one that no task is faster
\* than, unless the uninitialised maximum was not a number; main memory lies
\* below the regions, and has room for the library as far as its space was
\* summed up, in an unsigned (device.cpp:46-95, 111-114; yaml/application.cpp:58-99).
SimulatedIsWellFormed ==
  outcome = "simulated" =>
    /\ DeviceBitstreams \subseteq Simulated!BitstreamId
    /\ \A rr \in Simulated!RrIds : \E bs \in DeviceBitstreams : bs.region_id = rr
    /\ \A bs \in DeviceBitstreams : TasksOf(bs) # {}
    /\ \A type \in DOMAIN device.capabilities :
         device.capabilities[type] = Simulated!CapableRrs(type)
    /\ device.simulator_speed = NaN
       \/ \A bs \in DeviceBitstreams : \A task \in TasksOf(bs) : task.speed <= device.simulator_speed
    /\ device.depth >= 2
    /\ device.required % UIntRange <= device.main_size

\* An id is used beyond the end of its list only if the list is empty: size() - 1
\* is then the largest size_t (wallet.cpp:254, 269, 284).
OverreadsOnlyEmptyLists ==
  [][outcome' = "undefined" /\ outcome # "undefined" =>
       \E kind \in Kinds : Names(kind) = <<>>]_vars

----------------------------------------------------------------------------
\* The wallet implements Library.  While the file is rewritten the entries are
\* those of the copy in memory.
Text ==
  IF pc = "rewriting" THEN file_body ELSE IF wallet_file = Absent THEN <<>> ELSE wallet_file

\* Every line, and whether it is in force.
Marked(lines) ==
  LET in == InBlock(lines)
  IN  [i \in DOMAIN lines |-> [entry |-> lines[i], in_force |-> ~in[i]]]

ItemsOf(lines) == Kept(Marked(lines), [entry : Entries, in_force : BOOLEAN])

Asked ==
  CASE pc = "appending" -> [op |-> "add", entry |-> TheEntry(command)]
    [] pc = "rewriting" -> [op |-> "remove", entry |-> TheEntry(command)]
    [] OTHER -> NoCommand

TheLibrary == INSTANCE Library
  WITH Nothing <- NoCommand, items <- ItemsOf(Text), open <- InBlock(Text)[Len(Text)], asked <- Asked

\* An entry that is added becomes the last, one that is removed was the first of
\* its text - commented out or not - and only a removal that is cut short loses
\* anything, namely the end of the list (fileHandler.cpp:174-210).
ImplementsLibrary == TheLibrary!Spec

----------------------------------------------------------------------------
\* main.cpp:56, 271: -ta adds a "task graph file" and refuses one that "is not a
\* valid task graph file".  It checks the rules of trace files, and the wallet
\* reads JSON.
AcceptedGraphLoads ==
  wallet_file # Absent =>
    \A f \in ToSet(Listed(wallet_file, "t")) :
      Entry("t", f) \in edited \/ EntryError("t", f) = "none"

\* device.cpp:94: "return true if the bitstream library can fit in the chosen main
\* memory"; main.cpp:344: "too large to fit".  The size compared with is cut to
\* 16 bits (storageUnit.cpp:24).
RefusedOnlyIfTooLarge == outcome = "too large" => device.required > device.main_size
=============================================================================
