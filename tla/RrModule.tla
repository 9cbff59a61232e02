------------------------------ MODULE RrModule ------------------------------
(***************************************************************************)
(* rrModule: a module as it is held by a region or by the bitstream        *)
(* library.  A module is a record; its operations take the record and give *)
(* the one they leave behind.  execution_latency is in simulation cycles.  *)
(***************************************************************************)
EXTENDS Naturals

\* "?" stands for any value outside the enumeration.
ModuleStates == {"VACANT", "IDLE", "TRANSFER", "EXEC", "?"}

ModuleType ==
  [state : ModuleStates, executing : BOOLEAN, in_simulation : BOOLEAN,
   timestep : Nat, latency : Nat]

\* The constructor of the bitstream library's modules; it leaves
\* execution_latency_ unset, which beginExecution writes before step reads it.
LibraryModule ==
  [state |-> "VACANT", executing |-> FALSE, in_simulation |-> FALSE,
   timestep |-> 0, latency |-> 0]

\* Mutant: a module runs while it executes.
IsInExec(module) == module.state = "EXEC"

IsRunning(module) == module.executing

\* Mutant: the speed can always be set.
SpeedCanAlwaysBeSet(module) == TRUE

\* setSpeed throws once the module has been stepped.
SpeedCanBeSet(module) == ~module.in_simulation

BeginTransfer(module) == [module EXCEPT !.state = "TRANSFER"]

\* Mutant: the module is not marked as executing.
BeginUnmarked(module, latency) == [module EXCEPT !.state = "EXEC", !.latency = latency]

BeginExecution(module, latency) ==
  [module EXCEPT !.state = "EXEC", !.executing = TRUE, !.latency = latency]

\* isFinished, the result of step().
FinishesOnStep(module) == module.timestep + 1 > module.latency

StepModule(module) ==
  IF FinishesOnStep(module)
    THEN [module EXCEPT !.in_simulation = TRUE, !.timestep = 0, !.state = "IDLE"]
    ELSE [module EXCEPT !.in_simulation = TRUE, !.timestep = module.timestep + 1]
=============================================================================
