------------------------------- MODULE MCRrc -------------------------------
EXTENDS RrcBench, TLC

\* Two regions, region 0 with two bitstreams.  Every controller starts with the
\* unnamed task type, which a bitstream must execute to be installed at all.
B01 == [region_id |-> 0, id |-> 1]
B02 == [region_id |-> 0, id |-> 2]
B11 == [region_id |-> 1, id |-> 1]

MCBitstreams == {B01, B02, B11}
Spec1 == [speed |-> 1, latency |-> 1]
Named == "fft" :> Spec1
Unnamed == "" :> Spec1
MCTasks == (B01 :> (Unnamed @@ Named)) @@ (B02 :> Unnamed) @@ (B11 :> Unnamed)
MCTaskNodes == {"t"}
MCTypeOf == ("t" :> "fft")

\* Memory of a placeholder: looking idle, or executing and running for longer
\* than the PRC takes to schedule its first task.
Garbage(state, executing) ==
  [state |-> state, executing |-> executing, in_simulation |-> FALSE,
   timestep |-> 0, latency |-> 3]
MCGarbageModules == {Garbage("IDLE", FALSE), Garbage("EXEC", TRUE)}
MCGarbageBsIds == {NoId}
=============================================================================
