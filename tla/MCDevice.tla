------------------------------ MODULE MCDevice ------------------------------
EXTENDS Device, TLC

\* Two regions, region 0 with two designs; "dct" has none.
B00 == [region_id |-> 0, id |-> 0]
B01 == [region_id |-> 0, id |-> 1]
B11 == [region_id |-> 1, id |-> 1]

MCBitstreams == {B00, B01, B11}
Design(mhz) == [speed |-> mhz, latency |-> 1]
MCTasks ==
  (B00 :> (("fft" :> Design(50)) @@ ("fir" :> Design(50))))
  @@ (B01 :> ("fft" :> Design(100))) @@ (B11 :> ("fft" :> Design(100)))

MCTaskNodes == {"t1", "t2"}
MCTypeOf == ("t1" :> "fft") @@ ("t2" :> "dct")
MCStartNodes == <<"t1", "t2">>
MCNeighbors == [t \in MCTaskNodes |-> <<>>]

MCGarbageBsIds == {NoId, 0}
MCGarbageStalls == {0, 2, 20}
\* Where neither is what the run is about.
MCNoBsId == {NoId}
MCNoStall == {0}

MCTransferLatency == [rr \in 0 .. 1 |-> 1]
Garbage(state, executing) ==
  [state |-> state, executing |-> executing, in_simulation |-> FALSE,
   timestep |-> 0, latency |-> 1]
MCGarbageModules == {Garbage("IDLE", FALSE), Garbage("EXEC", TRUE)}
=============================================================================
