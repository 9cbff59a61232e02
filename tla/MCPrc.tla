------------------------------- MODULE MCPrc -------------------------------
EXTENDS PrcBench, TLC

\* Region 0 executes two task types and has two designs for "fft"; regions 1 and 2
\* execute "fft" only and tie.  No bitstream executes "dct".
B00 == [region_id |-> 0, id |-> 0]
B01 == [region_id |-> 0, id |-> 1]
B11 == [region_id |-> 1, id |-> 1]
B20 == [region_id |-> 2, id |-> 0]

MCBitstreams == {B00, B01, B11, B20}
At(mhz) == [speed |-> mhz, latency |-> 1]
MCTasks ==
  (B00 :> (("fft" :> At(50)) @@ ("fir" :> At(50))))
  @@ (B01 :> ("fft" :> At(100))) @@ (B11 :> ("fft" :> At(100)))
  @@ (B20 :> ("fft" :> At(50)))

\* t1 is followed by two tasks and the last of them by one that nothing executes.
MCTaskNodes == {"t1", "t2", "t3", "t4"}
MCTypeOf == ("t1" :> "fft") @@ ("t2" :> "fir") @@ ("t3" :> "fft") @@ ("t4" :> "dct")
MCStartNodes == <<"t1">>
MCNeighbors ==
  ("t1" :> <<"t2", "t3">>) @@ ("t2" :> <<>>) @@ ("t3" :> <<"t4">>) @@ ("t4" :> <<>>)

\* What the memory of bitstream_id_ may hold: an id no bitstream has, 0 or 1.
MCGarbageBsIds == {NoId, 0, 1}
=============================================================================
