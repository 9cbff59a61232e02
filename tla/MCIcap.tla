------------------------------- MODULE MCIcap -------------------------------
EXTENDS IcapBench, TLC

\* Two regions; region 0 has two bitstreams.  No bitstream has id 0, the id of
\* a value-initialised moduleSpec.
B01 == [region_id |-> 0, id |-> 1]
B02 == [region_id |-> 0, id |-> 2]
B11 == [region_id |-> 1, id |-> 1]

MCBitstreams == {B01, B02, B11}
MCTasks == [bs \in MCBitstreams |-> ("fft" :> [speed |-> 1, latency |-> 1])]
MCTypeOf == ("t" :> "fft")
MCTransferLatency == (0 :> 0) @@ (1 :> 2)
MCGarbageStalls == {0, 2}
MCStart == B01
MCGarbageBsIds == {NoId}
=============================================================================
