----------------------------- MODULE IcapProofs -----------------------------
(***************************************************************************)
(* The safety properties of IcapBench, for every application, every wiring *)
(* of the handles, every transfer latency and every initial stall count.   *)
(***************************************************************************)
EXTENDS IcapBench, TLAPS

\* Past ICAP_IDLE the ICAP has a target.
HasTarget == icap_state \in {"ACK", "WAIT", "TRANSFER"} => transfer_bs # NoBs

\* Only the garbage in stall_count_ stalls the ICAP.
StallsAtStartOnly == icap_state # "INIT" => icap_stall = 0

\* A transfer is reported in ICAP_WAIT and ICAP_TRANSFER only, always in the latter.
TransferReported ==
  /\ icap_transfer => icap_state \in {"WAIT", "TRANSFER"}
  /\ icap_state = "TRANSFER" => icap_transfer

\* What the context stored last is still what the components show.
StoredInStep ==
  /\ phase = "prc" => /\ stored_prc_icap_req = prc_icap_req
                      /\ stored_icap_prc_ack = icap_prc_ack
  /\ phase \in {"prc", "icap"} =>
       /\ stored_icap_prr_ctrl_req = icap_prr_ctrl_req
       /\ stored_prr_icap_ack => \E rr \in RrIds : prr_icap_ack[rr]

\* The bitstream of a request stays the PRC's bitstream until the ICAP has
\* taken it over.
HeldForTheIcap ==
  /\ prc_icap_req <=> prc_at = "requesting"
  /\ prc_icap_req => requested_bs = scheduled_bs
  /\ phase = "icap" /\ stored_prc_icap_req =>
       prc_at # "choosing" /\ requested_bs = scheduled_bs
  /\ icap_state = "ACK" /\ Running =>
       /\ requested_bs = scheduled_bs
       /\ phase # "icap" => prc_at # "choosing"

\* The transfer under way is for region rr.
TransferFor(rr) ==
  icap_transfer /\ icap_state \in {"WAIT", "TRANSFER"} /\ transfer_bs.region_id = rr

\* A controller sees a request, and acknowledges one, only for its own transfer.
AnswersItsTransfer ==
  \A rr \in RrIds :
    /\ phase \in {"rrc", "refresh"} /\ stored_icap_prr_ctrl_req[rr] => TransferFor(rr)
    /\ phase # "rrc" /\ prr_icap_ack[rr] => TransferFor(rr)

\* The inductive invariant.
IInv ==
  /\ TypeOK /\ AckExactlyInAck /\ RequestsAreTheTargets
  /\ HasTarget /\ StallsAtStartOnly /\ TransferReported
  /\ StoredInStep /\ HeldForTheIcap /\ AnswersItsTransfer

----------------------------------------------------------------------------
\* Every bitstream the ICAP can be handed is for a region of the device, if it
\* has any.
LEMMA RegionOfTarget ==
  ASSUME RrIds # {}, NEW bs \in Bitstreams \cup {NoBs, DefaultBs}, bs # NoBs
  PROVE  bs.region_id \in RrIds
<1>1. CASE bs \in Bitstreams
  BY <1>1, BitstreamsAssumption DEF BitstreamId
<1>2. CASE bs = DefaultBs
  <2>1. 0 \in RrIds
    BY RrCountAssumption DEF RrIds
  <2> QED
    BY <1>2, <2>1 DEF DefaultBs
<1> QED
  BY <1>1, <1>2

LEMMA InitIInv == BenchInit => IInv
<1> SUFFICES ASSUME BenchInit PROVE IInv
  OBVIOUS
<1> USE DEF BenchInit, ProcessInit, PrcSignalsInit, IcapSignalsInit, RrcSignalsInit,
            StoredSignalsInit, IcapInit, Off
<1>1. TypeOK
  <2>1. SignalsTypeOK
    <3>1. rrc_bitstream \in [RrIds -> BsIdType] /\ stored_rrc_bitstream \in [RrIds -> BsIdType]
      BY SignalContextAssumption DEF BsIdType
    <3>2. transfer_bs \in Bitstreams \cup {NoBs, DefaultBs}
      BY SignalContextAssumption
    <3> QED
      BY <3>1, <3>2 DEF SignalsTypeOK, Phases, BusType
  <2>2. IcapTypeOK
    BY IcapAssumption DEF IcapTypeOK, IcapStates
  <2> QED
    BY <2>1, <2>2 DEF TypeOK
<1>2. /\ AckExactlyInAck /\ RequestsAreTheTargets /\ HasTarget /\ StallsAtStartOnly
      /\ TransferReported
  BY DEF AckExactlyInAck, RequestsAreTheTargets, HasTarget, StallsAtStartOnly,
     TransferReported
<1>3. StoredInStep /\ AnswersItsTransfer
  BY DEF StoredInStep, AnswersItsTransfer
<1>4. HeldForTheIcap
  BY DEF HeldForTheIcap, PrcSide!PortInit
<1> QED
  BY <1>1, <1>2, <1>3, <1>4 DEF IInv

\* The PRC's turn: neither the ICAP nor the controllers move.
LEMMA PrcTurnKeepsIInv == IInv /\ PrcTurn => IInv'
<1> SUFFICES ASSUME IInv, PrcTurn PROVE IInv'
  OBVIOUS
<1> USE DEF IInv
<1>1. UNCHANGED <<status, icapVars, rrcSignals, storedSignals>> /\ phase = "prc" /\ phase' = "icap"
  BY DEF PrcTurn
<1>2. UNCHANGED <<icap_state, icap_stall, transfer_latency, icapSignals>>
  BY <1>1 DEF icapVars
<1>3. /\ scheduled_bs' \in Bitstreams \cup {NoBs, DefaultBs} /\ prc_icap_req' \in BOOLEAN
      /\ requested_bs' \in Bitstreams \cup {NoBs}
  <2>1. /\ scheduled_bs' \in Bitstreams \cup {NoBs, DefaultBs} /\ prc_icap_req' \in BOOLEAN
        /\ prc_icap_req' /\ ~prc_icap_req => scheduled_bs' \in Bitstreams
    <3> USE DEF TypeOK, SignalsTypeOK
    <3>1. CASE PrcSide!Proceed
      BY <3>1 DEF PrcSide!Proceed
    <3>2. CASE PrcSide!ChooseNothing
      BY <3>2 DEF PrcSide!ChooseNothing
    <3>3. CASE PrcSide!Request
      BY <3>3 DEF PrcSide!Request
    <3>4. CASE PrcSide!Hold
      BY <3>4 DEF PrcSide!Hold, PrcSide!prcPortVars
    <3>5. CASE PrcSide!Release
      BY <3>5 DEF PrcSide!Release
    <3> QED
      BY <3>1, <3>2, <3>3, <3>4, <3>5 DEF PrcTurn, PrcSide!PortStep
  <2> QED
    BY <2>1 DEF PrcTurn, TypeOK
<1>4. TypeOK'
  <2>1. SignalsTypeOK'
    BY <1>1, <1>2, <1>3
       DEF PrcTurn, TypeOK, SignalsTypeOK, icapSignals, rrcSignals, storedSignals, Phases
  <2> QED
    BY <2>1, <1>2, <1>3 DEF TypeOK, IcapTypeOK
<1>5. /\ AckExactlyInAck' /\ RequestsAreTheTargets' /\ HasTarget' /\ StallsAtStartOnly'
      /\ TransferReported'
  BY <1>1, <1>2 DEF AckExactlyInAck, RequestsAreTheTargets, HasTarget, StallsAtStartOnly,
     TransferReported, icapSignals
<1>6. StoredInStep' /\ AnswersItsTransfer'
  BY <1>1, <1>2
     DEF StoredInStep, AnswersItsTransfer, TransferFor, icapSignals, rrcSignals, storedSignals
<1>7. HeldForTheIcap'
  <2> USE DEF HeldForTheIcap, PrcTurn, AckExactlyInAck, StoredInStep, TypeOK, SignalsTypeOK,
              icapSignals, storedSignals, Running
  <2>1. CASE PrcSide!Proceed
    BY <2>1, <1>1, <1>2 DEF PrcSide!Proceed
  <2>2. CASE PrcSide!ChooseNothing
    BY <2>2, <1>1, <1>2 DEF PrcSide!ChooseNothing
  <2>3. CASE PrcSide!Request
    BY <2>3, <1>1, <1>2 DEF PrcSide!Request
  <2>4. CASE PrcSide!Hold
    BY <2>4, <1>1, <1>2 DEF PrcSide!Hold, PrcSide!prcPortVars
  <2>5. CASE PrcSide!Release
    BY <2>5, <1>1, <1>2 DEF PrcSide!Release
  <2> QED
    BY <2>1, <2>2, <2>3, <2>4, <2>5 DEF PrcSide!PortStep
<1> QED
  BY <1>4, <1>5, <1>6, <1>7

\* The ICAP's turn.  First what its step assigns, then how that relates.
LEMMA IcapStepTypes ==
  ASSUME IInv, IcapTurn
  PROVE  /\ IcapTypeOK'
         /\ status' \in {status, "segfault", "assertion"}
         /\ transfer_bs' \in Bitstreams \cup {NoBs, DefaultBs}
         /\ icap_prc_ack' \in BOOLEAN /\ icap_transfer' \in BOOLEAN
         /\ icap_prr_ctrl_req' \in BusType
         /\ icap_mc' \in Nat \cup {Uninitialised}
<1> USE DEF IInv, TypeOK, SignalsTypeOK, IcapTypeOK, IcapStates, At, KeepAck, IcapOnlyMoves
<1>1. CASE IcapStall
  BY <1>1 DEF IcapStall, icapSignals
<1>2. CASE IcapLeaveInit
  BY <1>2 DEF IcapLeaveInit
<1>3. CASE IcapStayIdle
  BY <1>3 DEF IcapStayIdle
<1>4. CASE IcapGrant
  BY <1>4 DEF IcapGrant
<1>5. CASE IcapPutOff
  BY <1>5 DEF IcapPutOff
<1>6. CASE IcapReadNoTarget \/ IcapAssertionFails \/ IcapReadNoBitstream
  BY <1>6 DEF IcapReadNoTarget, IcapAssertionFails, IcapReadNoBitstream, IcapFault, icapVars,
     icapSignals
<1>7. CASE IcapHoldAck
  BY <1>7 DEF IcapHoldAck, icapVars, icapSignals
<1>8. CASE IcapTakeTarget
  <2>1. /\ PrcScheduledBitstream \in Bitstreams \cup {NoBs, DefaultBs}
        /\ PrcScheduledBitstream # NoBs
    BY <1>8 DEF IcapTakeTarget, PrcScheduledBitstream
  <2>2. icap_prr_ctrl_req' \in BusType
    BY <1>8 DEF IcapTakeTarget, BusType
  <2> QED
    BY <1>8, <2>1, <2>2, SignalContextAssumption DEF IcapTakeTarget
<1>9. CASE IcapAwaitRrc
  BY <1>9 DEF IcapAwaitRrc
<1>10. CASE IcapBeginTransfer
  <2>1. RrIds # {}
    BY <1>10 DEF IcapTurn, IcapBeginTransfer, StoredInStep
  <2>2. transfer_bs.region_id \in RrIds
    BY <1>10, <2>1, RegionOfTarget DEF IcapBeginTransfer, HasTarget
  <2>3. icap_prr_ctrl_req' \in BusType
    BY <1>10 DEF IcapBeginTransfer, BusType
  <2> QED
    BY <1>10, <2>2, <2>3, IcapAssumption DEF IcapBeginTransfer
<1>11. CASE IcapTransfer
  BY <1>11 DEF IcapTransfer
<1>12. CASE IcapEndTransfer
  BY <1>12, IcapAssumption DEF IcapEndTransfer
<1> QED
  BY <1>1, <1>2, <1>3, <1>4, <1>5, <1>6, <1>7, <1>8, <1>9, <1>10, <1>11, <1>12
     DEF IcapTurn, IcapStep

LEMMA IcapStepRelates ==
  ASSUME IInv, IcapTurn
  PROVE  /\ AckExactlyInAck' /\ RequestsAreTheTargets' /\ HasTarget' /\ StallsAtStartOnly'
         /\ TransferReported'
         /\ icap_state' = "ACK" /\ Running' => stored_prc_icap_req
         /\ \A rr \in RrIds : icap_prr_ctrl_req[rr] => TransferFor(rr)'
<1> USE DEF IInv, AckExactlyInAck, RequestsAreTheTargets, HasTarget, StallsAtStartOnly,
            TransferReported, TransferFor, At, KeepAck, IcapOnlyMoves
<1>0. icap_prr_ctrl_req \in BusType /\ transfer_bs \in Bitstreams \cup {NoBs, DefaultBs}
  BY DEF TypeOK, SignalsTypeOK
<1>1. CASE IcapStall
  BY <1>1 DEF IcapStall, icapSignals
<1>2. CASE IcapLeaveInit
  BY <1>2 DEF IcapLeaveInit
<1>3. CASE IcapStayIdle
  BY <1>3 DEF IcapStayIdle
<1>4. CASE IcapGrant
  BY <1>4 DEF IcapGrant
<1>5. CASE IcapPutOff
  BY <1>5 DEF IcapPutOff
<1>6. CASE IcapReadNoTarget \/ IcapReadNoBitstream
  BY <1>6 DEF IcapReadNoTarget, IcapReadNoBitstream, IcapFault, icapVars, icapSignals, Running
<1>7. CASE IcapHoldAck
  BY <1>7 DEF IcapHoldAck, icapVars, icapSignals
<1>8. CASE IcapTakeTarget
  BY <1>8, <1>0 DEF IcapTakeTarget, BusType
<1>9. CASE IcapAwaitRrc
  BY <1>9 DEF IcapAwaitRrc
<1>10. CASE IcapBeginTransfer
  <2>1. icap_transfer
    BY <1>10 DEF IcapBeginTransfer, IcapTurn, StoredInStep, AnswersItsTransfer
  <2> QED
    BY <1>10, <1>0, <2>1 DEF IcapBeginTransfer, BusType
<1>11. CASE IcapTransfer
  BY <1>11 DEF IcapTransfer
<1>12. CASE IcapEndTransfer
  BY <1>12 DEF IcapEndTransfer
<1>13. ~IcapAssertionFails
  BY DEF IcapAssertionFails
<1> QED
  BY <1>1, <1>2, <1>3, <1>4, <1>5, <1>6, <1>7, <1>8, <1>9, <1>10, <1>11, <1>12, <1>13
     DEF IcapTurn, IcapStep

LEMMA IcapTurnKeepsIInv == IInv /\ IcapTurn => IInv'
<1> SUFFICES ASSUME IInv, IcapTurn PROVE IInv'
  OBVIOUS
<1> USE DEF IInv
<1>1. /\ UNCHANGED <<prcSignals, rrcSignals, storedSignals, prc_at, requested_bs>>
      /\ phase = "icap" /\ phase' = "rrc"
  BY DEF IcapTurn
<1>2. TypeOK'
  <2>1. status' \in Faults \cup {"running", Finished} /\ phase' \in Phases
    BY <1>1, IcapStepTypes DEF TypeOK, SignalsTypeOK, Phases, Faults
  <2>2. /\ transfer_bs' \in Bitstreams \cup {NoBs, DefaultBs}
        /\ icap_prc_ack' \in BOOLEAN /\ icap_transfer' \in BOOLEAN
        /\ icap_prr_ctrl_req' \in BusType /\ icap_mc' \in Nat \cup {Uninitialised}
    BY IcapStepTypes
  <2>3. SignalsTypeOK'
    BY <1>1, <2>1, <2>2 DEF TypeOK, SignalsTypeOK, prcSignals, rrcSignals, storedSignals
  <2> QED
    BY <2>3, <1>1, IcapStepTypes DEF TypeOK
<1>3. /\ AckExactlyInAck' /\ RequestsAreTheTargets' /\ HasTarget' /\ StallsAtStartOnly'
      /\ TransferReported'
  BY IcapStepRelates
<1>4. StoredInStep'
  BY <1>1 DEF StoredInStep
<1>5. HeldForTheIcap'
  BY <1>1, IcapStepRelates DEF HeldForTheIcap, prcSignals, storedSignals
<1>6. AnswersItsTransfer'
  BY <1>1, IcapStepRelates DEF AnswersItsTransfer, StoredInStep, storedSignals
<1> QED
  BY <1>2, <1>3, <1>4, <1>5, <1>6

\* The controllers' turn: only their own signals move.
LEMMA RrcTurnKeepsIInv == IInv /\ RrcTurn => IInv'
<1> SUFFICES ASSUME IInv, RrcTurn PROVE IInv'
  OBVIOUS
<1> USE DEF IInv
<1>1. /\ UNCHANGED <<status, prcSignals, icapVars, storedSignals, prc_at, requested_bs>>
      /\ phase = "rrc" /\ phase' = "refresh"
  BY DEF RrcTurn
<1>2. UNCHANGED <<icap_state, icap_stall, transfer_latency, icapSignals>>
  BY <1>1 DEF icapVars
<1>3. /\ prr_executing' \in BusType /\ prr_icap_ack' \in BusType /\ prr_prc_ack' \in BusType
      /\ rrc_bitstream' = rrc_bitstream
  BY DEF RrcTurn, RrcSide!PortSteps, BusType, TypeOK, SignalsTypeOK
<1>4. TypeOK'
  <2>1. SignalsTypeOK'
    BY <1>1, <1>2, <1>3
       DEF TypeOK, SignalsTypeOK, prcSignals, icapSignals, storedSignals, Phases
  <2> QED
    BY <2>1, <1>1, <1>2 DEF TypeOK, IcapTypeOK
<1>5. /\ AckExactlyInAck' /\ RequestsAreTheTargets' /\ HasTarget' /\ StallsAtStartOnly'
      /\ TransferReported'
  BY <1>1, <1>2 DEF AckExactlyInAck, RequestsAreTheTargets, HasTarget, StallsAtStartOnly,
     TransferReported, icapSignals
<1>6. StoredInStep'
  BY <1>1 DEF StoredInStep
<1>7. HeldForTheIcap'
  BY <1>1, <1>2 DEF HeldForTheIcap, Running, prcSignals, storedSignals
<1>8. AnswersItsTransfer'
  <2>1. \A rr \in RrIds : prr_icap_ack'[rr] => stored_icap_prr_ctrl_req[rr]
    BY DEF RrcTurn, RrcSide!PortSteps
  <2> QED
    BY <2>1, <1>1, <1>2 DEF AnswersItsTransfer, TransferFor, icapSignals, storedSignals
<1> QED
  BY <1>4, <1>5, <1>6, <1>7, <1>8

\* The context stores the signals: nothing but the stored copies moves.
LEMMA RefreshKeepsIInv == IInv /\ Refresh => IInv'
<1> SUFFICES ASSUME IInv, Refresh PROVE IInv'
  OBVIOUS
<1> USE DEF IInv
<1>1. /\ UNCHANGED <<status, prcSignals, icapSignals, rrcSignals>>
      /\ UNCHANGED <<icap_state, icap_stall, transfer_latency, prc_at, requested_bs>>
      /\ phase = "refresh" /\ phase' = "prc"
  BY DEF Refresh, RefreshContext
<1>2. RefreshPrcSignals /\ RefreshIcapSignals /\ RefreshRrcSignals
  BY DEF Refresh, RefreshContext
<1>3. TypeOK'
  <2>1. stored_prr_prc_ack' \in BOOLEAN /\ stored_prr_icap_ack' \in BOOLEAN
    BY <1>2 DEF RefreshRrcSignals
  <2>2. SignalsTypeOK'
    BY <1>1, <1>2, <2>1
       DEF TypeOK, SignalsTypeOK, RefreshPrcSignals, RefreshIcapSignals, RefreshRrcSignals,
           prcSignals, icapSignals, rrcSignals, Phases
  <2> QED
    BY <2>2, <1>1 DEF TypeOK, IcapTypeOK
<1>4. /\ AckExactlyInAck' /\ RequestsAreTheTargets' /\ HasTarget' /\ StallsAtStartOnly'
      /\ TransferReported'
  BY <1>1 DEF AckExactlyInAck, RequestsAreTheTargets, HasTarget, StallsAtStartOnly,
     TransferReported, icapSignals
<1>5. StoredInStep'
  BY <1>1, <1>2
     DEF StoredInStep, RefreshPrcSignals, RefreshIcapSignals, RefreshRrcSignals,
         prcSignals, icapSignals, rrcSignals
<1>6. HeldForTheIcap'
  BY <1>1 DEF HeldForTheIcap, Running, prcSignals
<1>7. AnswersItsTransfer'
  BY <1>1 DEF AnswersItsTransfer, TransferFor, icapSignals, rrcSignals
<1> QED
  BY <1>3, <1>4, <1>5, <1>6, <1>7

LEMMA StutterKeepsIInv == IInv /\ UNCHANGED vars => IInv'
BY DEF vars, IInv, processVars, icapVars, prcSignals, icapSignals, rrcSignals, storedSignals,
   TypeOK, SignalsTypeOK, IcapTypeOK, AckExactlyInAck, RequestsAreTheTargets, HasTarget,
   StallsAtStartOnly, TransferReported, StoredInStep, HeldForTheIcap, AnswersItsTransfer, TransferFor, Running

LEMMA NextKeepsIInv == IInv /\ [Next]_vars => IInv'
BY PrcTurnKeepsIInv, IcapTurnKeepsIInv, RrcTurnKeepsIInv, RefreshKeepsIInv, StutterKeepsIInv
   DEF Next

LEMMA AlwaysIInv == Spec => []IInv
BY InitIInv, NextKeepsIInv, PTL DEF Spec

----------------------------------------------------------------------------
\* Type correctness of the ICAP and of the signals around it.
THEOREM IcapTypeCorrect == Spec => []TypeOK
<1>1. IInv => TypeOK
  BY DEF IInv
<1> QED
  BY <1>1, AlwaysIInv, PTL

\* The acknowledgement is up exactly in ICAP_ACK: the assertion of that state
\* cannot fail (icap.cpp:119-123).
THEOREM IcapAckExactlyInAck == Spec => []AckExactlyInAck
<1>1. IInv => AckExactlyInAck
  BY DEF IInv
<1> QED
  BY <1>1, AlwaysIInv, PTL

\* A controller is asked only for the transfer under way, and only for its own
\* region (icap.cpp:137-151, 163-181).
THEOREM IcapRequestsAreTheTargets == Spec => []RequestsAreTheTargets
<1>1. IInv => RequestsAreTheTargets
  BY DEF IInv
<1> QED
  BY <1>1, AlwaysIInv, PTL

\* An ICAP that was put off waits for good (icap.cpp:109-111, 160-188).
THEOREM IcapPutOffForGood == Spec => PutOffForGood
<1>1. IInv /\ [Next]_vars => (PutOff => PutOff')
  <2> SUFFICES ASSUME IInv, [Next]_vars, PutOff PROVE PutOff'
    OBVIOUS
  <2> USE DEF PutOff
  <2>1. CASE IcapTurn
    <3>1. ~stored_prr_icap_ack
      BY <2>1 DEF IcapTurn, IInv, StoredInStep, AnswersItsTransfer, TransferFor
    <3>2. CASE IcapStall
      BY <3>2 DEF IcapStall, icapSignals
    <3>3. CASE IcapAwaitRrc
      BY <3>3 DEF IcapAwaitRrc, IcapOnlyMoves
    <3> QED
      BY <2>1, <3>1, <3>2, <3>3
         DEF IcapTurn, IcapStep, At, IcapLeaveInit, IcapStayIdle, IcapGrant, IcapPutOff,
             IcapReadNoTarget, IcapHoldAck, IcapAssertionFails, IcapTakeTarget,
             IcapReadNoBitstream, IcapBeginTransfer, IcapTransfer, IcapEndTransfer
  <2>2. CASE PrcTurn \/ RrcTurn
    BY <2>2 DEF PrcTurn, RrcTurn, icapVars, icapSignals
  <2>3. CASE Refresh
    BY <2>3 DEF Refresh, RefreshContext, icapSignals
  <2>4. CASE UNCHANGED vars
    BY <2>4 DEF vars, icapVars, icapSignals
  <2> QED
    BY <2>1, <2>2, <2>3, <2>4 DEF Next
<1> QED
  BY <1>1, AlwaysIInv, PTL DEF Spec, PutOffForGood

\* What is transferred is what was requested (icap.cpp:134-135, prc.cpp:152-157).
THEOREM IcapRequestedTarget == Spec => RequestedTarget
<1>1. IInv /\ [Next]_vars => (icap_transfer' /\ ~icap_transfer => transfer_bs' = requested_bs)
  <2> SUFFICES ASSUME IInv, [Next]_vars, icap_transfer', ~icap_transfer
               PROVE  transfer_bs' = requested_bs
    OBVIOUS
  <2>1. CASE IcapTurn
    <3>1. IcapTakeTarget
      BY <2>1
         DEF IcapTurn, IcapStep, At, IcapOnlyMoves, icapVars, icapSignals, IcapFault,
             IcapStall, IcapLeaveInit, IcapStayIdle, IcapGrant, IcapPutOff,
             IcapReadNoTarget, IcapHoldAck, IcapAssertionFails, IcapAwaitRrc,
             IcapReadNoBitstream, IcapBeginTransfer, IcapTransfer, IcapEndTransfer
    <3>2. requested_bs = scheduled_bs
      BY <2>1, <3>1 DEF IcapTurn, IcapTakeTarget, At, IInv, HeldForTheIcap
    <3> QED
      BY <3>1, <3>2 DEF IcapTakeTarget, PrcScheduledBitstream
  <2>2. CASE PrcTurn \/ RrcTurn
    BY <2>2 DEF PrcTurn, RrcTurn, icapVars, icapSignals
  <2>3. CASE Refresh
    BY <2>3 DEF Refresh, RefreshContext, icapSignals
  <2>4. CASE UNCHANGED vars
    BY <2>4 DEF vars, icapVars, icapSignals
  <2> QED
    BY <2>1, <2>2, <2>3, <2>4 DEF Next
<1> QED
  BY <1>1, AlwaysIInv, PTL DEF Spec, RequestedTarget

\* The answer that starts a transfer is the target's own, although all
\* controllers share one wire (signalContext.cpp:343-364, icap.cpp:168-180).
THEOREM IcapAnsweredByTarget == Spec => AnsweredByTarget
<1>1. IInv /\ [Next]_vars =>
        (icap_state' = "TRANSFER" /\ icap_state = "WAIT" =>
           /\ prr_icap_ack[transfer_bs.region_id]
           /\ \A rr \in RrIds \ {transfer_bs.region_id} : ~prr_icap_ack[rr])
  <2> SUFFICES ASSUME IInv, [Next]_vars, icap_state' = "TRANSFER", icap_state = "WAIT"
               PROVE  /\ prr_icap_ack[transfer_bs.region_id]
                      /\ \A rr \in RrIds \ {transfer_bs.region_id} : ~prr_icap_ack[rr]
    OBVIOUS
  <2>1. CASE IcapTurn
    <3>1. stored_prr_icap_ack
      BY <2>1
         DEF IcapTurn, IcapStep, At, IcapOnlyMoves, icapVars, IcapFault,
             IcapStall, IcapLeaveInit, IcapStayIdle, IcapGrant, IcapPutOff,
             IcapReadNoTarget, IcapHoldAck, IcapAssertionFails, IcapAwaitRrc, IcapTakeTarget,
             IcapReadNoBitstream, IcapBeginTransfer, IcapTransfer, IcapEndTransfer
    <3>2. \A rr \in RrIds : prr_icap_ack[rr] => transfer_bs.region_id = rr
      BY <2>1 DEF IcapTurn, IInv, AnswersItsTransfer, TransferFor
    <3> QED
      BY <2>1, <3>1, <3>2 DEF IcapTurn, IInv, StoredInStep
  <2>2. CASE PrcTurn \/ RrcTurn
    BY <2>2 DEF PrcTurn, RrcTurn, icapVars
  <2>3. CASE Refresh
    BY <2>3 DEF Refresh
  <2>4. CASE UNCHANGED vars
    BY <2>4 DEF vars, icapVars
  <2> QED
    BY <2>1, <2>2, <2>3, <2>4 DEF Next
<1> QED
  BY <1>1, AlwaysIInv, PTL DEF Spec, AnsweredByTarget

----------------------------------------------------------------------------
\* The value of the refinement mapping in each state of the ICAP.
LEMMA IcapAtValue ==
  /\ icap_state \in {"INIT", "IDLE"} => IcapAt = "free"
  /\ icap_state = "ACK" => IcapAt = "granting"
  /\ icap_state = "TRANSFER" => IcapAt = "transferring"
  /\ icap_state = "WAIT" /\ icap_transfer => IcapAt = "requesting"
  /\ icap_state = "WAIT" /\ ~icap_transfer => IcapAt = "stuck"
BY DEF IcapAt

\* A step of the ICAP is a step of the port, or ends the process.
LEMMA IcapStepIsPortStep ==
  ASSUME IInv, IcapTurn
  PROVE  IcapSide!PortStep \/ (~Running' /\ UNCHANGED IcapSide!icapPortVars)
<1> USE DEF IInv, AckExactlyInAck, RequestsAreTheTargets, StallsAtStartOnly, TransferReported,
            At, KeepAck, IcapOnlyMoves, IcapSide!icapPortVars
<1> DEFINE AtNow == IcapAt
           AtNext == IcapAt'
<1>0. /\ icap_prr_ctrl_req \in BusType /\ icap_prc_ack \in BOOLEAN /\ icap_transfer \in BOOLEAN
      /\ icap_prr_ctrl_req' \in BusType
  BY IcapStepTypes DEF TypeOK, SignalsTypeOK
<1>1. /\ icap_state \in {"INIT", "IDLE"} => AtNow = "free"
      /\ icap_state = "ACK" => AtNow = "granting"
      /\ icap_state = "TRANSFER" => AtNow = "transferring"
      /\ icap_state = "WAIT" /\ icap_transfer => AtNow = "requesting"
      /\ icap_state = "WAIT" /\ ~icap_transfer => AtNow = "stuck"
  BY IcapAtValue
<1>2. /\ icap_state' \in {"INIT", "IDLE"} => AtNext = "free"
      /\ icap_state' = "ACK" => AtNext = "granting"
      /\ icap_state' = "TRANSFER" => AtNext = "transferring"
      /\ icap_state' = "WAIT" /\ icap_transfer' => AtNext = "requesting"
      /\ icap_state' = "WAIT" /\ ~icap_transfer' => AtNext = "stuck"
  BY DEF IcapAt
<1> HIDE DEF AtNow, AtNext
<1>3. icap_state = "WAIT" /\ stored_prr_icap_ack => icap_transfer
  BY DEF IcapTurn, StoredInStep, AnswersItsTransfer, TransferFor
<1> SUFFICES \/ IcapSide!PortStep
             \/ ~Running' /\ AtNext = AtNow /\ UNCHANGED icapSignals
  BY DEF AtNow, AtNext, icapSignals
<1>4. CASE IcapStall \/ IcapLeaveInit \/ IcapStayIdle
  <2>1. icap_state \in {"INIT", "IDLE"} /\ icap_state' \in {"INIT", "IDLE"}
        /\ UNCHANGED <<icap_prc_ack, icap_transfer, icap_prr_ctrl_req, transfer_bs>>
    BY <1>0, <1>4 DEF IcapStall, IcapLeaveInit, IcapStayIdle, icapSignals, TypeOK, IcapTypeOK, IcapStates
  <2> QED
    BY <2>1, <1>1, <1>2 DEF IcapSide!PortStep, IcapSide!Wait, AtNow, AtNext
<1>5. CASE IcapGrant
  BY <1>5, <1>1, <1>2 DEF IcapGrant, IcapSide!PortStep, IcapSide!Grant, AtNow, AtNext
<1>6. CASE IcapPutOff
  BY <1>6, <1>0, <1>1, <1>2 DEF IcapPutOff, IcapSide!PortStep, IcapSide!GetStuck, AtNow, AtNext
<1>7. CASE IcapReadNoTarget \/ IcapReadNoBitstream
  BY <1>7 DEF IcapReadNoTarget, IcapReadNoBitstream, IcapFault, icapVars, icapSignals, IcapAt,
     Running, AtNow, AtNext
<1>8. CASE IcapHoldAck
  BY <1>8, <1>1, <1>2
     DEF IcapHoldAck, icapVars, icapSignals, IcapSide!PortStep, IcapSide!Wait, AtNow, AtNext
<1>9. CASE IcapTakeTarget
  <2>1. icap_prr_ctrl_req' = [rr \in RrIds |-> rr = PrcScheduledBitstream.region_id]
    BY <1>9, <1>0 DEF IcapTakeTarget, BusType
  <2> QED
    BY <1>9, <2>1, <1>1, <1>2 DEF IcapTakeTarget, IcapSide!PortStep, IcapSide!TakeOver, AtNow, AtNext
<1>10. CASE IcapAwaitRrc
  BY <1>10, <1>0, <1>1, <1>2
     DEF IcapAwaitRrc, IcapSide!PortStep, IcapSide!Wait, AtNow, AtNext
<1>11. CASE IcapBeginTransfer
  <2>1. icap_prr_ctrl_req' = [rr \in RrIds |-> FALSE]
    BY <1>11, <1>0 DEF IcapBeginTransfer, BusType
  <2> QED
    BY <1>11, <2>1, <1>0, <1>1, <1>2, <1>3
       DEF IcapBeginTransfer, IcapSide!PortStep, IcapSide!BeginTransfer, AtNow, AtNext
<1>12. CASE IcapTransfer
  BY <1>12, <1>0, <1>1, <1>2
     DEF IcapTransfer, IcapSide!PortStep, IcapSide!Wait, AtNow, AtNext
<1>13. CASE IcapEndTransfer
  BY <1>13, <1>0, <1>1, <1>2
     DEF IcapEndTransfer, IcapSide!PortStep, IcapSide!EndTransfer, AtNow, AtNext
<1>14. ~IcapAssertionFails
  BY DEF IcapAssertionFails
<1> QED
  BY <1>4, <1>5, <1>6, <1>7, <1>8, <1>9, <1>10, <1>11, <1>12, <1>13, <1>14
     DEF IcapTurn, IcapStep

\* The ICAP implements IcapPort: it takes over the PRC's bitstream, raises one
\* request and reports the transfer in a single step, promptly, and never
\* touches a wire out of turn (icap.cpp:80-216).
THEOREM IcapImplementsPort == Spec => ImplementsIcapPort
<1>1. BenchInit => IcapSide!PortInit
  BY DEF BenchInit, IcapInit, IcapSignalsInit, IcapSide!PortInit, IcapAt, Off
<1>2. IInv /\ [Next]_vars => [IcapSide!PortTurn]_IcapSide!portVars
  <2> SUFFICES ASSUME IInv, [Next]_vars
               PROVE  \/ /\ phase = "icap"
                         /\ IcapSide!PortStep \/ (~Running' /\ UNCHANGED IcapSide!icapPortVars)
                         /\ UNCHANGED IcapSide!inputs
                      \/ phase # "icap" /\ UNCHANGED IcapSide!icapPortVars
                      \/ UNCHANGED <<IcapSide!icapPortVars, IcapSide!inputs, phase>>
    BY DEF IcapSide!PortTurn, IcapSide!portVars
  <2>1. CASE IcapTurn
    BY <2>1, IcapStepIsPortStep
       DEF IcapTurn, IcapSide!inputs, PrcScheduledBitstream, prcSignals, storedSignals
  <2>2. CASE PrcTurn \/ RrcTurn
    <3>1. UNCHANGED <<icap_state, icapSignals>> /\ phase # "icap"
      BY <2>2 DEF PrcTurn, RrcTurn, icapVars
    <3> QED
      BY <3>1 DEF icapSignals, IcapSide!icapPortVars, IcapAt
  <2>3. CASE Refresh
    BY <2>3 DEF Refresh, RefreshContext, icapSignals, IcapSide!icapPortVars, IcapAt
  <2>4. CASE UNCHANGED vars
    BY <2>4
       DEF vars, processVars, icapVars, icapSignals, prcSignals, storedSignals, IcapSide!icapPortVars,
           IcapSide!inputs, PrcScheduledBitstream, IcapAt
  <2> QED
    BY <2>1, <2>2, <2>3, <2>4 DEF Next
<1> QED
  BY <1>1, <1>2, AlwaysIInv, PTL DEF Spec, ImplementsIcapPort, IcapSide!Spec
=============================================================================
