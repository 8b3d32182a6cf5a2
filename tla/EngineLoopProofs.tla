-------------------------- MODULE EngineLoopProofs --------------------------
(***************************************************************************)
(* Proofs about the engine loop, for any devices, monitors and encoder     *)
(* depth.                                                                  *)
(*                                                                         *)
(* That a device which raised the number of peers starts with a keyframe   *)
(* rests on the encoder: as long as such a device waits for its first      *)
(* unit, the encoder is gone or has not put anything out (WaitInv).  That  *)
(* a stop takes effect rests on where the iteration is: a capture is still *)
(* to come only if none was made since (LateInv).                          *)
(***************************************************************************)
EXTENDS EngineLoop, FiniteSetTheorems, TLAPS

WaitInv ==
  (\E p \in peers : p.counted /\ p.first = "none") => encoder # "running"

LateInv ==
  ~streaming => late <= 1 /\ (pc \in {"begin", "capture"} => late = 0)

EngineInv ==
  /\ EngineTypeOK
  /\ WaitInv
  /\ GrowthGetsKeyframe
  /\ LateInv

-----------------------------------------------------------------------------

LEMMA EngineInitInv == EngineInit => EngineInv
<1> SUFFICES ASSUME EngineInit PROVE EngineInv
  OBVIOUS
<1>1. 0 \in 0..Cardinality(Devices) /\ 0 \in 0..PIPE
  BY FS_CardinalityType, DevicesAssumption, EngineAssumption
<1>2. EngineTypeOK
  BY <1>1 DEF EngineInit, EngineTypeOK, Places
<1> QED
  BY <1>2 DEF EngineInit, EngineInv, WaitInv, GrowthGetsKeyframe, LateInv

(* The peers after a pump: one record for each device, and no more of them *)
(* than there are devices.                                                 *)
LEMMA PeersCounted ==
  ASSUME NEW P \in SUBSET Peer, \A p, q \in P : p.dev = q.dev => p = q,
         NEW joined \in SUBSET Devices, \A p \in P : p.dev \notin joined
  PROVE  Cardinality(P) + Cardinality(joined) \in 0..Cardinality(Devices)
<1> DEFINE rest == Devices \ joined
           f == [p \in P |-> p.dev]
<1>1. /\ IsFiniteSet(joined) /\ Cardinality(joined) \in Nat
      /\ Cardinality(Devices) \in Nat
  BY FS_Subset, FS_CardinalityType, DevicesAssumption
<1>2. Devices \cap joined = joined
  OBVIOUS
<1>3. IsFiniteSet(rest)
      /\ Cardinality(rest) = Cardinality(Devices) - Cardinality(joined)
  BY <1>2, FS_Difference, DevicesAssumption
<1>4. f \in [P -> rest]
  BY DEF Peer
<1>5. f \in Injection(P, rest)
  <2>1. \A p, q \in P : f[p] = f[q] => p = q
    OBVIOUS
  <2> HIDE DEF f
  <2> QED
    BY <1>4, <2>1 DEF Injection, IsInjective
<1>6. IsFiniteSet(P) /\ Cardinality(P) <= Cardinality(rest)
  BY <1>3, <1>5, FS_Injection
<1>7. Cardinality(P) \in Nat
  BY <1>6, FS_CardinalityType
<1> QED
  BY <1>1, <1>3, <1>6, <1>7

(* One pump, with the sets of devices that leave and join.                 *)
LEMMA PumpFacts ==
  ASSUME EngineTypeOK, Pump
  PROVE  \E stay \in SUBSET peers : \E joined \in SUBSET Devices :
           LET n == Cardinality(stay) + Cardinality(joined) IN
           /\ \A p \in stay : p.dev \notin joined
           /\ peers' = stay \cup
                {[dev |-> d, first |-> "none", counted |-> n > last_peers] :
                   d \in joined}
           /\ last_peers' = n
           /\ encoder' = IF n > last_peers THEN "none" ELSE encoder
           /\ queued' = IF n > last_peers THEN 0 ELSE queued
<1>1. PICK gone \in SUBSET Devices, joined \in SUBSET Devices :
        LET stay == {p \in peers : p.dev \notin gone \cup joined}
            n == Cardinality(stay) + Cardinality(joined)
        IN  /\ peers' = stay \cup
                 {[dev |-> d, first |-> "none", counted |-> n > last_peers] :
                    d \in joined}
            /\ last_peers' = n
            /\ encoder' = IF n > last_peers THEN "none" ELSE encoder
            /\ queued' = IF n > last_peers THEN 0 ELSE queued
  BY DEF Pump, PumpWith
<1>2. {p \in peers : p.dev \notin gone \cup joined} \in SUBSET peers
  OBVIOUS
<1> QED
  BY <1>1, <1>2

(* The two things a pump can do to the encoder and the devices.            *)
LEMMA PumpInv ==
  ASSUME EngineInv, Pump PROVE EngineTypeOK' /\ WaitInv' /\ GrowthGetsKeyframe'
<1>0. /\ peers \in SUBSET Peer
      /\ \A p, q \in peers : p.dev = q.dev => p = q
      /\ last_peers \in 0..Cardinality(Devices)
  BY DEF EngineInv, EngineTypeOK
<1>1. PICK stay \in SUBSET peers, joined \in SUBSET Devices :
        LET n == Cardinality(stay) + Cardinality(joined) IN
        /\ \A p \in stay : p.dev \notin joined
        /\ peers' = stay \cup
             {[dev |-> d, first |-> "none", counted |-> n > last_peers] :
                d \in joined}
        /\ last_peers' = n
        /\ encoder' = IF n > last_peers THEN "none" ELSE encoder
        /\ queued' = IF n > last_peers THEN 0 ELSE queued
  BY PumpFacts DEF EngineInv
<1> DEFINE n == Cardinality(stay) + Cardinality(joined)
           grew == n > last_peers
           fresh(d) == [dev |-> d, first |-> "none", counted |-> grew]
<1>2. n \in 0..Cardinality(Devices)
  BY <1>0, <1>1, PeersCounted
<1>3. grew \in BOOLEAN
  OBVIOUS
<1>4. /\ \A d \in joined : fresh(d) \in Peer
      /\ \A d \in joined :
           fresh(d).dev = d /\ fresh(d).first = "none" /\ fresh(d).counted = grew
  BY <1>3 DEF Peer
<1>5. /\ peers' = stay \cup {fresh(d) : d \in joined}
      /\ last_peers' = n
      /\ encoder' = IF grew THEN "none" ELSE encoder
      /\ queued' = IF grew THEN 0 ELSE queued
  BY <1>1
<1> HIDE DEF fresh, grew, n
<1>6. /\ peers' \in SUBSET Peer
      /\ \A p, q \in peers' : p.dev = q.dev => p = q
  BY <1>0, <1>1, <1>4, <1>5
<1>7. 0 \in 0..PIPE
  BY EngineAssumption
<1>8. /\ encoder' \in {"none", "new", "running"}
      /\ queued' \in 0..PIPE
      /\ encoder' = "none" => queued' = 0
  BY <1>5, <1>7 DEF EngineInv, EngineTypeOK
<1>9. /\ own' = TRUE /\ pc' = "check"
      /\ UNCHANGED <<innerVars, halting, captureVars, link, present, late>>
  BY DEF Pump, PumpWith, Goto
<1>10. EngineTypeOK'
  BY <1>2, <1>5, <1>6, <1>8, <1>9
     DEF EngineInv, EngineTypeOK, Places, innerVars, captureVars
<1>11. \A p \in peers' :
         \/ p \in peers
         \/ p.first = "none" /\ (p.counted => encoder' = "none")
  BY <1>1, <1>4, <1>5
<1>12. encoder' = encoder \/ encoder' = "none"
  BY <1>5
<1> QED
  BY <1>10, <1>11, <1>12 DEF EngineInv, WaitInv, GrowthGetsKeyframe

(* An access unit goes to everybody: nobody waits after it, and it is a    *)
(* keyframe for whoever waited for one that counts.                        *)
LEMMA ShipInv ==
  ASSUME EngineInv, NEW kind \in {"key", "delta"}, Ship(kind)
  PROVE  EngineTypeOK' /\ WaitInv' /\ GrowthGetsKeyframe'
<1> DEFINE given(p) == [p EXCEPT !.first = IF @ = "none" THEN kind ELSE @]
<1>0. /\ peers \in SUBSET Peer
      /\ \A p, q \in peers : p.dev = q.dev => p = q
      /\ queued \in 0..PIPE /\ queued > 0 /\ PIPE \in Nat
      /\ encoder \in {"new", "running"}
  BY EngineAssumption DEF EngineInv, EngineTypeOK, Ship
<1>1. \A p \in peers :
        /\ given(p) \in Peer
        /\ given(p).dev = p.dev
        /\ given(p).counted = p.counted
        /\ given(p).first = IF p.first = "none" THEN kind ELSE p.first
  BY <1>0 DEF Peer
<1>2. /\ peers' = {given(p) : p \in peers}
      /\ encoder' = "running"
      /\ queued' = queued - 1
      /\ encoder = "new" => kind = "key"
      /\ UNCHANGED <<innerVars, halting, pc, captureVars, last_peers, link,
                     present, history>>
  BY DEF Ship
<1> HIDE DEF given
<1>3. /\ peers' \in SUBSET Peer
      /\ \A p, q \in peers' : p.dev = q.dev => p = q
  BY <1>0, <1>1, <1>2
<1>4. EngineTypeOK'
  BY <1>0, <1>2, <1>3
     DEF EngineInv, EngineTypeOK, innerVars, captureVars, history
<1>5. \A p \in peers' : p.first # "none"
  BY <1>1, <1>2 DEF EngineInv, EngineTypeOK, Peer
<1>6. GrowthGetsKeyframe'
  BY <1>0, <1>1, <1>2 DEF EngineInv, GrowthGetsKeyframe, WaitInv
<1> QED
  BY <1>4, <1>5, <1>6 DEF WaitInv

(* Every other step of the engine and everything around it leaves the      *)
(* peers alone, and never starts an encoder that is running already.       *)
Others ==
  \/ \E o \in Outputs \cup {None} : handle_start(o)
  \/ Stop \/ Deselect \/ Halt \/ Monitors
  \/ Exit \/ CheckIdle \/ CheckStreaming
  \/ ReconnectBegin \/ ReconnectFails \/ ReconnectOk \/ Reselect \/ Publish
  \/ SetOutput \/ SetOutputFails
  \/ CaptureOk \/ CapturePoisoned \/ CaptureFails
  \/ EncodeKeep \/ EncodeRestart \/ EncoderFails
  \/ ShipDone \/ Pace \/ RecordError

LEMMA StepKinds ==
  EngineNext => Pump \/ Others \/ \E kind \in {"key", "delta"} : Ship(kind)
BY DEF EngineNext, Engine, Turn, Discovery, Others

LEMMA OthersPeers ==
  ASSUME EngineTypeOK, Others
  PROVE  /\ UNCHANGED peerVars
         /\ encoder' \in {encoder, "none", "new"}
         /\ queued' \in 0..PIPE
         /\ encoder' = "none" => queued' = 0
<1>0. /\ queued \in 0..PIPE
      /\ encoder = "none" => queued = 0
      /\ 0 \in 0..PIPE /\ 1 \in 0..PIPE /\ PIPE \in Nat
  BY EngineAssumption DEF EngineTypeOK
<1>1. CASE UNCHANGED <<peerVars, encoderVars>>
  BY <1>0, <1>1 DEF EngineTypeOK, encoderVars
<1>2. CASE ReconnectBegin
  BY <1>0, <1>2 DEF ReconnectBegin
<1>3. CASE EncodeKeep
  <2>1. queued' \in 0..PIPE
    BY <1>0, <1>3 DEF EncodeKeep
  <2> QED
    BY <1>3, <2>1 DEF EncodeKeep
<1>4. CASE EncodeRestart
  BY <1>0, <1>4 DEF EncodeRestart
<1>5. CASE EncoderFails
  BY <1>0, <1>5 DEF EncoderFails
<1> QED
  BY <1>1, <1>2, <1>3, <1>4, <1>5
     DEF Others, handle_start, Stop, Deselect, Halt, Monitors, Exit, CheckIdle,
         CheckStreaming, ReconnectFails, ReconnectOk, Reselect, Publish,
         SetOutput, SetOutputFails, CaptureOk, CapturePoisoned, CaptureFails,
         ShipDone, Pace, RecordError

LEMMA OthersTypes ==
  ASSUME EngineTypeOK, Others
  PROVE  /\ streaming' \in BOOLEAN /\ last_error' \in BOOLEAN
         /\ halting' \in BOOLEAN /\ own' \in BOOLEAN
         /\ selected' \in Outputs \cup {None}
         /\ want' \in Outputs \cup {None}
         /\ applied' \in Outputs \cup {None}
         /\ output' \in Outputs
         /\ outputs' \in SUBSET Outputs
         /\ known' \in SUBSET Outputs
         /\ present' \in SUBSET Outputs
         /\ link' \in {"ok", "poisoned", "dead"}
         /\ pc' \in Places
         /\ late' \in Nat
<1> USE DEF EngineTypeOK, Places, Goto, innerVars, captureVars, history
<1>1. TRUE \in BOOLEAN /\ FALSE \in BOOLEAN /\ 0 \in Nat
  OBVIOUS
<1>2. CASE \E o \in Outputs \cup {None} : handle_start(o)
  <2>1. PICK o \in Outputs \cup {None} : handle_start(o)
    BY <1>2
  <2>2. selected' \in Outputs \cup {None}
    BY <2>1 DEF handle_start
  <2>3. streaming' = TRUE /\ last_error' = FALSE /\ own' = FALSE /\ late' = 0
    BY <2>1 DEF handle_start
  <2>4. UNCHANGED <<outputs, halting, pc, captureVars, link, present>>
    BY <2>1 DEF handle_start
  <2> QED
    BY <1>1, <2>2, <2>3, <2>4
<1>3. CASE Stop \/ Deselect \/ Halt
  <2>1. selected' \in Outputs \cup {None}
    BY <1>3 DEF Stop, Deselect, Halt
  <2>2. late' = 0 \/ late' = late
    BY <1>3 DEF Stop, Deselect, Halt
  <2>3. streaming' \in BOOLEAN /\ halting' \in BOOLEAN
    <3>1. streaming' = FALSE \/ streaming' = streaming
      BY <1>3 DEF Stop, Deselect, Halt
    <3>2. halting' = TRUE \/ halting' = halting
      BY <1>3 DEF Stop, Deselect, Halt
    <3> QED
      BY <1>1, <3>1, <3>2
  <2>4. UNCHANGED <<outputs, last_error, pc, captureVars, link, present, own>>
    BY <1>3 DEF Stop, Deselect, Halt
  <2> QED
    BY <1>1, <2>1, <2>2, <2>3, <2>4
<1>4. CASE Monitors
  BY <1>4 DEF Monitors
<1>5. CASE Exit \/ CheckIdle \/ CheckStreaming
  BY <1>5 DEF Exit, CheckIdle, CheckStreaming
<1>6. CASE ReconnectBegin \/ ReconnectFails \/ Reselect \/ Publish
  BY <1>6 DEF ReconnectBegin, ReconnectFails, Reselect, Publish
<1>7. CASE ReconnectOk
  BY <1>7 DEF ReconnectOk, discover
<1>8. CASE SetOutput \/ SetOutputFails
  BY <1>8 DEF SetOutput, SetOutputFails
<1>9. CASE CaptureOk \/ CapturePoisoned \/ CaptureFails
  BY <1>9 DEF CaptureOk, CapturePoisoned, CaptureFails, Dispatch
<1>10. CASE EncodeKeep \/ EncodeRestart \/ EncoderFails
  BY <1>10 DEF EncodeKeep, EncodeRestart, EncoderFails
<1>11. CASE ShipDone \/ Pace
  BY <1>11 DEF ShipDone, Pace
<1>12. CASE RecordError
  <2>1. late' = 0 \/ late' = late
    BY <1>12 DEF RecordError
  <2>2. streaming' = FALSE /\ last_error' = TRUE /\ pc' = "pump"
    BY <1>12 DEF RecordError
  <2>3. UNCHANGED <<selected, outputs, halting, captureVars, link, present, own>>
    BY <1>12 DEF RecordError
  <2> QED
    BY <1>1, <2>1, <2>2, <2>3
<1> QED
  BY <1>2, <1>3, <1>4, <1>5, <1>6, <1>7, <1>8, <1>9, <1>10, <1>11,
     <1>12 DEF Others

LEMMA OthersInv ==
  ASSUME EngineInv, Others
  PROVE  EngineTypeOK' /\ WaitInv' /\ GrowthGetsKeyframe'
<1>1. EngineTypeOK
  BY DEF EngineInv
<1>2. EngineTypeOK'
  BY <1>1, OthersPeers, OthersTypes DEF EngineTypeOK, peerVars
<1>3. WaitInv' /\ GrowthGetsKeyframe'
  BY <1>1, OthersPeers DEF EngineInv, WaitInv, GrowthGetsKeyframe, peerVars
<1> QED
  BY <1>2, <1>3

(* Only a step that starts a stream, or that looks and finds one, brings   *)
(* the engine nearer to a capture; every end of a stream counts from zero. *)
LEMMA LateStep == EngineTypeOK /\ LateInv /\ EngineNext => LateInv'
<1> SUFFICES ASSUME EngineTypeOK, LateInv, EngineNext, ~streaming'
             PROVE  late' <= 1 /\ (pc' \in {"begin", "capture"} => late' = 0)
  BY DEF LateInv
<1>0. late \in Nat /\ pc \in Places /\ streaming \in BOOLEAN
  BY DEF EngineTypeOK
<1>1. CASE UNCHANGED <<streaming, late>> /\ pc' \notin {"begin", "capture"}
  BY <1>0, <1>1 DEF LateInv
<1>2. CASE UNCHANGED <<streaming, late, pc>>
  BY <1>0, <1>2 DEF LateInv
<1>3. CASE SetOutput
  BY <1>0, <1>3 DEF SetOutput, Goto, LateInv, history
<1>4. CASE CaptureOk
  BY <1>0, <1>4 DEF CaptureOk, LateInv, innerVars
<1>5. CASE Stop
  BY <1>5 DEF Stop
<1>6. CASE RecordError
  BY <1>0, <1>6 DEF RecordError, Goto, LateInv
<1>7. ~CheckStreaming /\ ~\E o \in Outputs \cup {None} : handle_start(o)
  BY DEF CheckStreaming, handle_start, innerVars
<1>8. CASE Deselect \/ Halt \/ Monitors \/ \E kind \in {"key", "delta"} : Ship(kind)
  BY <1>2, <1>8 DEF Deselect, Halt, Monitors, Ship, innerVars, history
<1>9. CASE \/ Exit \/ Pump \/ CheckIdle \/ ReconnectBegin \/ ReconnectFails
           \/ ReconnectOk \/ Reselect \/ Publish \/ SetOutputFails
           \/ CapturePoisoned \/ CaptureFails \/ EncodeKeep \/ EncodeRestart
           \/ EncoderFails \/ ShipDone \/ Pace
  BY <1>1, <1>9
     DEF Exit, Pump, PumpWith, CheckIdle, ReconnectBegin, ReconnectFails,
         ReconnectOk, Reselect, Publish, SetOutputFails, CapturePoisoned,
         CaptureFails, EncodeKeep, EncodeRestart, EncoderFails, ShipDone, Pace,
         Goto, innerVars, history
<1> QED
  BY <1>3, <1>4, <1>5, <1>6, <1>7, <1>8, <1>9 DEF EngineNext, Engine, Turn, Discovery

LEMMA EngineStep == EngineInv /\ [EngineNext]_vars => EngineInv'
<1> SUFFICES ASSUME EngineInv, [EngineNext]_vars PROVE EngineInv'
  OBVIOUS
<1>1. CASE UNCHANGED vars
  BY <1>1 DEF vars, innerVars, captureVars, encoderVars, peerVars, history,
              EngineInv, EngineTypeOK, WaitInv, GrowthGetsKeyframe, LateInv
<1>2. CASE EngineNext
  <2>1. EngineTypeOK' /\ WaitInv' /\ GrowthGetsKeyframe'
    BY <1>2, StepKinds, PumpInv, ShipInv, OthersInv
  <2>2. LateInv'
    BY <1>2, LateStep DEF EngineInv
  <2> QED
    BY <2>1, <2>2 DEF EngineInv
<1> QED
  BY <1>1, <1>2

-----------------------------------------------------------------------------
(* The theorems.                                                           *)

LEMMA EngineInvariant == EngineSpec => []EngineInv
BY EngineInitInv, EngineStep, PTL DEF EngineSpec

(* The fields of Service and Engine stay in range, and there are never     *)
(* more peers than devices.                                                *)
THEOREM EngineTypes == EngineSpec => []EngineTypeOK
BY EngineInvariant, PTL DEF EngineInv

(* A device that raised the number of peers gets a keyframe before any     *)
(* delta, whatever else joins, leaves, fails or is restarted meanwhile.    *)
THEOREM GrowthStartsWithKeyframe == EngineSpec => []GrowthGetsKeyframe
BY EngineInvariant, PTL DEF EngineInv

(* After a stop, a deselection or an error at most one more frame is       *)
(* captured, wherever the iteration was.                                   *)
THEOREM StopEnds == EngineSpec => []StopTakesEffect
<1>1. EngineInv => StopTakesEffect
  BY DEF EngineInv, LateInv, StopTakesEffect
<1> QED
  BY <1>1, EngineInvariant, PTL

=============================================================================
