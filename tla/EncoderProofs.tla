---------------------------- MODULE EncoderProofs ---------------------------
(***************************************************************************)
(* The encoder's backlog, for any queue, pipes and lookahead of ffmpeg:    *)
(* the reader's channel has no bound of its own and never needs one.       *)
(***************************************************************************)
EXTENDS Encoder, TLAPS, SequenceTheorems

-----------------------------------------------------------------------------
(* The inductive invariant follows the frames: each is in one place        *)
(* between the queue and the channel, and the engine puts in one at a time *)
(* and empties the channel before the next.                                *)

InFlight == queue + hand + stdin + held + stdout + parsed

(* What the places before the channel hold together.                       *)
Room == QUEUE + 2 * PIPE + HOLD + 2

(* The frame offered since the channel was last empty.                     *)
Offered == IF phase = "poll" THEN 1 ELSE 0

(* An encoder that has not been spawned is empty and has no threads.       *)
OffInv ==
  phase = "off" =>
    /\ ~writer /\ ~reader /\ ~stderr_reader /\ child = "exited"
    /\ InFlight = 0 /\ rx = <<>>

(* The reader's last message is the only one that is not a unit.           *)
FlowInv ==
  phase \in {"probe", "offer", "poll"} =>
    /\ InFlight + Len(rx) <= Room + Offered + 1
    /\ reader => InFlight + Len(rx) <= Room + Offered

EncoderInv ==
  /\ EncoderTypeOK
  /\ OffInv
  /\ FlowInv
  /\ BacklogBounded

-----------------------------------------------------------------------------
(* Types.                                                                  *)

LEMMA EncoderInitTypes == EncoderInit => EncoderTypeOK
<1> SUFFICES ASSUME EncoderInit PROVE EncoderTypeOK
  OBVIOUS
<1>1. 0 \in 0..QUEUE /\ 0 \in 0..PIPE /\ 0 \in 0..HOLD /\ 0 \in 0..1
  BY EncoderAssumption
<1>2. <<>> \in Seq({"unit", "end", "err"})
  OBVIOUS
<1> QED
  BY <1>1, <1>2 DEF EncoderInit, EncoderTypeOK

LEMMA EngineTypesStep ==
  ASSUME EncoderTypeOK, SpawnOk \/ EngineStep \/ DropEncoder
  PROVE  EncoderTypeOK'
<1> USE DEF EncoderTypeOK, writerVars, childVars, readerVars, errVars,
            engineVars
<1>1. CASE SpawnOk
  BY <1>1 DEF SpawnOk
<1>2. CASE ProbeOk
  BY <1>2 DEF ProbeOk
<1>3. CASE Teardown
  BY <1>3 DEF Teardown
<1>4. CASE EncodeQueued
  <2>1. queue' \in 0..QUEUE
    BY <1>4, EncoderAssumption DEF EncodeQueued
  <2> QED
    BY <1>4, <2>1 DEF EncodeQueued
<1>5. CASE EncodeDropped
  BY <1>5 DEF EncodeDropped
<1>6. CASE PollUnit
  <2>1. rx' \in Seq({"unit", "end", "err"})
    BY <1>6 DEF PollUnit
  <2> QED
    BY <1>6, <2>1 DEF PollUnit
<1>7. CASE PollEmpty
  BY <1>7 DEF PollEmpty
<1> QED
  BY <1>1, <1>2, <1>3, <1>4, <1>5, <1>6, <1>7
     DEF EngineStep, DropEncoder, ProbeFails, EncodeFails, PollFails

LEMMA WriterTypesStep ==
  ASSUME EncoderTypeOK, Writer
  PROVE  EncoderTypeOK'
<1> USE DEF EncoderTypeOK, engineVars, childVars, readerVars, errVars
<1>1. CASE WriterTakes
  <2>1. queue' \in 0..QUEUE /\ hand' \in 0..1
    BY <1>1, EncoderAssumption DEF WriterTakes
  <2> QED
    BY <1>1, <2>1 DEF WriterTakes
<1>2. CASE WriterWrites
  <2>1. stdin' \in 0..PIPE /\ hand' \in 0..1
    BY <1>2, EncoderAssumption DEF WriterWrites
  <2> QED
    BY <1>2, <2>1 DEF WriterWrites
<1>3. CASE WriterFails
  BY <1>3 DEF WriterFails
<1>4. CASE WriterEnds
  BY <1>4 DEF WriterEnds
<1> QED
  BY <1>1, <1>2, <1>3, <1>4 DEF Writer

LEMMA ChildTypesStep ==
  ASSUME EncoderTypeOK, ChildWorks \/ ChildExits
  PROVE  EncoderTypeOK'
<1> USE DEF EncoderTypeOK, engineVars, writerVars, readerVars, errVars
<1>1. CASE ChildReads
  <2>1. stdin' \in 0..PIPE /\ held' \in 0..HOLD
    BY <1>1, EncoderAssumption DEF ChildReads
  <2> QED
    BY <1>1, <2>1 DEF ChildReads
<1>2. CASE ChildLogs
  <2>1. stderr' \in 0..PIPE
    BY <1>2, EncoderAssumption DEF ChildLogs
  <2> QED
    BY <1>2, <2>1 DEF ChildLogs
<1>3. CASE ChildWrites
  <2>1. stdout' \in 0..PIPE /\ held' \in 0..HOLD
    BY <1>3, EncoderAssumption DEF ChildWrites
  <2> QED
    BY <1>3, <2>1 DEF ChildWrites
<1>4. CASE ChildExits
  <2>1. 0 \in 0..PIPE /\ 0 \in 0..HOLD
    BY EncoderAssumption
  <2> QED
    BY <1>4, <2>1 DEF ChildExits
<1> QED
  BY <1>1, <1>2, <1>3, <1>4 DEF ChildWorks

(* What the reader adds to its channel.                                    *)
LEMMA ReaderAdds ==
  ASSUME EncoderTypeOK, Reader
  PROVE  /\ rx' \in Seq({"unit", "end", "err"})
         /\ reader' \in BOOLEAN
         /\ phase = "gone" => rx' = rx
         /\ stdout' \in 0..PIPE /\ parsed' \in 0..1
         /\ UNCHANGED <<engineVars, writerVars, childVars, errVars>>
         /\ stdout' + parsed' + Len(rx') <= stdout + parsed + Len(rx) + 1
         /\ reader' =>
              stdout' + parsed' + Len(rx') <= stdout + parsed + Len(rx)
<1>1. /\ rx \in Seq({"unit", "end", "err"}) /\ reader \in BOOLEAN
      /\ stdout \in 0..PIPE /\ stdout \in Nat /\ parsed \in 0..1
      /\ PIPE \in Nat
  BY EncoderAssumption DEF EncoderTypeOK
<1>2. Len(rx) \in Nat
  BY <1>1
<1>3. ASSUME NEW s \in Seq({"unit", "end", "err"})
      PROVE  rx \o s \in Seq({"unit", "end", "err"})
               /\ Len(rx \o s) = Len(rx) + Len(s)
  BY <1>1, <1>3
<1>4. /\ <<"unit">> \in Seq({"unit", "end", "err"}) /\ Len(<<"unit">>) = 1
      /\ <<"end">> \in Seq({"unit", "end", "err"}) /\ Len(<<"end">>) = 1
      /\ <<"unit", "end">> \in Seq({"unit", "end", "err"})
      /\ Len(<<"unit", "end">>) = 2
  OBVIOUS
<1>5. Append(rx, "err") \in Seq({"unit", "end", "err"})
        /\ Len(Append(rx, "err")) = Len(rx) + 1
  BY <1>1
<1> DEFINE Grown == stdout' + parsed' + Len(rx')
           Before == stdout + parsed + Len(rx)
           Sound == /\ rx' \in Seq({"unit", "end", "err"})
                    /\ phase = "gone" => rx' = rx
                    /\ stdout' \in 0..PIPE /\ parsed' \in 0..1
                    /\ Grown <= Before + 1
           Ends == reader' = FALSE
<1>6. CASE ReaderReads
  <2>1. stdout' = stdout - 1 /\ stdout > 0 /\ parsed' = 1
          /\ UNCHANGED <<engineVars, writerVars, childVars, errVars>>
    BY <1>6 DEF ReaderReads
  <2>2. CASE parsed = 1 /\ phase # "gone"
    <3>1. rx' = rx \o <<"unit">> /\ reader' = reader
      BY <1>6, <2>2 DEF ReaderReads, SendOrEnd
    <3>2. Sound /\ Grown <= Before
      BY <1>1, <1>2, <1>3, <1>4, <2>1, <2>2, <3>1
    <3> QED
      BY <1>1, <2>1, <3>1, <3>2
  <2>3. CASE parsed = 1 /\ phase = "gone"
    <3>1. rx' = rx /\ Ends
      BY <1>6, <2>3 DEF ReaderReads, SendOrEnd
    <3>2. Sound /\ Grown <= Before
      BY <1>1, <1>2, <2>1, <2>3, <3>1
    <3> HIDE DEF Sound, Grown, Before
    <3>3. reader' \in BOOLEAN /\ Sound /\ (reader' => Grown <= Before)
      BY <3>1, <3>2, Zenon
    <3> QED
      BY <2>1, <3>3 DEF Sound, Grown, Before
  <2>4. CASE parsed = 0
    <3>1. rx' = rx /\ reader' = reader
      BY <1>6, <2>4 DEF ReaderReads
    <3>2. Sound /\ Grown <= Before
      BY <1>1, <1>2, <2>1, <2>4, <3>1
    <3> QED
      BY <1>1, <2>1, <3>1, <3>2
  <2> QED
    BY <1>1, <2>2, <2>3, <2>4
<1>7. CASE ReaderFails \/ ReaderEnds
  <2>1. Ends /\ UNCHANGED <<engineVars, writerVars, childVars, errVars>>
    BY <1>7 DEF ReaderFails, ReaderEnds
  <2>2. Sound
    <3>1. CASE ReaderFails
      <4>1. /\ stdout' = stdout - 1 /\ stdout > 0 /\ parsed' = parsed
            /\ rx' = IF phase = "gone" THEN rx ELSE Append(rx, "err")
        BY <3>1 DEF ReaderFails
      <4>2. CASE phase = "gone"
        BY <1>1, <1>2, <4>1, <4>2
      <4>3. CASE phase # "gone"
        BY <1>1, <1>2, <1>5, <4>1, <4>3
      <4> QED
        BY <4>2, <4>3
    <3>2. CASE ReaderEnds
      <4>1. stdout' = stdout /\ parsed' = 0
        BY <3>2 DEF ReaderEnds
      <4>2. \/ rx' = rx
            \/ phase # "gone" /\ parsed = 1 /\ rx' = rx \o <<"unit", "end">>
            \/ phase # "gone" /\ parsed = 0 /\ rx' = rx \o <<"end">>
            \/ phase # "gone" /\ rx' = Append(rx, "err")
        BY <1>1, <3>2 DEF ReaderEnds
      <4>3. CASE phase # "gone" /\ parsed = 1 /\ rx' = rx \o <<"unit", "end">>
        BY <1>1, <1>2, <1>3, <1>4, <4>1, <4>3
      <4>4. CASE phase # "gone" /\ parsed = 0 /\ rx' = rx \o <<"end">>
        BY <1>1, <1>2, <1>3, <1>4, <4>1, <4>4
      <4>5. CASE phase # "gone" /\ rx' = Append(rx, "err")
        BY <1>1, <1>2, <1>5, <4>1, <4>5
      <4>6. CASE rx' = rx
        BY <1>1, <1>2, <4>1, <4>6
      <4> QED
        BY <4>2, <4>3, <4>4, <4>5, <4>6
    <3> QED
      BY <1>7, <3>1, <3>2
  <2> HIDE DEF Sound, Grown, Before
  <2>3. reader' \in BOOLEAN /\ Sound /\ (reader' => Grown <= Before)
    BY <2>1, <2>2, Zenon
  <2> QED
    BY <2>1, <2>3 DEF Sound, Grown, Before
<1> QED
  BY <1>6, <1>7 DEF Reader

LEMMA EncoderTypesStep ==
  ASSUME EncoderTypeOK, [EncoderNext]_encVars
  PROVE  EncoderTypeOK'
<1>1. CASE Reader
  BY <1>1, ReaderAdds
     DEF EncoderTypeOK, engineVars, writerVars, childVars, errVars
<1>2. CASE Drained
  <2>1. stderr' \in 0..PIPE
    BY <1>2, EncoderAssumption DEF Drained, EncoderTypeOK
  <2> QED
    BY <1>2, <2>1 DEF Drained, EncoderTypeOK, engineVars, writerVars,
                      childVars, readerVars
<1>3. CASE DrainEnds
  BY <1>3 DEF DrainEnds, EncoderTypeOK, engineVars, writerVars, childVars,
              readerVars
<1>4. CASE UNCHANGED encVars
  BY <1>4 DEF encVars, EncoderTypeOK, engineVars, writerVars, childVars,
              readerVars, errVars
<1> QED
  BY <1>1, <1>2, <1>3, <1>4, EngineTypesStep, WriterTypesStep, ChildTypesStep
     DEF EncoderNext

-----------------------------------------------------------------------------
(* The flow of frames.                                                     *)

LEMMA Counts ==
  ASSUME EncoderTypeOK
  PROVE  /\ queue \in Nat /\ hand \in Nat /\ stdin \in Nat /\ held \in Nat
         /\ stdout \in Nat /\ parsed \in Nat /\ Len(rx) \in Nat
         /\ InFlight \in Nat
         /\ InFlight <= Room /\ Room \in Nat
         /\ Offered \in 0..1
BY EncoderAssumption DEF EncoderTypeOK, InFlight, Room, Offered

LEMMA Sums ==
  ASSUME NEW a \in Nat, NEW b \in Nat, NEW c \in Nat, NEW d \in Nat,
         NEW e \in Nat, NEW f \in Nat
  PROVE  a + b + c + d + e + f \in Nat
OBVIOUS

LEMMA SumsGrow ==
  ASSUME NEW a \in Nat, NEW b \in Nat, NEW c \in Nat, NEW d \in Nat,
         NEW e \in Nat, NEW f \in Nat, NEW g \in Nat,
         NEW h \in Nat, NEW i \in Nat, NEW j \in Nat,
         h + i + j <= e + f + g
  PROVE  a + b + c + d + h + i + j <= a + b + c + d + e + f + g
OBVIOUS

(* A frame moves on towards the channel, or is lost on the way.            *)
LEMMA MovesOn ==
  ASSUME EncoderInv, EncoderTypeOK', phase # "off",
         UNCHANGED <<phase, rx, reader>>, InFlight' <= InFlight,
         InFlight' \in Nat
  PROVE  OffInv' /\ FlowInv' /\ BacklogBounded'
<1>1. OffInv' /\ BacklogBounded'
  BY DEF EncoderInv, OffInv, BacklogBounded
<1>2. InFlight \in Nat /\ Len(rx) \in Nat /\ Room \in Nat /\ Offered \in Nat
  BY Counts DEF EncoderInv
<1>3. Offered' = Offered /\ Room' = Room /\ Len(rx') = Len(rx)
  BY DEF Offered, Room
<1> DEFINE T == InFlight' + Len(rx')
           U == InFlight + Len(rx)
<1>4. T <= U /\ T \in Nat /\ U \in Nat
  BY <1>2, <1>3
<1> HIDE DEF T, U
<1>5. /\ U <= Room + Offered + 1 => T <= Room + Offered + 1
      /\ U <= Room + Offered => T <= Room + Offered
  BY <1>2, <1>4
<1>6. phase \in {"probe", "offer", "poll"} =>
        U <= Room + Offered + 1 /\ (reader => U <= Room + Offered)
  BY DEF EncoderInv, FlowInv, U
<1>7. phase' \in {"probe", "offer", "poll"} =>
        T <= Room' + Offered' + 1 /\ (reader' => T <= Room' + Offered')
  BY <1>3, <1>5, <1>6
<1>8. FlowInv'
  BY <1>7 DEF FlowInv, T
<1> QED
  BY <1>1, <1>8

LEMMA WorkersFlow ==
  ASSUME EncoderInv, EncoderTypeOK',
         Writer \/ ChildWorks \/ ChildExits \/ Drained \/ DrainEnds
  PROVE  OffInv' /\ FlowInv' /\ BacklogBounded'
<1>1. phase # "off"
  BY DEF EncoderInv, OffInv, Writer, WriterTakes, WriterWrites, WriterFails,
         WriterEnds, ChildWorks, ChildReads, ChildLogs, ChildWrites,
         ChildExits, Drained, DrainEnds
<1>2. UNCHANGED <<phase, rx, reader>>
  BY DEF Writer, WriterTakes, WriterWrites, WriterFails, WriterEnds,
         ChildWorks, ChildReads, ChildLogs, ChildWrites, ChildExits, Drained,
         DrainEnds, engineVars, readerVars
<1>3. /\ queue \in Nat /\ hand \in Nat /\ stdin \in Nat /\ held \in Nat
      /\ stdout \in Nat /\ parsed \in Nat
  BY Counts DEF EncoderInv
<1>4. /\ queue' \in Nat /\ hand' \in Nat /\ stdin' \in Nat /\ held' \in Nat
      /\ stdout' \in Nat /\ parsed' \in Nat
  BY DEF EncoderTypeOK
<1>5. InFlight' \in Nat
  <2>1. queue' + hand' + stdin' + held' + stdout' + parsed' \in Nat
    BY <1>4, Sums
  <2> QED
    BY <2>1 DEF InFlight
<1>6. InFlight' <= InFlight
  <2> USE <1>3, <1>4 DEF InFlight, engineVars, writerVars, childVars,
                         readerVars, errVars
  <2>1. CASE WriterTakes
    BY <2>1 DEF WriterTakes
  <2>2. CASE WriterWrites
    BY <2>2 DEF WriterWrites
  <2>3. CASE UNCHANGED <<queue, hand, stdin, held, stdout, parsed>>
    BY <2>3
  <2>4. CASE ChildReads
    BY <2>4 DEF ChildReads
  <2>5. CASE ChildLogs
    BY <2>3, <2>5 DEF ChildLogs
  <2>6. CASE ChildWrites
    BY <2>6 DEF ChildWrites
  <2>7. CASE ChildExits
    BY <2>7 DEF ChildExits
  <2>8. CASE WriterFails \/ WriterEnds \/ Drained \/ DrainEnds
    <3>1. UNCHANGED <<queue, hand, stdin, held, stdout, parsed>>
      BY <2>8 DEF WriterFails, WriterEnds, Drained, DrainEnds
    <3> QED
      BY <2>3, <3>1
  <2> QED
    BY <2>1, <2>2, <2>3, <2>4, <2>5, <2>6, <2>7, <2>8 DEF Writer, ChildWorks
<1> QED
  BY <1>1, <1>2, <1>5, <1>6, MovesOn

LEMMA ReaderFlow ==
  ASSUME EncoderInv, EncoderTypeOK', Reader
  PROVE  OffInv' /\ FlowInv' /\ BacklogBounded'
<1>1. phase # "off" /\ reader
  BY DEF EncoderInv, OffInv, Reader, ReaderReads, ReaderFails, ReaderEnds
<1>2. /\ phase = "gone" => rx' = rx
      /\ UNCHANGED <<phase, queue, hand, stdin, held>>
      /\ stdout' + parsed' + Len(rx') <= stdout + parsed + Len(rx) + 1
      /\ reader' =>
           stdout' + parsed' + Len(rx') <= stdout + parsed + Len(rx)
  BY ReaderAdds DEF EncoderInv, engineVars, writerVars, childVars
<1>3. /\ queue \in Nat /\ hand \in Nat /\ stdin \in Nat /\ held \in Nat
      /\ stdout \in Nat /\ parsed \in Nat /\ Len(rx) \in Nat
      /\ Room \in Nat /\ Offered \in 0..1
  BY Counts DEF EncoderInv
<1>4. stdout' \in Nat /\ parsed' \in Nat /\ Len(rx') \in Nat
  BY DEF EncoderTypeOK
<1>5. Offered' = Offered /\ Room' = Room
  BY <1>2 DEF Offered, Room
<1> DEFINE T == InFlight' + Len(rx')
           U == InFlight + Len(rx)
<1>6. T \in Nat /\ U \in Nat /\ T <= U + 1
  BY <1>2, <1>3, <1>4, SMTT(60) DEF InFlight
<1>7. reader' => T <= U
  <2>1. stdout' + parsed' + Len(rx') <= stdout + parsed + Len(rx) => T <= U
    BY <1>2, <1>3, <1>4, SumsGrow, ZenonT(60) DEF InFlight
  <2> HIDE DEF T, U
  <2> QED
    BY <1>2, <2>1, Zenon
<1>8. Len(rx') <= T
  BY <1>2, <1>3, <1>4, SMTT(60) DEF InFlight
<1> HIDE DEF T, U
<1>9. CASE phase = "gone"
  BY <1>2, <1>9 DEF EncoderInv, OffInv, FlowInv, BacklogBounded
<1>10. CASE phase # "gone"
  <2>1. phase \in {"probe", "offer", "poll"}
    BY <1>1, <1>10 DEF EncoderInv, EncoderTypeOK
  <2>2. U <= Room + Offered
    BY <1>1, <2>1 DEF EncoderInv, FlowInv, U
  <2>3. T <= Room' + Offered' + 1
    BY <1>3, <1>5, <1>6, <2>2
  <2>4. reader' => T <= Room' + Offered'
    <3> SUFFICES ASSUME reader' PROVE T <= Room' + Offered'
      OBVIOUS
    <3>1. T <= U
      BY <1>7
    <3> QED
      BY <1>3, <1>5, <1>6, <2>2, <3>1
  <2>5. FlowInv'
    BY <2>3, <2>4 DEF FlowInv, T
  <2>6. Len(rx') <= Room + 2
    BY <1>3, <1>4, <1>5, <1>6, <1>8, <2>3
  <2>7. BacklogBounded'
    BY <1>3, <1>4, <2>6, EncoderAssumption DEF BacklogBounded, Room
  <2> QED
    BY <1>1, <1>2, <2>5, <2>7 DEF OffInv
<1> QED
  BY <1>9, <1>10

LEMMA EngineFlow ==
  ASSUME EncoderInv, EncoderTypeOK', SpawnOk \/ EngineStep \/ DropEncoder
  PROVE  OffInv' /\ FlowInv' /\ BacklogBounded'
<1> USE DEF engineVars, writerVars, childVars, readerVars, errVars
<1>1. /\ queue \in Nat /\ hand \in Nat /\ stdin \in Nat /\ held \in Nat
      /\ stdout \in Nat /\ parsed \in Nat /\ Len(rx) \in Nat
      /\ InFlight \in Nat /\ InFlight <= Room /\ Room \in Nat
      /\ Offered \in 0..1
  BY Counts DEF EncoderInv
<1>2. Room' = Room
  BY DEF Room
<1>3. CASE SpawnOk
  <2>1. phase' = "probe" /\ rx' = <<>> /\ InFlight' = 0
    BY <1>3 DEF SpawnOk, EncoderInv, OffInv, InFlight
  <2>2. Len(rx') = 0 /\ Offered' = 0
    BY <2>1 DEF Offered
  <2>3. OffInv'
    BY <2>1 DEF OffInv
  <2>4. InFlight' + Len(rx') <= Room' + Offered'
          /\ InFlight' + Len(rx') <= Room' + Offered' + 1
    BY <1>1, <1>2, <2>1, <2>2
  <2>5. FlowInv'
    BY <2>4 DEF FlowInv
  <2>6. BacklogBounded'
    BY <2>2, EncoderAssumption DEF BacklogBounded
  <2> QED
    BY <2>3, <2>5, <2>6
<1>4. CASE Teardown
  BY <1>4 DEF Teardown, EncoderInv, OffInv, FlowInv, BacklogBounded
<1>5. CASE ProbeOk
  <2>1. phase = "probe" /\ phase' = "offer" /\ InFlight' = InFlight
          /\ UNCHANGED <<rx, reader>>
    BY <1>5 DEF ProbeOk, InFlight
  <2>2. Offered' = Offered
    BY <2>1 DEF Offered
  <2> QED
    BY <1>2, <2>1, <2>2 DEF EncoderInv, OffInv, FlowInv, BacklogBounded
<1>6. CASE EncodeQueued \/ EncodeDropped
  <2>1. /\ phase = "offer" /\ phase' = "poll" /\ UNCHANGED <<rx, reader>>
        /\ InFlight' \in Nat /\ InFlight' <= InFlight + 1
    BY <1>1, <1>6, SMTT(60) DEF EncodeQueued, EncodeDropped, InFlight
  <2>2. Offered = 0 /\ Offered' = 1 /\ Len(rx') = Len(rx)
    BY <2>1 DEF Offered
  <2> DEFINE T == InFlight' + Len(rx')
             U == InFlight + Len(rx)
  <2>3. T \in Nat /\ U \in Nat /\ T <= U + 1
    BY <1>1, <2>1, <2>2
  <2> HIDE DEF T, U
  <2>4. U <= Room + 1 /\ (reader => U <= Room)
    <3>1. U <= Room + Offered + 1 /\ (reader => U <= Room + Offered)
      BY <2>1 DEF EncoderInv, FlowInv, U
    <3>2. Room + Offered + 1 = Room + 1 /\ Room + Offered = Room
      BY <1>1, <2>2
    <3> QED
      BY <3>1, <3>2
  <2>5. /\ U <= Room + 1 => T <= Room' + Offered' + 1
        /\ U <= Room => T <= Room' + Offered'
    BY <1>1, <1>2, <2>2, <2>3
  <2>6. T <= Room' + Offered' + 1 /\ (reader' => T <= Room' + Offered')
    BY <2>1, <2>4, <2>5
  <2>7. FlowInv'
    BY <2>6 DEF FlowInv, T
  <2> QED
    BY <2>1, <2>7 DEF EncoderInv, OffInv, BacklogBounded
<1>7. CASE PollUnit
  <2>1. phase = "poll" /\ UNCHANGED <<phase, reader>> /\ InFlight' = InFlight
    BY <1>7 DEF PollUnit, InFlight
  <2>2. Len(rx') = Len(rx) - 1 /\ Len(rx') \in Nat
    BY <1>7 DEF PollUnit, EncoderInv, EncoderTypeOK
  <2>3. Offered' = Offered
    BY <2>1 DEF Offered
  <2> DEFINE T == InFlight' + Len(rx')
             U == InFlight + Len(rx)
  <2>4. T \in Nat /\ U \in Nat /\ T <= U
    BY <1>1, <2>1, <2>2
  <2> HIDE DEF T, U
  <2>5. U <= Room + Offered + 1 /\ (reader => U <= Room + Offered)
    BY <2>1 DEF EncoderInv, FlowInv, U
  <2>6. /\ U <= Room + Offered + 1 => T <= Room' + Offered' + 1
        /\ U <= Room + Offered => T <= Room' + Offered'
    BY <1>1, <1>2, <2>3, <2>4
  <2>7. T <= Room' + Offered' + 1 /\ (reader' => T <= Room' + Offered')
    BY <2>1, <2>5, <2>6
  <2>8. FlowInv'
    BY <2>7 DEF FlowInv, T
  <2>9. BacklogBounded'
    BY <1>1, <2>2, EncoderAssumption DEF EncoderInv, BacklogBounded
  <2> QED
    BY <2>1, <2>8, <2>9 DEF OffInv
<1>8. CASE PollEmpty
  <2>1. phase' = "offer" /\ rx' = <<>> /\ InFlight' = InFlight /\ rx' = rx
    BY <1>8 DEF PollEmpty, InFlight
  <2>2. Len(rx') = 0 /\ Offered' = 0
    BY <2>1 DEF Offered
  <2>3. InFlight' + Len(rx') <= Room' + Offered'
          /\ InFlight' + Len(rx') <= Room' + Offered' + 1
    BY <1>1, <1>2, <2>1, <2>2
  <2>4. FlowInv'
    BY <2>3 DEF FlowInv
  <2> QED
    BY <2>1, <2>4 DEF EncoderInv, OffInv, BacklogBounded
<1> QED
  BY <1>3, <1>4, <1>5, <1>6, <1>7, <1>8
     DEF EngineStep, DropEncoder, ProbeFails, EncodeFails, PollFails

-----------------------------------------------------------------------------

LEMMA EncoderInvInit == EncoderInit => EncoderInv
<1> SUFFICES ASSUME EncoderInit PROVE EncoderInv
  OBVIOUS
<1>1. InFlight = 0 /\ rx = <<>> /\ Len(rx) = 0
  BY DEF EncoderInit, InFlight
<1>2. OffInv /\ FlowInv
  BY <1>1 DEF EncoderInit, OffInv, FlowInv
<1>3. BacklogBounded
  BY <1>1, EncoderAssumption DEF BacklogBounded
<1> QED
  BY <1>2, <1>3, EncoderInitTypes DEF EncoderInv

LEMMA EncoderInvStep ==
  ASSUME EncoderInv, [EncoderNext]_encVars
  PROVE  EncoderInv'
<1>1. EncoderTypeOK'
  BY EncoderTypesStep DEF EncoderInv
<1>2. CASE UNCHANGED encVars
  BY <1>1, <1>2
     DEF encVars, engineVars, writerVars, childVars, readerVars, errVars,
         EncoderInv, OffInv, FlowInv, InFlight, Room, Offered, BacklogBounded
<1> QED
  BY <1>1, <1>2, EngineFlow, WorkersFlow, ReaderFlow
     DEF EncoderNext, EncoderInv

LEMMA EncoderInvariance == EncoderSpec => []EncoderInv
<1>1. EncoderInv /\ [EncoderNext]_encVars => EncoderInv'
  BY EncoderInvStep
<1> QED
  BY <1>1, EncoderInvInit, PTL DEF EncoderSpec

(* Type correctness: the frame queue, the three pipes and what ffmpeg      *)
(* holds stay within their capacities.                                     *)
THEOREM EncoderTypes == EncoderSpec => []EncoderTypeOK
<1>1. EncoderInv => EncoderTypeOK
  BY DEF EncoderInv
<1> QED
  BY <1>1, EncoderInvariance, PTL

(* The reader's channel is unbounded and stays short: it never holds more  *)
(* than the queue, the pipes, ffmpeg and the two threads can have under    *)
(* way, with the last frame offered and the reader's last message.         *)
THEOREM BacklogStaysShort == EncoderSpec => []BacklogBounded
<1>1. EncoderInv => BacklogBounded
  BY DEF EncoderInv
<1> QED
  BY <1>1, EncoderInvariance, PTL

=============================================================================
