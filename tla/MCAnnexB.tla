------------------------------ MODULE MCAnnexB ------------------------------
(***************************************************************************)
(* Small streams for AnnexB: a few NAL units of each kind, with start      *)
(* codes of three and of four bytes.                                       *)
(***************************************************************************)
EXTENDS AnnexB

CONSTANTS
  MaxNals    \* bound: NAL units in a stream of the plainest kind; one fewer
             \* in a common one, two fewer in one of all kinds

Nal(sc, body) == [sc |-> sc, body |-> body]

(* Two parameter sets and the first slices of a keyframe and of a delta    *)
(* picture.                                                                *)
H264Plain ==
  {Nal(4, <<103, 1>>), Nal(3, <<104, 2>>), Nal(4, <<101, 128>>),
   Nal(3, <<65, 128>>)}

(* Also an AUD and a later slice.                                          *)
H264Common == H264Plain \cup {Nal(4, <<9, 16>>), Nal(3, <<65, 64>>)}

(* Also SEI, the other start code, an empty NAL unit, and an end of        *)
(* sequence, which is too short for the parser.                            *)
H264All ==
  H264Common \cup {Nal(3, <<6, 5>>), Nal(4, <<65, 128>>), Nal(4, <<>>),
                   Nal(3, <<>>), Nal(3, <<10>>)}

HevcCommon ==
  {Nal(4, <<64, 1, 7>>), Nal(4, <<38, 1, 128>>), Nal(3, <<2, 1, 128>>),
   Nal(3, <<2, 1, 64>>)}

(* Also an SPS (type 33, which the code does not take for a parameter      *)
(* set), SEI, and an empty NAL unit.                                       *)
HevcAll == HevcCommon \cup {Nal(3, <<66, 1, 8>>), Nal(3, <<78, 1, 5>>),
                            Nal(3, <<80, 1, 5>>), Nal(4, <<>>)}

MCStreams ==
  [c \in Codecs |->
     IF c = "H264"
     THEN UNION {BoundedSeq(H264Plain, MaxNals),
                 BoundedSeq(H264Common, MaxNals - 1),
                 BoundedSeq(H264All, MaxNals - 2)}
     ELSE UNION {BoundedSeq(HevcCommon, MaxNals - 1),
                 BoundedSeq(HevcAll, MaxNals - 2)}]

(* For CutSpec: slices with a byte to lose behind the one looked at.       *)
LongStreams ==
  [c \in Codecs |-> BoundedSeq({Nal(4, <<101, 128, 5>>), Nal(3, <<65, 128, 5>>)},
                               MaxNals)]

MCJunk == <<7, 7, 7>>

(* read_ue is zero exactly for a slice whose first bit is set, over all    *)
(* short slices of these bytes with a number narrower than UE_BITS:        *)
(* emulation prevention and malformed numbers never look like a first      *)
(* slice.                                                                  *)
ASSUME FirstSlice ==
  \A s \in BoundedSeq({0, 1, 3, 64, 128}, 4) :
    (read_ue(s) = 0) <=> (s # <<>> /\ Head(s) >= 128)

=============================================================================
