------------------------------- MODULE AnnexB -------------------------------
(***************************************************************************)
(* The reader thread of an encoder (encoder.rs) and the parser it owns,    *)
(* AnnexBParser of codec.rs: ffmpeg writes NAL units in Annex-B form, the  *)
(* reader takes them off the pipe in pieces that end anywhere, and the     *)
(* parser finds the start codes, groups the NAL units into access units    *)
(* and keeps the parameter sets that go with them.                         *)
(*                                                                         *)
(* Bytes are numbers: where a start code begins, what a header says and    *)
(* whether a slice is the first of its picture is read from them as the    *)
(* code reads it.  The slice data behind the first byte is left out.       *)
(***************************************************************************)
EXTENDS Naturals, Sequences, SequencesExt, FiniteSetsExt

CONSTANTS
  Codecs,                    \* of {"H264", "Hevc"}
  Streams,                   \* Streams[c]: what the encoder may write, each
                             \* a sequence of [sc |-> 3 or 4, body |-> bytes]
  Junk,                      \* bytes that may precede the first NAL unit
  MAX_PARAMETER_SET_BYTES,
  MAX_BUFFER,                \* AnnexBParser::max_buffer
  READ,                      \* the most bytes one read returns
  UE_BITS                    \* width of the number read_ue builds (u32)

(* A start code, or the three bytes of one that has four.                  *)
StartCodeAt(buf, i) ==
  /\ i + 2 <= Len(buf)
  /\ buf[i] = 0 /\ buf[i + 1] = 0 /\ buf[i + 2] = 1

(* Emulation prevention keeps start codes out of a NAL unit, and it ends   *)
(* in a byte that is not zero.                                             *)
ASSUME AnnexBAssumption ==
  /\ Codecs \subseteq {"H264", "Hevc"}
  /\ \A c \in Codecs : \A s \in Streams[c] :
       /\ s \in Seq([sc : {3, 4}, body : Seq(0..255)])
       /\ \A i \in DOMAIN s :
            /\ s[i].body # <<>> => Last(s[i].body) # 0
            /\ \A j \in DOMAIN s[i].body : ~StartCodeAt(s[i].body, j)
  /\ Junk \in Seq(1..255)
  /\ {MAX_PARAMETER_SET_BYTES, MAX_BUFFER, READ, UE_BITS} \subseteq Nat \ {0}

VARIABLES
  codec,
  stream,           \* the NAL units ffmpeg writes before it exits
  pipe,             \* the bytes of it that are not read yet
  pc,               \* "read", "scan" (push), "finish", "flush" or "ended"
  buffer,           \* AnnexBParser
  parameter_sets,
  pending_parameter_sets,
  collecting_sets,
  current,
  current_has_vcl,
  out,              \* the access units the call under way has completed
  rx                \* messages sent: units with their sets, then the end

ffmpegVars == <<codec, stream>>
setVars == <<parameter_sets, pending_parameter_sets, collecting_sets>>
unitVars == <<current, current_has_vcl, out>>
abVars == <<ffmpegVars, pipe, pc, buffer, setVars, unitVars, rx>>

-----------------------------------------------------------------------------
(* NAL units.  One that the parser has cut out is a [nal_type, annexb].    *)

header_len == IF codec = "H264" THEN 1 ELSE 2

nal_type(body) ==
  IF codec = "H264" THEN body[1] % 32 ELSE (body[1] \div 2) % 64

is_aud(n) == codec = "H264" /\ n.nal_type = 9

is_parameter_set(n) ==
  n.nal_type \in (IF codec = "H264" THEN {7, 8} ELSE {32})

is_keyframe_nal(n) ==
  n.nal_type \in (IF codec = "H264" THEN {5} ELSE {19, 20, 21})

is_sei(n) == n.nal_type \in (IF codec = "H264" THEN {6} ELSE {39, 40})

is_vcl(n) == n.nal_type \in (IF codec = "H264" THEN 1..5 ELSE 0..31)

start_code_len(n) ==
  IF Len(n.annexb) >= 4 /\ SubSeq(n.annexb, 1, 4) = <<0, 0, 0, 1>>
  THEN 4 ELSE 3

(* The bytes BitReader visits: it leaves the emulation prevention byte     *)
(* out, and the zero before it with it.                                    *)
Visited(s) ==
  LET from[i \in Nat] ==
        IF i > Len(s) THEN <<>>
        ELSE <<s[i]>> \o
             from[IF i + 2 <= Len(s) /\ SubSeq(s, i, i + 2) = <<0, 0, 3>>
                  THEN i + 3 ELSE i + 1]
  IN  from[1]

Bit(s, k) == (s[k \div 8 + 1] \div 2^(7 - (k % 8))) % 2

NoValue == 2^UE_BITS

(* read_ue: an Exp-Golomb number in UE_BITS bits that overflow silently.   *)
read_ue(slice) ==
  LET s == Visited(slice)
      ones == {k \in 0..(8 * Len(s) - 1) : Bit(s, k) = 1}
      leading == Min(ones)
      value == FoldLeft(LAMBDA v, k : (2 * v + Bit(s, k)) % 2^UE_BITS, 1,
                        [k \in 1..leading |-> leading + k])
  IN  CASE ones = {} -> NoValue
        [] leading > UE_BITS -> NoValue
        [] leading = 0 -> 0
        [] 2 * leading + 1 > 8 * Len(s) -> NoValue
        [] OTHER -> (value + 2^UE_BITS - 1) % 2^UE_BITS

starts_new_picture(n) ==
  LET from == start_code_len(n) + header_len + 1
      slice == SubSeq(n.annexb, from, Len(n.annexb))
  IN  /\ from <= Len(n.annexb) + 1
      /\ IF codec = "H264" THEN read_ue(slice) = 0
         ELSE slice # <<>> /\ Head(slice) >= 128

-----------------------------------------------------------------------------
(* Cutting NAL units out of the buffer.                                    *)

(* Mutant of start_code_positions: a leading zero is never absorbed.       *)
start_code_positions_short(buf) ==
  LET from[i \in Nat] ==
        IF i + 2 > Len(buf) THEN <<>>
        ELSE IF StartCodeAt(buf, i)
        THEN <<[at |-> i, len |-> 3]>> \o from[i + 3]
        ELSE from[i + 1]
  IN  from[1]

(* Offsets (from 1) and lengths of the start codes.  The scan goes on      *)
(* `len` bytes after the place it stood at, which for a code of four is    *)
(* one byte past its end.                                                  *)
start_code_positions(buf) ==
  LET from[i \in Nat] ==
        IF i + 2 > Len(buf) THEN <<>>
        ELSE IF StartCodeAt(buf, i)
        THEN LET len == IF i > 1 /\ buf[i - 1] = 0 THEN 4 ELSE 3
             IN  <<[at |-> i + 3 - len, len |-> len]>> \o from[i + len]
        ELSE from[i + 1]
  IN  from[1]

(* What the buffer holds next: nothing complete, an empty NAL unit, one    *)
(* too short for its header, or a NAL unit; and what is left behind it.    *)
(* With at_end the end of the buffer bounds the last one.                  *)
take_next_nal(at_end) ==
  LET starts == start_code_positions(buffer)
      start == starts[1]
      end == IF Len(starts) > 1 THEN starts[2].at ELSE Len(buffer) + 1
      annexb == SubSeq(buffer, start.at, end - 1)
      body == SubSeq(annexb, start.len + 1, Len(annexb))
  IN  IF starts = <<>>
      THEN [is |-> IF Len(buffer) > MAX_PARAMETER_SET_BYTES THEN "error"
                   ELSE "none"]
      ELSE IF Len(starts) = 1 /\ ~at_end
      THEN [is |-> "none"]
      ELSE [is |-> IF body = <<>> THEN "empty"
                   ELSE IF Len(body) <= header_len THEN "error"
                   ELSE "nal",
            rest |-> SubSeq(buffer, end, Len(buffer)),
            nal |-> [nal_type |-> IF body = <<>> THEN 0 ELSE nal_type(body),
                     annexb |-> annexb]]

-----------------------------------------------------------------------------
(* Grouping NAL units into access units.                                   *)

Annexb(nals) == FlattenSeq([i \in DOMAIN nals |-> nals[i].annexb])

(* flush_current: the unit under construction, if it holds anything.       *)
flush_current ==
  IF current = <<>> THEN <<>>
  ELSE <<[nals |-> current,
          keyframe |-> \E i \in DOMAIN current : is_keyframe_nal(current[i])]>>

(* Mutant of Boundary: the slice header is not looked at.                  *)
BoundaryMarked(n) ==
  \/ is_aud(n)
  \/ current_has_vcl /\ (is_parameter_set(n) \/ is_sei(n))

(* Whether n belongs to the next picture.                                  *)
Boundary(n) ==
  \/ is_aud(n)
  \/ current_has_vcl /\ is_vcl(n) /\ starts_new_picture(n)
  \/ current_has_vcl /\ (is_parameter_set(n) \/ is_sei(n))

(* Mutant of Collect: a new group of parameter sets extends the last one.  *)
CollectMore(n) ==
  LET kept == IF is_aud(n) THEN <<>> ELSE pending_parameter_sets
  IN  IF is_parameter_set(n)
      THEN IF collecting_sets THEN kept \o n.annexb
           ELSE parameter_sets \o n.annexb
      ELSE kept

(* The group of parameter sets collected once n is in: an AUD throws an    *)
(* unfinished group away, the first set after a picture starts a new one.  *)
Collect(n) ==
  LET kept == IF is_aud(n) THEN <<>> ELSE pending_parameter_sets
  IN  IF is_parameter_set(n)
      THEN (IF collecting_sets THEN kept ELSE <<>>) \o n.annexb
      ELSE kept

TooManyParameterSets(n) ==
  is_parameter_set(n) /\ Len(Collect(n)) > MAX_PARAMETER_SET_BYTES

(* accept_nal.  Picture data puts the collected group in force.            *)
accept_nal(n) ==
  LET collecting == is_parameter_set(n) \/ (collecting_sets /\ ~is_aud(n))
      commit == is_vcl(n) /\ collecting
      flushes == Boundary(n)
  IN  /\ out' = IF flushes THEN out \o flush_current ELSE out
      /\ current' = Append(IF flushes THEN <<>> ELSE current, n)
      /\ current_has_vcl' =
           (is_vcl(n) \/ (current_has_vcl /\ ~(flushes /\ current # <<>>)))
      /\ parameter_sets' = IF commit THEN Collect(n) ELSE parameter_sets
      /\ pending_parameter_sets' = IF commit THEN <<>> ELSE Collect(n)
      /\ collecting_sets' = (collecting /\ ~commit)

-----------------------------------------------------------------------------
(* ffmpeg.                                                                 *)

Bytes(n) ==
  (IF n.sc = 3 THEN <<0, 0, 1>> ELSE <<0, 0, 0, 1>>) \o n.body

AsNal(n) == [nal_type |-> nal_type(n.body), annexb |-> Bytes(n)]

(* What the parser should make of the k-th NAL unit: nothing, if it is     *)
(* empty.                                                                  *)
Found(k) == IF stream[k].body = <<>> THEN <<>> ELSE <<AsNal(stream[k])>>

(* The encoder's NAL units as the parser should find them.                 *)
Nals == FlattenSeq([k \in DOMAIN stream |-> Found(k)])

Raw == FlattenSeq([k \in DOMAIN stream |-> Bytes(stream[k])])

(* A later slice follows a slice of its picture.  An empty NAL unit with a *)
(* start code of four before one of three is left out: the scan steps over *)
(* the second code (see start_code_positions).                             *)
WellFormed ==
  /\ \A i \in DOMAIN Nals :
       is_vcl(Nals[i]) /\ ~starts_new_picture(Nals[i])
         => i > 1 /\ is_vcl(Nals[i - 1])
  /\ \A i \in 2..Len(stream) :
       stream[i - 1].body = <<>> /\ stream[i - 1].sc = 4 => stream[i].sc = 4

-----------------------------------------------------------------------------
(* The reader thread.                                                      *)

(* The reader sends what a call returned, every unit with the parameter    *)
(* sets the parser holds when the call returns.                            *)
Units(units, sets) ==
  [i \in DOMAIN units |-> [is |-> "unit", au |-> units[i], sets |-> sets]]

(* A call that fails returns no units, not even those it had completed.    *)
Fail ==
  /\ pc' = "ended"
  /\ out' = <<>>
  /\ rx' = Append(rx, [is |-> "err"])

(* push: the bytes of one read join the buffer.                            *)
Read(k) ==
  /\ pc = "read"
  /\ buffer' = buffer \o SubSeq(pipe, 1, k)
  /\ pipe' = SubSeq(pipe, k + 1, Len(pipe))
  /\ IF Len(buffer') > MAX_BUFFER
     THEN Fail
     ELSE pc' = "scan" /\ UNCHANGED <<out, rx>>
  /\ UNCHANGED <<ffmpegVars, setVars, current, current_has_vcl>>

ReadFails ==
  /\ pc = "read"
  /\ Fail
  /\ UNCHANGED <<ffmpegVars, pipe, buffer, setVars, current, current_has_vcl>>

(* End of file: finish.                                                    *)
ReadEof ==
  /\ pc = "read"
  /\ pipe = <<>>
  /\ pc' = "finish"
  /\ UNCHANGED <<ffmpegVars, pipe, buffer, setVars, unitVars, rx>>

Calling == pc \in {"scan", "finish"}

TakeNal(r) ==
  /\ r.is = "nal"
  /\ buffer' = r.rest
  /\ IF TooManyParameterSets(r.nal)
     THEN Fail /\ UNCHANGED <<setVars, current, current_has_vcl>>
     ELSE /\ accept_nal(r.nal)
          /\ pc' = IF pc = "finish" THEN "flush" ELSE "scan"
          /\ UNCHANGED rx
  /\ UNCHANGED <<ffmpegVars, pipe>>

(* Mutant of TakeEmpty: the empty NAL unit stays in the buffer.            *)
TakeEmptyStuck(r) ==
  /\ r.is = "empty"
  /\ UNCHANGED abVars

(* An empty NAL unit is dropped, and the next one looked for.              *)
TakeEmpty(r) ==
  /\ r.is = "empty"
  /\ buffer' = r.rest
  /\ UNCHANGED <<ffmpegVars, pipe, pc, setVars, unitVars, rx>>

TakeError(r) ==
  /\ r.is = "error"
  /\ Fail
  /\ UNCHANGED <<ffmpegVars, pipe, buffer, setVars, current, current_has_vcl>>

(* push is done: its units are sent.                                       *)
PushReturns(r) ==
  /\ pc = "scan"
  /\ r.is = "none"
  /\ pc' = "read"
  /\ rx' = rx \o Units(out, parameter_sets)
  /\ out' = <<>>
  /\ UNCHANGED <<ffmpegVars, pipe, buffer, setVars, current, current_has_vcl>>

FinishFindsNone(r) ==
  /\ pc = "finish"
  /\ r.is = "none"
  /\ pc' = "flush"
  /\ UNCHANGED <<ffmpegVars, pipe, buffer, setVars, unitVars, rx>>

(* The last unit is flushed, sent with what finish completed before it,    *)
(* and the end reported.                                                   *)
FinishReturns ==
  /\ pc = "flush"
  /\ pc' = "ended"
  /\ rx' = Append(rx \o Units(out \o flush_current, parameter_sets),
                  [is |-> "end"])
  /\ out' = <<>>
  /\ current' = <<>>
  /\ current_has_vcl' = FALSE
  /\ UNCHANGED <<ffmpegVars, pipe, buffer, setVars>>

(* One turn of the loop in push or finish.                                 *)
Take ==
  /\ Calling
  /\ \E r \in {take_next_nal(pc = "finish")} :
       \/ TakeNal(r) \/ TakeEmpty(r) \/ TakeError(r)
       \/ PushReturns(r) \/ FinishFindsNone(r)

Parse == Take \/ FinishReturns

Reads == \/ \E k \in 1..Min({READ, Len(pipe)}) : Read(k)
         \/ ReadEof

Start ==
  /\ codec \in Codecs
  /\ stream \in Streams[codec]
  /\ WellFormed
  /\ pc = "read"
  /\ buffer = <<>>
  /\ parameter_sets = <<>>
  /\ pending_parameter_sets = <<>>
  /\ collecting_sets = FALSE
  /\ current = <<>>
  /\ current_has_vcl = FALSE
  /\ out = <<>>
  /\ rx = <<>>

AnnexBInit == Start /\ pipe \in {Raw, Junk \o Raw}

(* ffmpeg may also die in the middle of a write.  It ends here in a byte   *)
(* that is not zero: zeros could belong to the next start code.            *)
CutInit ==
  /\ Start
  /\ pipe \in {SubSeq(Raw, 1, k) : k \in {l \in DOMAIN Raw : Raw[l] # 0}}

AnnexBNext ==
  \/ Reads \/ ReadFails
  \/ Parse

(* The reader thread runs: a read returns once there is something to read, *)
(* and a call of the parser comes back.                                    *)
Reader == WF_abVars(Reads) /\ WF_abVars(Parse)

AnnexBSpec == AnnexBInit /\ [][AnnexBNext]_abVars /\ Reader

CutSpec == CutInit /\ [][AnnexBNext]_abVars /\ Reader

-----------------------------------------------------------------------------
(* Properties.                                                             *)

(* The units among the messages: only the last message is not one.         *)
Sent == IF rx = <<>> \/ Last(rx).is = "unit" THEN rx ELSE Front(rx)

SentNals == FlattenSeq([i \in DOMAIN Sent |-> Sent[i].au.nals])

Ended == rx # <<>> /\ Last(rx).is = "end"

(* However the stream is cut into reads, a start code cut in two included, *)
(* the units sent are made of the encoder's own NAL units, byte for byte,  *)
(* in order and with none missing or cut elsewhere; once the end is        *)
(* reported nothing of the stream is left behind.                          *)
NalsExact ==
  rx # <<>> => IF Ended THEN SentNals = Nals ELSE IsPrefix(SentNals, Nals)

(* A NAL unit that ffmpeg was cut off in is reported, not forwarded, as    *)
(* codec.rs promises at its top: with the end reported, only whole NAL     *)
(* units were sent (take_next_nal with at_end).                            *)
TruncatedReported == Ended => IsPrefix(SentNals, Nals)

(* The places, in the stream, of the slices of the u-th unit sent.         *)
Slices(sent, u) ==
  LET end == Len(FlattenSeq([v \in 1..u |-> sent[v].au.nals]))
      n == Len(sent[u].au.nals)
  IN  {i \in (end - n + 1)..end : is_vcl(sent[u].au.nals[i - end + n])}

(* A unit is one picture: the slices of a picture travel together, those   *)
(* of two pictures never do, with several slices, with or without AUDs,    *)
(* parameter sets or SEI between them (accept_nal).  Pictures are counted  *)
(* by their first slices.                                                  *)
OnePicture ==
  rx # <<>> =>
    LET sent == Sent
        nals == SentNals
        firsts == {j \in DOMAIN nals :
                     is_vcl(nals[j]) /\ starts_new_picture(nals[j])}
        Pictures(u) == {Cardinality({j \in firsts : j <= i}) :
                          i \in Slices(sent, u)}
    IN  \A u, v \in DOMAIN sent :
          IF u = v THEN Cardinality(Pictures(u)) <= 1
          ELSE Pictures(u) \cap Pictures(v) = {}

(* What the standards call a parameter set: SPS and PPS in H.264, VPS, SPS *)
(* and PPS in HEVC.                                                        *)
IsSet(n) == n.nal_type \in (IF codec = "H264" THEN {7, 8} ELSE {32, 33, 34})

(* The group of parameter sets in force after the i-th NAL unit: the sets  *)
(* directly before the last picture that had any, after its last AUD.  An  *)
(* encoder repeats all of its sets, so a group replaces the one before it. *)
InForce(nals, i) ==
  LET Before(v) == {j \in 1..(v - 1) :
                      /\ IsSet(nals[j])
                      /\ \A k \in j..(v - 1) : ~is_vcl(nals[k])
                                               /\ ~is_aud(nals[k])}
      groups == {v \in 1..i : is_vcl(nals[v]) /\ Before(v) # {}}
      last == Max(groups)
  IN  IF groups = {} THEN <<>>
      ELSE FlattenSeq([j \in 1..(last - 1) |->
                         IF j \in Before(last) THEN nals[j].annexb ELSE <<>>])

(* A step sends its units with the sets in force at the last NAL unit      *)
(* taken: those sent by then and those of the unit under construction.     *)
SentInForce ==
  \A u \in DOMAIN Sent' \ DOMAIN Sent :
    Sent'[u].sets = InForce(Nals, Len(SentNals') + Len(current'))

(* With H.264, the one codec the daemon configures (service.rs:885), the   *)
(* units that a call of the parser completes, however the reads cut the    *)
(* stream, carry exactly the complete group of parameter sets in force at  *)
(* the last NAL unit this call has taken: never a group that is half       *)
(* collected or that an AUD cut off, two groups run together, one that has *)
(* been replaced, or none when there is one (accept_nal and the reader).   *)
SetsInForce == [][codec = "H264" => SentInForce]_abVars

(* payload_for: the sets, unless a keyframe already begins with them, and  *)
(* the unit.                                                               *)
payload_for(m) ==
  IF m.au.keyframe /\ IsPrefix(m.sets, Annexb(m.au.nals))
  THEN Annexb(m.au.nals)
  ELSE m.sets \o Annexb(m.au.nals)

(* With both codecs every packet begins with the parameter sets in force,  *)
(* VPS, SPS and PPS, as codec.rs promises at its top.                      *)
SetsCarried ==
  [][\A u \in DOMAIN Sent' \ DOMAIN Sent :
       IsPrefix(InForce(Nals, Len(SentNals') + Len(current')),
                payload_for(Sent'[u]))]_abVars

(* The sets sent with a picture are the ones in force for it, as the       *)
(* comment on ReaderMessage says.                                          *)
SetsOwn ==
  LET sent == Sent
  IN  \A u \in DOMAIN sent : \A i \in Slices(sent, u) :
        sent[u].sets = InForce(Nals, i)

(* The reader reports the end or an error once ffmpeg has closed its       *)
(* output: no stream keeps take_next_nal busy for ever.                    *)
EndReported == <>(pc = "ended")

=============================================================================
