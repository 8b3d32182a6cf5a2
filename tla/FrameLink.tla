----------------------------- MODULE FrameLink ------------------------------
(***************************************************************************)
(* Frames on their way to one device: send_frame cuts a frame into records *)
(* (udp.rs), the network loses, repeats and reorders the datagrams, and    *)
(* recv_record and the Reassembler (transport/mod.rs) turn what arrives    *)
(* into frames again.                                                      *)
(*                                                                         *)
(* One counter numbers both frames and records: a frame takes a number,    *)
(* then each of its records takes one.  `sent` of ReplayWindow is that     *)
(* counter, so a frame's own number is never on the wire as a record.      *)
(***************************************************************************)
EXTENDS ReplayWindow, Sequences

CONSTANT FragCounts   \* bound: how many records a frame may need

(* The header counts records in sixteen bits, so there is a largest count. *)
ASSUME FragAssumption ==
  /\ FragCounts \subseteq Nat \ {0}
  /\ \E k \in FragCounts : \A j \in FragCounts : j <= k

VARIABLES
  sending,   \* {} or the frame send_frame is at, and its next chunk
  wire,      \* datagrams sent; each may arrive any number of times, or never
  current,   \* Reassembler::current: {} or the partial frame
  out        \* history: the frames handed to the caller, in order

linkVars == <<windowVars, sending, wire, current, out>>

MaxFrags == CHOOSE k \in FragCounts : \A j \in FragCounts : j <= k

(* A record's header.  The payload is identified by frame and index, as    *)
(* the sender cut it.                                                      *)
Record ==
  [seq: Records, frame: Records, index: 0..(MaxFrags - 1), count: FragCounts]

Fragment == [index: 0..(MaxFrags - 1), of: Records]

(* Type invariant: records on the wire and in the Reassembler carry        *)
(* fragment indices below their count.                                     *)
LinkTypeOK ==
  /\ WindowTypeOK
  /\ sending \subseteq
       [frame: Records, index: 0..(MaxFrags - 1), count: FragCounts]
  /\ wire \subseteq Record
  /\ current \subseteq
       [frame: SeqNo, count: FragCounts, got: SUBSET Fragment]
  /\ out \in Seq(SUBSET Fragment)
  /\ \A f \in sending \cup wire : f.index < f.count

LinkInit ==
  /\ WindowInit
  /\ sending = {}
  /\ wire = {}
  /\ current = {}
  /\ out = <<>>

(* send_frame of a payload that needs k records: the frame takes a number. *)
send_frame(k) ==
  /\ sending = {}
  /\ sent + k < MaxSent
  /\ SendRecord
  /\ sending' = {[frame |-> sent, index |-> 0, count |-> k]}
  /\ UNCHANGED <<wire, current, out>>

(* A mutant of SendFragment: one chunk too many.                           *)
SendFragmentPast ==
  \E f \in sending :
    /\ SendRecord
    /\ wire' = wire \cup {[seq |-> sent, frame |-> f.frame,
                           index |-> f.index, count |-> f.count]}
    /\ sending' = IF f.index < f.count
                  THEN {[f EXCEPT !.index = @ + 1]} ELSE {}
    /\ UNCHANGED <<current, out>>

(* The loop over the chunks: each record takes a number and is sent.       *)
SendFragment ==
  \E f \in sending :
    /\ SendRecord
    /\ wire' = wire \cup {[seq |-> sent, frame |-> f.frame,
                           index |-> f.index, count |-> f.count]}
    /\ sending' = IF f.index + 1 < f.count
                  THEN {[f EXCEPT !.index = @ + 1]} ELSE {}
    /\ UNCHANGED <<current, out>>

(* The socket refuses a record: its number is used up and the rest of the  *)
(* frame is not sent.                                                      *)
SendFails ==
  /\ sending # {}
  /\ SendRecord
  /\ sending' = {}
  /\ UNCHANGED <<wire, current, out>>

(* A frame or a record for another device takes a number from the same     *)
(* counter.                                                                *)
SendElsewhere ==
  /\ sending = {}
  /\ SendRecord
  /\ UNCHANGED <<sending, wire, current, out>>

Send ==
  \/ \E k \in FragCounts : send_frame(k)
  \/ SendFragment \/ SendFails \/ SendElsewhere

-----------------------------------------------------------------------------
(* Reassembler::push.                                                      *)

Payload(r) == [index |-> r.index, of |-> r.frame]

(* A mutant of Target: any frame under way takes the fragment.             *)
TargetAny(r) ==
  IF current # {} THEN current
  ELSE {[frame |-> Wire(r.frame), count |-> r.count, got |-> {}]}

(* The partial frame r belongs to: the current one, or a new one that      *)
(* takes its place.                                                        *)
Target(r) ==
  IF \E p \in current : p.frame = Wire(r.frame)
  THEN current
  ELSE {[frame |-> Wire(r.frame), count |-> r.count, got |-> {}]}

(* A frame of one record is handed over at once, and drops any partial     *)
(* frame.                                                                  *)
PushWhole(r) ==
  /\ r.count = 1
  /\ current' = {}
  /\ out' = Append(out, {Payload(r)})

(* Another count than the current frame's, or a slot already filled.       *)
Misfit(p, r) == p.count # r.count \/ \E f \in p.got : f.index = r.index

(* A fragment fills its slot; the last one completes the frame.            *)
PushFragment(r) ==
  /\ r.count > 1
  /\ \E p \in Target(r) :
       LET got == p.got \cup {Payload(r)} IN
       IF Misfit(p, r)
       THEN UNCHANGED <<current, out>>
       ELSE IF Cardinality(got) < p.count
       THEN current' = {[p EXCEPT !.got = got]} /\ out' = out
       ELSE current' = {} /\ out' = Append(out, got)

push(r) == PushWhole(r) \/ PushFragment(r)

(* A mutant of Receive: nobody asks the replay window.                     *)
ReceiveUnwindowed(r) ==
  /\ InLife(r.seq)
  /\ push(r)
  /\ UNCHANGED <<windowVars, sending, wire>>

(* recv_record and push, when the datagram of r is next on the socket.     *)
Receive(r) ==
  /\ InLife(r.seq)
  /\ Accept(r.seq)
  /\ push(r)
  /\ UNCHANGED <<sending, wire>>

(* recv_record returns an error: the window has it already, or it is too   *)
(* old to tell.                                                            *)
Refuse(r) ==
  /\ InLife(r.seq)
  /\ ~check(Wire(r.seq))
  /\ UNCHANGED linkVars

LinkNext ==
  \/ Send
  \/ \E r \in wire : Receive(r) \/ Refuse(r)

LinkSpec == LinkInit /\ [][LinkNext]_linkVars

-----------------------------------------------------------------------------
(* Properties.                                                             *)

FrameOf(r) == {f \in Fragment : f.of = r.frame /\ f.index < r.count}

(* What the Reassembler hands over is a frame as it was sent: all of its   *)
(* fragments and no other frame's, although partial frames are abandoned   *)
(* and started again as datagrams interleave, and frame numbers wrap.      *)
FramesWhole == \A i \in 1..Len(out) : \E r \in wire : out[i] = FrameOf(r)

(* No frame is handed over twice, whatever the network repeats.            *)
FramesOnce == \A i, j \in 1..Len(out) : out[i] = out[j] => i = j

(* What the receiver's loop assumes: access units arrive in stream order.  *)
FramesInOrder ==
  \A i, j \in 1..Len(out) : i < j =>
    \A f \in out[i], g \in out[j] : f.of < g.of

=============================================================================
