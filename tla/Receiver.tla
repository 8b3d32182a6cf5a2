------------------------------ MODULE Receiver ------------------------------
(***************************************************************************)
(* The reference receiver, `emersia-daemon receive` (receiver/mod.rs): the *)
(* loop around recv_record and the Reassembler that runs until it has the  *)
(* frames it was asked for, and how it ends.                               *)
(***************************************************************************)
EXTENDS FrameLink

CONSTANT WANTED   \* --frames

ASSUME WantedAssumption == WANTED \in Nat

VARIABLES
  ended,     \* why the loop is over, "no" while it runs
  last,      \* last_sequence: {} or the wire number of the last record
  max_gap    \* the largest jump reported

receiverVars == <<linkVars, ended, last, max_gap>>

(* Type invariant: the frame number the receiver remembers fits its width, *)
(* and it stops for one of its three reasons.                              *)
ReceiverTypeOK ==
  /\ LinkTypeOK
  /\ ended \in {"no", "frames", "timeout", "error"}
  /\ last \in SUBSET SeqNo
  /\ max_gap \in Nat

ReceiverInit ==
  /\ LinkInit
  /\ ended = "no"
  /\ last = {}
  /\ max_gap = 0

Running == ended = "no" /\ Len(out) < WANTED

(* A mutant of Gap: plain saturating subtraction, blind to the wrap.       *)
GapSaturating(s, prev) == IF s > prev THEN s - prev - 1 ELSE 0

(* wrapping_sub(prev).saturating_sub(1).                                   *)
Gap(s, prev) == Max2(wrapping_sub(s, prev), 1) - 1

ReceiverRecord(r) ==
  /\ Running
  /\ Receive(r)
  /\ last' = {Wire(r.seq)}
  /\ max_gap' = IF last = {} THEN max_gap
                ELSE Max2(max_gap, Gap(Wire(r.seq), CHOOSE p \in last : TRUE))
  /\ UNCHANGED ended

(* recv_record refuses the datagram, and any Err leaves the loop.          *)
ReceiverError(r) ==
  /\ Running
  /\ Refuse(r)
  /\ ended' = "error"
  /\ UNCHANGED <<last, max_gap>>

(* Nothing arrived for the whole --timeout.                                *)
ReceiverTimeout ==
  /\ Running
  /\ ended' = "timeout"
  /\ UNCHANGED <<linkVars, last, max_gap>>

ReceiverDone ==
  /\ ended = "no"
  /\ Len(out) >= WANTED
  /\ ended' = "frames"
  /\ UNCHANGED <<linkVars, last, max_gap>>

Sender ==
  /\ Send
  /\ UNCHANGED <<ended, last, max_gap>>

ReceiverNext ==
  \/ Sender
  \/ \E r \in wire : ReceiverRecord(r) \/ ReceiverError(r)
  \/ ReceiverTimeout
  \/ ReceiverDone

ReceiverSpec == ReceiverInit /\ [][ReceiverNext]_receiverVars

(* The "max gap" of the summary hides no loss: whenever records were       *)
(* skipped between two that arrived, in whatever order these arrived, the  *)
(* reported gap is at least as long as the hole.                           *)
NoHiddenLoss ==
  \A a, b \in Records :
    /\ a < b
    /\ times[a] > 0
    /\ times[b] > 0
    /\ \A n \in (a + 1)..(b - 1) : times[n] = 0
    => b - a - 1 <= max_gap

(* What the loop says when it breaks, "timed out": that it stops early     *)
(* only when nothing arrived, so that a replayed datagram is just dropped. *)
StopMeansTimeout == ended # "error"

=============================================================================
