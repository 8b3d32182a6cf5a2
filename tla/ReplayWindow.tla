---------------------------- MODULE ReplayWindow ----------------------------
(***************************************************************************)
(* The replay window of transport/mod.rs: which records of a session a     *)
(* receiver accepts, given that sequence numbers wrap.                     *)
(*                                                                         *)
(* The sender numbers its records 0, 1, 2, ... and puts the number modulo  *)
(* 2 * HALF on the wire (HALF is 0x8000_0000 in the code, WIDTH is 64).    *)
(* The window sees wire numbers only.  `top` and `times` are history: the  *)
(* real number of the highest record accepted, and how often each record   *)
(* was.  LIFE bounds how far from `top` a datagram can be and still        *)
(* arrive.                                                                 *)
(***************************************************************************)
EXTENDS Integers, FiniteSets

CONSTANTS
  HALF,      \* half of the sequence space
  WIDTH,     \* ReplayWindow::WIDTH, bits of the bitmap
  LIFE,      \* how many records behind or ahead of `top` one can arrive
  MaxSent    \* bound: records sent in a session

ASSUME WindowAssumption ==
  /\ HALF \in Nat \ {0}
  /\ WIDTH \in 1..HALF
  /\ LIFE \in Nat
  /\ MaxSent \in Nat

VARIABLES
  opened,    \* `highest` is Some
  highest,   \* the value in it
  bitmap,    \* the set of bits that are 1
  sent,      \* records the sender has numbered
  top,       \* history: real number of the highest accepted record
  times      \* history: how often each record was accepted

window == <<opened, highest, bitmap>>
windowVars == <<window, sent, top, times>>

SeqNo == 0..(2 * HALF - 1)
Records == 0..(MaxSent - 1)
Wire(n) == n % (2 * HALF)

(* Type invariant: sequence numbers and the bitmap fit their width.        *)
WindowTypeOK ==
  /\ opened \in BOOLEAN
  /\ highest \in SeqNo
  /\ bitmap \in SUBSET (0..(WIDTH - 1))
  /\ sent \in 0..MaxSent
  /\ top \in Nat
  /\ times \in [Records -> Nat]

WindowInit ==
  /\ opened = FALSE
  /\ highest = 0
  /\ bitmap = {}
  /\ sent = 0
  /\ top = 0
  /\ times = [n \in Records |-> 0]

(* u32::wrapping_sub.                                                      *)
wrapping_sub(a, b) == IF a >= b THEN a - b ELSE (a - b) + 2 * HALF

(* Serial-number arithmetic: less than half the space ahead is newer.      *)
Newer(s) ==
  LET forward == wrapping_sub(s, highest) IN forward # 0 /\ forward < HALF

(* A mutant of check: the bitmap is not consulted.                         *)
checkForgetful(s) ==
  \/ ~opened
  \/ Newer(s)
  \/ s # highest /\ wrapping_sub(highest, s) < WIDTH

(* ReplayWindow::check.                                                    *)
check(s) ==
  \/ ~opened
  \/ Newer(s)
  \/ /\ s # highest
     /\ wrapping_sub(highest, s) < WIDTH
     /\ wrapping_sub(highest, s) \notin bitmap

(* A mutant of Shifted: one bit too far.                                   *)
ShiftedFar(shift) ==
  {k \in 0..(WIDTH - 1) : k = 0 \/ k - shift - 1 \in bitmap}

(* bitmap << shift, truncated to the width, with bit 0 set.                *)
Shifted(shift) ==
  IF shift >= WIDTH THEN {0}
  ELSE {k \in 0..(WIDTH - 1) : k = 0 \/ k - shift \in bitmap}

(* ReplayWindow::commit of a number that passes the check.                 *)
commit(s) ==
  /\ check(s)
  /\ opened' = TRUE
  /\ IF ~opened
     THEN highest' = s /\ bitmap' = {0}
     ELSE IF Newer(s)
     THEN highest' = s /\ bitmap' = Shifted(wrapping_sub(s, highest))
     ELSE highest' = highest
            /\ bitmap' = bitmap \cup {wrapping_sub(highest, s)}

-----------------------------------------------------------------------------

Max2(a, b) == IF a >= b THEN a ELSE b

(* A datagram near enough to the newest accepted record to be delivered.   *)
InLife(n) == opened => n - top < LIFE /\ top - n <= LIFE

SendRecord ==
  /\ sent < MaxSent
  /\ sent' = sent + 1
  /\ UNCHANGED <<window, top, times>>

(* open_packet of record n, genuine: check, authenticate, commit.  The     *)
(* network may deliver it any number of times.                             *)
Accept(n) ==
  /\ commit(Wire(n))
  /\ top' = IF opened THEN Max2(top, n) ELSE n
  /\ times' = [times EXCEPT ![n] = @ + 1]
  /\ UNCHANGED sent

(* A record the window rejects leaves everything as it was.                *)
Deliver(n) ==
  /\ n < sent
  /\ InLife(n)
  /\ IF check(Wire(n)) THEN Accept(n) ELSE UNCHANGED windowVars

WindowNext == SendRecord \/ \E n \in Records : Deliver(n)

WindowSpec == WindowInit /\ [][WindowNext]_windowVars

-----------------------------------------------------------------------------
(* Properties.                                                             *)

(* No record is accepted twice in a session, across wraps of the sequence  *)
(* space and shifts of the bitmap.                                         *)
AcceptedOnce == \A n \in Records : times[n] <= 1

(* The window forgets nothing it may not forget and refuses nothing it     *)
(* need not refuse: within WIDTH of the newest record, a bit is set        *)
(* exactly for the records accepted, so a late record is let in if and     *)
(* only if it is the first time.                                           *)
WindowExact ==
  opened =>
    /\ highest = Wire(top)
    /\ \A k \in 0..(WIDTH - 1) :
         k \in bitmap <=> (top - k \in Records /\ times[top - k] > 0)
    /\ \A n \in Records : times[n] > 0 => n <= top

=============================================================================
