--------------------------- MODULE ReceiverProofs ---------------------------
(***************************************************************************)
(* The receiving side, from the replay window up to the receive loop.      *)
(*                                                                         *)
(* The replay window, for any sequence space, any width up to half of it   *)
(* and sessions of any length: as long as no datagram is delivered more    *)
(* than half the sequence space away from the newest accepted one          *)
(* (LIFE <= HALF), wrapping never makes the window accept a record twice.  *)
(*                                                                         *)
(* FrameLink implements ReplayWindow: sending a frame is sending records,  *)
(* and what the Reassembler sees went through the window.  So the theorems *)
(* about the window hold of the link, and the Reassembler hands over whole *)
(* frames, each of them once.                                              *)
(*                                                                         *)
(* The receive loop only adds its own counters to the link, so the link's  *)
(* theorems hold of it; and the largest gap it reports hides no loss,      *)
(* although it is computed from wire numbers, of records in the order in   *)
(* which they happen to arrive.                                            *)
(***************************************************************************)
EXTENDS Receiver, FiniteSetTheorems, TLAPS

-----------------------------------------------------------------------------
(* Arithmetic of wrapped sequence numbers.                                 *)

LEMMA DivMod ==
  ASSUME NEW n \in Nat, NEW m \in Nat \ {0}
  PROVE  /\ n % m \in 0..(m - 1)
         /\ n \div m \in Nat
         /\ n = m * (n \div m) + (n % m)
OBVIOUS

LEMMA Multiples ==
  ASSUME NEW m \in Nat \ {0}, NEW k \in Int
  PROVE  /\ k >= 2 => m * k >= m + m
         /\ k <= -1 => m * k <= -m
OBVIOUS

(* The remainders of two numbers less than m apart differ as the numbers   *)
(* do, or by m less.                                                       *)
LEMMA ModDistance ==
  ASSUME NEW m \in Nat \ {0}, NEW n \in Nat, NEW t \in Nat,
         t <= n, n - t < m
  PROVE  \/ (n % m) - (t % m) = n - t
         \/ (n % m) - (t % m) = (n - t) - m
<1> DEFINE k == n \div m - t \div m
<1>1. k \in Int /\ n % m \in 0..(m - 1) /\ t % m \in 0..(m - 1)
  BY DivMod
<1>2. n - t = m * k + ((n % m) - (t % m))
  <2>1. n = m * (n \div m) + (n % m) /\ t = m * (t \div m) + (t % m)
    BY DivMod
  <2>2. n \div m \in Int /\ t \div m \in Int
    BY DivMod
  <2>3. m * k = m * (n \div m) - m * (t \div m)
    BY <2>2
  <2> QED
    BY <1>1, <2>1, <2>3
<1> HIDE DEF k
<1>3. k >= 2 => m * k >= m + m
  BY <1>1, Multiples
<1>4. k <= -1 => m * k <= -m
  BY <1>1, Multiples
<1>5. m * k \in Int
  BY <1>1
<1>6. k = 0 \/ k = 1
  BY <1>1, <1>2, <1>3, <1>4, <1>5
<1>7. m * 0 = 0 /\ m * 1 = m
  OBVIOUS
<1> QED
  BY <1>1, <1>2, <1>6, <1>7

(* Wire numbers measure the distance of records less than a turn apart:    *)
(* forwards, and backwards as what is left of the turn.                    *)
LEMMA WireDistance ==
  ASSUME NEW n \in Nat, NEW t \in Nat, t <= n, n - t < 2 * HALF
  PROVE  /\ wrapping_sub(Wire(n), Wire(t)) = n - t
         /\ n # t => wrapping_sub(Wire(t), Wire(n)) = 2 * HALF - (n - t)
         /\ n # t => Wire(n) # Wire(t)
<1>1. 2 * HALF \in Nat \ {0}
  BY WindowAssumption
<1>2. Wire(n) \in 0..(2 * HALF - 1) /\ Wire(t) \in 0..(2 * HALF - 1)
  BY <1>1, DivMod DEF Wire
<1>3. \/ Wire(n) - Wire(t) = n - t
      \/ Wire(n) - Wire(t) = (n - t) - 2 * HALF
  BY <1>1, ModDistance DEF Wire
<1> QED
  BY <1>1, <1>2, <1>3 DEF wrapping_sub

LEMMA WireIsSeqNo == ASSUME NEW n \in Nat PROVE Wire(n) \in SeqNo
<1>1. 2 * HALF \in Nat \ {0}
  BY WindowAssumption
<1> QED
  BY <1>1, DivMod DEF Wire, SeqNo

-----------------------------------------------------------------------------
(* The inductive invariant: the bitmap is exact, and nothing was accepted  *)
(* before the window opened.                                               *)

WindowInv ==
  /\ WindowTypeOK
  /\ AcceptedOnce
  /\ WindowExact
  /\ opened => top \in Records
  /\ ~opened => \A n \in Records : times[n] = 0

(* The first record of a session opens the window.                         *)
LEMMA FirstAccept ==
  ASSUME WindowInv, ~opened, NEW n \in Records, Accept(n)
  PROVE  WindowInv'
<1> USE DEF WindowInv
<1>1. n \in Nat /\ MaxSent \in Nat /\ WIDTH \in Nat \ {0}
  BY WindowAssumption DEF Records
<1>2. /\ opened' = TRUE /\ highest' = Wire(n) /\ bitmap' = {0} /\ top' = n
      /\ times' = [times EXCEPT ![n] = @ + 1] /\ sent' = sent
  BY DEF Accept, commit
<1>3. \A r \in Records : times'[r] = IF r = n THEN 1 ELSE 0
  BY <1>2 DEF WindowTypeOK
<1>4. WindowTypeOK'
  BY <1>1, <1>2, WireIsSeqNo DEF WindowTypeOK
<1>5. AcceptedOnce'
  BY <1>3 DEF AcceptedOnce
<1>6. WindowExact'
  BY <1>1, <1>2, <1>3 DEF WindowExact, Records
<1> QED
  BY <1>2, <1>4, <1>5, <1>6

(* A newer record moves the window: the bits follow their records.         *)
LEMMA NewerAccept ==
  ASSUME WindowInv, opened, NEW n \in Records, top < n, n - top < HALF,
         Accept(n)
  PROVE  WindowInv'
<1> USE DEF WindowInv
<1> DEFINE shift == n - top
<1>1. n \in Nat /\ top \in Records /\ top \in Nat /\ MaxSent \in Nat
        /\ HALF \in Nat /\ WIDTH \in Nat \ {0} /\ shift \in Nat \ {0}
  BY WindowAssumption DEF Records
<1>2. highest = Wire(top) /\ wrapping_sub(Wire(n), highest) = shift
  BY <1>1, WireDistance DEF WindowExact
<1>3. Newer(Wire(n))
  BY <1>1, <1>2 DEF Newer
<1>4. /\ opened' = TRUE /\ highest' = Wire(n) /\ bitmap' = Shifted(shift)
      /\ top' = n /\ times' = [times EXCEPT ![n] = @ + 1] /\ sent' = sent
  BY <1>1, <1>2, <1>3 DEF Accept, commit, Max2
<1>5. times[n] = 0
  BY <1>1 DEF WindowExact, WindowTypeOK
<1>6. \A r \in Records : times'[r] = IF r = n THEN 1 ELSE times[r]
  BY <1>4, <1>5 DEF WindowTypeOK
<1>7. WindowTypeOK'
  <2>1. bitmap' \in SUBSET (0..(WIDTH - 1))
    BY <1>1, <1>4 DEF Shifted
  <2> QED
    BY <1>1, <1>4, <2>1, WireIsSeqNo DEF WindowTypeOK
<1>8. AcceptedOnce'
  BY <1>6 DEF AcceptedOnce
<1>9. ASSUME NEW k \in 0..(WIDTH - 1)
      PROVE  k \in bitmap' <=> (n - k \in Records /\ times'[n - k] > 0)
  <2>1. CASE k = 0
    BY <1>1, <1>4, <1>6, <2>1 DEF Shifted
  <2>2. CASE 0 < k /\ k < shift
    <3>1. k \notin bitmap'
      BY <1>1, <1>4, <2>2 DEF Shifted, WindowTypeOK
    <3>2. n - k \in Records => n - k # n /\ ~(times[n - k] > 0)
      BY <1>1, <2>2 DEF WindowExact
    <3> QED
      BY <1>6, <3>1, <3>2
  <2>3. CASE 0 < k /\ shift <= k
    <3>1. shift < WIDTH /\ k - shift \in 0..(WIDTH - 1)
      BY <1>1, <2>3
    <3>2. k \in bitmap' <=> k - shift \in bitmap
      BY <1>1, <1>4, <2>3, <3>1 DEF Shifted
    <3>3. top - (k - shift) = n - k
      BY <1>1
    <3>4. k - shift \in bitmap <=> (n - k \in Records /\ times[n - k] > 0)
      BY <3>1, <3>3 DEF WindowExact
    <3>5. n - k # n
      BY <1>1, <2>3
    <3> QED
      BY <1>6, <3>2, <3>4, <3>5
  <2> QED
    BY <1>1, <2>1, <2>2, <2>3
<1>10. \A r \in Records : times'[r] > 0 => r <= n
  BY <1>1, <1>6 DEF WindowExact, Records
<1>11. WindowExact'
  BY <1>4, <1>9, <1>10 DEF WindowExact
<1> QED
  BY <1>4, <1>7, <1>8, <1>11

(* A record within half the space behind the newest passes the check only  *)
(* if the bitmap has room for it and has not seen it.                      *)
LEMMA LateCheck ==
  ASSUME WindowInv, opened, NEW n \in Records, n <= top, top - n <= HALF
  PROVE  /\ ~Newer(Wire(n))
         /\ wrapping_sub(highest, Wire(n)) = top - n
         /\ check(Wire(n)) => top - n < WIDTH /\ top - n \notin bitmap
<1> USE DEF WindowInv
<1> DEFINE behind == top - n
<1>1. n \in Nat /\ top \in Nat /\ HALF \in Nat \ {0} /\ behind \in Nat
  BY WindowAssumption DEF Records
<1>2. highest = Wire(top) /\ wrapping_sub(highest, Wire(n)) = behind
  BY <1>1, WireDistance DEF WindowExact
<1>3. ~Newer(Wire(n))
  <2>1. CASE n = top
    BY <1>1, <1>2, <2>1 DEF Newer
  <2>2. CASE n # top
    <3>1. wrapping_sub(Wire(n), highest) = 2 * HALF - behind
      BY <1>1, <1>2, <2>2, WireDistance
    <3> QED
      BY <1>1, <3>1 DEF Newer
  <2> QED
    BY <2>1, <2>2
<1> QED
  BY <1>2, <1>3 DEF check

(* A late record that the bitmap has not seen sets its own bit.            *)
LEMMA LateAccept ==
  ASSUME WindowInv, opened, NEW n \in Records, n <= top, top - n <= HALF,
         Accept(n)
  PROVE  WindowInv'
<1> USE DEF WindowInv
<1> DEFINE behind == top - n
<1>1. n \in Nat /\ top \in Records /\ top \in Nat /\ MaxSent \in Nat
        /\ HALF \in Nat \ {0} /\ WIDTH \in Nat \ {0} /\ behind \in Nat
  BY WindowAssumption DEF Records
<1>2. wrapping_sub(highest, Wire(n)) = behind
  BY LateCheck
<1>3. ~Newer(Wire(n))
  BY LateCheck
<1>4. behind < WIDTH /\ behind \notin bitmap
  BY LateCheck DEF Accept, commit
<1>5. /\ opened' = TRUE /\ highest' = highest
      /\ bitmap' = bitmap \cup {behind}
      /\ times' = [times EXCEPT ![n] = @ + 1] /\ sent' = sent
  BY <1>2, <1>3 DEF Accept, commit
<1>6. top' = top
  BY <1>1 DEF Accept, Max2
<1>7. behind \in 0..(WIDTH - 1) /\ top - behind = n
  BY <1>1, <1>4
<1>8. times[n] = 0
  BY <1>4, <1>7 DEF WindowExact, WindowTypeOK
<1>9. \A r \in Records : times'[r] = IF r = n THEN 1 ELSE times[r]
  BY <1>5, <1>8 DEF WindowTypeOK
<1>10. WindowTypeOK'
  <2>1. times' \in [Records -> Nat]
    BY <1>5 DEF WindowTypeOK
  <2>2. bitmap' \in SUBSET (0..(WIDTH - 1))
    BY <1>5, <1>7 DEF WindowTypeOK
  <2> HIDE DEF behind
  <2> QED
    BY <1>5, <1>6, <2>1, <2>2 DEF WindowTypeOK
<1>11. AcceptedOnce'
  BY <1>9 DEF AcceptedOnce
<1>12. ASSUME NEW k \in 0..(WIDTH - 1)
       PROVE  k \in bitmap' <=> (top - k \in Records /\ times'[top - k] > 0)
  <2>1. top - k = n <=> k = behind
    BY <1>1
  <2>2. k \in bitmap <=> (top - k \in Records /\ times[top - k] > 0)
    BY DEF WindowExact
  <2> QED
    BY <1>5, <1>9, <2>1, <2>2
<1>13. \A r \in Records : times'[r] > 0 => r <= top
  BY <1>1, <1>9 DEF WindowExact
<1>14. WindowExact'
  BY <1>5, <1>6, <1>12, <1>13 DEF WindowExact
<1> QED
  BY <1>5, <1>6, <1>10, <1>11, <1>14

LEMMA DeliverInv ==
  ASSUME LIFE <= HALF, WindowInv, NEW n \in Records, Deliver(n)
  PROVE  WindowInv'
<1>1. n \in Nat /\ LIFE \in Nat /\ HALF \in Nat /\ top \in Nat
  BY WindowAssumption DEF Records, WindowInv, WindowTypeOK
<1>2. CASE ~check(Wire(n))
  BY <1>2 DEF Deliver, windowVars, window, WindowInv, WindowTypeOK,
              AcceptedOnce, WindowExact
<1>3. CASE check(Wire(n)) /\ ~opened
  BY <1>3, FirstAccept DEF Deliver
<1>4. CASE check(Wire(n)) /\ opened /\ top < n
  <2>1. n - top < HALF
    BY <1>1, <1>4 DEF Deliver, InLife
  <2> QED
    BY <1>4, <2>1, NewerAccept DEF Deliver
<1>5. CASE check(Wire(n)) /\ opened /\ ~(top < n)
  <2>1. n <= top /\ top - n <= HALF
    BY <1>1, <1>5 DEF Deliver, InLife
  <2> QED
    BY <1>5, <2>1, LateAccept DEF Deliver
<1> QED
  BY <1>2, <1>3, <1>4, <1>5

LEMMA WindowInvInit == WindowInit => WindowInv
<1> SUFFICES ASSUME WindowInit PROVE WindowInv
  OBVIOUS
<1>1. 0 \in SeqNo
  BY WindowAssumption DEF SeqNo
<1>2. 0 \in 0..MaxSent
  BY WindowAssumption
<1>3. WindowTypeOK
  BY <1>1, <1>2 DEF WindowInit, WindowTypeOK
<1> QED
  BY <1>3 DEF WindowInit, WindowInv, AcceptedOnce, WindowExact

LEMMA WindowInvStep ==
  ASSUME LIFE <= HALF, WindowInv, [WindowNext]_windowVars
  PROVE  WindowInv'
<1>1. CASE SendRecord
  BY <1>1, WindowAssumption
     DEF SendRecord, window, WindowInv, WindowTypeOK, AcceptedOnce,
         WindowExact
<1>2. CASE UNCHANGED windowVars
  BY <1>2 DEF windowVars, window, WindowInv, WindowTypeOK, AcceptedOnce,
              WindowExact
<1> QED
  BY <1>1, <1>2, DeliverInv DEF WindowNext

LEMMA WindowInvariance ==
  ASSUME LIFE <= HALF
  PROVE  WindowSpec => []WindowInv
<1>1. WindowInv /\ [WindowNext]_windowVars => WindowInv'
  BY WindowInvStep
<1> QED
  BY <1>1, WindowInvInit, PTL DEF WindowSpec

-----------------------------------------------------------------------------
(* The theorems.                                                           *)

(* No record of a session is accepted twice, for any sequence space, width *)
(* and session length, as long as datagrams live at most half the space.   *)
THEOREM NoReplay ==
  ASSUME LIFE <= HALF
  PROVE  WindowSpec => []AcceptedOnce
<1>1. WindowInv => AcceptedOnce
  BY DEF WindowInv
<1> QED
  BY <1>1, WindowInvariance, PTL

(* Under the same condition the bitmap is exact: commit's shift drops and  *)
(* invents nothing within WIDTH of the newest record.                      *)
THEOREM BitmapExact ==
  ASSUME LIFE <= HALF
  PROVE  WindowSpec => []WindowExact
<1>1. WindowInv => WindowExact
  BY DEF WindowInv
<1> QED
  BY <1>1, WindowInvariance, PTL

-----------------------------------------------------------------------------
(* The link implements the window.                                         *)

(* Only records that were numbered are on the wire.                        *)
OnWire ==
  /\ sent \in 0..MaxSent
  /\ \A r \in wire : r.seq \in Records /\ r.seq < sent

LEMMA OnWireInit == LinkInit => OnWire
BY WindowAssumption DEF LinkInit, WindowInit, OnWire

LEMMA SendOnWire == ASSUME OnWire, Send PROVE OnWire' /\ SendRecord
<1>1. sent \in Nat /\ MaxSent \in Nat
  BY WindowAssumption DEF OnWire
<1>2. SendRecord
  BY DEF Send, send_frame, SendFragment, SendFails, SendElsewhere
<1>3. sent' \in 0..MaxSent /\ sent' = sent + 1 /\ sent \in Records
  BY <1>1, <1>2 DEF SendRecord, Records
<1>4. CASE UNCHANGED wire
  BY <1>1, <1>2, <1>3, <1>4 DEF OnWire, Records
<1>5. CASE SendFragment
  <2>1. PICK f \in sending :
          wire' = wire \cup {[seq |-> sent, frame |-> f.frame,
                              index |-> f.index, count |-> f.count]}
    BY <1>5 DEF SendFragment
  <2> QED
    BY <1>1, <1>2, <1>3, <2>1 DEF OnWire, Records
<1> QED
  BY <1>4, <1>5 DEF Send, send_frame, SendFails, SendElsewhere

LEMMA ReceiveDelivers ==
  ASSUME OnWire, NEW r \in wire, Receive(r)
  PROVE  OnWire' /\ r.seq \in Records /\ Deliver(r.seq)
<1>1. UNCHANGED <<sent, wire>>
  BY DEF Receive, Accept
<1>2. check(Wire(r.seq))
  BY DEF Receive, Accept, commit
<1>3. Deliver(r.seq)
  BY <1>2 DEF Receive, Deliver, OnWire
<1> QED
  BY <1>1, <1>3 DEF OnWire

LEMMA LinkStep ==
  ASSUME OnWire, [LinkNext]_linkVars
  PROVE  OnWire' /\ [WindowNext]_windowVars
<1>1. CASE Send
  BY <1>1, SendOnWire DEF WindowNext
<1>2. CASE \E r \in wire : Receive(r)
  BY <1>2, ReceiveDelivers DEF WindowNext
<1>3. CASE UNCHANGED linkVars
  BY <1>3 DEF linkVars, windowVars, window, OnWire
<1>4. CASE \E r \in wire : Refuse(r)
  BY <1>3, <1>4 DEF Refuse
<1> QED
  BY <1>1, <1>2, <1>3, <1>4 DEF LinkNext

-----------------------------------------------------------------------------
(* The theorems.                                                           *)

(* Whatever send_frame, the network and the Reassembler do, the window     *)
(* behaves as ReplayWindow says.                                           *)
THEOREM LinkImplementsWindow == LinkSpec => WindowSpec
<1>1. LinkInit => WindowInit
  BY DEF LinkInit
<1> QED
  BY <1>1, OnWireInit, LinkStep, PTL DEF LinkSpec, WindowSpec

(* No record reaches the Reassembler twice, for any sequence space, width, *)
(* sizes of frames and length of a session, as long as datagrams live at   *)
(* most half the space.                                                    *)
THEOREM LinkNeverReplays ==
  ASSUME LIFE <= HALF
  PROVE  LinkSpec => []AcceptedOnce
BY LinkImplementsWindow, NoReplay, PTL

(* And the bitmap stays exact under the same condition: no first delivery  *)
(* within WIDTH of the newest record is refused.                           *)
THEOREM LinkBitmapExact ==
  ASSUME LIFE <= HALF
  PROVE  LinkSpec => []WindowExact
BY LinkImplementsWindow, BitmapExact, PTL

-----------------------------------------------------------------------------
(* The Reassembler.                                                        *)

(* Frame numbers wrap too: the partial frame knows its frame by the wire   *)
(* number alone.  No other frame with that number is about as long as the  *)
(* space is wide enough for the life of a datagram, the window and the     *)
(* longest frame together.                                                 *)
RoomForFrames ==
  /\ LIFE <= HALF
  /\ LIFE + WIDTH + MaxFrags < 2 * HALF + 3

(* The records of a frame are numbered one after another, and all tell the *)
(* same count.                                                             *)
WireInv ==
  /\ \A f \in sending :
       /\ f \in [frame: Records, index: Nat, count: FragCounts]
       /\ f.index < f.count
       /\ sent = f.frame + 1 + f.index
       /\ \A r \in wire : r.frame = f.frame => r.count = f.count
  /\ \A r \in wire :
       /\ r \in [seq: Records, frame: Records, index: Nat, count: FragCounts]
       /\ r.index < r.count
       /\ r.seq = r.frame + 1 + r.index
       /\ r.seq < sent
  /\ \A q, r \in wire : q.frame = r.frame => q.count = r.count

(* The record a fragment came in, and that it was accepted.                *)
SeqOf(g) == g.of + 1 + g.index
Seen(g) == SeqOf(g) \in Records /\ times[SeqOf(g)] > 0

(* p holds fragments of w's frame only, each from an accepted record, and  *)
(* the frame is still near the window.                                     *)
PartOf(p, w) ==
  /\ p.frame = Wire(w.frame)
  /\ p.count = w.count
  /\ w.frame < top
  /\ top < w.frame + w.count + WIDTH
  /\ p.got \subseteq FrameOf(w)
  /\ \A g \in p.got : Seen(g)

CurrentInv ==
  /\ \A p, q \in current : p = q
  /\ current # {} => opened
  /\ \A p \in current : \E w \in wire : PartOf(p, w)

OutInv == \A i \in 1..Len(out) : \A g \in out[i] : Seen(g)

LinkInv ==
  /\ WindowInv
  /\ LinkTypeOK
  /\ WireInv
  /\ CurrentInv
  /\ OutInv
  /\ FramesWhole
  /\ FramesOnce

LEMMA MaxFragsIs ==
  /\ MaxFrags \in FragCounts
  /\ MaxFrags \in Nat \ {0}
  /\ \A j \in FragCounts : j \in Nat \ {0} /\ j <= MaxFrags
<1>1. MaxFrags \in FragCounts /\ \A j \in FragCounts : j <= MaxFrags
  BY FragAssumption DEF MaxFrags
<1> QED
  BY <1>1, FragAssumption

(* A frame has as many fragments as its records say.                       *)
LEMMA FrameSize ==
  ASSUME NEW r, r.frame \in Records, r.count \in FragCounts
  PROVE  IsFiniteSet(FrameOf(r)) /\ Cardinality(FrameOf(r)) = r.count
<1> DEFINE S == 0..(r.count - 1)
           f == [i \in S |-> [index |-> i, of |-> r.frame]]
<1>1. r.count \in Nat \ {0} /\ r.count <= MaxFrags /\ MaxFrags \in Nat
  BY MaxFragsIs
<1>2. \A i \in S : f[i] \in FrameOf(r)
  BY <1>1 DEF FrameOf, Fragment
<1>3. \A g \in FrameOf(r) : g.index \in S /\ f[g.index] = g
  BY <1>1 DEF FrameOf, Fragment
<1>4. \A i, j \in S : f[i] = f[j] => i = j
  OBVIOUS
<1>5. f \in [S -> FrameOf(r)]
  BY <1>2
<1>6. \A g \in FrameOf(r) : \E i \in S : f[i] = g
  BY <1>3
<1> HIDE DEF f
<1>7. f \in Bijection(S, FrameOf(r))
  BY <1>4, <1>5, <1>6 DEF Bijection, Injection, Surjection, IsInjective
<1>8. IsFiniteSet(S) /\ Cardinality(S) = r.count
  <2>1. 0 \in Int /\ r.count - 1 \in Int /\ ~(0 > r.count - 1)
          /\ (r.count - 1) - 0 + 1 = r.count
    BY <1>1
  <2> QED
    BY <2>1, FS_Interval
<1> QED
  BY <1>7, <1>8, FS_Bijection DEF ExistsBijection

(* What the window says of a record it accepts: it is the first time, and  *)
(* the record is near the newest one, before and after.                    *)
LEMMA AcceptedIsNear ==
  ASSUME LIFE <= HALF, WindowInv, NEW n \in Records, n < sent, InLife(n),
         Accept(n)
  PROVE  /\ WindowInv'
         /\ opened'
         /\ times[n] = 0
         /\ times' = [times EXCEPT ![n] = 1]
         /\ n <= top' /\ top' < n + WIDTH
         /\ opened => 0 < LIFE /\ n < top + LIFE /\ top < n + WIDTH
<1>1. n \in Nat /\ top \in Nat /\ HALF \in Nat /\ LIFE \in Nat
        /\ WIDTH \in Nat \ {0} /\ times \in [Records -> Nat]
  BY WindowAssumption DEF Records, WindowInv, WindowTypeOK
<1>2. check(Wire(n)) /\ opened' /\ times' = [times EXCEPT ![n] = @ + 1]
  BY DEF Accept, commit
<1>3. Deliver(n)
  BY <1>2 DEF Deliver
<1>4. WindowInv'
  BY <1>3, DeliverInv
<1>5. times'[n] = times[n] + 1 /\ times'[n] <= 1
  BY <1>1, <1>2, <1>4 DEF WindowInv, AcceptedOnce
<1>6. times[n] = 0
  BY <1>1, <1>5
<1>7. opened => 0 < LIFE /\ n < top + LIFE /\ top < n + WIDTH
  <2> SUFFICES ASSUME opened
               PROVE  0 < LIFE /\ n < top + LIFE /\ top < n + WIDTH
    OBVIOUS
  <2>1. n - top < LIFE /\ top - n <= LIFE
    BY DEF InLife
  <2>2. CASE top < n
    BY <1>1, <2>1, <2>2
  <2>3. CASE n <= top
    <3>1. top - n < WIDTH
      BY <1>1, <1>2, <2>1, <2>3, LateCheck
    <3> QED
      BY <1>1, <2>1, <3>1
  <2> QED
    BY <1>1, <2>2, <2>3
<1>8. n <= top' /\ top' < n + WIDTH
  BY <1>1, <1>7 DEF Accept, Max2
<1> QED
  BY <1>1, <1>2, <1>4, <1>5, <1>6, <1>7, <1>8

(* Fragments that were seen stay seen.                                     *)
LEMMA StillSeen ==
  ASSUME times \in [Records -> Nat], NEW n \in Records,
         times' = [times EXCEPT ![n] = 1], NEW g, Seen(g)
  PROVE  Seen(g)'
BY DEF Seen, SeqOf

(* Accepted by the window, r can only belong to the partial frame that has *)
(* its wire number if it belongs to the same frame.                        *)
LEMMA SameFrame ==
  ASSUME RoomForFrames, LinkInv, opened, NEW p, NEW w \in wire, NEW r \in wire,
         PartOf(p, w), 0 < LIFE, r.seq < top + LIFE, top < r.seq + WIDTH,
         p.frame = Wire(r.frame)
  PROVE  w.frame = r.frame /\ p.count = r.count
<1>1. /\ w.frame \in Nat /\ r.frame \in Nat /\ r.seq \in Nat /\ r.index \in Nat
      /\ r.count \in FragCounts /\ w.count \in FragCounts
      /\ r.index < r.count /\ r.seq = r.frame + 1 + r.index
  BY WindowAssumption DEF LinkInv, WireInv, Records
<1>2. /\ r.count \in Nat /\ r.count <= MaxFrags
      /\ w.count \in Nat /\ w.count <= MaxFrags /\ MaxFrags \in Nat
  BY <1>1, MaxFragsIs
<1>3. top \in Nat /\ HALF \in Nat /\ LIFE \in Nat /\ WIDTH \in Nat
  BY WindowAssumption DEF LinkInv, WindowInv, WindowTypeOK
<1>4. w.frame < top /\ top < w.frame + w.count + WIDTH
  BY DEF PartOf
<1>5. Wire(w.frame) = Wire(r.frame)
  BY DEF PartOf
<1>6. LIFE + WIDTH + MaxFrags < 2 * HALF + 3
  BY DEF RoomForFrames
<1>7. r.frame - w.frame < 2 * HALF
  BY <1>1, <1>2, <1>3, <1>4, <1>6
<1>8. w.frame - r.frame < 2 * HALF
  BY <1>1, <1>2, <1>3, <1>4, <1>6
<1>9. w.frame = r.frame
  BY <1>1, <1>5, <1>7, <1>8, <1>3, WireDistance
<1> QED
  BY <1>9 DEF LinkInv, WireInv, PartOf

-----------------------------------------------------------------------------
(* The sender's steps.  The window, the Reassembler and what it handed     *)
(* over are as before; only the wire and the frame being sent change.      *)

LEMMA WireOnWire == LinkInv => OnWire
BY DEF LinkInv, WindowInv, WindowTypeOK, WireInv, OnWire

(* More on the wire takes nothing from what was said of it.                *)
LEMMA SenderKeeps ==
  ASSUME LinkInv, SendRecord, wire \subseteq wire', UNCHANGED <<current, out>>
  PROVE  CurrentInv' /\ OutInv' /\ FramesWhole' /\ FramesOnce'
<1>1. UNCHANGED <<opened, top, times>>
  BY DEF SendRecord, window
<1>2. CurrentInv'
  BY <1>1 DEF LinkInv, CurrentInv, PartOf, Seen
<1>3. OutInv'
  BY <1>1 DEF LinkInv, OutInv, Seen
<1>4. FramesWhole' /\ FramesOnce'
  BY DEF LinkInv, FramesWhole, FramesOnce
<1> QED
  BY <1>2, <1>3, <1>4

(* The type of the sender's state follows from its numbering.              *)
LEMMA SenderTypes ==
  ASSUME WindowTypeOK', WireInv',
         current' \subseteq
           [frame: SeqNo, count: FragCounts, got: SUBSET Fragment],
         out' \in Seq(SUBSET Fragment)
  PROVE  LinkTypeOK'
<1>1. \A f \in sending' \cup wire' :
        f.index \in Nat /\ f.count \in FragCounts /\ f.index < f.count
  BY DEF WireInv
<1>2. \A f \in sending' \cup wire' : f.index \in 0..(MaxFrags - 1)
  <2> SUFFICES ASSUME NEW f \in sending' \cup wire'
               PROVE  f.index \in 0..(MaxFrags - 1)
    OBVIOUS
  <2>1. f.index \in Nat /\ f.count \in FragCounts /\ f.index < f.count
    BY <1>1
  <2>2. f.count \in Nat /\ f.count <= MaxFrags /\ MaxFrags \in Nat
    BY <2>1, MaxFragsIs
  <2> QED
    BY <2>1, <2>2
<1>3. sending' \subseteq
        [frame: Records, index: 0..(MaxFrags - 1), count: FragCounts]
  BY <1>2 DEF WireInv
<1>4. wire' \subseteq Record
  BY <1>2 DEF WireInv, Record
<1> QED
  BY <1>1, <1>3, <1>4 DEF LinkTypeOK

LEMMA SendWire ==
  ASSUME LinkInv, Send
  PROVE  WireInv' /\ wire \subseteq wire'
<1>1. SendRecord
  BY WireOnWire, SendOnWire
<1>2. sent \in Nat /\ sent \in Records /\ sent' = sent + 1 /\ MaxSent \in Nat
  BY <1>1, WindowAssumption
     DEF SendRecord, LinkInv, WindowInv, WindowTypeOK, Records
<1>3. \A r \in wire : /\ r.frame \in Nat /\ r.seq \in Nat /\ r.index \in Nat
                      /\ r.frame < sent /\ r.seq < sent'
  BY <1>2 DEF LinkInv, WireInv, Records
<1>4. CASE \E k \in FragCounts : send_frame(k)
  <2>1. PICK k \in FragCounts : send_frame(k)
    BY <1>4
  <2>2. k \in Nat /\ 0 < k
    BY MaxFragsIs
  <2>3. UNCHANGED wire
          /\ sending' = {[frame |-> sent, index |-> 0, count |-> k]}
    BY <2>1 DEF send_frame
  <2> QED
    BY <1>2, <1>3, <2>2, <2>3 DEF LinkInv, WireInv
<1>5. CASE SendFragment
  <2>1. PICK f \in sending :
          /\ wire' = wire \cup {[seq |-> sent, frame |-> f.frame,
                                 index |-> f.index, count |-> f.count]}
          /\ sending' = IF f.index + 1 < f.count
                        THEN {[f EXCEPT !.index = @ + 1]} ELSE {}
    BY <1>5 DEF SendFragment
  <2>2. /\ f \in [frame: Records, index: Nat, count: FragCounts]
        /\ f.index < f.count
        /\ sent = f.frame + 1 + f.index
        /\ \A r \in wire : r.frame = f.frame => r.count = f.count
    BY DEF LinkInv, WireInv
  <2> DEFINE new == [seq |-> sent, frame |-> f.frame,
                     index |-> f.index, count |-> f.count]
  <2>3. /\ new \in [seq: Records, frame: Records, index: Nat,
                    count: FragCounts]
        /\ new.seq = sent /\ new.frame = f.frame /\ new.index = f.index
        /\ new.count = f.count
    BY <1>2, <2>2
  <2>4. wire' = wire \cup {new}
    BY <2>1
  <2> HIDE DEF new
  <2>5. \A r \in wire' :
          /\ r \in [seq: Records, frame: Records, index: Nat,
                    count: FragCounts]
          /\ r.index < r.count
          /\ r.seq = r.frame + 1 + r.index
          /\ r.seq < sent'
    <3>1. \A r \in wire :
            /\ r \in [seq: Records, frame: Records, index: Nat,
                      count: FragCounts]
            /\ r.index < r.count
            /\ r.seq = r.frame + 1 + r.index
      BY DEF LinkInv, WireInv
    <3> QED
      BY <1>2, <1>3, <2>2, <2>3, <2>4, <3>1
  <2>6. \A q, r \in wire' : q.frame = r.frame => q.count = r.count
    BY <2>2, <2>3, <2>4 DEF LinkInv, WireInv
  <2>7. \A r \in wire' : r.frame = f.frame => r.count = f.count
    BY <2>2, <2>3, <2>4
  <2>8. ASSUME NEW g \in sending'
        PROVE  /\ g \in [frame: Records, index: Nat, count: FragCounts]
               /\ g.index < g.count
               /\ sent' = g.frame + 1 + g.index
               /\ \A r \in wire' : r.frame = g.frame => r.count = g.count
    <3>1. f.index + 1 < f.count /\ g = [f EXCEPT !.index = @ + 1]
      BY <2>1, <2>8
    <3>2. /\ g \in [frame: Records, index: Nat, count: FragCounts]
          /\ g.frame = f.frame /\ g.count = f.count
          /\ g.index = f.index + 1
      BY <2>2, <3>1
    <3>3. f.frame \in Nat /\ f.index \in Nat
      BY <2>2 DEF Records
    <3> QED
      BY <1>2, <2>2, <2>7, <3>1, <3>2, <3>3
  <2> QED
    BY <2>4, <2>5, <2>6, <2>8 DEF WireInv
<1>6. CASE SendFails \/ SendElsewhere
  <2>1. sending' = {} /\ UNCHANGED wire
    BY <1>6 DEF SendFails, SendElsewhere
  <2> QED
    BY <1>3, <2>1 DEF LinkInv, WireInv
<1> QED
  BY <1>4, <1>5, <1>6 DEF Send

LEMMA SendLink ==
  ASSUME RoomForFrames, LinkInv, Send
  PROVE  LinkInv'
<1>1. SendRecord
  BY WireOnWire, SendOnWire
<1>2. UNCHANGED <<current, out>>
  BY DEF Send, send_frame, SendFragment, SendFails, SendElsewhere
<1>3. WindowInv'
  BY <1>1, WindowInvStep DEF LinkInv, RoomForFrames, WindowNext
<1>4. WireInv' /\ wire \subseteq wire'
  BY SendWire
<1>5. LinkTypeOK'
  <2>1. /\ current' \subseteq
             [frame: SeqNo, count: FragCounts, got: SUBSET Fragment]
        /\ out' \in Seq(SUBSET Fragment)
    BY <1>2 DEF LinkInv, LinkTypeOK
  <2>2. WindowTypeOK'
    BY <1>3 DEF WindowInv
  <2> QED
    BY <1>4, <2>1, <2>2, SenderTypes
<1> QED
  BY <1>1, <1>2, <1>3, <1>4, <1>5, SenderKeeps DEF LinkInv

-----------------------------------------------------------------------------
(* The receiver's steps.                                                   *)

LEMMA PayloadOfFrame ==
  ASSUME LinkInv, NEW r \in wire
  PROVE  Payload(r) \in FrameOf(r) /\ SeqOf(Payload(r)) = r.seq
<1>1. r \in Record /\ r.index < r.count /\ r.seq = r.frame + 1 + r.index
  BY DEF LinkInv, LinkTypeOK, WireInv
<1> QED
  BY <1>1 DEF Record, Payload, FrameOf, Fragment, SeqOf

(* Handing over the whole frame of a record seen for the first time.  No   *)
(* earlier output can be that frame: it would hold this record's payload.  *)
LEMMA HandOver ==
  ASSUME LinkInv, NEW r \in wire, times[r.seq] = 0,
         times' = [times EXCEPT ![r.seq] = 1], UNCHANGED wire,
         out' = Append(out, FrameOf(r)), \A g \in FrameOf(r) : Seen(g)'
  PROVE  /\ out' \in Seq(SUBSET Fragment)
         /\ OutInv' /\ FramesWhole' /\ FramesOnce'
<1>1. out \in Seq(SUBSET Fragment) /\ FrameOf(r) \in SUBSET Fragment
  BY DEF LinkInv, LinkTypeOK, FrameOf
<1>2. /\ out' \in Seq(SUBSET Fragment)
      /\ Len(out') = Len(out) + 1 /\ Len(out) \in Nat
      /\ \A i \in 1..Len(out) : out'[i] = out[i]
      /\ out'[Len(out) + 1] = FrameOf(r)
  BY <1>1
<1>3. times \in [Records -> Nat] /\ r.seq \in Records
  BY DEF LinkInv, WindowInv, WindowTypeOK, WireInv
<1>4. \A i \in 1..Len(out) : \A g \in out[i] : Seen(g) /\ Seen(g)'
  BY <1>3, StillSeen DEF LinkInv, OutInv
<1>5. OutInv'
  BY <1>2, <1>4 DEF OutInv
<1>6. FramesWhole'
  <2>1. \A i \in 1..Len(out) : \E q \in wire : out[i] = FrameOf(q)
    BY DEF LinkInv, FramesWhole
  <2>2. \A i \in 1..Len(out') : i \in 1..Len(out) \/ i = Len(out) + 1
    BY <1>2
  <2> QED
    BY <1>2, <2>1, <2>2 DEF FramesWhole
<1>7. \A i \in 1..Len(out) : out[i] # FrameOf(r)
  <2> SUFFICES ASSUME NEW i \in 1..Len(out), out[i] = FrameOf(r) PROVE FALSE
    OBVIOUS
  <2>1. Seen(Payload(r)) /\ SeqOf(Payload(r)) = r.seq
    BY <1>4, PayloadOfFrame
  <2> QED
    BY <2>1 DEF Seen
<1>8. FramesOnce'
  <2>1. \A i, j \in 1..Len(out) : out[i] = out[j] => i = j
    BY DEF LinkInv, FramesOnce
  <2>2. \A i \in 1..Len(out') : i \in 1..Len(out) \/ i = Len(out) + 1
    BY <1>2
  <2> QED
    BY <1>2, <1>7, <2>1, <2>2 DEF FramesOnce
<1> QED
  BY <1>2, <1>5, <1>6, <1>8

(* The partial frame that Target picks is one of r's own frame, and r's    *)
(* slot in it is free.                                                     *)
LEMMA TargetFits ==
  ASSUME RoomForFrames, LinkInv, NEW r \in wire, NEW p \in Target(r),
         times[r.seq] = 0,
         opened => 0 < LIFE /\ r.seq < top + LIFE /\ top < r.seq + WIDTH
  PROVE  /\ p \in [frame: SeqNo, count: FragCounts, got: SUBSET Fragment]
         /\ p.frame = Wire(r.frame) /\ p.count = r.count
         /\ p.got \subseteq FrameOf(r)
         /\ \A g \in p.got : Seen(g)
         /\ ~Misfit(p, r)
<1>1. r.frame \in Nat /\ r.count \in FragCounts
  BY DEF LinkInv, WireInv, Records
<1>2. /\ p \in [frame: SeqNo, count: FragCounts, got: SUBSET Fragment]
      /\ p.frame = Wire(r.frame) /\ p.count = r.count
      /\ p.got \subseteq FrameOf(r)
      /\ \A g \in p.got : Seen(g)
  <2>1. CASE \E q \in current : q.frame = Wire(r.frame)
    <3>1. p \in current /\ p.frame = Wire(r.frame)
      BY <2>1 DEF Target, LinkInv, CurrentInv
    <3>2. opened
      BY <3>1 DEF LinkInv, CurrentInv
    <3>3. PICK w \in wire : PartOf(p, w)
      BY <3>1 DEF LinkInv, CurrentInv
    <3>4. w.frame = r.frame /\ p.count = r.count
      BY <3>1, <3>2, <3>3, SameFrame
    <3>5. p.count = w.count /\ p.got \subseteq FrameOf(w)
            /\ \A g \in p.got : Seen(g)
      BY <3>3 DEF PartOf
    <3>6. FrameOf(w) = FrameOf(r)
      BY <3>4, <3>5 DEF FrameOf
    <3> QED
      BY <3>1, <3>4, <3>5, <3>6 DEF LinkInv, LinkTypeOK
  <2>2. CASE ~\E q \in current : q.frame = Wire(r.frame)
    <3>1. p = [frame |-> Wire(r.frame), count |-> r.count, got |-> {}]
      BY <2>2 DEF Target
    <3> QED
      BY <1>1, <3>1, WireIsSeqNo
  <2> QED
    BY <2>1, <2>2
<1>3. ASSUME NEW f \in p.got, f.index = r.index
      PROVE  FALSE
  <2>1. f.of = r.frame /\ Seen(f)
    BY <1>2 DEF FrameOf
  <2>2. SeqOf(f) = r.seq
    BY <1>3, <2>1 DEF SeqOf, LinkInv, WireInv
  <2> QED
    BY <2>1, <2>2 DEF Seen
<1> QED
  BY <1>2, <1>3 DEF Misfit

LEMMA ReceiveLink ==
  ASSUME RoomForFrames, LinkInv, NEW r \in wire, Receive(r)
  PROVE  LinkInv'
<1>1. /\ r \in [seq: Records, frame: Records, index: Nat, count: FragCounts]
      /\ r.index < r.count /\ r.seq = r.frame + 1 + r.index /\ r.seq < sent
  BY DEF LinkInv, WireInv
<1>2. /\ WindowInv' /\ opened' /\ times[r.seq] = 0
      /\ times' = [times EXCEPT ![r.seq] = 1]
      /\ r.seq <= top' /\ top' < r.seq + WIDTH
      /\ opened => 0 < LIFE /\ r.seq < top + LIFE /\ top < r.seq + WIDTH
  BY <1>1, AcceptedIsNear DEF Receive, LinkInv, RoomForFrames
<1>3. UNCHANGED <<sending, wire, sent>>
  BY DEF Receive, Accept
<1>4. WireInv'
  BY <1>3 DEF LinkInv, WireInv
<1>5. WindowTypeOK' /\ times \in [Records -> Nat]
  BY <1>2 DEF LinkInv, WindowInv, WindowTypeOK
<1>6. Seen(Payload(r))' /\ Payload(r) \in FrameOf(r)
  BY <1>1, <1>2, <1>5, PayloadOfFrame DEF Seen, SeqOf
<1>7. CASE PushWhole(r)
  <2>1. r.count = 1 /\ current' = {} /\ out' = Append(out, {Payload(r)})
    BY <1>7 DEF PushWhole
  <2>2. \A g \in FrameOf(r) : g = Payload(r)
    <3> SUFFICES ASSUME NEW g \in FrameOf(r) PROVE g = Payload(r)
      OBVIOUS
    <3>1. g \in Fragment /\ g.of = r.frame /\ g.index < 1
      BY <2>1 DEF FrameOf
    <3>2. g.index = 0 /\ r.index = 0
      BY <1>1, <2>1, <3>1, MaxFragsIs DEF Fragment
    <3> QED
      BY <3>1, <3>2 DEF Fragment, Payload
  <2>3. FrameOf(r) = {Payload(r)}
    BY <1>6, <2>2
  <2>4. /\ out' \in Seq(SUBSET Fragment)
        /\ OutInv' /\ FramesWhole' /\ FramesOnce'
    BY <1>2, <1>3, <1>6, <2>1, <2>3, HandOver
  <2>5. LinkTypeOK' /\ CurrentInv'
    BY <1>4, <1>5, <2>1, <2>4, SenderTypes DEF CurrentInv
  <2> QED
    BY <1>2, <1>4, <2>4, <2>5 DEF LinkInv
<1>8. CASE PushFragment(r)
  <2>1. PICK p \in Target(r) :
          IF Misfit(p, r)
          THEN UNCHANGED <<current, out>>
          ELSE IF Cardinality(p.got \cup {Payload(r)}) < p.count
          THEN /\ current' = {[p EXCEPT !.got = p.got \cup {Payload(r)}]}
               /\ out' = out
          ELSE /\ current' = {}
               /\ out' = Append(out, p.got \cup {Payload(r)})
    BY <1>8 DEF PushFragment
  <2> DEFINE got == p.got \cup {Payload(r)}
  <2>2. /\ p \in [frame: SeqNo, count: FragCounts, got: SUBSET Fragment]
        /\ p.frame = Wire(r.frame) /\ p.count = r.count
        /\ p.got \subseteq FrameOf(r)
        /\ \A g \in p.got : Seen(g)
        /\ ~Misfit(p, r)
    BY <1>2, TargetFits
  <2>3. got \subseteq FrameOf(r)
    BY <1>6, <2>2
  <2>4. \A g \in got : Seen(g)'
    BY <1>1, <1>2, <1>5, <1>6, <2>2, StillSeen
  <2>5. CASE Cardinality(got) < p.count
    <3> DEFINE q == [p EXCEPT !.got = got]
    <3>1. current' = {q} /\ out' = out
      BY <2>1, <2>2, <2>5
    <3>2. /\ q \in [frame: SeqNo, count: FragCounts, got: SUBSET Fragment]
          /\ q.frame = Wire(r.frame) /\ q.count = r.count /\ q.got = got
      BY <2>2, <2>3 DEF FrameOf
    <3> HIDE DEF q, got
    <3>3. r.frame < top' /\ top' < r.frame + r.count + WIDTH
      <4>1. r.frame \in Nat /\ r.index \in Nat /\ WIDTH \in Nat
        BY <1>1, WindowAssumption DEF Records
      <4>2. r.count \in Nat
        BY <1>1, MaxFragsIs
      <4>3. top' \in Nat
        BY <1>5 DEF WindowTypeOK
      <4> QED
        BY <1>1, <1>2, <4>1, <4>2, <4>3
    <3>4. PartOf(q, r)'
      BY <1>3, <2>3, <2>4, <3>2, <3>3 DEF PartOf
    <3>5. CurrentInv'
      BY <1>2, <1>3, <3>1, <3>4 DEF CurrentInv
    <3>6. OutInv'
      BY <1>1, <1>2, <1>5, <3>1, StillSeen DEF LinkInv, OutInv
    <3>7. FramesWhole' /\ FramesOnce'
      BY <1>3, <3>1 DEF LinkInv, FramesWhole, FramesOnce
    <3>8. LinkTypeOK'
      <4>1. out' \in Seq(SUBSET Fragment)
        BY <3>1 DEF LinkInv, LinkTypeOK
      <4>2. current' \subseteq
              [frame: SeqNo, count: FragCounts, got: SUBSET Fragment]
        BY <3>1, <3>2
      <4> QED
        BY <1>4, <1>5, <4>1, <4>2, SenderTypes
    <3> QED
      BY <1>2, <1>4, <3>5, <3>6, <3>7, <3>8 DEF LinkInv
  <2>6. CASE ~(Cardinality(got) < p.count)
    <3>1. current' = {} /\ out' = Append(out, got)
      BY <2>1, <2>2, <2>6
    <3>2. IsFiniteSet(FrameOf(r)) /\ Cardinality(FrameOf(r)) = r.count
      BY <1>1, FrameSize
    <3>3. got \in SUBSET FrameOf(r)
      BY <2>3
    <3> HIDE DEF got
    <3>4. /\ IsFiniteSet(got) /\ Cardinality(got) <= Cardinality(FrameOf(r))
          /\ Cardinality(FrameOf(r)) = Cardinality(got) => FrameOf(r) = got
      BY <3>2, <3>3, FS_Subset
    <3>5. Cardinality(got) \in Nat /\ r.count \in Nat
      BY <1>1, <3>4, FS_CardinalityType, MaxFragsIs
    <3>6. got = FrameOf(r)
      BY <2>2, <2>6, <3>2, <3>4, <3>5
    <3>7. /\ out' \in Seq(SUBSET Fragment)
          /\ OutInv' /\ FramesWhole' /\ FramesOnce'
      BY <1>2, <1>3, <2>4, <3>1, <3>6, HandOver
    <3>8. LinkTypeOK' /\ CurrentInv'
      BY <1>4, <1>5, <3>1, <3>7, SenderTypes DEF CurrentInv
    <3> QED
      BY <1>2, <1>4, <3>7, <3>8 DEF LinkInv
  <2> QED
    BY <2>5, <2>6
<1> QED
  BY <1>7, <1>8 DEF Receive, push

LEMMA LinkInvInit == LinkInit => LinkInv
<1> SUFFICES ASSUME LinkInit PROVE LinkInv
  OBVIOUS
<1>1. WindowInv
  BY WindowInvInit DEF LinkInit
<1>2. LinkTypeOK
  BY <1>1 DEF LinkInit, LinkTypeOK, WindowInv
<1> QED
  BY <1>1, <1>2 DEF LinkInit, LinkInv, WireInv, CurrentInv, OutInv,
                    FramesWhole, FramesOnce

LEMMA LinkInvStep ==
  ASSUME RoomForFrames, LinkInv, [LinkNext]_linkVars
  PROVE  LinkInv'
<1>1. CASE UNCHANGED linkVars
  <2>1. UNCHANGED <<windowVars, sending, wire, current, out, top, times, sent,
                    opened, highest, bitmap>>
    BY <1>1 DEF linkVars, windowVars, window
  <2>2. WindowInv'
    BY <2>1, WindowInvStep DEF LinkInv, RoomForFrames
  <2>3. LinkTypeOK'
    BY <2>1 DEF LinkInv, LinkTypeOK, WindowTypeOK
  <2>4. WireInv' /\ CurrentInv' /\ OutInv'
    BY <2>1 DEF LinkInv, WireInv, CurrentInv, OutInv, PartOf, Seen
  <2>5. FramesWhole' /\ FramesOnce'
    BY <2>1 DEF LinkInv, FramesWhole, FramesOnce
  <2> QED
    BY <2>2, <2>3, <2>4, <2>5 DEF LinkInv
<1>2. CASE \E r \in wire : Refuse(r)
  BY <1>1, <1>2 DEF Refuse
<1> QED
  BY <1>1, <1>2, SendLink, ReceiveLink DEF LinkNext

LEMMA LinkInvariance ==
  ASSUME RoomForFrames
  PROVE  LinkSpec => []LinkInv
<1>1. LinkInv /\ [LinkNext]_linkVars => LinkInv'
  BY LinkInvStep
<1> QED
  BY <1>1, LinkInvInit, PTL DEF LinkSpec

-----------------------------------------------------------------------------
(* The theorems about frames.                                              *)

(* Type correctness of the link: every record on the wire and every        *)
(* fragment in the Reassembler has an index below its count.               *)
THEOREM LinkTypes ==
  ASSUME RoomForFrames
  PROVE  LinkSpec => []LinkTypeOK
<1>1. LinkInv => LinkTypeOK
  BY DEF LinkInv
<1> QED
  BY <1>1, LinkInvariance, PTL

(* The Reassembler hands over frames as send_frame cut them: complete and  *)
(* never mixed, although frame numbers wrap and partial frames are         *)
(* abandoned and begun again.                                              *)
THEOREM FramesComeWhole ==
  ASSUME RoomForFrames
  PROVE  LinkSpec => []FramesWhole
<1>1. LinkInv => FramesWhole
  BY DEF LinkInv
<1> QED
  BY <1>1, LinkInvariance, PTL

(* And it hands over no frame twice, whatever the network repeats.         *)
THEOREM FramesComeOnce ==
  ASSUME RoomForFrames
  PROVE  LinkSpec => []FramesOnce
<1>1. LinkInv => FramesOnce
  BY DEF LinkInv
<1> QED
  BY <1>1, LinkInvariance, PTL

-----------------------------------------------------------------------------
(* The receive loop.                                                       *)

(* `last` is the wire number of an accepted record, near the newest one.   *)
LastInv ==
  /\ last = {} <=> ~opened
  /\ opened => \E l \in Records : /\ last = {Wire(l)}
                                  /\ times[l] > 0
                                  /\ l <= top
                                  /\ top < l + WIDTH

(* From any number between the first record and the newest, the next       *)
(* record that arrived is at most max_gap away.  Unlike NoHiddenLoss this  *)
(* does not speak of neighbours, which a late record changes.              *)
Dense ==
  \A m \in Records :
    /\ m <= top
    /\ \E a \in Records : a <= m /\ times[a] > 0
    => \E b \in Records : m <= b /\ b <= m + max_gap /\ times[b] > 0

GapInv ==
  /\ OnWire
  /\ WindowInv
  /\ max_gap \in Nat
  /\ LastInv
  /\ Dense

-----------------------------------------------------------------------------
(* What Gap makes of two records less than a turn apart: the number of     *)
(* records skipped, or, for one that comes late, more than the window.     *)
LEMMA GapIs ==
  ASSUME NEW n \in Nat, NEW l \in Nat
  PROVE  /\ Gap(Wire(n), Wire(l)) \in Nat
         /\ l < n /\ n - l < 2 * HALF => Gap(Wire(n), Wire(l)) = n - l - 1
         /\ n < l /\ l - n < WIDTH => l - n <= Gap(Wire(n), Wire(l))
<1> DEFINE x == wrapping_sub(Wire(n), Wire(l))
<1>1. HALF \in Nat \ {0} /\ WIDTH \in Nat /\ WIDTH <= HALF
  BY WindowAssumption
<1>2. x \in Int
  <2>1. Wire(n) \in Int /\ Wire(l) \in Int
    BY <1>1, WireIsSeqNo DEF SeqNo
  <2> QED
    BY <1>1, <2>1 DEF wrapping_sub
<1>3. l < n /\ n - l < 2 * HALF => x = n - l
  BY WireDistance
<1>4. n < l /\ l - n < WIDTH => x = 2 * HALF - (l - n)
  <2> SUFFICES ASSUME n < l, l - n < WIDTH PROVE x = 2 * HALF - (l - n)
    OBVIOUS
  <2>1. n <= l /\ l - n < 2 * HALF /\ l # n
    BY <1>1
  <2> QED
    BY <2>1, WireDistance
<1>5. Gap(Wire(n), Wire(l)) = (IF x >= 1 THEN x ELSE 1) - 1
  BY DEF Gap, Max2
<1> HIDE DEF x
<1> QED
  BY <1>1, <1>2, <1>3, <1>4, <1>5

LEMMA Wider ==
  ASSUME NEW b \in Nat, NEW m \in Nat, NEW x \in Nat, NEW y \in Nat,
         b <= m + x, x <= y
  PROVE  b <= m + y
OBVIOUS

(* The record that opens the window is the only one accepted.              *)
LEMMA FirstRecord ==
  ASSUME LIFE <= HALF, GapInv, NEW r \in wire, ReceiverRecord(r), ~opened
  PROVE  max_gap' \in Nat /\ LastInv' /\ Dense'
<1> DEFINE n == r.seq
<1>1. n \in Records /\ n < sent /\ Accept(n) /\ InLife(n)
  BY DEF GapInv, OnWire, ReceiverRecord, Receive
<1>2. /\ opened' /\ n <= top' /\ top' < n + WIDTH
      /\ times' = [times EXCEPT ![n] = 1]
  BY <1>1, AcceptedIsNear DEF GapInv
<1>3. times \in [Records -> Nat] /\ \A a \in Records : times[a] = 0
  BY DEF GapInv, WindowInv, WindowTypeOK
<1>4. top' = n
  BY <1>1 DEF Accept
<1>5. last' = {Wire(n)} /\ max_gap' = max_gap
  BY DEF ReceiverRecord, GapInv, LastInv
<1>6. times'[n] > 0 /\ \A a \in Records : times'[a] > 0 => a = n
  BY <1>1, <1>2, <1>3
<1>7. LastInv'
  BY <1>1, <1>2, <1>5, <1>6 DEF LastInv
<1>8. max_gap \in Nat
  BY DEF GapInv
<1>9. Dense'
  <2> SUFFICES ASSUME NEW m \in Records, m <= top', NEW a \in Records, a <= m,
                      times'[a] > 0
               PROVE  \E b \in Records : /\ m <= b /\ b <= m + max_gap'
                                         /\ times'[b] > 0
    BY DEF Dense
  <2>1. m = n
    BY <1>1, <1>4, <1>6 DEF Records
  <2>2. n <= n /\ n <= n + max_gap'
    BY <1>1, <1>5, <1>8 DEF Records
  <2> QED
    BY <1>1, <1>6, <2>1, <2>2
<1> QED
  BY <1>5, <1>7, <1>8, <1>9

(* A later record: ahead of the newest it widens the range by a hole no    *)
(* longer than the gap measured from `last`; behind everything it is       *)
(* measured round the whole space; in between it only fills holes.         *)
LEMMA LaterRecord ==
  ASSUME LIFE <= HALF, GapInv, NEW r \in wire, ReceiverRecord(r), opened
  PROVE  max_gap' \in Nat /\ LastInv' /\ Dense'
<1> DEFINE n == r.seq
<1>1. n \in Records /\ n < sent /\ Accept(n) /\ InLife(n)
  BY DEF GapInv, OnWire, ReceiverRecord, Receive
<1>2. /\ opened' /\ n <= top' /\ top' < n + WIDTH
      /\ times' = [times EXCEPT ![n] = 1]
      /\ n < top + LIFE /\ top < n + WIDTH
  BY <1>1, AcceptedIsNear DEF GapInv
<1>3. /\ times \in [Records -> Nat] /\ top \in Nat /\ max_gap \in Nat
      /\ n \in Nat /\ HALF \in Nat /\ WIDTH \in Nat /\ WIDTH <= HALF
      /\ LIFE \in Nat
  BY <1>1, WindowAssumption DEF GapInv, WindowInv, WindowTypeOK, Records
<1>4. top' = IF top >= n THEN top ELSE n
  BY <1>1 DEF Accept, Max2
<1>5. PICK l \in Records : /\ last = {Wire(l)} /\ times[l] > 0
                           /\ l <= top /\ top < l + WIDTH
  BY DEF GapInv, LastInv
<1>6. l \in Nat
  BY DEF Records
<1> DEFINE gap == Gap(Wire(n), Wire(l))
<1>7. last' = {Wire(n)} /\ max_gap' = Max2(max_gap, gap)
  <2>1. (CHOOSE p \in last : TRUE) = Wire(l)
    BY <1>5
  <2> QED
    BY <1>5, <2>1 DEF ReceiverRecord
<1>8. /\ gap \in Nat
      /\ l < n => gap = n - l - 1
      /\ n < l => l - n <= gap
  <2>1. l < n => n - l < 2 * HALF
    BY <1>2, <1>3, <1>5, <1>6
  <2>2. n < l => l - n < WIDTH
    BY <1>2, <1>3, <1>5, <1>6
  <2> QED
    BY <1>3, <1>6, <2>1, <2>2, GapIs
<1> HIDE DEF gap
<1>9. max_gap' \in Nat /\ max_gap <= max_gap' /\ gap <= max_gap'
  BY <1>3, <1>7, <1>8 DEF Max2
<1>10. times'[n] > 0 /\ \A a \in Records : a # n => times'[a] = times[a]
  BY <1>1, <1>2, <1>3
<1>11. LastInv'
  BY <1>1, <1>2, <1>7, <1>10 DEF LastInv
<1>12. ASSUME NEW m \in Records, m <= top', NEW a \in Records, a <= m,
              times'[a] > 0
       PROVE  \E b \in Records : /\ m <= b /\ b <= m + max_gap'
                                 /\ times'[b] > 0
  <2>1. m \in Nat /\ a \in Nat
    BY DEF Records
  <2>2. CASE top < m
    <3>1. m <= n /\ l < n
      BY <1>3, <1>4, <1>5, <1>6, <1>12, <2>1, <2>2
    <3>2. n <= m + max_gap'
      BY <1>3, <1>5, <1>6, <1>8, <1>9, <2>1, <2>2, <3>1
    <3> QED
      BY <1>1, <1>10, <3>1, <3>2
  <2>3. CASE m <= top /\ \E c \in Records : c <= m /\ times[c] > 0
    <3>1. PICK b \in Records : /\ m <= b /\ b <= m + max_gap
                               /\ times[b] > 0
      BY <2>3 DEF GapInv, Dense
    <3>2. b \in Nat
      BY DEF Records
    <3>3. b <= m + max_gap'
      BY <1>3, <1>9, <2>1, <3>1, <3>2, Wider
    <3>4. times'[b] > 0
      BY <1>10, <3>1
    <3> QED
      BY <3>1, <3>3, <3>4
  <2>4. CASE ~\E c \in Records : c <= m /\ times[c] > 0
    <3>1. a = n
      BY <1>10, <1>12, <2>4
    <3>2. m < l
      BY <1>5, <1>6, <2>1, <2>4
    <3>3. l <= m + max_gap'
      <4>1. n <= m /\ n < l
        BY <1>3, <1>6, <1>12, <2>1, <3>1, <3>2
      <4>2. l <= n + gap
        BY <1>3, <1>6, <1>8, <4>1
      <4>3. l <= m + gap
        BY <1>3, <1>6, <1>8, <2>1, <4>1, <4>2
      <4> QED
        BY <1>6, <1>8, <1>9, <2>1, <4>3, Wider
    <3>4. times'[l] > 0 /\ m <= l
      BY <1>5, <1>6, <1>10, <2>1, <3>2
    <3> QED
      BY <3>3, <3>4
  <2> QED
    BY <1>3, <2>1, <2>2, <2>3, <2>4
<1>13. Dense'
  BY <1>12 DEF Dense
<1> QED
  BY <1>9, <1>11, <1>13

-----------------------------------------------------------------------------
(* The loop's steps are the link's.                                        *)

LEMMA ReceiverStep ==
  ASSUME [ReceiverNext]_receiverVars
  PROVE  [LinkNext]_linkVars
<1>1. CASE Sender
  BY <1>1 DEF Sender, LinkNext
<1>2. CASE \E r \in wire : ReceiverRecord(r) \/ ReceiverError(r)
  BY <1>2 DEF ReceiverRecord, ReceiverError, LinkNext
<1>3. CASE ReceiverTimeout \/ ReceiverDone \/ UNCHANGED receiverVars
  BY <1>3 DEF ReceiverTimeout, ReceiverDone, receiverVars
<1> QED
  BY <1>1, <1>2, <1>3 DEF ReceiverNext

LEMMA GapInvInit == ReceiverInit => GapInv
<1> SUFFICES ASSUME ReceiverInit PROVE GapInv
  OBVIOUS
<1>1. OnWire /\ WindowInv
  BY OnWireInit, WindowInvInit DEF ReceiverInit, LinkInit
<1>2. ~opened /\ last = {} /\ max_gap = 0
  BY DEF ReceiverInit, LinkInit, WindowInit
<1>3. \A a \in Records : ~(times[a] > 0)
  BY <1>1, <1>2 DEF WindowInv
<1> QED
  BY <1>1, <1>2, <1>3 DEF GapInv, LastInv, Dense

LEMMA GapInvStep ==
  ASSUME LIFE <= HALF, GapInv, [ReceiverNext]_receiverVars
  PROVE  GapInv'
<1>1. OnWire' /\ WindowInv'
  <2>1. [LinkNext]_linkVars
    BY ReceiverStep
  <2>2. OnWire' /\ [WindowNext]_windowVars
    BY <2>1, LinkStep DEF GapInv
  <2> QED
    BY <2>2, WindowInvStep DEF GapInv
<1>2. CASE \E r \in wire : ReceiverRecord(r)
  BY <1>1, <1>2, FirstRecord, LaterRecord DEF GapInv
<1>3. CASE UNCHANGED <<opened, top, times, last, max_gap>>
  BY <1>1, <1>3 DEF GapInv, LastInv, Dense
<1>4. CASE Sender
  <2>1. SendRecord
    BY <1>4, SendOnWire DEF Sender, GapInv
  <2> QED
    BY <1>3, <1>4, <2>1 DEF Sender, SendRecord, window
<1>5. CASE \/ \E r \in wire : ReceiverError(r)
           \/ ReceiverTimeout \/ ReceiverDone \/ UNCHANGED receiverVars
  BY <1>3, <1>5 DEF ReceiverError, Refuse, ReceiverTimeout, ReceiverDone,
                    receiverVars, linkVars, windowVars, window
<1> QED
  BY <1>2, <1>4, <1>5 DEF ReceiverNext

(* Between neighbours the next record that arrived is the second of them.  *)
LEMMA DenseHidesNothing == GapInv => NoHiddenLoss
<1> SUFFICES ASSUME GapInv, NEW a \in Records, NEW b \in Records, a < b,
                    times[a] > 0, times[b] > 0,
                    \A n \in (a + 1)..(b - 1) : times[n] = 0
             PROVE  b - a - 1 <= max_gap
  BY DEF NoHiddenLoss
<1>1. a \in Nat /\ b \in Nat /\ max_gap \in Nat /\ top \in Nat /\ MaxSent \in Nat
  BY WindowAssumption DEF Records, GapInv, WindowInv, WindowTypeOK
<1>2. b <= top
  <2>1. opened
    BY DEF GapInv, WindowInv
  <2> QED
    BY <2>1 DEF GapInv, WindowInv, WindowExact
<1>3. a + 1 \in Records /\ a + 1 <= top /\ a <= a + 1
  BY <1>1, <1>2 DEF Records
<1>4. PICK c \in Records : /\ a + 1 <= c /\ c <= a + 1 + max_gap
                           /\ times[c] > 0
  BY <1>3 DEF GapInv, Dense
<1>5. c \in Nat
  BY DEF Records
<1>6. ~(c \in (a + 1)..(b - 1))
  BY <1>4
<1> QED
  BY <1>1, <1>4, <1>5, <1>6

-----------------------------------------------------------------------------
(* The theorems.                                                           *)

(* The receive loop runs the link: its gaps, limits and ways to end change *)
(* nothing of what recv_record and the Reassembler do.                     *)
THEOREM ReceiverImplementsLink == ReceiverSpec => LinkSpec
<1>1. ReceiverInit => LinkInit
  BY DEF ReceiverInit
<1>2. [ReceiverNext]_receiverVars => [LinkNext]_linkVars
  BY ReceiverStep
<1> QED
  BY <1>1, <1>2, PTL DEF ReceiverSpec, LinkSpec

(* So what the receiver appends to its file are whole frames, each of them *)
(* once, for any sequence space with room for them.                        *)
THEOREM ReceiverGetsFrames ==
  ASSUME RoomForFrames
  PROVE  ReceiverSpec => [](FramesWhole /\ FramesOnce)
BY ReceiverImplementsLink, FramesComeWhole, FramesComeOnce, PTL

(* The summary's "max gap" is at least as long as every hole in what       *)
(* arrived, in whatever order it arrived, as long as datagrams live at     *)
(* most half the space.                                                    *)
THEOREM GapHidesNoLoss ==
  ASSUME LIFE <= HALF
  PROVE  ReceiverSpec => []NoHiddenLoss
<1>1. GapInv /\ [ReceiverNext]_receiverVars => GapInv'
  BY GapInvStep
<1> QED
  BY <1>1, GapInvInit, DenseHidesNothing, PTL DEF ReceiverSpec

=============================================================================
