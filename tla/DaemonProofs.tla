---------------------------- MODULE DaemonProofs ----------------------------
(***************************************************************************)
(* Proofs about trust in the running daemon, for any number of devices,    *)
(* control connections, datagrams and crashes; first about its UDP         *)
(* endpoint alone, for any number of devices, addresses, attempts and      *)
(* datagrams, and any limits.                                              *)
(*                                                                         *)
(* PeersAccountedFor is not inductive: what keeps it is that the mutex     *)
(* admits one operation, that a connection never starts one while it still *)
(* owes the engine an id, that nothing is left of the endpoint after a     *)
(* crash, and that the answer in the engine's hand was true of the device  *)
(* when it was given and has been accounted for since.                     *)
(***************************************************************************)
EXTENDS Daemon, FiniteSetTheorems, TLAPS

-----------------------------------------------------------------------------
(* The endpoint.                                                           *)

(* Every step of the endpoint, with any set of devices disconnected at     *)
(* once as the engine does when it drains several revocations.             *)
EndpointStep ==
  \/ Client
  \/ \E m \in net, d \in Devices, ok \in BOOLEAN : Receive(m, d, ok)
  \/ \E m \in net : ReceiveStray(m)
  \/ Handle
  \/ \E D \in SUBSET Devices : Disconnect(D)
  \/ Tick
  \/ UNCHANGED endpointVars

(* Only an init lacks a host key, and a confirm is sent by a client that   *)
(* has completed the session it seals it under.                            *)
NetInv ==
  \A m \in net :
    /\ m.type # "init" => m.eph \in Eph
    /\ m.type = "confirm" => SessionOf(m) \in agreed

(* The datagram in hand came from the network.                             *)
InHandInv == \A h \in inHand : h.pkt \in net

(* Pending handshakes are filed under their own source, one per source,    *)
(* with a key already drawn and not used for a session yet.                *)
PendingInv ==
  /\ \A p \in pending :
       /\ p.addr = p.session.att.addr
       /\ p.session.eph <= lastEph
       /\ p.session \notin established
  /\ \A p, q \in pending : p.addr = q.addr => p = q

EstablishedInv == \A s \in established : s.eph <= lastEph

EndpointInv ==
  /\ EndpointTypeOK
  /\ NetInv
  /\ InHandInv
  /\ PendingInv
  /\ EstablishedInv
  /\ PeersAgreed

-----------------------------------------------------------------------------

LEMMA EndpointInitInv == EndpointInit => EndpointInv
BY EndpointAssumption
   DEF EndpointInit, EndpointInv, EndpointTypeOK, NetInv, InHandInv,
       PendingInv, EstablishedInv, PeersAgreed, Eph

(* The client's steps: they touch step, agreed and net only.               *)
LEMMA ClientInv == EndpointInv /\ Client => EndpointInv'
<1> SUFFICES ASSUME EndpointInv, NEW a \in Attempts,
                    \/ SendInit(a)
                    \/ \E m \in net : Complete(a, m)
                    \/ GiveUp(a)
             PROVE  EndpointInv'
  BY DEF Client
<1> USE DEF EndpointInv
<1>1. CASE SendInit(a)
  <2>1. InitMsg(a) \in Packet
    BY DEF InitMsg, Packet
  <2>2. EndpointTypeOK'
    BY <1>1, <2>1 DEF SendInit, EndpointTypeOK, hostVars
  <2>3. InitMsg(a).type = "init"
    BY DEF InitMsg
  <2>4. NetInv'
    BY <1>1, <2>3 DEF SendInit, NetInv
  <2> QED
    BY <1>1, <2>2, <2>4
       DEF SendInit, InHandInv, PendingInv, EstablishedInv, PeersAgreed,
           hostVars
<1>2. ASSUME NEW m \in net, Complete(a, m) PROVE EndpointInv'
  <2>1. SessionOf(m) \in Session
    BY <1>2 DEF Complete, EndpointTypeOK, NetInv, Packet, Session, SessionOf
  <2>2. Confirm(SessionOf(m)) \in Packet
    BY <2>1 DEF Confirm, Packet, Session
  <2>3. EndpointTypeOK'
    BY <1>2, <2>1, <2>2 DEF Complete, EndpointTypeOK, hostVars
  <2>4. SessionOf(Confirm(SessionOf(m))) = SessionOf(m)
    BY DEF SessionOf, Confirm
  <2>5. Confirm(SessionOf(m)).eph \in Eph
    BY <2>1 DEF Confirm, Session
  <2>6. NetInv'
    BY <1>2, <2>4, <2>5 DEF Complete, NetInv, Confirm
  <2> QED
    BY <1>2, <2>3, <2>6
       DEF Complete, InHandInv, PendingInv, EstablishedInv, PeersAgreed,
           hostVars
<1>3. CASE GiveUp(a)
  BY <1>3 DEF GiveUp, EndpointTypeOK, NetInv, InHandInv, PendingInv,
              EstablishedInv, PeersAgreed, hostVars
<1> QED
  BY <1>1, <1>2, <1>3

(* Taking a datagram: the pending map shrinks and the datagram is in hand. *)
LEMMA ReceiveInv ==
  ASSUME EndpointInv, NEW m \in net, NEW d \in Devices, NEW ok \in BOOLEAN,
         Receive(m, d, ok)
  PROVE  EndpointInv'
<1> USE DEF EndpointInv
<1>1. EndpointTypeOK'
  BY DEF Receive, EndpointTypeOK, prune_pending, clientVars
<1> QED
  BY <1>1 DEF Receive, NetInv, InHandInv, PendingInv, EstablishedInv,
              PeersAgreed, prune_pending, clientVars

LEMMA ReceiveStrayInv ==
  ASSUME EndpointInv, NEW m \in net, ReceiveStray(m)
  PROVE  EndpointInv'
BY DEF EndpointInv, ReceiveStray, EndpointTypeOK, NetInv, InHandInv,
       PendingInv, EstablishedInv, PeersAgreed, prune_pending, clientVars

(* Steps that only take handshakes or peers away keep the invariant.       *)
LEMMA ShrinkInv ==
  ASSUME EndpointInv,
         pending' \subseteq pending, peers' \subseteq peers,
         inHand' \subseteq inHand,
         lastEph' = lastEph, established' = established, step' = step,
         agreed' = agreed, net' = net, now' \in Nat
  PROVE  EndpointInv'
BY DEF EndpointInv, EndpointTypeOK, NetInv, InHandInv, PendingInv,
       EstablishedInv, PeersAgreed

(* The handshake accepted last has a key no session has had.               *)
LEMMA AcceptInitInv == EndpointInv /\ AcceptInit => EndpointInv'
<1> SUFFICES ASSUME EndpointInv, AcceptInit PROVE EndpointInv'
  OBVIOUS
<1> USE DEF EndpointInv
<1>1. PICK h \in inHand :
        LET a == h.pkt.att
            s == [att |-> a, eph |-> lastEph + 1]
        IN
        /\ lastEph < MaxEph
        /\ lastEph' = lastEph + 1
        /\ pending' = (pending \ At(pending, a.addr))
             \cup {[addr |-> a.addr, session |-> s, created |-> now]}
        /\ inHand' = {}
        /\ net' = net \cup {Response(s)}
        /\ UNCHANGED <<peers, established, clientVars, now>>
  BY DEF AcceptInit
<1> DEFINE a == h.pkt.att
           s == [att |-> a, eph |-> lastEph + 1]
           p == [addr |-> a.addr, session |-> s, created |-> now]
<1>2. a \in Attempts /\ a.addr \in Addrs
  BY DEF EndpointTypeOK, Packet, Attempts
<1>3. lastEph + 1 \in Eph /\ lastEph \in Nat /\ lastEph' = lastEph + 1
  BY <1>1, EndpointAssumption DEF EndpointTypeOK, Eph
<1>4. s \in Session
  BY <1>2, <1>3 DEF Session
<1>5. p \in Pending
  BY <1>2, <1>4 DEF Pending, EndpointTypeOK
<1>6. Response(s) \in Packet /\ Response(s).type = "response"
        /\ Response(s).eph \in Eph
  BY <1>4 DEF Response, Packet, Session
<1>7. pending' = (pending \ At(pending, a.addr)) \cup {p}
  BY <1>1
<1>8. net' = net \cup {Response(s)}
  BY <1>1
<1>9. EndpointTypeOK'
  BY <1>1, <1>3, <1>5, <1>6, <1>7, <1>8
     DEF EndpointTypeOK, At, clientVars
<1>10. NetInv'
  BY <1>1, <1>6, <1>8 DEF NetInv, clientVars
<1>11. PendingInv'
  <2>1. \A e \in Eph : e \in Nat
    BY EndpointAssumption DEF Eph
  <2>2. s \notin established
    BY <1>3 DEF EstablishedInv
  <2>3. ASSUME NEW q \in pending PROVE q.session.eph \in Nat
    BY <2>1 DEF EndpointTypeOK, Pending, Session
  <2>4. \A q \in pending' :
          /\ q.addr = q.session.att.addr
          /\ q.session.eph <= lastEph'
          /\ q.session \notin established'
    BY <1>1, <1>3, <1>7, <2>2, <2>3 DEF PendingInv, At
  <2>5. \A q, r \in pending' : q.addr = r.addr => q = r
    BY <1>7 DEF PendingInv, At
  <2> QED
    BY <2>4, <2>5 DEF PendingInv
<1>12. EstablishedInv'
  <2>1. ASSUME NEW t \in established PROVE t.eph \in Nat
    BY EndpointAssumption DEF EndpointTypeOK, Session, Eph
  <2> QED
    BY <1>1, <1>3, <2>1 DEF EstablishedInv
<1> QED
  BY <1>1, <1>9, <1>10, <1>11, <1>12 DEF InHandInv, PeersAgreed, clientVars

(* A confirm that verifies was sealed by a client under this very session. *)
LEMMA AcceptConfirmInv == EndpointInv /\ AcceptConfirm => EndpointInv'
<1> SUFFICES ASSUME EndpointInv, AcceptConfirm PROVE EndpointInv'
  OBVIOUS
<1> USE DEF EndpointInv
<1> DEFINE Accepts(h, p) ==
             /\ h.pkt.type = "confirm"
             /\ p.session = SessionOf(h.pkt)
             /\ pending' = pending \ At(pending, h.pkt.att.addr)
             /\ peers' = {q \in peers : q.dev # p.session.att.dev}
                  \cup {[dev |-> p.session.att.dev, addr |-> p.addr,
                         session |-> p.session]}
             /\ established' = established \cup {p.session}
             /\ inHand' = {}
             /\ UNCHANGED <<lastEph, clientVars, net, now>>
<1>0. PICK h \in inHand :
        \E p \in At(pending, h.pkt.att.addr) : Accepts(h, p)
  BY DEF AcceptConfirm
<1>1. PICK p \in At(pending, h.pkt.att.addr) : Accepts(h, p)
  BY <1>0
<1>2. p \in pending /\ p \in Pending /\ p.session \in Session
  BY DEF At, EndpointTypeOK, Pending
<1> DEFINE peer == [dev |-> p.session.att.dev, addr |-> p.addr,
                    session |-> p.session]
<1>3. peer \in Peer
  BY <1>2 DEF Peer, Pending, Session, Attempts
<1>4. EndpointTypeOK'
  BY <1>1, <1>2, <1>3 DEF EndpointTypeOK, clientVars
<1>5. p.session \in agreed
  BY <1>1 DEF InHandInv, NetInv
<1>6. PeersAgreed'
  BY <1>1, <1>2, <1>5 DEF PeersAgreed, PendingInv, clientVars
<1>7. PendingInv'
  <2>1. \A q \in pending' : q.session # p.session
    BY <1>1, <1>2 DEF PendingInv, At
  <2> QED
    BY <1>1, <2>1 DEF PendingInv
<1>8. EstablishedInv'
  BY <1>1, <1>2 DEF EstablishedInv, PendingInv
<1> QED
  BY <1>1, <1>4, <1>6, <1>7, <1>8 DEF NetInv, InHandInv, clientVars

(* Every step of the endpoint keeps the invariant.                         *)
LEMMA EndpointStepInv == EndpointInv /\ EndpointStep => EndpointInv'
<1> SUFFICES ASSUME EndpointInv, EndpointStep PROVE EndpointInv'
  OBVIOUS
<1>1. now \in Nat
  BY DEF EndpointInv, EndpointTypeOK
<1>2. CASE Client
  BY <1>2, ClientInv
<1>3. CASE \E m \in net, d \in Devices, ok \in BOOLEAN : Receive(m, d, ok)
  BY <1>3, ReceiveInv
<1>4. CASE \E m \in net : ReceiveStray(m)
  BY <1>4, ReceiveStrayInv
<1>5. CASE DropInit
  BY <1>1, <1>5, ShrinkInv DEF DropInit, clientVars
<1>6. CASE AcceptInit
  BY <1>6, AcceptInitInv
<1>7. CASE DenyConfirm
  BY <1>1, <1>7, ShrinkInv DEF DenyConfirm, At, clientVars
<1>8. CASE FailConfirm
  BY <1>1, <1>8, ShrinkInv DEF FailConfirm, At, clientVars
<1>9. CASE AcceptConfirm
  BY <1>9, AcceptConfirmInv
<1>10. CASE \E D \in SUBSET Devices : Disconnect(D)
  BY <1>1, <1>10, ShrinkInv DEF Disconnect, clientVars
<1>11. CASE Tick
  BY <1>1, <1>11, ShrinkInv DEF Tick, hostVars, clientVars
<1>12. CASE UNCHANGED endpointVars
  BY <1>1, <1>12, ShrinkInv DEF endpointVars, hostVars, clientVars
<1> QED
  BY <1>2, <1>3, <1>4, <1>5, <1>6, <1>7, <1>8, <1>9, <1>10, <1>11, <1>12
     DEF EndpointStep, Handle

(* The standalone endpoint takes such steps only.                          *)
LEMMA NextIsStep == [EndpointNext]_endpointVars => EndpointStep
BY DEF EndpointNext, EndpointStep

-----------------------------------------------------------------------------
(* The theorems.                                                           *)

LEMMA EndpointInvariance == EndpointSpec => []EndpointInv
<1>1. EndpointInv /\ [EndpointNext]_endpointVars => EndpointInv'
  BY NextIsStep, EndpointStepInv
<1> QED
  BY <1>1, EndpointInitInv, PTL DEF EndpointSpec

(* Every datagram the endpoint and its clients handle leaves their state   *)
(* well formed; in particular no client ever completes with a response     *)
(* that lacks a host key.                                                  *)
THEOREM EndpointTypes == EndpointSpec => []EndpointTypeOK
<1>1. EndpointInv => EndpointTypeOK
  BY DEF EndpointInv
<1> QED
  BY <1>1, EndpointInvariance, PTL

(* A peer of the host is always a session its device completed, whatever   *)
(* is lost, repeated or reordered, and however many devices and addresses  *)
(* take part (handle_init, handle_confirm, verify_confirm).                *)
THEOREM PeersAreAgreed == EndpointSpec => []PeersAgreed
<1>1. EndpointInv => PeersAgreed
  BY DEF EndpointInv
<1> QED
  BY <1>1, EndpointInvariance, PTL

(* handle_confirm never makes a peer of a session that was one before, so  *)
(* no session gets a second, empty replay window.                          *)
THEOREM SessionsOnce == EndpointSpec => SessionOnce
<1> DEFINE Fresh == \A q \in peers' \ peers : q.session \notin established
<1>1. EndpointInv /\ [EndpointNext]_endpointVars => [Fresh]_endpointVars
  <2> SUFFICES ASSUME EndpointInv, EndpointNext PROVE Fresh
    BY DEF endpointVars
  <2>1. CASE AcceptConfirm
    BY <2>1 DEF AcceptConfirm, EndpointInv, PendingInv, At
  <2>2. CASE ~AcceptConfirm
    <3>1. peers' \subseteq peers
      BY <2>2 DEF EndpointNext, Client, SendInit, Complete, GiveUp, Receive,
                  ReceiveStray, Handle, DropInit, AcceptInit, DenyConfirm,
                  FailConfirm, Disconnect, Tick, hostVars
    <3> QED
      BY <3>1
  <2> QED
    BY <2>1, <2>2
<1> QED
  BY <1>1, EndpointInvariance, PTL DEF EndpointSpec, SessionOnce

(* The map is finite, and within its bound.                                *)
BoundInv == IsFiniteSet(pending) /\ PendingBounded

LEMMA BoundShrinks ==
  ASSUME BoundInv, pending' \subseteq pending
  PROVE  BoundInv'
<1>1. IsFiniteSet(pending') /\ Cardinality(pending') <= Cardinality(pending)
  BY FS_Subset DEF BoundInv
<1>2. Cardinality(pending) \in Nat /\ Cardinality(pending') \in Nat
  BY <1>1, FS_CardinalityType DEF BoundInv
<1> QED
  BY <1>1, <1>2, EndpointAssumption DEF BoundInv, PendingBounded

(* Adding one element to a set that had room, or that gave some up.        *)
LEMMA ReplaceBounded ==
  ASSUME NEW S, NEW T \in SUBSET S, NEW p, NEW n \in Nat,
         IsFiniteSet(S), Cardinality(S) <= n,
         T # S \/ Cardinality(S) < n
  PROVE  IsFiniteSet(T \cup {p}) /\ Cardinality(T \cup {p}) <= n
<1>1. /\ IsFiniteSet(T)
      /\ Cardinality(T) <= Cardinality(S)
      /\ Cardinality(S) = Cardinality(T) => S = T
  BY FS_Subset
<1>2. Cardinality(S) \in Nat /\ Cardinality(T) \in Nat
  BY <1>1, FS_CardinalityType
<1>3. /\ IsFiniteSet(T \cup {p})
      /\ Cardinality(T \cup {p}) =
           IF p \in T THEN Cardinality(T) ELSE Cardinality(T) + 1
  BY <1>1, FS_AddElement
<1>4. Cardinality(T) < n
  BY <1>1, <1>2
<1> QED
  BY <1>2, <1>3, <1>4

(* A new source finds room, and a known one gives up its entry first.      *)
LEMMA BoundAcceptInit == BoundInv /\ AcceptInit => BoundInv'
<1> SUFFICES ASSUME BoundInv, AcceptInit PROVE BoundInv'
  OBVIOUS
<1>1. PICK a, p :
        /\ ~Refused(a)
        /\ pending' = (pending \ At(pending, a.addr)) \cup {p}
  BY DEF AcceptInit
<1>2. IsFiniteSet(pending) /\ Cardinality(pending) <= MAX_PENDING
        /\ MAX_PENDING \in Nat
  BY EndpointAssumption DEF BoundInv, PendingBounded
<1>3. Cardinality(pending) \in Nat
  BY <1>2, FS_CardinalityType
<1>4. \/ pending \ At(pending, a.addr) # pending
      \/ Cardinality(pending) < MAX_PENDING
  <2>1. CASE At(pending, a.addr) = {}
    <3>1. ~(Cardinality(pending) >= MAX_PENDING)
      BY <1>1, <2>1 DEF Refused
    <3> QED
      BY <1>2, <1>3, <3>1
  <2>2. CASE At(pending, a.addr) # {}
    BY <2>2, Zenon DEF At
  <2> QED
    BY <2>1, <2>2
<1>5. pending \ At(pending, a.addr) \in SUBSET pending
  OBVIOUS
<1>6. /\ IsFiniteSet((pending \ At(pending, a.addr)) \cup {p})
      /\ Cardinality((pending \ At(pending, a.addr)) \cup {p}) <= MAX_PENDING
  BY <1>2, <1>4, <1>5, ReplaceBounded
<1> QED
  BY <1>1, <1>6 DEF BoundInv, PendingBounded

(* MAX_PENDING_HANDSHAKES holds whatever arrives, for any limit and any    *)
(* number of sources: handle_init checks it before it inserts, and a       *)
(* source that already has an entry replaces it.                           *)
THEOREM PendingIsBounded == EndpointSpec => []PendingBounded
<1>1. EndpointInit => BoundInv
  BY FS_EmptySet, EndpointAssumption
     DEF EndpointInit, BoundInv, PendingBounded
<1>2. BoundInv /\ [EndpointNext]_endpointVars => BoundInv'
  <2> SUFFICES ASSUME BoundInv, [EndpointNext]_endpointVars PROVE BoundInv'
    OBVIOUS
  <2>1. CASE AcceptInit
    BY <2>1, BoundAcceptInit
  <2>2. CASE ~AcceptInit
    <3>1. pending' \subseteq pending
      BY <2>2 DEF EndpointNext, Client, SendInit, Complete, GiveUp, Receive,
                  ReceiveStray, Handle, DropInit, DenyConfirm, FailConfirm,
                  AcceptConfirm, Disconnect, Tick, At, prune_pending,
                  endpointVars, hostVars
    <3> QED
      BY <3>1, BoundShrinks
  <2> QED
    BY <2>1, <2>2
<1>3. BoundInv => PendingBounded
  BY DEF BoundInv
<1> QED
  BY <1>1, <1>2, <1>3, PTL DEF EndpointSpec

-----------------------------------------------------------------------------
(* The daemon.                                                             *)

(* A session of d, or a handshake of d about to become one, is explained.  *)
Accounted(d) ==
  \/ Trusted(d)
  \/ RevocationInFlight(d)
  \/ d \in orphan

(* One operation holds the mutex; a revocation is of a device; and its     *)
(* connection owes the engine nothing else.                                *)
OpInv ==
  /\ \A o1, o2 \in op : o1 = o2
  /\ \A o \in op : o.kind = "revoke" => o.dev \in Devices
  /\ \A o \in op : conn[o.by] = None

(* A dead process has no endpoint.                                         *)
DownInv == ~up => peers = {} /\ inHand = {}

(* An authorizer's yes that is still to be acted on.                       *)
AnswerInv ==
  \A h \in inHand : \A p \in At(pending, h.pkt.att.addr) :
    h.pkt.type = "confirm" /\ h.ok => Accounted(p.session.att.dev)

ServiceTypeOK ==
  /\ revoked_pending \in SUBSET Devices
  /\ conn \in [Conns -> Devices \cup {None}]
  /\ phase \in {"drain", "pump"}
  /\ budget \in 0..PUMP_MAX
  /\ orphan \in SUBSET Devices

DaemonInv ==
  /\ LedgerTypeOK
  /\ ServiceTypeOK
  /\ EndpointInv
  /\ OpInv
  /\ DownInv
  /\ AnswerInv
  /\ PeersAccountedFor

-----------------------------------------------------------------------------

LEMMA DaemonInitInv == DaemonInit => DaemonInv
<1> SUFFICES ASSUME DaemonInit PROVE DaemonInv
  OBVIOUS
<1>1. EndpointInv
  BY EndpointInitInv DEF DaemonInit
<1>2. LedgerTypeOK
  BY DEF DaemonInit, LedgerInit, LedgerTypeOK, Verdict
<1>3. ServiceTypeOK
  BY PumpAssumption DEF DaemonInit, ServiceTypeOK
<1> QED
  BY <1>1, <1>2, <1>3
     DEF DaemonInit, LedgerInit, EndpointInit, DaemonInv, OpInv, DownInv,
         AnswerInv, PeersAccountedFor

(* Ledger operations of the control connections.                           *)
ControlStep ==
  \/ \E c \in Conns, d \in Devices : HandlePair(c, d) \/ HandleRevoke(c, d)
  \/ \E c \in Conns : HandleOther(c) \/ HandlePush(c)
  \/ HandleSave
  \/ HandleReturn

(* They leave the endpoint alone.                                          *)
LEMMA ControlEndpoint ==
  ControlStep => UNCHANGED endpointVars /\ UNCHANGED engineVars
BY DEF ControlStep, HandlePair, HandleRevoke, HandleOther, HandlePush,
       HandleSave, HandleReturn

LEMMA ControlTypes ==
  ASSUME LedgerTypeOK, ServiceTypeOK, OpInv, ControlStep
  PROVE  LedgerTypeOK' /\ ServiceTypeOK' /\ OpInv' /\ up' = up
<1>1. ASSUME NEW c \in Conns, NEW d \in Devices, HandlePair(c, d)
      PROVE  LedgerTypeOK' /\ ServiceTypeOK' /\ OpInv' /\ up' = up
  BY <1>1 DEF HandlePair, LedgerPair, Begin, LedgerTypeOK, ServiceTypeOK,
              OpInv, Operation, Kind, Stage, Verdict, engineVars
<1>2. ASSUME NEW c \in Conns, NEW d \in Devices, HandleRevoke(c, d)
      PROVE  LedgerTypeOK' /\ ServiceTypeOK' /\ OpInv' /\ up' = up
  BY <1>2 DEF HandleRevoke, LedgerRevoke, Begin, LedgerTypeOK, ServiceTypeOK,
              OpInv, Operation, Kind, Stage, Verdict, engineVars, serviceVars
<1>3. ASSUME NEW c \in Conns, HandleOther(c)
      PROVE  LedgerTypeOK' /\ ServiceTypeOK' /\ OpInv' /\ up' = up
  BY <1>3 DEF HandleOther, LedgerOther, Begin, LedgerTypeOK, ServiceTypeOK,
              OpInv, Operation, Kind, Stage, Verdict, engineVars, serviceVars
<1>4. ASSUME NEW c \in Conns, HandlePush(c)
      PROVE  LedgerTypeOK' /\ ServiceTypeOK' /\ OpInv' /\ up' = up
  <2>1. conn[c] \in Devices
    BY <1>4 DEF HandlePush, ServiceTypeOK
  <2>2. LedgerTypeOK' /\ up' = up
    BY <1>4 DEF HandlePush, LedgerTypeOK, ledgerVars
  <2>3. ServiceTypeOK'
    BY <1>4, <2>1 DEF HandlePush, ServiceTypeOK, engineVars
  <2>4. OpInv'
    BY <1>4 DEF HandlePush, OpInv, ledgerVars, LedgerTypeOK, Operation,
                ServiceTypeOK
  <2> QED
    BY <2>2, <2>3, <2>4
<1>5. CASE HandleSave
  <2>1. PICK o \in op, st \in {"ok", "io"} : op' = {[o EXCEPT !.stage = st]}
    BY <1>5 DEF HandleSave, LedgerSave, LedgerSaveFails
  <2>2. o \in Operation
    BY DEF LedgerTypeOK
  <2>3. [o EXCEPT !.stage = st] \in Operation
    BY <2>2 DEF Operation, Stage
  <2>4. LedgerTypeOK' /\ up' = up
    BY <1>5, <2>1, <2>3
       DEF HandleSave, LedgerSave, LedgerSaveFails, LedgerTypeOK
  <2>5. ServiceTypeOK'
    BY <1>5 DEF HandleSave, ServiceTypeOK, engineVars, serviceVars
  <2>6. /\ [o EXCEPT !.stage = st].kind = o.kind
        /\ [o EXCEPT !.stage = st].dev = o.dev
        /\ [o EXCEPT !.stage = st].by = o.by
    BY <2>2 DEF Operation
  <2>7. OpInv'
    BY <1>5, <2>1, <2>6 DEF HandleSave, OpInv, serviceVars
  <2> QED
    BY <2>4, <2>5, <2>7
<1>6. CASE HandleReturn
  BY <1>6 DEF HandleReturn, LedgerReturn, LedgerTypeOK, ServiceTypeOK, OpInv,
              Operation, engineVars
<1> QED
  BY <1>1, <1>2, <1>3, <1>4, <1>5, <1>6 DEF ControlStep

(* No control operation leaves a device unaccounted for: the revocation    *)
(* is in the mutex's hands, then the connection's, then on the list.       *)
LEMMA ControlAccounted ==
  ASSUME LedgerTypeOK, ServiceTypeOK, OpInv, ControlStep,
         NEW d \in Devices, Accounted(d)
  PROVE  Accounted(d)'
<1> USE DEF Accounted, RevocationInFlight, Trusted
<1>1. ASSUME NEW c \in Conns, NEW e \in Devices, HandlePair(c, e)
      PROVE  Accounted(d)'
  BY <1>1 DEF HandlePair, LedgerPair, LockFree, LedgerTypeOK
<1>2. ASSUME NEW c \in Conns, NEW e \in Devices, HandleRevoke(c, e)
      PROVE  Accounted(d)'
  BY <1>2 DEF HandleRevoke, LedgerRevoke, LockFree, Begin, LedgerTypeOK,
              serviceVars
<1>3. ASSUME NEW c \in Conns, HandleOther(c) PROVE Accounted(d)'
  BY <1>3 DEF HandleOther, LedgerOther, LockFree, serviceVars
<1>4. ASSUME NEW c \in Conns, HandlePush(c) PROVE Accounted(d)'
  BY <1>4 DEF HandlePush, ServiceTypeOK, ledgerVars
<1>5. CASE HandleSave
  <2>1. PICK o \in op, st \in {"ok", "io"} : op' = {[o EXCEPT !.stage = st]}
    BY <1>5 DEF HandleSave, LedgerSave, LedgerSaveFails
  <2>2. o \in Operation
    BY DEF LedgerTypeOK
  <2>3. /\ [o EXCEPT !.stage = st].kind = o.kind
        /\ [o EXCEPT !.stage = st].dev = o.dev
    BY <2>2 DEF Operation
  <2>4. mem' = mem /\ UNCHANGED serviceVars
    BY <1>5 DEF HandleSave, LedgerSave, LedgerSaveFails
  <2> QED
    BY <2>1, <2>3, <2>4 DEF OpInv, serviceVars
<1>6. CASE HandleReturn
  <2>1. PICK o \in op :
          /\ conn' = IF o.kind = "revoke" /\ o.stage = "ok"
                     THEN [conn EXCEPT ![o.by] = o.dev] ELSE conn
          /\ orphan' = IF o.kind = "revoke" /\ o.stage = "io"
                       THEN orphan \cup {o.dev} ELSE orphan
    BY <1>6 DEF HandleReturn
  <2>2. mem' = mem /\ revoked_pending' = revoked_pending /\ op' = {}
    BY <1>6 DEF HandleReturn, LedgerReturn
  <2>3. o.stage # "save" /\ o \in Operation
    BY <1>6 DEF HandleReturn, LedgerReturn, OpInv, LedgerTypeOK
  <2>4. o.stage \in {"ok", "io"} /\ o.by \in Conns
    BY <2>3 DEF Operation, Stage
  <2>5. CASE Trusted(d) \/ d \in revoked_pending \/ d \in orphan
    BY <2>1, <2>2, <2>5
  <2>6. CASE \E c \in Conns : conn[c] = d
    BY <2>1, <2>2, <2>6, LedgerAssumption DEF OpInv, ServiceTypeOK
  <2>7. CASE \E r \in op : r.kind = "revoke" /\ r.dev = d
    BY <2>1, <2>4, <2>7 DEF OpInv, ServiceTypeOK
  <2> QED
    BY <2>5, <2>6, <2>7
<1> QED
  BY <1>1, <1>2, <1>3, <1>4, <1>5, <1>6 DEF ControlStep

(* Hence control steps keep the whole invariant.                           *)
LEMMA ControlInv == DaemonInv /\ ControlStep => DaemonInv'
<1> SUFFICES ASSUME DaemonInv, ControlStep PROVE DaemonInv'
  OBVIOUS
<1>1. LedgerTypeOK' /\ ServiceTypeOK' /\ OpInv' /\ up' = up
  BY ControlTypes DEF DaemonInv
<1>2. UNCHANGED endpointVars
  BY ControlEndpoint
<1>3. EndpointInv'
  BY <1>2, EndpointStepInv DEF EndpointStep, DaemonInv
<1>4. \A d \in Devices : Accounted(d) => Accounted(d)'
  BY ControlAccounted DEF DaemonInv
<1>5. pending' = pending /\ peers' = peers /\ inHand' = inHand
  BY <1>2 DEF endpointVars, hostVars
<1>6. (\A q \in peers : q.dev \in Devices)
        /\ (\A p \in pending : p.session.att.dev \in Devices)
  BY DEF DaemonInv, EndpointInv, EndpointTypeOK, Peer, Pending, Session,
         Attempts
<1>7. PeersAccountedFor'
  BY <1>4, <1>5, <1>6 DEF DaemonInv, PeersAccountedFor, Accounted
<1>8. AnswerInv'
  BY <1>4, <1>5, <1>6 DEF DaemonInv, AnswerInv, At
<1>9. DownInv'
  BY <1>1, <1>5 DEF DaemonInv, DownInv
<1> QED
  BY <1>1, <1>3, <1>7, <1>8, <1>9 DEF DaemonInv

-----------------------------------------------------------------------------
(* The engine, the process and the world.                                  *)

(* What a step that leaves the ledger and the service alone keeps of them. *)
LEMMA Quiet ==
  ASSUME DaemonInv, UNCHANGED <<ledgerVars, serviceVars>>
  PROVE  /\ LedgerTypeOK' /\ OpInv' /\ up' = up
         /\ \A d \in Devices : Accounted(d)' <=> Accounted(d)
BY DEF DaemonInv, LedgerTypeOK, OpInv, ledgerVars, serviceVars, Accounted,
       Trusted, RevocationInFlight

(* The engine drops every peer on the list, and holds no answer then.      *)
LEMMA DrainInv == DaemonInv /\ EngineDrain => DaemonInv'
<1> SUFFICES ASSUME DaemonInv, EngineDrain PROVE DaemonInv'
  OBVIOUS
<1> USE DEF DaemonInv
<1>1. Disconnect(revoked_pending) /\ revoked_pending \in SUBSET Devices
  BY DEF EngineDrain, ServiceTypeOK
<1>2. EndpointInv'
  BY <1>1, EndpointStepInv DEF EndpointStep
<1>3. LedgerTypeOK' /\ OpInv' /\ ServiceTypeOK'
  BY PumpAssumption
     DEF EngineDrain, LedgerTypeOK, OpInv, ServiceTypeOK, ledgerVars
<1>4. PeersAccountedFor'
  BY <1>1 DEF EngineDrain, Disconnect, PeersAccountedFor, Trusted,
              RevocationInFlight, ledgerVars
<1> QED
  BY <1>1, <1>2, <1>3, <1>4
     DEF EngineDrain, Disconnect, DownInv, AnswerInv, ledgerVars

(* The authorizer's answer is true of the one device whose handshake is    *)
(* pending at the source of the datagram.                                  *)
LEMMA EngineReceiveInv == DaemonInv /\ EngineReceive => DaemonInv'
<1> SUFFICES ASSUME DaemonInv, EngineReceive PROVE DaemonInv'
  OBVIOUS
<1> USE DEF DaemonInv
<1>1. LedgerTypeOK' /\ OpInv' /\ up' = up
        /\ \A d \in Devices : Accounted(d)' <=> Accounted(d)
  BY Quiet DEF EngineReceive
<1>2. ServiceTypeOK'
  BY PumpAssumption DEF EngineReceive, ServiceTypeOK, serviceVars
<1>3. \A q \in peers : q.dev \in Devices
  BY DEF EndpointInv, EndpointTypeOK, Peer
<1>4. \A p \in pending : p.session.att.dev \in Devices
  BY DEF EndpointInv, EndpointTypeOK, Pending, Session, Attempts
<1>5. ASSUME NEW m \in net, up, ReceiveStray(m) PROVE DaemonInv'
  <2>1. EndpointInv'
    BY <1>5, EndpointStepInv DEF EndpointStep
  <2>2. peers' = peers /\ inHand' = {}
    BY <1>5 DEF ReceiveStray
  <2> QED
    BY <1>1, <1>2, <1>3, <1>5, <2>1, <2>2
       DEF DownInv, AnswerInv, PeersAccountedFor, Accounted
<1>6. ASSUME NEW m \in net, NEW d \in Devices, LockFree,
             Receive(m, d, Trusted(d))
      PROVE  DaemonInv'
  <2>1. Trusted(d) \in BOOLEAN
    BY DEF Trusted
  <2>2. EndpointInv'
    BY <1>6, <2>1, EndpointStepInv DEF EndpointStep
  <2>3. peers' = peers /\ pending' \subseteq pending
          /\ inHand' = {[pkt |-> m, ok |-> Trusted(d)]}
    BY <1>6 DEF Receive, prune_pending
  <2>4. ASSUME NEW p \in At(pending', m.att.addr), m.type = "confirm"
        PROVE  p.session.att.dev = d
    <3>1. PICK q \in At(prune_pending, m.att.addr) : d = q.session.att.dev
      BY <1>6, <2>4 DEF Receive, Consults
    <3>2. q \in pending /\ p \in pending /\ q.addr = p.addr
      BY <2>3, <2>4, <3>1 DEF At, prune_pending
    <3> QED
      BY <3>1, <3>2 DEF EndpointInv, PendingInv
  <2>5. AnswerInv'
    <3> SUFFICES ASSUME NEW p \in At(pending', m.att.addr),
                        m.type = "confirm", Trusted(d)
                 PROVE  Accounted(p.session.att.dev)'
      BY <2>3 DEF AnswerInv, At
    <3>1. p.session.att.dev = d
      BY <2>4
    <3> QED
      BY <1>1, <3>1 DEF Accounted
  <2> QED
    BY <1>1, <1>2, <1>3, <1>6, <2>2, <2>3, <2>5
       DEF DownInv, LockFree, PeersAccountedFor, Accounted
<1> QED
  BY <1>5, <1>6 DEF EngineReceive

(* Acting on the answer: a new peer is the device the answer was about.    *)
LEMMA EngineHandleInv == DaemonInv /\ EngineHandle => DaemonInv'
<1> SUFFICES ASSUME DaemonInv, EngineHandle PROVE DaemonInv'
  OBVIOUS
<1> USE DEF DaemonInv
<1>1. LedgerTypeOK' /\ OpInv' /\ up' = up
        /\ \A d \in Devices : Accounted(d)' <=> Accounted(d)
  BY Quiet DEF EngineHandle
<1>2. ServiceTypeOK'
  BY DEF EngineHandle, ServiceTypeOK, serviceVars, engineVars
<1>3. EndpointInv'
  BY EndpointStepInv DEF EndpointStep, EngineHandle
<1>4. \A q \in peers : q.dev \in Devices
  BY DEF EndpointInv, EndpointTypeOK, Peer
<1>5. inHand' = {} /\ up
  BY DEF EngineHandle, Handle, DropInit, AcceptInit, DenyConfirm,
         FailConfirm, AcceptConfirm
<1>6. PeersAccountedFor'
  <2>1. CASE AcceptConfirm
    <3>1. PICK h \in inHand :
            \E p \in At(pending, h.pkt.att.addr) :
              /\ h.pkt.type = "confirm" /\ h.ok
              /\ peers' = {q \in peers : q.dev # p.session.att.dev}
                   \cup {[dev |-> p.session.att.dev, addr |-> p.addr,
                          session |-> p.session]}
      BY <2>1 DEF AcceptConfirm
    <3>2. PICK p \in At(pending, h.pkt.att.addr) :
            /\ h.pkt.type = "confirm" /\ h.ok
            /\ peers' = {q \in peers : q.dev # p.session.att.dev}
                 \cup {[dev |-> p.session.att.dev, addr |-> p.addr,
                        session |-> p.session]}
      BY <3>1
    <3>3. Accounted(p.session.att.dev) /\ p.session.att.dev \in Devices
      BY <3>2 DEF AnswerInv, At, EndpointInv, EndpointTypeOK, Pending,
                  Session, Attempts
    <3>4. \A q \in peers : Accounted(q.dev)
      BY DEF PeersAccountedFor, Accounted
    <3>5. \A q \in peers' : Accounted(q.dev) /\ q.dev \in Devices
      BY <1>4, <3>2, <3>3, <3>4
    <3>6. \A q \in peers' : Accounted(q.dev)'
      BY <1>1, <3>5
    <3> QED
      BY <3>6 DEF PeersAccountedFor, Accounted
  <2>2. CASE ~AcceptConfirm
    <3>1. peers' \subseteq peers
      BY <2>2 DEF EngineHandle, Handle, DropInit, AcceptInit, DenyConfirm,
                  FailConfirm
    <3> QED
      BY <1>1, <1>4, <3>1 DEF PeersAccountedFor, Accounted
  <2> QED
    BY <2>1, <2>2
<1> QED
  BY <1>1, <1>2, <1>3, <1>5, <1>6 DEF DownInv, AnswerInv

(* Steps after which nothing new is pending, connected or in hand.         *)
LEMMA CalmInv ==
  ASSUME DaemonInv, UNCHANGED <<ledgerVars, serviceVars>>, ServiceTypeOK',
         EndpointInv', UNCHANGED hostVars
  PROVE  DaemonInv'
<1> USE DEF DaemonInv
<1>1. LedgerTypeOK' /\ OpInv' /\ up' = up
        /\ \A d \in Devices : Accounted(d)' <=> Accounted(d)
  BY Quiet
<1>2. pending' = pending /\ peers' = peers /\ inHand' = inHand
  BY DEF hostVars
<1>3. \A q \in peers : q.dev \in Devices
  BY DEF EndpointInv, EndpointTypeOK, Peer
<1>4. \A p \in pending : p.session.att.dev \in Devices
  BY DEF EndpointInv, EndpointTypeOK, Pending, Session, Attempts
<1>5. PeersAccountedFor'
  BY <1>1, <1>2, <1>3 DEF PeersAccountedFor, Accounted
<1>6. AnswerInv'
  BY <1>1, <1>2, <1>4 DEF AnswerInv, At
<1> QED
  BY <1>1, <1>2, <1>5, <1>6 DEF DownInv

LEMMA TurnInv == DaemonInv /\ EngineTurn => DaemonInv'
<1> SUFFICES ASSUME DaemonInv, EngineTurn PROVE DaemonInv'
  OBVIOUS
<1>1. EndpointInv'
  BY EndpointStepInv DEF EndpointStep, EngineTurn, DaemonInv
<1>2. ServiceTypeOK'
  BY DEF EngineTurn, DaemonInv, ServiceTypeOK, serviceVars
<1> QED
  BY <1>1, <1>2, CalmInv DEF EngineTurn, endpointVars

LEMMA WorldInv == DaemonInv /\ World => DaemonInv'
<1> SUFFICES ASSUME DaemonInv, World PROVE DaemonInv'
  OBVIOUS
<1>1. EndpointInv'
  BY EndpointStepInv DEF EndpointStep, World, DaemonInv
<1>2. ServiceTypeOK'
  BY DEF World, DaemonInv, ServiceTypeOK, serviceVars, engineVars
<1>3. UNCHANGED hostVars
  BY DEF World, Client, SendInit, Complete, GiveUp, Tick
<1> QED
  BY <1>1, <1>2, <1>3, CalmInv DEF World

(* A crash leaves no session, and with it nothing to account for.          *)
LEMMA CrashInv == DaemonInv /\ DaemonCrash => DaemonInv'
<1> SUFFICES ASSUME DaemonInv, DaemonCrash PROVE DaemonInv'
  OBVIOUS
<1> USE DEF DaemonInv
<1>1. now \in Nat
  BY DEF EndpointInv, EndpointTypeOK
<1>2. EndpointInv'
  BY <1>1, ShrinkInv DEF DaemonCrash, clientVars
<1>3. LedgerTypeOK' /\ OpInv'
  BY DEF DaemonCrash, LedgerCrash, LedgerTypeOK, OpInv, Verdict
<1>4. ServiceTypeOK'
  BY PumpAssumption DEF DaemonCrash, ServiceTypeOK
<1> QED
  BY <1>2, <1>3, <1>4 DEF DaemonCrash, DownInv, AnswerInv, PeersAccountedFor

LEMMA RestartInv == DaemonInv /\ DaemonRestart => DaemonInv'
<1> SUFFICES ASSUME DaemonInv, DaemonRestart PROVE DaemonInv'
  OBVIOUS
<1> USE DEF DaemonInv
<1>1. EndpointInv'
  BY EndpointStepInv DEF EndpointStep, DaemonRestart
<1>2. LedgerTypeOK' /\ OpInv' /\ ServiceTypeOK'
  BY DEF DaemonRestart, LedgerRestart, LedgerTypeOK, OpInv, ServiceTypeOK,
         engineVars, serviceVars
<1>3. peers' = {} /\ inHand' = {}
  BY DEF DaemonRestart, LedgerRestart, DownInv, endpointVars, hostVars
<1> QED
  BY <1>1, <1>2, <1>3 DEF DownInv, AnswerInv, PeersAccountedFor

LEMMA DaemonNextInv == DaemonInv /\ [DaemonNext]_daemonVars => DaemonInv'
<1> SUFFICES ASSUME DaemonInv, [DaemonNext]_daemonVars PROVE DaemonInv'
  OBVIOUS
<1>1. CASE ControlStep
  BY <1>1, ControlInv
<1>2. CASE Engine
  BY <1>2, DrainInv, EngineReceiveInv, EngineHandleInv, TurnInv DEF Engine
<1>3. CASE DaemonCrash \/ DaemonRestart \/ World
  BY <1>3, CrashInv, RestartInv, WorldInv
<1>4. CASE UNCHANGED daemonVars
  <2>1. EndpointInv'
    BY <1>4, EndpointStepInv DEF EndpointStep, daemonVars, DaemonInv
  <2>2. ServiceTypeOK'
    BY <1>4 DEF daemonVars, DaemonInv, ServiceTypeOK, serviceVars, engineVars
  <2> QED
    BY <1>4, <2>1, <2>2, CalmInv DEF daemonVars, endpointVars
<1> QED
  BY <1>1, <1>2, <1>3, <1>4 DEF DaemonNext, ControlStep

-----------------------------------------------------------------------------
(* The theorems.                                                           *)

LEMMA DaemonInvariance == DaemonSafety => []DaemonInv
BY DaemonInitInv, DaemonNextInv, PTL DEF DaemonSafety

(* Every thread of the daemon leaves the shared state well formed: only    *)
(* real devices reach the engine's list of revocations.                    *)
THEOREM DaemonTypes == DaemonSafety => []DaemonTypeOK
<1>1. DaemonInv => DaemonTypeOK
  BY DEF DaemonInv, DaemonTypeOK, ServiceTypeOK, EndpointInv
<1> QED
  BY <1>1, DaemonInvariance, PTL

(* Default deny for any number of devices, connections and datagrams: a    *)
(* device has a session only while it is trusted, while its revocation is  *)
(* on its way to the engine, or after a revoke that failed to save.        *)
THEOREM PeersAlwaysAccountedFor == DaemonSafety => []PeersAccountedFor
<1>1. DaemonInv => PeersAccountedFor
  BY DEF DaemonInv
<1> QED
  BY <1>1, DaemonInvariance, PTL

=============================================================================
