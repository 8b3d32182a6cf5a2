---------------------------- MODULE HostEndpoint ----------------------------
(***************************************************************************)
(* The host's UDP endpoint (transport/udp.rs) and the three-message        *)
(* handshake it runs with devices (transport/handshake.rs), over a network *)
(* that loses, duplicates and reorders datagrams.                          *)
(*                                                                         *)
(* Keys are symbolic.  An attempt is one ClientEndpoint: a device, the     *)
(* address its socket got, and a serial number that stands for its         *)
(* ephemeral key.  The host draws a new ephemeral key (a number) for every *)
(* init it accepts, and a session is the pair of both: a confirm opens     *)
(* under a session exactly when it was sealed under the same one.          *)
(*                                                                         *)
(* The engine thread owns the endpoint, so a datagram is handled in one go *)
(* except for the authorizer, which takes the pairing mutex in the middle: *)
(* `inHand` is the datagram taken from the socket with the authorizer's    *)
(* answer, and other threads run before the answer is acted on.            *)
(***************************************************************************)
EXTENDS Naturals, FiniteSets, DeviceIds

CONSTANTS
  Addrs,                \* source addresses
  MAX_PENDING,          \* MAX_PENDING_HANDSHAKES
  MAX_PER_DEVICE,       \* MAX_PENDING_HANDSHAKES_PER_DEVICE
  PENDING_TTL,          \* PENDING_HANDSHAKE_TTL, in ticks
  MaxTries,             \* bound: attempts per device and address
  MaxEph,               \* bound: inits the host accepts
  MaxNow                \* bound: the monotonic clock

ASSUME EndpointAssumption ==
  /\ IsFiniteSet(Addrs)
  /\ MAX_PENDING \in Nat \ {0}
  /\ MAX_PER_DEVICE \in Nat \ {0}
  /\ PENDING_TTL \in Nat \ {0}
  /\ MaxTries \in Nat
  /\ MaxEph \in Nat
  /\ MaxNow \in Nat

VARIABLES
  pending,      \* HostEndpoint::pending, at most one entry per address
  peers,        \* HostEndpoint::peers, at most one entry per device
  inHand,       \* {} or the datagram being handled, and the authorizer's word
  lastEph,      \* the last ephemeral key the host generated
  now,          \* Instant::now()
  net,          \* every datagram ever sent: it may arrive at any time, again
  step,         \* HandshakeClient::step of each attempt
  agreed,       \* history: sessions that a client completed
  established   \* history: sessions that were ever peers

clientVars == <<step, agreed>>
hostVars == <<pending, peers, inHand, lastEph, established>>
endpointVars == <<hostVars, clientVars, net, now>>

Attempts == [dev: Devices, addr: Addrs, try: 1..MaxTries]
Eph == 1..MaxEph
Session == [att: Attempts, eph: Eph]

(* An init carries no host key yet: eph 0.                                 *)
Packet ==
  [type: {"init", "response", "confirm"}, att: Attempts, eph: Eph \cup {0}]
Pending == [addr: Addrs, session: Session, created: Nat]
Peer == [dev: Devices, addr: Addrs, session: Session]

(* Type invariant: every pending handshake and every peer of the endpoint  *)
(* is for a device key.                                                    *)
EndpointTypeOK ==
  /\ pending \in SUBSET Pending
  /\ peers \in SUBSET Peer
  /\ inHand \in SUBSET [pkt: Packet, ok: BOOLEAN]
  /\ lastEph \in Eph \cup {0}
  /\ now \in Nat
  /\ net \in SUBSET Packet
  /\ step \in [Attempts -> {"init", "response", "done", "failed"}]
  /\ agreed \in SUBSET Session
  /\ established \in SUBSET Session

EndpointInit ==
  /\ pending = {}
  /\ peers = {}
  /\ inHand = {}
  /\ lastEph = 0
  /\ now = 0
  /\ net = {}
  /\ step = [a \in Attempts |-> "init"]
  /\ agreed = {}
  /\ established = {}

InitMsg(a) == [type |-> "init", att |-> a, eph |-> 0]
Response(s) == [type |-> "response", att |-> s.att, eph |-> s.eph]
Confirm(s) == [type |-> "confirm", att |-> s.att, eph |-> s.eph]
SessionOf(m) == [att |-> m.att, eph |-> m.eph]

-----------------------------------------------------------------------------
(* The device: ClientEndpoint.  Its socket gets a fresh address, and init  *)
(* is sent once.                                                           *)

SendInit(a) ==
  /\ step[a] = "init"
  /\ step' = [step EXCEPT ![a] = "response"]
  /\ net' = net \cup {InitMsg(a)}
  /\ UNCHANGED <<hostVars, agreed, now>>

(* complete(): a response to this attempt yields the session, and confirm  *)
(* goes out.                                                               *)
Complete(a, m) ==
  /\ step[a] = "response"
  /\ m.type = "response"
  /\ m.att = a
  /\ step' = [step EXCEPT ![a] = "done"]
  /\ agreed' = agreed \cup {SessionOf(m)}
  /\ net' = net \cup {Confirm(SessionOf(m))}
  /\ UNCHANGED <<hostVars, now>>

(* The read timed out, or the datagram was not a response to this attempt: *)
(* the step is spent either way and the attempt is over.                   *)
GiveUp(a) ==
  /\ step[a] = "response"
  /\ step' = [step EXCEPT ![a] = "failed"]
  /\ UNCHANGED <<hostVars, agreed, net, now>>

-----------------------------------------------------------------------------
(* The host.                                                               *)

Live(p) == now - p.created < PENDING_TTL
prune_pending == {p \in pending : Live(p)}

At(P, a) == {p \in P : p.addr = a}
Of(P, d) == {p \in P : p.session.att.dev = d}

(* pump takes a datagram, prunes, and handle_init or handle_confirm asks   *)
(* the authorizer about device d.                                          *)
Consults(m, d) ==
  IF m.type = "init" THEN d = m.att.dev
  ELSE \E p \in At(prune_pending, m.att.addr) : d = p.session.att.dev

Receive(m, d, ok) ==
  /\ inHand = {}
  /\ m.type = "confirm" \/ (m.type = "init" /\ lastEph < MaxEph)
  /\ Consults(m, d)
  /\ pending' = prune_pending
  /\ inHand' = {[pkt |-> m, ok |-> ok]}
  /\ UNCHANGED <<peers, lastEph, established, clientVars, net, now>>

(* A datagram that consults nobody: a confirm without a pending handshake. *)
ReceiveStray(m) ==
  /\ inHand = {}
  /\ m.type = "confirm"
  /\ At(prune_pending, m.att.addr) = {}
  /\ pending' = prune_pending
  /\ UNCHANGED <<peers, inHand, lastEph, established, clientVars, net, now>>

(* A mutant of Refused: both limits must be reached.                       *)
RefusedBoth(a) ==
  /\ At(pending, a.addr) = {}
  /\ Cardinality(pending) >= MAX_PENDING
  /\ Cardinality(Of(pending, a.dev)) >= MAX_PER_DEVICE

(* A source may replace its own entry; a new one needs room.               *)
Refused(a) ==
  /\ At(pending, a.addr) = {}
  /\ \/ Cardinality(pending) >= MAX_PENDING
     \/ Cardinality(Of(pending, a.dev)) >= MAX_PER_DEVICE

(* handle_init for an unauthorized device or with the map full: silence.   *)
DropInit ==
  \E h \in inHand :
    /\ h.pkt.type = "init"
    /\ ~h.ok \/ Refused(h.pkt.att)
    /\ inHand' = {}
    /\ UNCHANGED <<pending, peers, lastEph, established, clientVars, net, now>>

(* A mutant of AcceptInit: answers without a key of its own.               *)
AcceptInitKeyless ==
  \E h \in inHand :
    LET s == [att |-> h.pkt.att, eph |-> 0] IN
    /\ h.pkt.type = "init"
    /\ h.ok
    /\ ~Refused(h.pkt.att)
    /\ pending' = (pending \ At(pending, h.pkt.att.addr))
         \cup {[addr |-> h.pkt.att.addr, session |-> s, created |-> now]}
    /\ inHand' = {}
    /\ net' = net \cup {Response(s)}
    /\ UNCHANGED <<peers, lastEph, established, clientVars, now>>

(* handle_init: accept_init generates the host's ephemeral key, the entry  *)
(* of the source is replaced, the response goes out.                       *)
AcceptInit ==
  \E h \in inHand :
    LET a == h.pkt.att
        s == [att |-> a, eph |-> lastEph + 1]
    IN
    /\ h.pkt.type = "init"
    /\ h.ok
    /\ ~Refused(a)
    /\ lastEph < MaxEph
    /\ lastEph' = lastEph + 1
    /\ pending' = (pending \ At(pending, a.addr))
                    \cup {[addr |-> a.addr, session |-> s, created |-> now]}
    /\ inHand' = {}
    /\ net' = net \cup {Response(s)}
    /\ UNCHANGED <<peers, established, clientVars, now>>

(* handle_confirm, the device no longer trusted: the handshake goes, and   *)
(* with it any session of that device.                                     *)
DenyConfirm ==
  \E h \in inHand : \E p \in At(pending, h.pkt.att.addr) :
    /\ h.pkt.type = "confirm"
    /\ ~h.ok
    /\ pending' = pending \ At(pending, h.pkt.att.addr)
    /\ peers' = {q \in peers : q.dev # p.session.att.dev}
    /\ inHand' = {}
    /\ UNCHANGED <<lastEph, established, clientVars, net, now>>

(* handle_confirm, verify_confirm fails: sealed under another session than *)
(* the one pending for this source.                                        *)
FailConfirm ==
  \E h \in inHand : \E p \in At(pending, h.pkt.att.addr) :
    /\ h.pkt.type = "confirm"
    /\ h.ok
    /\ p.session # SessionOf(h.pkt)
    /\ pending' = pending \ At(pending, h.pkt.att.addr)
    /\ inHand' = {}
    /\ UNCHANGED <<peers, lastEph, established, clientVars, net, now>>

(* Mutants of AcceptConfirm: the confirm is not verified; the handshake    *)
(* stays pending.                                                          *)
AcceptConfirmBy(h, p, left) ==
  /\ h.pkt.type = "confirm"
  /\ pending' = left
  /\ peers' = {q \in peers : q.dev # p.session.att.dev}
                \cup {[dev |-> p.session.att.dev, addr |-> p.addr,
                       session |-> p.session]}
  /\ established' = established \cup {p.session}
  /\ inHand' = {}
  /\ UNCHANGED <<lastEph, clientVars, net, now>>

AcceptConfirmUnverified ==
  \E h \in inHand : \E p \in At(pending, h.pkt.att.addr) :
    h.ok /\ AcceptConfirmBy(h, p, pending \ At(pending, h.pkt.att.addr))

AcceptConfirmKeepsPending ==
  \E h \in inHand : \E p \in At(pending, h.pkt.att.addr) :
    /\ h.ok
    /\ p.session = SessionOf(h.pkt)
    /\ AcceptConfirmBy(h, p, pending)

(* handle_confirm: the handshake becomes the device's session, with a new  *)
(* replay window, in place of any session the device had.                  *)
AcceptConfirm ==
  \E h \in inHand : \E p \in At(pending, h.pkt.att.addr) :
    /\ h.pkt.type = "confirm"
    /\ h.ok
    /\ p.session = SessionOf(h.pkt)
    /\ pending' = pending \ At(pending, h.pkt.att.addr)
    /\ peers' = {q \in peers : q.dev # p.session.att.dev}
                  \cup {[dev |-> p.session.att.dev, addr |-> p.addr,
                         session |-> p.session]}
    /\ established' = established \cup {p.session}
    /\ inHand' = {}
    /\ UNCHANGED <<lastEph, clientVars, net, now>>

Handle ==
  DropInit \/ AcceptInit \/ DenyConfirm \/ FailConfirm \/ AcceptConfirm

(* disconnect(): the peer and every handshake that could confirm it.       *)
Disconnect(D) ==
  /\ inHand = {}
  /\ peers' = {q \in peers : q.dev \notin D}
  /\ pending' = {p \in pending : p.session.att.dev \notin D}
  /\ UNCHANGED <<inHand, lastEph, established, clientVars, net, now>>

Tick ==
  /\ now < MaxNow
  /\ now' = now + 1
  /\ UNCHANGED <<hostVars, clientVars, net>>

Client ==
  \E a \in Attempts :
    \/ SendInit(a)
    \/ \E m \in net : Complete(a, m)
    \/ GiveUp(a)

(* On its own the endpoint meets an authorizer that may answer anything    *)
(* and an engine that may disconnect any device at any time.               *)
EndpointNext ==
  \/ Client
  \/ \E m \in net :
       \/ \E d \in Devices, ok \in BOOLEAN : Receive(m, d, ok)
       \/ ReceiveStray(m)
  \/ Handle
  \/ \E d \in Devices : Disconnect({d})
  \/ Tick

EndpointSpec == EndpointInit /\ [][EndpointNext]_endpointVars

-----------------------------------------------------------------------------
(* Properties.                                                             *)

(* The pending map stays within its fixed bound whatever arrives.          *)
PendingBounded == Cardinality(pending) <= MAX_PENDING

(* Every peer is a session its device completed, on the attempt and from   *)
(* the address it holds it for: replayed and reordered inits and confirms  *)
(* never produce a session only the host believes in.                      *)
PeersAgreed ==
  \A q \in peers :
    /\ q.session \in agreed
    /\ q.dev = q.session.att.dev
    /\ q.addr = q.session.att.addr

(* handle_confirm gives a peer a fresh replay window, so a session may     *)
(* become a peer once only: a duplicated confirm must not bring a session  *)
(* back with an empty window, nor after it was disconnected.               *)
SessionOnce ==
  [][\A q \in peers' \ peers : q.session \notin established]_endpointVars

(* What udp.rs says of MAX_PENDING_HANDSHAKES_PER_DEVICE: one device never *)
(* holds more pending handshakes than its share.                           *)
PerDeviceBounded ==
  \A d \in Devices : Cardinality(Of(pending, d)) <= MAX_PER_DEVICE

=============================================================================
