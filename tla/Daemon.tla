------------------------------- MODULE Daemon -------------------------------
(***************************************************************************)
(* The running daemon as far as trust is concerned: control connections    *)
(* that pair and revoke (service.rs, Service::handle), the engine thread   *)
(* that drains revocations and pumps the streaming endpoint                *)
(* (service.rs, run_engine), the pairing store and the devices.            *)
(*                                                                         *)
(* A revocation crosses both mutexes, never holding the two: the store is  *)
(* changed and saved under the pairing mutex, then the id is pushed on     *)
(* `revoked_pending` under the inner one, then the engine takes the list   *)
(* and disconnects.  The engine asks the store about a handshake under the *)
(* pairing mutex and acts on the answer after releasing it.  Everything    *)
(* the other threads do in those gaps is a behaviour of this module.       *)
(***************************************************************************)
EXTENDS TrustLedger, HostEndpoint

CONSTANT PUMP_MAX   \* datagrams per engine turn: pump(16, ..)

ASSUME PumpAssumption == PUMP_MAX \in Nat

VARIABLES
  revoked_pending,   \* Inner::revoked_pending
  conn,              \* the id a connection has revoked and not pushed yet
  phase,             \* where the engine is in its turn: "drain" or "pump"
  budget,            \* datagrams pump may still take this turn
  orphan             \* history: devices whose last revoke failed to save

engineVars == <<phase, budget>>
serviceVars == <<revoked_pending, conn, orphan>>
daemonVars == <<ledgerVars, endpointVars, engineVars, serviceVars>>

(* Type invariant: the revoked ids the engine has not drained are ids of   *)
(* devices, and each thread of the daemon is at one of its steps.          *)
DaemonTypeOK ==
  /\ LedgerTypeOK
  /\ EndpointTypeOK
  /\ revoked_pending \in SUBSET Devices
  /\ conn \in [Conns -> Devices \cup {None}]
  /\ phase \in {"drain", "pump"}
  /\ budget \in 0..PUMP_MAX
  /\ orphan \in SUBSET Devices

DaemonInit ==
  /\ LedgerInit
  /\ EndpointInit
  /\ revoked_pending = {}
  /\ conn = [c \in Conns |-> None]
  /\ phase = "drain"
  /\ budget = PUMP_MAX
  /\ orphan = {}

-----------------------------------------------------------------------------
(* Control connections.  A connection serves one request at a time.        *)

HandlePair(c, d) ==
  /\ conn[c] = None
  /\ LedgerPair(c, d)
  /\ orphan' = orphan \ {d}
  /\ UNCHANGED <<endpointVars, engineVars, revoked_pending, conn>>

HandleOther(c) ==
  /\ conn[c] = None
  /\ LedgerOther(c)
  /\ UNCHANGED <<endpointVars, engineVars, serviceVars>>

HandleRevoke(c, d) ==
  /\ conn[c] = None
  /\ LedgerRevoke(c, d)
  /\ UNCHANGED <<endpointVars, engineVars, serviceVars>>

HandleSave ==
  /\ LedgerSave \/ LedgerSaveFails
  /\ UNCHANGED <<endpointVars, engineVars, serviceVars>>

(* The pairing guard is dropped.  Only Ok(device) leads to the push.       *)
HandleReturn ==
  \E o \in op :
    /\ LedgerReturn
    /\ conn' = IF o.kind = "revoke" /\ o.stage = "ok"
               THEN [conn EXCEPT ![o.by] = o.dev] ELSE conn
    /\ orphan' = IF o.kind = "revoke" /\ o.stage = "io"
                 THEN orphan \cup {o.dev} ELSE orphan
    /\ UNCHANGED <<endpointVars, engineVars, revoked_pending>>

(* A mutant of HandlePush: pushes whether or not a device was revoked.     *)
HandlePushAlways(c) ==
  /\ revoked_pending' = revoked_pending \cup {conn[c]}
  /\ conn' = [conn EXCEPT ![c] = None]
  /\ UNCHANGED <<ledgerVars, endpointVars, engineVars, orphan>>

(* The id goes to the engine, and the connection answers.                  *)
HandlePush(c) ==
  /\ conn[c] # None
  /\ revoked_pending' = revoked_pending \cup {conn[c]}
  /\ conn' = [conn EXCEPT ![c] = None]
  /\ UNCHANGED <<ledgerVars, endpointVars, engineVars, orphan>>

-----------------------------------------------------------------------------
(* The engine thread.                                                      *)

(* A mutant of EngineDrain: takes the list and disconnects nobody.         *)
EngineDrainIdle ==
  /\ up
  /\ phase = "drain"
  /\ inHand = {}
  /\ revoked_pending' = {}
  /\ phase' = "pump"
  /\ budget' = PUMP_MAX
  /\ UNCHANGED <<ledgerVars, endpointVars, conn, orphan>>

(* take_revoked and the disconnects: the list is emptied under the inner   *)
(* mutex, and only the engine touches the endpoint, so this is one step.   *)
EngineDrain ==
  /\ up
  /\ phase = "drain"
  /\ Disconnect(revoked_pending)
  /\ revoked_pending' = {}
  /\ phase' = "pump"
  /\ budget' = PUMP_MAX
  /\ UNCHANGED <<ledgerVars, conn, orphan>>

(* A mutant of EngineReceive: the authorizer forgets to look at `revoked`. *)
EngineReceiveOnFile ==
  /\ phase = "pump"
  /\ budget > 0
  /\ budget' = budget - 1
  /\ \E m \in net :
       \/ \E d \in Devices : LockFree /\ Receive(m, d, mem[d] # "absent")
       \/ up /\ ReceiveStray(m)
  /\ UNCHANGED <<ledgerVars, serviceVars, phase>>

(* A datagram is taken, and the authorizer reads the store, which it can   *)
(* only do while no operation holds the pairing mutex.                     *)
EngineReceive ==
  /\ phase = "pump"
  /\ budget > 0
  /\ budget' = budget - 1
  /\ \E m \in net :
       \/ \E d \in Devices : LockFree /\ Receive(m, d, Trusted(d))
       \/ up /\ ReceiveStray(m)
  /\ UNCHANGED <<ledgerVars, serviceVars, phase>>

EngineHandle ==
  /\ up
  /\ phase = "pump"
  /\ Handle
  /\ UNCHANGED <<ledgerVars, serviceVars, engineVars>>

(* Nothing more to read, or the budget is spent: the rest of the turn      *)
(* (capture, encode, ship) reads the peers and leaves them alone.          *)
EngineTurn ==
  /\ up
  /\ phase = "pump"
  /\ inHand = {}
  /\ phase' = "drain"
  /\ UNCHANGED <<ledgerVars, endpointVars, serviceVars, budget>>

Engine == EngineDrain \/ EngineReceive \/ EngineHandle \/ EngineTurn

-----------------------------------------------------------------------------
(* The process and the world.                                              *)

DaemonCrash ==
  /\ LedgerCrash
  /\ pending' = {}
  /\ peers' = {}
  /\ inHand' = {}
  /\ revoked_pending' = {}
  /\ conn' = [c \in Conns |-> None]
  /\ orphan' = {}
  /\ phase' = "drain"
  /\ budget' = PUMP_MAX
  /\ UNCHANGED <<lastEph, established, clientVars, net, now>>

DaemonRestart ==
  /\ LedgerRestart
  /\ UNCHANGED <<endpointVars, engineVars, serviceVars>>

World ==
  /\ Client \/ Tick
  /\ UNCHANGED <<ledgerVars, engineVars, serviceVars>>

DaemonNext ==
  \/ \E c \in Conns, d \in Devices : HandlePair(c, d) \/ HandleRevoke(c, d)
  \/ \E c \in Conns : HandleOther(c) \/ HandlePush(c)
  \/ HandleSave
  \/ HandleReturn
  \/ Engine
  \/ DaemonCrash
  \/ DaemonRestart
  \/ World

DaemonSafety == DaemonInit /\ [][DaemonNext]_daemonVars

(* Threads that can run do: a connection finishes the request it is in,    *)
(* and the engine goes round its loop, which takes at most PUMP_MAX        *)
(* datagrams and never waits longer than a read timeout.  Nothing is       *)
(* assumed of the devices, the network or the operator.                    *)
DaemonFairness ==
  /\ WF_daemonVars(HandleSave)
  /\ WF_daemonVars(HandleReturn)
  /\ \A c \in Conns : WF_daemonVars(HandlePush(c))
  /\ WF_daemonVars(EngineDrain)
  /\ WF_daemonVars(EngineHandle)
  /\ WF_daemonVars(EngineTurn)

DaemonSpec == DaemonSafety /\ DaemonFairness

-----------------------------------------------------------------------------
(* Properties.                                                             *)

(* The revocation of d is somewhere on its way to the engine.              *)
RevocationInFlight(d) ==
  \/ \E o \in op : o.kind = "revoke" /\ o.dev = d
  \/ \E c \in Conns : conn[c] = d
  \/ d \in revoked_pending

(* Default deny, at every instant and in every interleaving: a device has  *)
(* a session only if it is paired and not revoked, or its revocation is on *)
(* its way to the engine, or the revoke request answered with an error     *)
(* because the store could not be saved.                                   *)
PeersAccountedFor ==
  \A q \in peers :
    \/ Trusted(q.dev)
    \/ RevocationInFlight(q.dev)
    \/ q.dev \in orphan

(* A device whose revocation was saved leaves the stream for good, or is   *)
(* paired again: whatever it sends meanwhile and whatever handshake races  *)
(* with the two locks of revoke, the drain and the authorizer's answer, no *)
(* session of it is left over and none comes back.                         *)
RevokedLeaves ==
  \A d \in Devices :
    (\E c \in Conns : conn[c] = d)
      ~> (Trusted(d) \/ [](\A q \in peers : q.dev # d))

(* What service.rs says of revoked_pending: a device that is revoked is    *)
(* disconnected by the engine.                                             *)
RevokedDisconnected ==
  \A d \in Devices :
    (mem[d] = "revoked") ~> (mem[d] = "active" \/ \A q \in peers : q.dev # d)

=============================================================================
