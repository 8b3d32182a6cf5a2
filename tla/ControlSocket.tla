--------------------------- MODULE ControlSocket ---------------------------
(***************************************************************************)
(* The control socket (control.rs) and the life of the daemons that serve  *)
(* it (main.rs, run_serve): how a daemon comes by the host key (crypto.rs, *)
(* HostIdentity), takes the path, serves a bounded number of connections,  *)
(* and gives the path back.                                                *)
(*                                                                         *)
(* Key file and path are shared by every daemon of the user.               *)
(* load_or_create() and bind() look at them in several system calls (open, *)
(* open to truncate, write; exists, connect, remove_file, bind, chmod).    *)
(* Each is a step, and other daemons and crashes come in between.          *)
(***************************************************************************)
EXTENDS Naturals, FiniteSets

CONSTANTS
  Daemons,           \* processes started with the same socket path
  Clients,           \* CLI processes
  MAX_CONNECTIONS    \* connections served at a time

ASSUME SocketAssumption ==
  /\ IsFiniteSet(Daemons)
  /\ IsFiniteSet(Clients)
  /\ Daemons \cap {"none", "partial", "stale"} = {}
  /\ MAX_CONNECTIONS \in Nat

VARIABLES
  hostkey,     \* host.key: "none", "partial" (truncated, not written to the
               \* end), or the daemon that made the key in it
  path,        \* the daemon whose socket is at the path, "stale" or "none"
  pc,          \* what each daemon's server thread does next
  shutdown,    \* Service::shutdown of each daemon
  signalled,   \* SIGNALLED of each daemon
  backlog,     \* connections a daemon has not accepted yet
  conns,       \* its connection threads: client and state
  permits,     \* active_connections
  unclean,     \* history: a daemon died, or gave up after it had bound
  raced,       \* history: two daemons were inside bind() at the same time
  keyRaced,    \* history: two daemons looked for the key at the same time
  used         \* history: the keys daemons went on with

keyVars == <<hostkey, keyRaced, used>>
history == <<unclean, raced, keyVars>>
socketVars == <<path, pc, shutdown, signalled, backlog, conns, permits,
                history>>

Keying == {"key", "create", "write"}
Binding == {"exists", "connect", "remove", "bind", "chmod"}
Listening == {"chmod", "serve", "unlink", "close"}

(* "ended": the thread's work is done and its permit not released yet.     *)
Conn == [client: Clients, at: {"read", "reply", "ended"}]

(* Type invariant: a daemon is at one of the steps of start, bind, serve   *)
(* and drop, with at most MAX_CONNECTIONS permits out.                     *)
SocketTypeOK ==
  /\ hostkey \in Daemons \cup {"none", "partial"}
  /\ path \in Daemons \cup {"none", "stale"}
  /\ pc \in [Daemons -> Keying \cup Binding \cup Listening \cup {"off", "silent"}]
  /\ shutdown \in [Daemons -> BOOLEAN]
  /\ signalled \in [Daemons -> BOOLEAN]
  /\ backlog \in [Daemons -> SUBSET Clients]
  /\ conns \in [Daemons -> SUBSET Conn]
  /\ permits \in [Daemons -> 0..MAX_CONNECTIONS]
  /\ unclean \in BOOLEAN
  /\ raced \in BOOLEAN
  /\ keyRaced \in BOOLEAN
  /\ used \in SUBSET Daemons

SocketInit ==
  /\ hostkey = "none"
  /\ path = "none"
  /\ pc = [d \in Daemons |-> "off"]
  /\ shutdown = [d \in Daemons |-> FALSE]
  /\ signalled = [d \in Daemons |-> FALSE]
  /\ backlog = [d \in Daemons |-> {}]
  /\ conns = [d \in Daemons |-> {}]
  /\ permits = [d \in Daemons |-> 0]
  /\ unclean = FALSE
  /\ raced = FALSE
  /\ keyRaced = FALSE
  /\ used = {}

Goto(d, here, there) == pc[d] = here /\ pc' = [pc EXCEPT ![d] = there]

(* Everything a process holds in memory, gone with it.                     *)
Forget(d) ==
  /\ pc' = [pc EXCEPT ![d] = "off"]
  /\ shutdown' = [shutdown EXCEPT ![d] = FALSE]
  /\ signalled' = [signalled EXCEPT ![d] = FALSE]
  /\ backlog' = [backlog EXCEPT ![d] = {}]
  /\ conns' = [conns EXCEPT ![d] = {}]
  /\ permits' = [permits EXCEPT ![d] = 0]

servingVars == <<shutdown, signalled, backlog, conns, permits>>

-----------------------------------------------------------------------------
(* run_serve up to bind(): HostIdentity::load_or_create.                   *)

Start(d) ==
  /\ Goto(d, "off", "key")
  /\ keyRaced' = (keyRaced \/ \E e \in Daemons : pc[e] \in Keying)
  /\ UNCHANGED <<path, servingVars, unclean, raced, hostkey, used>>

(* The daemon has its key, and goes on to bind.                            *)
GoesOn(d, here, k) ==
  /\ Goto(d, here, "exists")
  /\ used' = used \cup {k}
  /\ raced' = (raced \/ \E e \in Daemons : pc[e] \in Binding)
  /\ UNCHANGED <<path, servingVars, unclean, keyRaced>>

LoadKey(d) ==
  /\ hostkey \in Daemons
  /\ GoesOn(d, "key", hostkey)
  /\ UNCHANGED hostkey

(* There is no file: a fresh key is made for it.                           *)
KeyAbsent(d) ==
  /\ Goto(d, "key", "create")
  /\ hostkey = "none"
  /\ UNCHANGED <<path, servingVars, history>>

(* A mutant of KeyFails: any error is taken for a file that is not there.  *)
KeyFailsAnew(d) ==
  /\ Goto(d, "key", "create")
  /\ UNCHANGED <<path, servingVars, history>>

(* The file cannot be opened or read, is readable by others, or does not   *)
(* hold a key: the daemon gives up.                                        *)
KeyFails(d) ==
  /\ pc[d] = "key"
  /\ Forget(d)
  /\ UNCHANGED <<path, history>>

(* write_private: the file is created, or truncated if it has come to be   *)
(* there since, and then written.                                          *)
CreateKey(d) ==
  /\ Goto(d, "create", "write")
  /\ hostkey' = "partial"
  /\ UNCHANGED <<path, servingVars, unclean, raced, keyRaced, used>>

WriteKey(d) ==
  /\ hostkey' = d
  /\ GoesOn(d, "write", d)

(* No directory, no space, or no compositor to capture from (discover):    *)
(* whatever is in the key file by now stays there.                         *)
StartFails(d) ==
  /\ pc[d] \in {"create", "write", "exists"}
  /\ Forget(d)
  /\ UNCHANGED <<path, history>>

-----------------------------------------------------------------------------
(* ControlServer::bind.                                                    *)

PathExists(d) ==
  /\ Goto(d, "exists", IF path = "none" THEN "bind" ELSE "connect")
  /\ UNCHANGED <<path, servingVars, history>>

(* The probe: a live listener means the path is not ours to take.          *)
ConnectOk(d) ==
  /\ pc[d] = "connect"
  /\ path \in Daemons
  /\ Forget(d)
  /\ UNCHANGED <<path, history>>

(* A mutant of ConnectRefused: the file is taken without a probe.          *)
ConnectUnprobed(d) ==
  /\ Goto(d, "connect", "remove")
  /\ UNCHANGED <<path, servingVars, history>>

ConnectRefused(d) ==
  /\ Goto(d, "connect", "remove")
  /\ path \notin Daemons
  /\ UNCHANGED <<path, servingVars, history>>

(* remove_file takes whatever is at the path by now; with nothing there,   *)
(* it fails and the daemon gives up.                                       *)
RemoveStale(d) ==
  /\ Goto(d, "remove", "bind")
  /\ path # "none"
  /\ path' = "none"
  /\ UNCHANGED <<servingVars, history>>

RemoveFails(d) ==
  /\ pc[d] = "remove"
  /\ path = "none"
  /\ Forget(d)
  /\ UNCHANGED <<path, history>>

(* UnixListener::bind refuses a path that exists.                          *)
BindOk(d) ==
  /\ Goto(d, "bind", "chmod")
  /\ path = "none"
  /\ path' = d
  /\ UNCHANGED <<servingVars, history>>

BindFails(d) ==
  /\ pc[d] = "bind"
  /\ path # "none"
  /\ Forget(d)
  /\ UNCHANGED <<path, history>>

Chmod(d) ==
  /\ Goto(d, "chmod", "serve")
  /\ path # "none"
  /\ UNCHANGED <<path, servingVars, history>>

(* There is no ControlServer yet: the listener goes, the file stays.       *)
ChmodFails(d) ==
  /\ pc[d] = "chmod"
  /\ Forget(d)
  /\ path' = IF path = d THEN "stale" ELSE path
  /\ unclean' = TRUE
  /\ UNCHANGED <<raced, keyVars>>

-----------------------------------------------------------------------------
(* ControlServer::serve.                                                   *)

(* A client connects to the socket it finds at the path.                   *)
ClientConnects(c, d) ==
  /\ path = d
  /\ \A e \in Daemons :
       c \notin backlog[e] /\ \A k \in conns[e] : k.client # c
  /\ backlog' = [backlog EXCEPT ![d] = @ \cup {c}]
  /\ UNCHANGED <<path, pc, shutdown, signalled, conns, permits, history>>

(* accept, try_acquire_connection, and a thread for the connection.        *)
Accept(d, c) ==
  /\ pc[d] = "serve"
  /\ ~shutdown[d]
  /\ c \in backlog[d]
  /\ permits[d] < MAX_CONNECTIONS
  /\ backlog' = [backlog EXCEPT ![d] = @ \ {c}]
  /\ permits' = [permits EXCEPT ![d] = @ + 1]
  /\ conns' = [conns EXCEPT ![d] = @ \cup {[client |-> c, at |-> "read"]}]
  /\ UNCHANGED <<path, pc, shutdown, signalled, history>>

(* No slot is free: the stream is shut down.                               *)
TurnAway(d, c) ==
  /\ pc[d] = "serve"
  /\ ~shutdown[d]
  /\ c \in backlog[d]
  /\ permits[d] >= MAX_CONNECTIONS
  /\ backlog' = [backlog EXCEPT ![d] = @ \ {c}]
  /\ UNCHANGED <<path, pc, shutdown, signalled, conns, permits, history>>

(* accept fails for good (out of descriptors, say): serve returns the      *)
(* error and the server is dropped, while the engine goes on.              *)
AcceptFails(d) ==
  /\ Goto(d, "serve", "unlink")
  /\ UNCHANGED <<path, servingVars, history>>

Move(d, k, at) ==
  conns' = [conns EXCEPT ![d] = (@ \ {k}) \cup {[k EXCEPT !.at = at]}]

(* handle_connection: a line comes in and is handled; its reply goes out.  *)
Request(d, k) ==
  /\ k.at = "read"
  /\ Move(d, k, "reply")
  /\ UNCHANGED <<path, pc, shutdown, signalled, backlog, permits, history>>

Reply(d, k) ==
  /\ k.at = "reply"
  /\ Move(d, k, "read")
  /\ UNCHANGED <<path, pc, shutdown, signalled, backlog, permits, history>>

(* End of file, a foreign uid, a line too long or not UTF-8, thirty        *)
(* seconds of silence, or a write that fails.                              *)
ConnEnds(d, k) ==
  /\ k.at # "ended"
  /\ Move(d, k, "ended")
  /\ UNCHANGED <<path, pc, shutdown, signalled, backlog, permits, history>>

(* A mutant of Release: the thread goes without giving its permit back.    *)
ReleaseForgotten(d, k) ==
  /\ k.at = "ended"
  /\ conns' = [conns EXCEPT ![d] = @ \ {k}]
  /\ UNCHANGED <<path, pc, shutdown, signalled, backlog, permits, history>>

(* The permit is dropped last.                                             *)
Release(d, k) ==
  /\ k.at = "ended"
  /\ conns' = [conns EXCEPT ![d] = @ \ {k}]
  /\ permits' = [permits EXCEPT ![d] = @ - 1]
  /\ UNCHANGED <<path, pc, shutdown, signalled, backlog, history>>

-----------------------------------------------------------------------------
(* The end of a daemon.                                                    *)

Signal(d) ==
  /\ pc[d] # "off"
  /\ ~signalled[d]
  /\ signalled' = [signalled EXCEPT ![d] = TRUE]
  /\ UNCHANGED <<path, pc, shutdown, backlog, conns, permits, history>>

(* run_engine returns once it sees the signal, and run_serve sets the flag.*)
EngineReturns(d) ==
  /\ pc[d] \in {"serve", "unlink", "close", "silent"}
  /\ signalled[d]
  /\ ~shutdown[d]
  /\ shutdown' = [shutdown EXCEPT ![d] = TRUE]
  /\ UNCHANGED <<path, pc, signalled, backlog, conns, permits, history>>

(* A mutant of ServeEnds: waits for its connections.                       *)
ServeEndsLast(d) ==
  /\ Goto(d, "serve", "unlink")
  /\ shutdown[d]
  /\ conns[d] = {}
  /\ UNCHANGED <<path, servingVars, history>>

(* The loop sees the flag; connections are not waited for.                 *)
ServeEnds(d) ==
  /\ Goto(d, "serve", "unlink")
  /\ shutdown[d]
  /\ UNCHANGED <<path, servingVars, history>>

(* A mutant of Unlink: there is no Drop.                                   *)
UnlinkNothing(d) ==
  /\ Goto(d, "unlink", "close")
  /\ UNCHANGED <<path, servingVars, history>>

(* Drop for ControlServer: remove_file, whoever's socket is there.         *)
Unlink(d) ==
  /\ Goto(d, "unlink", "close")
  /\ path' = "none"
  /\ UNCHANGED <<servingVars, history>>

(* The listener is closed after that, and with it what nobody accepted.    *)
Close(d) ==
  /\ Goto(d, "close", "silent")
  /\ path' = IF path = d THEN "stale" ELSE path
  /\ backlog' = [backlog EXCEPT ![d] = {}]
  /\ UNCHANGED <<shutdown, signalled, conns, permits, history>>

(* run_serve joins the server thread, not the connections, and returns.    *)
Leave(d) ==
  /\ pc[d] = "silent"
  /\ shutdown[d]
  /\ Forget(d)
  /\ UNCHANGED <<path, history>>

Crash(d) ==
  /\ pc[d] # "off"
  /\ Forget(d)
  /\ path' = IF path = d THEN "stale" ELSE path
  /\ unclean' = TRUE
  /\ UNCHANGED <<raced, keyVars>>

Boot(d) ==
  \/ LoadKey(d) \/ KeyAbsent(d) \/ KeyFails(d)
  \/ CreateKey(d) \/ WriteKey(d) \/ StartFails(d)

Bind(d) ==
  \/ PathExists(d) \/ ConnectOk(d) \/ ConnectRefused(d)
  \/ RemoveStale(d) \/ RemoveFails(d) \/ BindOk(d) \/ BindFails(d)
  \/ Chmod(d) \/ ChmodFails(d)

Serve(d) ==
  \/ \E c \in Clients : Accept(d, c) \/ TurnAway(d, c)
  \/ ServeEnds(d) \/ Unlink(d) \/ Close(d)

SocketNext ==
  \E d \in Daemons :
    \/ Start(d) \/ Boot(d) \/ Bind(d) \/ Serve(d) \/ AcceptFails(d)
    \/ \E c \in Clients : ClientConnects(c, d)
    \/ \E k \in conns[d] :
         Request(d, k) \/ Reply(d, k) \/ ConnEnds(d, k) \/ Release(d, k)
    \/ Signal(d) \/ EngineReturns(d) \/ Leave(d) \/ Crash(d)

(* The threads of a daemon run: the main thread, which starts it, runs the *)
(* engine and ends it, and the server thread, which polls the flag every   *)
(* fifty milliseconds.  The main thread's discoveries, before it binds and *)
(* in the engine, have no deadline: that the compositor answers them is    *)
(* assumed here (EngineLoop's ShutdownEnds does not assume it).            *)
Main(d) == Boot(d) \/ Bind(d) \/ EngineReturns(d) \/ Leave(d)

Server(d) == ServeEnds(d) \/ Unlink(d) \/ Close(d)

SocketFairness ==
  \A d \in Daemons : WF_socketVars(Main(d)) /\ WF_socketVars(Server(d))

SocketSpec == SocketInit /\ [][SocketNext]_socketVars /\ SocketFairness

-----------------------------------------------------------------------------
(* Properties.                                                             *)

(* A daemon that serves is the one a client reaches, unless two daemons    *)
(* were inside bind() together: neither a start, nor a crash, nor the exit *)
(* of another daemon takes the path away from it.                          *)
ServesItsPath ==
  raced \/ \A d \in Daemons : pc[d] = "serve" => path = d

(* active_connections counts the connection threads that are alive, at     *)
(* most MAX_CONNECTIONS of them, through every way a connection ends: no   *)
(* permit leaks and none is given twice.                                   *)
PermitsExact ==
  \A d \in Daemons :
    /\ permits[d] = Cardinality(conns[d])
    /\ permits[d] <= MAX_CONNECTIONS

(* The path holds a dead socket only after a crash or a failed start:      *)
(* every daemon that ends by itself cleans up (Drop for ControlServer).    *)
CleanExit == path = "stale" => unclean

(* A signal ends the daemon, whatever its connections are doing, given     *)
(* that no discovery of the main thread waits for ever.                    *)
SignalEnds == \A d \in Daemons : signalled[d] ~> (pc[d] = "off")

(* The host has one identity: through restarts, crashes and failed starts, *)
(* every key a daemon ever went on with is still the one in host.key, so a *)
(* device that pinned it recognises the host, unless two daemons looked    *)
(* for the key together.                                                   *)
IdentityKept == keyRaced \/ \A k \in used : hostkey = k

(* The same without the exception: the key is "the same long-term key that *)
(* devices pin", as the comment on into_identity asks.                     *)
IdentityAlwaysKept == \A k \in used : hostkey = k

(* What bind's comment says, with any number of daemons starting: never    *)
(* steal another daemon's endpoint.                                        *)
NeverStolen ==
  \A d \in Daemons : pc[d] = "serve" => path \notin Daemons \ {d}

=============================================================================
