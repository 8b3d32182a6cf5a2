---------------------------- MODULE ControlProofs ---------------------------
(***************************************************************************)
(* Proofs about the control plane: the control socket with the host key,   *)
(* for any number of daemons started on the same files, of clients and of  *)
(* connections; and the mutexes that the connections of a daemon and its   *)
(* engine share, for any number of connections.                            *)
(*                                                                         *)
(* CleanExit rests on where a daemon can be while its socket is at the     *)
(* path (PathInv).  ServesItsPath and IdentityKept hold as long as one     *)
(* daemon at a time is inside bind() or load_or_create(); under that       *)
(* condition they need what the daemon that is inside has found out and    *)
(* nobody can have changed since (BindInv, KeyInv).  PermitsExact needs    *)
(* that a client has one connection at a time (ClientInv).                 *)
(*                                                                         *)
(* No thread is ever inside both mutexes of Service, so none waits for one *)
(* while it keeps the other from somebody.                                 *)
(***************************************************************************)
EXTENDS ControlSocket, Locks, FiniteSetTheorems, TLAPS

(* From bind to remove_file: while a daemon's socket may be at the path.   *)
Holding == {"chmod", "serve", "unlink"}

(* A socket at the path is that of a daemon which has yet to remove it.    *)
PathInv == \A d \in Daemons : path = d => pc[d] \in Holding

(* Unless two daemons were inside bind() together: one is at most, whoever *)
(* has bound still has the path, and a file about to be removed is dead.   *)
BindInv ==
  raced \/
    /\ \A d, e \in Daemons : pc[d] \in Binding /\ pc[e] \in Binding => d = e
    /\ \A d \in Daemons : pc[d] \in Holding => path = d
    /\ \A d \in Daemons : pc[d] = "remove" => path \notin Daemons

(* Unless two daemons looked for the key together: one does at most, and   *)
(* while it makes a key nobody has used one before.                        *)
KeyInv ==
  keyRaced \/
    /\ \A d, e \in Daemons : pc[d] \in Keying /\ pc[e] \in Keying => d = e
    /\ \A d \in Daemons : pc[d] \in {"create", "write"} => used = {}
    /\ \A k \in used : hostkey = k

(* A client has one connection to a daemon, waiting or being served, and   *)
(* there are finitely many.                                                *)
ClientInv ==
  \A d \in Daemons :
    /\ IsFiniteSet(conns[d])
    /\ \A j, k \in conns[d] : j.client = k.client => j = k
    /\ \A c \in backlog[d] : \A k \in conns[d] : k.client # c

SocketInv ==
  /\ SocketTypeOK
  /\ PathInv
  /\ BindInv
  /\ KeyInv
  /\ ClientInv
  /\ PermitsExact
  /\ CleanExit

-----------------------------------------------------------------------------
(* The steps of a daemon, by what they touch.                              *)

(* The steps of one thread that leave the connections alone.               *)
Moves(d) ==
  \/ Start(d) \/ LoadKey(d) \/ KeyAbsent(d) \/ CreateKey(d) \/ WriteKey(d)
  \/ PathExists(d) \/ ConnectRefused(d) \/ RemoveStale(d) \/ BindOk(d)
  \/ Chmod(d) \/ AcceptFails(d) \/ ServeEnds(d) \/ Unlink(d)

(* The process ends.                                                       *)
Ends(d) ==
  \/ KeyFails(d) \/ StartFails(d) \/ ConnectOk(d) \/ RemoveFails(d)
  \/ BindFails(d) \/ ChmodFails(d) \/ Leave(d) \/ Crash(d)

(* Connections, and the flags.                                             *)
Talks(d) ==
  \/ \E c \in Clients : ClientConnects(c, d) \/ Accept(d, c) \/ TurnAway(d, c)
  \/ \E k \in conns[d] :
       Request(d, k) \/ Reply(d, k) \/ ConnEnds(d, k) \/ Release(d, k)
  \/ Signal(d) \/ EngineReturns(d)

LEMMA StepKinds ==
  SocketNext => \E d \in Daemons : Moves(d) \/ Ends(d) \/ Talks(d) \/ Close(d)
BY DEF SocketNext, Boot, Bind, Serve, Moves, Ends, Talks

LEMMA MovesFrame ==
  ASSUME NEW d \in Daemons, Moves(d)
  PROVE  UNCHANGED <<shutdown, signalled, backlog, conns, permits, unclean>>
BY DEF Moves, Start, LoadKey, KeyAbsent, CreateKey, WriteKey, GoesOn,
       PathExists, ConnectRefused, RemoveStale, BindOk, Chmod, AcceptFails,
       ServeEnds, Unlink, servingVars, history, keyVars

LEMMA EndsFrame ==
  ASSUME NEW d \in Daemons, Ends(d)
  PROVE  /\ Forget(d)
         /\ UNCHANGED <<raced, hostkey, keyRaced, used>>
         /\ \/ UNCHANGED <<path, unclean>>
            \/ unclean' = TRUE /\ path' = IF path = d THEN "stale" ELSE path
BY DEF Ends, KeyFails, StartFails, ConnectOk, RemoveFails, BindFails,
       ChmodFails, Leave, Crash, history, keyVars

LEMMA TalksFrame ==
  ASSUME NEW d \in Daemons, Talks(d)
  PROVE  UNCHANGED <<path, pc, unclean, raced, hostkey, keyRaced, used>>
BY DEF Talks, ClientConnects, Accept, TurnAway, Request, Reply, ConnEnds,
       Release, Signal, EngineReturns, history, keyVars

-----------------------------------------------------------------------------

LEMMA SocketInitInv == SocketInit => SocketInv
<1> SUFFICES ASSUME SocketInit PROVE SocketInv
  OBVIOUS
<1>1. SocketTypeOK
  <2>1. 0 \in 0..MAX_CONNECTIONS
    BY SocketAssumption
  <2> QED
    BY <2>1 DEF SocketInit, SocketTypeOK
<1>2. PathInv /\ BindInv /\ KeyInv /\ ClientInv /\ CleanExit
  BY FS_EmptySet, SocketAssumption
     DEF SocketInit, PathInv, BindInv, KeyInv, ClientInv, CleanExit, Binding,
         Keying, Holding
<1>3. PermitsExact
  BY FS_EmptySet, SocketAssumption DEF SocketInit, PermitsExact
<1> QED
  BY <1>1, <1>2, <1>3 DEF SocketInv

(* Where a daemon is after it moved.                                       *)
LEMMA MovesType ==
  ASSUME SocketTypeOK, NEW d \in Daemons, Moves(d) PROVE SocketTypeOK'
<1>1. UNCHANGED <<shutdown, signalled, backlog, conns, permits, unclean>>
  BY MovesFrame
<1>2. /\ hostkey' \in Daemons \cup {"none", "partial"}
      /\ used' \in SUBSET Daemons
      /\ keyRaced' \in BOOLEAN
      /\ raced' \in BOOLEAN
  BY DEF Moves, Start, LoadKey, KeyAbsent, CreateKey, WriteKey, GoesOn,
         PathExists, ConnectRefused, RemoveStale, BindOk, Chmod, AcceptFails,
         ServeEnds, Unlink, servingVars, history, keyVars, SocketTypeOK
<1>3. path' \in Daemons \cup {"none", "stale"}
  BY DEF Moves, Start, LoadKey, KeyAbsent, CreateKey, WriteKey, GoesOn,
         PathExists, ConnectRefused, RemoveStale, BindOk, Chmod, AcceptFails,
         ServeEnds, Unlink, SocketTypeOK
<1>4. \E there \in Keying \cup Binding \cup Listening :
        pc' = [pc EXCEPT ![d] = there]
  BY DEF Moves, Start, LoadKey, KeyAbsent, CreateKey, WriteKey, GoesOn,
         PathExists, ConnectRefused, RemoveStale, BindOk, Chmod, AcceptFails,
         ServeEnds, Unlink, Goto, Keying, Binding, Listening
<1> QED
  BY <1>1, <1>2, <1>3, <1>4 DEF SocketTypeOK

LEMMA EndsType ==
  ASSUME SocketTypeOK, NEW d \in Daemons, Ends(d) PROVE SocketTypeOK'
<1>1. path' \in Daemons \cup {"none", "stale"} /\ unclean' \in BOOLEAN
  BY EndsFrame DEF SocketTypeOK
<1>2. 0 \in 0..MAX_CONNECTIONS
  BY SocketAssumption
<1>3. UNCHANGED <<raced, hostkey, keyRaced, used>>
  BY EndsFrame
<1>4. /\ pc' = [pc EXCEPT ![d] = "off"]
      /\ shutdown' = [shutdown EXCEPT ![d] = FALSE]
      /\ signalled' = [signalled EXCEPT ![d] = FALSE]
      /\ backlog' = [backlog EXCEPT ![d] = {}]
      /\ conns' = [conns EXCEPT ![d] = {}]
      /\ permits' = [permits EXCEPT ![d] = 0]
  BY EndsFrame DEF Forget
<1>5. /\ shutdown' \in [Daemons -> BOOLEAN]
      /\ signalled' \in [Daemons -> BOOLEAN]
      /\ backlog' \in [Daemons -> SUBSET Clients]
      /\ conns' \in [Daemons -> SUBSET Conn]
  BY <1>4 DEF SocketTypeOK
<1>6. permits' \in [Daemons -> 0..MAX_CONNECTIONS]
  BY <1>2, <1>4 DEF SocketTypeOK
<1>7. pc' \in [Daemons -> Keying \cup Binding \cup Listening
                          \cup {"off", "silent"}]
  BY <1>4 DEF SocketTypeOK
<1> QED
  BY <1>1, <1>3, <1>5, <1>6, <1>7 DEF SocketTypeOK

LEMMA CloseType ==
  ASSUME SocketTypeOK, NEW d \in Daemons, Close(d) PROVE SocketTypeOK'
BY DEF Close, Goto, SocketTypeOK, history, keyVars

LEMMA TalksType ==
  ASSUME SocketTypeOK, NEW d \in Daemons, Talks(d),
         permits[d] > 0 \/ ~\E k \in conns[d] : Release(d, k)
  PROVE  SocketTypeOK'
<1>1. UNCHANGED <<path, pc, unclean, raced, hostkey, keyRaced, used>>
  BY TalksFrame
<1>2. ASSUME NEW c \in Clients, ClientConnects(c, d) PROVE SocketTypeOK'
  BY <1>1, <1>2 DEF ClientConnects, SocketTypeOK
<1>3. ASSUME NEW c \in Clients, Accept(d, c) PROVE SocketTypeOK'
  <2>1. conns' \in [Daemons -> SUBSET Conn]
    BY <1>3 DEF Accept, Conn, SocketTypeOK
  <2>2. permits' \in [Daemons -> 0..MAX_CONNECTIONS]
    BY <1>3, SocketAssumption DEF Accept, SocketTypeOK
  <2> QED
    BY <1>1, <1>3, <2>1, <2>2 DEF Accept, SocketTypeOK
<1>4. ASSUME NEW c \in Clients, TurnAway(d, c) PROVE SocketTypeOK'
  BY <1>1, <1>4 DEF TurnAway, SocketTypeOK
<1>5. ASSUME NEW k \in conns[d], Request(d, k) \/ Reply(d, k) \/ ConnEnds(d, k)
      PROVE  SocketTypeOK'
  <2>1. PICK at \in {"read", "reply", "ended"} : Move(d, k, at)
    BY <1>5 DEF Request, Reply, ConnEnds
  <2>2. k \in Conn
    BY DEF SocketTypeOK
  <2>3. [k EXCEPT !.at = at] \in Conn
    BY <2>2 DEF Conn
  <2>4. conns' \in [Daemons -> SUBSET Conn]
    BY <2>1, <2>3 DEF Move, SocketTypeOK
  <2> QED
    BY <1>1, <1>5, <2>4 DEF Request, Reply, ConnEnds, SocketTypeOK
<1>6. ASSUME NEW k \in conns[d], Release(d, k) PROVE SocketTypeOK'
  <2>1. permits[d] \in 0..MAX_CONNECTIONS /\ permits[d] > 0
    BY <1>6 DEF SocketTypeOK
  <2>2. permits[d] - 1 \in 0..MAX_CONNECTIONS
    BY <2>1, SocketAssumption
  <2> QED
    BY <1>1, <1>6, <2>2 DEF Release, SocketTypeOK
<1>7. CASE Signal(d) \/ EngineReturns(d)
  BY <1>1, <1>7 DEF Signal, EngineReturns, SocketTypeOK
<1> QED
  BY <1>2, <1>3, <1>4, <1>5, <1>6, <1>7 DEF Talks

-----------------------------------------------------------------------------
(* The path.                                                               *)

(* A socket stays at the path until its daemon removes it or dies, and     *)
(* then it is gone or dead.                                                *)
LEMMA PathStep ==
  ASSUME SocketTypeOK, PathInv, NEW d \in Daemons,
         Moves(d) \/ Ends(d) \/ Talks(d) \/ Close(d)
  PROVE  PathInv'
<1> SUFFICES ASSUME NEW e \in Daemons, path' = e
             PROVE  pc'[e] \in Holding
  BY DEF PathInv
<1> USE DEF Holding
<1>0. /\ pc \in [Daemons -> Keying \cup Binding \cup Listening
                              \cup {"off", "silent"}]
      /\ e # "none" /\ e # "stale"
      /\ path = e => pc[e] \in Holding
  BY SocketAssumption DEF SocketTypeOK, PathInv
<1>1. CASE Start(d) \/ KeyAbsent(d) \/ CreateKey(d)
  BY <1>0, <1>1 DEF Start, KeyAbsent, CreateKey, Goto, servingVars
<1>2. CASE LoadKey(d) \/ WriteKey(d)
  BY <1>0, <1>2 DEF LoadKey, WriteKey, GoesOn, Goto
<1>3. CASE PathExists(d) \/ ConnectRefused(d)
  BY <1>0, <1>3 DEF PathExists, ConnectRefused, Goto
<1>4. CASE RemoveStale(d) \/ Unlink(d)
  BY <1>0, <1>4 DEF RemoveStale, Unlink
<1>5. CASE BindOk(d)
  BY <1>0, <1>5 DEF BindOk, Goto
<1>6. CASE Chmod(d) \/ AcceptFails(d) \/ ServeEnds(d)
  BY <1>0, <1>6 DEF Chmod, AcceptFails, ServeEnds, Goto
<1>7. CASE Close(d)
  BY <1>0, <1>7 DEF Close, Goto
<1>8. CASE ChmodFails(d) \/ Crash(d)
  BY <1>0, <1>8 DEF ChmodFails, Crash, Forget
<1>9. CASE \/ KeyFails(d) \/ StartFails(d) \/ ConnectOk(d) \/ RemoveFails(d)
           \/ BindFails(d) \/ Leave(d)
  <2>1. pc[d] \notin Holding /\ path' = path /\ pc' = [pc EXCEPT ![d] = "off"]
    BY <1>9 DEF KeyFails, StartFails, ConnectOk, RemoveFails, BindFails, Leave,
                Forget
  <2> QED
    BY <1>0, <2>1
<1>10. CASE Talks(d)
  BY <1>0, <1>10, TalksFrame
<1> QED
  BY <1>1, <1>2, <1>3, <1>4, <1>5, <1>6, <1>7, <1>8, <1>9, <1>10
     DEF Moves, Ends

(* The path is left with a dead socket by nobody but a daemon that died or *)
(* gave up: the close after remove_file finds another file or none.        *)
LEMMA CleanStep ==
  ASSUME SocketTypeOK, PathInv, CleanExit, NEW d \in Daemons,
         Moves(d) \/ Ends(d) \/ Talks(d) \/ Close(d)
  PROVE  CleanExit'
<1>1. CASE Moves(d)
  <2>1. path' = path \/ path' = "none" \/ path' = d
    BY <1>1 DEF Moves, Start, LoadKey, KeyAbsent, CreateKey, WriteKey, GoesOn,
                PathExists, ConnectRefused, RemoveStale, BindOk, Chmod,
                AcceptFails, ServeEnds, Unlink
  <2> QED
    BY <1>1, <2>1, MovesFrame, SocketAssumption DEF CleanExit
<1>2. CASE Ends(d)
  BY <1>2, EndsFrame DEF CleanExit
<1>3. CASE Talks(d)
  BY <1>3, TalksFrame DEF CleanExit
<1>4. CASE Close(d)
  <2>1. path # d
    BY <1>4 DEF Close, Goto, PathInv, Holding
  <2> QED
    BY <1>4, <2>1 DEF Close, CleanExit, history
<1> QED
  BY <1>1, <1>2, <1>3, <1>4

(* As long as one daemon at a time is inside bind(), what it finds there   *)
(* cannot change under it, and nobody else's socket is removed.            *)
LEMMA BindStep ==
  ASSUME SocketTypeOK, PathInv, BindInv, NEW d \in Daemons,
         Moves(d) \/ Ends(d) \/ Talks(d) \/ Close(d)
  PROVE  BindInv'
<1>0. /\ pc \in [Daemons -> Keying \cup Binding \cup Listening
                              \cup {"off", "silent"}]
      /\ path \in Daemons \cup {"none", "stale"}
      /\ "none" \notin Daemons /\ "stale" \notin Daemons
  BY SocketAssumption DEF SocketTypeOK
<1>1. raced => raced'
  BY MovesFrame, EndsFrame, TalksFrame
     DEF Moves, Start, LoadKey, KeyAbsent, CreateKey, WriteKey, GoesOn,
         PathExists, ConnectRefused, RemoveStale, BindOk, Chmod, AcceptFails,
         ServeEnds, Unlink, Close, history
<1> SUFFICES ASSUME ~raced, ~raced' PROVE BindInv'
  BY <1>1 DEF BindInv
<1>2. /\ \A e, f \in Daemons : pc[e] \in Binding /\ pc[f] \in Binding => e = f
      /\ \A e \in Daemons : pc[e] \in Holding => path = e
      /\ \A e \in Daemons : pc[e] = "remove" => path \notin Daemons
  BY DEF BindInv
<1> USE DEF Holding, Binding
<1>3. CASE Start(d) \/ KeyAbsent(d) \/ CreateKey(d)
  <2>1. path' = path /\ \E p \in Keying : pc' = [pc EXCEPT ![d] = p]
    BY <1>3 DEF Start, KeyAbsent, CreateKey, Goto, Keying
  <2> QED
    BY <1>0, <1>2, <2>1 DEF BindInv, Keying
<1>4. CASE LoadKey(d) \/ WriteKey(d)
  <2>1. /\ path' = path /\ pc' = [pc EXCEPT ![d] = "exists"]
        /\ ~\E e \in Daemons : pc[e] \in Binding
    BY <1>4 DEF LoadKey, WriteKey, GoesOn, Goto
  <2> QED
    BY <1>0, <1>2, <2>1 DEF BindInv
<1>5. CASE PathExists(d) \/ ConnectRefused(d)
  <2>1. /\ path' = path /\ pc[d] \in Binding
        /\ \/ pc' = [pc EXCEPT ![d] = "bind"]
           \/ pc' = [pc EXCEPT ![d] = "connect"]
           \/ pc' = [pc EXCEPT ![d] = "remove"] /\ path \notin Daemons
    BY <1>5 DEF PathExists, ConnectRefused, Goto
  <2> QED
    BY <1>0, <1>2, <2>1 DEF BindInv
<1>6. CASE RemoveStale(d)
  <2>1. /\ path' = "none" /\ path \notin Daemons
        /\ pc[d] \in Binding /\ pc' = [pc EXCEPT ![d] = "bind"]
    BY <1>2, <1>6 DEF RemoveStale, Goto
  <2> QED
    BY <1>0, <1>2, <2>1 DEF BindInv
<1>7. CASE BindOk(d)
  <2>1. /\ path = "none" /\ path' = d
        /\ pc[d] \in Binding /\ pc' = [pc EXCEPT ![d] = "chmod"]
    BY <1>7 DEF BindOk, Goto
  <2> QED
    BY <1>0, <1>2, <2>1 DEF BindInv
<1>8. CASE Chmod(d) \/ AcceptFails(d) \/ ServeEnds(d)
  <2>1. /\ path' = path /\ path = d
        /\ \/ pc' = [pc EXCEPT ![d] = "serve"]
           \/ pc' = [pc EXCEPT ![d] = "unlink"]
    BY <1>2, <1>8 DEF Chmod, AcceptFails, ServeEnds, Goto
  <2> QED
    BY <1>0, <1>2, <2>1 DEF BindInv
<1>9. CASE Unlink(d)
  <2>1. path = d /\ path' = "none" /\ pc' = [pc EXCEPT ![d] = "close"]
    BY <1>2, <1>9 DEF Unlink, Goto
  <2> QED
    BY <1>0, <1>2, <2>1 DEF BindInv
<1>10. CASE Close(d)
  <2>1. path # d
    BY <1>10 DEF Close, Goto, PathInv
  <2>2. path' = path /\ pc' = [pc EXCEPT ![d] = "silent"]
    BY <1>10, <2>1 DEF Close, Goto
  <2> QED
    BY <1>0, <1>2, <2>2 DEF BindInv
<1>11. CASE Ends(d)
  <2>1. /\ pc' = [pc EXCEPT ![d] = "off"]
        /\ path' = path \/ (path = d /\ path' = "stale")
    BY <1>11, EndsFrame DEF Forget
  <2> QED
    BY <1>0, <1>2, <2>1 DEF BindInv
<1>12. CASE Talks(d)
  BY <1>2, <1>12, TalksFrame DEF BindInv
<1> QED
  BY <1>3, <1>4, <1>5, <1>6, <1>7, <1>8, <1>9, <1>10, <1>11, <1>12 DEF Moves

(* As long as one daemon at a time looks for the key, a key is made only   *)
(* where none was ever used.                                               *)
LEMMA KeyStep ==
  ASSUME SocketTypeOK, KeyInv, NEW d \in Daemons,
         Moves(d) \/ Ends(d) \/ Talks(d) \/ Close(d)
  PROVE  KeyInv'
<1>0. /\ pc \in [Daemons -> Keying \cup Binding \cup Listening
                              \cup {"off", "silent"}]
      /\ hostkey \in Daemons \cup {"none", "partial"}
      /\ used \in SUBSET Daemons
      /\ "none" \notin Daemons
  BY SocketAssumption DEF SocketTypeOK
<1>1. keyRaced => keyRaced'
  BY MovesFrame, EndsFrame, TalksFrame
     DEF Moves, Start, LoadKey, KeyAbsent, CreateKey, WriteKey, GoesOn,
         PathExists, ConnectRefused, RemoveStale, BindOk, Chmod, AcceptFails,
         ServeEnds, Unlink, Close, history, keyVars
<1> SUFFICES ASSUME ~keyRaced, ~keyRaced' PROVE KeyInv'
  BY <1>1 DEF KeyInv
<1>2. /\ \A e, f \in Daemons : pc[e] \in Keying /\ pc[f] \in Keying => e = f
      /\ \A e \in Daemons : pc[e] \in {"create", "write"} => used = {}
      /\ \A k \in used : hostkey = k
  BY DEF KeyInv
<1> USE DEF Keying
<1>3. CASE Start(d)
  <2>1. /\ UNCHANGED <<hostkey, used>> /\ pc' = [pc EXCEPT ![d] = "key"]
        /\ ~\E e \in Daemons : pc[e] \in Keying
    BY <1>3 DEF Start, Goto
  <2> QED
    BY <1>0, <1>2, <2>1 DEF KeyInv
<1>4. CASE LoadKey(d)
  <2>1. /\ hostkey' = hostkey /\ used' = used \cup {hostkey}
        /\ pc[d] = "key" /\ pc' = [pc EXCEPT ![d] = "exists"]
    BY <1>4 DEF LoadKey, GoesOn, Goto
  <2> QED
    BY <1>0, <1>2, <2>1 DEF KeyInv
<1>5. CASE KeyAbsent(d)
  <2>1. /\ UNCHANGED <<hostkey, used>> /\ hostkey = "none"
        /\ pc[d] = "key" /\ pc' = [pc EXCEPT ![d] = "create"]
    BY <1>5 DEF KeyAbsent, Goto, history, keyVars
  <2>2. used = {}
    BY <1>0, <1>2, <2>1
  <2> QED
    BY <1>0, <1>2, <2>1, <2>2 DEF KeyInv
<1>6. CASE CreateKey(d)
  <2>1. /\ used' = used /\ used = {}
        /\ pc[d] = "create" /\ pc' = [pc EXCEPT ![d] = "write"]
    BY <1>2, <1>6 DEF CreateKey, Goto
  <2> QED
    BY <1>0, <1>2, <2>1 DEF KeyInv
<1>7. CASE WriteKey(d)
  <2>1. /\ hostkey' = d /\ used' = {d}
        /\ pc[d] = "write" /\ pc' = [pc EXCEPT ![d] = "exists"]
    BY <1>2, <1>7 DEF WriteKey, GoesOn, Goto
  <2> QED
    BY <1>0, <1>2, <2>1 DEF KeyInv
<1>8. CASE \/ PathExists(d) \/ ConnectRefused(d) \/ RemoveStale(d) \/ BindOk(d)
           \/ Chmod(d) \/ AcceptFails(d) \/ ServeEnds(d) \/ Unlink(d)
           \/ Close(d) \/ Ends(d)
  <2>1. /\ UNCHANGED <<hostkey, used>>
        /\ \E p \in Binding \cup Listening \cup {"off", "silent"} :
             pc' = [pc EXCEPT ![d] = p]
    <3>1. CASE Ends(d)
      BY <3>1, EndsFrame DEF Forget
    <3> QED
      BY <1>8, <3>1
         DEF PathExists, ConnectRefused, RemoveStale, BindOk, Chmod, AcceptFails,
             ServeEnds, Unlink, Close, Goto, Binding, Listening, history, keyVars
  <2> QED
    BY <1>0, <1>2, <2>1 DEF KeyInv, Binding, Listening
<1>9. CASE Talks(d)
  BY <1>2, <1>9, TalksFrame DEF KeyInv
<1> QED
  BY <1>3, <1>4, <1>5, <1>6, <1>7, <1>8, <1>9 DEF Moves

-----------------------------------------------------------------------------
(* The connections.                                                        *)

LEMMA OneMore ==
  ASSUME NEW S, NEW x, IsFiniteSet(S), x \notin S
  PROVE  IsFiniteSet(S \cup {x}) /\ Cardinality(S \cup {x}) = Cardinality(S) + 1
<1>1. Cardinality(S \cup {x}) =
        IF x \in S THEN Cardinality(S) ELSE Cardinality(S) + 1
  BY FS_AddElement
<1> QED
  BY <1>1, FS_AddElement

(* What permits and connections of e must be after a step.                 *)
Exact(e) ==
  /\ IsFiniteSet(conns[e])
  /\ \A j, k \in conns[e] : j.client = k.client => j = k
  /\ \A c \in backlog[e] : \A k \in conns[e] : k.client # c
  /\ permits[e] = Cardinality(conns[e])

LEMMA ExactMeans ==
  SocketTypeOK => (ClientInv /\ PermitsExact <=> \A e \in Daemons : Exact(e))
<1> SUFFICES ASSUME SocketTypeOK
             PROVE  ClientInv /\ PermitsExact <=> \A e \in Daemons : Exact(e)
  OBVIOUS
<1>1. \A e \in Daemons : permits[e] <= MAX_CONNECTIONS
  BY SocketAssumption DEF SocketTypeOK
<1> QED
  BY <1>1 DEF ClientInv, PermitsExact, Exact

(* A daemon without connections has nothing to release.                    *)
LEMMA ReleaseCounted ==
  ASSUME SocketTypeOK, NEW d \in Daemons, Exact(d), NEW k \in conns[d]
  PROVE  permits[d] > 0
<1>1. Cardinality(conns[d]) # 0
  BY FS_EmptySet DEF Exact
<1> QED
  BY <1>1, SocketAssumption DEF Exact, SocketTypeOK

(* Only d's connections change when d accepts, serves and releases them.   *)
LEMMA TalksExact ==
  ASSUME SocketTypeOK, \A e \in Daemons : Exact(e), NEW d \in Daemons, Talks(d)
  PROVE  \A e \in Daemons : Exact(e)'
<1> SUFFICES ASSUME NEW e \in Daemons PROVE Exact(e)'
  OBVIOUS
<1>0. /\ Exact(e)
      /\ conns \in [Daemons -> SUBSET Conn]
      /\ backlog \in [Daemons -> SUBSET Clients]
      /\ permits \in [Daemons -> 0..MAX_CONNECTIONS]
      /\ permits[e] \in Nat
  BY SocketAssumption DEF SocketTypeOK
<1>1. ASSUME NEW c \in Clients, ClientConnects(c, d) PROVE Exact(e)'
  BY <1>0, <1>1 DEF ClientConnects, Exact
<1>2. ASSUME NEW c \in Clients, TurnAway(d, c) PROVE Exact(e)'
  BY <1>0, <1>2 DEF TurnAway, Exact
<1>3. ASSUME NEW c \in Clients, Accept(d, c) PROVE Exact(e)'
  <2>1. CASE e # d
    BY <1>0, <1>3, <2>1 DEF Accept, Exact
  <2>2. CASE e = d
    <3> DEFINE new == [client |-> c, at |-> "read"]
    <3>1. /\ conns'[e] = conns[e] \cup {new}
          /\ backlog'[e] = backlog[e] \ {c}
          /\ permits'[e] = permits[e] + 1
          /\ c \in backlog[e]
      BY <1>0, <1>3, <2>2 DEF Accept
    <3>2. new.client = c
      OBVIOUS
    <3> HIDE DEF new
    <3>3. \A k \in conns[e] : k.client # c
      BY <1>0, <3>1 DEF Exact
    <3>4. new \notin conns[e]
      BY <3>2, <3>3
    <3>5. IsFiniteSet(conns'[e]) /\ Cardinality(conns'[e]) = Cardinality(conns[e]) + 1
      BY <1>0, <3>1, <3>4, OneMore DEF Exact
    <3> QED
      BY <1>0, <3>1, <3>2, <3>3, <3>5 DEF Exact
  <2> QED
    BY <2>1, <2>2
<1>4. ASSUME NEW k \in conns[d], Request(d, k) \/ Reply(d, k) \/ ConnEnds(d, k)
      PROVE  Exact(e)'
  <2>1. PICK at \in {"read", "reply", "ended"} :
          Move(d, k, at) /\ UNCHANGED <<backlog, permits>>
    BY <1>4 DEF Request, Reply, ConnEnds
  <2>2. CASE e # d
    BY <1>0, <2>1, <2>2 DEF Move, Exact
  <2>3. CASE e = d
    <3> DEFINE new == [k EXCEPT !.at = at]
    <3>1. conns'[e] = (conns[e] \ {k}) \cup {new} /\ k \in conns[e]
      BY <1>0, <2>1, <2>3 DEF Move
    <3>2. new.client = k.client
      BY <1>0, <2>3 DEF Conn
    <3> HIDE DEF new
    <3>3. new \notin conns[e] \ {k}
      BY <1>0, <3>1, <3>2 DEF Exact
    <3>4. IsFiniteSet(conns[e] \ {k})
          /\ Cardinality(conns[e] \ {k}) = Cardinality(conns[e]) - 1
      BY <1>0, <3>1, FS_RemoveElement DEF Exact
    <3>5. IsFiniteSet(conns'[e])
          /\ Cardinality(conns'[e]) = (Cardinality(conns[e]) - 1) + 1
      BY <3>1, <3>3, <3>4, OneMore
    <3>6. permits'[e] = Cardinality(conns'[e])
      BY <1>0, <2>1, <3>5 DEF Exact
    <3>7. /\ \A j, l \in conns'[e] : j.client = l.client => j = l
          /\ \A c \in backlog'[e] : \A l \in conns'[e] : l.client # c
      BY <1>0, <2>1, <3>1, <3>2 DEF Exact
    <3> QED
      BY <3>5, <3>6, <3>7 DEF Exact
  <2> QED
    BY <2>2, <2>3
<1>5. ASSUME NEW k \in conns[d], Release(d, k) PROVE Exact(e)'
  <2>1. CASE e # d
    BY <1>0, <1>5, <2>1 DEF Release, Exact
  <2>2. CASE e = d
    <3>1. /\ conns'[e] = conns[e] \ {k} /\ k \in conns[e]
          /\ permits'[e] = permits[e] - 1
          /\ backlog' = backlog
      BY <1>0, <1>5, <2>2 DEF Release
    <3>2. IsFiniteSet(conns'[e])
          /\ Cardinality(conns'[e]) = Cardinality(conns[e]) - 1
      BY <1>0, <3>1, FS_RemoveElement DEF Exact
    <3> QED
      BY <1>0, <3>1, <3>2 DEF Exact
  <2> QED
    BY <2>1, <2>2
<1>6. CASE Signal(d) \/ EngineReturns(d)
  BY <1>0, <1>6 DEF Signal, EngineReturns, Exact
<1> QED
  BY <1>1, <1>2, <1>3, <1>4, <1>5, <1>6 DEF Talks

LEMMA ExactStep ==
  ASSUME SocketTypeOK, \A e \in Daemons : Exact(e), NEW d \in Daemons,
         Moves(d) \/ Ends(d) \/ Talks(d) \/ Close(d)
  PROVE  \A e \in Daemons : Exact(e)'
<1>1. CASE Moves(d)
  BY <1>1, MovesFrame DEF Exact
<1>2. CASE Ends(d)
  <2> SUFFICES ASSUME NEW e \in Daemons PROVE Exact(e)'
    OBVIOUS
  <2>1. /\ backlog' = [backlog EXCEPT ![d] = {}]
        /\ conns' = [conns EXCEPT ![d] = {}]
        /\ permits' = [permits EXCEPT ![d] = 0]
    BY <1>2, EndsFrame DEF Forget
  <2>2. CASE e = d
    BY <2>1, <2>2, FS_EmptySet DEF Exact, SocketTypeOK
  <2>3. CASE e # d
    BY <2>1, <2>3 DEF Exact, SocketTypeOK
  <2> QED
    BY <2>2, <2>3
<1>3. CASE Close(d)
  BY <1>3 DEF Close, Exact, SocketTypeOK
<1> QED
  BY <1>1, <1>2, <1>3, TalksExact

LEMMA SocketStep == SocketInv /\ [SocketNext]_socketVars => SocketInv'
<1> SUFFICES ASSUME SocketInv, [SocketNext]_socketVars PROVE SocketInv'
  OBVIOUS
<1>1. CASE UNCHANGED socketVars
  BY <1>1 DEF socketVars, history, keyVars, SocketInv, SocketTypeOK, PathInv,
              BindInv, KeyInv, ClientInv, PermitsExact, CleanExit
<1>2. CASE SocketNext
  <2>1. PICK d \in Daemons : Moves(d) \/ Ends(d) \/ Talks(d) \/ Close(d)
    BY <1>2, StepKinds
  <2>2. \A e \in Daemons : Exact(e)
    BY ExactMeans DEF SocketInv
  <2>3. SocketTypeOK'
    BY <2>1, <2>2, MovesType, EndsType, CloseType, TalksType, ReleaseCounted
       DEF SocketInv
  <2>4. PathInv' /\ BindInv' /\ KeyInv' /\ CleanExit'
    BY <2>1, PathStep, BindStep, KeyStep, CleanStep DEF SocketInv
  <2>5. \A e \in Daemons : Exact(e)'
    BY <2>1, <2>2, ExactStep DEF SocketInv
  <2>6. ClientInv' /\ PermitsExact'
    <3>1. \A e \in Daemons : permits'[e] <= MAX_CONNECTIONS
      BY <2>3, SocketAssumption DEF SocketTypeOK
    <3> QED
      BY <2>5, <3>1 DEF Exact, ClientInv, PermitsExact
  <2> QED
    BY <2>3, <2>4, <2>6 DEF SocketInv
<1> QED
  BY <1>1, <1>2

-----------------------------------------------------------------------------
(* The theorems.                                                           *)

LEMMA SocketInvariant == SocketSpec => []SocketInv
BY SocketInitInv, SocketStep, PTL DEF SocketSpec

(* Daemons, files, connections and permits stay in range.                  *)
THEOREM SocketTypes == SocketSpec => []SocketTypeOK
BY SocketInvariant, PTL DEF SocketInv

(* active_connections is the number of connection threads, whatever way    *)
(* connections end and daemons die, for any limit.                         *)
THEOREM PermitsNeverLeak == SocketSpec => []PermitsExact
BY SocketInvariant, PTL DEF SocketInv

(* Of any number of daemons, only one that died or gave up leaves a dead   *)
(* socket behind.                                                          *)
THEOREM ExitsClean == SocketSpec => []CleanExit
BY SocketInvariant, PTL DEF SocketInv

(* As long as no two daemons were inside bind() together, nobody takes the *)
(* path from a daemon that serves.                                         *)
THEOREM PathKept == SocketSpec => []ServesItsPath
<1>1. SocketInv => ServesItsPath
  BY DEF SocketInv, BindInv, ServesItsPath, Holding
<1> QED
  BY <1>1, SocketInvariant, PTL

(* As long as no two daemons looked for the key together, every key ever   *)
(* used is still the one in host.key, after any crashes and failed starts. *)
THEOREM OneIdentity == SocketSpec => []IdentityKept
<1>1. SocketInv => IdentityKept
  BY DEF SocketInv, KeyInv, IdentityKept
<1> QED
  BY <1>1, SocketInvariant, PTL

-----------------------------------------------------------------------------
(* What a thread can have left to do while it holds no mutex, and while it *)
(* is inside m: it only leaves m, after a save perhaps, and goes on        *)
(* without it.                                                             *)

Outside ==
  {<<>>, Brief("inner"), Brief("pairing"), status_payload, run_engine,
   Within("pairing", <<Save>>), Within("pairing", <<Save>>) \o Brief("inner")}

Inside(m) ==
  IF m = "inner"
  THEN {<<Unlock(m)>>, <<Unlock(m)>> \o status_payload}
  ELSE {<<Unlock(m)>>, <<Unlock(m)>> \o Brief("inner"),
        <<Save>> \o <<Unlock(m)>>, <<Save>> \o (<<Unlock(m)>> \o Brief("inner"))}

(* A thread holds the one mutex its script is inside of.                   *)
HoldsOnly(t, H) == \A m \in Mutexes : holder[m] = t <=> m \in H

Disciplined(t) ==
  \/ script[t] \in Outside /\ HoldsOnly(t, {})
  \/ \E m \in Mutexes : script[t] \in Inside(m) /\ HoldsOnly(t, {m})

LocksInv ==
  /\ holder \in [Mutexes -> Threads \cup {Free}]
  /\ DOMAIN script = Threads
  /\ DOMAIN serving = Conns
  /\ \A t \in Threads : Disciplined(t)
  /\ \A c \in Conns : serving[c] = "none" => script[c] = <<>>

-----------------------------------------------------------------------------
(* Scripts.                                                                *)

Lines == {"lock", "unlock", "save"} \X Mutexes

LEMMA FirstLine ==
  ASSUME NEW a \in Lines, NEW s \in Seq(Lines)
  PROVE  /\ Head(<<a>> \o s) = a /\ Tail(<<a>> \o s) = s
         /\ <<a>> \o s # <<>> /\ <<a>> \o s \in Seq(Lines)
BY DEF Lines

LEMMA Joined ==
  ASSUME NEW r \in Seq(Lines), NEW s \in Seq(Lines), NEW t \in Seq(Lines)
  PROVE  /\ (r \o s) \o t = r \o (s \o t)
         /\ r \o <<>> = r /\ <<>> \o r = r
         /\ r \o s \in Seq(Lines)
OBVIOUS

LEMMA LinesOf ==
  /\ \A m \in Mutexes : Lock(m) \in Lines /\ Unlock(m) \in Lines
  /\ Save \in Lines
  /\ \A a \in Lines : <<a>> \in Seq(Lines)
  /\ <<>> \in Seq(Lines)
BY DEF Mutexes, Lines, Lock, Unlock, Save

(* A bracket begins with its lock.                                         *)
LEMMA Bracket ==
  ASSUME NEW m \in Mutexes, NEW body \in Seq(Lines)
  PROVE  /\ Within(m, body) = <<Lock(m)>> \o (body \o <<Unlock(m)>>)
         /\ Within(m, body) \in Seq(Lines)
<1>1. <<Lock(m)>> \in Seq(Lines) /\ <<Unlock(m)>> \in Seq(Lines)
  BY LinesOf
<1> QED
  BY <1>1, Joined DEF Within

LEMMA BracketRest ==
  ASSUME NEW m \in Mutexes, NEW body \in Seq(Lines), NEW rest \in Seq(Lines)
  PROVE  Within(m, body) \o rest =
           <<Lock(m)>> \o (body \o (<<Unlock(m)>> \o rest))
<1>1. /\ <<Lock(m)>> \in Seq(Lines) /\ <<Unlock(m)>> \in Seq(Lines)
      /\ body \o <<Unlock(m)>> \in Seq(Lines)
  BY LinesOf, Joined
<1>2. Within(m, body) \o rest = <<Lock(m)>> \o ((body \o <<Unlock(m)>>) \o rest)
  <2> DEFINE left == body \o <<Unlock(m)>>
             front == <<Lock(m)>>
  <2>1. Within(m, body) = front \o left
    BY Bracket
  <2>2. front \in Seq(Lines) /\ left \in Seq(Lines)
    BY <1>1
  <2> HIDE DEF left, front
  <2>3. (front \o left) \o rest = front \o (left \o rest)
    BY <2>2, Joined, SMTT(60)
  <2> QED
    BY <2>1, <2>3 DEF left, front
<1>3. (body \o <<Unlock(m)>>) \o rest = body \o (<<Unlock(m)>> \o rest)
  BY <1>1, Joined
<1> QED
  BY <1>2, <1>3

LEMMA BriefIs ==
  ASSUME NEW m \in Mutexes
  PROVE  /\ Brief(m) = <<Lock(m)>> \o <<Unlock(m)>>
         /\ Brief(m) \in Seq(Lines)
         /\ \A rest \in Seq(Lines) :
              Brief(m) \o rest = <<Lock(m)>> \o (<<Unlock(m)>> \o rest)
<1>1. <<>> \in Seq(Lines) /\ <<Unlock(m)>> \in Seq(Lines)
  BY LinesOf
<1>2. /\ Brief(m) = <<Lock(m)>> \o (<<>> \o <<Unlock(m)>>)
      /\ Brief(m) \in Seq(Lines)
  BY <1>1, Bracket DEF Brief
<1>3. \A rest \in Seq(Lines) : <<Unlock(m)>> \o rest \in Seq(Lines)
  BY <1>1, Joined
<1>4. \A rest \in Seq(Lines) :
        Brief(m) \o rest = <<Lock(m)>> \o (<<>> \o (<<Unlock(m)>> \o rest))
  BY <1>1, BracketRest DEF Brief
<1> QED
  BY <1>1, <1>2, <1>3, <1>4, Joined

(* A thread outside that goes on takes a mutex, and is inside it.          *)
LEMMA OutsideGoesIn ==
  ASSUME NEW s \in Outside, s # <<>>
  PROVE  \E m \in Mutexes : Head(s) = Lock(m) /\ Tail(s) \in Inside(m)
<1> DEFINE I == "inner"
           P == "pairing"
           Goes(r, m, u) == Head(r) = Lock(m) /\ Tail(r) = u /\ u \in Inside(m)
<1>1. I \in Mutexes /\ P \in Mutexes /\ I # P
  BY DEF Mutexes
<1>2. /\ <<>> \in Seq(Lines) /\ <<Save>> \in Seq(Lines)
      /\ <<Unlock(I)>> \in Seq(Lines) /\ <<Unlock(P)>> \in Seq(Lines)
      /\ Lock(I) \in Lines /\ Lock(P) \in Lines
      /\ Brief(I) \in Seq(Lines) /\ Brief(P) \in Seq(Lines)
  BY <1>1, LinesOf, BriefIs
<1>3. status_payload \in Seq(Lines)
  BY <1>2, Joined DEF status_payload
<1>4. Goes(Brief(I), I, <<Unlock(I)>>)
  <2>1. Brief(I) = <<Lock(I)>> \o <<Unlock(I)>>
    BY <1>1, BriefIs
  <2>2. Head(Brief(I)) = Lock(I) /\ Tail(Brief(I)) = <<Unlock(I)>>
    BY <1>2, <2>1, FirstLine
  <2>3. <<Unlock(I)>> \in Inside(I)
    BY <1>1 DEF Inside
  <2> QED
    BY <2>2, <2>3
<1>5. Goes(Brief(P), P, <<Unlock(P)>>)
  <2>1. Brief(P) = <<Lock(P)>> \o <<Unlock(P)>>
    BY <1>1, BriefIs
  <2>2. Head(Brief(P)) = Lock(P) /\ Tail(Brief(P)) = <<Unlock(P)>>
    BY <1>2, <2>1, FirstLine
  <2>3. <<Unlock(P)>> \in Inside(P)
    BY <1>1 DEF Inside
  <2> QED
    BY <2>2, <2>3
<1>6. Goes(status_payload, P, <<Unlock(P)>> \o Brief(I))
  <2>1. status_payload = <<Lock(P)>> \o (<<Unlock(P)>> \o Brief(I))
    BY <1>1, <1>2, BriefIs DEF status_payload
  <2>2. <<Unlock(P)>> \o Brief(I) \in Seq(Lines)
    BY <1>2, Joined
  <2> QED
    BY <1>1, <1>2, <2>1, <2>2, FirstLine DEF Inside
<1>7. Goes(run_engine, I, <<Unlock(I)>> \o status_payload)
  <2>1. run_engine = Brief(I) \o status_payload
    BY <1>2, Joined DEF run_engine, status_payload
  <2>2. run_engine = <<Lock(I)>> \o (<<Unlock(I)>> \o status_payload)
    BY <1>1, <1>3, <2>1, BriefIs
  <2>3. <<Unlock(I)>> \o status_payload \in Seq(Lines)
    BY <1>2, <1>3, Joined
  <2> QED
    BY <1>1, <1>2, <2>2, <2>3, FirstLine DEF Inside
<1>8. Goes(Within(P, <<Save>>), P, <<Save>> \o <<Unlock(P)>>)
  <2>1. <<Save>> \o <<Unlock(P)>> \in Seq(Lines)
    BY <1>2, Joined
  <2>2. Within(P, <<Save>>) = <<Lock(P)>> \o (<<Save>> \o <<Unlock(P)>>)
    BY <1>1, <1>2, Bracket
  <2> QED
    BY <1>1, <1>2, <2>1, <2>2, FirstLine DEF Inside
<1>9. Goes(Within(P, <<Save>>) \o Brief(I), P,
           <<Save>> \o (<<Unlock(P)>> \o Brief(I)))
  <2>1. <<Unlock(P)>> \o Brief(I) \in Seq(Lines)
    BY <1>2, Joined
  <2>2. <<Save>> \o (<<Unlock(P)>> \o Brief(I)) \in Seq(Lines)
    BY <1>2, <2>1, Joined
  <2>3. Within(P, <<Save>>) \o Brief(I) =
          <<Lock(P)>> \o (<<Save>> \o (<<Unlock(P)>> \o Brief(I)))
    BY <1>1, <1>2, BracketRest
  <2>4. <<Save>> \o (<<Unlock(P)>> \o Brief(I)) \in Inside(P)
    BY <1>1 DEF Inside
  <2> DEFINE u == <<Save>> \o (<<Unlock(P)>> \o Brief(I))
             r == Within(P, <<Save>>) \o Brief(I)
  <2>5. r = <<Lock(P)>> \o u /\ u \in Seq(Lines)
    BY <2>2, <2>3
  <2> HIDE DEF u, r
  <2>6. Head(r) = Lock(P) /\ Tail(r) = u
    BY <1>2, <2>5, FirstLine
  <2> QED
    BY <2>4, <2>6 DEF u, r
<1> QED
  BY <1>1, <1>4, <1>5, <1>6, <1>7, <1>8, <1>9 DEF Outside

(* A thread inside saves and stays in, or leaves.                          *)
LEMMA InsideGoesOut ==
  ASSUME NEW m \in Mutexes, NEW s \in Inside(m)
  PROVE  /\ s # <<>>
         /\ \/ Head(s) = Unlock(m) /\ Tail(s) \in Outside
            \/ Head(s) = Save /\ Tail(s) \in Inside(m)
<1>1. /\ Unlock(m) \in Lines /\ Save \in Lines /\ <<>> \in Seq(Lines)
      /\ <<Unlock(m)>> \in Seq(Lines)
      /\ Brief("inner") \in Seq(Lines) /\ Brief("pairing") \in Seq(Lines)
  BY LinesOf, BriefIs DEF Mutexes
<1>2. status_payload \in Seq(Lines)
  BY <1>1, Joined DEF status_payload
<1>3. <<Unlock(m)>> \o Brief("inner") \in Seq(Lines)
  BY <1>1, Joined
<1>4. CASE s = <<Unlock(m)>>
  <2>1. s = <<Unlock(m)>> \o <<>>
    BY <1>1, <1>4, Joined
  <2>2. Head(s) = Unlock(m) /\ Tail(s) = <<>> /\ s # <<>>
    BY <1>1, <2>1, FirstLine
  <2> QED
    BY <2>2 DEF Outside
<1>5. CASE s = <<Unlock(m)>> \o status_payload
  <2>1. Head(s) = Unlock(m) /\ Tail(s) = status_payload /\ s # <<>>
    BY <1>1, <1>2, <1>5, FirstLine
  <2> QED
    BY <2>1 DEF Outside
<1>6. CASE s = <<Unlock(m)>> \o Brief("inner")
  <2>1. Head(s) = Unlock(m) /\ Tail(s) = Brief("inner") /\ s # <<>>
    BY <1>1, <1>6, FirstLine
  <2> QED
    BY <2>1 DEF Outside
<1>7. CASE m # "inner" /\ s = <<Save>> \o <<Unlock(m)>>
  <2>1. Head(s) = Save /\ Tail(s) = <<Unlock(m)>> /\ s # <<>>
    BY <1>1, <1>7, FirstLine
  <2> QED
    BY <1>7, <2>1 DEF Inside
<1>8. CASE m # "inner" /\ s = <<Save>> \o (<<Unlock(m)>> \o Brief("inner"))
  <2>1. /\ Head(s) = Save /\ Tail(s) = <<Unlock(m)>> \o Brief("inner")
        /\ s # <<>>
    BY <1>1, <1>3, <1>8, FirstLine
  <2> QED
    BY <1>8, <2>1 DEF Inside
<1> QED
  BY <1>4, <1>5, <1>6, <1>7, <1>8 DEF Inside

LEMMA ScriptsStartOutside ==
  /\ run_engine \in Outside
  /\ \A kind \in Kinds : Scripts(kind) \subseteq Outside
BY DEF Outside, Kinds, Scripts, InnerOnly, Devices, handle_pair, Revoke

-----------------------------------------------------------------------------
(* The steps.                                                              *)

LEMMA LineParts ==
  ASSUME NEW m \in Mutexes
  PROVE  /\ Lock(m)[1] = "lock" /\ Lock(m)[2] = m
         /\ Unlock(m)[1] = "unlock" /\ Unlock(m)[2] = m
         /\ Save[1] = "save"
BY DEF Lock, Unlock, Save

(* A step of t leaves the others with what they hold.                      *)
LEMMA OthersKeep ==
  ASSUME NEW t \in Threads, NEW u \in Threads, u # t, Disciplined(u),
         script'[u] = script[u],
         \A m \in Mutexes : holder'[m] = u <=> holder[m] = u
  PROVE  Disciplined(u)'
BY DEF Disciplined, HoldsOnly

LEMMA StepKeeps ==
  ASSUME LocksInv, NEW t \in Threads, Step(t)
  PROVE  LocksInv'
<1> DEFINE line == Head(script[t])
<1>1. /\ script[t] # <<>> /\ serving' = serving
      /\ script' = [script EXCEPT ![t] = Tail(script[t])]
      /\ holder \in [Mutexes -> Threads \cup {Free}]
      /\ DOMAIN script = Threads
  BY DEF Step, LocksInv
<1>2. t # Free /\ \A u \in Threads : u # Free
  BY LocksAssumption DEF Threads
<1>3. /\ DOMAIN script' = Threads
      /\ script'[t] = Tail(script[t])
      /\ \A u \in Threads : u # t => script'[u] = script[u]
  BY <1>1
<1>4. \A c \in Conns : serving'[c] = "none" => script'[c] = <<>>
  BY <1>1, <1>3 DEF LocksInv, Threads
<1>5. /\ holder' \in [Mutexes -> Threads \cup {Free}]
      /\ Disciplined(t)'
      /\ \A u \in Threads : u # t =>
           \A m \in Mutexes : holder'[m] = u <=> holder[m] = u
  <2>1. CASE script[t] \in Outside /\ HoldsOnly(t, {})
    <3>1. PICK m \in Mutexes : line = Lock(m) /\ Tail(script[t]) \in Inside(m)
      BY <1>1, <2>1, OutsideGoesIn
    <3>2. line[1] = "lock" /\ line[2] = m
      BY <3>1, LineParts
    <3>3. holder[m] = Free /\ holder' = [holder EXCEPT ![m] = t]
      BY <3>2 DEF Step
    <3>4. HoldsOnly(t, {m})'
      BY <1>1, <2>1, <3>3 DEF HoldsOnly
    <3> QED
      BY <1>1, <1>2, <1>3, <3>1, <3>3, <3>4 DEF Disciplined
  <2>2. ASSUME NEW m \in Mutexes, script[t] \in Inside(m), HoldsOnly(t, {m})
        PROVE  /\ holder' \in [Mutexes -> Threads \cup {Free}]
               /\ Disciplined(t)'
               /\ \A u \in Threads : u # t =>
                    \A k \in Mutexes : holder'[k] = u <=> holder[k] = u
    <3>1. CASE line = Unlock(m) /\ Tail(script[t]) \in Outside
      <4>1. line[1] = "unlock" /\ line[2] = m
        BY <3>1, LineParts
      <4>2. holder' = [holder EXCEPT ![m] = Free]
        BY <4>1 DEF Step
      <4>3. holder[m] = t
        BY <2>2 DEF HoldsOnly
      <4>4. HoldsOnly(t, {})'
        BY <1>1, <1>2, <2>2, <4>2 DEF HoldsOnly
      <4> QED
        BY <1>1, <1>2, <1>3, <3>1, <4>2, <4>3, <4>4 DEF Disciplined
    <3>2. CASE line = Save /\ Tail(script[t]) \in Inside(m)
      <4>1. line[1] = "save"
        BY <3>2, LineParts
      <4>2. holder' = holder
        BY <4>1 DEF Step
      <4>3. HoldsOnly(t, {m})'
        BY <2>2, <4>2 DEF HoldsOnly
      <4> QED
        BY <1>1, <1>3, <3>2, <4>2, <4>3 DEF Disciplined
    <3> QED
      BY <2>2, <3>1, <3>2, InsideGoesOut
  <2> QED
    BY <2>1, <2>2 DEF LocksInv, Disciplined
<1>6. \A u \in Threads : Disciplined(u)'
  <2> SUFFICES ASSUME NEW u \in Threads, u # t PROVE Disciplined(u)'
    BY <1>5
  <2>1. Disciplined(u)
    BY DEF LocksInv
  <2> QED
    BY <1>3, <1>5, <2>1, OthersKeep
<1>7. DOMAIN serving' = Conns
  BY <1>1 DEF LocksInv
<1> QED
  BY <1>3, <1>4, <1>5, <1>6, <1>7 DEF LocksInv

(* A thread with nothing left to do holds nothing, and starts outside.     *)
LEMMA StartKeeps ==
  ASSUME LocksInv, NEW t \in Threads, script[t] = <<>>, NEW s \in Outside,
         script' = [script EXCEPT ![t] = s], UNCHANGED holder
  PROVE  DOMAIN script' = Threads /\ \A u \in Threads : Disciplined(u)'
<1>1. /\ DOMAIN script' = Threads /\ script'[t] = s
      /\ \A u \in Threads : u # t => script'[u] = script[u]
  BY DEF LocksInv
<1>2. HoldsOnly(t, {})
  BY InsideGoesOut DEF LocksInv, Disciplined
<1>3. Disciplined(t)'
  BY <1>1, <1>2 DEF Disciplined, HoldsOnly
<1>4. ASSUME NEW u \in Threads, u # t PROVE Disciplined(u)'
  <2>1. Disciplined(u)
    BY DEF LocksInv
  <2> QED
    BY <1>1, <1>4, <2>1, OthersKeep
<1> QED
  BY <1>1, <1>3, <1>4

LEMMA BeginKeeps ==
  ASSUME LocksInv, NEW c \in Conns, Begin(c)
  PROVE  LocksInv'
<1>1. PICK kind \in Kinds : \E s \in Scripts(kind) :
        /\ serving' = [serving EXCEPT ![c] = kind]
        /\ script' = [script EXCEPT ![c] = s]
  BY DEF Begin
<1>2. PICK s \in Scripts(kind) :
        /\ serving' = [serving EXCEPT ![c] = kind]
        /\ script' = [script EXCEPT ![c] = s]
  BY <1>1
<1>3. s \in Outside
  BY ScriptsStartOutside
<1>4. c \in Threads /\ script[c] = <<>> /\ UNCHANGED holder
  BY DEF Begin, LocksInv, Threads
<1>5. DOMAIN script' = Threads /\ \A u \in Threads : Disciplined(u)'
  BY <1>2, <1>3, <1>4, StartKeeps
<1>6. \A d \in Conns : serving'[d] = "none" => script'[d] = <<>>
  <2>1. kind # "none"
    BY DEF Kinds
  <2> QED
    BY <1>2, <2>1 DEF LocksInv, Threads
<1>7. DOMAIN serving' = Conns
  BY <1>2 DEF LocksInv
<1> QED
  BY <1>4, <1>5, <1>6, <1>7 DEF LocksInv

LEMMA LocksInvStep ==
  ASSUME LocksInv, [LocksNext]_lockVars
  PROVE  LocksInv'
<1>1. CASE Turn
  <2>1. Engine \in Threads /\ \A c \in Conns : c # Engine /\ c \in Threads
    BY LocksAssumption DEF Threads
  <2>2. /\ script[Engine] = <<>> /\ UNCHANGED <<holder, serving>>
        /\ script' = [script EXCEPT ![Engine] = run_engine]
    BY <1>1 DEF Turn
  <2>3. DOMAIN script' = Threads /\ \A u \in Threads : Disciplined(u)'
    BY <2>1, <2>2, ScriptsStartOutside, StartKeeps
  <2>4. \A c \in Conns : serving'[c] = "none" => script'[c] = <<>>
    BY <2>1, <2>2 DEF LocksInv
  <2> QED
    BY <2>2, <2>3, <2>4 DEF LocksInv
<1>2. ASSUME NEW c \in Conns, Answer(c) PROVE LocksInv'
  <2>1. /\ script[c] = <<>> /\ UNCHANGED <<holder, script>>
        /\ serving' = [serving EXCEPT ![c] = "none"]
    BY <1>2 DEF Answer
  <2>2. \A t \in Threads : Disciplined(t)'
    BY <2>1 DEF LocksInv, Disciplined, HoldsOnly
  <2>3. /\ DOMAIN serving' = Conns
        /\ \A d \in Conns : serving'[d] = "none" => script'[d] = <<>>
    BY <2>1 DEF LocksInv
  <2> QED
    BY <2>1, <2>2, <2>3 DEF LocksInv
<1>3. CASE UNCHANGED lockVars
  BY <1>3 DEF lockVars, LocksInv, Disciplined, HoldsOnly
<1> QED
  BY <1>1, <1>2, <1>3, BeginKeeps, StepKeeps DEF LocksNext

LEMMA LocksInvInit == LocksInit => LocksInv
<1> SUFFICES ASSUME LocksInit PROVE LocksInv
  OBVIOUS
<1>1. \A t \in Threads : t # Free
  BY LocksAssumption DEF Threads
<1>2. \A t \in Threads : Disciplined(t)
  BY <1>1 DEF LocksInit, Disciplined, HoldsOnly, Outside
<1> QED
  BY <1>2 DEF LocksInit, LocksInv, Threads

(* The locking rule of Service: whatever requests arrive, on any number of *)
(* connections, while the engine goes round, no thread ever holds `inner`  *)
(* and `pairing` together.                                                 *)
THEOREM NeverHoldsBoth == LocksSpec => []NeverBoth
<1>1. LocksInv /\ [LocksNext]_lockVars => LocksInv'
  BY LocksInvStep
<1>2. LocksInv => NeverBoth
  <2> SUFFICES ASSUME LocksInv, NEW t \in Threads
               PROVE  \E m \in Mutexes : holder[m] # t
    BY DEF NeverBoth
  <2>1. Disciplined(t)
    BY DEF LocksInv
  <2> QED
    BY <2>1 DEF Disciplined, HoldsOnly, Mutexes
<1> QED
  BY <1>1, <1>2, LocksInvInit, PTL DEF LocksSpec

=============================================================================
