------------------------------- MODULE Locks --------------------------------
(***************************************************************************)
(* The two mutexes of Service (service.rs), `inner` and `pairing`: which   *)
(* thread takes which, in what order, and what it does while it holds it.  *)
(*                                                                         *)
(* A thread runs a script: the names of the mutexes it locks and unlocks,  *)
(* and "save" where it writes the trust store to disk.  A control          *)
(* connection runs the script of one request after another, the engine     *)
(* that of its loop.                                                       *)
(***************************************************************************)
EXTENDS Naturals, Sequences

CONSTANTS
  Conns,    \* control connections
  Engine,   \* the engine thread
  Free      \* no thread

ASSUME LocksAssumption ==
  /\ Engine \notin Conns
  /\ Free \notin Conns \cup {Engine}

VARIABLES
  holder,   \* the thread inside each mutex
  script,   \* what each thread has left to do
  serving   \* the request each connection is serving, or "none"

lockVars == <<holder, script, serving>>

Threads == Conns \cup {Engine}
Mutexes == {"inner", "pairing"}
Lock(m) == <<"lock", m>>
Unlock(m) == <<"unlock", m>>
Save == <<"save", "pairing">>

Within(m, body) == <<Lock(m)>> \o body \o <<Unlock(m)>>
Brief(m) == Within(m, <<>>)

(* What is left of a script after n lines.                                 *)
Rest(s, n) == SubSeq(s, n + 1, Len(s))

-----------------------------------------------------------------------------
(* The scripts.                                                            *)

(* status and events: the number of paired devices, then the rest.         *)
status_payload == Brief("pairing") \o Brief("inner")

(* screens, start, stop and select.                                        *)
InnerOnly == Brief("inner")

(* devices.                                                                *)
Devices == Brief("pairing")

(* pair new and pair accept save under the lock, or return without it.     *)
handle_pair == {Within("pairing", <<Save>>), Brief("pairing")}

(* Mutants of revoke: the pairing guard lives to the end of the match; the *)
(* device is looked up again under a second guard.                         *)
RevokeNested ==
  {Within("pairing", <<Save>> \o Brief("inner")), Brief("pairing")}
RevokeTwice ==
  {Within("pairing", <<Save>> \o Brief("pairing")), Brief("pairing")}

(* revoke: the pairing guard is gone before the id is pushed; a device     *)
(* that is not on file, or a failed save, ends the request there.          *)
Revoke ==
  {Within("pairing", <<Save>>) \o Brief("inner"), Within("pairing", <<Save>>),
   Brief("pairing")}

(* An iteration of the engine: the inner mutex for one field at a time,    *)
(* and the authorizer, which runs while nothing else is held.              *)
run_engine == Brief("inner") \o Brief("pairing") \o Brief("inner")

Scripts(kind) ==
  CASE kind = "status"  -> {status_payload}
    [] kind = "inner"   -> {InnerOnly}
    [] kind = "devices" -> {Devices}
    [] kind = "pair"    -> handle_pair
    [] kind = "revoke"  -> Revoke

Kinds == {"status", "inner", "devices", "pair", "revoke"}

-----------------------------------------------------------------------------

LocksInit ==
  /\ holder = [m \in Mutexes |-> Free]
  /\ script = [t \in Threads |-> <<>>]
  /\ serving = [c \in Conns |-> "none"]

(* A request comes in: a connection serves one at a time.                  *)
Begin(c) ==
  /\ serving[c] = "none"
  /\ \E kind \in Kinds : \E s \in Scripts(kind) :
       /\ serving' = [serving EXCEPT ![c] = kind]
       /\ script' = [script EXCEPT ![c] = s]
  /\ UNCHANGED holder

(* The engine goes round.                                                  *)
Turn ==
  /\ script[Engine] = <<>>
  /\ script' = [script EXCEPT ![Engine] = run_engine]
  /\ UNCHANGED <<holder, serving>>

(* The next line of t's script.  A std mutex is not reentrant.             *)
Step(t) ==
  /\ script[t] # <<>>
  /\ LET m == Head(script[t])[2] IN
     CASE Head(script[t])[1] = "lock" ->
            holder[m] = Free /\ holder' = [holder EXCEPT ![m] = t]
       [] Head(script[t])[1] = "unlock" ->
            holder' = [holder EXCEPT ![m] = Free]
       [] OTHER -> UNCHANGED holder
  /\ script' = [script EXCEPT ![t] = Tail(@)]
  /\ UNCHANGED serving

(* The reply goes out.                                                     *)
Answer(c) ==
  /\ serving[c] # "none"
  /\ script[c] = <<>>
  /\ serving' = [serving EXCEPT ![c] = "none"]
  /\ UNCHANGED <<holder, script>>

LocksNext ==
  \/ \E c \in Conns : Begin(c) \/ Answer(c)
  \/ Turn
  \/ \E t \in Threads : Step(t)

(* A thread that can run does.  Nothing is assumed of who gets a mutex     *)
(* that several threads wait for.                                          *)
LocksSpec ==
  /\ LocksInit /\ [][LocksNext]_lockVars
  /\ \A t \in Threads : WF_lockVars(Step(t))
  /\ \A c \in Conns : WF_lockVars(Answer(c))

-----------------------------------------------------------------------------
(* Properties.                                                             *)

(* Type invariant: a thread is somewhere in a script of the request it     *)
(* serves.                                                                 *)
LocksTypeOK ==
  /\ holder \in [Mutexes -> Threads \cup {Free}]
  /\ serving \in [Conns -> Kinds \cup {"none"}]
  /\ DOMAIN script = Threads
  /\ script[Engine] \in {Rest(run_engine, n) : n \in 0..Len(run_engine)}
  /\ \A c \in Conns :
       \/ script[c] = <<>>
       \/ /\ serving[c] # "none"
          /\ \E s \in Scripts(serving[c]) :
               script[c] \in {Rest(s, n) : n \in 0..Len(s)}

(* The locking rule on Service: never hold both mutexes at once.           *)
NeverBoth == \A t \in Threads : \E m \in Mutexes : holder[m] # t

(* No set of requests wedges the daemon (issue #26): if no more requests   *)
(* come and the engine rests, every request under way is answered.         *)
NeverWedged ==
  <>[][~Turn /\ \A c \in Conns : ~Begin(c)]_lockVars
    => <>[](\A t \in Threads : script[t] = <<>>)

(* What the comment on Service::pairing says: a disk write never blocks    *)
(* the status path.                                                        *)
StatusNeverWaitsForDisk ==
  \A c, d \in Conns :
    ~ /\ serving[c] = "status"
      /\ script[c] # <<>>
      /\ Head(script[c]) = Lock("pairing")
      /\ holder["pairing"] = d
      /\ script[d] # <<>>
      /\ Head(script[d]) = Save

=============================================================================
