----------------------------- MODULE TrustStore -----------------------------
(***************************************************************************)
(* The pairing database of pairing.rs: pairing codes, attempt counting,    *)
(* devices, revocation, and the file all of it is saved to.                *)
(*                                                                         *)
(* An operation takes the pairing mutex, changes the database in memory,   *)
(* calls save(), drops the mutex and answers.  Nobody else sees the store  *)
(* in between, but save() may fail and the process may die at any of these *)
(* points, so each operation is three steps: change, save, return.         *)
(* Requests that are refused before the database is touched (malformed     *)
(* code, key or name, nothing pending, unknown or already revoked device)  *)
(* change nothing and are left out.                                        *)
(*                                                                         *)
(* A code is the number of the new_code call that minted it: two codes are *)
(* never equal, and 0 stands for "no pending code" in the store and for a  *)
(* code that was never minted in a guess.                                  *)
(***************************************************************************)
EXTENDS Naturals, FiniteSets, DeviceIds

CONSTANTS
  Conns,              \* control connections
  None,               \* "no device"
  MAX_CODE_ATTEMPTS,  \* wrong guesses before a code is burned
  CODE_TTL,           \* lifetime of a code, in ticks
  MaxCodes,           \* bound: codes ever minted
  MaxClock            \* bound: the clock

ASSUME StoreAssumption ==
  /\ None \notin Devices
  /\ MAX_CODE_ATTEMPTS \in Nat \ {0}
  /\ CODE_TTL \in Nat
  /\ MaxCodes \in Nat
  /\ MaxClock \in Nat

VARIABLES
  db,        \* PairingDb::db, in memory
  file,      \* the contents of pairing.json
  up,        \* the daemon process is running
  op,        \* {} or the operation that holds the pairing mutex
  clock,     \* now_unix()
  minted,    \* history: number of codes minted
  answered,  \* history: wrong guesses of a code that got a verdict
  ack,       \* history: last verdict on a device the operator was told,
             \* "none" once a later operation on it has begun
  struck     \* history: devices whose revocation was ever acknowledged

history == <<minted, answered, ack, struck>>
vars == <<db, file, up, op, clock, history>>

Codes == 1..MaxCodes

(* `code` is history: the code the device was paired with (0 = none).      *)
DeviceRec == [st: {"absent", "active", "revoked"}, code: Codes \cup {0}]

(* code 0 is Option::None.                                                 *)
PendingCode ==
  [code: Codes \cup {0}, expires_at: Nat, attempts: 0..(MAX_CODE_ATTEMPTS - 1)]

DbFile == [devices: [Devices -> DeviceRec], pending: PendingCode]

Operation ==
  [by: Conns, kind: {"new", "pair", "wrong", "dead", "revoke"},
   dev: Devices \cup {None}, code: Codes \cup {0},
   stage: {"save", "ok", "io"}]

NoPending == [code |-> 0, expires_at |-> 0, attempts |-> 0]

EmptyDb ==
  [devices |-> [d \in Devices |-> [st |-> "absent", code |-> 0]],
   pending |-> NoPending]

(* Type invariant: the store in memory and the one on disk are databases,  *)
(* with no more attempts counted than a code is allowed.                   *)
TypeOK ==
  /\ db \in DbFile
  /\ file \in DbFile
  /\ up \in BOOLEAN
  /\ op \in SUBSET Operation
  /\ clock \in Nat
  /\ minted \in Codes \cup {0}
  /\ answered \in [Codes -> Nat]
  /\ ack \in [Devices -> {"none", "active", "revoked"}]
  /\ struck \in SUBSET Devices

Init ==
  /\ db = EmptyDb
  /\ file = EmptyDb
  /\ up = TRUE
  /\ op = {}
  /\ clock = 0
  /\ minted = 0
  /\ answered = [c \in Codes |-> 0]
  /\ ack = [d \in Devices |-> "none"]
  /\ struck = {}

-----------------------------------------------------------------------------
(* The mutex and the first half of an operation.                           *)

LockFree == up /\ op = {}

Begin(c, k, d, code) ==
  op' = {[by |-> c, kind |-> k, dev |-> d, code |-> code, stage |-> "save"]}

(* A verdict the operator was told stands until the next change of d.      *)
Forget(d) == ack' = [ack EXCEPT ![d] = "none"]

(* new_code: a fresh code replaces whatever was pending.                   *)
NewCode(c) ==
  /\ LockFree
  /\ minted < MaxCodes
  /\ minted' = minted + 1
  /\ db' = [db EXCEPT !.pending =
              [code |-> minted + 1, expires_at |-> clock + CODE_TTL,
               attempts |-> 0]]
  /\ Begin(c, "new", None, minted + 1)
  /\ UNCHANGED <<file, up, clock, answered, ack, struck>>

(* The checks accept_code makes of the pending code before it compares.    *)
Dead(p) == clock > p.expires_at \/ p.attempts >= MAX_CODE_ATTEMPTS

(* accept_code against a code that expired or ran out of attempts: the     *)
(* code is dropped and the guess is not even compared.                     *)
AcceptDead(c) ==
  /\ LockFree
  /\ db.pending.code # 0
  /\ Dead(db.pending)
  /\ db' = [db EXCEPT !.pending = NoPending]
  /\ Begin(c, "dead", None, db.pending.code)
  /\ UNCHANGED <<file, up, clock, history>>

(* The pending code after one more failure; the last one burns it.         *)
CountFailure(p) ==
  IF p.attempts + 1 >= MAX_CODE_ATTEMPTS
  THEN NoPending
  ELSE [p EXCEPT !.attempts = @ + 1]

(* A mutant: a wrong guess is answered without saving the count.           *)
AcceptWrongUnsaved(c) ==
  /\ LockFree
  /\ db.pending.code # 0
  /\ ~Dead(db.pending)
  /\ db' = [db EXCEPT !.pending = CountFailure(@)]
  /\ op' = {[by |-> c, kind |-> "wrong", dev |-> None,
             code |-> db.pending.code, stage |-> "ok"]}
  /\ UNCHANGED <<file, up, clock, history>>

(* accept_code with another code than the pending one.                     *)
AcceptWrong(c) ==
  /\ LockFree
  /\ db.pending.code # 0
  /\ ~Dead(db.pending)
  /\ db' = [db EXCEPT !.pending = CountFailure(@)]
  /\ Begin(c, "wrong", None, db.pending.code)
  /\ UNCHANGED <<file, up, clock, history>>

(* A mutant: the code stays pending after it was redeemed.                 *)
AcceptRightKeepsCode(c, d) ==
  /\ LockFree
  /\ db.pending.code # 0
  /\ ~Dead(db.pending)
  /\ db' = [db EXCEPT !.devices[d] =
              [st |-> "active", code |-> db.pending.code]]
  /\ Begin(c, "pair", d, db.pending.code)
  /\ Forget(d)
  /\ UNCHANGED <<file, up, clock, minted, answered, struck>>

(* accept_code with the pending code: the device goes on file, unrevoked,  *)
(* over any record of the same id, and the code is spent.                  *)
AcceptRight(c, d) ==
  /\ LockFree
  /\ db.pending.code # 0
  /\ ~Dead(db.pending)
  /\ db' = [devices |-> [db.devices EXCEPT ![d] =
                           [st |-> "active", code |-> db.pending.code]],
            pending |-> NoPending]
  /\ Begin(c, "pair", d, db.pending.code)
  /\ Forget(d)
  /\ UNCHANGED <<file, up, clock, minted, answered, struck>>

(* revoke of a device that is on file and not revoked.                     *)
Revoke(c, d) ==
  /\ LockFree
  /\ db.devices[d].st = "active"
  /\ db' = [db EXCEPT !.devices[d].st = "revoked"]
  /\ Begin(c, "revoke", d, 0)
  /\ Forget(d)
  /\ UNCHANGED <<file, up, clock, minted, answered, struck>>

-----------------------------------------------------------------------------
(* save(), the answer, and the life of the process.                        *)

(* What reaches pairing.json: the whole database, in one rename.           *)
Save ==
  \E o \in op :
    /\ o.stage = "save"
    /\ file' = db
    /\ op' = {[o EXCEPT !.stage = "ok"]}
    /\ UNCHANGED <<db, up, clock, history>>

(* A mutant: the error of a failed save is swallowed.                      *)
SaveFailsSilently ==
  \E o \in op :
    /\ o.stage = "save"
    /\ op' = {[o EXCEPT !.stage = "ok"]}
    /\ UNCHANGED <<db, file, up, clock, history>>

(* create_dir_all, chmod, create, write, fsync or rename fails.            *)
SaveFails ==
  \E o \in op :
    /\ o.stage = "save"
    /\ op' = {[o EXCEPT !.stage = "io"]}
    /\ UNCHANGED <<db, file, up, clock, history>>

(* The answer of a failed save is Err(Io): it says nothing of the guess.   *)
ReturnError ==
  \E o \in op :
    /\ o.stage = "io"
    /\ op' = {}
    /\ UNCHANGED <<db, file, up, clock, history>>

(* The answer after a save: Ok, or the verdict on a wrong guess.           *)
ReturnSaved ==
  \E o \in op :
    /\ o.stage = "ok"
    /\ op' = {}
    /\ answered' = IF o.kind = "wrong"
                   THEN [answered EXCEPT ![o.code] = @ + 1] ELSE answered
    /\ ack' = CASE o.kind = "pair"   -> [ack EXCEPT ![o.dev] = "active"]
                [] o.kind = "revoke" -> [ack EXCEPT ![o.dev] = "revoked"]
                [] OTHER             -> ack
    /\ struck' = IF o.kind = "revoke" THEN struck \cup {o.dev} ELSE struck
    /\ UNCHANGED <<db, file, up, clock, minted>>

(* The process dies, or exits: run_serve does not wait for the connection  *)
(* threads, so an operation can be cut short either way.                   *)
Crash ==
  /\ up
  /\ up' = FALSE
  /\ db' = EmptyDb
  /\ op' = {}
  /\ UNCHANGED <<file, clock, history>>

(* A mutant: an unreadable file is replaced by an empty store.             *)
LoadEmpty ==
  /\ ~up
  /\ up' = TRUE
  /\ db' = EmptyDb
  /\ UNCHANGED <<file, op, clock, history>>

(* load(): the file is complete, since only the rename changes it, and an  *)
(* absent file is the empty database.                                      *)
Load ==
  /\ ~up
  /\ up' = TRUE
  /\ db' = file
  /\ UNCHANGED <<file, op, clock, history>>

Tick ==
  /\ clock < MaxClock
  /\ clock' = clock + 1
  /\ UNCHANGED <<db, file, up, op, history>>

Next ==
  \/ \E c \in Conns : NewCode(c) \/ AcceptDead(c) \/ AcceptWrong(c)
  \/ \E c \in Conns, d \in Devices : AcceptRight(c, d) \/ Revoke(c, d)
  \/ Save \/ SaveFails
  \/ ReturnSaved \/ ReturnError
  \/ Crash \/ Load
  \/ Tick

Spec == Init /\ [][Next]_vars

-----------------------------------------------------------------------------
(* Properties.                                                             *)

(* However the daemon crashes and its saves fail, the verdicts given on    *)
(* wrong guesses of one code never exceed MAX_CODE_ATTEMPTS: accept_code   *)
(* saves the count before it answers.                                      *)
AttemptBudget == \A c \in Codes : answered[c] <= MAX_CODE_ATTEMPTS

(* A code pairs one device: neither the store in memory nor the file ever  *)
(* holds two devices admitted by the same code, although a failed save or  *)
(* a crash can bring a spent code back from the file.                      *)
CodeSingleUse ==
  \A s \in {db, file} : \A d, e \in Devices :
    /\ s.devices[d].st # "absent"
    /\ s.devices[e].st # "absent"
    /\ s.devices[d].code = s.devices[e].code
    => d = e

(* A verdict the operator was told ("paired", "revoked") is in the file,   *)
(* and in memory whenever the daemon runs, until the next operation on     *)
(* that device: no crash and no failed save of another operation undoes it.*)
AckDurable ==
  \A d \in Devices : ack[d] # "none" =>
    /\ file.devices[d].st = ack[d]
    /\ up => db.devices[d].st = ack[d]

(* What derive_device_id's comment says: once the operator was told that   *)
(* a device is revoked, pairing again does not make it active.             *)
RevocationNotDodged ==
  \A d \in struck : db.devices[d].st # "active"

-----------------------------------------------------------------------------
(* The store implements the ledger the rest of the daemon relies on.       *)

Verdicts(s) == [d \in Devices |-> s.devices[d].st]

LedgerKind(k) == IF k \in {"pair", "revoke"} THEN k ELSE "other"

LedgerOps ==
  {[by |-> o.by, kind |-> LedgerKind(o.kind), dev |-> o.dev,
    stage |-> o.stage] : o \in op}

Ledger == INSTANCE TrustLedger WITH
  mem <- Verdicts(db), disk <- Verdicts(file), op <- LedgerOps

(* Codes, attempts and expiry never let the store change a verdict in a    *)
(* way the ledger does not allow.                                          *)
ImplementsLedger == Ledger!LedgerSpec

=============================================================================
