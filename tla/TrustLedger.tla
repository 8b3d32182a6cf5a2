---------------------------- MODULE TrustLedger ----------------------------
(***************************************************************************)
(* What the pairing store promises the rest of the daemon, without codes   *)
(* and clocks: a verdict per device in memory, the copy of it on disk, and *)
(* one operation at a time that changes memory, saves, and returns.        *)
(*                                                                         *)
(* `PairingDb` sits behind one mutex (Service::pairing) that a control     *)
(* connection holds from its first read to the end of `save`, so `op` is   *)
(* both the operation in progress and the mutex: the lock is free when it  *)
(* is the empty set.  TrustStore, the detailed model of pairing.rs, is     *)
(* checked to implement this module; Daemon builds on it.                  *)
(***************************************************************************)
EXTENDS Naturals, FiniteSets, DeviceIds

CONSTANTS
  Conns,     \* control connections, one thread each
  None       \* "no device", for an operation that concerns none

ASSUME LedgerAssumption == None \notin Devices

VARIABLES
  mem,    \* the verdict on each device in PairingDb::db
  disk,   \* the verdict on each device in pairing.json
  up,     \* the daemon process is running
  op      \* {} or the one operation that holds the pairing mutex

ledgerVars == <<mem, disk, up, op>>

Verdict == {"absent", "active", "revoked"}
Kind == {"pair", "revoke", "other"}

(* "save": memory changed, save() not over; "ok"/"io": save() returned.    *)
Stage == {"save", "ok", "io"}

Operation == [by: Conns, kind: Kind, dev: Devices \cup {None}, stage: Stage]

LockFree == up /\ op = {}

(* The authorizer's answer: the device is on file and not revoked.         *)
Trusted(d) == mem[d] = "active"

LedgerTypeOK ==
  /\ mem \in [Devices -> Verdict]
  /\ disk \in [Devices -> Verdict]
  /\ up \in BOOLEAN
  /\ op \in SUBSET Operation

LedgerInit ==
  /\ mem = [d \in Devices |-> "absent"]
  /\ disk = mem
  /\ up = TRUE
  /\ op = {}

-----------------------------------------------------------------------------

Begin(c, k, d) ==
  op' = {[by |-> c, kind |-> k, dev |-> d, stage |-> "save"]}

(* accept_code with the right code: the record is inserted unrevoked,      *)
(* whatever was on file for that id.                                       *)
LedgerPair(c, d) ==
  /\ LockFree
  /\ mem' = [mem EXCEPT ![d] = "active"]
  /\ Begin(c, "pair", d)
  /\ UNCHANGED <<disk, up>>

(* revoke of a device that is on file and not revoked yet; every other     *)
(* request is NotFound and changes nothing.                                *)
LedgerRevoke(c, d) ==
  /\ LockFree
  /\ Trusted(d)
  /\ mem' = [mem EXCEPT ![d] = "revoked"]
  /\ Begin(c, "revoke", d)
  /\ UNCHANGED <<disk, up>>

(* new_code, a wrong guess, the retirement of a dead code: they save too.  *)
LedgerOther(c) ==
  /\ LockFree
  /\ Begin(c, "other", None)
  /\ UNCHANGED <<mem, disk, up>>

(* save() to the end: the rename replaces the file in one step.            *)
LedgerSave ==
  \E o \in op :
    /\ o.stage = "save"
    /\ disk' = mem
    /\ op' = {[o EXCEPT !.stage = "ok"]}
    /\ UNCHANGED <<mem, up>>

(* save() fails at one of its steps before the rename: memory keeps the    *)
(* change and the file keeps the old contents.                             *)
LedgerSaveFails ==
  \E o \in op :
    /\ o.stage = "save"
    /\ op' = {[o EXCEPT !.stage = "io"]}
    /\ UNCHANGED <<mem, disk, up>>

(* The guard is dropped and the connection gets its answer.                *)
LedgerReturn ==
  /\ \E o \in op : o.stage # "save"
  /\ op' = {}
  /\ UNCHANGED <<mem, disk, up>>

(* The process dies, at any point of an operation; what it had in memory   *)
(* is gone.  A clean exit is the same step: run_serve does not wait for    *)
(* the connection threads.                                                 *)
LedgerCrash ==
  /\ up
  /\ up' = FALSE
  /\ mem' = [d \in Devices |-> "absent"]
  /\ op' = {}
  /\ UNCHANGED disk

(* PairingDb::load: the file as it is, or an empty store without one.      *)
LedgerRestart ==
  /\ ~up
  /\ up' = TRUE
  /\ mem' = disk
  /\ UNCHANGED <<disk, op>>

LedgerNext ==
  \/ \E c \in Conns, d \in Devices : LedgerPair(c, d) \/ LedgerRevoke(c, d)
  \/ \E c \in Conns : LedgerOther(c)
  \/ LedgerSave
  \/ LedgerSaveFails
  \/ LedgerReturn
  \/ LedgerCrash
  \/ LedgerRestart

LedgerSpec == LedgerInit /\ [][LedgerNext]_ledgerVars

=============================================================================
