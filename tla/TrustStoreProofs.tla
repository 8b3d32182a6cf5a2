-------------------------- MODULE TrustStoreProofs --------------------------
(***************************************************************************)
(* Proofs about the pairing store, for any number of devices, connections, *)
(* codes and attempts, and any pattern of crashes and failed saves.        *)
(*                                                                         *)
(* None of the three invariants is inductive.  A failed save or a crash    *)
(* brings a code back from the file, so what has to be kept is a bound for *)
(* the store in memory and another one for the file: the file's count is   *)
(* ahead of the verdicts given, memory's also of the one being prepared    *)
(* (BudgetInv); neither holds a device of the code it still has pending    *)
(* (SpentInv); and file and memory agree from a save to its answer         *)
(* (DurableInv).                                                           *)
(***************************************************************************)
EXTENDS TrustStore, TLAPS

(* One operation holds the mutex, in a live process, and one that concerns *)
(* a device names it.                                                      *)
OpInv ==
  /\ \A o1, o2 \in op : o1 = o2
  /\ ~up => op = {}
  /\ \A o \in op : o.kind \in {"pair", "revoke"} => o.dev \in Devices
  /\ \A o \in op : o.kind = "wrong" => o.code \in Codes

(* Codes that were not minted yet are nowhere.                             *)
FreshInv ==
  /\ \A s \in {db, file} : s.pending.code <= minted
  /\ \A s \in {db, file} : \A d \in Devices : s.devices[d].code <= minted
  /\ \A o \in op : o.code <= minted
  /\ \A c \in Codes : c > minted => answered[c] = 0

(* A verdict on a wrong guess of c that an operation is about to give.     *)
Owed(c, stages) ==
  IF \E o \in op : o.kind = "wrong" /\ o.code = c /\ o.stage \in stages
  THEN 1 ELSE 0

(* Every verdict was counted before: in memory from the comparison on, in  *)
(* the file from the save on.                                              *)
BudgetInv ==
  \A c \in Codes :
    /\ answered[c] + Owed(c, {"save", "ok"}) <= MAX_CODE_ATTEMPTS
    /\ db.pending.code = c =>
         answered[c] + Owed(c, {"save", "ok"}) <= db.pending.attempts
    /\ file.pending.code = c =>
         answered[c] + Owed(c, {"ok"}) <= file.pending.attempts

(* A store never has a code pending that one of its devices was paired     *)
(* with.                                                                   *)
SpentInv ==
  \A s \in {db, file} : \A d \in Devices :
    s.devices[d].st # "absent" =>
      s.devices[d].code # 0 /\ s.devices[d].code # s.pending.code

(* Between save and answer the file is the store in memory, which already  *)
(* has the verdict that is about to be told; until then none is standing.  *)
DurableInv ==
  \A o \in op :
    /\ o.stage = "ok" => file = db
    /\ o.kind = "pair" => db.devices[o.dev].st = "active"
    /\ o.kind = "revoke" => db.devices[o.dev].st = "revoked"
    /\ o.kind \in {"pair", "revoke"} => ack[o.dev] = "none"

StoreInv ==
  /\ TypeOK
  /\ OpInv
  /\ FreshInv
  /\ BudgetInv
  /\ SpentInv
  /\ CodeSingleUse
  /\ DurableInv
  /\ AckDurable

-----------------------------------------------------------------------------

LEMMA StoreInitInv == Init => StoreInv
<1> SUFFICES ASSUME Init PROVE StoreInv
  OBVIOUS
<1>1. EmptyDb \in DbFile
  BY StoreAssumption
     DEF EmptyDb, DbFile, NoPending, PendingCode, DeviceRec, Codes
<1>2. TypeOK
  BY <1>1, StoreAssumption DEF Init, TypeOK, Codes
<1>3. OpInv /\ BudgetInv /\ DurableInv
  BY StoreAssumption
     DEF Init, OpInv, BudgetInv, DurableInv, Owed, EmptyDb, NoPending, Codes
<1>4. FreshInv /\ SpentInv /\ CodeSingleUse /\ AckDurable
  BY DEF Init, FreshInv, SpentInv, CodeSingleUse, AckDurable, EmptyDb,
         NoPending, Codes
<1> QED
  BY <1>2, <1>3, <1>4 DEF StoreInv

(* The pending code of a store, and what one more failure makes of it.     *)
LEMMA PendingType ==
  ASSUME NEW p \in PendingCode
  PROVE  /\ NoPending \in PendingCode
         /\ CountFailure(p) \in PendingCode
         /\ CountFailure(p).code \in {0, p.code}
         /\ CountFailure(p).code # 0 =>
              CountFailure(p).attempts = p.attempts + 1
         /\ p.attempts + 1 <= MAX_CODE_ATTEMPTS
<1>1. NoPending \in PendingCode
  BY StoreAssumption DEF NoPending, PendingCode
<1>2. CASE p.attempts + 1 >= MAX_CODE_ATTEMPTS
  BY <1>1, <1>2, StoreAssumption DEF CountFailure, NoPending, PendingCode
<1>3. CASE ~(p.attempts + 1 >= MAX_CODE_ATTEMPTS)
  <2>1. CountFailure(p) = [p EXCEPT !.attempts = @ + 1]
    BY <1>3 DEF CountFailure
  <2>2. p.attempts + 1 \in 0..(MAX_CODE_ATTEMPTS - 1)
    BY <1>3, StoreAssumption DEF PendingCode
  <2> QED
    BY <1>1, <2>1, <2>2, StoreAssumption DEF PendingCode
<1> QED
  BY <1>2, <1>3

(* The first half of an operation, as the rest of the proof needs it: the  *)
(* process is up, nobody else is inside, and the operation is of its type. *)
LEMMA BeginStep ==
  ASSUME TypeOK, LockFree, NEW c \in Conns,
         NEW k \in {"new", "pair", "wrong", "dead", "revoke"},
         NEW d \in Devices \cup {None}, NEW code \in Codes \cup {0},
         Begin(c, k, d, code)
  PROVE  /\ up /\ op = {}
         /\ op' \in SUBSET Operation
         /\ \E o \in op' :
              /\ op' = {o}
              /\ o.kind = k /\ o.dev = d /\ o.code = code
              /\ o.stage = "save"
<1> DEFINE new == [by |-> c, kind |-> k, dev |-> d, code |-> code,
                   stage |-> "save"]
<1>1. new \in Operation /\ op' = {new}
  BY DEF Begin, Operation
<1>2. new.kind = k /\ new.dev = d /\ new.code = code /\ new.stage = "save"
  OBVIOUS
<1> QED
  BY <1>1, <1>2 DEF LockFree

LEMMA TypeStep == TypeOK /\ OpInv /\ Next => TypeOK'
<1> SUFFICES ASSUME TypeOK, OpInv, Next PROVE TypeOK'
  OBVIOUS
<1>1. db \in DbFile /\ file \in DbFile /\ db.pending \in PendingCode
      /\ db.devices \in [Devices -> DeviceRec]
  BY DEF TypeOK, DbFile
<1>2. ASSUME NEW c \in Conns, NewCode(c) PROVE TypeOK'
  <2>1. minted + 1 \in Codes
    BY <1>2, StoreAssumption DEF NewCode, TypeOK, Codes
  <2>2. [code |-> minted + 1, expires_at |-> clock + CODE_TTL, attempts |-> 0]
          \in PendingCode
    BY <2>1, StoreAssumption DEF TypeOK, PendingCode
  <2>3. db' \in DbFile
    BY <1>1, <1>2, <2>2 DEF NewCode, DbFile
  <2>4. op' \in SUBSET Operation
    BY <1>2, <2>1, BeginStep DEF NewCode
  <2> QED
    BY <1>2, <2>1, <2>3, <2>4 DEF NewCode, TypeOK
<1>3. ASSUME NEW c \in Conns, AcceptDead(c) PROVE TypeOK'
  <2>1. db' \in DbFile
    BY <1>1, <1>3, PendingType DEF AcceptDead, DbFile
  <2>2. op' \in SUBSET Operation
    BY <1>1, <1>3, BeginStep DEF AcceptDead, PendingCode
  <2> QED
    BY <1>3, <2>1, <2>2 DEF AcceptDead, TypeOK, history
<1>4. ASSUME NEW c \in Conns, AcceptWrong(c) PROVE TypeOK'
  <2>1. db' \in DbFile
    BY <1>1, <1>4, PendingType DEF AcceptWrong, DbFile
  <2>2. op' \in SUBSET Operation
    BY <1>1, <1>4, BeginStep DEF AcceptWrong, PendingCode
  <2> QED
    BY <1>4, <2>1, <2>2 DEF AcceptWrong, TypeOK, history
<1>5. ASSUME NEW c \in Conns, NEW d \in Devices, AcceptRight(c, d)
      PROVE  TypeOK'
  <2>1. [st |-> "active", code |-> db.pending.code] \in DeviceRec
    BY <1>1 DEF DeviceRec, PendingCode
  <2>2. db' \in DbFile
    BY <1>1, <1>5, <2>1, PendingType DEF AcceptRight, DbFile
  <2>3. op' \in SUBSET Operation
    BY <1>1, <1>5, BeginStep DEF AcceptRight, PendingCode
  <2> QED
    BY <1>5, <2>2, <2>3 DEF AcceptRight, Forget, TypeOK
<1>6. ASSUME NEW c \in Conns, NEW d \in Devices, Revoke(c, d)
      PROVE  TypeOK'
  <2>1. [db.devices[d] EXCEPT !.st = "revoked"] \in DeviceRec
    BY <1>1 DEF DeviceRec
  <2>2. db' = [db EXCEPT !.devices =
                 [db.devices EXCEPT ![d] =
                    [db.devices[d] EXCEPT !.st = "revoked"]]]
    BY <1>1, <1>6 DEF Revoke, DbFile
  <2>3. db' \in DbFile
    BY <1>1, <2>1, <2>2 DEF DbFile
  <2>4. op' \in SUBSET Operation
    BY <1>6, BeginStep DEF Revoke
  <2> QED
    BY <1>6, <2>3, <2>4 DEF Revoke, Forget, TypeOK
<1>7. CASE Save \/ SaveFails
  <2>1. PICK o \in op, st \in {"ok", "io"} : op' = {[o EXCEPT !.stage = st]}
    BY <1>7 DEF Save, SaveFails
  <2>2. [o EXCEPT !.stage = st] \in Operation
    BY DEF TypeOK, Operation
  <2> QED
    BY <1>1, <1>7, <2>1, <2>2 DEF Save, SaveFails, TypeOK, history
<1>8. CASE ReturnSaved
  <2>1. PICK o \in op :
          /\ op' = {}
          /\ answered' = IF o.kind = "wrong"
                         THEN [answered EXCEPT ![o.code] = @ + 1] ELSE answered
          /\ ack' = CASE o.kind = "pair"   -> [ack EXCEPT ![o.dev] = "active"]
                      [] o.kind = "revoke" -> [ack EXCEPT ![o.dev] = "revoked"]
                      [] OTHER             -> ack
          /\ struck' = IF o.kind = "revoke" THEN struck \cup {o.dev} ELSE struck
          /\ UNCHANGED <<db, file, up, clock, minted>>
    BY <1>8 DEF ReturnSaved
  <2>2. o \in Operation
    BY DEF TypeOK
  <2>3. answered' \in [Codes -> Nat]
    BY <2>1 DEF TypeOK, OpInv
  <2>4. ack' \in [Devices -> {"none", "active", "revoked"}]
    BY <2>1 DEF TypeOK, OpInv
  <2>5. struck' \in SUBSET Devices
    BY <2>1 DEF TypeOK, OpInv
  <2> QED
    BY <2>1, <2>3, <2>4, <2>5 DEF TypeOK
<1>9. CASE ReturnError \/ Load \/ Tick
  <2>1. CASE ReturnError
    BY <2>1 DEF ReturnError, TypeOK, history
  <2>2. CASE Load
    BY <2>2 DEF Load, TypeOK, history
  <2>3. CASE Tick
    BY <2>3 DEF Tick, TypeOK, history
  <2> QED
    BY <1>9, <2>1, <2>2, <2>3
<1>10. CASE Crash
  <2>1. EmptyDb \in DbFile
    BY StoreAssumption
       DEF EmptyDb, DbFile, NoPending, PendingCode, DeviceRec, Codes
  <2> QED
    BY <1>10, <2>1 DEF Crash, TypeOK, history
<1> QED
  BY <1>2, <1>3, <1>4, <1>5, <1>6, <1>7, <1>8, <1>9, <1>10 DEF Next

-----------------------------------------------------------------------------
(* What the halves of an operation do to the mutex.                        *)

(* save() turns the operation inside into one that has been saved, or not. *)
LEMMA SaveStep ==
  ASSUME TypeOK, OpInv, Save \/ SaveFails
  PROVE  \E o \in op, p \in op' :
           /\ op = {o} /\ op' = {p} /\ up
           /\ o.stage = "save"
           /\ p.kind = o.kind /\ p.dev = o.dev /\ p.code = o.code
           /\ \/ p.stage = "ok" /\ file' = db
              \/ p.stage = "io" /\ file' = file
           /\ UNCHANGED <<db, up, minted, answered, ack>>
<1>1. PICK o \in op, st \in {"ok", "io"} :
        /\ o.stage = "save"
        /\ op' = {[o EXCEPT !.stage = st]}
        /\ st = "ok" => file' = db
        /\ st = "io" => file' = file
  BY DEF Save, SaveFails
<1> DEFINE p == [o EXCEPT !.stage = st]
<1>2. o \in Operation
  BY DEF TypeOK
<1>3. p.kind = o.kind /\ p.dev = o.dev /\ p.code = o.code /\ p.stage = st
  BY <1>2 DEF Operation
<1>4. op = {o} /\ up
  BY DEF OpInv
<1>5. UNCHANGED <<db, up, minted, answered, ack>>
  BY DEF Save, SaveFails, history
<1> HIDE DEF p
<1>6. op' = {p}
  BY <1>1 DEF p
<1> QED
  BY <1>1, <1>3, <1>4, <1>5, <1>6

(* An operation on a device begins, with the mutex to itself.              *)
LEMMA BeginsOn ==
  ASSUME TypeOK, NEW c \in Conns, NEW d \in Devices,
         AcceptRight(c, d) \/ Revoke(c, d)
  PROVE  /\ up /\ op = {} /\ up' = up /\ file' = file /\ answered' = answered
         /\ minted' = minted
         /\ \E o \in op' :
              /\ op' = {o}
              /\ o.stage = "save" /\ o.dev = d
              /\ \/ /\ AcceptRight(c, d)
                    /\ o.kind = "pair" /\ o.code = db.pending.code
                 \/ Revoke(c, d) /\ o.kind = "revoke" /\ o.code = 0
<1>1. db.pending.code \in Codes \cup {0}
  BY DEF TypeOK, DbFile, PendingCode
<1>2. CASE AcceptRight(c, d)
  BY <1>1, <1>2, BeginStep DEF AcceptRight, LockFree
<1>3. CASE Revoke(c, d)
  BY <1>3, BeginStep DEF Revoke, LockFree
<1> QED
  BY <1>2, <1>3

(* new_code, a wrong guess and a dead code begin, and concern no device.   *)
LEMMA BeginsAlone ==
  ASSUME TypeOK, NEW c \in Conns,
         NewCode(c) \/ AcceptDead(c) \/ AcceptWrong(c)
  PROVE  /\ up /\ op = {} /\ up' = up /\ file' = file /\ answered' = answered
         /\ ack' = ack
         /\ \E o \in op' :
              /\ op' = {o}
              /\ o.stage = "save"
              /\ o.code \in Codes \cup {0}
              /\ \/ NewCode(c) /\ o.kind = "new" /\ o.code = minted + 1
                 \/ AcceptDead(c) /\ o.kind = "dead" /\ o.code = db.pending.code
                 \/ AcceptWrong(c) /\ o.kind = "wrong" /\ o.code = db.pending.code
<1>1. db.pending.code \in Codes \cup {0}
  BY DEF TypeOK, DbFile, PendingCode
<1>2. CASE NewCode(c)
  <2>1. minted + 1 \in Codes
    BY <1>2, StoreAssumption DEF NewCode, TypeOK, Codes
  <2> QED
    BY <1>2, <2>1, BeginStep DEF NewCode, LockFree
<1>3. CASE AcceptDead(c)
  BY <1>1, <1>3, BeginStep DEF AcceptDead, LockFree, history
<1>4. CASE AcceptWrong(c)
  BY <1>1, <1>4, BeginStep DEF AcceptWrong, LockFree, history
<1> QED
  BY <1>2, <1>3, <1>4

-----------------------------------------------------------------------------

LEMMA OpStep == TypeOK /\ OpInv /\ Next => OpInv'
<1> SUFFICES ASSUME TypeOK, OpInv, Next PROVE OpInv'
  OBVIOUS
<1>1. ASSUME NEW c \in Conns, NewCode(c) \/ AcceptDead(c) \/ AcceptWrong(c)
      PROVE  OpInv'
  <2>1. AcceptWrong(c) => db.pending.code # 0
    BY DEF AcceptWrong
  <2> QED
    BY <1>1, <2>1, BeginsAlone DEF OpInv
<1>2. ASSUME NEW c \in Conns, NEW d \in Devices, AcceptRight(c, d) \/ Revoke(c, d)
      PROVE  OpInv'
  BY <1>2, BeginsOn DEF OpInv
<1>3. CASE Save \/ SaveFails
  BY <1>3, SaveStep DEF OpInv
<1>4. CASE ReturnSaved \/ ReturnError \/ Crash
  BY <1>4 DEF ReturnSaved, ReturnError, Crash, OpInv
<1>5. CASE Load \/ Tick
  BY <1>5 DEF Load, Tick, OpInv
<1> QED
  BY <1>1, <1>2, <1>3, <1>4, <1>5 DEF Next

(* What a wrong guess and its answer do to the count of a code.            *)
LEMMA OwedFacts ==
  ASSUME NEW c, NEW stages
  PROVE  /\ Owed(c, stages) \in {0, 1}
         /\ op = {} => Owed(c, stages) = 0
BY DEF Owed

LEMMA FreshStep == TypeOK /\ OpInv /\ FreshInv /\ Next => FreshInv'
<1> SUFFICES ASSUME TypeOK, OpInv, FreshInv, Next PROVE FreshInv'
  OBVIOUS
<1> DEFINE Below(s) == /\ s.pending.code <= minted
                       /\ \A d \in Devices : s.devices[d].code <= minted
<1>0. /\ minted \in Nat /\ db \in DbFile /\ file \in DbFile
      /\ Below(db) /\ Below(file)
      /\ db.pending.code \in Nat
  BY StoreAssumption DEF TypeOK, FreshInv, Codes, DbFile, PendingCode
<1>1. ASSUME NEW c \in Conns, NewCode(c) PROVE FreshInv'
  <2>1. minted' = minted + 1 /\ answered' = answered /\ file' = file
    BY <1>1 DEF NewCode
  <2>2. \A o \in op' : o.code <= minted'
    BY <1>0, <1>1, <2>1, BeginsAlone
  <2>3. /\ db'.pending.code = minted + 1
        /\ db'.devices = db.devices
    BY <1>0, <1>1 DEF NewCode, DbFile
  <2>4. \A c1 \in Codes : c1 > minted' => answered'[c1] = 0
    BY <1>0, <2>1 DEF FreshInv, Codes
  <2>5. \A d \in Devices : db.devices[d].code \in Nat /\ file.devices[d].code \in Nat
    BY <1>0 DEF DbFile, DeviceRec, Codes
  <2>6. file.pending.code \in Nat
    BY <1>0 DEF DbFile, PendingCode, Codes
  <2> QED
    BY <1>0, <2>1, <2>2, <2>3, <2>4, <2>5, <2>6 DEF FreshInv
<1>2. ASSUME NEW c \in Conns, AcceptDead(c) \/ AcceptWrong(c) PROVE FreshInv'
  <2>1. UNCHANGED <<minted, answered, file>>
    BY <1>2 DEF AcceptDead, AcceptWrong, history
  <2>2. db'.pending.code \in {0, db.pending.code} /\ db'.devices = db.devices
    <3>1. CASE AcceptDead(c)
      BY <1>0, <3>1 DEF AcceptDead, DbFile, NoPending
    <3>2. CASE AcceptWrong(c)
      BY <1>0, <3>2, PendingType DEF AcceptWrong, DbFile
    <3> QED
      BY <1>2, <3>1, <3>2
  <2>3. ~NewCode(c)
    BY <1>0, <2>1 DEF NewCode
  <2>4. \A o \in op' : o.code <= minted
    BY <1>0, <1>2, <2>3, BeginsAlone
  <2> QED
    BY <1>0, <2>1, <2>2, <2>4 DEF FreshInv
<1>3. ASSUME NEW c \in Conns, NEW d \in Devices, AcceptRight(c, d) \/ Revoke(c, d)
      PROVE  FreshInv'
  <2>1. UNCHANGED <<minted, answered, file>>
    BY <1>3 DEF AcceptRight, Revoke
  <2>2. /\ db'.pending.code \in {0, db.pending.code}
        /\ \A e \in Devices :
             db'.devices[e].code \in {db.devices[e].code, db.pending.code}
    <3>1. CASE AcceptRight(c, d)
      BY <1>0, <3>1 DEF AcceptRight, DbFile, DeviceRec, NoPending
    <3>2. CASE Revoke(c, d)
      BY <1>0, <3>2 DEF Revoke, DbFile, DeviceRec
    <3> QED
      BY <1>3, <3>1, <3>2
  <2>3. \A o \in op' : o.code <= minted
    BY <1>0, <1>3, BeginsOn
  <2> QED
    BY <1>0, <2>1, <2>2, <2>3 DEF FreshInv
<1>4. CASE Save \/ SaveFails
  BY <1>0, <1>4, SaveStep DEF FreshInv
<1>5. CASE ReturnSaved
  <2>1. PICK o \in op :
          /\ op' = {}
          /\ answered' = IF o.kind = "wrong"
                         THEN [answered EXCEPT ![o.code] = @ + 1] ELSE answered
          /\ UNCHANGED <<db, file, minted>>
    BY <1>5 DEF ReturnSaved
  <2>2. o.code <= minted
    BY DEF FreshInv
  <2>3. \A c1 \in Codes : c1 > minted => answered'[c1] = 0
    BY <1>0, <2>1, <2>2 DEF FreshInv, TypeOK, Codes
  <2> QED
    BY <2>1, <2>3 DEF FreshInv
<1>6. CASE ReturnError \/ Load \/ Tick
  BY <1>6 DEF ReturnError, Load, Tick, FreshInv, history
<1>7. CASE Crash
  BY <1>0, <1>7 DEF Crash, FreshInv, EmptyDb, NoPending, history
<1> QED
  BY <1>1, <1>2, <1>3, <1>4, <1>5, <1>6, <1>7 DEF Next

(* The count of a code is ahead of its verdicts at every point of a wrong  *)
(* guess, and a code that comes back from the file brings the file's count *)
(* with it.                                                                *)
LEMMA BudgetStep ==
  TypeOK /\ OpInv /\ FreshInv /\ BudgetInv /\ Next => BudgetInv'
<1> SUFFICES ASSUME TypeOK, OpInv, FreshInv, BudgetInv, Next,
                    NEW c \in Codes
             PROVE  /\ answered[c]' + Owed(c, {"save", "ok"})'
                         <= MAX_CODE_ATTEMPTS
                    /\ db'.pending.code = c =>
                         answered[c]' + Owed(c, {"save", "ok"})'
                           <= db'.pending.attempts
                    /\ file'.pending.code = c =>
                         answered[c]' + Owed(c, {"ok"})'
                           <= file'.pending.attempts
  BY DEF BudgetInv
<1> DEFINE mine == Owed(c, {"save", "ok"})
           told == Owed(c, {"ok"})
           Kept == /\ answered[c]' + mine' <= MAX_CODE_ATTEMPTS
                   /\ db'.pending.code = c =>
                        answered[c]' + mine' <= db'.pending.attempts
                   /\ file'.pending.code = c =>
                        answered[c]' + told' <= file'.pending.attempts
<1> SUFFICES Kept
  OBVIOUS
<1>0. /\ answered[c] \in Nat /\ minted \in Nat /\ c \in Nat \ {0}
      /\ MAX_CODE_ATTEMPTS \in Nat \ {0}
      /\ db.pending \in PendingCode /\ file.pending \in PendingCode
      /\ db.pending.attempts \in Nat /\ file.pending.attempts \in Nat
  BY StoreAssumption DEF TypeOK, DbFile, PendingCode, Codes
<1>1. /\ mine \in {0, 1} /\ told \in {0, 1}
      /\ mine' \in {0, 1} /\ told' \in {0, 1}
  BY DEF Owed
<1>2. /\ answered[c] + mine <= MAX_CODE_ATTEMPTS
      /\ db.pending.code = c => answered[c] + mine <= db.pending.attempts
      /\ file.pending.code = c => answered[c] + told <= file.pending.attempts
  BY DEF BudgetInv
<1>3. op = {} => mine = 0 /\ told = 0
  BY DEF Owed
<1>4. op' = {} => mine' = 0 /\ told' = 0
  BY DEF Owed
<1>5. ASSUME NEW k \in Conns, NewCode(k) PROVE Kept
  <2>1. op = {} /\ file' = file /\ answered' = answered
    BY <1>5, BeginsAlone
  <2>2. mine' = 0 /\ told' = 0
    BY <1>5 DEF NewCode, Begin, Owed
  <2>3. db'.pending.code = minted + 1 /\ db'.pending.attempts = 0
    BY <1>5 DEF NewCode, TypeOK, DbFile
  <2>4. c = minted + 1 => answered[c] = 0
    BY <1>0 DEF FreshInv
  <2> HIDE DEF mine, told
  <2> QED
    BY <1>0, <1>1, <1>2, <1>3, <2>1, <2>2, <2>3, <2>4
<1>6. ASSUME NEW k \in Conns, AcceptDead(k) PROVE Kept
  <2>1. op = {} /\ file' = file /\ answered' = answered
    BY <1>6, BeginsAlone
  <2>2. mine' = 0 /\ told' = 0
    BY <1>6 DEF AcceptDead, Begin, Owed
  <2>3. db'.pending.code = 0
    BY <1>6 DEF AcceptDead, TypeOK, DbFile, NoPending
  <2> HIDE DEF mine, told
  <2> QED
    BY <1>0, <1>1, <1>2, <1>3, <2>1, <2>2, <2>3
<1>7. ASSUME NEW k \in Conns, AcceptWrong(k) PROVE Kept
  <2>1. op = {} /\ file' = file /\ answered' = answered
    BY <1>7, BeginsAlone
  <2>2. told' = 0 /\ (db.pending.code # c => mine' = 0)
    BY <1>7 DEF AcceptWrong, Begin, Owed
  <2>3. db'.pending = CountFailure(db.pending)
    BY <1>7 DEF AcceptWrong, TypeOK, DbFile
  <2>4. /\ db.pending.attempts + 1 <= MAX_CODE_ATTEMPTS
        /\ db'.pending.code = c =>
             db.pending.code = c /\ db'.pending.attempts = db.pending.attempts + 1
    BY <1>0, <2>3, PendingType
  <2> HIDE DEF mine, told
  <2>5. CASE db.pending.code = c
    BY <1>0, <1>1, <1>2, <1>3, <2>1, <2>2, <2>4, <2>5
  <2>6. CASE db.pending.code # c
    BY <1>0, <1>1, <1>2, <1>3, <2>1, <2>2, <2>4, <2>6
  <2> QED
    BY <2>5, <2>6
<1>8. ASSUME NEW k \in Conns, NEW d \in Devices, AcceptRight(k, d) \/ Revoke(k, d)
      PROVE  Kept
  <2>1. op = {} /\ file' = file /\ answered' = answered
    BY <1>8, BeginsOn
  <2>2. mine' = 0 /\ told' = 0
    BY <1>8 DEF AcceptRight, Revoke, Begin, Owed
  <2>3. db'.pending = NoPending \/ db'.pending = db.pending
    BY <1>8 DEF AcceptRight, Revoke, TypeOK, DbFile
  <2>4. NoPending.code = 0
    BY DEF NoPending
  <2> HIDE DEF mine, told
  <2> QED
    BY <1>0, <1>1, <1>2, <1>3, <2>1, <2>2, <2>3, <2>4
<1>9. CASE Save \/ SaveFails
  <2>1. PICK o \in op, p \in op' :
          /\ op = {o} /\ op' = {p}
          /\ o.stage = "save"
          /\ p.kind = o.kind /\ p.code = o.code
          /\ \/ p.stage = "ok" /\ file' = db
             \/ p.stage = "io" /\ file' = file
          /\ UNCHANGED <<db, answered>>
    BY <1>9, SaveStep
  <2>2. /\ told = 0
        /\ p.stage = "ok" => mine' = mine /\ told' = mine
        /\ p.stage = "io" => mine' = 0 /\ told' = 0
    BY <2>1 DEF Owed
  <2> HIDE DEF mine, told
  <2> QED
    BY <1>0, <1>1, <1>2, <2>1, <2>2
<1>10. CASE ReturnSaved
  <2>1. PICK o \in op :
          /\ o.stage = "ok"
          /\ op' = {}
          /\ answered' = IF o.kind = "wrong"
                         THEN [answered EXCEPT ![o.code] = @ + 1] ELSE answered
          /\ UNCHANGED <<db, file>>
    BY <1>10 DEF ReturnSaved
  <2>2. answered'[c] =
          IF o.kind = "wrong" /\ o.code = c THEN answered[c] + 1 ELSE answered[c]
    BY <2>1 DEF TypeOK
  <2>3. o.kind = "wrong" /\ o.code = c => mine = 1 /\ told = 1
    BY <2>1 DEF Owed
  <2> HIDE DEF mine, told
  <2> QED
    BY <1>0, <1>1, <1>2, <1>4, <2>1, <2>2, <2>3
<1>11. CASE ReturnError
  <2>1. op' = {} /\ UNCHANGED <<db, file, answered>>
    BY <1>11 DEF ReturnError, history
  <2> HIDE DEF mine, told
  <2> QED
    BY <1>0, <1>1, <1>2, <1>4, <2>1
<1>12. CASE Crash
  <2>1. op' = {} /\ UNCHANGED <<file, answered>> /\ db'.pending.code = 0
    BY <1>12 DEF Crash, EmptyDb, NoPending, history
  <2> HIDE DEF mine, told
  <2> QED
    BY <1>0, <1>1, <1>2, <1>4, <2>1
<1>13. CASE Load
  <2>1. op = {} /\ op' = {} /\ UNCHANGED <<file, answered>> /\ db' = file
    BY <1>13 DEF Load, OpInv, history
  <2> HIDE DEF mine, told
  <2> QED
    BY <1>0, <1>1, <1>2, <1>3, <1>4, <2>1
<1>14. CASE Tick
  BY <1>2, <1>14 DEF Tick, Owed, history
<1> QED
  BY <1>5, <1>6, <1>7, <1>8, <1>9, <1>10, <1>11, <1>12, <1>13, <1>14 DEF Next

-----------------------------------------------------------------------------

(* A store in which the pending code was not used, and every other one at  *)
(* most once.                                                              *)
Sound(s) ==
  /\ \A d \in Devices :
       s.devices[d].st # "absent" =>
         s.devices[d].code # 0 /\ s.devices[d].code # s.pending.code
  /\ \A d, e \in Devices :
       /\ s.devices[d].st # "absent"
       /\ s.devices[e].st # "absent"
       /\ s.devices[d].code = s.devices[e].code
       => d = e

LEMMA SoundStores == SpentInv /\ CodeSingleUse <=> Sound(db) /\ Sound(file)
BY DEF SpentInv, CodeSingleUse, Sound

LEMMA SpentStep ==
  TypeOK /\ OpInv /\ FreshInv /\ SpentInv /\ CodeSingleUse /\ Next
    => SpentInv' /\ CodeSingleUse'
<1> SUFFICES ASSUME TypeOK, OpInv, FreshInv, Sound(db), Sound(file), Next
             PROVE  Sound(db') /\ Sound(file')
  BY SoundStores DEF SpentInv, CodeSingleUse, Sound
<1>0. /\ minted \in Nat /\ db \in DbFile
      /\ \A d \in Devices : db.devices[d].code \in Nat
      /\ \A d \in Devices : db.devices[d].code <= minted
      /\ db.devices \in [Devices -> DeviceRec]
  BY StoreAssumption DEF TypeOK, DbFile, DeviceRec, Codes, FreshInv
<1>1. ASSUME NEW c \in Conns, NewCode(c) PROVE Sound(db') /\ file' = file
  <2>1. db'.devices = db.devices /\ db'.pending.code = minted + 1
    BY <1>0, <1>1 DEF NewCode, DbFile
  <2>2. \A d \in Devices : db.devices[d].code # minted + 1
    BY <1>0
  <2> QED
    BY <1>1, <2>1, <2>2 DEF NewCode, Sound
<1>2. ASSUME NEW c \in Conns, AcceptDead(c) \/ AcceptWrong(c)
      PROVE  Sound(db') /\ file' = file
  <2>1. db'.pending.code \in {0, db.pending.code} /\ db'.devices = db.devices
    <3>1. CASE AcceptDead(c)
      BY <1>0, <3>1 DEF AcceptDead, DbFile, NoPending
    <3>2. CASE AcceptWrong(c)
      BY <1>0, <3>2, PendingType DEF AcceptWrong, DbFile
    <3> QED
      BY <1>2, <3>1, <3>2
  <2> QED
    BY <1>2, <2>1 DEF Sound, AcceptDead, AcceptWrong
<1>3. ASSUME NEW c \in Conns, NEW d \in Devices, AcceptRight(c, d)
      PROVE  Sound(db') /\ file' = file
  <2>1. /\ db'.pending.code = 0 /\ db.pending.code # 0
        /\ db'.devices[d].code = db.pending.code
        /\ \A e \in Devices \ {d} : db'.devices[e] = db.devices[e]
    BY <1>0, <1>3 DEF AcceptRight, NoPending
  <2> QED
    BY <1>3, <2>1 DEF Sound, AcceptRight
<1>4. ASSUME NEW c \in Conns, NEW d \in Devices, Revoke(c, d)
      PROVE  Sound(db') /\ file' = file
  <2>1. /\ db'.pending = db.pending
        /\ \A e \in Devices : db'.devices[e].code = db.devices[e].code
        /\ \A e \in Devices :
             db.devices[e].st = "absent" => db'.devices[e].st = "absent"
    BY <1>0, <1>4 DEF Revoke, DbFile, DeviceRec
  <2> QED
    BY <1>4, <2>1 DEF Sound, Revoke
<1>5. CASE Save \/ SaveFails
  BY <1>5 DEF Save, SaveFails
<1>6. CASE ReturnSaved \/ ReturnError \/ Load \/ Tick
  BY <1>6 DEF ReturnSaved, ReturnError, Load, Tick
<1>7. CASE Crash
  BY <1>7 DEF Crash, EmptyDb, Sound
<1> QED
  BY <1>1, <1>2, <1>3, <1>4, <1>5, <1>6, <1>7 DEF Next

(* A verdict told stays in both stores: an operation on the device takes   *)
(* it back before it changes memory, every other one leaves the device     *)
(* alone, so saving memory or loading the file changes nothing for it.     *)
LEMMA DurableStep ==
  TypeOK /\ OpInv /\ DurableInv /\ AckDurable /\ Next
    => DurableInv' /\ AckDurable'
<1> SUFFICES ASSUME TypeOK, OpInv, DurableInv, AckDurable, Next
             PROVE  DurableInv' /\ AckDurable'
  OBVIOUS
<1>0. /\ db \in DbFile /\ db.devices \in [Devices -> DeviceRec]
      /\ ack \in [Devices -> {"none", "active", "revoked"}]
  BY DEF TypeOK, DbFile
<1>1. ASSUME NEW c \in Conns, NewCode(c) \/ AcceptDead(c) \/ AcceptWrong(c)
      PROVE  DurableInv' /\ AckDurable'
  <2>1. db'.devices = db.devices
    BY <1>0, <1>1 DEF NewCode, AcceptDead, AcceptWrong, DbFile
  <2> QED
    BY <1>1, <2>1, BeginsAlone DEF DurableInv, AckDurable
<1>2. ASSUME NEW c \in Conns, NEW d \in Devices, AcceptRight(c, d) \/ Revoke(c, d)
      PROVE  DurableInv' /\ AckDurable'
  <2>1. /\ AcceptRight(c, d) => db'.devices[d].st = "active"
        /\ Revoke(c, d) => db'.devices[d].st = "revoked"
        /\ \A e \in Devices \ {d} : db'.devices[e] = db.devices[e]
    BY <1>0, <1>2 DEF AcceptRight, Revoke, DbFile, DeviceRec
  <2>2. ack'[d] = "none" /\ \A e \in Devices \ {d} : ack'[e] = ack[e]
    BY <1>0, <1>2 DEF AcceptRight, Revoke, Forget
  <2>3. DurableInv'
    BY <1>2, <2>1, <2>2, BeginsOn DEF DurableInv
  <2>4. AckDurable'
    BY <1>2, <2>1, <2>2, BeginsOn DEF AckDurable
  <2> QED
    BY <2>3, <2>4
<1>3. CASE Save \/ SaveFails
  <2>1. DurableInv'
    BY <1>3, SaveStep DEF DurableInv
  <2>2. AckDurable'
    BY <1>3, SaveStep DEF AckDurable
  <2> QED
    BY <2>1, <2>2
<1>4. CASE ReturnSaved
  <2>1. PICK o \in op :
          /\ o.stage = "ok"
          /\ op' = {}
          /\ ack' = CASE o.kind = "pair"   -> [ack EXCEPT ![o.dev] = "active"]
                      [] o.kind = "revoke" -> [ack EXCEPT ![o.dev] = "revoked"]
                      [] OTHER             -> ack
          /\ UNCHANGED <<db, file, up>>
    BY <1>4 DEF ReturnSaved
  <2>2. \A d \in Devices :
          \/ ack'[d] = ack[d]
          \/ /\ o.dev = d
             /\ \/ o.kind = "pair" /\ ack'[d] = "active"
                \/ o.kind = "revoke" /\ ack'[d] = "revoked"
    BY <1>0, <2>1
  <2>3. AckDurable'
    BY <2>1, <2>2 DEF DurableInv, AckDurable
  <2> QED
    BY <2>1, <2>3 DEF DurableInv
<1>5. CASE ReturnError \/ Crash \/ Tick
  BY <1>5 DEF ReturnError, Crash, Tick, DurableInv, AckDurable, history
<1>6. CASE Load
  BY <1>6 DEF Load, OpInv, DurableInv, AckDurable, history
<1> QED
  BY <1>1, <1>2, <1>3, <1>4, <1>5, <1>6 DEF Next

LEMMA StoreStep == StoreInv /\ [Next]_vars => StoreInv'
<1>1. CASE UNCHANGED vars
  BY <1>1 DEF vars, history, StoreInv, TypeOK, OpInv, FreshInv, BudgetInv, Owed,
              SpentInv, CodeSingleUse, DurableInv, AckDurable
<1> QED
  BY <1>1, TypeStep, OpStep, FreshStep, BudgetStep, SpentStep, DurableStep
     DEF StoreInv

-----------------------------------------------------------------------------
(* The theorems.                                                           *)

LEMMA StoreInvariant == Spec => []StoreInv
BY StoreInitInv, StoreStep, PTL DEF Spec

(* The store in memory and the one in the file are databases at any time.  *)
THEOREM StoreTypes == Spec => []TypeOK
BY StoreInvariant, PTL DEF StoreInv

(* No crash, failed save or restart buys a guesser another attempt: the    *)
(* verdicts on wrong guesses of a code never exceed MAX_CODE_ATTEMPTS.     *)
THEOREM AttemptsBounded == Spec => []AttemptBudget
<1>1. ASSUME StoreInv PROVE AttemptBudget
  <2> SUFFICES ASSUME NEW c \in Codes
               PROVE  answered[c] <= MAX_CODE_ATTEMPTS
    BY DEF AttemptBudget
  <2>1. answered[c] + Owed(c, {"save", "ok"}) <= MAX_CODE_ATTEMPTS
    BY <1>1 DEF StoreInv, BudgetInv
  <2> QED
    BY <1>1, <2>1, OwedFacts, StoreAssumption DEF StoreInv, TypeOK
<1> QED
  BY <1>1, StoreInvariant, PTL

(* A code that comes back after a crash or a failed save still admits one  *)
(* device in memory and one in the file.                                   *)
THEOREM CodeUsedOnce == Spec => []CodeSingleUse
BY StoreInvariant, PTL DEF StoreInv

(* What the operator was told about a device survives crashes and failed   *)
(* saves of other operations.                                              *)
THEOREM VerdictsDurable == Spec => []AckDurable
BY StoreInvariant, PTL DEF StoreInv

-----------------------------------------------------------------------------
(* The refinement of TrustLedger.                                          *)

LEMMA LedgerInitially == Init => Ledger!LedgerInit
BY DEF Init, Ledger!LedgerInit, Verdicts, EmptyDb, LedgerOps

(* Begin of an operation, and its image.                                   *)
LEMMA LedgerBegins ==
  ASSUME NEW c, NEW k, NEW d, NEW code, Begin(c, k, d, code)
  PROVE  Ledger!Begin(c, LedgerKind(k), d)
<1>1. LedgerOps' = {[by |-> c, kind |-> LedgerKind(k), dev |-> d,
                     stage |-> "save"]}
  BY DEF Begin, LedgerOps
<1> QED
  BY <1>1 DEF Ledger!Begin

(* Every step of the store is a step of the ledger, or one that it does    *)
(* not see: the tick of the clock.                                         *)
LEMMA LedgerStep ==
  StoreInv /\ [Next]_vars => [Ledger!LedgerNext]_Ledger!ledgerVars
<1> SUFFICES ASSUME StoreInv, Next
             PROVE  Ledger!LedgerNext \/ UNCHANGED Ledger!ledgerVars
  BY DEF vars, Ledger!ledgerVars, LedgerOps, Verdicts
<1>0. /\ db \in DbFile /\ db.devices \in [Devices -> DeviceRec]
      /\ op \in SUBSET Operation
  BY DEF StoreInv, TypeOK, DbFile
<1>1. op = {} => LedgerOps = {}
  BY DEF LedgerOps
<1>2. ASSUME NEW c \in Conns, NewCode(c) \/ AcceptDead(c) \/ AcceptWrong(c)
      PROVE  Ledger!LedgerOther(c)
  <2>1. up /\ op = {} /\ UNCHANGED <<up, file>>
    BY <1>2, BeginsAlone DEF StoreInv
  <2>2. db'.devices = db.devices
    BY <1>0, <1>2 DEF NewCode, AcceptDead, AcceptWrong, DbFile
  <2>3. Ledger!Begin(c, "other", None)
    BY <1>2, LedgerBegins DEF NewCode, AcceptDead, AcceptWrong, LedgerKind
  <2> QED
    BY <1>1, <2>1, <2>2, <2>3 DEF Ledger!LedgerOther, Ledger!LockFree, Verdicts
<1>3. ASSUME NEW c \in Conns, NEW d \in Devices, AcceptRight(c, d)
      PROVE  Ledger!LedgerPair(c, d)
  <2>1. up /\ op = {} /\ UNCHANGED <<up, file>>
    BY <1>3, BeginsOn DEF StoreInv
  <2>2. Verdicts(db)' = [Verdicts(db) EXCEPT ![d] = "active"]
    BY <1>0, <1>3 DEF AcceptRight, Verdicts
  <2>3. Ledger!Begin(c, "pair", d)
    BY <1>3, LedgerBegins DEF AcceptRight, LedgerKind
  <2> QED
    BY <1>1, <2>1, <2>2, <2>3 DEF Ledger!LedgerPair, Ledger!LockFree, Verdicts
<1>4. ASSUME NEW c \in Conns, NEW d \in Devices, Revoke(c, d)
      PROVE  Ledger!LedgerRevoke(c, d)
  <2>1. up /\ op = {} /\ UNCHANGED <<up, file>>
    BY <1>4, BeginsOn DEF StoreInv
  <2>2. /\ Verdicts(db)[d] = "active"
        /\ Verdicts(db)' = [Verdicts(db) EXCEPT ![d] = "revoked"]
    BY <1>0, <1>4 DEF Revoke, Verdicts, DbFile, DeviceRec
  <2>3. Ledger!Begin(c, "revoke", d)
    BY <1>4, LedgerBegins DEF Revoke, LedgerKind
  <2> QED
    BY <1>1, <2>1, <2>2, <2>3
       DEF Ledger!LedgerRevoke, Ledger!LockFree, Ledger!Trusted, Verdicts
<1>5. CASE Save
  <2>1. PICK o \in op : /\ o.stage = "save"
                        /\ file' = db
                        /\ op' = {[o EXCEPT !.stage = "ok"]}
                        /\ UNCHANGED <<db, up>>
    BY <1>5 DEF Save
  <2> DEFINE q == [by |-> o.by, kind |-> LedgerKind(o.kind), dev |-> o.dev,
                   stage |-> o.stage]
  <2>2. q \in LedgerOps /\ q.stage = "save"
    BY <2>1 DEF LedgerOps
  <2>3. LedgerOps' = {[q EXCEPT !.stage = "ok"]}
    BY <1>0, <2>1 DEF LedgerOps, Operation
  <2> HIDE DEF q
  <2> QED
    BY <2>1, <2>2, <2>3 DEF Ledger!LedgerSave, Ledger!LedgerNext, Verdicts
<1>6. CASE SaveFails
  <2>1. PICK o \in op : /\ o.stage = "save"
                        /\ op' = {[o EXCEPT !.stage = "io"]}
                        /\ UNCHANGED <<db, file, up>>
    BY <1>6 DEF SaveFails
  <2> DEFINE q == [by |-> o.by, kind |-> LedgerKind(o.kind), dev |-> o.dev,
                   stage |-> o.stage]
  <2>2. q \in LedgerOps /\ q.stage = "save"
    BY <2>1 DEF LedgerOps
  <2>3. LedgerOps' = {[q EXCEPT !.stage = "io"]}
    BY <1>0, <2>1 DEF LedgerOps, Operation
  <2> HIDE DEF q
  <2> QED
    BY <2>1, <2>2, <2>3 DEF Ledger!LedgerSaveFails, Ledger!LedgerNext, Verdicts
<1>7. CASE ReturnSaved \/ ReturnError
  <2>1. PICK o \in op : o.stage # "save" /\ op' = {} /\ UNCHANGED <<db, file, up>>
    BY <1>7 DEF ReturnSaved, ReturnError
  <2> DEFINE q == [by |-> o.by, kind |-> LedgerKind(o.kind), dev |-> o.dev,
                   stage |-> o.stage]
  <2>2. q \in LedgerOps /\ q.stage # "save"
    BY <2>1 DEF LedgerOps
  <2>3. LedgerOps' = {}
    BY <2>1 DEF LedgerOps
  <2> HIDE DEF q
  <2> QED
    BY <2>1, <2>2, <2>3 DEF Ledger!LedgerReturn, Ledger!LedgerNext, Verdicts
<1>8. CASE Crash
  BY <1>8 DEF Crash, Ledger!LedgerCrash, Ledger!LedgerNext, Verdicts, LedgerOps,
              EmptyDb
<1>9. CASE Load
  BY <1>9 DEF Load, Ledger!LedgerRestart, Ledger!LedgerNext, Verdicts, LedgerOps
<1>10. CASE Tick
  BY <1>10 DEF Tick, Ledger!ledgerVars, Verdicts, LedgerOps
<1> QED
  BY <1>2, <1>3, <1>4, <1>5, <1>6, <1>7, <1>8, <1>9, <1>10
     DEF Next, Ledger!LedgerNext

(* Codes, attempts, expiry, crashes and failed saves never let the store   *)
(* change a verdict in a way the ledger does not allow.                    *)
THEOREM StoreImplementsLedger == Spec => ImplementsLedger
BY LedgerInitially, LedgerStep, StoreInvariant, PTL
   DEF Spec, ImplementsLedger, Ledger!LedgerSpec

=============================================================================
