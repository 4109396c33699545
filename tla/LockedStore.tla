----------------------------- MODULE LockedStore -----------------------------
(***************************************************************************)
(* The four calls of OrderStore as state.mjs runs them: inside withLock,   *)
(* each one reads the file (readState), decides, and writes the whole      *)
(* record back (writeAtomic), with the other invocations running, waiting, *)
(* stealing the lock and crashing between the read and the write.          *)
(***************************************************************************)
EXTENDS OrderStore, SendLock

(* The calls and their arguments. *)
Calls ==
       [op : {"create"}, deposit : Deposits, fields : OrderFields]
  \cup [op : {"confirm"}, deposit : Deposits, fields : OrderFields]
  \cup [op : {"claim"}, deposit : Deposits]
  \cup [op : {"result"}, status : SendStatus \ {"claimed"}]

(* The processes that contend for the lock are the ones that may send;     *)
(* null is not a call.                                                     *)
ASSUME LockedStoreAssumption == Procs = Invocations /\ None \notin Calls

VARIABLES
  call,     \* the state.mjs call each invocation is making
  seen,     \* what its readState returned
  step      \* where it is in the call: before the read, the write, the unlock

bodyVars == <<store, granted, call, seen, step>>
vars == <<lockVars, bodyVars>>

Init ==
  /\ LockInit
  /\ StoreInit
  /\ call = [p \in Procs |-> None]
  /\ seen = [p \in Procs |-> None]
  /\ step = [p \in Procs |-> "read"]

(* A call begins; only the invocation that claimed records a result.  A    *)
(* call that threw (LOCK_TIMEOUT) ends its invocation.                     *)
Begin(p) ==
  /\ Enter(p)
  /\ \E c \in Calls :
       /\ c.op = "result" => p \in granted
       /\ c.op = "claim" => p \notin granted
       /\ call' = [call EXCEPT ![p] = c]
  /\ UNCHANGED <<store, granted, seen, step>>

Acquire(p) ==
  /\ Contend(p)
  /\ UNCHANGED bodyVars

(* Mutant: the file is read before the lock is held. *)
ReadEarly(p) ==
  /\ wpc[p] \in {"try", "in"} /\ step[p] = "read"
  /\ seen' = [seen EXCEPT ![p] = store]
  /\ step' = [step EXCEPT ![p] = "write"]
  /\ UNCHANGED <<lockVars, store, granted, call>>

Read(p) ==
  /\ wpc[p] = "in" /\ step[p] = "read"
  /\ seen' = [seen EXCEPT ![p] = store]
  /\ step' = [step EXCEPT ![p] = "write"]
  /\ UNCHANGED <<lockVars, store, granted, call>>

(* What the call makes of the record it read: refused, or the new record. *)
Refused(p) ==
  CASE call[p].op = "create"  -> FALSE
    [] call[p].op = "confirm" -> seen[p] = None
    [] call[p].op = "claim"   -> ~MayClaim(seen[p])
    [] call[p].op = "result"  -> ~MayRecordResult(seen[p])

Updated(p) ==
  CASE call[p].op = "create"  ->
         CreateOrderRecord(seen[p], OrderOf(call[p].deposit, call[p].fields))
    [] call[p].op = "confirm" ->
         RecordConfirmation(seen[p], call[p].deposit, call[p].fields.quoteExpiresAt)
    [] call[p].op = "claim"   ->
         ClaimSend(seen[p], Intent(p, call[p].deposit))
    [] call[p].op = "result"  -> RecordSendResult(seen[p], call[p].status)

(* Mutant: a call that throws keeps the lock (no finally). *)
ThrowOut(p) ==
  /\ wpc[p] = "in" /\ step[p] = "write"
  /\ Refused(p)
  /\ step' = [step EXCEPT ![p] = "thrown"]
  /\ UNCHANGED <<lockVars, store, granted, call, seen>>

Throw(p) ==
  /\ wpc[p] = "in" /\ step[p] = "write"
  /\ Refused(p)
  /\ step' = [step EXCEPT ![p] = "unlock"]
  /\ UNCHANGED <<lockVars, store, granted, call, seen>>

(* writeAtomic: a rename puts the whole new record in place. *)
Write(p) ==
  /\ wpc[p] = "in" /\ step[p] = "write"
  /\ ~Refused(p)
  /\ store' = Updated(p)
  /\ granted' = IF call[p].op = "claim" THEN granted \cup {p} ELSE granted
  /\ step' = [step EXCEPT ![p] = "unlock"]
  /\ UNCHANGED <<lockVars, call, seen>>

Unlock(p) ==
  /\ step[p] = "unlock"
  /\ Release(p)
  /\ call' = [call EXCEPT ![p] = None]
  /\ seen' = [seen EXCEPT ![p] = None]
  /\ step' = [step EXCEPT ![p] = "read"]
  /\ UNCHANGED <<store, granted>>

Environment ==
  /\ LockEnvironment
  /\ UNCHANGED bodyVars

Next ==
  \/ \E p \in Procs :
       Begin(p) \/ Acquire(p) \/ Read(p) \/ Throw(p) \/ Write(p) \/ Unlock(p)
  \/ Environment

Spec == Init /\ [][Next]_vars

------------------------------------------------------------------------------
TypeOK ==
  /\ LockTypeOK
  /\ StoreTypeOK
  /\ call \in [Procs -> Calls \cup {None}]
  /\ step \in [Procs -> {"read", "write", "unlock"}]
  /\ \A p \in Procs : wpc[p] = "in" => call[p] # None

(* Read-modify-write under the lock is atomic: the file behaves as         *)
(* OrderStore promises, step for step.                                     *)
ImplementsOrderStore == StoreSpec
==============================================================================
