----------------------------- MODULE LockedFlow -----------------------------
(***************************************************************************)
(* SendFlow on the state file as state.mjs keeps it: every call that       *)
(* changes the record (createOrderRecord, recordConfirmation, claimSend,   *)
(* recordSendResult) enters withLock, reads the file, writes the whole     *)
(* record and unlocks, each a step of its own.  Meanwhile the other runs   *)
(* of the order create, sign, broadcast, wait, steal the lock and die, the *)
(* chain mines, and the backend moves.                                     *)
(***************************************************************************)
EXTENDS SendFlow, SendLock

(* The processes that contend for the lock (Procs) are the create and the  *)
(* send runs, each of them one of its own.                                 *)

VARIABLES
  seen,   \* what the readState of each run's call returned
  step    \* where the run is in its call: before the read, the write, the unlock

callVars == <<seen, step>>
lockedFlowVars == <<flowVars, lockVars, callVars>>

InitCalls ==
  /\ seen = [p \in Procs |-> None]
  /\ step = [p \in Procs |-> "read"]

InitLockedFlow ==
  /\ InitFlow
  /\ LockInit
  /\ InitCalls

------------------------------------------------------------------------------
(* One call of state.mjs. *)

AtCall(p) ==
  \/ p \in Creators /\ creator[p].at \in {"record", "confirm"}
  \/ /\ p \in Senders
     /\ \/ sender[p].at \in {"gated", "unheard", "accepted"}
        \/ sender[p].at = "submitted" /\ tx[p] \in {"landed", "reverted", "replaced"}

Begin(p) ==
  /\ AtCall(p)
  /\ Enter(p)
  /\ UNCHANGED <<flowVars, callVars>>

Acquire(p) ==
  /\ Contend(p)
  /\ UNCHANGED <<flowVars, callVars>>

ReadInto(p) ==
  /\ step[p] = "read"
  /\ seen' = [seen EXCEPT ![p] = store]
  /\ step' = [step EXCEPT ![p] = "write"]
  /\ UNCHANGED <<flowVars, lockVars>>

(* Mutant: the file is read before the lock is held. *)
ReadWaiting(p) == wpc[p] \in {"try", "in"} /\ ReadInto(p)

ReadFile(p) == wpc[p] = "in" /\ ReadInto(p)

(* What the call makes of the record it read. *)
CallOf(p) ==
  \/ p \in Creators /\ RecordOrderOn(seen[p], p) /\ UNCHANGED sendVars
  \/ p \in Creators /\ RecordConfirmedOn(seen[p], p) /\ UNCHANGED sendVars
  \/ /\ p \in Senders
     /\ \/ ClaimOn(seen[p], p) \/ RecordUnheardOn(seen[p], p)
        \/ RecordSubmittedOn(seen[p], p) \/ RecordReceiptOn(seen[p], p)

(* A result for which the record carries no send is refused: the call      *)
(* throws, which ends the run.                                             *)
ResultRefused(p) ==
  /\ p \in Senders
  /\ sender[p].at \in {"unheard", "accepted", "submitted"}
  /\ ~MayRecordResult(seen[p])
  /\ Stop(p)

Write(p) ==
  /\ wpc[p] = "in" /\ step[p] = "write"
  /\ CallOf(p) \/ ResultRefused(p)
  /\ step' = [step EXCEPT ![p] = "unlock"]
  /\ UNCHANGED <<lockVars, seen>>

Unlock(p) ==
  /\ step[p] = "unlock"
  /\ Release(p)
  /\ seen' = [seen EXCEPT ![p] = None]
  /\ step' = [step EXCEPT ![p] = "read"]
  /\ UNCHANGED flowVars

CallStep(p) == Begin(p) \/ Acquire(p) \/ ReadFile(p) \/ Write(p) \/ Unlock(p)

------------------------------------------------------------------------------
(* Between its calls a run takes SendFlow's steps, reads of the file among *)
(* them, without the lock.                                                 *)
CreateFree(c) ==
  /\ wpc[c] = "out"
  /\ \/ CreateInvoice(c) \/ CreateBitrefill(c) \/ FetchPayment(c)
     \/ CheckExpiry(c) \/ CheckPayable(c)
  /\ UNCHANGED <<sendVars, lockVars, callVars>>

SendFree(s) ==
  /\ wpc[s] = "out"
  /\ \/ ReadLocalRecord(s) \/ FetchLive(s) \/ CheckLink(s) \/ Sign(s)
     \/ FinalCheck(s) \/ Broadcast(s)
  /\ UNCHANGED <<lockVars, callVars>>

(* A run whose process died, or whose call threw LOCK_TIMEOUT, is over. *)
Over(s) ==
  /\ wpc[s] \in {"crashed", "timedOut"}
  /\ Stop(s)
  /\ UNCHANGED <<lockVars, callVars>>

World ==
  /\ \/ \E s \in Senders : Mine(s)
     \/ BackendMoves /\ UNCHANGED sendVars
     \/ TickFlow \/ Funded \/ Closed
  /\ UNCHANGED <<lockVars, callVars>>

NextLockedFlow ==
  \/ \E p \in Procs : CallStep(p)
  \/ \E c \in Creators : CreateFree(c)
  \/ \E s \in Senders : SendFree(s) \/ Over(s)
  \/ World
  \/ LockEnvironment /\ UNCHANGED <<flowVars, callVars>>

SpecLockedFlow == InitLockedFlow /\ [][NextLockedFlow]_lockedFlowVars

------------------------------------------------------------------------------
ActsAtomically == CleanReclaim => [NextFlow]_flowVars

(* Until a reclaim of the lock is raced, every step of every run is one of *)
(* SendFlow, where the calls are atomic, or changes nothing there          *)
(* (recordSendResult: "no writer can ever read a stale copy and write back *)
(* over another writer's change").                                         *)
CallsAsAtomic == [][ActsAtomically]_lockedFlowVars

(* So what SendFlow promises of payments holds of the runs and the lock    *)
(* together, whoever dies, waits or steals between a read and a write      *)
(* (claimSend: "as ONE atomic operation under the cross-process lock").    *)
PaysSafelyUnlessRaced ==
  CleanReclaim => PayOnce /\ PaidAsConfirmed /\ RecordNotAhead
==============================================================================
