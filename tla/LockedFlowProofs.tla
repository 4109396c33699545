--------------------------- MODULE LockedFlowProofs ---------------------------
(***************************************************************************)
(* Theorems about the runs of one order on the locked state file, for any  *)
(* number of runs, deposits, amounts and deadlines: while reclaims of the  *)
(* lock are clean, LockedFlow implements SendFlow, whose calls on the file *)
(* are atomic, and so inherits what SendFlowProofs proves of it.           *)
(*                                                                         *)
(* LockedFlow's own part of the invariant is small: what a call has read   *)
(* is still what the file holds when it writes, because nobody else has    *)
(* been inside the lock since (SendLockProofs) and because no step outside *)
(* the lock writes the file.                                               *)
(***************************************************************************)
EXTENDS LockedFlow, SendFlowProofs, SendLockProofs

StepOK ==
  /\ step \in [Procs -> {"read", "write", "unlock"}]
  /\ \A p \in Procs : wpc[p] \notin {"in", "crashed"} => step[p] = "read"

ReadIsFresh ==
  /\ seen \in [Procs -> Records \cup {None}]
  /\ \A p \in Procs : wpc[p] = "in" /\ step[p] = "write" => seen[p] = store

LockedFlowInv ==
  /\ LockInv
  /\ StepOK
  /\ CleanReclaim => FlowInv /\ ReadIsFresh

(* Steps outside a call that writes. *)
Free ==
  \/ \E c \in Creators : CreateFree(c)
  \/ \E s \in Senders : SendFree(s) \/ Over(s)
  \/ World

------------------------------------------------------------------------------
(* The lock's view of a step. *)
LEMMA FreeLeavesLock == Free => UNCHANGED <<lockVars, callVars>>
BY DEF Free, CreateFree, SendFree, Over, World

LEMMA LockedStepIsLockStep == [NextLockedFlow]_lockedFlowVars => [LockNext]_lockVars
<1> SUFFICES ASSUME [NextLockedFlow]_lockedFlowVars PROVE [LockNext]_lockVars
  OBVIOUS
<1>1. ASSUME NEW p \in Procs, CallStep(p) PROVE [LockNext]_lockVars
  BY <1>1 DEF CallStep, Begin, Acquire, ReadFile, ReadInto, Write, Unlock, LockNext
<1>2. ASSUME Free PROVE [LockNext]_lockVars
  BY <1>2, FreeLeavesLock
<1> QED
  BY <1>1, <1>2 DEF NextLockedFlow, lockedFlowVars, Free, LockNext

(* The file is written by calls alone. *)
LEMMA FreeLeavesFile == Free => store' = store
<1>1. ASSUME NEW c \in Creators, CreateFree(c) PROVE store' = store
  BY <1>1 DEF CreateFree, CreateInvoice, CreateBitrefill, FetchPayment, CheckExpiry, CheckPayable
<1>2. ASSUME NEW s \in Senders, SendFree(s) PROVE store' = store
  BY <1>2 DEF SendFree, ReadLocalRecord, FetchLive, CheckLink, Sign, FinalCheck, Broadcast,
              orderVars
<1>3. ASSUME NEW s \in Senders, Over(s) PROVE store' = store
  BY <1>3 DEF Over, Stop, orderVars
<1>4. ASSUME World PROVE store' = store
  BY <1>4 DEF World, Mine, BackendMoves, TickFlow, Tick, Funded, AnotherPayer, Closed,
              LinkConsumed, orderVars
<1> QED
  BY <1>1, <1>2, <1>3, <1>4 DEF Free

------------------------------------------------------------------------------
(* A write on a fresh read is the atomic call of SendFlow. *)
LEMMA WriteIsFlowStep ==
  ASSUME NEW p \in Procs, Write(p), seen[p] = store
  PROVE  NextFlow
<1>1. CASE p \in Creators /\ RecordOrderOn(seen[p], p) /\ UNCHANGED sendVars
  <2>1. RecordOrder(p)
    BY <1>1 DEF RecordOrder
  <2> QED
    BY <1>1, <2>1 DEF CreateStep, NextFlow
<1>2. CASE p \in Creators /\ RecordConfirmedOn(seen[p], p) /\ UNCHANGED sendVars
  <2>1. RecordConfirmed(p)
    BY <1>2 DEF RecordConfirmed
  <2> QED
    BY <1>2, <2>1 DEF CreateStep, NextFlow
<1>3. CASE /\ p \in Senders
           /\ \/ ClaimOn(seen[p], p) \/ RecordUnheardOn(seen[p], p)
              \/ RecordSubmittedOn(seen[p], p) \/ RecordReceiptOn(seen[p], p)
  <2>1. Claim(p) \/ RecordUnheard(p) \/ RecordSubmitted(p) \/ RecordReceipt(p)
    BY <1>3 DEF Claim, RecordUnheard, RecordSubmitted, RecordReceipt
  <2> QED
    BY <1>3, <2>1 DEF SendStep, NextFlow
<1>4. CASE ResultRefused(p)
  BY <1>4 DEF ResultRefused, SendStep, NextFlow
<1> QED
  BY <1>1, <1>2, <1>3, <1>4 DEF Write, CallOf

(* So is every step of a run between its calls, and of the world. *)
LEMMA FreeIsFlowStep == Free => NextFlow
<1>1. ASSUME NEW c \in Creators, CreateFree(c) PROVE NextFlow
  BY <1>1 DEF CreateFree, CreateStep, NextFlow
<1>2. ASSUME NEW s \in Senders, SendFree(s) \/ Over(s) PROVE NextFlow
  BY <1>2 DEF SendFree, Over, SendStep, NextFlow
<1>3. ASSUME World PROVE NextFlow
  BY <1>3 DEF World, NextFlow
<1> QED
  BY <1>1, <1>2, <1>3 DEF Free

LEMMA LockedStepIsFlowStep ==
  ASSUME [NextLockedFlow]_lockedFlowVars, ReadIsFresh
  PROVE  [NextFlow]_flowVars
<1>1. ASSUME NEW p \in Procs, Write(p) PROVE NextFlow
  <2>1. seen[p] = store
    BY <1>1 DEF Write, ReadIsFresh
  <2> QED
    BY <1>1, <2>1, WriteIsFlowStep
<1>2. ASSUME NEW p \in Procs, CallStep(p), ~Write(p) PROVE UNCHANGED flowVars
  BY <1>2 DEF CallStep, Begin, Acquire, ReadFile, ReadInto, Unlock
<1> QED
  BY <1>1, <1>2, FreeIsFlowStep DEF NextLockedFlow, lockedFlowVars, Free

------------------------------------------------------------------------------
(* The invariant. *)
LEMMA LockedFlowInit == InitLockedFlow => LockedFlowInv
<1> SUFFICES ASSUME InitLockedFlow PROVE LockedFlowInv
  OBVIOUS
<1>1. LockInv /\ FlowInv
  BY LockInvInit, FlowInvInit DEF InitLockedFlow
<1>2. StepOK /\ ReadIsFresh
  BY DEF InitLockedFlow, InitCalls, StepOK, ReadIsFresh
<1> QED
  BY <1>1, <1>2 DEF LockedFlowInv

LEMMA StepOKStep ==
  ASSUME LockInv, StepOK, [NextLockedFlow]_lockedFlowVars
  PROVE  StepOK'
<1>1. wpc \in [Procs -> Places]
  BY DEF LockInv, LockTypeOK
<1> USE <1>1 DEF StepOK, Goto
<1>2. ASSUME NEW p \in Procs, Begin(p) PROVE StepOK'
  BY <1>2 DEF Begin, Enter, callVars
<1>3. ASSUME NEW p \in Procs, Acquire(p) PROVE StepOK'
  BY <1>3 DEF Acquire, callVars, Contend, TryAcquire, StatGone, JudgeStale, JudgeFresh,
              RenameOut
<1>4. ASSUME NEW p \in Procs, ReadFile(p) PROVE StepOK'
  BY <1>4 DEF ReadFile, ReadInto, lockVars
<1>5. ASSUME NEW p \in Procs, Write(p) PROVE StepOK'
  BY <1>5 DEF Write, lockVars
<1>6. ASSUME NEW p \in Procs, Unlock(p) PROVE StepOK'
  BY <1>6 DEF Unlock, Release
<1>7. ASSUME LockEnvironment, UNCHANGED callVars PROVE StepOK'
  BY <1>7 DEF callVars, LockEnvironment, Crash, Overdue, Age
<1>8. ASSUME UNCHANGED <<lockVars, callVars>> PROVE StepOK'
  BY <1>8 DEF lockVars, callVars
<1> QED
  BY <1>2, <1>3, <1>4, <1>5, <1>6, <1>7, <1>8, FreeLeavesLock
     DEF NextLockedFlow, lockedFlowVars, CallStep, Free

LEMMA FreshStep ==
  ASSUME LockInv, StepOK, CleanReclaim, ReadIsFresh, store \in Records \cup {None},
         [NextLockedFlow]_lockedFlowVars
  PROVE  ReadIsFresh'
<1>1. wpc \in [Procs -> Places]
  BY DEF LockInv, LockTypeOK
<1> USE <1>1 DEF StepOK, ReadIsFresh, Goto
<1>2. ASSUME NEW p \in Procs, Begin(p) PROVE ReadIsFresh'
  BY <1>2 DEF Begin, Enter, callVars, flowVars, orderVars
<1>3. ASSUME NEW p \in Procs, Acquire(p) PROVE ReadIsFresh'
  BY <1>3 DEF Acquire, callVars, flowVars, orderVars, Contend, TryAcquire, StatGone,
              JudgeStale, JudgeFresh, RenameOut
<1>4. ASSUME NEW p \in Procs, ReadFile(p) PROVE ReadIsFresh'
  BY <1>4 DEF ReadFile, ReadInto, lockVars, flowVars, orderVars
<1>5. ASSUME NEW p \in Procs, Write(p) PROVE ReadIsFresh'
  <2>1. /\ wpc[p] = "in" /\ wpc' = wpc /\ seen' = seen
        /\ step' = [step EXCEPT ![p] = "unlock"]
    BY <1>5 DEF Write, lockVars
  <2>2. \A q \in Procs : wpc[q] = "in" => q = p
    BY <2>1, InsideAlone
  <2> QED
    BY <2>1, <2>2
<1>6. ASSUME NEW p \in Procs, Unlock(p) PROVE ReadIsFresh'
  BY <1>6 DEF Unlock, Release, flowVars, orderVars
<1>7. ASSUME LockEnvironment, UNCHANGED <<flowVars, callVars>> PROVE ReadIsFresh'
  BY <1>7 DEF callVars, flowVars, orderVars, LockEnvironment, Crash, Overdue, Age
<1>8. ASSUME UNCHANGED <<lockVars, callVars>>, store' = store PROVE ReadIsFresh'
  BY <1>8 DEF lockVars, callVars
<1>9. UNCHANGED flowVars => store' = store
  BY DEF flowVars, orderVars
<1> QED
  BY <1>2, <1>3, <1>4, <1>5, <1>6, <1>7, <1>8, <1>9, FreeLeavesLock, FreeLeavesFile
     DEF NextLockedFlow, lockedFlowVars, CallStep, Free

LEMMA LockedFlowStep == LockedFlowInv /\ [NextLockedFlow]_lockedFlowVars => LockedFlowInv'
<1> SUFFICES ASSUME LockedFlowInv, [NextLockedFlow]_lockedFlowVars PROVE LockedFlowInv'
  OBVIOUS
<1>1. LockInv /\ StepOK /\ [LockNext]_lockVars
  BY LockedStepIsLockStep DEF LockedFlowInv
<1>2. LockInv' /\ StepOK'
  BY <1>1, LockInvStep, StepOKStep
<1>3. ASSUME CleanReclaim' PROVE FlowInv' /\ ReadIsFresh'
  <2>1. CleanReclaim
    BY <1>1, <1>3, RacedStaysRaced
  <2>2. FlowInv /\ ReadIsFresh
    BY <2>1 DEF LockedFlowInv
  <2>3. store \in Records \cup {None}
    BY <2>2 DEF FlowInv, OrderInv, TypeOKOrder
  <2>4. [NextFlow]_flowVars
    BY <2>2, LockedStepIsFlowStep
  <2> QED
    BY <1>1, <2>1, <2>2, <2>3, <2>4, FreshStep, FlowInvStep
<1> QED
  BY <1>2, <1>3 DEF LockedFlowInv

LEMMA LockedFlowInvAlways == SpecLockedFlow => []LockedFlowInv
BY LockedFlowInit, LockedFlowStep, PTL DEF SpecLockedFlow

------------------------------------------------------------------------------
(* Until a reclaim of the lock is raced, every step of every run on the    *)
(* locked file is a step of SendFlow or changes nothing there (withLock    *)
(* around createOrderRecord, recordConfirmation, claimSend and             *)
(* recordSendResult).                                                      *)
THEOREM LockedCallsActAtomically == SpecLockedFlow => CallsAsAtomic
<1>1. LockedFlowInv /\ [NextLockedFlow]_lockedFlowVars => ActsAtomically
  BY LockedStepIsFlowStep DEF LockedFlowInv, ActsAtomically
<1>2. SpecLockedFlow => [][ActsAtomically]_lockedFlowVars
  BY <1>1, LockedFlowInvAlways, PTL DEF SpecLockedFlow
<1> QED
  BY <1>2 DEF CallsAsAtomic

(* Until then one transfer at most leaves for an order, as confirmed, and  *)
(* the record is not ahead of the chain, whoever dies, waits, times out or *)
(* steals the lock between a read of the file and its write.               *)
THEOREM LockedRunsPaySafely == SpecLockedFlow => []PaysSafelyUnlessRaced
<1>1. FlowInv => PayOnce /\ PaidAsConfirmed /\ RecordNotAhead
  BY DEF FlowInv
<1>2. LockedFlowInv => PaysSafelyUnlessRaced
  BY <1>1 DEF LockedFlowInv, PaysSafelyUnlessRaced
<1> QED
  BY <1>2, LockedFlowInvAlways, PTL

(* Where every reclaim is clean, LockedFlow implements SendFlow: what is   *)
(* proved of SpecFlow holds of the locked runs too, deadlines, other       *)
(* payers and the atomic store among them.                                 *)
THEOREM LockedFlowImplementsFlow == SpecLockedFlow /\ []CleanReclaim => SpecFlow
<1>1. InitLockedFlow => InitFlow
  BY DEF InitLockedFlow
<1>2. LockedFlowInv /\ CleanReclaim /\ [NextLockedFlow]_lockedFlowVars => [NextFlow]_flowVars
  BY LockedStepIsFlowStep DEF LockedFlowInv
<1> QED
  BY <1>1, <1>2, LockedFlowInvAlways, PTL DEF SpecLockedFlow, SpecFlow

(* One creator and one sender, either of which may die at any point but    *)
(* which do not stall, on a file system that lets them remove the lock     *)
(* file: the refinement needs no further condition.                        *)
THEOREM TwoRunsImplementFlow ==
  TwoProcs /\ MayStall = FALSE /\ MayRefuse = FALSE /\ SpecLockedFlow => SpecFlow
<1>1. InitLockedFlow => LockInit
  BY DEF InitLockedFlow
<1>2. SpecLockedFlow => LockSpec
  BY <1>1, LockedStepIsLockStep, PTL DEF SpecLockedFlow, LockSpec
<1> QED
  BY <1>2, TwoReclaimCleanly, LockedFlowImplementsFlow, PTL
==============================================================================
