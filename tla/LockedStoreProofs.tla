--------------------------- MODULE LockedStoreProofs ---------------------------
(***************************************************************************)
(* Theorems about the state file, for any number of invocations, deposits  *)
(* and order fields: first that OrderStore, where every call takes effect  *)
(* at once, keeps its two promises; then that the calls of LockedStore,    *)
(* each a read and a write inside withLock, implement it while a lock is   *)
(* reclaimed cleanly (SendLockProofs).                                     *)
(***************************************************************************)
EXTENDS LockedStore, SendLockProofs

(* The operators of StateFile keep the file's fields in range. *)
LEMMA CreateKeepsType ==
  ASSUME NEW d \in Deposits, NEW f \in OrderFields,
         NEW s \in Records \cup {None}
  PROVE  CreateOrderRecord(s, OrderOf(d, f)) \in Records
<1>1. s # None => s \in Records
  OBVIOUS
<1>2. /\ d.receiverAddress \in Receivers /\ d.amount \in Sums
      /\ f.invoiceAmount \in Usd
      /\ f.quoteExpiresAt \in Ends /\ f.invoiceExpiry \in Ends
  BY DEF Receivers, Sums, Usd, Ends
<1>3. \A a, b \in Ends \cup {None} : Earlier(a, b) \in Ends \cup {None}
  BY DEF Earlier
<1>4. s # None => Earlier(s.invoiceExpiry, f.invoiceExpiry) \in Ends \cup {None}
  BY <1>1, <1>2, <1>3 DEF Records, StateRecord
<1> QED
  BY <1>1, <1>2, <1>4 DEF CreateOrderRecord, OrderOf, Records, StateRecord

LEMMA ConfirmKeepsType ==
  ASSUME NEW d \in Deposits, NEW f \in OrderFields, NEW s \in Records
  PROVE  RecordConfirmation(s, d, f.quoteExpiresAt) \in Records
<1>1. /\ DepositDigest(d) \in Receivers \X Sums \X Extras
      /\ f.quoteExpiresAt \in Ends \cup {None}
  BY DEF DepositDigest, Receivers, Sums, Extras, Ends
<1> DEFINE c == [depositDigest |-> DepositDigest(d), quoteExpiresAt |-> f.quoteExpiresAt]
<1>2. c \in ConfirmationRecord(Receivers, Sums, Extras, Ends)
  BY <1>1 DEF ConfirmationRecord
<1> QED
  BY <1>2 DEF RecordConfirmation, Records, StateRecord

LEMMA ClaimKeepsType ==
  ASSUME NEW p \in Invocations, NEW d \in Deposits, NEW s \in Records
  PROVE  /\ ClaimSend(s, Intent(p, d)) \in Records
         /\ ClaimSend(s, Intent(p, d)).send # None
         /\ ClaimSend(s, Intent(p, d)).send.expectedTxHash = TxOf[p]
<1> DEFINE c == [status |-> "claimed", to |-> d.receiverAddress, amount |-> d.amount,
                 expectedTxHash |-> TxOf[p]]
<1>1. c \in SendRecord(Receivers, Sums)
  BY OrderStoreAssumption DEF OrderStoreAssumption, SendRecord, SendStatus, Receivers, Sums
<1>2. c # None
  BY <1>1, OrderStoreAssumption DEF OrderStoreAssumption
<1>3. ClaimSend(s, Intent(p, d)) = [s EXCEPT !.send = c]
  BY DEF ClaimSend, Intent
<1> HIDE DEF c
<1>4. /\ [s EXCEPT !.send = c] \in Records
      /\ [s EXCEPT !.send = c].send = c
  BY <1>1 DEF Records, StateRecord
<1>5. c.expectedTxHash = TxOf[p]
  BY DEF c
<1> QED
  BY <1>2, <1>3, <1>4, <1>5

LEMMA ResultKeepsType ==
  ASSUME NEW s \in Records, s.send # None, NEW status \in SendStatus
  PROVE  LET r == RecordSendResult(s, status) IN
         /\ r \in Records
         /\ r.send # None
         /\ r.send.expectedTxHash = s.send.expectedTxHash
         /\ r.send.to = s.send.to
         /\ r.send.amount = s.send.amount
<1> DEFINE c == [s.send EXCEPT !.status = status]
<1>1. s.send \in SendRecord(Receivers, Sums)
  BY DEF Records, StateRecord
<1>2. /\ c \in SendRecord(Receivers, Sums)
      /\ c.expectedTxHash = s.send.expectedTxHash
      /\ c.to = s.send.to
      /\ c.amount = s.send.amount
  BY <1>1 DEF SendRecord
<1>3. c # None
  BY <1>2, OrderStoreAssumption DEF OrderStoreAssumption
<1>4. RecordSendResult(s, status) = [s EXCEPT !.send = c]
  BY DEF RecordSendResult, Records, StateRecord
<1> HIDE DEF c
<1>5. /\ [s EXCEPT !.send = c] \in Records
      /\ [s EXCEPT !.send = c].send = c
  BY <1>2 DEF Records, StateRecord
<1> QED
  BY <1>2, <1>3, <1>4, <1>5

(* A create or a confirmation leaves the send record as it was. *)
LEMMA OthersKeepSend ==
  ASSUME NEW s \in Records, NEW d \in Deposits, NEW f \in OrderFields
  PROVE  /\ CreateOrderRecord(s, OrderOf(d, f)).send = s.send
         /\ RecordConfirmation(s, d, f.quoteExpiresAt).send = s.send
<1>1. s # None
  BY OrderStoreAssumption DEF OrderStoreAssumption
<1> QED
  BY <1>1 DEF CreateOrderRecord, RecordConfirmation, Records, StateRecord

------------------------------------------------------------------------------
(* SendOnce and the type are inductive together. *)
StoreInv == StoreTypeOK /\ SendOnce

LEMMA StoreInvInit == StoreInit => StoreInv
BY DEF StoreInit, StoreInv, StoreTypeOK, SendOnce

LEMMA StoreInvStep == StoreInv /\ [StoreNext]_storeVars => StoreInv'
<1> SUFFICES ASSUME StoreInv, [StoreNext]_storeVars PROVE StoreInv'
  OBVIOUS
<1> USE DEF StoreInv, StoreTypeOK
<1>1. ASSUME NEW d \in Deposits, NEW f \in OrderFields, Create(d, f) PROVE StoreInv'
  <2>1. store' \in Records /\ granted' = granted
    BY <1>1, CreateKeepsType DEF Create
  <2>2. store' # None
    BY <2>1, OrderStoreAssumption DEF OrderStoreAssumption
  <2>3. store # None => store'.send = store.send
    BY <1>1, OthersKeepSend DEF Create
  <2> QED
    BY <2>1, <2>2, <2>3 DEF SendOnce
<1>2. ASSUME NEW d \in Deposits, NEW f \in OrderFields, Confirm(d, f.quoteExpiresAt)
      PROVE StoreInv'
  <2>1. store' \in Records /\ granted' = granted
    BY <1>2, ConfirmKeepsType DEF Confirm
  <2>2. store' # None
    BY <2>1, OrderStoreAssumption DEF OrderStoreAssumption
  <2>3. store'.send = store.send
    BY <1>2, OthersKeepSend DEF Confirm
  <2> QED
    BY <1>2, <2>1, <2>2, <2>3 DEF SendOnce, Confirm
<1>3. ASSUME NEW p \in Invocations, NEW d \in Deposits, Claim(p, d) PROVE StoreInv'
  <2>1. store \in Records /\ store.send = None
    BY <1>3 DEF Claim, MayClaim
  <2>2. granted = {}
    BY <2>1 DEF SendOnce
  <2>3. granted' = {p}
    BY <1>3, <2>2 DEF Claim
  <2>4. store' \in Records /\ store'.send # None /\ store'.send.expectedTxHash = TxOf[p]
    BY <1>3, <2>1, ClaimKeepsType DEF Claim
  <2>5. store' # None
    BY <2>4, OrderStoreAssumption DEF OrderStoreAssumption
  <2> QED
    BY <2>3, <2>4, <2>5 DEF SendOnce
<1>4. ASSUME NEW p \in Invocations, NEW s \in SendStatus \ {"claimed"}, Result(p, s)
      PROVE StoreInv'
  <2>1. store \in Records /\ store.send # None
    BY <1>4 DEF Result, MayRecordResult
  <2>2. /\ store' \in Records /\ granted' = granted
        /\ store'.send # None
        /\ store'.send.expectedTxHash = store.send.expectedTxHash
    BY <1>4, <2>1, ResultKeepsType DEF Result
  <2>3. store' # None
    BY <2>2, OrderStoreAssumption DEF OrderStoreAssumption
  <2> QED
    BY <2>2, <2>3 DEF SendOnce
<1>5. CASE UNCHANGED storeVars
  BY <1>5 DEF storeVars, SendOnce
<1> QED
  BY <1>1, <1>2, <1>3, <1>4, <1>5 DEF StoreNext

LEMMA StoreInvAlways == StoreSpec => []StoreInv
BY StoreInvInit, StoreInvStep, PTL DEF StoreSpec

(* The file always holds a whole record of the declared type, or nothing. *)
THEOREM StoreTypeCorrect == StoreSpec => []StoreTypeOK
<1>1. StoreInv => StoreTypeOK
  BY DEF StoreInv
<1> QED
  BY <1>1, StoreInvAlways, PTL

(* At most one invocation is ever granted the send, and the record names   *)
(* its transaction (claimSend).                                            *)
THEOREM StoreSendsOnce == StoreSpec => []SendOnce
<1>1. StoreInv => SendOnce
  BY DEF StoreInv
<1> QED
  BY <1>1, StoreInvAlways, PTL

(* What is being kept by SendRecordKept, as a step property. *)
SendKept ==
  store # None /\ store.send # None =>
    /\ store' # None
    /\ store'.send # None
    /\ store'.send.expectedTxHash = store.send.expectedTxHash
    /\ store'.send.to = store.send.to
    /\ store'.send.amount = store.send.amount

LEMMA SendKeptStep == StoreInv /\ [StoreNext]_storeVars => [SendKept]_storeVars
<1> SUFFICES ASSUME StoreInv, StoreNext, store # None, store.send # None PROVE SendKept
  BY DEF SendKept
<1> USE DEF StoreInv, StoreTypeOK
<1>1. store \in Records
  OBVIOUS
<1>2. StoreInv'
  BY StoreInvStep
<1>3. ASSUME NEW d \in Deposits, NEW f \in OrderFields,
             Create(d, f) \/ Confirm(d, f.quoteExpiresAt)
      PROVE SendKept
  <2>1. store'.send = store.send
    BY <1>1, <1>3, OthersKeepSend DEF Create, Confirm
  <2>2. store' \in Records
    BY <1>1, <1>3, CreateKeepsType, ConfirmKeepsType DEF Create, Confirm
  <2>3. store' # None
    BY <2>2, OrderStoreAssumption DEF OrderStoreAssumption
  <2> QED
    BY <2>1, <2>3 DEF SendKept
<1>4. ASSUME NEW p \in Invocations, NEW d \in Deposits, Claim(p, d) PROVE SendKept
  BY <1>4 DEF Claim, MayClaim
<1>5. ASSUME NEW p \in Invocations, NEW s \in SendStatus \ {"claimed"}, Result(p, s)
      PROVE SendKept
  <2>1. store' = RecordSendResult(store, s)
    BY <1>5 DEF Result
  <2>2. store' \in Records /\ store' # None
    BY <1>1, <2>1, ResultKeepsType, OrderStoreAssumption DEF OrderStoreAssumption
  <2> QED
    BY <1>1, <2>1, <2>2, ResultKeepsType DEF SendKept
<1> QED
  BY <1>3, <1>4, <1>5 DEF StoreNext

(* Whatever is written after a claim keeps what was claimed                *)
(* (createOrderRecord, recordConfirmation and recordSendResult all copy    *)
(* the send record).                                                       *)
THEOREM StoreKeepsSend == StoreSpec => SendRecordKept
<1>1. StoreSpec => [][SendKept]_storeVars
  BY StoreInvAlways, SendKeptStep, PTL DEF StoreSpec
<1> QED
  BY <1>1 DEF SendKept, SendRecordKept

------------------------------------------------------------------------------
(* LockedStore.  What a call has read is still what the file holds when it *)
(* writes: nobody else has been inside the lock in between.                *)
Busy == Waiting \cup {"in"}

ReadIsFresh ==
  \A p \in Procs : wpc[p] = "in" /\ step[p] = "write" => seen[p] = store

CallsMade ==
  \A p \in Procs :
    /\ wpc[p] \in Busy => call[p] # None
    /\ wpc[p] \notin {"in", "crashed"} => step[p] = "read"
    /\ call[p] # None /\ call[p].op = "result" => p \in granted

CallTypeOK ==
  /\ call \in [Procs -> Calls \cup {None}]
  /\ seen \in [Procs -> Records \cup {None}]
  /\ step \in [Procs -> {"read", "write", "unlock"}]
  /\ StoreTypeOK

LockedInv ==
  /\ LockInv
  /\ CallTypeOK
  /\ CallsMade
  /\ CleanReclaim => ReadIsFresh /\ StoreInv

LEMMA NextIsLockNext == [Next]_vars => [LockNext]_lockVars
BY DEF Next, vars, Begin, Acquire, Read, Throw, Write, Unlock, Environment, LockNext

LEMMA LockedInit == Init => LockedInv
<1> SUFFICES ASSUME Init PROVE LockedInv
  OBVIOUS
<1>1. LockInv /\ StoreInv
  BY LockInvInit, StoreInvInit DEF Init
<1>2. CallTypeOK
  BY DEF Init, CallTypeOK, StoreInit, StoreTypeOK
<1>3. CallsMade /\ ReadIsFresh
  BY DEF Init, LockInit, CallsMade, ReadIsFresh, Busy, Waiting
<1> QED
  BY <1>1, <1>2, <1>3 DEF LockedInv

(* The record a call writes has the file's type. *)
LEMMA UpdatedType ==
  ASSUME NEW p \in Procs, call[p] \in Calls, seen[p] \in Records \cup {None}, ~Refused(p)
  PROVE  Updated(p) \in Records
<1>1. p \in Invocations
  BY LockedStoreAssumption DEF LockedStoreAssumption
<1>2. CASE call[p] \in [op : {"create"}, deposit : Deposits, fields : OrderFields]
  BY <1>2, CreateKeepsType DEF Updated
<1>3. CASE call[p] \in [op : {"confirm"}, deposit : Deposits, fields : OrderFields]
  BY <1>3, ConfirmKeepsType DEF Updated, Refused
<1>4. CASE call[p] \in [op : {"claim"}, deposit : Deposits]
  BY <1>1, <1>4, ClaimKeepsType DEF Updated, Refused, MayClaim
<1>5. CASE call[p] \in [op : {"result"}, status : SendStatus \ {"claimed"}]
  BY <1>5, ResultKeepsType DEF Updated, Refused, MayRecordResult
<1> QED
  BY <1>2, <1>3, <1>4, <1>5 DEF Calls

(* A write on a fresh read is one of the four operations of OrderStore.    *)
LEMMA WriteIsStoreStep ==
  ASSUME NEW p \in Procs, Write(p), call[p] \in Calls, seen[p] = store,
         call[p].op = "result" => p \in granted
  PROVE  StoreNext
<1>1. p \in Invocations /\ ~Refused(p) /\ store' = Updated(p)
  BY LockedStoreAssumption DEF LockedStoreAssumption, Write
<1>2. granted' = IF call[p].op = "claim" THEN granted \cup {p} ELSE granted
  BY DEF Write
<1>3. CASE call[p] \in [op : {"create"}, deposit : Deposits, fields : OrderFields]
  <2>1. Create(call[p].deposit, call[p].fields)
    BY <1>1, <1>2, <1>3 DEF Create, Updated
  <2> QED
    BY <1>3, <2>1 DEF StoreNext
<1>4. CASE call[p] \in [op : {"confirm"}, deposit : Deposits, fields : OrderFields]
  <2>1. Confirm(call[p].deposit, call[p].fields.quoteExpiresAt)
    BY <1>1, <1>2, <1>4 DEF Confirm, Updated, Refused
  <2> QED
    BY <1>4, <2>1 DEF StoreNext
<1>5. CASE call[p] \in [op : {"claim"}, deposit : Deposits]
  <2>1. Claim(p, call[p].deposit)
    BY <1>1, <1>2, <1>5 DEF Claim, Updated, Refused
  <2> QED
    BY <1>1, <1>5, <2>1 DEF StoreNext
<1>6. CASE call[p] \in [op : {"result"}, status : SendStatus \ {"claimed"}]
  <2>1. Result(p, call[p].status)
    BY <1>1, <1>2, <1>6 DEF Result, Updated, Refused
  <2> QED
    BY <1>1, <1>6, <2>1 DEF StoreNext
<1> QED
  BY <1>3, <1>4, <1>5, <1>6 DEF Calls

(* Every step is a step of the file or leaves it alone, until a race.      *)
LEMMA LockedStepIsStoreStep ==
  ASSUME LockedInv, [Next]_vars, CleanReclaim
  PROVE  [StoreNext]_storeVars
<1>1. ASSUME NEW p \in Procs, Write(p) PROVE StoreNext
  <2>1. call[p] \in Calls /\ seen[p] = store /\ (call[p].op = "result" => p \in granted)
    BY <1>1 DEF LockedInv, CallTypeOK, CallsMade, ReadIsFresh, Write, Busy
  <2> QED
    BY <1>1, <2>1, WriteIsStoreStep
<1>2. (\E p \in Procs : Write(p)) \/ UNCHANGED storeVars
  BY DEF Next, vars, bodyVars, storeVars, Begin, Acquire, Read, Throw, Unlock, Environment
<1> QED
  BY <1>1, <1>2
LEMMA CallTypeStep == LockedInv /\ [Next]_vars => CallTypeOK'
<1> SUFFICES ASSUME LockedInv, [Next]_vars PROVE CallTypeOK'
  OBVIOUS
<1>1. CallTypeOK /\ CallsMade
  BY DEF LockedInv
<1>2. ASSUME NEW p \in Procs, Write(p) PROVE CallTypeOK'
  <2>1. call[p] \in Calls /\ seen[p] \in Records \cup {None} /\ ~Refused(p)
    BY <1>1, <1>2 DEF CallTypeOK, CallsMade, Write, Busy
  <2>2. store' \in Records
    BY <1>2, <2>1, UpdatedType DEF Write
  <2>3. p \in Invocations
    BY LockedStoreAssumption DEF LockedStoreAssumption
  <2> QED
    BY <1>1, <1>2, <2>2, <2>3 DEF CallTypeOK, StoreTypeOK, Write
<1>3. ASSUME NEW p \in Procs, Begin(p) PROVE CallTypeOK'
  BY <1>1, <1>3 DEF CallTypeOK, StoreTypeOK, Begin
<1>4. ASSUME NEW p \in Procs, Read(p) \/ Throw(p) \/ Unlock(p) PROVE CallTypeOK'
  BY <1>1, <1>4 DEF CallTypeOK, StoreTypeOK, Read, Throw, Unlock
<1>5. ASSUME UNCHANGED bodyVars PROVE CallTypeOK'
  BY <1>1, <1>5 DEF CallTypeOK, StoreTypeOK, bodyVars
<1> QED
  BY <1>2, <1>3, <1>4, <1>5 DEF Next, vars, Acquire, Environment

LEMMA CallsMadeStep == LockedInv /\ [Next]_vars => CallsMade'
<1> SUFFICES ASSUME LockedInv, [Next]_vars PROVE CallsMade'
  OBVIOUS
<1>1. CallTypeOK /\ CallsMade /\ wpc \in [Procs -> Places]
  BY DEF LockedInv, LockInv, LockTypeOK
<1> USE <1>1 DEF CallTypeOK, CallsMade, Busy, Waiting, Goto
<1>2. ASSUME NEW p \in Procs, Begin(p) PROVE CallsMade'
  BY <1>2, LockedStoreAssumption DEF LockedStoreAssumption, Begin, Enter
<1>3. ASSUME NEW p \in Procs, Acquire(p) PROVE CallsMade'
  BY <1>3 DEF Acquire, bodyVars, Contend, TryAcquire, StatGone, JudgeStale, JudgeFresh,
              RenameOut
<1>4. ASSUME NEW p \in Procs, Read(p) \/ Throw(p) \/ Write(p) PROVE CallsMade'
  BY <1>4 DEF Read, Throw, Write, lockVars
<1>5. ASSUME NEW p \in Procs, Unlock(p) PROVE CallsMade'
  BY <1>5 DEF Unlock, Release
<1>6. ASSUME Environment PROVE CallsMade'
  BY <1>6 DEF Environment, LockEnvironment, bodyVars, Crash, Overdue, Age
<1>7. ASSUME UNCHANGED vars PROVE CallsMade'
  BY <1>7 DEF vars, lockVars, bodyVars
<1> QED
  BY <1>2, <1>3, <1>4, <1>5, <1>6, <1>7 DEF Next

LEMMA FreshStep ==
  ASSUME LockedInv, [Next]_vars, CleanReclaim, ReadIsFresh
  PROVE  ReadIsFresh'
<1>1. /\ LockInv /\ CallTypeOK /\ CallsMade /\ wpc \in [Procs -> Places]
  BY DEF LockedInv, LockInv, LockTypeOK
<1> USE DEF ReadIsFresh, Goto
<1>2. ASSUME NEW p \in Procs, Begin(p) PROVE ReadIsFresh'
  BY <1>1, <1>2 DEF Begin, Enter
<1>3. ASSUME NEW p \in Procs, Acquire(p) PROVE ReadIsFresh'
  BY <1>1, <1>3 DEF CallsMade, Acquire, bodyVars, Contend, TryAcquire, StatGone, JudgeStale,
                    JudgeFresh, RenameOut
<1>4. ASSUME NEW p \in Procs, Read(p) PROVE ReadIsFresh'
  BY <1>1, <1>4 DEF CallTypeOK, Read, lockVars
<1>5. ASSUME NEW p \in Procs, Throw(p) PROVE ReadIsFresh'
  BY <1>1, <1>5 DEF CallTypeOK, Throw, lockVars
<1>6. ASSUME NEW p \in Procs, Write(p) PROVE ReadIsFresh'
  <2>1. /\ wpc[p] = "in" /\ wpc' = wpc /\ seen' = seen
        /\ step' = [step EXCEPT ![p] = "unlock"]
    BY <1>6 DEF Write, lockVars
  <2>2. \A q \in Procs : wpc[q] = "in" => q = p
    BY <1>1, <2>1, InsideAlone
  <2> QED
    BY <1>1, <2>1, <2>2 DEF CallTypeOK
<1>7. ASSUME NEW p \in Procs, Unlock(p) PROVE ReadIsFresh'
  BY <1>1, <1>7 DEF CallTypeOK, Unlock, Release
<1>8. ASSUME Environment PROVE ReadIsFresh'
  BY <1>1, <1>8 DEF Environment, LockEnvironment, bodyVars, Crash, Overdue, Age
<1>9. ASSUME UNCHANGED vars PROVE ReadIsFresh'
  BY <1>9 DEF vars, lockVars, bodyVars
<1> QED
  BY <1>2, <1>3, <1>4, <1>5, <1>6, <1>7, <1>8, <1>9 DEF Next

LEMMA LockedStep == LockedInv /\ [Next]_vars => LockedInv'
<1> SUFFICES ASSUME LockedInv, [Next]_vars PROVE LockedInv'
  OBVIOUS
<1>1. LockInv /\ [LockNext]_lockVars
  BY NextIsLockNext DEF LockedInv
<1>2. LockInv'
  BY <1>1, LockInvStep
<1>3. ASSUME CleanReclaim' PROVE ReadIsFresh' /\ StoreInv'
  <2>1. CleanReclaim
    BY <1>1, <1>3, RacedStaysRaced
  <2>2. ReadIsFresh /\ StoreInv
    BY <2>1 DEF LockedInv
  <2>3. [StoreNext]_storeVars
    BY <2>1, LockedStepIsStoreStep
  <2> QED
    BY <2>1, <2>2, <2>3, FreshStep, StoreInvStep
<1> QED
  BY <1>2, <1>3, CallTypeStep, CallsMadeStep DEF LockedInv

LEMMA LockedInvAlways == Spec => []LockedInv
BY LockedInit, LockedStep, PTL DEF Spec

(* Where each invocation is in withLock and in its call, and what it read, *)
(* always has the shape state.mjs gives it.                                *)
THEOREM LockedTypeCorrect == Spec => []TypeOK
<1>1. LockedInv => TypeOK
  BY DEF LockedInv, LockInv, CallTypeOK, CallsMade, Busy, TypeOK
<1> QED
  BY <1>1, LockedInvAlways, PTL

(* Until two processes have judged a lock file stale or a live holder has  *)
(* stalled, at most one invocation holds the send, whoever dies, waits or  *)
(* times out between a read and its write (claimSend in withLock).         *)
THEOREM SendOnceUnlessRaced == Spec => [](CleanReclaim => SendOnce)
<1>1. LockedInv => (CleanReclaim => SendOnce)
  BY DEF LockedInv, StoreInv
<1> QED
  BY <1>1, LockedInvAlways, PTL

(* Read-modify-write under withLock implements the atomic file of          *)
(* OrderStore in every behaviour whose reclaims are clean.                 *)
THEOREM LockedCallsAreAtomic == Spec /\ []CleanReclaim => ImplementsOrderStore
<1>1. Init => StoreInit
  BY DEF Init
<1>2. LockedInv /\ [Next]_vars /\ CleanReclaim => [StoreNext]_storeVars
  BY LockedStepIsStoreStep
<1> QED
  BY <1>1, <1>2, LockedInvAlways, PTL DEF Spec, ImplementsOrderStore, StoreSpec

------------------------------------------------------------------------------
(* Two invocations that may die at any point but do not stall, on a file   *)
(* system that lets them remove the lock file: the refinement needs no     *)
(* further condition.                                                      *)
THEOREM TwoInvocationsAtomic ==
  TwoProcs /\ MayStall = FALSE /\ MayRefuse = FALSE /\ Spec => ImplementsOrderStore
<1>1. Init => LockInit
  BY DEF Init
<1>2. Spec => LockSpec
  BY <1>1, NextIsLockNext, PTL DEF Spec, LockSpec
<1> QED
  BY <1>2, TwoReclaimCleanly, LockedCallsAreAtomic, PTL
==============================================================================
