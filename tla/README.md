# A formal model of rozo-checkout

`rozo-checkout` pays a Coinbase payment link or a Bitrefill invoice from a wallet on
another chain, through a Rozo "intent". It is a command-line program without a
server of its own: every command is a short-lived process. What makes it hard is
that several such processes, a router, a payment backend, Coinbase, a chain and a
human all move at the same time, that money leaves once and cannot be called back,
and that the only memory of a payment on this machine is one JSON file per order.

The modules here follow the source in `scripts/src/` (`scripts/dist/`
holds generated bundles of it). `PROJECT.json` maps
each definition to the lines it models.

## 1. The system: inventory

| Part | Source | State it keeps | Operations | Who it talks to |
| --- | --- | --- | --- | --- |
| State lock | `lib/state.mjs` `withLock` | one lock file in the state root | acquire, poll, reclaim a stale file, release | all processes, through the file system |
| Order state file | `lib/state.mjs` | `<id>.json`: deposit, invoice amount, price lock, invoice expiry, confirmation, send record | `createOrderRecord`, `recordConfirmation`, `claimSend`, `recordSendResult`, `readState` | create, confirm and send runs |
| Create (Coinbase) | `create-order.mjs`, `lib/guards.mjs`, `lib/expiry.mjs` | none beyond the run | quote, create-invoice, verify, fetch, guard, expiry, blacklist, payability, record, confirm | router, payments backend, Coinbase status |
| Create (Bitrefill) | `create-bitrefill-order.mjs`, `lib/bitrefill.mjs` | none beyond the run | validate, create or 409 resume, fetch, guard, expiry, record, confirm | router, payments backend |
| Send | `send-evm.mjs`, `send-sol.mjs`, `lib/presend.mjs`, `lib/outcomes.mjs` | none beyond the run | preflight, prepare, sign, last gate, claim, broadcast, look-up, receipt, record | state file, backend, Coinbase, RPC node |
| Pay command | `cli.mjs` `cmdPay` | the first order's id | create, prompt, confirm, send, watch, in one process | the four above, a human |
| Status, receipt, resume | `status.mjs`, `receipt.mjs`, `resume.mjs`, `lib/guards.mjs` | none | classify backend evidence, watch, advise | backend, state file (read only) |
| x402 | `x402.mjs`, `lib/x402*.mjs` | the agent key file | key creation, topup, balance, pay (sign once, replay once) | Rozo x402 API, sellers |
| HTTP and RPC clients | `lib/http.mjs`, `lib/api.mjs`, `lib/rpc.mjs` | none | bounded retries with a wait budget | every network peer |
| Keys and wallets | `lib/keys.mjs`, `lib/key-source.mjs`, `lib/passphrase.mjs`, `lib/wallet-check.mjs` | key files (read only) | choose and load a signer, check balances | file system |
| Amounts, ids, chains | `lib/amounts.mjs`, `lib/ids.mjs`, `lib/native.mjs`, `lib/zec.mjs`, `lib/utm.mjs` | none | pure conversions and validation | |
| Blacklist | `lib/blacklist.mjs` | data file (read only) | membership | |
| Preferences, install id | `lib/prefs.mjs`, `lib/identity.mjs` | `prefs.json` and a lock file of its own | read, merge and save under the lock, choose the install id | all processes, through the file system |
| Output, environment | `lib/output.mjs`, `lib/dotenv.mjs`, `lib/support.mjs`, `quote.mjs` | none | formatting and configuration | |

### Hard behaviours, and what makes each part correct

* **State lock.** Two waiters can both judge one file stale; the holder may have died,
  or merely stalled; `finally` unlinks whatever file has the name. Correct: at most one
  process inside, no live holder's file taken, every wait ends.
* **State file.** Each writer reads, decides and writes back. Correct: the four calls are
  atomic; one `claimSend` per order ever succeeds; nothing erases or retargets a send
  record; an invoice expiry or a price lock only moves earlier.
* **Create.** The record is read outside the lock and used after awaited calls; the
  backend may re-price or move the deposit between any two answers. Correct: what is
  recorded never extends a window that was promised; only live deposit data is confirmed.
* **Send.** The record is read once and the deposit fetched once, then seconds of RPC work
  pass before the broadcast; a second process may be doing the same; the broadcast may
  be taken and the answer lost. Correct: one transfer per order; only what was confirmed;
  in time; not long after somebody else paid; the record never ahead of the facts.
* **Wallet.** Several orders may be paid from one wallet at once; no lock covers it, and its
  owner spends elsewhere too. Correct: the prechecks let no transfer through that fails
  by itself; what is recorded of a transfer is what the chain did with it.
* **Pay command.** The prompt may wait for hours; the confirm run creates again, and the
  router replaces an expired order. Correct: the link is paid once over all orders; a
  command pays only the order it released itself.
* **Status.** Evidence arrives field by field, and money detected must outrank everything.
  Correct: no combination of evidence, read at different moments, invites a second
  payment; settled is the merchant's own word; the watch ends.
* **x402.** The agent key is returned once and stored after the answer; `/sign` is retried
  after a lost answer, and a late request may still arrive. Correct: one charge per
  purchase, within the budget, whose key is handed back; no deposit for a lost key.
* **HTTP client.** A server mixes hints, refusals and silence. Correct: a call is over in
  bounded time and never repeated before the server allows it.
* **Amounts.** Decimal strings with as many digits as the backend likes. Correct: exact
  or refused, and compared by value.
* **Preferences.** First runs draw an id each; every save writes the whole file. Correct:
  saves merge, first runs agree, and a broken lock never holds up a payment.

The hazards, each at its line with the properties that cover it, are in `PROJECT.json`.

## 2. The modules

```
 StateFile        what each call leaves in the file (operators only)
   |-- OrderStore      abstract specification: four atomic calls, granted sends
   |-- LockedStore     the same calls as read-modify-write under SendLock
   |-- CreateOrder     create and confirm runs, backend, clock
   |     `-- SendFlow       send runs, chain; composed with CreateOrder
   |           `-- LockedFlow    the same runs with every call inside withLock
   `-- PayCommand      whole pay commands over several orders of one link
 SendLock         withLock, one action per system call (used by LockedStore, LockedFlow)
 WalletSend       several orders paid from one wallet, EVM and Solana
 Deadlines        when an order may be shown or paid (operators only)
   `-- Guards          what the backend's answers mean (operators only)
         `-- Receipt        outcomes and next actions (operators only)
               `-- OrderStatus   status, watch, receipt, resume of one order
 X402             pay and topup commands, Rozo's ledger, the key file
 HttpRetry        one rate-limited call
 Prefs            the preferences file under its own lock
 Amounts          decimal strings to atomic units
```

| Module | Models | State and actions |
| --- | --- | --- |
| `SendLock` | `withLock` | `lock` is the process whose file is in place, `stale` whether it is older than `LOCK_STALE_MS`, `wpc[p]` where process `p` is. `TryAcquire` is `openSync(..., 'wx')`; `StatGone`, `JudgeStale`, `JudgeFresh` are `statSync` and what follows it; `RenameOut` is the rename and the unlink of the private name; `Release` is the `finally`. Both may be refused by the file system (`TakeFile`, `MayRefuse`), which the code swallows. `Crash`, `Age` and `Overdue` are the environment. |
| `StateFile` | the record and the four writers | `CreateOrderRecord`, `RecordConfirmation`, `MayClaim`/`ClaimSend`, `MayRecordResult`/`RecordSendResult`: functions of the record read. A digest is an injective tuple. |
| `OrderStore` | what the file promises | one action per call; `granted` holds the invocations whose `claimSend` returned. |
| `LockedStore` | the calls as they run | `SendLock` composed with `Read`, `Throw`, `Write`, `Unlock`; `seen` is what `readState` returned. |
| `CreateOrder` | both create scripts | one step per awaited answer and per state call; `intent` is what the backend would answer now, `creator[c]` what a run has learnt. `Kind` selects stablecoin, native or Bitrefill. |
| `SendFlow` | both send scripts with `presend.mjs`, from the order's side | `sender[s]` goes through `ReadLocalRecord`, `FetchLive`, `CheckLink`, `Sign`, `FinalCheck`, `Claim`, `Broadcast`, then `RecordUnheard` or `RecordSubmitted` and `RecordReceipt`; `Stop` ends it anywhere; `tx[s]` is the chain, where a transfer lands, reverts or loses its nonce to a replacement whose receipt is then the one waited for. The state calls (`ClaimOn`, `RecordResultOn` and the like) take the record they read; here that is the file as it is. |
| `LockedFlow` | the same runs on the file as it is kept | `SendFlow` composed with `SendLock`: where a run calls `state.mjs` it enters the lock, reads (`seen`), writes with the operators of `SendFlow` applied to what it read, and unlocks. A call that throws, `LOCK_TIMEOUT` included, ends its run. |
| `WalletSend` | the same scripts from the wallet's side, with `gas.mjs`, `native-send.mjs`, `outcomes.mjs` | `pay[o]` is the invocation that pays order `o` and its transaction, `wallet` the balances and the next nonce. It prices, checks balance, fee and recipient, signs, posts, looks up, waits for a receipt and records; nodes, inclusion, replacement, the owner, the fee price and the data fee of an OP-stack chain are the environment. |
| `PayCommand` | `cmdPay --send` | a create run is one step, a send run three; `orders` are all the router made for the link, `cmd[c]` holds the ids of the first and the confirm run. |
| `Deadlines` | `expiry.mjs` | `checkExpiry` with its margins and refusals, `priceLockFor`, `earliestExpiry`, the limits of a watch: functions of times. |
| `Guards` | `guards.mjs`, part of `zec.mjs` | `receiptSignal`, `reuseGuard`, `checkPayable`, `classifyStatus`, branch by branch, over records of what was read. |
| `Receipt` | `lib/receipt.mjs` | the outcome and the next action of a result; the verdict of `resume`. |
| `OrderStatus` | `status.mjs`, `receipt.mjs`, `resume.mjs` | `reader` is the command: one step per answer it awaits, each of which may be lost; `Judge`, `Poll` and, for resume, `ReadFresh` and `Show`. Between them payment, router, link, local record, price lock and clock move. |
| `X402` | `x402.mjs` | `payer[p]` and `topup[t]` are commands, `ledger` what Rozo debited, `keyFile` the file. A request whose sender gave up may still arrive. |
| `HttpRetry` | `request` of `http.mjs` | `call` with its retries, waits and deadline, and the clock. |
| `Prefs` | `withPrefsLock`, `savePrefs`, `getOrCreateInstallId` | `prefs` is the file, `prefsLock` the lock file and its age, `saver[p]` a command; one action per system call, each of which may be refused. |
| `Amounts` | `toAtomic`, `comparePayment` | `bill` is the pair of amounts chosen; the operators work on the digits. |

A crash needs no action in `CreateOrder` and `WalletSend`: no step is ever forced there, so
a process that died is one that takes no further step. It has one where something waits
for the dead process: a step forced by fairness or the age of its lock file (`SendLock`,
`Prefs`, `X402`), and the clock, which by assumption does not run on while a live process
is between its last gate and the broadcast (`Stop` in `SendFlow`, `Killed` in `PayCommand`).

`SendFlow` uses the state calls as atomic actions. That is what `OrderStore` promises,
`LockedStore` shows of the code under the lock, `ImplementsOrderStore` shows of `SendFlow`,
and `LockedFlow` shows of the runs and the lock together. It stops holding in exactly the
case of the run `store_two_stealers`.

## 3. What is checked

The `MC` modules put several small instances into one run. In `paying`, `sending` and
`client` a behaviour has a `kind`, drawn at the start: it takes the steps of one of the
specifications and leaves the variables of the others alone, so that the run checks
each of them, one after the other, in one state graph.

| Run | Question | Kinds and bounds | Result |
| --- | --- | --- | --- |
| `paying` | is an order paid once, in time, the one released, on a store that behaves atomically? | `commands`: 2 pay commands, 2 orders, clock 0..6. `calls`: 2 processes on the locked file, 2 calls each, crashes. `native`: 1 creator, 1 sender, clock 0..4, 2 locks. `bitrefill`: 2 creators, 1 sender, clock 0..3, 2 expiries. `dying`, `stalling`: 1 creator, 1 sender, 3 calls each on the locked file, crashes or stalls | holds |
| `sending` | is a transfer the one confirmed, the only one, able to succeed, and recorded as it went? | `order`: 2 senders, 1 creator, 4 deposits, a blacklisted address, an amount over the limit. `wallet`: 2 orders of 6 forms, EVM and Solana, 2 changes by owner, price or data fee. `bill`: all pairs of amounts of at most 2 digits before and after the point | holds |
| `status` | is anybody invited to pay again, or too late, or told of a settlement that is none? | orders of every kind, 9 statuses, 4 receipts, 2 changes while the command reads, clock 0..3 | holds |
| `client` | does everything a command waits for end, and is it right when it does? | `lock`: 3 processes, crashes, stalls, refused removals. `pay`: 2 payments, one may rerun the other. `topup`: 2 at once. `http`: 3 retries, hints 0, 1, 5 or none. `watch`: one order, 1 change. `prefs`: 2 commands and the lock of a dead third, refused system calls | holds |
| `store_two_stealers` | one send per order with a third process | 3 processes, crashes | violated |
| `order_native_race` | does the recorded price lock only move earlier? | 2 create runs, 2 locks | violated |
| `send_failed_lands` | did a send recorded as failed move no money? | 1 sender | violated |
| `send_replaced` | did a transfer recorded as confirmed land? | as kind `wallet` | violated |
| `pay_second_order` | does the confirm run confirm the order shown? | as kind `commands` | violated |
| `pay_unseen` | is what is paid what was shown? | as kind `commands` | violated |
| `status_stranded` | is a stranded pay-in never reported as settled? | as `status`, 3 changes | violated |
| `x402_disabled` | was nothing charged when the command says so? | 1 payment, 2 retries | violated |

What the properties of the passing runs say, each of them stated in its module next to
the code it is about:

* `paying`: `LinkPaidOnce`, `PaysReleasedOrder` (commands); `SendOnce`, `SendRecordKept`,
  `ImplementsOrderStore` (calls); `SentInTime`, `NotAfterAnotherPayer`,
  `DeadlinesKept` (native, bitrefill); `CallsAsAtomic` (dying, stalling).
* `sending`: `PayOnce`, `PaidAsConfirmed`, `RecordNotAhead`, the record says confirmed only
  of a transfer that landed or whose nonce another transaction took (the case of
  `send_replaced`), `ImplementsOrderStore` (order); `LockedOnlyIfDisturbed`, a transfer that
  fails does so because somebody else moved the balance, or a price or data fee grew past
  the margin of its precheck, and `OutcomeNotAhead`, the record says no more than the chain
  unless the nonce was reused (wallet); `AtomicExact`, `ComparedExactly` (bill).
* `status`: `NeverPayAgain`, `InvitedInTime`, `SettledIsReal`, `ResumableIffPayable`.
* `client`: `ExclusionUnlessRaced`, `LiveLockKept`, `WaitEnds` (lock); `ChargedOnce`,
  `ChargedWithinBudget`, `KeyHandedBack` (pay); `DepositForKeptKey` (topup); `CallBounded`,
  `NeverEarly` (http); `SavesMerge`, `InstallsAgree` (prefs); `CommandsEnd` (all but lock).

The bounds. Three processes are the fewest with which a dead holder and two thieves
meet, and two are enough for every other race on one file. Two deposits that differ in
a field the record keeps, two that differ only in a field it does not, one blacklisted,
distinguish every branch of the deposit checks. Two price locks let one move either
way. The clock is long enough for every deadline to pass while a run is anywhere; in
`commands` it passes the expiry of a first order and reaches the last moment to pay the
second, in `bitrefill` it reaches the first of two expiries. Three calls take a sender
from its claim to its receipt, and let a creator come back after both of its own. In `wallet` the balances lie just below, between and above what one and two
transfers cost at the two prices and the two data fees (a price
that rises stays within the margin, a data fee that rises leaves it at the lower price and
just meets it at the higher one), the coins asked for lie below and above the rent of
a new account, and two changes let any two of the owner, the price and the data fee interfere
with both orders. In `bill` the digits 0 and 9 and the scales 0, 1 and 3 give leading and
trailing zeros, too many decimals, too few, and every order of magnitude of a
difference. In `status` two changes between answers are enough for any two fields
of one snapshot to be of different moments. `MaxEntries`, `MaxTime`, `MaxOrders`, `Locks`,
`MaxWorld`, `MaxMoves`, `SignRetries` and the sets above are the only bounds on growth.
Deadlock is not checked: every run stops when all its commands have ended.

Fairness appears in `client` alone, where liveness is checked (`FairClient`, made of
`LockFairness`, `FairX402`, `FairPrefs` and those of `SpecHttp` and `SpecStatus`). The operating
system runs every live process; a request is answered or times out, because every one
has an abort timer; timers fire and clocks advance. A crash, a stall, a first step or
a change of the backend is never forced. A waiter for a lock is not promised the lock,
only an end, and even that has a condition: both lock loops go back past their deadline
check when the file system refuses a call on the lock file. `WaitEnds` is therefore stated
under `ReclaimsSucceed`, and the part of `CommandsEnd` about preferences under
`PrefsLockServed`: strong fairness of the calls the code depends on (a removal that is
possible again and again succeeds in the end; for preferences also a look at the file's
age). They are premises of the properties and not part of the specifications, because
the code does not guarantee them; without any one of them TLC finds the endless loop. A watch ends although the deadline the
limit comes from may move or be unknown, since the limit is fixed at the first poll.

Assumptions on the environment, each named in its module:

* `MaxGap < Margin` (`SendFlow`), `MaxGap + Lag <= Margin` (`PayCommand`): from the last
  answer read to the node taking the transaction passes less time than the margin of
  5 or 10 minutes. The gap includes the answer's own way back, the wait for the lock (at
  most `LOCK_WAIT_MS`) and one RPC call. Nothing in the code enforces it.
* `Lag`: a broadcast has been settled, or will never be, within the margin. A
  transaction that stays pending longer could land after its order was replaced.
* `TxOf` is injective: two runs for one order never sign the same transaction. Nonces
  and their reuse between orders are the subject of `WalletSend`.
* In `WalletSend` a transaction is charged the price it was signed with for all the gas it
  needs, and on an OP-stack chain the data fee of the moment; any higher price replaces a
  pending one, and a wrong chain, mint or number of decimals is a refusal that any
  check may make.
* Rozo's x402 ledger is modelled as `SKILL.md` describes it: one debit per idempotency
  key, a conflict for another requirement under the same key. A seller's refund of a
  signed payment (status 410) is not modelled.
* The state lives on one machine. Two machines share no record, and nothing here says
  that the same link is not paid from both.

### The disagreements the runs show

1. `store_two_stealers`: the stale check and the rename are two steps, so a second thief
   takes away the first one's fresh lock; both then claim the same order.
2. `order_native_race`: the recorded lock is read outside `withLock` and replaced, not
   merged, so two concurrent create runs can move it later.
3. `send_failed_lands`: a broadcast nobody answered is recorded as `failed`, the same
   status as a transaction that reverted, and may still land. The order stays locked
   against a second send, so this is about the record, not about paying twice.
4. `pay_second_order`: "confirming never creates a second order" fails when the prompt
   outlives the order. `PaysReleasedOrder` shows that `--send` is refused then; a
   payer without `--send` is shown the second order while the first is watched.
5. `pay_unseen`: with `--send` the confirmation covers what the confirm run fetched, which
   the human who answered has not seen.
6. `send_replaced`: two runs from one wallet, or a run and the wallet's owner, sign the
   same nonce. The receipt waited for is then that of the replacing transaction, and
   the transfer that never landed is recorded as confirmed. `OutcomeNotAhead` shows that
   this is the only way: without a replacement the records hold.
7. `status_stranded`: while the router has not spoken, a link that somebody else's payment
   settled makes the order settled, although its own pay-in was seen.
8. `x402_disabled`: the first `/sign` was debited and its answer lost; the retry is answered
   503 and the command says that nothing was charged.

More were met without a run of their own. Neither lock loop is bounded when the lock file
cannot be removed: `withLock` swallows the error of `renameSync` and retries at once
(`state.mjs:80-83`), `withPrefsLock` that of `statSync` and `rmSync` (`prefs.mjs:63-64`), and
neither then looks at its deadline (`state.mjs:90`, `prefs.mjs:66`). A command that meets
a stale lock file in a directory it may not change spins for ever, without `LOCK_TIMEOUT`;
`prefs.mjs:44` says "Returns undefined if the lock cannot be had in time". The `finally` of
`withLock` unlinks by name, so that a holder which stalled past `LOCK_STALE_MS` releases
somebody else's lock; the properties of exclusion end there (`CleanReclaim`).
`withPrefsLock` reclaims a stale lock by
`rmSync` of its name, so the case of `store_two_stealers` exists there too: `SavesMerge` and `InstallsAgree` are stated for one thief
(`Undisturbed`), and TLC finds both violated without that premise. `statusGuidance` advises
a fresh Bitrefill invoice although a send is recorded, while the next action of the same
answer is to contact support. A topup killed between the exclusive open and the
write leaves an empty key file that every later topup stumbles over.

Hazards no property covers are listed with the reason: the `finally` of a stalled holder,
the last gate of a Coinbase
order does not re-read the intent (the code promises nothing there), a payment
killed between the debit and its report (nothing is persisted of a purchase), the empty
key file, and the wording of the guidance.

## 4. What is proved

The proofs hold for every number of processes and every value of the constants that
satisfies the named assumptions. Each module of theorems states one inductive invariant
per specification; the property alone is hardly ever inductive, and what had to be added is the
reason why the code works. Those invariants were checked by TLC before they were proved.

* `SendLockProofs`: `LockTypeCorrect`, `ExclusionHolds`, `LiveLockIsKept`, `TwoReclaimCleanly`. `MutualExclusion` is not
  inductive: it says nothing of a process about to rename. `LockInv` adds that a lock
  file belongs to a process inside or dead, that a stale one belongs to a process that has left
  unless a holder stalled, that whoever is inside has its own file in place, and that the
  single thief's next rename takes such a file. A second thief breaks the
  last two: exactly the run `store_two_stealers`. Of two processes one at most survives a
  stale file (`OneSurvivor`), so two that do not outsleep `LOCK_STALE_MS`, and are refused no removal of
  their own file, never race. Refused removals leave the other theorems as they are.
* `LockedStoreProofs`, first the atomic store: `StoreTypeCorrect`, `StoreSendsOnce`, `StoreKeepsSend`. Here the
  type and `SendOnce` together are inductive: a grant needs a record without a send, and
  every grant is in the record.
  Then the calls as they run: `LockedTypeCorrect`, `SendOnceUnlessRaced`, `LockedCallsAreAtomic`, `TwoInvocationsAtomic`. To
  `LockInv` the invariant adds that what a call has read is still in the file when it
  writes, because it holds the lock; the write is then the atomic call, and every other step a
  stutter. `CleanReclaim` (no second thief, no overslept holder) is needed in the state
  only, so that `SendOnce` holds up to the first race whatever happens later. For two
  invocations `TwoReclaimCleanly` replaces that condition where no removal is refused.
* `SendFlowProofs`: `FlowTypeCorrect`, `PaysOnce`, `PaysAsConfirmed`, `RecordsNotAhead`, from one
  invariant `FlowInv`. Besides the type it says: what a run holds (a deposit, a
  record) while it needs it, that the record carries the invoice's amount and a
  confirmation that was given, that a run past its fetch holds a confirmed and clean
  deposit, that a run past its claim is the one the record names, and that a
  transaction on the chain is one such a run broadcast. One lemma per group of actions
  shows it kept; the creators' side is abstracted to what a sender relies on
  (`SendLeftAlone`). `FlowImplementsStore`: every step of `SendFlow` is one `Create`, `Confirm`,
  `Claim` or `Result` of `OrderStore`, or changes neither the file nor the right to broadcast.
  Time: `NotPaidAfterClosed` and `NotPaidAfterFunded` from `GateInv` (a run past its last gate
  passed it recently, before the deadline, and before anybody else paid);
  `SentBeforePromised` from `PromiseInv` (the recorded lock is no later than any lock ever
  confirmed, and the deadline a run holds itself to no later than any it was promised when it
  began); `RecordedExpiryEarliest`; `RecordedLockEarliest`. For a native coin the second and the last
  assume `InTurn`: no two create runs are between the read of the recorded lock and the
  confirmation at once. `order_native_race` shows that this cannot be dropped; senders,
  and creators of the other kinds, interleave freely.
  `NotPaidAfterAnother` joins the first two; `RecordedExpiryEarliest` and `RecordedLockEarliest` are
  the two parts of `DeadlinesKept`, which `paying` checks of two instances.
* `LockedFlowProofs`: `LockedCallsActAtomically`, `LockedRunsPaySafely`, `LockedFlowImplementsFlow`, `TwoRunsImplementFlow`. This
  joins the three modules above: any number of creators and senders, each call of theirs
  a read and a write inside the lock, with everybody free to die, wait, time out, stall or
  steal in between. To `LockInv` and `FlowInv` the invariant adds only that what a call has
  read is still what the file holds (`ReadIsFresh`), which rests on two facts: nobody else
  is inside, and no step outside the lock writes the file. A write is then the atomic
  call and a refused result a `Stop`. So the locked runs implement `SendFlow` while reclaims are
  clean, and inherit every theorem of `SendFlowProofs`.
* `PayCommandProofs`: `PayTypeCorrect`, `LinkNeverPaidTwice`, `ReleasedOrderIsPaid`. The argument is about
  time. An order that passed the last gate, and one whose transfer is under way, are both
  still open (gap and lag together fit into the margin), and only the latest order of a
  link can be open; so the two are the same order, whose file takes one claim. Once a
  transfer has settled, the link is not payable and the gate is shut. `PayCommandInv` says
  this of each command (`CmdInv`) and of each command past the gate against all others
  (`GatedAlone`).
* `SendingProofs`: `WalletTypeCorrect`, `LockedOnlyWhenDisturbed`, `OutcomeHonest`. Neither property speaks of
  the prechecks. `Covered` adds what an undisturbed order's checks have established: that the
  balances still cover the form and the fee with its margin (`CostCovered`: gas and data fee, each
  rounded up with `BufferPct`, cover what is charged until it outgrows the quote by more), and that the nonce is free. That
  there is always a free nonce within the bound is a counting argument over the finite set of
  orders. `Recorded` says where record and transfer stand while an invocation runs.
  `AmountsConvertExactly`, `PaymentsCompareExactly`: what `toAtomic` computes digit by digit, for decimals of any
  length. The reading of a string is a recursive function, and the facts about it are proved
  by a least counterexample: `<` on the numbers is well founded, so a fact that fails at
  some length fails at a first one, one digit after it held (`LeastNumber`). From it: a
  reading is a number, splits where the string is cut, and ignores leading zeros.
* `OrderStatusProofs`: `StatusTypeCorrect`, `SettledOnlyByMerchant`, `ResumeAgreesWithStatus`, and the action properties
  `NeverInvitedTwice` and `AlwaysInvitedInTime`. `StatusInv` says that the answers in hand may be older than
  the world but never ahead of it, since the world does not withdraw evidence of money; that
  a result is what the answers in hand give; and that a result that invites has a deadline bounded
  by every deadline that cannot move. The last one is what makes a late step safe: each step
  compares the clock with that deadline again.
* `ClientProofs`, first x402: `X402TypeCorrect`, `PurchaseChargedOnce`, `NeverOverBudget`, `EndedHandsBack`, `DepositKeyKept`. `PayInv` adds
  that keys and purchases correspond one to one over all commands, that a request belongs
  to the command that made it however late it is taken, and that what is handed back was some
  command's key; `TopupInv` that the key file is opened by one command, which writes the
  key it was given there.
  Then the client: `CallIsBounded`, `CallNeverEarly`. `CallBounded` is not inductive: it says
  nothing of the timer that is set. `CallInv` adds how far away that timer can be,
  given the requests made and the waits served so far: one time-out more than
  repetitions while a request is out, as many while the call sleeps.
  `FirstRunsAgree`, `SavesDoMerge`: neither property speaks of the preferences lock. `PrefsInv`
  adds, while `Undisturbed` holds, that whoever is inside has its own lock file in place,
  that a stale file, and any file about to be removed by its name, belongs to a command
  that died or could not remove it, and that what was read under the lock is still in the file. The second judge
  of a stale file breaks exactly the part about the removal.

What the proofs assume, each in the module that declares the constants and evaluated by TLC in the
runs: `LockAssumption`, `OrderStoreAssumption`, `LockedStoreAssumption`, `CreateOrderAssumption`,
`SendFlowAssumption`, `PayAssumption`, `WalletSendAssumption`, `OrderStatusAssumption`, `DeadlinesAssumption`, `X402Assumption`,
`HttpRetryAssumption`, `PrefsAssumption`, `AmountsAssumption`. Most of it says that the null value is none of the others and
that numbers are numbers. The rest is:

* the gap, and the lag where a link has several orders, is below the margin (`SendFlow`, `PayCommand`);
* two runs sign different transactions (`SendFlow`), and each command names its own (`PayCommand`);
* the invocations of the store are the processes of its lock (`LockedStore`);
* there are finitely many orders on a wallet, and nothing is paid with an amount of zero
  (`WalletSend`);
* a receipt the backend reports is a real amount, and a deadline is kept on this machine only
  with a record of the order, of a native coin or a Bitrefill invoice (`OrderStatus`);
* a challenge offers well-formed options (`X402`); there is a backoff for every retry (`HttpRetry`).

Only model-checked: liveness (`WaitEnds`, `CommandsEnd`), which the provers cannot do. Every
other property of the passing runs is stated by a theorem; what `MCPaying` checks of its
instances (`SentInTime`, `NotAfterAnotherPayer`, `DeadlinesKept`, `CallsAsAtomic`) is stated
of `SendFlow` and `LockedFlow` themselves, whatever the constants. `LockedFlow`'s promises in time are
relative: `MaxGap` bounds the time from the last gate to the broadcast, the wait for the lock
included, and is assumed. The instances of `MCPaying` and the other `MC` modules are for
TLC alone.

## 5. What is not modelled, and the plan

Not modelled for good:

* key loading, keystore decryption and passphrases, balance look-ups, the RPC client,
  body parsing, message wording, environment files, command-line parsing, address
  formats, payment URIs: single calls on data, whose results the models take as given;
* `verifyCreateAgainstQuote` and `validateDepositInstructions`, whose verdict is the guard
  of `CreateInvoice`, and the shielded ZEC order, which this program creates and
  watches but never pays (`OrderStatus` does cover its evidence);
* picking a coin in `cmdPay`, and its watch, which is `OrderStatus`;
* timestamp parsing: a deadline is a number, or missing;
* the refund of a signed x402 payment, and Rozo's own ledger beyond what its answers
  tell;
* the chain beyond what a transaction may be charged, replaced by or fail for.

Theorems worth proving next: that every order of a link implements `OrderStore` in
`PayCommand` too (its confirming step makes two calls on the file at once, so the mapping
needs the state between them), and that `X402` implements a ledger with one debit per purchase.
