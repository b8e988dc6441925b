# e-arveldaja MCP server: TLA+ models, model checking and proofs

The repository is an MCP server (TypeScript, one process per client) that books into
the Estonian e-arveldaja accounting service through its REST API. Its tools plan,
create and register bookings: bank transactions, journals, invoices. The remote ledger
is shared with other server processes on the same machine, with the accountant in the
web application and with a network that loses requests and answers, and the service has
no transactions and no idempotency keys. The core of the program is therefore a set of
protocols: file locks between processes, promise queues inside one, one-shot plans,
fresh re-reads before and after a write, classification of what a lost answer may
mean, and rollback. That is what is modelled here. Parsing, matching scores, text and
reports are not.

Paths below are relative to the repository; its sources are under `src/src`.

## 1. Inventory

| Component | State | Operations | Interacts with | Hard behaviour | What makes it correct |
|---|---|---|---|---|---|
| Owned file lock, `file-lock.ts` | lock file, `.reclaim`, `.reclaim.reclaim`; per process a tail promise per path | acquire, probe the owner's pid, reclaim under a guard, release; a synchronous twin | file system, pids of other processes | processes die anywhere, pids are reused, several reclaimers, deadlines in the queue | mutual exclusion; a live owner keeps its file; FIFO in a process; a dead owner does not block for ever |
| Transaction confirmation, `api/transactions.api.ts` | promise chain per row, the row's cache entry; the remote row, journals | confirm (plain and reviewed), client guard, register, recovery read, rollback | HTTP client, cache, invoices API | row and invoices change between reads; register answered late or never; rollback races a foreign write | receipt under the invoices' client; registered once; the approved material; honest outcome |
| Booking guard, `booking-guard.ts` | the key lock; the remote journals | lane A `createJournalOnce`; lane B inter-account resolution and consumption; company-wide locks | file lock, journals API | scan and POST are two requests; ambiguous POST; death of the holder; deletion and reposting | one live journal per key; one POST per call; a failure has booked nothing |
| Tool-call wrapper and `switch_connection`, `server/create-server.ts`, `connection-safety.ts`, `server/register-system-tools.ts` | active connection and generation, in-flight mutations, resolved labels | wrap a tool call, guard a request, switch | every tool, caches, plan store | a switch between any two awaits of a call | a mutation keeps its connection; no request under an old one |
| Plan store and operation results, `plan-store.ts`, `operation-result-store.ts` | active plans, tombstones with proof and pins, results | issue, inspect, consume, assertConsumed, retain and release, expiry, trimming | all plan/execute tools | expiry and eviction at the limits, scope compared across switches | one attempt per handle; executed where it was reviewed; results keep their proof |
| API cache and resources, `cache.ts`, `api/base-resource.ts` | entries, generation, LRU order | get/list, `setIfSameGeneration`, invalidate, page walk | HTTP client | an old answer arrives after an invalidation | the process sees its own settled writes |
| HTTP client, `http-client.ts` | rate limiter chain | request, retry, outcome class | network | GET retries, 60 s abort, 408 | an ambiguous write is never called definitive |
| Plan execution, `plan-execution.ts` | report partitions | prepare, mutate, stop | executors | a command fails or is unknown half way | prefix executed, rest untouched, report truthful |
| CAMT import, `camt/` | row lock per company and dimension, rows created by this run | dry run, execute row by row | plan execution, file lock, transactions API | two imports of one statement, cached lists, late rows, partial failure | a statement entry is imported once, identical legs as often as there are |
| Wise import, `wise/` | execution gate per process, blocked rows | dry run, execute with skips | transactions API, journals | legs that depend on each other, two executes, evidence that appears meanwhile | no leg twice by one process, every command in the partition that is true |
| Bank reconciliation, `banking/reconciliation/` | none of its own: rows and journals of the service | match the two rows of a transfer, confirm one, delete its mirror | plan execution, transactions and journals API | nothing locks it; rows are read one after the other before each write | a mirror goes only while its movement is booked; a transfer is booked once |
| Purchase invoices, `api/purchase-invoices.api.ts`, `documents/`, `receipts/`, `tools/receipt-inbox-booking.ts` | a gate per connection, markers of readings, cached drafts | scan, create, correct the totals, upload, confirm under a fingerprint, invalidate; five tools use them | HTTP client, cache, plan store | every intake is four writes or more; any of them fails or is unknown, drafts are edited meanwhile | booked once; registered only as reviewed; a failure says what is left |
| Sale invoices, `sales/invoice-operations.ts`, `sales/create-recovery.ts` | queue of the create lock, markers, reservations, released | prepare, execute, release by the owner | HTTP client, clients API | ambiguous create, capacity shared by all, client made for the invoice | no second invoice for an unknown create |
| Accounting rules bundle, `accounting-rules.ts` | its own lock file and rules file | update under lock | file system | its reclaim guard is never cleared | mutual exclusion |
| Audit log, `audit-log.ts` | log file per label | append, relabel under the synchronous lock | file lock | busy lock after a mutation | no lost entry |
| Receipts, documents, inbox, Lightyear, tax tools | none of their own beyond handles and files | orchestration over the components above | all | long flows | that of the parts |
| Configuration, tool surface, prompts, reports, money, bootstrap, scripts | none, or fixed at startup | pure functions, registration | | | values, not protocols |

`PROJECT.json` lists all parts with their files and status, and the hazards of the code
at the line where each bites. A hazard without a property says why none covers it.

How they interact: the wrapper of `create-server.ts` runs every tool call with a snapshot of
the connection; the tool uses plan store, cache and API resources; a mutation goes
through the HTTP client; a booking takes the file lock around scan, POST and
confirmation. `BookingGuard` is composed with the lock through `AbstractLock`: the lock
module is shown to implement it, the booking guard to use it and nothing more of the
lock.

## 2. Modules

| Module | Models | Lines of code | Proofs |
|---|---|---|---|
| `AbstractLock` | what `withOwnedFileLock` promises its callers | abstract | |
| `OwnedFileLock` | `file-lock.ts`, asynchronous lock | acquire, reclaim, queue, release | in `Locks_proofs` |
| `TransactionConfirm` | `TransactionsApi.confirm` | both paths, recovery, rollback | `TransactionConfirm_proofs` |
| `BookingGuard` | `BookingGuard.createJournalOnce` | scan, POST, rescan, confirm, verify | `BookingGuard_proofs` |
| `PlanExecution` | `runPlanCommands`, `buildReport` | the whole loop; abstract specification of an execute | in `WiseImport_proofs` |
| `CamtImport` | `camt/executor.ts`, `camt/projection.ts`, duplicate identity | dry run, execute, row lock, rechecks | `CamtImport_proofs`, refines `PlanExecution` |
| `WiseImport` | `wise/executor.ts`, command projection | gate, loop, checks around create and confirm | `WiseImport_proofs` |
| `SaleInvoiceCreate` | prepare and execute of a sale invoice, `SaleCreateRecoveryGuard` | every operation of the store, the create, its rollback | in `Locks_proofs` |
| `BankReconciliation` | inter-account part of `banking/reconciliation/executor.ts` | match, plan, every check before a write, the writes, their recovery | `BankReconciliation_proofs` |
| `PurchaseInvoiceIntake` | `createAndSetTotals`, `withPurchaseInvoiceLock`, create and confirm of the five ways to a purchase invoice | gate, scan, create, totals, upload, review, registration, rollback | `PurchaseInvoiceIntake_proofs` |
| `PlanStore` | `ExecutionPlanStore`, `OperationResultStore` | every operation that changes them | in `ServerRuntime_proofs` |
| `ServerRuntime` | wrapper, switch, guard, cache, plan/execute | extends `PlanStore` | `ServerRuntime_proofs` |
| `MC*` | instances for TLC | | |

An action is what the program does between two awaits (or two file system calls). Every
definition marked *Mutant* in a module is not part of the model: it is the plausible
wrong version of the definition below it that shows the properties can fail.

### OwnedFileLock

`fs[l]` are the three files, each holding the token of one call (the nonce makes a token
unique, so the token is the call). `line[p]` and `settled` are the tail promises of
`queueTails`; `step[c]` is the program counter of one `withOwnedFileLock`; `level`, `seen`
and `result` are the locals of the reclaim, one level deep for the lock and two for its
guard. `Publish` is `link()` of the candidate, `Observe` the read and the signal 0 probe,
`Guard`, `Recheck`, `RemoveFile`, `Unguard`, `UnlinkGuard` the guarded removal, `Poll` the sleep.
`Die` ends a process between any two file operations; `FileFault` is an operation that
throws, including the one where the token is published and the candidate's removal fails.
A reused pid makes a dead owner look alive (`PidOf`).

### TransactionConfirm

`row`, `invoice`, `journals`, `flying` are the service: a write whose answer was given up on
stays in `flying` and lands later or never. `queue` is `confirmLocks`, `cached` the row's
entry in the process cache. One `Call` is a confirm: client guard (`GuardedByOneInvoice`,
`Guarded`), `UpdateClient`, `AssertClient`, `Register`, `Recover`, `RollbackRead`, `Rollback`,
and for a call with `expectedTransaction` the review reads of the row and the invoices
before and after the client write. `ForeignWrite` is the accountant in the web
application; confirms of other processes appear as such writes. The history variables
`stale` and `writer` say what changed after a call last looked at it: no protocol on an
API without conditional writes can close that last window, so the properties except it
explicitly, together with writes that land after they were given up on (`late`), and
nothing else.

### BookingGuard

`ledger` are the journals with one document number, `mail` the requests on their way. A
request is carried out while its call waits, after the call gave up, or never.
`StartScan`/`CheckDuplicate` are the page walk ahead of the POST: it shows every
journal that was there all the time, and perhaps one that came or went meanwhile
(`Scanned`). `CreateAnswered` has the 2xx answer without `created_object_id`,
`CreateAmbiguous` and `Recover` the rescan that settles a lost answer, `ConfirmAnswered`,
`ConfirmAmbiguous` and `Verify` the registration. A process may die with its requests on
the way; its lock is then free for the next call.

### PlanStore and ServerRuntime

`plans`, `tombs`, `results` are the stores in order of issue. `ConsumeActive` burns the handle before
it compares domain and scope and leaves the proof only on success; `Trim` is
`trimTombstones`, its loop a recursive function that deletes one tombstone at a time
(`TrimOnce`) and spares pinned ones and the proof just added. In
`ServerRuntime` a call captures `active` synchronously and enters `inFlight` (`Arrive`), awaits
the label (`Label`), reads through the cache (`StartRead` .. `ReturnRead`), then issues a
plan or consumes one and writes (`StartWrite` .. `Report`). `SendRequest` is the second question
of the request guard, after the rate limiter. `SwitchConnection` refuses while another
mutation is in flight. The data of a connection is a version number, the count of writes
the service carried out for it, so a stale cache entry is a smaller number.

### PlanExecution and CamtImport

`PlanExecution` is `runPlanCommands`: `commands` in order, `outcome` the partition of each command the
loop went past, `stop` and `mayHave` the two fields the report is built from. `touched` is
what the world has seen, which the loop does not know; `Write` may therefore come after
the loop gave the command up, but only for the one it called indeterminate. It is the
abstract specification of every reviewed execute.

`CamtImport` is one such execute in full. `rows` and `covered` are the ledger, with the entry a
row was made from, `mark` saying whether its stored identity can be read. `Projection` is the
dry run's, `IsDuplicate` the counting of identical legs (`Occurrence`), `Known` the list a row is
rechecked against: the fresh one and `createdThisRun`. `Acquire` .. `CreateThrows` are prepare
and mutate of one row under the row lock, `Halt` the stop with its `finally`. `mail` and `late`
are as in the booking guard. `ImplementsPlanRun` maps the call to `PlanExecution`.

### WiseImport

The loop of `executeWiseImport` is not `runPlanCommands`: it skips what fails and goes on, and only an
unknown outcome stops it. `EveryCommand` lays out main, fee and own-transfer commands in the
order of the code, `plan` is the pending ones of them, `part` is the line of the report each of them ends in, `blocked` the rows
whose journal or client check failed. `gate[p]` is the promise map of one process: the executes
that wait in it, in order. `NewEvidence` is the comparison of the journals with the
reviewed ones, made before a create and before a confirmation, `OtherClient` that of the client
a card row has from earlier payments.

A create without an answer stops the loop (`CreateUnknown`). A registration without one does not:
`TransactionsApi.confirm` reads the row again (`Recover`). CONFIRMED is success, whoever
registered it; PROJECT makes it rethrow the error of the register call, which the loop takes for a
failed confirmation, so it reports the row as left behind and goes on; a failed read stops the loop.
A register request that is still on its way then belongs to nobody (`strayed`) and may be carried out at
any time (`LateConfirm`, which books as "Late").

### SaleInvoiceCreate

`queue` is the in-process create lock; `markers` and `released`, in the order the code keeps them, and
`reserved` are the three lists of a `Partition`, which share `Capacity`. `Earliest` is the `find` of the
code, `Evidence` what the scan goes by, and `SaleStep` a call's next operation. `Check` is the recovery check with its scan and
the reservation, `Resolve` the client, `SendInvoice` .. `InvoiceRefused` the POST and its three
outcomes, `Undone` the deactivation of a client made for a refused invoice. `OwnerScans` and
`OwnerReleases` are the explicit release of a marker. `Restart` loses everything kept in memory.

### BankReconciliation

One transfer between two own accounts is two rows, `out` and `in`. `rows[r]` carries the status, the
client and a revision for everything else that `compareBankTransactionMaterial` compares;
`journals[i].of` is the row a journal is the registration of, `good` whether its postings move
the transfer (`journalMovesTransfer`). `Matched` abstracts the pairing to what it decides about
these two rows, `Ops` are the commands in the code's order: update the client, confirm,
delete the mirror, or delete a mirror that is proposed because its counterpart is booked.
`LookAt*` are the reads of `prepare`, one action per read that decides, `Review` the read in
`TransactionsApi.confirm`, `Send` and the service's actions the write, `Recover` the read that settles a
registration without an answer. `stale[c]` remembers what others changed after the call's last
look; no other part of the model reads it. `ReportIsTrue` states two invariants of
`PlanExecution` under the mapping `PlanRun(c)`; section 5 has the proof.

### PurchaseInvoiceIntake

Five tools create purchase invoices, and `path[c]` says which one a call is: the accounting
document (`document`), a reading of one (`reading`), `create_purchase_invoice_from_pdf` (`pdf`), the
receipt batch (`receipt`) and the classification of bank transactions (`bank`). `gate` is the
promise chain of `withPurchaseInvoiceLock`: its head runs. Inside it every path scans
(`Recognizes` says whose invoice a scan can match: a number, or the `AUTO-TX-` number the bank path
gives, which only a reading looks past), creates, corrects the totals (`FirstRead` .. `ReadBackFails`, which
is `createAndSetTotals`; `Unproven` are the comparisons of `createNonDeductible`) and, but for `bank`,
uploads the document. Then `document`, `reading` and `pdf` wait for the review and enter the gate
again (`Approve` .. `LastLook`), `receipt` verifies document and draft and registers (`Verify`), and `bank`
compares its draft once more and registers (`BankLook`, `BankSend`, `BankAfter`).

`invoices` is what the service has, with `edited` telling an edit the call's last look can still
see (`before`) from a later one (`after`). `cached` and `copy` are the process cache: whether a
draft is in it, and whether that copy was the draft as asked for. `markers` and `released` are
the reading's memory of unknown creates. `outcome` names what the tool reports: `keptDraft` is
"held, reuse this invoice", `left` a failed invalidation, `notRegistered` a draft that changed.

## 3. Runs

| Run | Instance | Shows |
|---|---|---|
| `lockQueue` | 3 calls queue in one process, 1 in another, deadlines, 1 file fault, 2 deaths, a third process reuses a pid | `InProcessFifo`, `LiveOwnerKeepsFile` |
| `lockReclaim` | 4 processes with one call each, 2 deaths, no deadlines, fair | `LockInv` (the inductive invariant), `MutualExclusion`, `ImplementsLock`, `EveryCallEnds` |
| `confirm` | 2 confirms of one row in one process, one of them reviewed, 2 invoices, 2 clients, 1 foreign write, 1 fault, fair | 6 properties, see below |
| `booking` | 3 calls of one key, 2 processes, 1 death, 1 deletion, 2 faults, fair | 5 properties |
| `runtime` | 2 connections, 2 dry runs (one by a read-only tool), 2 executes, 2 switches there and back, 1 fault, 1 active plan, 1 tombstone | 5 properties |
| `camt` | a statement with two identical legs, 2 calls in 2 processes, 1 death, 1 foreign row or journal, 2 faults, fair | `ImportedOnce`, `ReportIsTrue`, `ImplementsPlanRun`, `EveryExecuteEnds` |
| `wise` | 2 rows, one of a card, the other an own transfer with a fee leg, 2 calls in one process, 1 death, 1 foreign step, 1 fault, fair | `LegOncePerProcess`, `ReportIsTrue`, `EveryExecuteEnds` |
| `sale` | 3 creates of one event, one for a known customer, two for one described inline, capacity 2, 1 restart or foreign invoice, 2 faults, fair | `GuardRemembers`, `NoSecondInvoice`, `ReportIsTrue`, `EveryCreateEnds` |
| `reconcile` | the two rows of one transfer, 2 calls in 2 processes, 2 steps of the accountant, 1 fault or death | `MovementIsKept`, `NotBookedTwice`, `ReportIsTrue` |
| `purchase` | 2 intakes of one invoice by each of 12 pairs of ways, one of them non-deductible, 1 step of the accountant, 2 faults, fair | `IntakeOnce`, `RegisteredAsReviewed`, `OutcomeIsTrue`, `EveryIntakeEnds` |
| `purchaseStaleDraft` | 1 intake from a bank row, 1 edit | violation of `BankDriftIsHeld` |
| `purchaseStrayDraft` | 1 receipt, 1 fault | violation of `FailureLeavesNoDraft` |

What the passing runs show:

* lock: at most one holder, whoever dies; a file leaves a live owner only by its own hand;
  a queue keeps its order when a waiter in the middle times out; every call ends, and with
  infinite deadlines it ends by getting the lock, so at most two deaths never wedge it.
* confirm: a receipt is booked under another client than its invoices' only through the
  last-instant window (`ReceiptUnderInvoiceClient`), a row is not registered twice
  (`NoSecondRegistration`), a reviewed confirm books what was approved
  (`ReviewedBooksWhatWasApproved`), a rollback overwrites only its own write
  (`RollbackSparesForeignWrite`), and every queued confirm settles (`EveryConfirmSettles`).
  `FailureIsTrue` has two halves. A confirm that ended before its register call, or whose
  register was refused, has registered nothing and will not: these are a refusal, a failed
  read, a rejection, and a drift or a failed rollback unless they come behind a register
  without an answer. And a refusal, a rejection or an error whose rollback went through does
  not leave the confirm's client. Of a register without an answer it says nothing. The code
  says more there, and wrongly: a drift error behind such a register claims to come before it
  (section 4).
* booking: `OneLiveJournal` between calls with the same credentials, except a journal
  posted by a request its caller gave up on or died with; `NothingBookedOver`,
  `OutcomeIsTrue` (what a call reports is what is in the books), `EveryBookingEnds`, and
  `UsesLock`, the composition with `AbstractLock`.
* runtime: `MutationKeepsItsConnection`, `NoRequestAfterSwitch`, `PlanRunsOnceWhereReviewed` (there
  and back included), `ResultKeepsItsProof`, `CacheShowsSettledWrites`.
* camt: a statement entry with a bank reference is imported once by whatever calls,
  processes and API keys, two identical legs twice and not three times, except by a
  request its caller gave up on (`ImportedOnce`); the dry run and the consumption may read
  cached lists, the recheck under the row lock does not. The execute is a run of
  `PlanExecution`, so what its report says of every row is true (`ReportIsTrue`).
* wise: the executes of one process write a leg once, and the report puts every command
  into the partition that is true, also after a skipped dependency, an unknown outcome or a
  registration that was settled by a read. A row reported as left in PROJECT is registered
  neither by a request whose answer the import knows nor by one it still waits for; a
  registration that arrives after its row was read in PROJECT is excepted (section 4).
* sale: an unknown create stays in the guard until the owner releases it, at capacity too
  (`GuardRemembers`); no second invoice over one whose create was reported unknown, unless
  the owner released the marker (`NoSecondInvoice`; of two released markers the code scans
  for the first, see section 4); reports are true and the customer of an invoice
  stays active, except when its deactivation arrives late (`ReportIsTrue`).
* reconcile: a mirror row is deleted only as it was reviewed and while the registration of
  the other row books the movement (`MovementIsKept`), and a transfer is not registered over a
  confirmed row, its own or its mirror, nor over a journal that books it
  (`NotBookedTwice`): what the accountant or the other process changes gets past only after
  the last look of the call at the thing that is changed. Reports are true
  (`ReportIsTrue`), but for a registration that arrives after its row was read as PROJECT.
* purchase: intakes that can recognize each other's invoices book a document once, except
  by a create that was carried out after its caller gave it up, and for two readings not
  even then unless the owner released the marker (`IntakeOnce`); what is registered has its
  totals and document and was edited by nobody up to the last look (`RegisteredAsReviewed`);
  what an intake reports to have left, undone, not created or not registered is so
  (`OutcomeIsTrue`); a failed intake does not block the gate (`EveryIntakeEnds`).

Every property of a passing run has a mutant of a modelled definition that breaks it.

### Bounds

* `MaxDown`, `MaxFaults`, `MaxForeign` count deaths, faults and foreign writes. Two deaths suffice for
  a dead owner and a dead reclaimer of it; a third would leave a guard's own guard (section 4).
  One reused pid is enough, since every probe is about one pid.
* Four lock calls: owner, two reclaimers of the same dead owner, and one that publishes
  behind the first reclaimer.
* Two confirms: the queue of one row has a predecessor and a successor. Two invoices are
  the least that can disagree. One foreign write can come before or after any read.
* Three bookings: two in one process, one in another, so a holder, a waiter and one that
  comes after a death. Two faults allow an ambiguous POST followed by a failed rescan or
  an ambiguous confirmation.
* `runtime`: `MaxActive = 1` makes the full store refuse and `MaxTombs = 1` makes trimming meet a pinned
  tombstone; several plans that expire together are therefore not exercised, although
  `Buried` models them. One cached datum per connection; time is not counted, the oldest
  expires first, as all plans have one lifetime. A tool that only reads is a dry run
  whose plan nobody uses.
* `camt`: two entries that share a key are the least that make the counting of identical
  legs matter; two calls in two processes with one lock make every order of recheck and
  create happen, one foreign row or journal can come between any two reads, and two
  faults allow an unknown create followed by a failed read or a busy lock.
* `wise`: a card row, and an own transfer with a fee leg, have every kind of command,
  every check before a write and both dependencies; one fault is a lost answer, and the read that
  settles it may fail with it; both calls are in one process, since the gate is only promised there.
* `sale`: three creates are one that is reported unknown, one that comes after it and one
  that waits; two customers let two markers of one event be released, and capacity 2 is
  reached by a marker and a reservation.
* `purchase`: two intakes are all a scan compares; `EveryPair` leaves out the pairs of which
  neither recognizes the other, and the order of the two, since either may come first. One
  step of the accountant comes before or after any read; two faults allow a lost answer
  followed by a failed invalidation, or one failure of each intake. Three intakes, or two
  steps of the accountant, do not fit the time of a run.
* `reconcile`: two steps of the accountant are an invalidation and a wrong registration in its
  place, the least that makes the postings of the registration matter; two calls, each
  the foreign writer of the other.
* Deadlock checking is off: all calls end, and then nothing is left to do.

### Fairness

Weak fairness on the steps of each call: Node's event loop runs every continuation that is ready,
and every request is answered or aborted after 60 s (`http-client.ts:365`), which makes the
callback under a lock finite. A dead process has no steps, so fairness asks nothing
of it. In `OwnedFileLock` deadlines are fair as well when they are finite (`MayExpire`);
`lockReclaim` takes them away so that `EveryCallEnds` can only hold by reclaiming. `CamtImport`
adds the 30 s the code waits for a row lock (`LockBusy`), `WiseImport`, `SaleInvoiceCreate` and
`PurchaseInvoiceIntake` the queue that passes to the next call when one ends; in the last the
service carries out, refuses or loses every request. No
fairness is assumed of the accountant, of deaths, or of writes given up on. In
`BookingGuard` the service is fair to a request that is still on its way to it (it is
carried out or refused), unless the network loses it. `ServerRuntime` and `BankReconciliation`
are checked for safety only and state no fairness.

## 4. Disagreements between code and comments

Two are runs that must end in a violation, quoted in `PROJECT.json` under `findings`.

1. `receipts/classification-operations.test.ts:342` and `CHANGELOG.md:233` have a draft that
   changes after its creation held. `receipts/classification-operations.ts:1562` reads it through
   the process cache, which still has the copy of the creation, and registers it
   (`purchaseStaleDraft`). The test replaces `get` by a mock that has no cache.
2. `README.md:220` of the sources says a failed receipt leaves no stray draft.
   `api/purchase-invoices.api.ts:645` returns the promise of its last read without awaiting it in the `try`
   that invalidates: a failed read leaves the draft, and its id is not reported
   (`purchaseStrayDraft`). A second way leads there: the rollback of a receipt
   (`tools/receipt-inbox-booking.ts:664`) after a registration whose answer was lost makes the
   registered invoice a draft again.

Others were met while modelling and have no run of their own:

* `booking-guard.ts:37` promises one live journal per document number; `createJournalOnce` (296)
  takes its lock per API key, while the company-wide locks (158-161) are per company, so two
  servers with different keys of one company book the same key.
* `camt/executor.ts:618-619` says two API keys of one company cannot both pass a row's
  duplicate recheck. An entry without a bank reference has no key to recheck (746).
* `CHANGELOG.md:237` says a released marker keeps later scans mandatory across the
  customer's aliases; `sales/invoice-operations.ts:341-343` scans for the client of the first
  released marker only.
* `documents/reading-operations.ts:1408-1413` adds a marker for a create without an id, but
  `createAndSetTotals` throws a plain error then (586), which is not taken for an ambiguous
  create (1398): no marker is added.
* `documents/purchase-invoice-lock.ts` compares numbers, and the classification numbers its invoices
  `AUTO-TX-...` (`receipts/classification-operations.ts:1463`): of the other ways only a reading, which
  compares amount and date as well, recognizes an invoice booked from its bank row.
* `banking/transaction-material-snapshot.ts:201-212` calls a drift error a refusal "BEFORE
  register", with `register_attempted = false` and "changed before registration" in its text. Line 415
  of `api/transactions.api.ts` throws it after a register call without an answer whose row still
  read PROJECT: when the request arrives between that read and the one ahead of the rollback, the
  row differs because it is registered, and this is what the error reports as drift. It may
  also arrive after the error. In `TransactionConfirm` the claim would be that no journal is by a
  call whose outcome is "drift"; TLC refutes it on the instance of `confirm` in 15 steps, and
  `FailureIsTrue` leaves out exactly this drift (`failure[c] = "unresolved"`).
* `banking/reconciliation/executor.ts:1998` reports `mutation_occurred: false` for a registration
  without an answer whose row still read PROJECT; it may land after the report.
* `wise/executor.ts:1018` and 1127 take the same error for an ordinary one, since `isMutationIndeterminate`
  (`mutation-outcome.ts:107`) matches only what `TransactionsApi.confirm` wraps: the import reports a
  failed confirmation, "was created but left in PROJECT status" (1141), and goes on, while the
  register request may still be carried out. `ReportIsTrue` of `WiseImport` excepts exactly that
  registration.
* `file-lock.ts:91-92` says a dead guard is cleared so later polls can proceed. A guard's own
  guard is not: three deaths in the right places leave a lock no one can reclaim.
* `api/transactions.api.ts:198` says a client written by a failed confirmation is rolled back.
  The re-read that follows the write (325, 345) fails outside the block that rolls back.
* `api/transactions.api.ts:280-282`: "Only CONFIRMED is refused". The row read again after
  the client write may say CONFIRMED and is registered again.
* `wise/executor.ts:100-102`: the gate is per process, so two servers can import one
  statement at the same time; line 931 reports "main transaction was not created" also for
  one that was created and answered without an id.
* `sales/invoice-operations.ts:602-606`: "needs_input" does not mean no client was stored when the
  POST of the client was answered without an id.

## 5. Proofs

TLAPS checks the following for every value of the constants, under the assumptions the modules
name: `LockAssumption`, `StoreAssumption`, `BookingAssumption`, `IntakeAssumption` and `CamtAssumption` (types of
the constant functions, and that `None`, `User` and the like are no calls), `RuntimeAssumption` (a call
is a dry run, an execute or a switch; no call is both a dry run and an execute),
`ConfirmAssumption` (the names of the two kinds of row change are no invoices, "no client" is no
client) and `SaleAssumption` (the customer a call names by id is a client at the start; the owner's
marker, which waits in the same lock as the calls, is no call; the capacity is positive). They say that
names for different things differ and which inputs a model covers. No proof uses the bounds on
deaths, faults and foreign steps: the theorems hold for any value of them.
(`ReconciliationAssumption` only says that its bounds are numbers, and no proof cites it.) TLC evaluates the assumptions in every run.

The invariants were checked by TLC on the instances of section 3 before they were proved. Each is
a conjunction of named parts, one per thing a call relies on; below is why the property
alone does not carry over a step.

`Locks_proofs`, first part, of the owned file lock:

* `TypeCorrect`: `Spec => []TypeOK`.
* `LockInvariant`: `Spec => []LockInv`. `MutualExclusion` alone is not inductive: that a call
  holds says nothing of the file that keeps others out. `Ownership` adds that a holder's
  token is in the lock file, that a reclaimer's token is in the guard it works under,
  that what it is about to remove is still the token it saw and that token's process is
  down, and that a dead process has no running calls. With it removal cannot hit a live
  owner: only the guard's owner removes, and publishing needs an empty file.
* `LockMutualExclusion` and `LiveOwnersKeepTheirFiles` follow from it, the second as an action
  property.
* `QueueIsFifo`: `Spec => []InProcessFifo`, by `QueueInv`. A waiter knows its predecessor's tail, not
  who stands before it, so the order needs what a resolved tail means: the call ended and
  so did everyone ahead of it (`TailInv`), for which a call must stand in one place only (`LineInv`).
  This is what a tail that resolves with its own call alone would break.
* `LockRefinement`: `Spec => Abstract!Spec`; a successful publish is `Enter`, the death of a
  process is `Finish` of all its calls, the rest stutters or finishes one call.

`Locks_proofs`, second part, of the creates of sale invoices, for any number of calls, customers,
events and restarts and any capacity:

* `SaleInvariantHolds`: the inductive invariant `SaleInvariant`. Of each call, its requests and what they
  stored, `SaleInv(c)` says which stages and outcomes go with which: a request on its way is of
  the stage its call is at, of a call whose outcome leaves it open, or of a server that is gone
  (`Requests`), and so are the invoice and the customer it may have stored (`ItsInvoice`, `ItsClient`).
  `OneAtATime` is the lock: past the check there is only the call at its head, without which two
  calls could create one customer and one of them take it from the other. `OwnClient` says that it is
  not: a customer its creator may still deactivate is on nobody else's invoice. `GuardInv` ties the
  markers to the outcomes and `ChecksCleared` keeps, for every call past its check, why the creates
  that had ended unknown did not hold it.
* `UnknownIsRemembered`: `SaleSpec => []GuardRemembers`, by `GuardInv`. The sum of the three lists stays within the
  capacity since a reservation becomes the marker and the marker the released one.
* `UnknownIsNotRepeated`: `SaleSpec => []NoSecondInvoice`, by `ChecksCleared`. A pending marker that matches holds
  the call, so an unknown create with the client of the new invoice was released, and the
  first released one that matches was scanned for: either it has the client and nothing was
  listed, or another client stands before it.
* `ReportsAreTrue`: `SaleSpec => []ReportIsTrue`, by `ItsInvoice`, `ItsClient` and `OwnClient`.

The two models of this module share no name, so that both can be extended; this is why those of
`SaleInvoiceCreate` say what they are of (`SaleInit`, `SaleNext`, `saleVars`). The proofs of `PlanExecution` and
`WiseImport` share a module as well.

`ServerRuntime_proofs`:

* `RuntimeInvariant`: the inductive invariant `RuntimeInv`, that `inFlight` is exactly the
  running calls that may write, that no snapshot is of a later generation than the active
  one, and that a snapshot of the active generation is the active connection. The
  last part is needed because the code's guard compares generations only.
* `MutationsKeepConnection`: `Spec => []MutationKeepsItsConnection`. A switch finds no other
  mutation in flight, hence none running.
* `RequestsKeepConnection`: `Spec => NoRequestAfterSwitch`. Only `SendRequest` gets a call to the
  network, and only with a current generation, which by the invariant is the connection.
* `CacheIsCurrent`: `Spec => []CacheShowsSettledWrites`. `CacheInv` adds what is true of a value on its way
  back: if the generation it was asked under is still the cache's, then no write settled
  since on its connection, so the value is not older than the last one that did.
* `PlansRunOnce`: `Spec => []PlanRunsOnceWhereReviewed`. `HandleInv` adds that a handle is in the store
  once, with the connection its dry run saw, and that a handle an execute spent is in the
  store no more. It rests on lemmas about what deleting an entry and expiry leave of a list.
* `ResultsKeepTheirProofs`: `Spec => []ResultKeepsItsProof`. That a result has its proof says nothing of
  how long; `StoreInv` adds that a tombstone is pinned exactly as often as it has live
  results, so that releasing one pin of several frees nothing, that a handle has one
  tombstone, and that a handle of a tombstone is of a dry run that is over and never an
  active plan, so that neither an issue nor an expiry replaces a proof. `Trim` and
  `Buried` are loops of the code and recursive functions of the model; the lemmas
  `TrimIsRecursive`, `TrimKeeps`, `BuriedIsRecursive` and `BuriedKeeps` say what they return for every list.
  Their induction is over the set of numbers the loop has reached (`AllReached`, from the
  least number principle), which needs no operator as parameter.

`WiseImport_proofs`, first part, of the loop of `PlanExecution`:

* `PlanInvariant`: the inductive invariant `PlanInv`. What the report promises at the end is not
  inductive: it needs to be known while the loop runs that the touched positions are
  those of completed commands, the one at hand while it mutates, and the last one if
  its outcome is unknown.
* `ReportsAreTrue`, `RunsStop`: `PlanSpec => []ReportTellsTruth` and `PlanSpec => []StopsAtTheFirst`, for any
  number of commands.

`WiseImport_proofs`, second part, of the import, for any number of calls, processes and statement rows:

* `WiseInvariant`: the inductive invariant `WiseInv`. `LegOncePerProcess` sees rows and not the create
  that is on its way; `FreeInv` says of a call that creates, or is past its identity check, that
  no row of the leg was made in time in its process, and `GateInv`, that a gate holds each
  execute once and only the one in front loops, keeps it so. The report needs to be followed
  from the first command on: `PartTold` has what each line says of rows and requests while the
  loop still runs, `AtHand` what is known of the command at hand at each step, `Ahead` that nothing
  behind it was touched, `MailInv` that the request on its way is the one the call waits for.
  A registration without an answer is told by what the read after it showed: `Settled` stays true,
  and a request that strayed from its call is no longer in `mail`, so it can only register as
  "Late", which no line of a report is about.
  `PlanShape` has no command twice in a plan and a main leg ahead of what depends on it, which is
  proved of the projection's order and makes "dependency" a true reason.
* `LegIsOncePerProcess`, `ReportsTheTruth`: `Spec => []P` for `LegOncePerProcess` and `ReportIsTrue`.

`BookingGuard_proofs`:

* `BookingInvariant`: the inductive invariant `BookingInv`. `OneLiveJournal` alone is not
  inductive: that there is one journal now says nothing of a POST on its way. `CallInv` adds
  what a call knows at each step, in the first place that a scan under the lock saw every
  live journal that calls of its connection had posted in time, and that between a clean
  scan and the answer there is none but its own; `MailInv` that a create on its way is the
  only one of its call and that nothing it saw is live; `Exclusive` that one call per
  connection is inside the lock, so that what a scan saw stays so; `LedgerInv` has the two
  promises themselves.
* `BookingTypeCorrect`, `BookedOnce`, `NeverBookedOver`, `OutcomesAreTrue`: `Spec => []P` for `TypeOK`,
  `OneLiveJournal`, `NothingBookedOver` and `OutcomeIsTrue`.
* `BookingUsesLock`: `Spec => UsesLock`, that the calls of one connection move through the lock
  as `AbstractLock` has it. With `LockRefinement` this composes the two modules: what the
  booking guard assumes of the lock is what the file protocol does.

`TransactionConfirm_proofs`, for any number of invoices, clients, confirms and processes:

* `ConfirmInvariant`: the inductive invariant `ConfirmInv`. The properties speak of journals; what
  makes them true is known long before one is written. `LookInv` says at each step what the
  confirm has seen of row and invoices that is still so, or is in `stale`: of a plain confirm
  the invoices read so far (`got`, `todo`), of a reviewed one that they agree with `approved`. `GateInv`
  has only the head of a process's queue past the gate, `BookInv` says at which steps a register
  call may be out, `WriterInv` whose client is on the row and which writes on their way could still
  put one there, which is where the rollback and a late answer meet. That a failure ahead of the
  register call, or behind a refused one, is final (`RejectionIsFinal`) is carried through the
  rollback by what `failure` remembers.
* `ReceiptsUnderInvoiceClient`, `RegistersOnce`, `BooksWhatWasApproved`, `FailuresAreTrue`: `Spec => []P` for
  `ReceiptUnderInvoiceClient`, `NoSecondRegistration`, `ReviewedBooksWhatWasApproved` and `FailureIsTrue`.
* `RollbacksSpareForeignWrites`: `Spec => RollbackSparesForeignWrite`, an action property.

`PurchaseInvoiceIntake_proofs`, for any number of intakes on any paths:

* `IntakeInvariant`: the inductive invariant `IntakeInv`. `IntakeOnce` alone does not see the create
  that is on its way. `GateInv` has one intake at a time create, `ScanInv` keeps what its scan ruled
  out until the create is answered, and for a reading also that no other reading has posted;
  `CreateInv`, `FillInv` and `RegisterInv` say which request of a call may still be carried out and what
  the draft has by then, also after the call gave up; `OnceInv`, `RegistrarInv` and `PostInv` state
  the promises of every invoice, late ones included.
* `BookedOnce`, `RegistersWhatWasReviewed`, `ReportsAreTrue`: `Spec => []P` for `IntakeOnce`, `RegisteredAsReviewed`
  and `OutcomeIsTrue`.

`CamtImport_proofs`, for any statement and any number of executes:

* `CamtInvariant`: the inductive invariant `CamtInv`. `LockInv` says that under the row lock, after the
  recheck, there are fewer rows of the entry than the statement has legs of it, until the
  row is written: the count in `ImportedOnce` stays in bounds because of that room. `PlanInv`, `LoopInv` and
  `WriteInv` say that the rows of a call are those its loop went past, or the one it is at.
* `EntriesImportedOnce`, `ImportReportsAreTrue`: `Spec => []P` for `ImportedOnce` and `ReportIsTrue`.
* `ExecutesRunPlans`: `Spec => ImplementsPlanRun`, the refinement. Under `PlanRun(c)` initial states map
  to initial states and every step of the import to a step of the loop of call `c` or to
  none. That the mapping sends the rows of the ledger to the loop's `touched` is why it needs
  `WriteInv`.

`BankReconciliation_proofs`, for any number of calls, faults and steps of the accountant:

* `BankInvariant`: the inductive invariant `BankInv`. Nothing locks a reconciliation, so all a call has is
  what it saw: `KnowInv` says at each step which of it is still so unless it is in `stale`
  (the mirror pending, the source pending, no journal that books the transfer, the
  registration that does). `PlanInv` has the shapes of a plan and which step belongs to which
  command, `MailInv` which request may still be carried out and that a write on its way
  belongs to the command at hand or to the one reported unknown, `WroteInv` and `OutcomeInv` what the
  report is made of.
* `MovementsAreKept`, `TransfersBookedOnce`: `Spec => MovementIsKept` and `Spec => NotBookedTwice`, action properties.
* `ReconciliationReportsAreTrue`: `Spec => []ReportIsTrue`.

`PlanRun(c)` is an INSTANCE with a parameter, and TLAPS can expand its definitions but not cite the
theorems of `PlanExecution` through it. `CamtInv` and `BankInv` therefore state the loop's invariant
again in their own variables.

Only model-checked, and why:

* `EveryCallEnds`, `EveryBookingEnds`, `EveryConfirmSettles`, `EveryIntakeEnds`, `EveryExecuteEnds` and
  `EveryCreateEnds`: liveness under fairness, and `ENABLED`, are out of the prover's reach.

## 6. Limits

* A write that lands after its caller gave up is out of what any check in the code can see;
  properties except it by name (`late`; in `WiseImport` also `strayed`, and "Late").
* Two servers in different pid namespaces that share a lock directory are not modelled: the
  probe is taken to see all processes.
* The synchronous lock has no module of its own; it is the same protocol without the queue.
* The page walk of `listAll` is modelled by what it may show, not page by page. A row that
  moves to an earlier page during the walk is seen on none of them
  (`api/base-resource.ts:363`); the models take a walk to show what was there all the time.
* A tool call that never ends blocks every `switch_connection` (`connection-safety.ts:35`): in
  `ServerRuntime` a request ends by its deadline and nothing else waits.
* In `ServerRuntime`: setup mode, resource handlers, the separate reference-data cache and
  the audit entry of an interrupted call are left out.
* The company-wide locks that callers nest around `createJournalOnce` (dividends) are left out.
* In `PurchaseInvoiceIntake`: one process, no restart (the markers live in memory and would be
  lost), invoices that have a number, no `allow_duplicate_invoice_number` (the owner's
  explicit second booking), no confirmation that corrects the totals, and no confirmation
  of a draft without a handle, which promises no comparison. Journals that hold a receipt
  back are part of the data of the scan.
* Amounts are data everywhere: that a sum falls on a cent is not modelled.

## 7. Not modelled, and what is left

Every protocol of the server that has state of its own and more than one actor has a
module now, except these, which are left to later work:

* lane B of the booking guard with the inter-account matcher, and the nesting of the
  company-wide lock over the key lock;
* the rules bundle lock and the synchronous lock of the audit log as further
  implementations of `AbstractLock` (the first gives up reclaiming its guard, so only safety
  can be shown of it);
* the exact-match confirmation of the reconciliation, a caller of `TransactionsApi.confirm`
  under a plan;
* setup mode, credential plans and the other handle stores, which repeat the plan store.

Not to be modelled: parsers, extraction, matching scores, projections of text, totals,
tax and report arithmetic, prompts and presentation. They are functions of their input,
most of them on floating point amounts and free text, and by far the largest part of the
sources (`receipt-extraction.ts`, `lightyear-investments.ts`, `accounting-inbox.ts`, `annual-report.ts`,
`wise/projection.ts`). TLA+ has nothing to say of them that their unit tests do not say better. This
is why the modules cover a small share of the lines.

Every invariant and action property the passing runs check is a theorem.

## 8. Running

    tlc -workers 2 -config MCLockReclaim.cfg MCOwnedFileLock
    tlapm Locks_proofs.tla
    tlapm ServerRuntime_proofs.tla
    tlapm BookingGuard_proofs.tla
    tlapm TransactionConfirm_proofs.tla
    tlapm PurchaseInvoiceIntake_proofs.tla
    tlapm CamtImport_proofs.tla
    tlapm BankReconciliation_proofs.tla
    tlapm WiseImport_proofs.tla

Each `.cfg` names the properties of one run; `PROJECT.json` lists the runs, the mutants
and, under `map`, the source lines every definition stands for.
