# Verification of the nabarun backend

TLA+ models, TLC runs and TLAPS proofs for the NestJS backend in this repository
(`apps/api` and the `packages/nestjs-shared-*` libraries). The models follow the code, statement
by statement where the code awaits something, because that is where two requests, two workers or a
crash can get in between. `PROJECT.json` maps every definition to the lines it stands for and lists
the components, runs, hazards, findings and theorems.

## 1. The system

One Node process (`apps/api`) serves HTTP and runs the queue workers; several replicas of it may
run against one Postgres (Prisma) and one Redis (BullMQ, caches). Within a process, code between
two `await`s is atomic. Between processes only the database and Redis are shared.

| component | state it keeps | operations | what is hard, and what makes it correct |
| --- | --- | --- | --- |
| workflow orchestrator (`nestjs-shared-workflow`) | `workflow_instances` row with a version | start, complete a user task, claim, delegate, cancel, complete a service task, force-skip | no transaction: each repository call commits by itself, the version is compared once at the end. No write is lost, an ended instance stays ended, a halted one has work to wait for |
| state machine runner | none of its own | walks the definition from a completed element to the next halt | side effects (inbox row, queue job, outbox row) before the instance row is written |
| tokens, parallel gateways | `workflow_tokens` rows | fork, join, consume, cancel | branches run one after the other; no branch is forgotten, an instance completes only when none is left |
| inbox | `workflow_task_inbox`, one row per instance and element | create, claim, complete, delegate | racing users; one completion for each offer |
| idempotency keys | `workflow_idempotency_keys` with a 24 h expiry | find, claim, complete | a key claimed by a request that failed, three statements in one claim, a claim that comes after the answer; an answered key starts nothing again |
| service task worker | BullMQ job | take, execute, complete | retries, stalled jobs, a second worker beside the first; the handler is exclusive |
| SLA timer, escalation | delayed jobs | fire, check, escalate | a completion between check and escalation |
| outbox, event log | `workflow_outbox`, `workflow_event_log` | append, dispatch, detect stuck | written apart from what they report; numbering by max + 1 |
| queue (`nestjs-shared-queue`) | BullMQ jobs, a job log in Redis | add, process, retry, fail | attempts, stalls and retries by hand, workers that go on without their lock, log updates nobody waits for; a side effect is repeated only within the budget |
| locking (`nestjs-shared-persistence`) | advisory locks of a transaction | withLocks | canonical order against deadlock; the lock lives at most 60 s, the guarded work may live longer |
| finance | accounts with their transactions, donations, expenses, earnings | credit, debit, transfer, reverse, pay, settle | read-modify-write of whole aggregates, several saves per command, reads outside the lock; money is neither made nor lost, what says paid was paid, and once |
| token vault | OAuth states, codes, tokens | initiate, complete, refresh, revoke | concurrent callbacks and refreshes |
| document store | document rows and blobs | upload, rename, delete | row and file written apart, a limit counted before the upload and after the insert; the limit holds, a listed document has its file |
| json store | documents, a read-through cache | read, write, evict | a stale value stored after the eviction |
| correspondence | notifications, a row per recipient, subscriptions | dispatch mail, in-app, push; read, archive, push again | redeliveries repeat mail and push, recipients write whole rows meanwhile; what completed was delivered, and not without bound |
| cron | none | trigger | overlapping and missed look-back windows |
| custom forms, comments, users, roles, projects, meetings, reports | single rows | status changes | transition tables; user rows against the identity provider |
| public site, links, document generator, observability, core, seeds | none, or configuration | | no state of their own |

The workflow engine is where most of the interaction is. An HTTP request or a worker calls
`WorkflowOrchestratorService`, which reads the inbox row, the key and the instance, lets
`StateMachineRunner` walk the definition, and writes the instance row last. The runner writes inbox
rows, enqueues service jobs and appends outbox rows on its way. A service job calls back into
`completeServiceTask`. A reader who knows only the happy path will not see that each of those calls
commits alone.

## 2. Modules

### WorkflowOrchestrator

One instance and every request that races on it. State:

| variable | in the code |
| --- | --- |
| `instance` | the `workflow_instances` row: status, `currentElementId`, version, and which user tasks' form data its context holds |
| `inbox` | `workflow_task_inbox` rows, by element (their unique key within an instance) |
| `keys` | `workflow_idempotency_keys`: free, claimed (no result yet), completed |
| `jobs` | the BullMQ `ProcessServiceTaskJob`s, by service task (their dedupe id): state, attempts, stalls, the worker that holds the lock |
| `timers` | the SLA timer and the escalation job of a user task |
| `outbox` | `workflow_outbox` rows that announce something |
| `pc, req, at, task, base, result` | a request's position between two awaits and its local variables: the request, the element the runner is at, the inbox row and the instance row as read, the row as it will be written |
| `completions`, `reopenings` | history: what happened to an inbox row, for one property |
| `faults` | history: faults used of the bound |

Actions are repository calls. `completeUserTask`, for instance, is
`RequestComplete` (reads the task), `FindByKey`, `ClaimKey`, `LoadForTask` (authorization, status,
instance), `CompleteInbox`, then the runner's `PassGateway` / `EnterUserTask` + `ScheduleSla` +
`AnnounceTask` / `EnterServiceTask` / `EnterEndEvent` / `DeadEnd`, then `Persist` (`updateWithVersion`) and
`CompleteKey`. The other requests share the later ones. `Reject` lets any await throw, `Crash` kills
a request between two calls, `Stall` hands the job of a dead - or, as a fault, of a slow - worker
back to the queue. `SELECT .. FOR UPDATE` appears as a plain read: outside a transaction its lock is
gone when the statement returns.

`MayAct` is `canUserActOnTask`. Callers of the HTTP controller hold `update:task` and may act on
every task (`Candidates`); callers of the facade may come without permissions and must be the
assignee.

Abstractions, each weaker than the code or without effect on the properties: gateway conditions are
a free choice among the outgoing flows (that none matches, `WorkflowNoOutgoingFlowError`, is a
`Reject`); the form values a definition also saves through `formDataPort.saveFormData` before the
inbox row are left out, that call failing is a `Reject`; the context is the set of tasks whose form data was merged;
outbox and timers keep what was said, not payloads; the event log appears only as an append that may
be rejected; a request that finds nothing to do before its first write is not a step.

`completeUserTask` and `completeServiceTask` go through the runner's `completeElement`,
`forceSkipElement` through `advanceFrom`. Both end in the same walk here, since without tokens they
differ in nothing else.

### WorkflowOrchestratorProofs

Extends the module and TLAPS, see section 5.

### MCWorkflowOrchestrator

The instance for TLC: `DONATION_REQUEST` in small (a service task, a user task, an exclusive gateway
with a loop back and two ways on). Each configuration takes the elements and operations its question
needs.

### FinanceLedger

The accounts and every command that races on them: `CreateTransactionCommand` (credit, debit,
transfer), `ReverseTransactionCommand`, `UpdateAccountCommand`, and `LockingService.withLocks` under
the first two. They are issued by settling an expense, by updating a donation or an earning, and by
the account controller's own transfer; only the correction of a donation reverses, and only the
transaction that credited it (`Refs`).

| variable | in the code |
| --- | --- |
| `account` | a `finance_accounts` row and the `finance_transactions` rows of the account: status, transactions, the ids of those in status REVERSED, and the balance, which the aggregate's getter sums over all of them |
| `holder` | who holds the advisory lock of an account |
| `pc`, `req` | the await a request is at, and its command |
| `want` | the lock keys it still has to acquire, in sorted order |
| `todo` | the transactions a reversal read before it locked anything |
| `source`, `target` | the aggregates in its memory (`target`: the payee's of a transfer), each with the one transaction it appended |
| `lapsed` | its lock transaction has reached its timeout; the guarded function has not noticed |
| `result` | what the command answered |
| `serial` | fresh transaction ids and references |
| `unguarded` | history: whether a command that had lost its lock, or an account update, wrote the account |
| `faults` | history: faults used of the bound |

| action | code |
| --- | --- |
| `BeginTransaction`, `AcquireLock`, `LoadAccount` / `LoadPayer`, `LoadPayee`, `SaveAccount`, `SavePayee`, `Commit` | `create-transaction.handler.ts`, inside `withLocks` |
| `BeginReverse`, `FindTransactions`, `AcquireLock`, `LoadReversed`, `SaveAccount`, `Commit` | `reverse-transaction.handler.ts`: the read of its transactions comes before the locks, then one load and one save for each |
| `BeginUpdate`, `SaveAccount`, `Commit` | `update-account.handler.ts`, no lock |
| `Fail` | any query rejects, or the process dies; the lock transaction rolls back, what was saved on the other connection stays |
| `Lapse` | the 60 s of the lock transaction end while its function works on |
| `Reply` | the answer reaches the caller |

`Written` is what `accountRepository.update` does to the rows: the account's columns and an upsert
for each transaction of the aggregate. A transaction the aggregate has never read survives; the
status of one it has read is overwritten. That asymmetry is why a balance is safe from a concurrent
account update (`NoOverdraft` holds with them), and a status is not: an update that read before a
reversal writes SUCCESS back over REVERSED.

Abstractions: accounts exist from the start; ids and references are fresh; amounts are whole
numbers; the ownership check of an update reads a field nobody changes; lock keys of two accounts do
not hash to the same number; the raw query of the reversal finds its table. The first and the last
four are listed under hazards or in section 6.

### FinanceLedgerProofs, MCFinanceLedger

The proofs, and the instance: two accounts, the first with an opening balance of 2, the second empty.

### LedgerBook

What the ledger promises those who send it commands: a credit, or a debit the account has the funds
for, is posted in one step; a posted transaction is reversed in one step, once, by its opposite. The
promise is given for the accounts in `kept`, those that were only ever written under their lock. A
write without it (`Spoil`) withdraws the promise for that account and leaves this much, that no
transaction disappears.

`FinanceLedger` implements it (`ImplementsBook == Book!Spec`): `book`, `balance` and `reversed` are
the rows of the accounts, `kept` the accounts nobody wrote unguarded. All the reads, locks, loads and
failures of racing commands are stutters; each save is one step. `FinancePayments` uses it as its
ledger.

### FinancePayments

Donations, expenses and earnings over `LedgerBook`, with every account in `kept`. A handler reads
the row, checks and changes the aggregate in memory, sends a transaction command and waits for it,
and writes the whole row. Nothing locks the row.

| variable | in the code |
| --- | --- |
| `book`, `balance`, `reversed`, `kept` | the ledger |
| `row` | `finance_donations`, `finance_expenses`, `finance_earnings`: status, amount, transaction |
| `work` | the aggregates a request has in memory, changed and not yet saved |
| `account`, `pc` | the account its command names, the await it is at |
| `tangled` | history: rows two requests had in memory at once, or one had when it failed |

`DonationFrom`, `ExpenseFrom` and `EarningFrom` are the status checks of the aggregates' methods.
They are not `Donation.nextStatus()`, which only tells a client what to offer: it says nothing
follows CANCELLED, while `markAsFailed` and `markAsPayLater` accept a cancelled donation.

| action | code |
| --- | --- |
| `FindOverlapping`, `Record` | the creating commands; a donation is checked for an overlapping one and inserted after that |
| `ReadRow` | `findById` and the aggregate's method, for update, payment, finalize, settle |
| `CheckFunds`, `Pay`, `UndoPayment` | what goes to the account and the command bus before the row is saved |
| `ReadRows` | the pending job and the handler of a deleted user: all their donations, then one save for each |
| `SaveRow` | `repository.update`, all columns |
| `Fail` | an await rejects or the process dies |

### WorkflowStart

`startWorkflow` under an idempotency key, for any number of calls, keys and instances. `FindByKey`
replays a result, `ReadClaim`, `DeleteExpired` and `InsertClaim` are the statements of one claim with
what Postgres does between them (the delete holds its row's lock until the commit, an insert waits
for it, a unique violation aborts the transaction), `CreateInstance` is everything up to the first
halt, `CompleteKey` records the instance. `Expire` is the 24 h of `idempotencyTtlMs`, with the one
assumption on time in this project: a key does not expire while calls are running that ran when its
row was last written.

`LiveAnswerReplayed` is about calls that begin while the answer of their key is live. What a call gets
that begins after the expiry is left out of it on purpose: the old instance again, because only the
claim looks at the expiry and a call whose key has a result does not come to it. The runbook promises
the opposite (section 3).

### WorkflowTokens

`StateMachineRunner` with its call stack, for one instance: `runToHalt`, `followFlow`,
`handleParallelFork` and `enterSubProcess` call each other recursively, and what each returns, and on
which copy of the instance, decides what happens to the branches. `stack` holds the calls that wait,
`res` what the last one returned, `tokens` the rows of `workflow_tokens`. Every token statement is a
step, so two requests and a failure come between any two of them.

| action | code |
| --- | --- |
| `Start`, `ReadTask`, `CompleteInbox`, `RunJob`, `Cancel`, `CancelTokens`, `Persist` | `workflow-orchestrator.service.ts`, around the walk |
| `Enter` | `enterElement` and what `runToHalt` makes of it |
| `Follow`, `StayAtTask`, `NoFlow` | `advanceFrom` and the router: along one flow, a task without one, `WorkflowNoOutgoingFlowError` |
| `Fork`, `Collect` | `handleParallelFork`, also for inclusive gateways: its tokens and first branch; a branch's result and the next branch |
| `MarkWaiting`, `CheckJoin` | `handleParallelJoin` |
| `Consume`, `CheckEnd`, `Terminate` | `handleEndEvent` |
| `ReturnHalt`, `LeaveAgain`, `GoOn` | the loop of `followFlow`: return a halt, leave a fork once more, go on |
| `LeaveEmbedded` | `enterSubProcess` after its inner walk |
| `Fail` | an await rejects or the process dies |

A definition is the function `Kind` and the sequences `Flows`; `TokensAssumption` is what the schema
and the separate definition of an embedded sub-process give: flows lead to elements and stay inside
their definition, and a start event begins each. It asks nothing about the shape of the graph: cycles,
forks without joins, joins without forks and dead ends are definitions too.

The model shows how the runner behaves where the guide is silent or says otherwise:

- a join never finds the tokens it waits for (`JoinPasses`, a finding);
- completing a user or service task neither moves nor consumes its token, so an instance that was
  forked in front of a task never completes;
- `terminateAll` does not stop the branches that come after it, and its Completed copy of the row is
  dropped when another branch halted (developer-guide.md:192: "`terminateAll: true` ends all tokens");
- a fork reached through `followFlow` all of whose branches end runs a second time; a fork directly
  behind a fork leaves its outer token active for good;
- `markWaiting` writes the element the token was born at, not the one it is at;
- the end event of an embedded sub-process announces `workflow.completed` of its parent, and a task
  inside it is completed in the inbox and then not found; a sub-process by definition id waits for
  good;
- a cancel that fails between its tokens and its status leaves a running instance without tokens.

`NothingLeft` and `BranchesAccounted` state what does hold around all of this.

`CheckJoin` takes the branch of a complete join - count, read, consume one token after the other - in
one step. No walk reaches that branch (`JoinTheorem`), so its interleavings would show nothing.

### JobQueue, JobLog

`JobQueue` is BullMQ as the worker is configured for it: attempts with backoff (only time), two kinds
of failure, stalled jobs handed on, a worker that lost its lock and goes on running, a process that
dies, retries by hand. BullMQ is not in the repository; what is modelled is what the worker's
configuration and event handlers in `queue-processor-registry.service.ts` rely on. `JobLog` and
`CorrespondenceDispatch` extend it. `WorkflowOrchestrator` keeps its own view of the queue, with the
job's data, its dedupe id and timers.

`JobLog` is the log entry in Redis: `CreateLog` is what the dispatch starts and does not wait for,
`AskLog`, `FindLog` and `UpdateLog` the read and the write of an update nobody waits for. A process
has one connection, so its commands are answered in order. The log can stay behind for good - a
creation that comes late writes Waiting over Completed, an update dies with its process, a retry by
hand is not logged, every failed attempt is logged as failed - but what it says happened did happen
(`LogTruthful`).

### CorrespondenceDispatch

One dispatch from the stored notification on: `Store` and `Enqueue` of the orchestrator, the handler
step by step, `Purge` of the retention job, and the recipients' commands (`Load`, `Resend`, `Save`,
`ReadAll`) on the same rows. A crash between `Store` and `Enqueue` leaves a notification that is only
seen in the app. A failed push is marked as sent, so it is not tried again. The handler's comment
that one marked row means a sent batch (correspondence-dispatch.handler.ts:58-61) is not so after a
recipient has pushed his own: the others are then never pushed, which is the exception
`CompletedIsDelivered` has to make. Reading and archiving write the whole row and can erase a mark.

### DocumentStore

Rows and files of the DMS. Uploads for several entities, their two counts, compensation and
rollback, deletes and renames. `todo` is the position in the loop over the mappings. `FailInsert` may
leave the row written although the call rejected. A rename that read before a delete writes
`deletedAt` null and brings the row back without its file ("invisible to users (soft-deleted in
DB)", delete-document.handler.ts:94-95): `revived` keeps those apart. Providers implement no rename
of files, so none is modelled. The comment on the second count calls it a best effort that "does NOT
prevent races under high concurrency" (upload-document.handler.ts:96-97); `LimitKept` shows that it
does, unless the request that has to take its document back fails.

### JobQueueProofs and the other proof modules

`JobQueueProofs` holds the lemmas about the queue, which `CorrespondenceDispatchProofs` extends, and
the proofs about the log beside it. `WorkflowTokensProofs`, `FinancePaymentsProofs`,
`WorkflowStartProofs` and `DocumentStoreProofs` go with their modules. Each `MC` module instantiates
one module.

## 3. Runs

Passing runs:

| run | asks | bounds |
| --- | --- | --- |
| `workflow_race` | `NoLostUpdate`, `AcknowledgedFormKept`, `CompletionAnnounced`, `OneCompletionPerOffer`, `TypeOK`: two requests of two users (start, complete, claim, delegate; `workflow_jobs` has the cancel and the queue) and the SLA timer on one row, with the loop | 1 fault |
| `workflow_jobs` | `HandlerExclusive`, `HaltIsServed`, `NoLostUpdate` (here for a service job that is done before the row which names it is written), `EndedMovedOnlyByServiceOrSkip`, and under fairness `EveryJobSettles`: two workers on a service job against complete (also under a client's key), cancel and force-skip | 1 fault among reject, crash and stall; force-skips start below version 2 |
| `ledger` | `NoOverdraft`, `CreditFollowsDebit`, `ReversedOnce`, `NoWaitCycle`, `TypeOK`, `IInv`, and the refinement `ImplementsBook`: debits, transfers in both directions, reversals and account updates on two accounts | 2 requests at a time while fewer than 5 ids are given out; amounts 1 and 2; 1 fault (failure or expired lock) |
| `payments` | `PaidIsMoved`, `BooksAgree`, `TypeOK`: a donation, an expense and an earning | 2 requests at a time; money moves twice; the earning has two amounts; 1 failure |
| `start` | `OneStarter`, `LiveAnswerReplayed`, `TypeOK`, and under fairness `EveryKeyAnswered` | 3 calls, 1 key, 2 failures; any number of expiries |
| `tokens` | `NothingLeft`, `BranchesAccounted`, `ConsumedForGood`, `TypeOK`, and under fairness `EveryWalkEnds`: a definition with every kind of element, forks inside branches included | 2 requests, 2 failures |
| `job_log` | `BudgetKept`, `LogTruthful`, `LogTypeOK` | 1 job, 2 workers, 2 attempts, 1 stall, 1 retry by hand; any number of crashes |
| `correspondence` | `MailsBounded`, `CompletedIsDelivered`, `TypeOK`, and under fairness `EveryDispatchSettles` | 1 dispatch, 2 workers, 2 attempts, 1 stall, 1 retry by hand, 1 recipient, 1 command of his |
| `documents` | `LimitKept`, `ListedHasFile`, `FilesAccounted`, `TypeOK` | 3 documents, limits 1 and 2, 3 requests, 1 failure |

Two concurrent requests are enough for the races most of the code has: every guard it uses compares
one read with one write. A start has three, because a fresh claim taken for an expired one needs the
one who expired it, the one who replaced it and the one who was late; uploads have three, because
two that race for one place can meet a third on another entity. Two workers are the smallest number
with a stalled first holder. Versions are bounded by the graph, except for force-skip, which gets
`MaxSkipVersion`. In `workflow_jobs`, `MaxAttempts = 3` is `queue-module.config.ts` and `MaxStalls =
2` the worker's `maxStalledCount`; the two smaller numbers in `job_log` and `correspondence` keep the
same cases (a last and a not last attempt, a stall within and beyond the limit), and the proofs are
for any.

In the ledger, two requests and two accounts are the smallest instance with a wait cycle, a stale
read and a torn transfer. An opening balance of 2 and amounts of 1 and 2 let a debit pass, fail and
just pass. Five ids let a transfer or two debits and the reversal of the opening credit follow each
other. Credits (`IN`) share their action with debits and are left to the proofs: they add a million
states and no step. In `payments`, two ids are a payment and its reversal, or two payments; paying a
third time after a correction is left to the proof.

`CHECK_DEADLOCK` is off where the system rightly stops: when an instance has ended, a bound on ids,
commands or documents is used up, or every job has its verdict. It is on for `payments`, `start` and
`start_once`, where somebody can always go on. Symmetry on requests is used for safety runs only.
Of the inductive invariants only the ledger's is checked by a run; the others are proved and no run
repeats them.

Runs that find a disagreement between the code and what the repository says of it (one property
each, see `findings` in `PROJECT.json`):

| run | says | does |
| --- | --- | --- |
| `payments_paid_once` | "Can only settle finalized expenses" (expense.aggregate.ts:229), "Donation is already paid" (donation.aggregate.ts:204) | two settlements read the same finalized expense and both debit the account |
| `start_once` | "Pass `idempotencyKey` on start/complete for safe retries" (developer-guide.md:367) | a double click whose second call claims the key right after the first was answered starts two instances |
| `tokens_join` | "`join` waits for all incoming tokens" (workflow-definition.schema.ts:66) | it counts tokens that carry its own id, which no fork ever writes, and waits for good |

The models reach other states that a document or a message of the code excludes and that have no run
of their own:

- a key reused after its expiry ("Wait for TTL expiry (default 24h) before reusing keys with different
  payloads", docs/workflow/runbooks.md:74) starts nothing: `findByKey` (workflow-orchestrator.service.ts:84)
  does not look at the expiry, the caller gets the instance of the first call, and the new payload is
  dropped without a word;
- a cancelled instance ("Terminal cancel", developer-guide.md:168) is moved on by the service job
  that was waiting;
- form values ("merged on task completion", developer-guide.md:212) are lost when anything fails between the inbox row and the instance row;
- a flow back to a user task, the guide's f5 (:234), violates the unique key of the inbox row;
- `attempts: 3` (process-service-task.handler.ts:11): the second and third attempt are refused by
  the key of the first;
- "Cannot close an account with balance" (account.aggregate.ts:209): an account is closed on a
  balance read before a credit was saved; an update of the name can open it again;
- "Can only revert successful transactions" (transaction.entity.ts:165): an account update writes
  SUCCESS back over REVERSED, and the next reversal takes the amount a second time;
- a `workflow.completed` row for an instance whose write was then refused ("Transactional outbox",
  developer-guide.md:508);
- a transfer that fails between its saves has debited the payer only; two debits, the first of which
  outlived its lock transaction, make a negative balance;
- two donations for one donor and period, raised by two calls that both found none;
- the push of a batch, skipped because one row was marked, and a document revived by a rename (both
  above).

## 4. Fairness

| property | assumes | because |
| --- | --- | --- |
| `EveryJobSettles` | `WF` of a request's next call, of taking a waiting job, of `Stall` for the job of a dead worker, of timers | the event loop runs every settled promise; the worker polls as long as it lives and a process that dies is restarted; BullMQ's stalled check runs every `stalledInterval`; delayed jobs become due |
| `EveryDispatchSettles` | `WF` of a worker's next step, and of `Stall` for a job nobody runs any more | the same |
| `EveryWalkEnds` | `WF` of a request's next call | the event loop |
| `EveryKeyAnswered` | `WF` of a call's next step and of `Expire`, `SF` of a client beginning a call for the key | the event loop; time passes; a client who wants an instance asks again, and `SF` because its calls are all taken at times |

No fairness is given to faults, to a stall of a live worker, or to users in `CorrespondenceDispatch`.
`EveryKeyAnswered` and the two about jobs hold with a bounded number of failures (`MaxFaults`) or of
attempts and stalls; crashes of workers in `CorrespondenceDispatch` are unbounded, each costs the job
a stall.

## 5. Proofs

`WorkflowOrchestratorProofs` proves, for every graph, any sets of users, clients, workers and keys,
and any number of faults, what the passing safety runs check on small instances:

| theorem | property |
| --- | --- |
| `TypeTheorem` | `TypeOK` |
| `LockTheorem` | `NoLostUpdate` |
| `FormsTheorem` | `AcknowledgedFormKept` |
| `OfferTheorem` | `OneCompletionPerOffer` |
| `AnnouncedTheorem` | `CompletionAnnounced` |
| `ServedTheorem` | `HaltIsServed` |
| `HandlerTheorem` | `HandlerExclusive` |
| `EndedTheorem` | `EndedMovedOnlyByServiceOrSkip` |
| `InvTheorem` | `IInv`, the inductive invariant |

Assumptions: `GraphAssumption` (element kinds are disjoint, which the `type` literals of the schema's
union give; an end event has no outgoing flow, which the schema does not demand: `handleEndEvent`
follows none, but a force-skip from an end event would), `ActorAssumption`, `KeyAssumption` (the default keys
`complete:instance:element:user`, the service keys and the clients' own keys do not collide) and
`BoundAssumption`. TLC evaluates all four in every run.

None of the properties is inductive alone. The strengthening is about the requests in flight:

- `Snapshot`: what a request read is the row of its version. If the version is still the one it
  read, then the row is still the row it read. This is what makes comparing versions enough, and
  `NoLostUpdate` and `EndedMovedOnlyByServiceOrSkip` follow from it.
- `Outcome`: the row a request is about to write keeps the forms it read, adds those of the task it
  completes, is only Completed if that was announced, and names an element that has its inbox row
  or job.
- `Shape`: which kind of request stands at which step, with which element and key.
- `FormsInRow`, `OfferBalance`, `KeysTaken`, `Unborn`: the same for keys, counts and the time before
  the start.

Invariants about requests are written per request (`ShapeOf(p)`, ...). A frame lemma says that an
action of one request leaves the others' alone; each action then has one lemma about its own
request, and the step theorem puts them together.

`FinanceLedgerProofs` proves, for any number of accounts, requests, ids and faults, any amounts and
opening balances:

| theorem | property |
| --- | --- |
| `TypeTheorem` | `TypeOK` |
| `NoOverdraftTheorem` | `NoOverdraft` |
| `CreditFollowsDebitTheorem` | `CreditFollowsDebit` |
| `ReversedOnceTheorem` | `ReversedOnce` |
| `NoWaitCycleTheorem` | `NoWaitCycle` |
| `InvTheorem` | `IInv`, the inductive invariant |
| `BookTheorem` | `ImplementsBook`, the refinement of `LedgerBook` |

Its one assumption is `LedgerAssumption` (amounts and opening balances are natural numbers,
`Nobody` is not a request). The strengthening:

- `IdsUnique`, `DraftsFresh`: a transaction has one account and one id, and what a request has
  appended in memory collides with no row and with no other request's.
- `CoveredOf`: while a request holds the lock of an account that only commands under their locks or
  account updates have written, the balance it read is the row's, so the funds check made on the
  aggregate still holds of the row at the save. `NoOverdraft` needs exactly this. An account update
  may come in between because it appends nothing.
- `MarksOf`: the same for the REVERSED marks, and only while no account update wrote. `ReversedOnce`
  needs it: the candidate was read before the lock, `MayMark` looks at the row as read under it.
- `ShapeOf`, `ReadOf`: what stands where, and that rows read are still there, as none is deleted.
- `LocksOf`: the locks a waiting request holds lie below those it wants. In a set of waiting
  requests, the one that wants the greatest next key waits for nobody in the set: `NoWaitCycle`. The
  least and the greatest element of a finite set of account numbers come from well-foundedness.

As in the workflow proofs, a frame lemma per group of variables says what an action of one request
leaves of the others' invariants, and each action has a lemma about its own.

`BookTheorem` uses the same invariant: a save by a request whose account is still guarded is the
`Post` or `Reverse` of its draft (`CoveredOf` gives the funds, `MarksOf` that the reversed one was
open, `DraftsFresh` the new id); any other save is a `Spoil`, and the remaining actions leave the
mapped variables alone.

`FinancePaymentsProofs` proves `InvTheorem`, `TypeTheorem`, `PaidIsMovedTheorem` and
`BooksAgreeTheorem`, from `PaymentsAssumption`. `PaidIsMoved` needs that a request about to save a
paid row has the transaction in the books already (`ShapeOf`) and that no transaction leaves them.
`BooksAgree` needs to know of the row in somebody's hands what it needs of the row at rest: `InHand`
says that the books agree with the row as it is until the money moves, and with the row about to be
written after that; `Alone` that an untangled row is in one request's hands; `RefsOwn` and
`IdsUnique` that a reversal finds the transaction of its own row.

`WorkflowStartProofs` proves `InvTheorem`, `TypeTheorem`, `OneStarterTheorem` and
`ReplayTheorem`, from `StartAssumption`, for keys that were not raced. The invariant follows a
call by the row it waits for: one that starts does so under a live row (`WaitedFor`), a row that has
expired waits for nobody (`ExpiredAlone`), and a call that begins while its key has a
live answer can only find it, even when the key expires before it looks (`LateFinds`).

`JobQueueProofs` proves of the log `LogInvTheorem`, `LogTypeTheorem`, `BudgetTheorem` and
`LogTruthfulTheorem`; `CorrespondenceDispatchProofs` proves `InvTheorem`, `TypeTheorem`, `MailsBoundedTheorem` and
`CompletedIsDeliveredTheorem`; both from `QueueAssumption`, the second with `DispatchAssumption`, over the
lemmas of `JobQueueProofs`: each step of the queue keeps every job's budget, and a job only moves
onward (its numbers grow, and completed is final). What the log or a row says of a job is then stable.
For the log, `UpdatesTruthful` carries the fact in the updates on their way. For the dispatch,
`MailedByRuns` ties a run's position in the handler to its mail, `RunsApart` keeps two workers from
being in the same run, and `MarkedForPush` traces every mark to a push, copies in memory included.

`DocumentStoreProofs` proves `InvTheorem`, `TypeTheorem`, `LimitTheorem`, `FileTheorem` and
`AccountedTheorem`, from `StoreAssumption`. `LimitKept` is about a cardinality: the documents that count
grow only when an upload passes its second count, and at that moment the count of all listed ones is
within the limit (`CountedStep`), by the cardinality of a subset of a finite set.

`WorkflowTokensProofs` proves, from `TokensAssumption`, so for every definition, any number of requests
and any number of faults:

| theorem | property |
| --- | --- |
| `TypeTheorem` | `TypeOK` |
| `NothingLeftTheorem` | `NothingLeft` |
| `BranchesTheorem` | `BranchesAccounted` |
| `ConsumedTheorem` | `ConsumedForGood` |
| `TokensApartTheorem` | no two requests carry the same token |
| `JoinTheorem` | a walk that comes to a join halts there and takes no token |
| `InvTheorem` | `IInv`, the inductive invariant |

`JoinTheorem` is the other half of the finding `JoinPasses`: the run shows one definition in which the
join waits for good, the theorem that no definition has another. It needs no more than `ForkedByForks`
and that a join which is reached has an incoming flow.

The invariant has to speak of the whole call stack:

- `StackOK`: each call on the stack fits the one that made it. `followFlow` runs with its own token, a
  fork's branches with new ones, an embedded definition with none; below a fork is a call whose
  element is that fork. Tokens of calls with a fork or an embedded definition between them differ
  (`Parted`), and a walk without a token is under no fork (`Alone`).
- `WalkOK`: the element and token in hand fit the call on top, and the walk stays inside its embedded
  definition or outside (`Reached`).
- `CarryOK`: the calls a walk will go on in (`Resumes`) find their tokens where they left them, and
  none of the tokens still to be used is consumed. A `followFlow` whose callee halts only hands the halt on
  and uses its token no more, which is what makes `ConsumedForGood` true although `moveToken` looks at no
  status. When a result lets the walk go on (`Back`), it is a fork that ended all its branches.
- `BranchesAccounted` is inductive with these: a token leaves a walk's hands only at a task that has its
  row or job (`Placed`), at a sub-process, at a fork, consumed, waiting, cancelled or torn.
- `ControlKept`: without a cancel or a terminate, either some live token is `Stuck` - no request will
  move or consume it, so `MayComplete` is false for good - or control is in one place (`OneControl`):
  one request that goes on, or one open task. A request that found no live token is then the only one,
  with no task open, and walks only through the end events that are left to it (`Ending`).

A step of a request touches its own tokens, none of another's, and never brings a consumed one back
(`Moves`); `OtherRequests` derives from this that whatever the others say of themselves stays true. Each
action then has one lemma about its own request. Before it was proved, `IInv` was checked by TLC on the
instance of `tokens` (191,870 states, all of them) and on the first four million states of a larger
definition with a cycle, forks in branches of branches and embedded definitions inside one another.

Only model-checked: the liveness properties (`EveryJobSettles`, `EveryKeyAnswered`, `EveryWalkEnds`,
`EveryDispatchSettles`), which with `ENABLED` are out of the prover's reach - `EveryWalkEnds` would also
need an induction over the definition, and is false for a definition with a cycle the walk can stay in -
and of course the violations. Every safety property of a passing run is proved.

## 6. Not modelled, and why

- Time: SLA durations, backoff delays, handler timeouts. A timer may fire at any moment. The expiry of
  a start key is an event (`WorkflowStart`); in `WorkflowOrchestrator` a key never expires.
- Force-skip in a forked instance, the form values of its branches and their keys: `WorkflowTokens`
  leaves them to `WorkflowOrchestrator`, which has no tokens.
- A second instance: rows of two instances meet nowhere but in the key table, whose keys carry the
  instance id.
- Client keys used for two different tasks are in the model (`ClientKeys`); their result then
  answers the wrong request, which the code allows too.
- Sums of binary floating-point amounts: the ledger counts in whole numbers. TLC and the provers have
  no floats; `balance >= amount` may miss by a rounding error in the code.
- Transaction ids are ten different digits in some order, 3.3 million in all. An id drawn twice makes
  a credit an upsert that changes nothing but a status. The ledger draws fresh ids.
- The connection pool, in which a lock holder needs a second connection for its work. Waiting for it
  until the lock transaction ends is a `Fail` or a `Lapse`.
- The table name in the raw query that finds the transactions to reverse; the ledger assumes it
  resolves.

- BullMQ, Prisma, Postgres, Redis and the storage providers: modelled from how the code uses them.
- Child jobs, pausing, removing and cleaning jobs; subscriptions and the resolution of recipients;
  one-time and guest donations.
- The outbox dispatcher, which marks rows and hands them to nobody (a row whose mark was refused stays
  `failed`, no cycle takes it again); the numbering of the event log,
  whose collision is a `Reject`.
- Token vault, json store, cron, custom forms, users, projects, activities, meetings, reports: in the
  plan below. Authentication, seeds, scripts, the document generator, observability and the public
  site keep no state of their own or pass a request on.

Of the repository's TypeScript, more than 120 000 lines are the generated Prisma client
(`apps/api/src/shared/persistence/prisma/`), and most of the rest are DTOs, controllers, queries,
mappers and seeds, which change no state. The map covers about 3 500 lines: most of the code in which
two requests, a job or a crash can meet.

## 7. Plan

Done: `WorkflowOrchestrator`, `WorkflowStart`, `WorkflowTokens`, `JobQueue` with `JobLog`,
`CorrespondenceDispatch`, `FinanceLedger` with `LedgerBook`, `FinancePayments`, `DocumentStore`.

Left, in order:

1. `JsonStoreCache` (a value read before a write and cached after its eviction) and `TokenVault`
   (OAuth state and code, concurrent refresh).
2. The outbox dispatcher and the numbering of the event log, once the first has a receiver.
3. `CronTrigger` (look-back window against trigger calls and job ids).
4. Status tables: forms, reports against their approval workflow, users against the identity
   provider, projects.

Runs are kept few: a new module gets one passing run for its properties together and, where it
disagrees with what the repository says, one violation run.
